------------------------------ MODULE PagesProofs ------------------------------
(* Theorems about SessionPages, for every set of sessions, page size and       *)
(* number of writes.  The walk is followed by its cursor: everything above it  *)
(* was delivered, what nothing wrote is delivered or below it.                 *)
EXTENDS SessionPages, FiniteSetTheorems, TLAPS

(* The keys of the rows are ordered by the index.                              *)
LEMMA AboveIsTransitive ==
  ASSUME NEW i \in Nat \X Sessions, NEW j \in Nat \X Sessions, NEW k \in Nat \X Sessions,
         Above(i, j), Above(j, k)
  PROVE  Above(i, k)
  <1>1. /\ i[1] \in Int /\ j[1] \in Int /\ k[1] \in Int
        /\ i[2] \in Int /\ j[2] \in Int /\ k[2] \in Int
    <2>1. i[1] \in Nat /\ j[1] \in Nat /\ k[1] \in Nat OBVIOUS
    <2>2. i[2] \in Sessions /\ j[2] \in Sessions /\ k[2] \in Sessions OBVIOUS
    <2>3. \A n \in Nat : n \in Int OBVIOUS
    <2>4. Sessions \subseteq Nat BY PagesAssumption
    <2> QED BY <2>1, <2>2, <2>3, <2>4
  <1>2. i[1] > j[1] \/ (i[1] = j[1] /\ i[2] > j[2]) BY DEF Above
  <1>3. j[1] > k[1] \/ (j[1] = k[1] /\ j[2] > k[2]) BY DEF Above
  <1>4. i[1] > k[1] \/ (i[1] = k[1] /\ i[2] > k[2]) BY <1>1, <1>2, <1>3
  <1> QED BY <1>4 DEF Above

(* Every matching key is the key of a listed session.                          *)
LEMMA MatchingKeys ==
  ASSUME TypeOK
  PROVE  /\ Matching \subseteq (0..MaxTime) \X Sessions
         /\ \A k \in Matching : \E s \in Listed : k = KeyOf(s)
  BY PagesAssumption DEF TypeOK, Matching, Listed, KeyOf

(* A SELECT finds finitely many rows.                                          *)
LEMMA MatchingIsFinite ==
  ASSUME TypeOK
  PROVE  IsFiniteSet(Matching)
  <1> DEFINE keys == {KeyOf(s) : s \in Listed}
             f == [s \in Listed |-> KeyOf(s)]
  <1>1. IsFiniteSet(Listed) BY FS_Subset, PagesAssumption DEF Listed
  <1>2. f \in Surjection(Listed, keys) BY DEF Surjection
  <1>3. IsFiniteSet(keys) BY <1>1, <1>2, FS_Surjection
  <1> QED BY <1>3, FS_Subset DEF Matching

(* A page that has no more after it holds all matching rows, one that has more *)
(* leaves a row out, and a page is empty only when nothing matches.            *)
LEMMA PageShape ==
  ASSUME TypeOK,
         NEW rows \in SUBSET Matching, IsTop(rows, Matching, Limit + 1),
         NEW items \in SUBSET rows, IsTop(items, rows, Limit)
  PROVE  /\ Cardinality(rows) > Limit => \E k \in rows : k \notin items
         /\ ~(Cardinality(rows) > Limit) => items = Matching
         /\ Matching # {} => items # {}
  <1>1. IsFiniteSet(Matching) /\ IsFiniteSet(rows) /\ IsFiniteSet(items)
    BY MatchingIsFinite, FS_Subset
  <1>2. /\ Cardinality(Matching) \in Nat /\ Cardinality(rows) \in Nat
        /\ Cardinality(items) \in Nat /\ Limit \in Nat \ {0}
    BY <1>1, FS_CardinalityType, PagesAssumption
  <1>3. /\ Cardinality(rows) = IF Cardinality(Matching) < Limit + 1
                               THEN Cardinality(Matching) ELSE Limit + 1
        /\ Cardinality(items) = IF Cardinality(rows) < Limit THEN Cardinality(rows) ELSE Limit
    BY DEF IsTop
  <1>4. ASSUME Cardinality(rows) > Limit PROVE \E k \in rows : k \notin items
    <2>1. items # rows BY <1>2, <1>3, <1>4
    <2> QED BY <2>1
  <1>5. ASSUME ~(Cardinality(rows) > Limit) PROVE items = Matching
    <2>1. Cardinality(rows) = Cardinality(Matching) /\ Cardinality(items) = Cardinality(rows)
      BY <1>2, <1>3, <1>5
    <2>2. rows = Matching BY <1>1, <2>1, FS_Subset
    <2>3. items = rows BY <1>1, <2>1, FS_Subset
    <2> QED BY <2>2, <2>3
  <1>6. ASSUME Matching # {} PROVE items # {}
    <2>1. Cardinality(Matching) # 0 BY <1>1, <1>6, FS_EmptySet
    <2>2. Cardinality(items) # 0 BY <2>1, <1>2, <1>3
    <2> QED BY <2>2, FS_EmptySet
  <1> QED BY <1>4, <1>5, <1>6

(* A page below the cursor lies below everything delivered.                    *)
LEMMA PageIsBelow ==
  ASSUME IInv, walk = "walking", NEW k \in Matching, NEW j \in delivered
  PROVE  Above(j, k)
  <1>1. cursor # None /\ cursor \in (0..MaxTime) \X Sessions
    BY PagesAssumption DEF IInv, TypeOK, CursorIsLowest
  <1>2. Above(cursor, k) BY <1>1 DEF Matching, Matches
  <1>3. j = cursor \/ Above(j, cursor) BY DEF IInv, CursorIsLowest
  <1>4. j \in Nat \X Sessions /\ k \in Nat \X Sessions /\ cursor \in Nat \X Sessions
    BY <1>1, MatchingKeys, PagesAssumption DEF IInv, TypeOK
  <1> QED BY <1>2, <1>3, <1>4, AboveIsTransitive

(* Reading a page keeps the invariant, when what nothing wrote is delivered or *)
(* matched by the SELECT.                                                      *)
LEMMA ReadKeepsInv ==
  ASSUME IInv, ReadPage, walk \in {"idle", "walking"}, UNCHANGED <<lastActiveAt, clock, writes>>,
         clean' = TRUE, untouched' \subseteq Listed,
         \A s \in untouched' : KeyOf(s) \in delivered \/ KeyOf(s) \in Matching
  PROVE  IInv'
  <1>0. PICK rows \in SUBSET Matching :
          /\ IsTop(rows, Matching, Limit + 1)
          /\ \E items \in SUBSET rows :
               /\ IsTop(items, rows, Limit)
               /\ page' = items
               /\ delivered' = delivered \cup items
               /\ IF Cardinality(rows) > Limit
                  THEN walk' = "walking" /\ \E last \in items : Lowest(items, last) /\ cursor' = last
                  ELSE walk' = "ended" /\ cursor' = None
    BY Zenon DEF ReadPage
  <1>1. PICK items \in SUBSET rows :
          /\ IsTop(items, rows, Limit)
          /\ page' = items
          /\ delivered' = delivered \cup items
          /\ IF Cardinality(rows) > Limit
             THEN walk' = "walking" /\ \E last \in items : Lowest(items, last) /\ cursor' = last
             ELSE walk' = "ended" /\ cursor' = None
    BY <1>0, Zenon
  <1>2. TypeOK BY DEF IInv
  <1>3. /\ \A s : KeyOf(s)' = KeyOf(s)
        /\ Listed' = Listed
    BY DEF KeyOf, Listed
  <1>4. Matching \subseteq (0..MaxTime) \X Sessions BY <1>2, MatchingKeys
  <1>5. CASE Cardinality(rows) > Limit
    <2>1. PICK last \in items : Lowest(items, last) /\ cursor' = last BY <1>1, <1>5
    <2>2. walk' = "walking" BY <1>1, <1>5
    <2>3. \A k \in Matching : k \in items \/ Above(last, k)
      BY <1>0, <1>1, <2>1 DEF IsTop
    <2>4. TypeOK' BY <1>1, <1>2, <1>3, <1>4, <2>1, <2>2 DEF TypeOK
    <2>5. CursorIsLowest'
      <3>1. ASSUME NEW j \in delivered PROVE Above(j, last)
        <4>1. walk = "walking" BY <3>1 DEF IInv, IdleIsEmpty
        <4> QED BY <4>1, PageIsBelow
      <3>2. \A j \in items : j = last \/ Above(j, last) BY <2>1 DEF Lowest
      <3>3. last \in delivered' BY <1>1
      <3> HIDE DEF Above
      <3>4. \A j \in delivered' : j = last \/ Above(j, last) BY <1>1, <3>1, <3>2
      <3> QED BY <2>1, <3>3, <3>4 DEF CursorIsLowest, Above
    <2>6. UntouchedIsAhead'
      BY <1>1, <1>3, <2>1, <2>3 DEF UntouchedIsAhead, Above
    <2>7. MoreIsAhead'
      <3>1. PICK k \in rows : k \notin items BY <1>0, <1>1, <1>2, <1>5, PageShape
      <3>2. Above(last, k) BY <2>3, <3>1
      <3>3. PICK s \in Listed : k = KeyOf(s) BY <1>2, <3>1, MatchingKeys
      <3> QED BY <1>3, <2>1, <3>2, <3>3 DEF MoreIsAhead, Above
    <2> QED BY <2>2, <2>4, <2>5, <2>6, <2>7 DEF IInv, IdleIsEmpty, UntouchedIsListedOnce
  <1>6. CASE ~(Cardinality(rows) > Limit)
    <2>1. walk' = "ended" /\ cursor' = None BY <1>1, <1>6
    <2>2. items = Matching BY <1>0, <1>1, <1>2, <1>6, PageShape
    <2>3. TypeOK' BY <1>1, <1>2, <1>3, <1>4, <2>1 DEF TypeOK
    <2>4. UntouchedIsListedOnce' BY <1>1, <1>3, <2>2 DEF UntouchedIsListedOnce
    <2> QED BY <2>1, <2>3, <2>4
          DEF IInv, CursorIsLowest, IdleIsEmpty, UntouchedIsAhead, MoreIsAhead
  <1> QED BY <1>5, <1>6

(* The first page, the next one and the steps between them.                    *)
LEMMA StepKeepsInv == IInv /\ [Next]_vars => IInv'
  <1> SUFFICES ASSUME IInv, [Next]_vars PROVE IInv' OBVIOUS
  <1>1. CASE FirstPage
    <2>1. \A s \in untouched' : KeyOf(s) \in Matching
      BY <1>1 DEF FirstPage, Matching, Matches, IInv, IdleIsEmpty
    <2> QED BY <1>1, <2>1, ReadKeepsInv DEF FirstPage
  <1>2. CASE NextPage
    <2>1. untouched' = untouched /\ untouched \subseteq Listed
      BY <1>2 DEF NextPage, IInv, TypeOK
    <2>2. \A s \in untouched : KeyOf(s) \in delivered \/ KeyOf(s) \in Matching
      BY <1>2, <2>1 DEF NextPage, IInv, UntouchedIsAhead, Matching, Matches
    <2> QED BY <1>2, <2>1, <2>2, ReadKeepsInv DEF NextPage
  <1>3. CASE Tick
    <2>1. TypeOK' BY <1>3, PagesAssumption DEF Tick, IInv, TypeOK, Listed
    <2> QED BY <1>3, <2>1 DEF Tick, IInv, CursorIsLowest, IdleIsEmpty, UntouchedIsAhead,
                MoreIsAhead, UntouchedIsListedOnce, KeyOf, Listed
  <1>4. ASSUME NEW s \in Sessions, NEW time \in 0..clock, Write(s, time) PROVE IInv'
    <2>1. /\ \A r \in untouched' : r \in untouched /\ lastActiveAt'[r] = lastActiveAt[r]
          /\ \A r \in untouched' : KeyOf(r)' = KeyOf(r)
      BY <1>4 DEF Write, IInv, TypeOK, Listed, KeyOf
    <2>2. TypeOK'
      <3>1. TypeOK BY DEF IInv
      <3>2. /\ clock' \in 1..MaxTime
            /\ walk' \in {"idle", "walking", "ended"}
            /\ cursor' \in ((0..MaxTime) \X Sessions) \cup {None}
            /\ page' \subseteq delivered' /\ delivered' \subseteq (0..MaxTime) \X Sessions
            /\ clean' \in BOOLEAN
        BY <1>4, <3>1 DEF Write, TypeOK
      <3>3. lastActiveAt' \in [Sessions -> 0..clock'] BY <1>4, <3>1 DEF Write, TypeOK
      <3>4. untouched' \subseteq Listed' BY <2>1, <3>1 DEF TypeOK, Listed
      <3>5. writes' \in 0..MaxWrites BY <1>4, <3>1, PagesAssumption DEF Write, TypeOK
      <3> QED BY <3>2, <3>3, <3>4, <3>5 DEF TypeOK
    <2>3. UntouchedIsAhead' /\ UntouchedIsListedOnce'
      BY <1>4, <2>1 DEF Write, IInv, UntouchedIsAhead, UntouchedIsListedOnce, Above
    <2> QED BY <1>4, <2>2, <2>3 DEF Write, IInv, CursorIsLowest, IdleIsEmpty, MoreIsAhead, Above
  <1>5. CASE UNCHANGED vars
    BY <1>5 DEF vars, IInv, TypeOK, CursorIsLowest, IdleIsEmpty, UntouchedIsAhead,
         MoreIsAhead, UntouchedIsListedOnce, KeyOf, Listed, Above
  <1> QED BY <1>1, <1>2, <1>3, <1>4, <1>5 DEF Next

(* The inductive invariant of a walk: the cursor is the lowest key delivered,  *)
(* untouched sessions are delivered or below it, more rows lie below a page    *)
(* that says so.                                                               *)
THEOREM Invariance == Spec => []IInv
  <1>1. Init => IInv
    BY PagesAssumption DEF Init, IInv, TypeOK, CursorIsLowest, IdleIsEmpty, UntouchedIsAhead,
         MoreIsAhead, UntouchedIsListedOnce
  <1> QED BY <1>1, StepKeepsInv, PTL DEF Spec

(* A session that nothing wrote during a walk is on a page of it               *)
(* (postgres-session-repository.ts:216-241).                                   *)
THEOREM NothingUntouchedIsMissed == Spec => []UntouchedIsListedOnce
  <1>1. IInv => UntouchedIsListedOnce BY DEF IInv
  <1> QED BY <1>1, Invariance, PTL

(* No page repeats what an earlier page of the walk delivered.                 *)
THEOREM PagesDescendAlways == Spec => PagesDescend
  <1>1. IInv /\ [Next]_vars => [NextPage => \A j \in delivered, k \in page' : Above(j, k)]_vars
    <2> SUFFICES ASSUME IInv, NextPage, NEW j \in delivered, NEW k \in page'
                 PROVE  Above(j, k)
      OBVIOUS
    <2>1. k \in Matching BY DEF NextPage, ReadPage
    <2> QED BY <2>1, PageIsBelow DEF NextPage
  <1> QED BY <1>1, Invariance, PTL DEF Spec, PagesDescend

(* When hasMore was answered and nothing was written since, the next page is   *)
(* not empty (openapi.yaml:1204).                                              *)
THEOREM MoreIsTrue == Spec => HasMoreIsHonest
  <1>1. IInv /\ [Next]_vars => [NextPage /\ clean => page' # {}]_vars
    <2> SUFFICES ASSUME IInv, NextPage, clean PROVE page' # {}
      OBVIOUS
    <2>1. PICK s \in Listed : Above(cursor, KeyOf(s)) BY DEF NextPage, IInv, MoreIsAhead
    <2>2. Matching # {} BY <2>1 DEF Matching, Matches
    <2>3. PICK rows \in SUBSET Matching :
            /\ IsTop(rows, Matching, Limit + 1)
            /\ \E items \in SUBSET rows : IsTop(items, rows, Limit) /\ page' = items
      BY DEF NextPage, ReadPage
    <2>4. PICK items \in SUBSET rows : IsTop(items, rows, Limit) /\ page' = items
      BY <2>3
    <2>5. TypeOK BY DEF IInv
    <2> QED BY <2>2, <2>3, <2>4, <2>5, PageShape
  <1> QED BY <1>1, Invariance, PTL DEF Spec, HasMoreIsHonest
===============================================================================
