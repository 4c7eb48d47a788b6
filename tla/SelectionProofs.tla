--------------------------- MODULE SelectionProofs ---------------------------
(***************************************************************************)
(* Lemmas about the selection from a sequence, by induction on its length. *)
(***************************************************************************)
EXTENDS Selection, Integers, WellFoundedInduction, NaturalsInduction,
        SequenceTheorems, TLAPS

\* A set of naturals that has a member has a least one.
LEMMA LeastNatural ==
  ASSUME NEW T \in SUBSET Nat, NEW k \in T
  PROVE  \E x \in T : \A y \in T : x <= y
<1>1. IsWellFoundedOn(OpToRel(<, Nat), Nat)
  BY NatLessThanWellFounded
<1>2. PICK x \in T : \A y \in T : ~(<<y, x>> \in OpToRel(<, Nat))
  BY <1>1, WFMin
<1>3. \A y \in T : ~(y < x)
  BY <1>2 DEF OpToRel
<1>4. QED BY <1>3

\* A set that holds 0 and, with a natural, the next one holds them all.
LEMMA Inductive ==
  ASSUME NEW T, 0 \in T, \A k \in Nat : k \in T => k + 1 \in T
  PROVE  Nat \subseteq T
<1>1. SUFFICES ASSUME NEW n \in Nat, n \notin T PROVE FALSE
  OBVIOUS
<1>2. PICK x \in Nat \ T : \A y \in Nat \ T : x <= y
  BY <1>1, LeastNatural
<1>3. x # 0 /\ x - 1 \in Nat /\ x - 1 \in T
  BY <1>2
<1>4. QED BY <1>2, <1>3

-----------------------------------------------------------------------------
(* The function Select is defined with.                                     *)

\* f is the selection of every initial segment of s, up to length k.
Selects(f, s, S, k) ==
  f = [n \in 0..k |-> IF n = 0 THEN <<>>
                      ELSE IF s[n] \in S THEN Append(f[n - 1], s[n]) ELSE f[n - 1]]

\* There is such a function, and it yields sequences over the set.
LEMMA SelectionExists ==
  ASSUME NEW V, NEW s \in Seq(V), NEW S
  PROVE  \A k \in 0..Len(s) :
           \E f \in [0..k -> Seq(V \cap S)] : Selects(f, s, S, k)
<1> DEFINE T == {k \in Nat : k <= Len(s) =>
                   \E f \in [0..k -> Seq(V \cap S)] : Selects(f, s, S, k)}
<1>1. 0 \in T
  <2> DEFINE f == [n \in 0..0 |-> <<>>]
  <2>1. f \in [0..0 -> Seq(V \cap S)]
    OBVIOUS
  <2>2. Selects(f, s, S, 0)
    BY DEF Selects
  <2>3. QED BY <2>1, <2>2
<1>2. ASSUME NEW k \in Nat, k \in T PROVE k + 1 \in T
  <2>1. SUFFICES ASSUME k + 1 <= Len(s)
                 PROVE  \E f \in [0..(k + 1) -> Seq(V \cap S)] : Selects(f, s, S, k + 1)
    OBVIOUS
  <2>2. PICK f \in [0..k -> Seq(V \cap S)] : Selects(f, s, S, k)
    BY <1>2, <2>1
  <2> DEFINE next == IF s[k + 1] \in S THEN Append(f[k], s[k + 1]) ELSE f[k]
             g == [n \in 0..(k + 1) |-> IF n = k + 1 THEN next ELSE f[n]]
  <2>3. s[k + 1] \in V /\ f[k] \in Seq(V \cap S)
    BY <2>1, <2>2
  <2>4. next \in Seq(V \cap S)
    BY <2>3
  <2>5. g \in [0..(k + 1) -> Seq(V \cap S)]
    BY <2>2, <2>4
  <2>6. Selects(g, s, S, k + 1)
    <3>1. ASSUME NEW n \in 0..k
          PROVE  f[n] = IF n = 0 THEN <<>>
                        ELSE IF s[n] \in S THEN Append(f[n - 1], s[n]) ELSE f[n - 1]
      BY <2>2 DEF Selects
    <3> HIDE DEF next
    <3>2. \A n \in 0..k : g[n] = f[n]
      OBVIOUS
    <3>3. g[k + 1] = next
      OBVIOUS
    <3>4. \A n \in 0..(k + 1) : n # 0 => n - 1 \in 0..k
      OBVIOUS
    <3>5. ASSUME NEW n \in 0..(k + 1)
          PROVE  g[n] = IF n = 0 THEN <<>>
                        ELSE IF s[n] \in S THEN Append(g[n - 1], s[n]) ELSE g[n - 1]
      <4>1. CASE n = k + 1
        BY <3>2, <3>3, <4>1 DEF next
      <4>2. CASE n \in 0..k
        <5>1. n # 0 => n - 1 \in 0..k
          BY <4>2
        <5> HIDE DEF g
        <5>2. QED BY <3>1, <3>2, <4>2, <5>1
      <4>3. QED BY <4>1, <4>2
    <3>6. g = [n \in 0..(k + 1) |-> g[n]]
      OBVIOUS
    <3> HIDE DEF g
    <3>7. QED BY <3>5, <3>6 DEF Selects
  <2>7. QED BY <2>5, <2>6
<1>3. Nat \subseteq T
  <2> HIDE DEF T
  <2>1. QED BY <1>1, <1>2, Inductive
<1>4. QED BY <1>3

\* s and t are the same up to length k.
Agree(s, t, k) == \A n \in 1..k : s[n] = t[n]

\* Two such functions agree where their sequences do.
LEMMA SelectionIsUnique ==
  ASSUME NEW s, NEW t, NEW S, NEW f, NEW g, NEW k \in Nat, NEW m \in Nat, k <= m,
         Selects(f, s, S, k), Selects(g, t, S, m),
         Agree(s, t, k)
  PROVE  f[k] = g[k]
<1> DEFINE T == {n \in Nat : n <= k => f[n] = g[n]}
<1>1. 0 \in T
  BY DEF Selects
<1>2. ASSUME NEW n \in Nat, n \in T PROVE n + 1 \in T
  <2>1. SUFFICES ASSUME n + 1 <= k PROVE f[n + 1] = g[n + 1]
    OBVIOUS
  <2>2. f[n] = g[n] /\ s[n + 1] = t[n + 1]
    BY <1>2, <2>1 DEF Agree
  <2>3. /\ n + 1 \in 0..k /\ n + 1 \in 0..m /\ n + 1 # 0 /\ (n + 1) - 1 = n
    BY <2>1
  <2>4. f[n + 1] = IF s[n + 1] \in S THEN Append(f[n], s[n + 1]) ELSE f[n]
    BY <2>3 DEF Selects
  <2>5. g[n + 1] = IF t[n + 1] \in S THEN Append(g[n], t[n + 1]) ELSE g[n]
    BY <2>3 DEF Selects
  <2>6. QED BY <2>2, <2>4, <2>5
<1>3. Nat \subseteq T
  <2> HIDE DEF T
  <2>1. QED BY <1>1, <1>2, Inductive
<1>4. QED BY <1>3

\* Select is the value of such a function.
LEMMA SelectIsSelection ==
  ASSUME NEW V, NEW s \in Seq(V), NEW S
  PROVE  \E f \in [0..Len(s) -> Seq(V \cap S)] :
           Selects(f, s, S, Len(s)) /\ Select(s, S) = f[Len(s)]
<1> DEFINE f == CHOOSE f : Selects(f, s, S, Len(s))
<1>1. PICK h \in [0..Len(s) -> Seq(V \cap S)] : Selects(h, s, S, Len(s))
  <2>1. Len(s) \in 0..Len(s)
    OBVIOUS
  <2>2. QED BY <2>1, SelectionExists
<1>2. Selects(f, s, S, Len(s))
  BY <1>1
<1>3. Select(s, S) = f[Len(s)]
  BY DEF Select, Selects
<1>4. \A n \in 0..Len(s) : f[n] = h[n]
  <2>1. SUFFICES ASSUME NEW n \in 0..Len(s) PROVE f[n] = h[n]
    OBVIOUS
  <2> DEFINE T == {k \in Nat : k <= Len(s) => f[k] = h[k]}
  <2> HIDE DEF f
  <2>2. 0 \in T
    BY <1>1, <1>2 DEF Selects
  <2>3. ASSUME NEW k \in Nat, k \in T PROVE k + 1 \in T
    <3>1. SUFFICES ASSUME k + 1 <= Len(s) PROVE f[k + 1] = h[k + 1]
      OBVIOUS
    <3>2. k + 1 \in 0..Len(s) /\ k + 1 # 0 /\ (k + 1) - 1 = k /\ f[k] = h[k]
      BY <2>3, <3>1
    <3>3. f[k + 1] = IF s[k + 1] \in S THEN Append(f[k], s[k + 1]) ELSE f[k]
      BY <1>2, <3>2 DEF Selects
    <3>4. h[k + 1] = IF s[k + 1] \in S THEN Append(h[k], s[k + 1]) ELSE h[k]
      BY <1>1, <3>2 DEF Selects
    <3>5. QED BY <3>2, <3>3, <3>4
  <2>4. Nat \subseteq T
    <3> HIDE DEF T
    <3>1. QED BY <2>2, <2>3, Inductive
  <2>5. QED BY <2>4
<1>5. f = h
  <2> HIDE DEF f
  <2>1. f = [n \in 0..Len(s) |-> f[n]] /\ h = [n \in 0..Len(s) |-> h[n]]
    BY <1>1, <1>2 DEF Selects
  <2>2. QED BY <1>4, <2>1
<1>6. QED BY <1>1, <1>3, <1>5

-----------------------------------------------------------------------------
(* What Select does to the sequences the models build.                      *)

\* A selection holds elements of the sequence that are in the set.
LEMMA SelectIsTyped ==
  ASSUME NEW V, NEW s \in Seq(V), NEW S
  PROVE  Select(s, S) \in Seq(V \cap S)
BY SelectIsSelection

LEMMA SelectOfEmpty ==
  ASSUME NEW S
  PROVE  Select(<<>>, S) = <<>>
<1>1. <<>> \in Seq({})
  OBVIOUS
<1>2. PICK f \in [0..Len(<<>>) -> Seq({} \cap S)] :
        Selects(f, <<>>, S, Len(<<>>)) /\ Select(<<>>, S) = f[Len(<<>>)]
  BY ONLY <1>1, SelectIsSelection
<1>3. Len(<<>>) = 0
  OBVIOUS
<1>4. QED BY <1>2, <1>3 DEF Selects

\* One more element is selected or not, after the others.
LEMMA SelectOfAppend ==
  ASSUME NEW V, NEW s \in Seq(V), NEW x \in V, NEW S
  PROVE  Select(Append(s, x), S) =
           IF x \in S THEN Append(Select(s, S), x) ELSE Select(s, S)
<1> DEFINE t == Append(s, x)
           k == Len(s)
<1>1. t \in Seq(V) /\ Len(t) = k + 1 /\ k \in Nat /\ t[k + 1] = x
      /\ \A n \in 1..k : s[n] = t[n]
  OBVIOUS
<1> HIDE DEF t
<1>2. PICK f : Selects(f, s, S, k) /\ Select(s, S) = f[k]
  BY SelectIsSelection
<1>3. PICK g : Selects(g, t, S, k + 1) /\ Select(t, S) = g[k + 1]
  <2>1. t \in Seq(V) /\ Len(t) = k + 1
    BY <1>1
  <2>2. PICK g : Selects(g, t, S, Len(t)) /\ Select(t, S) = g[Len(t)]
    BY <2>1, SelectIsSelection
  <2>3. QED BY <2>1, <2>2
<1>4. f[k] = g[k]
  <2>1. ASSUME NEW m \in Nat, NEW n \in Nat, m <= n, Agree(s, t, m),
               Selects(f, s, S, m), Selects(g, t, S, n)
        PROVE  f[m] = g[m]
    BY <2>1, SelectionIsUnique
  <2>2. k \in Nat /\ k + 1 \in Nat /\ k <= k + 1 /\ Agree(s, t, k)
    BY <1>1 DEF Agree
  <2>3. Selects(f, s, S, k) /\ Selects(g, t, S, k + 1)
    BY <1>2, <1>3
  <2> HIDE DEF k
  <2>4. QED BY <2>1, <2>2, <2>3
<1>5. g[k + 1] = IF t[k + 1] \in S THEN Append(g[k], t[k + 1]) ELSE g[k]
  <2>1. k + 1 \in 0..(k + 1) /\ k + 1 # 0 /\ (k + 1) - 1 = k
    BY <1>1
  <2>2. QED BY <1>3, <2>1 DEF Selects
<1>6. QED BY <1>1, <1>2, <1>3, <1>4, <1>5 DEF t

\* A sequence that is not empty is its front and its last element.
LEMMA FrontAndLast ==
  ASSUME NEW V, NEW s \in Seq(V), Len(s) # 0
  PROVE  \E front \in Seq(V), x \in V :
           Len(s) = Len(front) + 1 /\ s = Append(front, x)
<1> DEFINE k == Len(s) - 1
           front == [i \in 1..k |-> s[i]]
<1>1. front \in Seq(V) /\ Len(front) = k
  OBVIOUS
<1>2. s[k + 1] \in V
  OBVIOUS
<1>3. s = Append(front, s[k + 1])
  OBVIOUS
<1>4. Len(s) = Len(front) + 1
  BY <1>1
<1> HIDE DEF front, k
<1>5. QED BY <1>1, <1>2, <1>3, <1>4

\* An element is appended to a concatenation by appending it to its second part.
AppendsToConcat(V) ==
  \A a, b \in Seq(V), x \in V : Append(a \o b, x) = a \o Append(b, x)

LEMMA AppendToConcat ==
  ASSUME NEW V
  PROVE  AppendsToConcat(V)
<1>1. SUFFICES ASSUME NEW a \in Seq(V), NEW b \in Seq(V), NEW x \in V
               PROVE  Append(a \o b, x) = a \o Append(b, x)
  BY Zenon DEF AppendsToConcat
<1> DEFINE one == Append(a \o b, x)
           other == a \o Append(b, x)
<1>2. /\ one \in Seq(V) /\ other \in Seq(V)
      /\ Len(one) = Len(a) + Len(b) + 1 /\ Len(other) = Len(one)
  OBVIOUS
<1>3. \A i \in 1..Len(one) : one[i] = other[i]
  OBVIOUS
<1>4. one = other
  <2> HIDE DEF one, other
  <2>1. QED BY <1>2, <1>3
<1>5. QED BY <1>4

\* The selection of a concatenation is the concatenation of the selections.
SelectsInParts(s, t, S) == Select(s \o t, S) = Select(s, S) \o Select(t, S)

LEMMA SelectOfConcat ==
  ASSUME NEW V, NEW s \in Seq(V), NEW t \in Seq(V), NEW S
  PROVE  SelectsInParts(s, t, S)
<1>0. AppendsToConcat(V)
  BY AppendToConcat
<1> DEFINE T == {k \in Nat : \A u \in Seq(V) :
                   Len(u) = k => Select(s \o u, S) = Select(s, S) \o Select(u, S)}
<1>1. 0 \in T
  <2>1. SUFFICES ASSUME NEW u \in Seq(V), Len(u) = 0
                 PROVE  Select(s \o u, S) = Select(s, S) \o Select(u, S)
    OBVIOUS
  <2>2. u = <<>> /\ s \o u = s
    BY <2>1
  <2>3. Select(s, S) \in Seq(V \cap S) /\ Select(u, S) = <<>>
    BY <2>2, SelectIsTyped, SelectOfEmpty
  <2>4. QED BY <2>2, <2>3
<1>2. ASSUME NEW k \in Nat, k \in T PROVE k + 1 \in T
  <2>1. SUFFICES ASSUME NEW u \in Seq(V), Len(u) = k + 1
                 PROVE  Select(s \o u, S) = Select(s, S) \o Select(u, S)
    OBVIOUS
  <2>2. PICK front \in Seq(V), x \in V : Len(front) = k /\ u = Append(front, x)
    <3>1. Len(u) # 0
      BY <2>1
    <3>2. PICK front \in Seq(V), x \in V :
            Len(u) = Len(front) + 1 /\ u = Append(front, x)
      BY <3>1, FrontAndLast
    <3>3. QED BY <2>1, <3>2
  <2>3. Select(s \o front, S) = Select(s, S) \o Select(front, S)
    BY <1>2, <2>2
  <2>4. s \o front \in Seq(V) /\ s \o u = Append(s \o front, x)
    BY <2>2
  <2>5. Select(Append(s \o front, x), S) =
          IF x \in S THEN Append(Select(s \o front, S), x) ELSE Select(s \o front, S)
    BY <2>4, SelectOfAppend
  <2>9. Select(u, S) = IF x \in S THEN Append(Select(front, S), x) ELSE Select(front, S)
    BY <2>2, SelectOfAppend
  <2>6. Select(s, S) \in Seq(V \cap S) /\ Select(front, S) \in Seq(V \cap S)
    BY SelectIsTyped
  <2>7. Select(s, S) \in Seq(V) /\ Select(front, S) \in Seq(V)
    BY <2>6
  <2>8. Append(Select(s, S) \o Select(front, S), x) = Select(s, S) \o Append(Select(front, S), x)
    <3>1. PICK a \in Seq(V) : a = Select(s, S)
      BY <2>7
    <3>2. PICK b \in Seq(V) : b = Select(front, S)
      BY <2>7
    <3>3. Append(a \o b, x) = a \o Append(b, x)
      BY <1>0, Zenon DEF AppendsToConcat
    <3>5. QED BY <3>1, <3>2, <3>3
  <2>10. QED BY <2>3, <2>4, <2>5, <2>8, <2>9
<1>3. Nat \subseteq T
  <2> HIDE DEF T
  <2>1. QED BY <1>1, <1>2, Inductive
<1>4. Len(t) \in T
  BY <1>3
<1>5. QED BY <1>4 DEF SelectsInParts

\* A selection by a set that holds everything changes nothing.
LEMMA SelectOfAll ==
  ASSUME NEW S, NEW s \in Seq(S)
  PROVE  Select(s, S) = s
<1> DEFINE T == {k \in Nat : \A u \in Seq(S) : Len(u) = k => Select(u, S) = u}
<1>1. 0 \in T
  BY SelectOfEmpty
<1>2. ASSUME NEW k \in Nat, k \in T PROVE k + 1 \in T
  <2>1. SUFFICES ASSUME NEW u \in Seq(S), Len(u) = k + 1 PROVE Select(u, S) = u
    OBVIOUS
  <2>2. PICK front \in Seq(S), x \in S : Len(front) = k /\ u = Append(front, x)
    <3>1. Len(u) # 0
      BY <2>1
    <3>2. PICK front \in Seq(S), x \in S :
            Len(u) = Len(front) + 1 /\ u = Append(front, x)
      BY <3>1, FrontAndLast
    <3>3. QED BY <2>1, <3>2
  <2>3. Select(front, S) = front
    BY <1>2, <2>2
  <2>4. QED BY <2>2, <2>3, SelectOfAppend
<1>3. Nat \subseteq T
  <2> HIDE DEF T
  <2>1. QED BY <1>1, <1>2, Inductive
<1>4. Len(s) \in T
  BY <1>3
<1>5. QED BY <1>4

\* What belongs to the set is selected.
LEMMA SelectKeeps ==
  ASSUME NEW V, NEW s \in Seq(V), NEW S
  PROVE  \A i \in 1..Len(s) :
           s[i] \in S => \E j \in 1..Len(Select(s, S)) : Select(s, S)[j] = s[i]
<1> DEFINE Kept(u) == \A i \in 1..Len(u) :
                        u[i] \in S => \E j \in 1..Len(Select(u, S)) : Select(u, S)[j] = u[i]
           T == {k \in Nat : \A u \in Seq(V) : Len(u) = k => Kept(u)}
<1>1. 0 \in T
  OBVIOUS
<1>2. ASSUME NEW k \in Nat, k \in T PROVE k + 1 \in T
  <2> HIDE DEF Kept
  <2>1. SUFFICES ASSUME NEW u \in Seq(V), Len(u) = k + 1 PROVE Kept(u)
    OBVIOUS
  <2>2. PICK front \in Seq(V), x \in V : Len(front) = k /\ u = Append(front, x)
    <3>1. Len(u) # 0
      BY <2>1
    <3>2. PICK front \in Seq(V), x \in V :
            Len(u) = Len(front) + 1 /\ u = Append(front, x)
      BY <3>1, FrontAndLast
    <3>3. QED BY <2>1, <3>2
  <2>3. Kept(front)
    BY <1>2, <2>2
  <2>4. SUFFICES ASSUME NEW i \in 1..Len(u), u[i] \in S
                 PROVE  \E j \in 1..Len(Select(u, S)) : Select(u, S)[j] = u[i]
    BY DEF Kept
  <2> HIDE DEF T
  <2>5. /\ \A j \in 1..k : u[j] = front[j]
        /\ u[k + 1] = x
    BY <2>2
  <2>6. Select(front, S) \in Seq(V)
    <3>1. Select(front, S) \in Seq(V \cap S)
      BY SelectIsTyped
    <3>2. QED BY <3>1
  <2>7. Select(u, S) = IF x \in S THEN Append(Select(front, S), x) ELSE Select(front, S)
    BY <2>2, SelectOfAppend
  <2> DEFINE f == Select(front, S)
             g == Select(u, S)
  <2>8. /\ Len(f) \in Nat /\ Len(g) \in Nat /\ Len(f) <= Len(g)
        /\ \A j \in 1..Len(f) : g[j] = f[j]
        /\ x \in S => Len(g) = Len(f) + 1 /\ g[Len(f) + 1] = x
    BY <2>6, <2>7
  <2> HIDE DEF f, g
  <2>9. CASE i = k + 1
    <3>1. x \in S /\ u[i] = x
      BY <2>4, <2>5, <2>9
    <3>2. Len(f) + 1 \in 1..Len(g) /\ g[Len(f) + 1] = u[i]
      BY <2>8, <3>1
    <3>3. QED BY <3>2 DEF g
  <2>10. CASE i \in 1..k
    <3>1. front[i] = u[i] /\ i \in 1..Len(front)
      BY <2>2, <2>5, <2>10
    <3>2. PICK j \in 1..Len(f) : f[j] = u[i]
      BY <2>3, <2>4, <3>1 DEF f, Kept
    <3>3. j \in 1..Len(g) /\ g[j] = u[i]
      BY <2>8, <3>2
    <3>4. QED BY <3>3 DEF g
  <2>11. QED BY <2>1, <2>9, <2>10
<1>3. Nat \subseteq T
  <2> HIDE DEF T
  <2>1. QED BY <1>1, <1>2, Inductive
<1>4. Len(s) \in T
  BY <1>3
<1>5. QED BY <1>4
===============================================================================
