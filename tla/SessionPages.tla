----------------------------- MODULE SessionPages -----------------------------
(* A client walks through a user's recent sessions page by page while the      *)
(* sessions go on: listUserSessions of the session repository over the rows of *)
(* the recent-session projection.  Each page is one SELECT; between two pages  *)
(* the client holds nothing but the cursor.                                    *)
EXTENDS Integers, FiniteSets

CONSTANTS Sessions,   \* session ids, ordered as the index orders them
          Limit,      \* page size of the walk
          MaxTime,    \* bound on the clock
          MaxWrites,  \* bound on the writes during a walk
          None

VARIABLES lastActiveAt,  \* the projection: time of a listed session, 0 for one not listed
          clock,
          walk,          \* "idle", "walking" or "ended"
          cursor,        \* nextCursor of the last page, None before the first
          delivered,     \* keys of all pages so far
          page,          \* keys of the last page
          untouched,     \* history: listed when the walk began, not written since
          clean,         \* history: no write since the last page
          writes

vars == <<lastActiveAt, clock, walk, cursor, delivered, page, untouched, clean, writes>>

ASSUME PagesAssumption ==
  /\ Sessions \subseteq Nat /\ IsFiniteSet(Sessions)
  /\ Limit \in Nat \ {0} /\ MaxTime \in Nat /\ MaxWrites \in Nat
  /\ None \notin Nat \X Sessions

Key == Nat \X Sessions
KeyOf(s) == <<lastActiveAt[s], s>>
Listed == {s \in Sessions : lastActiveAt[s] # 0}

\* ORDER BY last_active_at DESC, session_id DESC
Above(j, k) == j[1] > k[1] \/ (j[1] = k[1] /\ j[2] > k[2])

\* Mutant: the cursor's own row is included.
MatchesInclusive(k) == cursor = None \/ Above(cursor, k) \/ cursor = k

\* Mutant: the cursor compares times alone.
MatchesTime(k) == cursor = None \/ cursor[1] > k[1]

\* WHERE the row comes after the cursor
Matches(k) == cursor = None \/ Above(cursor, k)

Matching == {k \in {KeyOf(s) : s \in Listed} : Matches(k)}

\* top holds the first n keys of S, or all of them
IsTop(top, S, n) ==
  /\ Cardinality(top) = IF Cardinality(S) < n THEN Cardinality(S) ELSE n
  /\ \A a \in top, b \in S \ top : Above(a, b)

Lowest(S, k) == k \in S /\ \A j \in S \ {k} : Above(j, k)

-------------------------------------------------------------------------------
Init ==
  /\ clock \in 1..MaxTime
  /\ lastActiveAt \in [Sessions -> 0..clock]
  /\ walk = "idle"
  /\ cursor = None
  /\ delivered = {}
  /\ page = {}
  /\ untouched = {}
  /\ clean = TRUE
  /\ writes = 0

\* Mutant: hasMore is never false.
ReadPageAlwaysMore ==
  \E rows \in SUBSET Matching :
    /\ IsTop(rows, Matching, Limit + 1)
    /\ \E items \in SUBSET rows :
         /\ IsTop(items, rows, Limit)
         /\ page' = items
         /\ delivered' = delivered \cup items
         /\ walk' = "walking"
         /\ IF items = {} THEN UNCHANGED cursor
            ELSE \E last \in items : Lowest(items, last) /\ cursor' = last

\* Mutant: the page keeps the row fetched to look ahead.
ReadPageWithExtra ==
  \E rows \in SUBSET Matching :
    /\ IsTop(rows, Matching, Limit + 1)
    /\ \E items \in SUBSET rows :
         /\ IsTop(items, rows, Limit)
         /\ page' = rows
         /\ delivered' = delivered \cup items
         /\ IF Cardinality(rows) > Limit
            THEN walk' = "walking" /\ \E last \in items : Lowest(items, last) /\ cursor' = last
            ELSE walk' = "ended" /\ cursor' = None

(* One row more than the page is fetched, to know whether there are more.      *)
ReadPage ==
  \E rows \in SUBSET Matching :
    /\ IsTop(rows, Matching, Limit + 1)
    /\ \E items \in SUBSET rows :
         /\ IsTop(items, rows, Limit)
         /\ page' = items
         /\ delivered' = delivered \cup items
         /\ IF Cardinality(rows) > Limit
            THEN walk' = "walking" /\ \E last \in items : Lowest(items, last) /\ cursor' = last
            ELSE walk' = "ended" /\ cursor' = None

FirstPage ==
  /\ walk = "idle"
  /\ untouched' = Listed
  /\ clean' = TRUE
  /\ ReadPage
  /\ UNCHANGED <<lastActiveAt, clock, writes>>

NextPage ==
  /\ walk = "walking"
  /\ clean' = TRUE
  /\ ReadPage
  /\ UNCHANGED <<lastActiveAt, clock, untouched, writes>>

(* Any write of a session's row moves it in the projection, to the time its    *)
(* request took before the write, which may lie behind the clock; an archive   *)
(* removes it.                                                                 *)
Write(s, time) ==
  /\ writes < MaxWrites
  /\ writes' = writes + 1
  /\ lastActiveAt' = [lastActiveAt EXCEPT ![s] = time]
  /\ untouched' = untouched \ {s}
  /\ clean' = FALSE
  /\ UNCHANGED <<clock, walk, cursor, delivered, page>>

Tick ==
  /\ clock < MaxTime
  /\ clock' = clock + 1
  /\ UNCHANGED <<lastActiveAt, walk, cursor, delivered, page, untouched, clean, writes>>

Next ==
  \/ FirstPage
  \/ NextPage
  \/ Tick
  \/ \E s \in Sessions, time \in 0..clock : Write(s, time)

Spec == Init /\ [][Next]_vars

-------------------------------------------------------------------------------
(* Properties.                                                                 *)

TypeOK ==
  /\ clock \in 1..MaxTime
  /\ lastActiveAt \in [Sessions -> 0..clock]
  /\ walk \in {"idle", "walking", "ended"}
  /\ cursor \in ((0..MaxTime) \X Sessions) \cup {None}
  /\ page \subseteq delivered /\ delivered \subseteq (0..MaxTime) \X Sessions
  /\ untouched \subseteq Listed
  /\ clean \in BOOLEAN
  /\ writes \in 0..MaxWrites

(* A session that nothing wrote during the walk is on one of its pages when    *)
(* the walk ends (and, as its key never comes twice, on no other), whatever    *)
(* happened to the others between the pages; only one that was touched can be  *)
(* missed, or met again at another time (postgres-session-repository.ts:216).  *)
UntouchedIsListedOnce ==
  walk = "ended" => \A s \in untouched : KeyOf(s) \in delivered

(* Every page lies below all that was delivered before it, so no row with its  *)
(* time is delivered twice.                                                    *)
PagesDescend ==
  [][NextPage => \A j \in delivered, k \in page' : Above(j, k)]_vars

(* openapi.yaml:1204 has hasMore say whether another page can be fetched with  *)
(* the cursor: if nothing was written meanwhile the next page is not empty.    *)
HasMoreIsHonest ==
  [][NextPage /\ clean => page' # {}]_vars

(* The inductive invariant.  The cursor is the lowest key delivered so far.    *)
CursorIsLowest ==
  walk = "walking" => cursor \in delivered /\ \A j \in delivered : j = cursor \/ Above(j, cursor)

IdleIsEmpty == walk = "idle" => delivered = {} /\ cursor = None

(* What nothing wrote has been delivered or is still to come.                  *)
UntouchedIsAhead ==
  walk = "walking" => \A s \in untouched : KeyOf(s) \in delivered \/ Above(cursor, KeyOf(s))

(* Behind a page with more lies a row, until something is written.             *)
MoreIsAhead == walk = "walking" /\ clean => \E s \in Listed : Above(cursor, KeyOf(s))

IInv ==
  /\ TypeOK /\ CursorIsLowest /\ IdleIsEmpty /\ UntouchedIsAhead /\ MoreIsAhead
  /\ UntouchedIsListedOnce

===============================================================================
