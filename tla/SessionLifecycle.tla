--------------------------- MODULE SessionLifecycle ---------------------------
(***************************************************************************)
(* The life of a session as its client sees it: it begins with a run, is   *)
(* idle or in error between runs, and can be archived, for good, only      *)
(* while it does not run.                                                  *)
(***************************************************************************)
CONSTANT Sessions

VARIABLE phase

Init == phase = [s \in Sessions |-> "absent"]

Become(s, old, new) ==
  /\ phase[s] \in old
  /\ \E p \in new : phase' = [phase EXCEPT ![s] = p]

Begin(s)   == Become(s, {"absent"}, {"running"})
Settle(s)  == Become(s, {"running"}, {"idle", "error"})
Resume(s)  == Become(s, {"idle", "error"}, {"running"})
Archive(s) == Become(s, {"idle", "error"}, {"archived"})

\* A run whose idle status was written, but whose write was reported as failed,
\* is recorded as an error.
Revise(s)  == Become(s, {"idle"}, {"error"})

Next == \E s \in Sessions :
          Begin(s) \/ Settle(s) \/ Resume(s) \/ Archive(s) \/ Revise(s)

Spec == Init /\ [][Next]_phase

=============================================================================
