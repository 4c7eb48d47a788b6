------------------------------ MODULE RunStream ------------------------------
(***************************************************************************)
(* What the event stream of a run promises its reader, whatever else       *)
(* happens in the service: it opens once with its greeting, carries the    *)
(* executor's events only until the run is cancelled, and carries nothing  *)
(* once it has ended; run.failed, if it comes, is the last event.          *)
(***************************************************************************)
EXTENDS Sequences, SequencesExt

CONSTANTS Runs, ExecutorEvents

VARIABLES stream, sent

Greetings == {<<"message.accepted">>, <<"session.created", "message.accepted">>}

Init ==
  /\ stream = [r \in Runs |-> "none"]
  /\ sent = [r \in Runs |-> <<>>]

Hijack(r) ==
  /\ stream[r] = "none"
  /\ stream' = [stream EXCEPT ![r] = "hijacked"]
  /\ UNCHANGED sent

Open(r) ==
  /\ stream[r] = "hijacked"
  /\ stream' = [stream EXCEPT ![r] = "open"]
  /\ \E g \in Greetings : sent' = [sent EXCEPT ![r] = g]

Publish(r, e) ==
  /\ stream[r] = "open"
  /\ e = "run.cancelled" \/ ~Contains(sent[r], "run.cancelled")
  /\ sent' = [sent EXCEPT ![r] = Append(@, e)]
  /\ UNCHANGED stream

Close(r) ==
  /\ stream[r] = "open"
  /\ stream' = [stream EXCEPT ![r] = "closed"]
  /\ sent' = sent \/ sent' = [sent EXCEPT ![r] = Append(@, "run.failed")]

\* The connections are lost.
Cut ==
  /\ \E lost \in SUBSET {r \in Runs : stream[r] \in {"hijacked", "open"}} :
       stream' = [r \in Runs |-> IF r \in lost THEN "cut" ELSE stream[r]]
  /\ UNCHANGED sent

Next ==
  \/ \E r \in Runs :
       \/ Hijack(r) \/ Open(r) \/ Close(r)
       \/ \E e \in ExecutorEvents \cup {"run.cancelled"} : Publish(r, e)
  \/ Cut

Spec == Init /\ [][Next]_<<stream, sent>>

=============================================================================
