-------------------------- MODULE SandboxExecution --------------------------
(***************************************************************************)
(* One execution in a Kubernetes pod: the scheduler creates a ConfigMap    *)
(* and a pod, polls the pod's log, hands the events in it to the consumer  *)
(* one by one, and deletes both.  The sandbox executor around it copies    *)
(* every event to the host transcript once the consumer has asked for the  *)
(* next one.  Scheduler, executor and consumer are generators and their    *)
(* caller: the executor moves only while a next() of the consumer is open, *)
(* and a consumer that leaves never calls next() again.                    *)
(*                                                                         *)
(* The pod, the kubelet and the API server are external.  At most          *)
(* MaxFaults calls to the API or the file system fail, a pod logs at most  *)
(* MaxLines lines, and the text of an error has at most MaxErrorLines.     *)
(***************************************************************************)
EXTENDS Naturals, Sequences

CONSTANTS MaxLines, MaxErrorLines, MaxFaults

ASSUME BoundsAssumption ==
  MaxLines \in Nat /\ MaxErrorLines \in 0..MaxLines /\ MaxFaults \in Nat

VARIABLES
  pc,         \* where the executor stands
  outcome,    \* how it will end once it has cleaned up
  consumer,   \* "pulling", or "gone" without having drained the executor
  pod,        \* the pod's phase, or why there is no pod
  configMap,  \* does the job's ConfigMap exist?
  log,        \* the lines the pod has written: an event, run.failed, sandbox.done
  rotated,    \* how many of them are no longer in the file the kubelet reads
  batch,      \* the answer to a read that the scheduler is going through
  final,      \* was it read after the pod had terminated?
  consumed,   \* how many lines of an answer the scheduler has dealt with
  delivered,  \* the events the consumer received
  mirrored,   \* how many of them are in the host transcript
  failed,     \* the places at which a call failed
  faults

vars == <<pc, outcome, consumer, pod, configMap, log, rotated, batch, final,
          consumed, delivered, mirrored, failed, faults>>

cluster == <<pod, configMap>>
written == <<log, rotated>>
reading == <<written, batch, final, consumed, delivered, mirrored>>

Phases == {"Pending", "Running", "Succeeded", "Failed"}
Lines  == {"event", "run.failed", "sandbox.done"}
Ended  == {"returned", "threw"}
Calls  == {"mirroringUser", "creatingConfigMap", "creatingPod", "awaitingPhase",
           "readingLog", "checkingPhase", "mirroring", "deletingPod",
           "deletingConfigMap"}

\* An answer is the log from some line on, as far as it is written, possibly with
\* a piece of the next line; or it is the text of an error, foreign to the log.
Read == [from : 0..MaxLines, whole : 0..MaxLines, torn : BOOLEAN, foreign : BOOLEAN]

NoAnswer == [from |-> 0, whole |-> 0, torn |-> FALSE, foreign |-> FALSE]

\* What the consumer receives: a line of the log, or a line foreign to it.
Foreign == 0
Item    == [line : 0..MaxLines, torn : BOOLEAN]

TypeOK ==
  /\ pc \in Calls \cup Ended \cup {"delivering", "suspended", "dead"}
  /\ outcome \in {"none", "returned", "threw", "withoutDone"}
  /\ consumer \in {"pulling", "gone"}
  /\ pod \in Phases \cup {"absent", "deleted", "lost"}
  /\ configMap \in BOOLEAN
  /\ log \in Seq(Lines) /\ Len(log) <= MaxLines
  /\ rotated \in 0..Len(log)
  /\ batch \in Read
  /\ final \in BOOLEAN
  /\ consumed \in 0..MaxLines
  /\ delivered \in Seq(Item)
  /\ mirrored \in 0..MaxLines
  /\ failed \subseteq Calls
  /\ faults \in 0..MaxFaults

Init ==
  /\ pc = "mirroringUser"
  /\ outcome = "none"
  /\ consumer = "pulling"
  /\ pod = "absent"
  /\ configMap = FALSE
  /\ log = <<>>
  /\ rotated = 0
  /\ batch = NoAnswer
  /\ final = FALSE
  /\ consumed = 0
  /\ delivered = <<>>
  /\ mirrored = 0
  /\ failed = {}
  /\ faults = 0

-----------------------------------------------------------------------------
(* The executor's own steps, each up to its next await or yield.           *)

At(place)   == pc = place /\ UNCHANGED consumer
Goto(place) == pc' = place

Fault ==
  /\ faults < MaxFaults
  /\ faults' = faults + 1
  /\ failed' = failed \cup {pc}

NoFault == UNCHANGED <<faults, failed>>

\* The scheduler's finally block runs, then the outcome is reported.
CleanUp(end) == outcome' = end /\ Goto("deletingPod")

UserMirrored ==
  /\ At("mirroringUser")
  /\ \/ NoFault /\ Goto("creatingConfigMap") /\ UNCHANGED outcome
     \/ Fault /\ Goto("threw") /\ outcome' = "threw"
  /\ UNCHANGED <<cluster, reading>>

\* The call stands before the try block: when it fails nothing is cleaned up.
ConfigMapCreated ==
  /\ At("creatingConfigMap")
  /\ \/ NoFault /\ configMap' = TRUE /\ Goto("creatingPod") /\ UNCHANGED outcome
     \/ Fault /\ configMap' \in BOOLEAN /\ Goto("threw") /\ outcome' = "threw"
  /\ UNCHANGED <<pod, reading>>

\* Mutant: the creation of the pod stands before the try block, too.
PodCreatedUntried ==
  /\ At("creatingPod")
  /\ \/ NoFault /\ pod' = "Pending" /\ Goto("awaitingPhase") /\ UNCHANGED outcome
     \/ Fault /\ pod' \in {"absent", "Pending"} /\ Goto("threw") /\ outcome' = "threw"
  /\ UNCHANGED <<configMap, reading>>

PodCreated ==
  /\ At("creatingPod")
  /\ \/ NoFault /\ pod' = "Pending" /\ Goto("awaitingPhase") /\ UNCHANGED outcome
     \/ Fault /\ pod' \in {"absent", "Pending"} /\ CleanUp("threw")
  /\ UNCHANGED <<configMap, reading>>

\* A phase that cannot be read counts as no phase, and the wait goes on.
PhaseReached ==
  /\ At("awaitingPhase")
  /\ \/ pod \in {"Running", "Succeeded", "Failed"} /\ NoFault /\ Goto("readingLog")
     \/ Fault /\ UNCHANGED pc
  /\ UNCHANGED <<outcome, cluster, reading>>

\* 120 seconds without one of the phases.
PhaseTimedOut ==
  /\ At("awaitingPhase")
  /\ NoFault /\ CleanUp("threw")
  /\ UNCHANGED <<cluster, reading>>

OfTheLog(isTorn) == [from |-> rotated, whole |-> Len(log) - rotated, torn |-> isTorn,
                     foreign |-> FALSE]
Text(lines)      == [from |-> rotated, whole |-> lines, torn |-> FALSE, foreign |-> TRUE]

\* The status of the answer is not looked at.  JSON that is no event counts for
\* nothing, as the API server's word that there is no such pod; any other text
\* counts line by line, as that of a proxy, or of a kubelet that cannot read the
\* log.  Only a call that gets no answer throws.
LogRead ==
  /\ At("readingLog")
  /\ \/ /\ NoFault
        /\ \/ /\ pod \in Phases
              /\ \E torn \in BOOLEAN :
                   /\ torn => pod = "Running" /\ Len(log) < MaxLines
                   /\ batch' = OfTheLog(torn)
           \/ pod \notin Phases /\ batch' = Text(0)
        /\ Goto("delivering") /\ UNCHANGED outcome
     \/ /\ Fault
        /\ \E lines \in 0..MaxErrorLines : batch' = Text(lines)
        /\ Goto("delivering") /\ UNCHANGED outcome
     \/ Fault /\ CleanUp("threw") /\ UNCHANGED batch
  /\ UNCHANGED <<cluster, written, final, consumed, delivered, mirrored>>

NextLine == consumed + 1

\* The places of the answer, and what stands there.
IsWhole(i)    == i <= batch.whole
IsTorn(i)     == i = batch.whole + 1 /\ batch.torn
LineAt(i)     == IF batch.foreign THEN Foreign ELSE batch.from + i
Says(i, line) == IsWhole(i) /\ ~batch.foreign /\ log[batch.from + i] = line

\* A yield: the consumer takes the event and asks for the next one, unless it is
\* gone or the event is run.failed; then nobody resumes the generator.
Deliver ==
  /\ pc = "delivering"
  /\ IsTorn(NextLine) \/ IsWhole(NextLine)
  /\ ~Says(NextLine, "sandbox.done")
  /\ \/ consumer = "gone" /\ Goto("suspended") /\ UNCHANGED <<consumer, delivered>>
     \/ /\ consumer = "pulling"
        /\ delivered' = Append(delivered, [line |-> LineAt(NextLine),
                                         torn |-> ~IsWhole(NextLine)])
        /\ IF Says(NextLine, "run.failed")
           THEN Goto("suspended") /\ consumer' = "gone"
           ELSE Goto("mirroring") /\ UNCHANGED consumer
  /\ NoFault
  /\ UNCHANGED <<outcome, cluster, written, batch, final, consumed, mirrored>>

\* Mutant: consumedCount is not advanced.
EventMirroredAgain ==
  /\ At("mirroring")
  /\ \/ /\ NoFault /\ mirrored' = mirrored + 1 /\ UNCHANGED consumed
        /\ Goto("delivering") /\ UNCHANGED outcome
     \/ /\ Fault /\ Goto("threw") /\ outcome' = "threw"
        /\ UNCHANGED <<mirrored, consumed>>
  /\ UNCHANGED <<cluster, written, batch, final, delivered>>

\* An error here leaves the executor's loop, and the scheduler's generator where
\* it is: its finally block does not run.
EventMirrored ==
  /\ At("mirroring")
  /\ \/ /\ NoFault /\ mirrored' = mirrored + 1 /\ consumed' = NextLine
        /\ Goto("delivering") /\ UNCHANGED outcome
     \/ /\ Fault /\ Goto("threw") /\ outcome' = "threw"
        /\ UNCHANGED <<mirrored, consumed>>
  /\ UNCHANGED <<cluster, written, batch, final, delivered>>

\* Mutant: sandbox.done is looked for at the end of what was read.
DoneSeenAhead ==
  /\ At("delivering")
  /\ batch.whole > 0 /\ Says(batch.whole, "sandbox.done")
  /\ batch' = NoAnswer
  /\ NoFault /\ CleanUp("returned")
  /\ UNCHANGED <<cluster, written, final, consumed, delivered, mirrored>>

DoneSeen ==
  /\ At("delivering")
  /\ Says(NextLine, "sandbox.done")
  /\ batch' = NoAnswer
  /\ NoFault /\ CleanUp("returned")
  /\ UNCHANGED <<cluster, written, final, consumed, delivered, mirrored>>

BatchDone ==
  /\ At("delivering")
  /\ ~IsWhole(NextLine) /\ ~IsTorn(NextLine)
  /\ \/ ~final /\ Goto("checkingPhase") /\ UNCHANGED outcome
     \/ final /\ CleanUp("withoutDone")
  /\ batch' = NoAnswer
  /\ NoFault
  /\ UNCHANGED <<cluster, written, final, consumed, delivered, mirrored>>

\* Mutant: only a pod that succeeded counts as terminated.
PhaseCheckedSucceeded ==
  /\ At("checkingPhase")
  /\ \/ final' = (pod = "Succeeded") /\ NoFault
     \/ Fault /\ UNCHANGED final
  /\ Goto("readingLog")
  /\ UNCHANGED <<outcome, cluster, written, batch, consumed, delivered, mirrored>>

PhaseChecked ==
  /\ At("checkingPhase")
  /\ \/ final' = (pod \in {"Succeeded", "Failed"}) /\ NoFault
     \/ Fault /\ UNCHANGED final
  /\ Goto("readingLog")
  /\ UNCHANGED <<outcome, cluster, written, batch, consumed, delivered, mirrored>>

\* Mutant: a pod that has already exited is not deleted.
PodDeletedForgotten ==
  /\ At("deletingPod")
  /\ \/ NoFault /\ pod' = IF pod \in {"Pending", "Running"} THEN "deleted" ELSE pod
     \/ Fault /\ UNCHANGED pod
  /\ Goto("deletingConfigMap")
  /\ UNCHANGED <<outcome, configMap, reading>>

PodDeleted ==
  /\ At("deletingPod")
  /\ \/ NoFault /\ pod' = IF pod \in Phases THEN "deleted" ELSE pod
     \/ Fault /\ UNCHANGED pod
  /\ Goto("deletingConfigMap")
  /\ UNCHANGED <<outcome, configMap, reading>>

ConfigMapDeleted ==
  /\ At("deletingConfigMap")
  /\ \/ NoFault /\ configMap' = FALSE
     \/ Fault /\ UNCHANGED configMap
  /\ Goto(IF outcome = "returned" THEN "returned" ELSE "threw")
  /\ UNCHANGED <<outcome, pod, reading>>

-----------------------------------------------------------------------------
(* The consumer and the process.                                           *)

Going == pc \notin Ended \cup {"suspended", "dead"}

\* The run is cancelled while a next() is open.
ConsumerLeaves ==
  /\ Going /\ consumer = "pulling"
  /\ consumer' = "gone"
  /\ UNCHANGED <<pc, outcome, cluster, reading, failed, faults>>

Crash ==
  /\ Going
  /\ Goto("dead")
  /\ UNCHANGED <<outcome, consumer, cluster, reading, failed, faults>>

-----------------------------------------------------------------------------
(* The cluster and the harness in the pod.                                 *)

unseen == <<pc, outcome, consumer, configMap, batch, final, consumed, delivered,
            mirrored, failed, faults>>

\* The pod waits for its ConfigMap, and may fail to start.
PodStarts ==
  /\ pod = "Pending"
  /\ \/ configMap /\ pod' = "Running"
     \/ pod' = "Failed"
  /\ UNCHANGED <<unseen, written>>

PodWrites(line) ==
  /\ pod = "Running"
  /\ Len(log) < MaxLines
  /\ log # <<>> => log[Len(log)] = "event"
  /\ log' = Append(log, line)
  /\ UNCHANGED <<unseen, rotated, pod>>

\* The kubelet starts a new file; the older lines are not read any more.
LogRotates ==
  /\ pod = "Running"
  /\ rotated < Len(log) /\ rotated' = Len(log)
  /\ UNCHANGED <<unseen, log, pod>>

\* With status 0 even before sandbox.done, when noting the harness's failure in
\* the transcript fails, too; or it is killed.
PodExits ==
  /\ pod = "Running"
  /\ pod' \in {"Succeeded", "Failed"}
  /\ UNCHANGED <<unseen, written>>

\* Someone else removes the pod: a drained node, an operator.
PodLost ==
  /\ pod \in Phases
  /\ pod' = "lost"
  /\ UNCHANGED <<unseen, written>>

\* The executor is at rest, and so is its pod.
AtRest ==
  /\ ~Going /\ pod \notin {"Pending", "Running"}
  /\ UNCHANGED vars

ExecutorStep ==
  \/ UserMirrored \/ ConfigMapCreated \/ PodCreated \/ PhaseReached \/ PhaseTimedOut
  \/ LogRead \/ Deliver \/ EventMirrored \/ DoneSeen \/ BatchDone \/ PhaseChecked
  \/ PodDeleted \/ ConfigMapDeleted

Next ==
  \/ ExecutorStep \/ ConsumerLeaves \/ Crash
  \/ PodStarts \/ PodExits \/ PodLost \/ LogRotates
  \/ \E line \in Lines : PodWrites(line)
  \/ AtRest

Spec == Init /\ [][Next]_vars

\* The event loop runs the executor, and the harness in a pod comes to an end:
\* nothing in the code limits how long it runs.
LiveSpec == Spec /\ WF_vars(ExecutorStep) /\ WF_vars(PodExits)

-----------------------------------------------------------------------------
(* Properties.                                                             *)

\* Over any number of polls the consumer gets the lines of the log in their order
\* and none twice.  Until the kubelet rotates the log, what it gets as the i-th
\* event is the i-th line, whole or as the fragment it was when it was read, or a
\* line of an error's text, which takes that one line's place and no other's; without
\* a failing read there is no such text.
DeliveredInOrder ==
  /\ \A i, j \in DOMAIN delivered :
       i < j /\ delivered[i].line # Foreign /\ delivered[j].line # Foreign =>
         delivered[i].line < delivered[j].line
  /\ rotated = 0 => \A i \in DOMAIN delivered : delivered[i].line \in {Foreign, i}
  /\ \A i \in DOMAIN delivered : delivered[i].line = Foreign => "readingLog" \in failed

\* An execution that returns has seen sandbox.done, and has mirrored every event
\* the consumer received: as many as there are lines before it, unless the log
\* was rotated.
ReturnIsComplete ==
  outcome = "returned" =>
    /\ log[Len(log)] = "sandbox.done"
    /\ mirrored = Len(delivered)
    /\ rotated = 0 => Len(log) = Len(delivered) + 1

\* An execution that has ended leaves its pod only if deleting it failed, and its
\* ConfigMap only if deleting or creating it was reported as failed; or if the
\* host transcript could not be written.
EndedIsCleanedUp ==
  pc \in Ended =>
    /\ pod \in Phases => failed \cap {"deletingPod", "mirroring"} # {}
    /\ configMap => failed \cap {"deletingConfigMap", "creatingConfigMap",
                                 "mirroring"} # {}

\* An execution ends, or is given up, unless its pod is taken away from it: a lost
\* pod has no phase, and the scheduler polls it for ever.
ExecutionEnds == <>(~Going \/ pod = "lost")

\* The inductive invariant behind the three: what a read can have seen, how far
\* reading, delivery and mirroring are apart, where in the log a delivered line can
\* come from, and which objects the cluster holds while the execution stands where
\* it stands.
ReadIsOfTheLog ==
  /\ batch.from <= rotated
  /\ ~batch.foreign => /\ batch.from + batch.whole <= Len(log)
                       /\ batch.torn => batch.from + batch.whole < MaxLines
  /\ batch.foreign => ~batch.torn /\ (batch.whole > 0 => "readingLog" \in failed)
  /\ \A i \in 1..(Len(log) - 1) : log[i] = "event"
  /\ pc = "mirroring" => IsWhole(NextLine) \/ IsTorn(NextLine)

DeliveryIsInStep ==
  /\ mirrored = consumed
  /\ Len(delivered) \in {consumed, NextLine}
  /\ pc = "mirroring" => Len(delivered) = NextLine
  /\ pc \in {"awaitingPhase", "readingLog", "delivering", "checkingPhase"} =>
       Len(delivered) = consumed
  /\ pc \notin {"deletingPod", "deletingConfigMap", "suspended", "dead"} \cup Ended =>
       outcome = "none"
  /\ outcome = "returned" => /\ Len(delivered) = consumed
                             /\ Len(log) \in NextLine..(rotated + NextLine)
                             /\ log[Len(log)] = "sandbox.done"

ReadFrom == IF pc \in {"delivering", "mirroring"} THEN batch.from ELSE rotated

LinesComeFromReads ==
  \A i \in DOMAIN delivered :
    delivered[i].line # Foreign => delivered[i].line \in i..(ReadFrom + i)

ClusterIsKnown ==
  /\ pc \in {"mirroringUser", "creatingConfigMap", "creatingPod"} =>
       pod = "absent" /\ delivered = <<>> /\ consumed = 0
  /\ pc \in {"mirroringUser", "creatingConfigMap"} => ~configMap
  /\ pc = "deletingConfigMap" => (pod \in Phases => "deletingPod" \in failed)
  /\ EndedIsCleanedUp

IInv ==
  /\ TypeOK /\ ReadIsOfTheLog /\ DeliveryIsInStep /\ LinesComeFromReads
  /\ DeliveredInOrder /\ ClusterIsKnown

-----------------------------------------------------------------------------
(* What the code and its documentation say.                                *)

\* The scheduler deletes the pod when the run completes: once the consumer is
\* through with the run, by failure or cancellation, its pod goes.
CompletedRunDropsPod ==
  consumer = "gone" ~> pod \notin Phases \/ failed # {} \/ pc = "dead"

=============================================================================
