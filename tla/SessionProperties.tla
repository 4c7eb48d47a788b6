-------------------------- MODULE SessionProperties --------------------------
(***************************************************************************)
(* What the session service promises: first under any interleaving of      *)
(* requests, then when each client waits for its answers.                  *)
(***************************************************************************)
EXTENDS SessionService, SequencesExt

(* Under any interleaving, with failing database calls and crashes.        *)

\* A registered cancel closure belongs to a run of that session whose stream is
\* open: markActive overwrites and markIdle deletes by session, yet no entry
\* outlives its run, so a cancel never writes to an ended response.
RegistryEntryIsLive ==
  \A s \in Creates :
    registry[s] # NoRun =>
      /\ SessionOf[registry[s]] = s
      /\ pc[registry[s]] \in Live
      /\ stream[registry[s]] = "open"

\* The event streams keep the contract of RunStream: nothing after the end, no
\* executor event after run.cancelled, run.failed only at the very end.
Stream == INSTANCE RunStream

StreamContract == Stream!Spec

\* No write of a request that read the session before it was archived brings the
\* archived row back.
ArchiveIsPermanent ==
  [][\A s \in Creates : row[s].archived => row'[s].archived]_vars

\* Every visible session is in its owner's recent list, whatever transactions
\* failed or interleaved.
VisibleIsListed == \A s \in Creates : Visible(s) => row[s].listed

Recorded(s) == <<"session.created", s>> \in audit

FailureRecorded(s) ==
  \E r \in Runs : SessionOf[r] = s /\ <<"session.run_failed", r>> \in audit

\* The audit trail is never behind the table: a stored session has its
\* session.created record, and a session in error has the session.run_failed
\* record of one of its runs.
AuditCoversRow ==
  \A s \in Creates :
    /\ row[s].stored => Recorded(s)
    /\ row[s].status = "error" => FailureRecorded(s)

\* The inductive invariant behind AuditCoversRow: a request that is to write a row
\* works on a session whose creation is recorded, a failure is recorded before it is
\* written, and a status a rename or an archive read, to be written back, was error
\* only in a session with a recorded failure.
WritingBack == {"renaming", "checking", "archiving"}

WritersAreRecorded ==
  \A q \in Requests :
    /\ \/ pc[q] \in Live \cup WritingBack \cup {"writing", "written"}
       \/ q \in Submits /\ pc[q] = "auditing"
       => Recorded(SessionOf[q])
    /\ pc[q] = "writingFailure" => FailureRecorded(SessionOf[q])
    /\ pc[q] \in WritingBack /\ seen[q].status = "error" => FailureRecorded(SessionOf[q])

AuditInv == TypeOK /\ AuditCoversRow /\ WritersAreRecorded

\* The inductive invariant behind the registry and the streams: a response is taken
\* over before its stream opens and open as long as its run goes on, and the
\* cancellation state of a run is set before run.cancelled is on its stream.
StreamFollowsRun ==
  \A r \in Runs :
    /\ pc[r] = "idle" => stream[r] = "none"
    /\ pc[r] \in Opening => stream[r] = "hijacked"
    /\ pc[r] \in Live => stream[r] = "open"

CancelIsNoticed ==
  \A r \in Runs : Contains(sent[r], "run.cancelled") => r \in stopped

IInv == TypeOK /\ StreamFollowsRun /\ RegistryEntryIsLive /\ CancelIsNoticed

-----------------------------------------------------------------------------
(* With clients that wait for their answers.                               *)

\* The stored status moves as SessionLifecycle says: an archived session was not
\* running, a session settles once per run.
Phase == [s \in Creates |->
            IF ~row[s].stored THEN "absent"
            ELSE IF row[s].archived THEN "archived" ELSE row[s].status]

Lifecycle == INSTANCE SessionLifecycle WITH Sessions <- Creates, phase <- Phase

LifecycleContract == Lifecycle!Spec

\* While the stream of a run is open, the session is reported as running and its
\* run can be cancelled.
OpenRunIsRegistered ==
  \A r \in Runs : stream[r] = "open" =>
    /\ registry[SessionOf[r]] = r
    /\ ReportedStatus(SessionOf[r]) = "running"

\* The session names the file that holds the turn of each of its completed runs,
\* so that no completed turn vanishes from the transcript.
TurnIsReadable ==
  \A r \in Runs : pc[r] = "completed" /\ turnFile[r] # NoRun =>
    row[SessionOf[r]].file = turnFile[r]

\* As long as nothing has failed, a session is stored as running only on account of
\* a run that is on its way: no session is left running for ever.
RunningHasARun ==
  \A s \in Creates : row[s].status = "running" /\ faults + crashes = 0 =>
    \E r \in Runs : SessionOf[r] = s /\ pc[r] \in Live \cup {"written"}

\* The inductive invariant behind these four.  No two requests on a session, cancels
\* excepted, are under way together, and its create is the first of them.
UnderWay(q) == pc[q] \notin Ends \cup {"idle"}

OneAtATime ==
  \A p, q \in Requests \ Cancels :
    p # q /\ SessionOf[p] = SessionOf[q] => ~UnderWay(p) \/ ~UnderWay(q)

NewRow(s) == [stored |-> FALSE, archived |-> FALSE, listed |-> FALSE,
              status |-> "idle", name |-> s, file |-> NoRun]

CreateIsFirst ==
  \A s \in Creates :
    /\ seen[s] = [status |-> "idle", name |-> s, file |-> NoRun]
    /\ pc[s] = "idle" =>
         /\ row[s] = NewRow(s)
         /\ \A q \in Requests \ Cancels : SessionOf[q] = s => pc[q] = "idle"

\* What a request under way has read is still what the row holds, but for what it
\* has written itself.
Current(q) ==
  LET s == SessionOf[q] IN
  /\ IF q \in Creates /\ pc[q] \in {"auditing", "writing"}
     THEN row[s] = NewRow(s) ELSE Visible(s)
  /\ pc[q] # "rereading" => seen[q].name = row[s].name
  /\ seen[q].file \in {NoRun, row[s].file}
  /\ pc[q] \in Opening \cup {"running", "settling"} => seen[q].file = row[s].file
  /\ pc[q] \in WritingBack => seen[q].status = row[s].status
  /\ pc[q] = "archiving" => seen[q].status # "running"
  /\ pc[q] \in {"written", "running", "settling", "halting", "writingHalt"} =>
       row[s].status = "running"
  /\ q \in Runs /\ pc[q] = "settling" =>
       turnFile[q] = seen[q].file \/ seen[q].file = NoRun
  /\ q \in Runs /\ pc[q] = "settled" => turnFile[q] \in {NoRun, row[s].file}
  /\ pc[q] \in Closing /\ faults + crashes = 0 => row[s].status # "running"

SeenIsCurrent == \A q \in Requests \ Cancels : UnderWay(q) => Current(q)

OpenIsLive == \A r \in Runs : stream[r] = "open" => pc[r] \in Live

SerialInv ==
  /\ IInv /\ OneAtATime /\ CreateIsFirst /\ SeenIsCurrent /\ OpenIsLive
  /\ OpenRunIsRegistered /\ TurnIsReadable /\ RunningHasARun

-----------------------------------------------------------------------------
(* Progress.                                                               *)

\* The event stream of a run ends, provided that the run's execution ends: no
\* failure in the closing steps, and no other run, leaves the client waiting.
StreamsEnd ==
  \A r \in Runs :
    WF_vars(ExecutorEnds(r)) => (stream[r] = "open" ~> stream[r] # "open")

\* A cancelled run ends its stream whatever its executor does or fails to do.
CancelEndsRun ==
  \A r \in Runs : r \in stopped /\ stream[r] = "open" ~> stream[r] # "open"

LiveSpec == Spec /\ ServerFairness

-----------------------------------------------------------------------------
(* What the interface documentation says.                                  *)

\* A running session may be renamed, and is then called by its new name: nothing but
\* a rename changes the name of a stored session.
NameIsKept ==
  [][\A s \in Creates :
       row[s].stored /\ row'[s].name # row[s].name =>
         \E n \in Renames : pc[n] = "renaming" /\ pc'[n] # pc[n]]_vars

=============================================================================
