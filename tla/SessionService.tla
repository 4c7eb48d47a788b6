--------------------------- MODULE SessionService ---------------------------
(***************************************************************************)
(* The managed session service: session rows in PostgreSQL, the in-memory  *)
(* registry of active runs, and the HTTP requests that work on both.  A    *)
(* request is a process; it gives up the only thread where the code        *)
(* awaits, so each action below goes from one await to the next.           *)
(*                                                                         *)
(* A session is named by the request that creates it, a run by the request *)
(* (create or submit) whose event stream it feeds.  At most MaxFaults      *)
(* database calls fail, with or without having taken effect, and the       *)
(* process crashes and restarts at most MaxCrashes times.  With            *)
(* OneRequestAtATime a client waits for an answer before its next request  *)
(* on the same session, cancel excepted: the web page does, the server     *)
(* does not ask for it.                                                    *)
(***************************************************************************)
EXTENDS Naturals, Sequences

CONSTANTS Creates, Submits, Renames, Archives, Cancels, \* request names
          SessionOf,         \* the session a request's URL names
          NoRun,             \* no run
          Wanted,            \* the executor events the client asked to see
          MaxSent,           \* no executor event on a stream this long
          MaxFaults,         \* bound on failing database calls
          MaxCrashes,        \* bound on crashes of the server process
          OneRequestAtATime  \* do clients wait for their answers?

Runs     == Creates \cup Submits
Requests == Runs \cup Renames \cup Archives \cup Cancels
Names    == Creates \cup Renames  \* a session name, by the request that gave it
Files    == Runs \cup {NoRun}     \* a pi session file, by the run that made it

ASSUME RequestsAssumption ==
  /\ Creates \cap (Submits \cup Renames \cup Archives \cup Cancels) = {}
  /\ Submits \cap (Renames \cup Archives \cup Cancels) = {}
  /\ Renames \cap (Archives \cup Cancels) = {}
  /\ Archives \cap Cancels = {}
  /\ NoRun \notin Runs
  /\ SessionOf \in [Requests -> Creates]
  /\ \A c \in Creates : SessionOf[c] = c

ExecutorEvents == {"process", "final.output.delta", "final.output.completed"}

Events == ExecutorEvents \cup
            {"session.created", "message.accepted", "run.cancelled", "run.failed"}

ASSUME BoundsAssumption ==
  /\ Wanted \subseteq ExecutorEvents
  /\ MaxSent \in Nat /\ MaxFaults \in Nat /\ MaxCrashes \in Nat
  /\ OneRequestAtATime \in BOOLEAN

VARIABLES
  row,       \* the session table with its recent-session projection
  audit,     \* the audit records appended so far
  pc,        \* where each request stands
  seen,      \* what a request read of its session before its first write
  turnFile,  \* the pi session file that holds a run's turn
  registry,  \* the run whose cancel closure is registered for a session
  stopped,   \* the runs whose cancellation state is set
  stream,    \* the state of each run's HTTP response
  sent,      \* the events published on it
  faults, crashes

vars == <<row, audit, pc, seen, turnFile, registry, stopped, stream, sent,
          faults, crashes>>

Statuses == {"running", "idle", "error"}

\* Before the stream opens; at the finally block; while the stream is open.
Opening == {"auditing", "writing", "written"}
Closing == {"settled", "halted", "reporting", "aborted"}
Live    == {"running", "settling", "halting", "writingHalt", "failing",
            "writingFailure"} \cup Closing
Ends    == {"completed", "cancelled", "failed", "erred", "ok", "conflict",
            "noRun", "rejected", "dead"}
Places  == {"idle", "renaming", "rereading", "checking", "archiving", "cancelling"}
             \cup Opening \cup Live \cup Ends

Seen == [status: Statuses, name: Names, file: Files]
Row  == [stored: BOOLEAN, archived: BOOLEAN, listed: BOOLEAN,
         status: Statuses, name: Names, file: Files]
Records == {"session.created", "session.message_submitted",
            "session.run_cancelled", "session.run_failed"} \X Runs

TypeOK ==
  /\ row \in [Creates -> Row]
  /\ audit \subseteq Records
  /\ pc \in [Requests -> Places]
  /\ seen \in [Requests -> Seen]
  /\ turnFile \in [Runs -> Files]
  /\ registry \in [Creates -> Files]
  /\ stopped \subseteq Runs
  /\ stream \in [Runs -> {"none", "hijacked", "open", "closed", "cut"}]
  /\ sent \in [Runs -> Seq(Events)]
  /\ faults \in 0..MaxFaults
  /\ crashes \in 0..MaxCrashes

Init ==
  /\ row = [s \in Creates |->
              [stored |-> FALSE, archived |-> FALSE, listed |-> FALSE,
               status |-> "idle", name |-> s, file |-> NoRun]]
  /\ audit = {}
  /\ pc = [q \in Requests |-> "idle"]
  /\ seen = [q \in Requests |->
               [status |-> "idle", name |-> SessionOf[q], file |-> NoRun]]
  /\ turnFile = [r \in Runs |-> NoRun]
  /\ registry = [s \in Creates |-> NoRun]
  /\ stopped = {}
  /\ stream = [r \in Runs |-> "none"]
  /\ sent = [r \in Runs |-> <<>>]
  /\ faults = 0
  /\ crashes = 0

-----------------------------------------------------------------------------
(* The database.  updateSession writes every column from the record it is  *)
(* given, except that an undefined piSessionFile or archivedAt leaves the  *)
(* column alone; in the same transaction the projection row is deleted for *)
(* a record that carries archivedAt and upserted for any other.            *)

Visible(s) == row[s].stored /\ ~row[s].archived

\* Mutant: the projection is updated where it exists, never inserted.
SavedUnlisted(s, status, name, file) ==
  [row EXCEPT ![s] =
     [stored |-> TRUE, archived |-> row[s].archived, listed |-> row[s].listed,
      status |-> status, name |-> name,
      file |-> IF file = NoRun THEN row[s].file ELSE file]]

\* Mutant: archivedAt is written from every record, set or not.
SavedRestoring(s, status, name, file) ==
  [row EXCEPT ![s] =
     [stored |-> TRUE, archived |-> FALSE, listed |-> TRUE,
      status |-> status, name |-> name,
      file |-> IF file = NoRun THEN row[s].file ELSE file]]

Saved(s, status, name, file) ==
  [row EXCEPT ![s] =
     [stored |-> TRUE, archived |-> row[s].archived, listed |-> TRUE,
      status |-> status, name |-> name,
      file |-> IF file = NoRun THEN row[s].file ELSE file]]

SavedArchived(s, v) ==
  [row EXCEPT ![s] =
     [stored |-> TRUE, archived |-> TRUE, listed |-> FALSE,
      status |-> v.status, name |-> v.name,
      file |-> IF v.file = NoRun THEN row[s].file ELSE v.file]]

Goto(q, place) == pc' = [pc EXCEPT ![q] = place]

Fault == faults < MaxFaults /\ faults' = faults + 1

\* One awaited write of request q: it commits and the code goes on at next, or
\* the promise rejects, committed or not, and the code goes on at handler.
Write(q, newRow, newAudit, next, handler) ==
  \/ row' = newRow /\ audit' = newAudit /\ Goto(q, next) /\ UNCHANGED faults
  \/ /\ Fault /\ Goto(q, handler)
     /\ \/ row' = newRow /\ audit' = newAudit
        \/ UNCHANGED <<row, audit>>

\* getSession: a session that is absent or archived is answered 404.
ReadSession(q, next) ==
  /\ row[SessionOf[q]].stored
  /\ \/ /\ Visible(SessionOf[q])
        /\ seen' = [seen EXCEPT ![q] = [status |-> row[SessionOf[q]].status,
                                        name   |-> row[SessionOf[q]].name,
                                        file   |-> row[SessionOf[q]].file]]
        /\ Goto(q, next)
        /\ UNCHANGED faults
     \/ ~Visible(SessionOf[q]) /\ Goto(q, "rejected") /\ UNCHANGED <<seen, faults>>
     \/ Fault /\ Goto(q, "rejected") /\ UNCHANGED seen

\* May the client of q send it now?
Admitted(q) ==
  OneRequestAtATime =>
    \A p \in Requests \ Cancels :
      SessionOf[p] = SessionOf[q] => pc[p] \in Ends \cup {"idle"}

-----------------------------------------------------------------------------
(* createSession and submitMessage, up to the opening of the event stream. *)

\* The service takes the raw response over, then resolves the provider selection
\* of the new session or throws.
CreateArrives(c) ==
  /\ pc[c] = "idle"
  /\ stream' = [stream EXCEPT ![c] = "hijacked"]
  /\ Goto(c, "auditing") \/ Goto(c, "rejected")
  /\ UNCHANGED <<row, audit, seen, turnFile, registry, stopped, sent, faults, crashes>>

\* The ownership check reads the session before the response is taken over, the
\* service reads it again after; the first read is merged into the second.
SubmitReads(m) ==
  /\ pc[m] = "idle" /\ Admitted(m)
  /\ ReadSession(m, "auditing")
  /\ \/ stream' = [stream EXCEPT ![m] = "hijacked"]
     \/ pc'[m] = "rejected" /\ UNCHANGED stream
  /\ UNCHANGED <<row, audit, turnFile, registry, stopped, sent, crashes>>

ProviderMissing(m) ==
  /\ pc[m] = "auditing"
  /\ Goto(m, "rejected")
  /\ UNCHANGED <<row, audit, seen, turnFile, registry, stopped, stream, sent,
                 faults, crashes>>

RunAudited(r) ==
  /\ pc[r] = "auditing"
  /\ Write(r, row,
           audit \cup {<<IF r \in Creates THEN "session.created"
                         ELSE "session.message_submitted", r>>},
           "writing", "rejected")
  /\ UNCHANGED <<seen, turnFile, registry, stopped, stream, sent, crashes>>

RunWritten(r) ==
  /\ pc[r] = "writing"
  /\ Write(r, Saved(SessionOf[r], "running", seen[r].name, seen[r].file), audit,
           "written", "rejected")
  /\ UNCHANGED <<seen, turnFile, registry, stopped, stream, sent, crashes>>

\* Mutant: a session that has a history is not registered as active.
StreamOpenedUnregistered(r) ==
  /\ pc[r] = "written"
  /\ stream' = [stream EXCEPT ![r] = "open"]
  /\ registry' = [registry EXCEPT ![SessionOf[r]] = IF r \in Creates THEN r ELSE @]
  /\ sent' = [sent EXCEPT ![r] = IF r \in Creates
                                 THEN <<"session.created", "message.accepted">>
                                 ELSE <<"message.accepted">>]
  /\ Goto(r, "running")
  /\ UNCHANGED <<row, audit, seen, turnFile, stopped, faults, crashes>>

\* Opens the stream, registers the run over whatever entry there is, and calls
\* the executor.
StreamOpened(r) ==
  /\ pc[r] = "written"
  /\ stream' = [stream EXCEPT ![r] = "open"]
  /\ registry' = [registry EXCEPT ![SessionOf[r]] = r]
  /\ sent' = [sent EXCEPT ![r] = IF r \in Creates
                                 THEN <<"session.created", "message.accepted">>
                                 ELSE <<"message.accepted">>]
  /\ Goto(r, "running")
  /\ UNCHANGED <<row, audit, seen, turnFile, stopped, faults, crashes>>

-----------------------------------------------------------------------------
(* consumeRun: each turn of its loop races the executor's next event       *)
(* against the cancellation state.                                         *)

\* Mutant: an event of the executor is taken although the run is cancelled.
ConsumingRegardless(r) == pc[r] = "running"

Consuming(r) == pc[r] = "running" /\ r \notin stopped

ExecutorYields(r, e) ==
  /\ Consuming(r)
  /\ e \in Wanted /\ Len(sent[r]) < MaxSent
  /\ sent' = [sent EXCEPT ![r] = Append(@, e)]
  /\ UNCHANGED <<row, audit, pc, seen, turnFile, registry, stopped, stream,
                 faults, crashes>>

\* The completion names the pi session file: the one the job came with, or a new
\* one; a completion without a file leaves the session with the one it had.
ExecutorReturns(r) ==
  /\ Consuming(r)
  /\ turnFile' \in {[turnFile EXCEPT ![r] = f] :
                      f \in {seen[r].file, IF seen[r].file = NoRun THEN r
                                           ELSE seen[r].file}}
  /\ Goto(r, "settling")
  /\ UNCHANGED <<row, audit, seen, registry, stopped, stream, sent, faults, crashes>>

\* A run.failed event, or an error thrown by the executor.
ExecutorFails(r) ==
  /\ Consuming(r)
  /\ Goto(r, "failing")
  /\ UNCHANGED <<row, audit, seen, turnFile, registry, stopped, stream, sent,
                 faults, crashes>>

\* Mutant: the cancellation state is looked at only after the executor's next event.
RunHaltsAfterEvent(r) ==
  /\ pc[r] = "running" /\ r \in stopped
  /\ sent[r][Len(sent[r])] \in ExecutorEvents
  /\ Goto(r, "halting")
  /\ UNCHANGED <<row, audit, seen, turnFile, registry, stopped, stream, sent,
                 faults, crashes>>

RunHalts(r) ==
  /\ pc[r] = "running" /\ r \in stopped
  /\ Goto(r, "halting")
  /\ UNCHANGED <<row, audit, seen, turnFile, registry, stopped, stream, sent,
                 faults, crashes>>

-----------------------------------------------------------------------------
(* The three ways out of a run, the catch block and the finally block.     *)

\* Mutant: the completion's session file is not stored.
RunSettlesFileless(r) ==
  /\ pc[r] = "settling"
  /\ Write(r, Saved(SessionOf[r], "idle", seen[r].name, seen[r].file), audit,
           "settled", "failing")
  /\ UNCHANGED <<seen, turnFile, registry, stopped, stream, sent, crashes>>

RunSettles(r) ==
  /\ pc[r] = "settling"
  /\ Write(r, Saved(SessionOf[r], "idle", seen[r].name, turnFile[r]), audit,
           "settled", "failing")
  /\ UNCHANGED <<seen, turnFile, registry, stopped, stream, sent, crashes>>

HaltAudited(r) ==
  /\ pc[r] = "halting"
  /\ Write(r, row, audit \cup {<<"session.run_cancelled", r>>},
           "writingHalt", "failing")
  /\ UNCHANGED <<seen, turnFile, registry, stopped, stream, sent, crashes>>

\* Mutant: a cancelled run is stored with the status it was started with.
HaltWrittenRunning(r) ==
  /\ pc[r] = "writingHalt"
  /\ Write(r, Saved(SessionOf[r], "running", seen[r].name, seen[r].file), audit,
           "halted", "failing")
  /\ UNCHANGED <<seen, turnFile, registry, stopped, stream, sent, crashes>>

HaltWritten(r) ==
  /\ pc[r] = "writingHalt"
  /\ Write(r, Saved(SessionOf[r], "idle", seen[r].name, seen[r].file), audit,
           "halted", "failing")
  /\ UNCHANGED <<seen, turnFile, registry, stopped, stream, sent, crashes>>

\* Mutant: the session is stored as failed without an audit record.
FailureUnaudited(r) ==
  /\ pc[r] = "failing"
  /\ Write(r, row, audit, "writingFailure", "aborted")
  /\ UNCHANGED <<seen, turnFile, registry, stopped, stream, sent, crashes>>

\* Mutant: an error in the catch block skips the finally block.
FailureEscapes(r) ==
  /\ pc[r] = "failing"
  /\ Write(r, row, audit \cup {<<"session.run_failed", r>>},
           "writingFailure", "rejected")
  /\ UNCHANGED <<seen, turnFile, registry, stopped, stream, sent, crashes>>

FailureAudited(r) ==
  /\ pc[r] = "failing"
  /\ Write(r, row, audit \cup {<<"session.run_failed", r>>},
           "writingFailure", "aborted")
  /\ UNCHANGED <<seen, turnFile, registry, stopped, stream, sent, crashes>>

FailureWritten(r) ==
  /\ pc[r] = "writingFailure"
  /\ Write(r, Saved(SessionOf[r], "error", seen[r].name, seen[r].file), audit,
           "reporting", "aborted")
  /\ UNCHANGED <<seen, turnFile, registry, stopped, stream, sent, crashes>>

EndOf(place) ==
  CASE place = "settled"   -> "completed"
    [] place = "halted"    -> "cancelled"
    [] place = "reporting" -> "failed"
    [] place = "aborted"   -> "erred"

\* Mutant: the stream is closed and the run stays registered.
StreamClosedRegistered(r) ==
  /\ pc[r] \in Closing
  /\ sent' = [sent EXCEPT ![r] = IF pc[r] = "reporting" THEN Append(@, "run.failed")
                                 ELSE @]
  /\ stream' = [stream EXCEPT ![r] = "closed"]
  /\ Goto(r, EndOf(pc[r]))
  /\ UNCHANGED <<row, audit, seen, turnFile, registry, stopped, faults, crashes>>

\* markIdle removes the session's entry, whichever run put it there.
StreamClosed(r) ==
  /\ pc[r] \in Closing
  /\ sent' = [sent EXCEPT ![r] = IF pc[r] = "reporting" THEN Append(@, "run.failed")
                                 ELSE @]
  /\ registry' = [registry EXCEPT ![SessionOf[r]] = NoRun]
  /\ stream' = [stream EXCEPT ![r] = "closed"]
  /\ Goto(r, EndOf(pc[r]))
  /\ UNCHANGED <<row, audit, seen, turnFile, stopped, faults, crashes>>

-----------------------------------------------------------------------------
(* updateSessionName, archiveSession, cancelSession, getSessionStatus.     *)

RenameReads(n) ==
  /\ pc[n] = "idle" /\ Admitted(n)
  /\ ReadSession(n, "renaming")
  /\ UNCHANGED <<row, audit, turnFile, registry, stopped, stream, sent, crashes>>

RenameWritten(n) ==
  /\ pc[n] = "renaming"
  /\ Write(n, Saved(SessionOf[n], seen[n].status, n, seen[n].file), audit,
           "rereading", "rejected")
  /\ UNCHANGED <<seen, turnFile, registry, stopped, stream, sent, crashes>>

RenameAnswered(n) ==
  /\ pc[n] = "rereading"
  /\ Goto(n, IF Visible(SessionOf[n]) THEN "ok" ELSE "rejected")
  /\ UNCHANGED <<row, audit, seen, turnFile, registry, stopped, stream, sent,
                 faults, crashes>>

ArchiveReads(a) ==
  /\ pc[a] = "idle" /\ Admitted(a)
  /\ ReadSession(a, "checking")
  /\ UNCHANGED <<row, audit, turnFile, registry, stopped, stream, sent, crashes>>

\* Mutant: only the registry is asked whether the session runs.
ArchiveCheckedInMemory(a) ==
  /\ pc[a] = "checking"
  /\ Goto(a, IF registry[SessionOf[a]] # NoRun THEN "conflict" ELSE "archiving")
  /\ UNCHANGED <<row, audit, seen, turnFile, registry, stopped, stream, sent,
                 faults, crashes>>

ArchiveChecked(a) ==
  /\ pc[a] = "checking"
  /\ Goto(a, IF registry[SessionOf[a]] # NoRun \/ seen[a].status = "running"
             THEN "conflict" ELSE "archiving")
  /\ UNCHANGED <<row, audit, seen, turnFile, registry, stopped, stream, sent,
                 faults, crashes>>

ArchiveWritten(a) ==
  /\ pc[a] = "archiving"
  /\ Write(a, SavedArchived(SessionOf[a], seen[a]), audit, "ok", "rejected")
  /\ UNCHANGED <<seen, turnFile, registry, stopped, stream, sent, crashes>>

CancelReads(k) ==
  /\ pc[k] = "idle"
  /\ ReadSession(k, "cancelling")
  /\ UNCHANGED <<row, audit, turnFile, registry, stopped, stream, sent, crashes>>

\* Mutant: the closure publishes run.cancelled and leaves the run going.
CancelCalledUnstopped(k) ==
  LET r == registry[SessionOf[k]] IN
  /\ pc[k] = "cancelling"
  /\ \/ r = NoRun /\ Goto(k, "noRun") /\ UNCHANGED sent
     \/ /\ r # NoRun
        /\ sent' = [sent EXCEPT ![r] = Append(@, "run.cancelled")]
        /\ Goto(k, "ok")
  /\ UNCHANGED <<row, audit, seen, turnFile, registry, stopped, stream, faults, crashes>>

\* Runs the registered closure, which publishes run.cancelled and sets the
\* cancellation state; the entry stays where it is.
CancelCalled(k) ==
  LET r == registry[SessionOf[k]] IN
  /\ pc[k] = "cancelling"
  /\ \/ r = NoRun /\ Goto(k, "noRun") /\ UNCHANGED <<sent, stopped>>
     \/ /\ r # NoRun
        /\ sent' = [sent EXCEPT ![r] = Append(@, "run.cancelled")]
        /\ stopped' = stopped \cup {r}
        /\ Goto(k, "ok")
  /\ UNCHANGED <<row, audit, seen, turnFile, registry, stream, faults, crashes>>

ReportedStatus(s) == IF registry[s] # NoRun THEN "running" ELSE row[s].status

-----------------------------------------------------------------------------
\* The process dies: its requests and its registry are gone, the open responses
\* are cut.  Nothing is repaired when it starts again.
Crash ==
  /\ crashes < MaxCrashes
  /\ crashes' = crashes + 1
  /\ pc' = [q \in Requests |-> IF pc[q] \in Ends \cup {"idle"} THEN pc[q] ELSE "dead"]
  /\ registry' = [s \in Creates |-> NoRun]
  /\ stream' = [r \in Runs |-> IF stream[r] \in {"hijacked", "open"} /\ pc[r] \notin Ends
                            THEN "cut" ELSE stream[r]]
  /\ UNCHANGED <<row, audit, seen, turnFile, stopped, sent, faults>>

\* Every request that was sent has ended.
Quiet ==
  /\ \A q \in Requests : pc[q] \in Ends \cup {"idle"}
  /\ UNCHANGED vars

\* What the server does for a run without waiting for its executor.
RunStep(r) ==
  \/ RunAudited(r) \/ RunWritten(r) \/ StreamOpened(r)
  \/ RunHalts(r) \/ RunSettles(r) \/ HaltAudited(r) \/ HaltWritten(r)
  \/ FailureAudited(r) \/ FailureWritten(r) \/ StreamClosed(r)

ExecutorEnds(r) == ExecutorReturns(r) \/ ExecutorFails(r)

RenameStep(n)  == RenameWritten(n) \/ RenameAnswered(n)
ArchiveStep(a) == ArchiveChecked(a) \/ ArchiveWritten(a)

Next ==
  \/ \E c \in Creates : CreateArrives(c)
  \/ \E m \in Submits : SubmitReads(m) \/ ProviderMissing(m)
  \/ \E r \in Runs : RunStep(r) \/ ExecutorEnds(r)
  \/ \E r \in Runs, e \in ExecutorEvents : ExecutorYields(r, e)
  \/ \E n \in Renames : RenameReads(n) \/ RenameStep(n)
  \/ \E a \in Archives : ArchiveReads(a) \/ ArchiveStep(a)
  \/ \E k \in Cancels : CancelReads(k) \/ CancelCalled(k)
  \/ Crash
  \/ Quiet

Spec == Init /\ [][Next]_vars

\* The event loop runs every continuation that is ready.
ServerFairness ==
  /\ \A r \in Runs : WF_vars(RunStep(r))
  /\ \A n \in Renames : WF_vars(RenameStep(n))
  /\ \A a \in Archives : WF_vars(ArchiveStep(a))
  /\ \A k \in Cancels : WF_vars(CancelCalled(k))

=============================================================================
