--------------------------- MODULE SessionProofs ---------------------------
(***************************************************************************)
(* Proofs about the session service, for any requests, any assignment of   *)
(* them to sessions and any number of faults and crashes: first for        *)
(* requests that overlap in any way, then for clients that wait for their  *)
(* answers.                                                                *)
(***************************************************************************)
EXTENDS SessionProperties, TLAPS

-----------------------------------------------------------------------------
(* Types.                                                                  *)

\* The rows that updateSession leaves are rows, and none of them is brought back
\* from the archive.
LEMMA SavedIsTyped ==
  ASSUME TypeOK, NEW s \in Creates, NEW st \in Statuses, NEW n \in Names,
         NEW f \in Files
  PROVE  /\ Saved(s, st, n, f) \in [Creates -> Row]
         /\ \A t \in Creates : Saved(s, st, n, f)[t].archived = row[t].archived
BY DEF Saved, TypeOK, Row

\* The same for the record of an archived session.
LEMMA SavedArchivedIsTyped ==
  ASSUME TypeOK, NEW s \in Creates, NEW v \in Seen
  PROVE  /\ SavedArchived(s, v) \in [Creates -> Row]
         /\ \A t \in Creates :
              row[t].archived => SavedArchived(s, v)[t].archived
BY DEF SavedArchived, TypeOK, Row, Seen

\* An awaited write, successful or not, leaves typed rows, records and places.
LEMMA WriteIsTyped ==
  ASSUME TypeOK, NEW q \in Requests, NEW newRow \in [Creates -> Row],
         NEW newAudit \in SUBSET Records, NEW next \in Places,
         NEW handler \in Places, Write(q, newRow, newAudit, next, handler)
  PROVE  /\ row' \in [Creates -> Row]
         /\ audit' \subseteq Records
         /\ pc' \in [Requests -> Places]
         /\ faults' \in 0..MaxFaults
         /\ pc' = [pc EXCEPT ![q] = next] \/ pc' = [pc EXCEPT ![q] = handler]
         /\ row' = row \/ row' = newRow
<1>1. /\ pc' = [pc EXCEPT ![q] = next] \/ pc' = [pc EXCEPT ![q] = handler]
      /\ row' = row \/ row' = newRow
      /\ audit' = audit \/ audit' = newAudit
  BY DEF Write, Goto
<1>2. faults' \in 0..MaxFaults
  BY BoundsAssumption DEF Write, Fault, TypeOK
<1>3. pc' \in [Requests -> Places]
  BY <1>1 DEF TypeOK
<1>4. QED
  BY <1>1, <1>2, <1>3 DEF TypeOK

\* A read of the session leaves typed snapshots and places.
LEMMA ReadIsTyped ==
  ASSUME TypeOK, NEW q \in Requests, NEW next \in Places, ReadSession(q, next)
  PROVE  /\ seen' \in [Requests -> Seen]
         /\ pc' \in [Requests -> Places]
         /\ faults' \in 0..MaxFaults
         /\ pc' = [pc EXCEPT ![q] = next] \/ pc' = [pc EXCEPT ![q] = "rejected"]
<1>1. SessionOf[q] \in Creates
  BY RequestsAssumption
<1>2. [status |-> row[SessionOf[q]].status, name |-> row[SessionOf[q]].name,
       file |-> row[SessionOf[q]].file] \in Seen
  BY <1>1 DEF TypeOK, Row, Seen
<1>3. "rejected" \in Places
  BY DEF Places, Ends
<1>4. faults' \in 0..MaxFaults
  BY BoundsAssumption DEF ReadSession, Fault, TypeOK
<1>5. pc' = [pc EXCEPT ![q] = next] \/ pc' = [pc EXCEPT ![q] = "rejected"]
  BY DEF ReadSession, Goto
<1>6. seen' \in [Requests -> Seen]
  BY <1>2 DEF ReadSession, TypeOK
<1>7. QED
  BY <1>3, <1>4, <1>5, <1>6 DEF TypeOK

\* Every run is a request, and every request has a session.
LEMMA RequestsAreTyped ==
  /\ \A q \in Requests : SessionOf[q] \in Creates
  /\ Runs \subseteq Requests /\ Creates \subseteq Runs /\ Submits \subseteq Runs
  /\ Renames \subseteq Requests /\ Archives \subseteq Requests
  /\ Cancels \subseteq Requests
BY RequestsAssumption DEF Requests, Runs

\* The initial state is typed.
LEMMA TypeInit == Init => TypeOK
<1> SUFFICES ASSUME Init PROVE TypeOK
  OBVIOUS
<1>1. row \in [Creates -> Row]
  BY DEF Init, Row, Statuses, Names, Files
<1>2. seen \in [Requests -> Seen]
  BY RequestsAreTyped DEF Init, Seen, Statuses, Names, Files
<1>3. pc \in [Requests -> Places]
  BY DEF Init, Places
<1>4. /\ turnFile \in [Runs -> Files] /\ registry \in [Creates -> Files]
      /\ sent \in [Runs -> Seq(Events)]
  BY DEF Init, Files
<1>5. faults \in 0..MaxFaults /\ crashes \in 0..MaxCrashes
  BY BoundsAssumption DEF Init
<1>6. QED
  BY <1>1, <1>2, <1>3, <1>4, <1>5 DEF Init, TypeOK

\* The type of the state is kept by each step of a run.
LEMMA RunStepIsTyped ==
  ASSUME TypeOK, NEW r \in Runs, RunStep(r)
  PROVE  TypeOK'
<1> USE RequestsAreTyped
<1> DEFINE s == SessionOf[r]
<1>0. /\ r \in Requests /\ s \in Creates /\ seen[r] \in Seen /\ r \in Files
      /\ turnFile[r] \in Files
      /\ {"running", "idle", "error"} \subseteq Statuses
      /\ seen[r].name \in Names /\ seen[r].file \in Files
  BY DEF TypeOK, Statuses, Seen, Files
<1>1. CASE RunAudited(r)
  <2>1. /\ audit \cup {<<IF r \in Creates THEN "session.created"
                         ELSE "session.message_submitted", r>>} \in SUBSET Records
        /\ {"writing", "rejected"} \subseteq Places
    BY DEF TypeOK, Records, Places, Opening, Ends
  <2>2. QED
    BY <1>0, <1>1, <2>1, WriteIsTyped DEF RunAudited, TypeOK
<1>2. CASE RunWritten(r)
  <2>1. {"written", "rejected"} \subseteq Places
    BY DEF Places, Opening, Ends
  <2>2. QED
    BY <1>0, <1>2, <2>1, WriteIsTyped, SavedIsTyped DEF RunWritten, TypeOK
<1>3. CASE StreamOpened(r)
  <2>1. /\ "running" \in Places
        /\ <<"session.created", "message.accepted">> \in Seq(Events)
        /\ <<"message.accepted">> \in Seq(Events)
    BY DEF Places, Live, Events
  <2>2. QED
    BY <1>0, <1>3, <2>1 DEF StreamOpened, TypeOK, Goto
<1>4. CASE RunHalts(r)
  BY <1>4 DEF RunHalts, TypeOK, Goto, Places, Live
<1>5. CASE RunSettles(r)
  <2>1. {"settled", "failing"} \subseteq Places
    BY DEF Places, Live, Closing
  <2>2. QED
    BY <1>0, <1>5, <2>1, WriteIsTyped, SavedIsTyped DEF RunSettles, TypeOK
<1>6. CASE HaltAudited(r)
  <2>1. /\ audit \cup {<<"session.run_cancelled", r>>} \in SUBSET Records
        /\ {"writingHalt", "failing"} \subseteq Places
    BY DEF TypeOK, Records, Places, Live
  <2>2. QED
    BY <1>0, <1>6, <2>1, WriteIsTyped DEF HaltAudited, TypeOK
<1>7. CASE HaltWritten(r)
  <2>1. {"halted", "failing"} \subseteq Places
    BY DEF Places, Live, Closing
  <2>2. QED
    BY <1>0, <1>7, <2>1, WriteIsTyped, SavedIsTyped DEF HaltWritten, TypeOK
<1>8. CASE FailureAudited(r)
  <2>1. /\ audit \cup {<<"session.run_failed", r>>} \in SUBSET Records
        /\ {"writingFailure", "aborted"} \subseteq Places
    BY DEF TypeOK, Records, Places, Live, Closing
  <2>2. QED
    BY <1>0, <1>8, <2>1, WriteIsTyped DEF FailureAudited, TypeOK
<1>9. CASE FailureWritten(r)
  <2>1. {"reporting", "aborted"} \subseteq Places
    BY DEF Places, Live, Closing
  <2>2. QED
    BY <1>0, <1>9, <2>1, WriteIsTyped, SavedIsTyped DEF FailureWritten, TypeOK
<1>10. CASE StreamClosed(r)
  <2>1. EndOf(pc[r]) \in Places
    BY <1>10 DEF StreamClosed, EndOf, Places, Closing, Ends
  <2>2. Append(sent[r], "run.failed") \in Seq(Events)
    BY DEF TypeOK, Events
  <2>3. QED
    BY <1>0, <1>10, <2>1, <2>2 DEF StreamClosed, TypeOK, Goto, Files
<1>11. QED
  BY <1>1, <1>2, <1>3, <1>4, <1>5, <1>6, <1>7, <1>8, <1>9, <1>10 DEF RunStep

\* So it is by the steps of the other requests, of the executor and of a crash.
LEMMA OtherStepIsTyped ==
  ASSUME TypeOK, Next, \A r \in Runs : ~RunStep(r)
  PROVE  TypeOK'
<1> USE RequestsAreTyped
<1>1. ASSUME NEW c \in Creates, CreateArrives(c) PROVE TypeOK'
  BY <1>1 DEF CreateArrives, TypeOK, Goto, Places, Opening, Ends
<1>2. ASSUME NEW m \in Submits, SubmitReads(m) PROVE TypeOK'
  <2>1. m \in Runs /\ m \in Requests /\ "auditing" \in Places
    BY DEF Places, Opening
  <2>2. QED
    BY <1>2, <2>1, ReadIsTyped DEF SubmitReads, TypeOK
<1>3. ASSUME NEW m \in Submits, ProviderMissing(m) PROVE TypeOK'
  BY <1>3 DEF ProviderMissing, TypeOK, Goto, Places, Ends
<1>4. ASSUME NEW r \in Runs, ExecutorReturns(r) PROVE TypeOK'
  <2>1. r \in Requests /\ r \in Files /\ seen[r].file \in Files /\ "settling" \in Places
    BY DEF Files, TypeOK, Seen, Places, Live
  <2>2. turnFile' \in [Runs -> Files]
    BY <1>4, <2>1 DEF ExecutorReturns, TypeOK
  <2>3. pc' \in [Requests -> Places]
    BY <1>4, <2>1 DEF ExecutorReturns, TypeOK, Goto
  <2>4. QED
    BY <1>4, <2>2, <2>3 DEF ExecutorReturns, TypeOK
<1>5. ASSUME NEW r \in Runs, ExecutorFails(r) PROVE TypeOK'
  BY <1>5 DEF ExecutorFails, TypeOK, Goto, Places, Live
<1>6. ASSUME NEW r \in Runs, NEW e \in ExecutorEvents, ExecutorYields(r, e)
      PROVE  TypeOK'
  <2>1. Append(sent[r], e) \in Seq(Events)
    BY DEF TypeOK, Events
  <2>2. QED
    BY <1>6, <2>1 DEF ExecutorYields, TypeOK
<1>7. ASSUME NEW n \in Renames, RenameReads(n) PROVE TypeOK'
  <2>1. n \in Requests /\ "renaming" \in Places
    BY DEF Places
  <2>2. QED
    BY <1>7, <2>1, ReadIsTyped DEF RenameReads, TypeOK
<1>8. ASSUME NEW n \in Renames, RenameWritten(n) PROVE TypeOK'
  <2>1. /\ n \in Requests /\ SessionOf[n] \in Creates /\ n \in Names
        /\ seen[n].status \in Statuses /\ seen[n].file \in Files
        /\ {"rereading", "rejected"} \subseteq Places
    BY DEF Places, Ends, Names, TypeOK, Seen
  <2>2. QED
    BY <1>8, <2>1, WriteIsTyped, SavedIsTyped DEF RenameWritten, TypeOK
<1>9. ASSUME NEW n \in Renames, RenameAnswered(n) PROVE TypeOK'
  BY <1>9 DEF RenameAnswered, TypeOK, Goto, Places, Ends
<1>10. ASSUME NEW a \in Archives, ArchiveReads(a) PROVE TypeOK'
  <2>1. a \in Requests /\ "checking" \in Places
    BY DEF Places
  <2>2. QED
    BY <1>10, <2>1, ReadIsTyped DEF ArchiveReads, TypeOK
<1>11. ASSUME NEW a \in Archives, ArchiveChecked(a) PROVE TypeOK'
  BY <1>11 DEF ArchiveChecked, TypeOK, Goto, Places, Ends
<1>12. ASSUME NEW a \in Archives, ArchiveWritten(a) PROVE TypeOK'
  <2>1. /\ a \in Requests /\ SessionOf[a] \in Creates /\ seen[a] \in Seen
        /\ {"ok", "rejected"} \subseteq Places
    BY DEF Places, Ends, TypeOK
  <2>2. QED
    BY <1>12, <2>1, WriteIsTyped, SavedArchivedIsTyped DEF ArchiveWritten, TypeOK
<1>13. ASSUME NEW k \in Cancels, CancelReads(k) PROVE TypeOK'
  <2>1. k \in Requests /\ "cancelling" \in Places
    BY DEF Places
  <2>2. QED
    BY <1>13, <2>1, ReadIsTyped DEF CancelReads, TypeOK
<1>14. ASSUME NEW k \in Cancels, CancelCalled(k) PROVE TypeOK'
  <2>1. /\ k \in Requests /\ SessionOf[k] \in Creates
        /\ {"ok", "noRun"} \subseteq Places
    BY DEF Places, Ends
  <2> DEFINE r == registry[SessionOf[k]]
  <2>2. ASSUME r # NoRun PROVE r \in Runs /\ Append(sent[r], "run.cancelled") \in Seq(Events)
    BY <2>1, <2>2 DEF TypeOK, Files, Events
  <2>3. CASE r = NoRun
    <3>1. pc' = [pc EXCEPT ![k] = "noRun"] /\ UNCHANGED <<sent, stopped>>
      BY <1>14, <2>3 DEF CancelCalled, Goto
    <3>2. pc' \in [Requests -> Places]
      BY <2>1, <3>1 DEF TypeOK
    <3>3. QED
      BY <1>14, <3>1, <3>2 DEF CancelCalled, TypeOK
  <2>4. CASE r # NoRun
    <3>1. /\ sent' = [sent EXCEPT ![r] = Append(sent[r], "run.cancelled")]
          /\ stopped' = stopped \cup {r}
          /\ pc' = [pc EXCEPT ![k] = "ok"]
      BY <1>14, <2>4 DEF CancelCalled, Goto
    <3>2. sent' \in [Runs -> Seq(Events)] /\ stopped' \subseteq Runs
      BY <2>2, <2>4, <3>1 DEF TypeOK
    <3>3. pc' \in [Requests -> Places]
      BY <2>1, <3>1 DEF TypeOK
    <3>4. QED
      BY <1>14, <3>2, <3>3 DEF CancelCalled, TypeOK
  <2>5. QED
    BY <2>3, <2>4
<1>15. ASSUME Crash PROVE TypeOK'
  <2>1. crashes' \in 0..MaxCrashes
    BY <1>15, BoundsAssumption DEF Crash, TypeOK
  <2>2. pc' \in [Requests -> Places]
    BY <1>15 DEF Crash, TypeOK, Places, Ends
  <2>3. QED
    BY <1>15, <2>1, <2>2 DEF Crash, TypeOK, Files
<1>16. ASSUME Quiet PROVE TypeOK'
  BY <1>16 DEF Quiet, vars, TypeOK
<1>17. QED
  BY <1>1, <1>2, <1>3, <1>4, <1>5, <1>6, <1>7, <1>8, <1>9, <1>10, <1>11, <1>12,
     <1>13, <1>14, <1>15, <1>16
     DEF Next, ExecutorEnds, RenameStep, ArchiveStep

\* Every step of the service keeps the types.
LEMMA TypeStep == TypeOK /\ [Next]_vars => TypeOK'
<1>1. TypeOK /\ UNCHANGED vars => TypeOK'
  BY DEF vars, TypeOK
<1>2. QED
  BY <1>1, RunStepIsTyped, OtherStepIsTyped

\* Every variable of the service keeps its type, whatever fails.
THEOREM TypeCorrect == Spec => []TypeOK
<1>1. QED
  BY TypeInit, TypeStep, PTL DEF Spec

-----------------------------------------------------------------------------
(* The registry and the streams.  RegistryEntryIsLive is not inductive by  *)
(* itself: that a cancel finds an open stream follows from the places a    *)
(* run's request goes through while its stream is hijacked and open, and   *)
(* that no executor event follows run.cancelled from the cancellation      *)
(* state being set whenever run.cancelled was published.                   *)

\* What an extended stream contains.
LEMMA AppendContains ==
  ASSUME NEW S, NEW q \in Seq(S), NEW e \in S, NEW x \in S
  PROVE  Contains(Append(q, e), x) <=> Contains(q, x) \/ e = x
BY DEF Contains

\* The service starts in the invariant.
LEMMA InvInit == Init => IInv
<1> SUFFICES ASSUME Init PROVE IInv
  OBVIOUS
<1>1. TypeOK
  BY TypeInit
<1>2. StreamFollowsRun
  BY RequestsAreTyped DEF Init, StreamFollowsRun, Opening, Live, Closing
<1>3. RegistryEntryIsLive
  BY DEF Init, RegistryEntryIsLive
<1>4. CancelIsNoticed
  BY DEF Init, CancelIsNoticed, Contains
<1>5. QED
  BY <1>1, <1>2, <1>3, <1>4 DEF IInv

\* A step that moves one request and touches neither registry, nor streams, nor
\* cancellation states keeps the invariant unless it takes a run off the places
\* where its stream is hijacked or open.
LEMMA MoveKeepsInv ==
  ASSUME IInv, TypeOK', NEW q \in Requests, NEW place \in Places,
         pc' = [pc EXCEPT ![q] = place],
         UNCHANGED <<registry, stopped, stream, sent>>,
         q \in Runs => \/ pc[q] \in Opening /\ place \in Opening \cup {"rejected"}
                       \/ pc[q] \in Live /\ place \in Live
  PROVE  IInv'
<1> USE RequestsAreTyped
<1>1. StreamFollowsRun'
  BY DEF IInv, TypeOK, StreamFollowsRun, Opening, Live, Closing
<1>2. RegistryEntryIsLive'
  <2> SUFFICES ASSUME NEW s \in Creates, registry[s] # NoRun
               PROVE  (pc')[registry[s]] \in Live
    BY DEF RegistryEntryIsLive, IInv
  <2>1. pc[registry[s]] \in Live /\ registry[s] \in Runs
    BY DEF RegistryEntryIsLive, IInv, TypeOK, Files
  <2>2. QED
    BY <2>1 DEF IInv, TypeOK, Opening, Live, Closing
<1>3. CancelIsNoticed'
  BY DEF CancelIsNoticed, IInv
<1>4. QED
  BY <1>1, <1>2, <1>3 DEF IInv

\* A step of a run that only moves it, between places of one kind or out of those
\* before the opening.
LEMMA RunMoveKeepsInv ==
  ASSUME IInv, TypeOK', NEW r \in Runs,
         \/ RunAudited(r) \/ RunWritten(r) \/ RunHalts(r) \/ RunSettles(r)
         \/ HaltAudited(r) \/ HaltWritten(r) \/ FailureAudited(r) \/ FailureWritten(r)
         \/ ExecutorReturns(r) \/ ExecutorFails(r)
  PROVE  IInv'
<1>1. r \in Requests
  BY RequestsAreTyped
<1>2. PICK place \in Places :
        /\ pc' = [pc EXCEPT ![r] = place]
        /\ \/ pc[r] \in Opening /\ place \in Opening \cup {"rejected"}
           \/ pc[r] \in Live /\ place \in Live
  <2>1. CASE RunAudited(r) \/ RunWritten(r)
    BY <2>1 DEF RunAudited, RunWritten, Write, Goto, Places, Opening, Ends
  <2>2. CASE RunHalts(r) \/ ExecutorReturns(r) \/ ExecutorFails(r)
    BY <2>2 DEF RunHalts, ExecutorReturns, ExecutorFails, Consuming, Goto, Places, Live
  <2>3. CASE RunSettles(r) \/ HaltAudited(r) \/ HaltWritten(r)
    BY <2>3 DEF RunSettles, HaltAudited, HaltWritten, Write, Goto, Places, Live, Closing
  <2>4. CASE FailureAudited(r) \/ FailureWritten(r)
    BY <2>4 DEF FailureAudited, FailureWritten, Write, Goto, Places, Live, Closing
  <2>5. QED
    BY <2>1, <2>2, <2>3, <2>4
<1>3. UNCHANGED <<registry, stopped, stream, sent>>
  BY DEF RunAudited, RunWritten, RunHalts, RunSettles, HaltAudited, HaltWritten,
         FailureAudited, FailureWritten, ExecutorReturns, ExecutorFails
<1>4. QED
  BY <1>1, <1>2, <1>3, MoveKeepsInv

\* Requests that are no runs move freely.
LEMMA ClientMoveKeepsInv ==
  ASSUME IInv, TypeOK', NEW q \in Requests \ Runs, NEW place \in Places,
         pc' = [pc EXCEPT ![q] = place],
         UNCHANGED <<registry, stopped, stream, sent>>
  PROVE  IInv'
BY MoveKeepsInv

\* The opening of a stream registers a run whose stream is open.
LEMMA StreamOpenedKeepsInv ==
  ASSUME IInv, TypeOK', NEW r \in Runs, StreamOpened(r)
  PROVE  IInv'
<1> USE RequestsAreTyped
<1>0. pc' = [pc EXCEPT ![r] = "running"] /\ r \in Requests /\ SessionOf[r] \in Creates
  BY DEF StreamOpened, Goto
<1>1. StreamFollowsRun'
  BY <1>0 DEF StreamOpened, IInv, TypeOK, StreamFollowsRun, Opening, Live, Closing
<1>2. RegistryEntryIsLive'
  <2> SUFFICES ASSUME NEW s \in Creates, registry'[s] # NoRun
               PROVE  /\ SessionOf[registry'[s]] = s
                      /\ pc'[registry'[s]] \in Live
                      /\ stream'[registry'[s]] = "open"
    BY DEF RegistryEntryIsLive
  <2>1. CASE s = SessionOf[r]
    BY <1>0, <2>1 DEF StreamOpened, IInv, TypeOK, Live
  <2>2. CASE s # SessionOf[r]
    <3>1. registry'[s] = registry[s] /\ registry[s] \in Runs
      BY <2>2 DEF StreamOpened, IInv, TypeOK, Files
    <3>2. QED
      BY <1>0, <3>1 DEF StreamOpened, IInv, TypeOK, RegistryEntryIsLive, Live
  <2>3. QED
    BY <2>1, <2>2
<1>3. CancelIsNoticed'
  <2> SUFFICES ASSUME NEW t \in Runs, Contains(sent'[t], "run.cancelled")
               PROVE  t \in stopped
    BY DEF StreamOpened, CancelIsNoticed
  <2>1. t # r
    BY DEF StreamOpened, IInv, TypeOK, Contains
  <2>2. sent'[t] = sent[t]
    BY <2>1 DEF StreamOpened, IInv, TypeOK
  <2>3. QED
    BY <2>2 DEF IInv, CancelIsNoticed
<1>4. QED
  BY <1>1, <1>2, <1>3 DEF IInv

\* The end of a run clears the entry of its session and leaves the others.
LEMMA StreamClosedKeepsInv ==
  ASSUME IInv, TypeOK', NEW r \in Runs, StreamClosed(r)
  PROVE  IInv'
<1> USE RequestsAreTyped
<1> DEFINE end == EndOf(pc[r])
<1>0. /\ pc' = [pc EXCEPT ![r] = end] /\ r \in Requests /\ SessionOf[r] \in Creates
      /\ end \in {"completed", "cancelled", "failed", "erred"}
  BY DEF StreamClosed, Goto, EndOf, Closing
<1>1. StreamFollowsRun'
  BY <1>0 DEF StreamClosed, IInv, TypeOK, StreamFollowsRun, Opening, Live, Closing
<1>2. RegistryEntryIsLive'
  <2> SUFFICES ASSUME NEW s \in Creates, registry'[s] # NoRun
               PROVE  /\ SessionOf[registry'[s]] = s
                      /\ pc'[registry'[s]] \in Live
                      /\ stream'[registry'[s]] = "open"
    BY DEF RegistryEntryIsLive
  <2>1. s # SessionOf[r] /\ registry'[s] = registry[s]
    BY DEF StreamClosed, IInv, TypeOK
  <2>2. registry[s] \in Runs /\ SessionOf[registry[s]] = s /\ registry[s] # r
    BY <2>1 DEF IInv, TypeOK, Files, RegistryEntryIsLive
  <2>3. QED
    BY <1>0, <2>1, <2>2 DEF StreamClosed, IInv, TypeOK, RegistryEntryIsLive
<1>3. CancelIsNoticed'
  <2> SUFFICES ASSUME NEW t \in Runs, Contains(sent'[t], "run.cancelled")
               PROVE  t \in stopped
    BY DEF StreamClosed, CancelIsNoticed
  <2>1. CASE sent'[t] = sent[t]
    BY <2>1 DEF IInv, CancelIsNoticed
  <2>2. CASE sent'[t] # sent[t]
    <3>1. sent'[t] = Append(sent[t], "run.failed") /\ sent[t] \in Seq(Events)
      BY <2>2 DEF StreamClosed, IInv, TypeOK
    <3>2. "run.failed" \in Events /\ "run.cancelled" \in Events
      BY DEF Events
    <3>3. Contains(sent[t], "run.cancelled")
      BY <3>1, <3>2, AppendContains
    <3>4. QED
      BY <3>3 DEF IInv, CancelIsNoticed
  <2>3. QED
    BY <2>1, <2>2
<1>4. QED
  BY <1>1, <1>2, <1>3 DEF IInv

\* A request of a run arrives: its response is taken over, or it is turned away.
LEMMA ArrivalKeepsInv ==
  ASSUME IInv, TypeOK', NEW r \in Runs, pc[r] = "idle",
         pc' = [pc EXCEPT ![r] = "auditing"] \/ pc' = [pc EXCEPT ![r] = "rejected"],
         \/ stream' = [stream EXCEPT ![r] = "hijacked"]
         \/ pc'[r] = "rejected" /\ UNCHANGED stream,
         UNCHANGED <<registry, stopped, sent>>
  PROVE  IInv'
<1> USE RequestsAreTyped
<1>1. StreamFollowsRun'
  BY DEF IInv, TypeOK, StreamFollowsRun, Opening, Live, Closing
<1>2. RegistryEntryIsLive'
  <2> SUFFICES ASSUME NEW s \in Creates, registry[s] # NoRun
               PROVE  /\ pc'[registry[s]] \in Live
                      /\ stream'[registry[s]] = "open"
    BY DEF RegistryEntryIsLive, IInv
  <2>1. registry[s] \in Runs /\ pc[registry[s]] \in Live /\ stream[registry[s]] = "open"
    BY DEF IInv, TypeOK, Files, RegistryEntryIsLive
  <2>2. registry[s] # r
    BY <2>1 DEF Live, Closing
  <2>3. QED
    BY <2>1, <2>2 DEF IInv, TypeOK
<1>3. CancelIsNoticed'
  BY DEF CancelIsNoticed, IInv
<1>4. QED
  BY <1>1, <1>2, <1>3 DEF IInv

\* An event of the executor is no run.cancelled.
LEMMA YieldKeepsInv ==
  ASSUME IInv, TypeOK', NEW r \in Runs, NEW e \in ExecutorEvents, ExecutorYields(r, e)
  PROVE  IInv'
<1>1. StreamFollowsRun' /\ RegistryEntryIsLive'
  BY DEF ExecutorYields, IInv, StreamFollowsRun, RegistryEntryIsLive
<1>2. CancelIsNoticed'
  <2> SUFFICES ASSUME NEW t \in Runs, Contains(sent'[t], "run.cancelled")
               PROVE  t \in stopped
    BY DEF ExecutorYields, CancelIsNoticed
  <2>1. CASE t # r
    BY <2>1 DEF ExecutorYields, IInv, TypeOK, CancelIsNoticed
  <2>2. CASE t = r
    <3>1. sent'[r] = Append(sent[r], e) /\ sent[r] \in Seq(Events)
      BY DEF ExecutorYields, IInv, TypeOK
    <3>2. e \in Events /\ "run.cancelled" \in Events /\ e # "run.cancelled"
      BY DEF Events, ExecutorEvents
    <3>3. Contains(sent[r], "run.cancelled")
      BY <2>2, <3>1, <3>2, AppendContains
    <3>4. QED
      BY <2>2, <3>3 DEF IInv, CancelIsNoticed
  <2>3. QED
    BY <2>1, <2>2
<1>3. QED
  BY <1>1, <1>2 DEF IInv

\* A cancel sets the cancellation state of the run it publishes run.cancelled for.
LEMMA CancelKeepsInv ==
  ASSUME IInv, TypeOK', NEW k \in Cancels, CancelCalled(k)
  PROVE  IInv'
<1> DEFINE r == registry[SessionOf[k]]
<1>1. k \in Requests /\ k \notin Runs
  BY RequestsAreTyped, RequestsAssumption DEF Runs
<1>0. pc' = [pc EXCEPT ![k] = "ok"] \/ pc' = [pc EXCEPT ![k] = "noRun"]
  BY DEF CancelCalled, Goto
<1>6. \A t \in Runs : pc'[t] = pc[t]
  BY <1>0, <1>1, RequestsAreTyped DEF IInv, TypeOK
<1>7. UNCHANGED <<registry, stream>>
  BY DEF CancelCalled
<1>2. StreamFollowsRun'
  BY <1>6, <1>7 DEF IInv, StreamFollowsRun
<1>3. RegistryEntryIsLive'
  <2> SUFFICES ASSUME NEW s \in Creates, registry[s] # NoRun
               PROVE  pc'[registry[s]] = pc[registry[s]]
    BY DEF RegistryEntryIsLive, IInv, CancelCalled
  <2>1. registry[s] \in Runs
    BY DEF IInv, TypeOK, Files
  <2>2. QED
    BY <1>6, <2>1
<1>4. CancelIsNoticed'
  <2>1. CASE r = NoRun
    BY <2>1 DEF CancelCalled, IInv, CancelIsNoticed
  <2>2. CASE r # NoRun
    <3>1. /\ sent' = [sent EXCEPT ![r] = Append(sent[r], "run.cancelled")]
          /\ stopped' = stopped \cup {r}
      BY <2>2 DEF CancelCalled
    <3>2. ASSUME NEW t \in Runs, t # r PROVE sent'[t] = sent[t]
      BY <3>1, <3>2 DEF IInv, TypeOK
    <3>3. QED
      BY <3>1, <3>2 DEF IInv, CancelIsNoticed
  <2>3. QED
    BY <2>1, <2>2
<1>5. QED
  BY <1>2, <1>3, <1>4 DEF IInv

\* A crash empties the registry and leaves no run on the way.
LEMMA CrashKeepsInv == IInv /\ TypeOK' /\ Crash => IInv'
<1> SUFFICES ASSUME IInv, TypeOK', Crash PROVE IInv'
  OBVIOUS
<1>1. StreamFollowsRun'
  BY RequestsAreTyped
     DEF Crash, IInv, TypeOK, StreamFollowsRun, Opening, Live, Closing, Ends
<1>2. RegistryEntryIsLive' /\ CancelIsNoticed'
  BY DEF Crash, IInv, RegistryEntryIsLive, CancelIsNoticed
<1>3. QED
  BY <1>1, <1>2 DEF IInv

\* Every step of the service keeps the invariant.
LEMMA InvStep == IInv /\ [Next]_vars => IInv'
<1> SUFFICES ASSUME IInv, [Next]_vars PROVE IInv'
  OBVIOUS
<1> USE RequestsAreTyped
<1>0. TypeOK'
  BY TypeStep DEF IInv
<1>1. ASSUME NEW c \in Creates, CreateArrives(c) PROVE IInv'
  BY <1>0, <1>1, ArrivalKeepsInv DEF CreateArrives, Goto
<1>2. ASSUME NEW m \in Submits, SubmitReads(m) PROVE IInv'
  <2>1. pc' = [pc EXCEPT ![m] = "auditing"] \/ pc' = [pc EXCEPT ![m] = "rejected"]
    BY <1>2 DEF SubmitReads, ReadSession, Goto
  <2>2. /\ pc[m] = "idle" /\ UNCHANGED <<registry, stopped, sent>>
        /\ \/ stream' = [stream EXCEPT ![m] = "hijacked"]
           \/ pc'[m] = "rejected" /\ UNCHANGED stream
    BY <1>2 DEF SubmitReads
  <2>3. QED
    BY <1>0, <2>1, <2>2, ArrivalKeepsInv
<1>3. ASSUME NEW m \in Submits, ProviderMissing(m) PROVE IInv'
  <2>1. "rejected" \in Places /\ m \in Requests /\ "auditing" \in Opening
    BY DEF Places, Ends, Opening
  <2>2. QED
    BY <1>0, <1>3, <2>1, MoveKeepsInv DEF ProviderMissing, Goto
<1>4. ASSUME NEW r \in Runs, RunStep(r) \/ ExecutorEnds(r) PROVE IInv'
  BY <1>0, <1>4, RunMoveKeepsInv, StreamOpenedKeepsInv, StreamClosedKeepsInv
     DEF RunStep, ExecutorEnds
<1>5. ASSUME NEW r \in Runs, NEW e \in ExecutorEvents, ExecutorYields(r, e)
      PROVE  IInv'
  BY <1>0, <1>5, YieldKeepsInv
<1>6. ASSUME NEW n \in Renames, RenameReads(n) \/ RenameStep(n) PROVE IInv'
  <2>1. n \in Requests \ Runs
    BY RequestsAssumption DEF Runs
  <2>2. \E place \in Places : pc' = [pc EXCEPT ![n] = place]
    BY <1>6 DEF RenameReads, RenameStep, RenameWritten, RenameAnswered, ReadSession,
                Write, Goto, Places, Ends
  <2>3. QED
    BY <1>0, <1>6, <2>1, <2>2, ClientMoveKeepsInv
       DEF RenameReads, RenameStep, RenameWritten, RenameAnswered
<1>7. ASSUME NEW a \in Archives, ArchiveReads(a) \/ ArchiveStep(a) PROVE IInv'
  <2>1. a \in Requests \ Runs
    BY RequestsAssumption DEF Runs
  <2>2. \E place \in Places : pc' = [pc EXCEPT ![a] = place]
    BY <1>7 DEF ArchiveReads, ArchiveStep, ArchiveChecked, ArchiveWritten, ReadSession,
                Write, Goto, Places, Ends
  <2>3. QED
    BY <1>0, <1>7, <2>1, <2>2, ClientMoveKeepsInv
       DEF ArchiveReads, ArchiveStep, ArchiveChecked, ArchiveWritten
<1>8. ASSUME NEW k \in Cancels, CancelReads(k) PROVE IInv'
  <2>1. k \in Requests \ Runs
    BY RequestsAssumption DEF Runs
  <2>2. \E place \in Places : pc' = [pc EXCEPT ![k] = place]
    BY <1>8 DEF CancelReads, ReadSession, Goto, Places, Ends
  <2>3. QED
    BY <1>0, <1>8, <2>1, <2>2, ClientMoveKeepsInv DEF CancelReads
<1>9. ASSUME NEW k \in Cancels, CancelCalled(k) PROVE IInv'
  BY <1>0, <1>9, CancelKeepsInv
<1>10. CASE Crash
  BY <1>0, <1>10, CrashKeepsInv
<1>11. CASE UNCHANGED vars
  BY <1>0, <1>11
     DEF vars, IInv, StreamFollowsRun, RegistryEntryIsLive, CancelIsNoticed
<1>12. QED
  BY <1>1, <1>2, <1>3, <1>4, <1>5, <1>6, <1>7, <1>8, <1>9, <1>10, <1>11 DEF Next, Quiet

\* Responses, registry and cancellation state follow the run they belong to, under
\* any interleaving of requests, failing calls and crashes.
THEOREM Invariance == Spec => []IInv
<1>1. QED
  BY InvInit, InvStep, PTL DEF Spec

\* A cancel, whenever it comes, runs the closure of a run whose stream is open:
\* the one entry a session has in the registry never outlives its run.
THEOREM RegistryIsSound == Spec => []RegistryEntryIsLive
<1>1. IInv => RegistryEntryIsLive
  BY DEF IInv
<1>2. QED
  BY <1>1, Invariance, PTL

-----------------------------------------------------------------------------
(* Archival.                                                               *)

\* A step leaves the table alone, saves one row or archives one.
LEMMA RowStep ==
  ASSUME TypeOK, Next
  PROVE  \/ row' = row
         \/ \E t \in Creates, st \in Statuses, n \in Names, f \in Files :
              row' = Saved(t, st, n, f)
         \/ \E t \in Creates, v \in Seen : row' = SavedArchived(t, v)
<1> USE RequestsAreTyped
<1>1. ASSUME NEW r \in Runs,
             \/ RunWritten(r) \/ RunSettles(r) \/ HaltWritten(r) \/ FailureWritten(r)
      PROVE  \/ row' = row
             \/ \E t \in Creates, st \in Statuses, n \in Names, f \in Files :
                  row' = Saved(t, st, n, f)
  <2>1. /\ SessionOf[r] \in Creates /\ seen[r].name \in Names /\ seen[r].file \in Files
        /\ turnFile[r] \in Files /\ {"running", "idle", "error"} \subseteq Statuses
    BY DEF TypeOK, Seen, Statuses
  <2>2. QED
    BY <1>1, <2>1 DEF RunWritten, RunSettles, HaltWritten, FailureWritten, Write
<1>2. ASSUME NEW n \in Renames, RenameWritten(n)
      PROVE  \/ row' = row
             \/ \E t \in Creates, st \in Statuses, m \in Names, f \in Files :
                  row' = Saved(t, st, m, f)
  <2>1. /\ SessionOf[n] \in Creates /\ n \in Names
        /\ seen[n].status \in Statuses /\ seen[n].file \in Files
    BY DEF TypeOK, Seen, Names
  <2>2. QED
    BY <1>2, <2>1 DEF RenameWritten, Write
<1>3. ASSUME NEW a \in Archives, ArchiveWritten(a)
      PROVE  row' = row \/ \E t \in Creates, v \in Seen : row' = SavedArchived(t, v)
  <2>1. SessionOf[a] \in Creates /\ seen[a] \in Seen
    BY DEF TypeOK
  <2>2. QED
    BY <1>3, <2>1 DEF ArchiveWritten, Write
<1>4. QED
  BY <1>1, <1>2, <1>3
     DEF Next, RunStep, ExecutorEnds, RenameStep, ArchiveStep, Quiet, vars, Crash,
         CreateArrives, SubmitReads, ProviderMissing, RunAudited, StreamOpened,
         RunHalts, HaltAudited, FailureAudited, StreamClosed, ExecutorYields,
         ExecutorReturns, ExecutorFails, RenameReads, RenameAnswered, ArchiveReads,
         ArchiveChecked, CancelReads, CancelCalled, Write

\* No step takes the archive mark of a row away: Saved keeps it and SavedArchived
\* sets it.
LEMMA ArchiveStepLemma ==
  ASSUME TypeOK, Next, NEW s \in Creates, row[s].archived
  PROVE  row'[s].archived
BY RowStep, SavedIsTyped, SavedArchivedIsTyped

\* However late a write based on an earlier read comes, and whether or not its
\* transaction is reported, an archived session stays archived.
THEOREM ArchivalIsFinal == Spec => ArchiveIsPermanent
<1>1. TypeOK /\ [Next]_vars =>
        [\A s \in Creates : row[s].archived => row'[s].archived]_vars
  BY ArchiveStepLemma
<1>2. QED
  BY <1>1, TypeCorrect, PTL DEF Spec, ArchiveIsPermanent

-----------------------------------------------------------------------------
(* The recent list.                                                        *)

\* A saved row is listed, an archived one is not visible, the others stay as they
\* are: the projection is written in the transaction of its row.
LEMMA ListedStep ==
  TypeOK /\ VisibleIsListed /\ [Next]_vars => VisibleIsListed'
<1> SUFFICES ASSUME TypeOK, VisibleIsListed, [Next]_vars, NEW s \in Creates,
                    row'[s].stored, ~row'[s].archived
             PROVE  row'[s].listed
  BY DEF VisibleIsListed, Visible
<1>1. CASE row' = row
  BY <1>1 DEF VisibleIsListed, Visible
<1>2. ASSUME NEW t \in Creates, NEW st \in Statuses, NEW n \in Names, NEW f \in Files,
             row' = Saved(t, st, n, f)
      PROVE  row'[s].listed
  BY <1>2 DEF Saved, TypeOK, VisibleIsListed, Visible
<1>3. ASSUME NEW t \in Creates, NEW v \in Seen, row' = SavedArchived(t, v)
      PROVE  row'[s].listed
  BY <1>3 DEF SavedArchived, TypeOK, VisibleIsListed, Visible
<1>4. QED
  BY <1>1, <1>2, <1>3, RowStep DEF vars

\* No interleaving and no failing transaction hides a visible session from the
\* recent list of its owner.
THEOREM VisibleStaysListed == Spec => []VisibleIsListed
<1>1. Init => VisibleIsListed
  BY DEF Init, VisibleIsListed, Visible
<1>2. QED
  BY <1>1, ListedStep, TypeCorrect, PTL DEF Spec

-----------------------------------------------------------------------------
(* The audit trail.  It only grows, so what has to be shown of a step is   *)
(* that the row it writes, and the request it moves, are covered.          *)

\* What a step that moves request q has to show: the row of no session is stored, or
\* in error, without a record, and q is recorded where it goes.
LEMMA MoveKeepsAudit ==
  ASSUME AuditInv, TypeOK', NEW q \in Requests, NEW place,
         pc' = [pc EXCEPT ![q] = place], audit \subseteq audit',
         \A p \in Requests : p # q => seen'[p] = seen[p],
         \A s \in Creates :
           /\ row'[s].stored => row[s].stored \/ Recorded(s)'
           /\ row'[s].status = "error" => row[s].status = "error" \/ FailureRecorded(s)',
         \/ place \in Live \cup WritingBack \cup {"writing", "written"}
         \/ q \in Submits /\ place = "auditing"
         => Recorded(SessionOf[q])',
         place = "writingFailure" => FailureRecorded(SessionOf[q])',
         place \in WritingBack /\ seen'[q].status = "error" => FailureRecorded(SessionOf[q])'
  PROVE  AuditInv'
<1>1. \A s : /\ Recorded(s) => Recorded(s)'
             /\ FailureRecorded(s) => FailureRecorded(s)'
  BY DEF Recorded, FailureRecorded
<1>2. AuditCoversRow'
  BY <1>1 DEF AuditInv, AuditCoversRow
<1>3. WritersAreRecorded'
  <2> SUFFICES ASSUME NEW p \in Requests
               PROVE  /\ \/ pc'[p] \in Live \cup WritingBack \cup {"writing", "written"}
                         \/ p \in Submits /\ pc'[p] = "auditing"
                         => Recorded(SessionOf[p])'
                      /\ pc'[p] = "writingFailure" => FailureRecorded(SessionOf[p])'
                      /\ pc'[p] \in WritingBack /\ seen'[p].status = "error"
                           => FailureRecorded(SessionOf[p])'
    BY DEF WritersAreRecorded
  <2>1. CASE p = q
    BY <2>1 DEF AuditInv, TypeOK
  <2>2. CASE p # q
    <3>1. pc'[p] = pc[p] /\ seen'[p] = seen[p]
      BY <2>2 DEF AuditInv, TypeOK
    <3>2. QED
      BY <1>1, <3>1 DEF AuditInv, WritersAreRecorded
  <2>3. QED
    BY <2>1, <2>2
<1>4. QED
  BY <1>2, <1>3 DEF AuditInv

\* What is read of a session about its record is true of the request that read it.
LEMMA ReadKeepsAudit ==
  ASSUME AuditInv, TypeOK', NEW q \in Requests, NEW next, ReadSession(q, next),
         \/ next \in WritingBack
         \/ next = "cancelling"
         \/ q \in Submits /\ next = "auditing",
         UNCHANGED <<row, audit>>
  PROVE  AuditInv'
<1> USE RequestsAreTyped
<1>1. PICK place \in {next, "rejected"} : pc' = [pc EXCEPT ![q] = place]
  BY DEF ReadSession, Goto
<1>2. /\ Recorded(SessionOf[q])'
      /\ row[SessionOf[q]].status = "error" => FailureRecorded(SessionOf[q])'
  BY DEF ReadSession, AuditInv, AuditCoversRow, Recorded, FailureRecorded
<1>3. /\ \A p \in Requests : p # q => seen'[p] = seen[p]
      /\ place = next /\ next # "rejected" => seen'[q].status = row[SessionOf[q]].status
  <2>1. \/ UNCHANGED seen /\ pc' = [pc EXCEPT ![q] = "rejected"]
        \/ seen' = [seen EXCEPT ![q] = [status |-> row[SessionOf[q]].status,
                                        name   |-> row[SessionOf[q]].name,
                                        file   |-> row[SessionOf[q]].file]]
    BY DEF ReadSession, Goto
  <2>2. pc'[q] = place
    BY <1>1 DEF AuditInv, TypeOK
  <2>3. QED
    BY <2>1, <2>2 DEF AuditInv, TypeOK
<1>4. "rejected" \notin Live \cup WritingBack \cup {"writing", "written", "auditing"}
  BY DEF Live, Closing, WritingBack
<1>5. next # "writingFailure" /\ place # "writingFailure"
  BY DEF WritingBack
<1>6. place \in WritingBack /\ seen'[q].status = "error" => FailureRecorded(SessionOf[q])'
  BY <1>2, <1>3, <1>4
<1>7. \A s \in Creates :
        /\ row'[s].stored => row[s].stored \/ Recorded(s)'
        /\ row'[s].status = "error" => row[s].status = "error" \/ FailureRecorded(s)'
  OBVIOUS
<1>8. QED
  BY <1>1, <1>2, <1>3, <1>5, <1>6, <1>7, MoveKeepsAudit

\* A run that writes its row was recorded when it arrived; it stores error only
\* after its own session.run_failed.
LEMMA RunKeepsAudit ==
  ASSUME AuditInv, TypeOK', NEW r \in Runs, RunStep(r) \/ ExecutorEnds(r)
  PROVE  AuditInv'
<1> USE RequestsAreTyped
<1> DEFINE s == SessionOf[r]
<1>0. r \in Requests /\ s \in Creates
  OBVIOUS
<1>1. CASE RunAudited(r)
  <2>1. PICK place \in {"writing", "rejected"} :
          /\ pc' = [pc EXCEPT ![r] = place]
          /\ place = "writing" =>
               audit' = audit \cup {<<IF r \in Creates THEN "session.created"
                                      ELSE "session.message_submitted", r>>}
    BY <1>1 DEF RunAudited, Write, Goto
  <2>2. UNCHANGED <<row, seen>> /\ audit \subseteq audit'
    BY <1>1 DEF RunAudited, Write
  <2>3. place = "writing" => Recorded(s)'
    <3>1. CASE r \in Creates
      BY <2>1, <3>1, RequestsAssumption DEF Recorded
    <3>2. CASE r \notin Creates
      BY <1>1, <2>2, <3>2 DEF RunAudited, Runs, AuditInv, WritersAreRecorded, Recorded
    <3>3. QED
      BY <3>1, <3>2
  <2>4. "rejected" \notin Live \cup WritingBack \cup {"written"}
    BY DEF Live, Closing, WritingBack
  <2>5. "writing" \notin WritingBack /\ place # "writingFailure"
    BY DEF WritingBack
  <2>6. QED
    BY <1>0, <2>1, <2>2, <2>3, <2>4, <2>5, MoveKeepsAudit
<1>2. CASE \/ StreamOpened(r) \/ RunHalts(r) \/ HaltAudited(r) \/ StreamClosed(r)
           \/ FailureAudited(r) \/ ExecutorEnds(r)
  <2>1. UNCHANGED <<row, seen>> /\ audit \subseteq audit'
    BY <1>2 DEF StreamOpened, RunHalts, HaltAudited, StreamClosed, FailureAudited,
                ExecutorEnds, ExecutorReturns, ExecutorFails, Write
  <2>2. pc[r] \in Live \cup {"written"}
    BY <1>2 DEF StreamOpened, RunHalts, HaltAudited, StreamClosed, FailureAudited,
                ExecutorEnds, ExecutorReturns, ExecutorFails, Consuming, Live
  <2>3. Recorded(s)'
    BY <1>0, <2>1, <2>2 DEF AuditInv, WritersAreRecorded, Recorded
  <2>4. PICK place :
          /\ pc' = [pc EXCEPT ![r] = place]
          /\ place \notin WritingBack
          /\ place = "writingFailure" => audit' = audit \cup {<<"session.run_failed", r>>}
    <3>1. CASE FailureAudited(r)
      BY <3>1 DEF FailureAudited, Write, Goto, WritingBack
    <3>2. CASE StreamClosed(r)
      <4>1. EndOf(pc[r]) \notin WritingBack \cup {"writingFailure"}
        BY <3>2 DEF StreamClosed, EndOf, Closing, WritingBack
      <4>2. pc' = [pc EXCEPT ![r] = EndOf(pc[r])]
        BY <3>2 DEF StreamClosed, Goto
      <4>3. QED
        BY <4>1, <4>2
    <3>3. CASE StreamOpened(r) \/ RunHalts(r) \/ HaltAudited(r) \/ ExecutorEnds(r)
      BY <3>3 DEF StreamOpened, RunHalts, HaltAudited, ExecutorEnds, ExecutorReturns,
                  ExecutorFails, Write, Goto, WritingBack
    <3>4. QED
      BY <1>2, <3>1, <3>2, <3>3
  <2>5. place = "writingFailure" => FailureRecorded(s)'
    BY <2>4 DEF FailureRecorded
  <2>6. QED
    BY <1>0, <2>1, <2>3, <2>4, <2>5, MoveKeepsAudit
<1>3. CASE RunWritten(r) \/ RunSettles(r) \/ HaltWritten(r) \/ FailureWritten(r)
  <2>1. UNCHANGED <<audit, seen>>
    BY <1>3 DEF RunWritten, RunSettles, HaltWritten, FailureWritten, Write
  <2>2. pc[r] \in Live \cup {"writing"}
    BY <1>3 DEF RunWritten, RunSettles, HaltWritten, FailureWritten, Live
  <2>3. Recorded(s)'
    BY <1>0, <2>1, <2>2 DEF AuditInv, WritersAreRecorded, Recorded
  <2>4. PICK place :
          pc' = [pc EXCEPT ![r] = place] /\ place \notin WritingBack \cup {"writingFailure"}
    BY <1>3 DEF RunWritten, RunSettles, HaltWritten, FailureWritten, Write, Goto,
                WritingBack
  <2>5. PICK st, n, f :
          /\ row' = row \/ row' = Saved(s, st, n, f)
          /\ st = "error" => pc[r] = "writingFailure"
    BY <1>3 DEF RunWritten, RunSettles, HaltWritten, FailureWritten, Write
  <2>6. st = "error" => FailureRecorded(s)'
    BY <1>0, <2>1, <2>5 DEF AuditInv, WritersAreRecorded, FailureRecorded
  <2>7. \A t \in Creates :
          /\ row'[t].stored => row[t].stored \/ Recorded(t)'
          /\ row'[t].status = "error" => row[t].status = "error" \/ FailureRecorded(t)'
    <3>1. /\ row'[s].status \in {row[s].status, st}
          /\ \A t \in Creates : t # s => row'[t] = row[t]
      BY <1>0, <2>5 DEF Saved, AuditInv, TypeOK
    <3>2. QED
      BY <2>3, <2>6, <3>1
  <2>8. QED
    BY <1>0, <2>1, <2>3, <2>4, <2>7, MoveKeepsAudit
<1>4. QED
  BY <1>1, <1>2, <1>3 DEF RunStep

\* A rename and an archive write back the status they read, which was recorded.
LEMMA WriteBackKeepsAudit ==
  ASSUME AuditInv, TypeOK', NEW q \in Renames \cup Archives,
         RenameWritten(q) \/ ArchiveWritten(q)
  PROVE  AuditInv'
<1> USE RequestsAreTyped
<1> DEFINE s == SessionOf[q]
<1>0. q \in Requests /\ s \in Creates /\ pc[q] \in WritingBack
  BY DEF RenameWritten, ArchiveWritten, WritingBack
<1>1. UNCHANGED <<audit, seen>>
  BY DEF RenameWritten, ArchiveWritten, Write
<1>2. /\ Recorded(s)'
      /\ seen[q].status = "error" => FailureRecorded(s)'
  BY <1>0, <1>1 DEF AuditInv, WritersAreRecorded, Recorded, FailureRecorded
<1>3. PICK place \in {"rereading", "ok", "rejected"} : pc' = [pc EXCEPT ![q] = place]
  BY DEF RenameWritten, ArchiveWritten, Write, Goto
<1>4. place \notin WritingBack \cup {"writingFailure"}
  BY DEF WritingBack
<1>5. \/ row' = row
      \/ row' = Saved(s, seen[q].status, q, seen[q].file)
      \/ row' = SavedArchived(s, seen[q])
  BY DEF RenameWritten, ArchiveWritten, Write
<1>6. \A t \in Creates :
        /\ row'[t].stored => row[t].stored \/ Recorded(t)'
        /\ row'[t].status = "error" => row[t].status = "error" \/ FailureRecorded(t)'
  <2>1. /\ row'[s].status \in {row[s].status, seen[q].status}
        /\ \A t \in Creates : t # s => row'[t] = row[t]
    BY <1>0, <1>5 DEF Saved, SavedArchived, AuditInv, TypeOK
  <2>2. QED
    BY <1>2, <2>1
<1>7. QED
  BY <1>0, <1>1, <1>2, <1>3, <1>4, <1>6, MoveKeepsAudit

\* A step that neither writes nor reads the table and sends its request to a place
\* where nothing is owed.
LEMMA LeavingKeepsAudit ==
  ASSUME AuditInv, TypeOK', NEW q \in Requests, UNCHANGED <<row, audit, seen>>,
         NEW place \in Ends \cup {"auditing", "archiving"},
         pc' = [pc EXCEPT ![q] = place],
         place = "auditing" => q \notin Submits,
         place = "archiving" => pc[q] = "checking"
  PROVE  AuditInv'
<1>1. \/ place = "archiving"
      \/ place \notin Live \cup WritingBack \cup {"writing", "written"}
  BY DEF Live, Closing, WritingBack, Ends
<1>2. /\ place = "archiving" => Recorded(SessionOf[q])'
      /\ place = "archiving" /\ seen'[q].status = "error" => FailureRecorded(SessionOf[q])'
  BY DEF AuditInv, WritersAreRecorded, WritingBack, Recorded, FailureRecorded
<1>3. place # "writingFailure"
  BY DEF Ends
<1>4. QED
  BY <1>1, <1>2, <1>3, MoveKeepsAudit

\* Every step of the service keeps the audit trail ahead of the table.
LEMMA AuditStep == AuditInv /\ [Next]_vars => AuditInv'
<1> SUFFICES ASSUME AuditInv, [Next]_vars PROVE AuditInv'
  OBVIOUS
<1> USE RequestsAreTyped
<1>0. TypeOK'
  BY TypeStep DEF AuditInv
<1>1. ASSUME NEW c \in Creates, CreateArrives(c) PROVE AuditInv'
  <2>1. c \in Requests /\ c \notin Submits
    BY RequestsAssumption
  <2>2. PICK place \in Ends \cup {"auditing"} : pc' = [pc EXCEPT ![c] = place]
    BY <1>1 DEF CreateArrives, Goto, Ends
  <2>3. place # "archiving"
    BY DEF Ends
  <2>4. QED
    BY <1>0, <1>1, <2>1, <2>2, <2>3, LeavingKeepsAudit DEF CreateArrives
<1>2. ASSUME NEW m \in Submits, SubmitReads(m) PROVE AuditInv'
  BY <1>0, <1>2, ReadKeepsAudit DEF SubmitReads
<1>3. ASSUME NEW m \in Submits, ProviderMissing(m) PROVE AuditInv'
  BY <1>0, <1>3, LeavingKeepsAudit DEF ProviderMissing, Goto, Ends
<1>4. ASSUME NEW r \in Runs, RunStep(r) \/ ExecutorEnds(r) PROVE AuditInv'
  BY <1>0, <1>4, RunKeepsAudit
<1>5. ASSUME NEW n \in Renames, RenameReads(n) PROVE AuditInv'
  <2>1. n \in Requests /\ "renaming" \in WritingBack
    BY DEF WritingBack
  <2>2. ReadSession(n, "renaming") /\ UNCHANGED <<row, audit>>
    BY <1>5 DEF RenameReads
  <2>3. QED
    BY <1>0, <2>1, <2>2, ReadKeepsAudit
<1>6. ASSUME NEW a \in Archives, ArchiveReads(a) PROVE AuditInv'
  <2>1. a \in Requests /\ "checking" \in WritingBack
    BY DEF WritingBack
  <2>2. ReadSession(a, "checking") /\ UNCHANGED <<row, audit>>
    BY <1>6 DEF ArchiveReads
  <2>3. QED
    BY <1>0, <2>1, <2>2, ReadKeepsAudit
<1>7. ASSUME NEW k \in Cancels, CancelReads(k) PROVE AuditInv'
  <2>1. k \in Requests
    OBVIOUS
  <2>2. ReadSession(k, "cancelling") /\ UNCHANGED <<row, audit>>
    BY <1>7 DEF CancelReads
  <2>3. QED
    BY <1>0, <2>1, <2>2, ReadKeepsAudit
<1>8. ASSUME NEW n \in Renames, RenameWritten(n) PROVE AuditInv'
  BY <1>0, <1>8, WriteBackKeepsAudit
<1>9. ASSUME NEW a \in Archives, ArchiveWritten(a) PROVE AuditInv'
  BY <1>0, <1>9, WriteBackKeepsAudit
<1>10. ASSUME NEW n \in Renames, RenameAnswered(n) PROVE AuditInv'
  <2>1. PICK place \in {"ok", "rejected"} : pc' = [pc EXCEPT ![n] = place]
    BY <1>10 DEF RenameAnswered, Goto
  <2>2. n \in Requests /\ place \in Ends
    BY DEF Ends
  <2>3. place # "auditing" /\ place # "archiving"
    OBVIOUS
  <2>4. QED
    BY <1>0, <1>10, <2>1, <2>2, <2>3, LeavingKeepsAudit DEF RenameAnswered
<1>11. ASSUME NEW a \in Archives, ArchiveChecked(a) PROVE AuditInv'
  <2>1. PICK place \in {"conflict", "archiving"} :
          /\ pc' = [pc EXCEPT ![a] = place]
          /\ place = "archiving" => pc[a] = "checking"
    BY <1>11 DEF ArchiveChecked, Goto
  <2>2. a \in Requests /\ place \in Ends \cup {"archiving"}
    BY DEF Ends
  <2>3. place # "auditing"
    OBVIOUS
  <2>4. QED
    BY <1>0, <1>11, <2>1, <2>2, <2>3, LeavingKeepsAudit DEF ArchiveChecked
<1>12. ASSUME NEW k \in Cancels, CancelCalled(k) PROVE AuditInv'
  <2>1. PICK place \in {"ok", "noRun"} : pc' = [pc EXCEPT ![k] = place]
    BY <1>12 DEF CancelCalled, Goto
  <2>2. k \in Requests /\ place \in Ends
    BY DEF Ends
  <2>3. QED
    BY <1>0, <1>12, <2>1, <2>2, LeavingKeepsAudit DEF CancelCalled
<1>13. CASE Crash
  <2>1. \A q \in Requests : pc'[q] = pc[q] \/ pc'[q] = "dead"
    BY <1>13 DEF Crash
  <2>2. "dead" \notin Live \cup WritingBack \cup {"writing", "written", "auditing"}
    BY DEF Live, Closing, WritingBack
  <2>3. WritersAreRecorded'
    BY <1>13, <2>1, <2>2 DEF Crash, AuditInv, WritersAreRecorded, Recorded, FailureRecorded
  <2>4. QED
    BY <1>0, <1>13, <2>3 DEF Crash, AuditInv, AuditCoversRow, Recorded, FailureRecorded
<1>14. CASE UNCHANGED <<row, audit, pc, seen>>
  BY <1>0, <1>14 DEF AuditInv, AuditCoversRow, WritersAreRecorded, Recorded, FailureRecorded
<1>15. ASSUME NEW r \in Runs, NEW e \in ExecutorEvents, ExecutorYields(r, e)
       PROVE  AuditInv'
  BY <1>14, <1>15 DEF ExecutorYields
<1>16. QED
  BY <1>1, <1>2, <1>3, <1>4, <1>5, <1>6, <1>7, <1>8, <1>9, <1>10, <1>11, <1>12,
     <1>13, <1>14, <1>15 DEF Next, RenameStep, ArchiveStep, Quiet, vars

\* However a run ends, and whichever of its transactions fails or comes late, the
\* table never tells of a session or of a failure that the audit trail does not.
THEOREM AuditIsNeverBehind == Spec => []AuditCoversRow
<1>1. Init => AuditInv
  <2> SUFFICES ASSUME Init PROVE AuditInv
    OBVIOUS
  <2>1. AuditCoversRow
    BY DEF Init, AuditCoversRow
  <2>2. WritersAreRecorded
    BY DEF Init, WritersAreRecorded, Live, Closing, WritingBack
  <2>3. QED
    BY <2>1, <2>2, TypeInit DEF AuditInv
<1>2. AuditInv => AuditCoversRow
  BY DEF AuditInv
<1>3. QED
  BY <1>1, <1>2, AuditStep, PTL DEF Spec

-----------------------------------------------------------------------------
(* The event streams implement RunStream: a step of the service opens,     *)
(* feeds, ends or cuts a stream as the contract allows, or leaves all      *)
(* streams as they are.                                                    *)

\* The service starts with streams that RunStream starts with.
LEMMA StreamInit == Init => Stream!Init
BY DEF Init, Stream!Init

\* Every step of the service is a step of RunStream or leaves the streams alone.
LEMMA StreamStep == IInv /\ [Next]_vars => [Stream!Next]_<<stream, sent>>
<1> SUFFICES ASSUME IInv, [Next]_vars PROVE [Stream!Next]_<<stream, sent>>
  OBVIOUS
<1> USE RequestsAreTyped
<1>1. ASSUME NEW r \in Runs, pc[r] = "idle",
             stream' = [stream EXCEPT ![r] = "hijacked"], UNCHANGED sent
      PROVE  Stream!Next
  BY <1>1 DEF IInv, StreamFollowsRun, Stream!Next, Stream!Hijack
<1>2. ASSUME NEW r \in Runs, StreamOpened(r) PROVE Stream!Next
  <2>1. stream[r] = "hijacked"
    BY <1>2 DEF StreamOpened, IInv, StreamFollowsRun, Opening
  <2>2. Stream!Open(r)
    BY <1>2, <2>1 DEF StreamOpened, Stream!Open, Stream!Greetings
  <2>3. QED
    BY <2>2 DEF Stream!Next
<1>3. ASSUME NEW r \in Runs, NEW e \in ExecutorEvents, ExecutorYields(r, e)
      PROVE  Stream!Next
  <2>1. stream[r] = "open" /\ ~Contains(sent[r], "run.cancelled")
    BY <1>3 DEF ExecutorYields, Consuming, IInv, StreamFollowsRun, CancelIsNoticed, Live
  <2>2. Stream!Publish(r, e)
    BY <1>3, <2>1 DEF ExecutorYields, Stream!Publish, Stream!Contains, Contains
  <2>3. QED
    BY <2>2 DEF Stream!Next
<1>4. ASSUME NEW r \in Runs, StreamClosed(r) PROVE Stream!Next
  <2>1. stream[r] = "open"
    BY <1>4 DEF StreamClosed, IInv, StreamFollowsRun, Live
  <2>2. sent' = sent \/ sent' = [sent EXCEPT ![r] = Append(sent[r], "run.failed")]
    BY <1>4 DEF StreamClosed, IInv, TypeOK
  <2>3. Stream!Close(r)
    BY <1>4, <2>1, <2>2 DEF StreamClosed, Stream!Close
  <2>4. QED
    BY <2>3 DEF Stream!Next
<1>5. ASSUME NEW k \in Cancels, CancelCalled(k)
      PROVE  Stream!Next \/ UNCHANGED <<stream, sent>>
  <2> DEFINE r == registry[SessionOf[k]]
  <2>1. CASE r = NoRun
    BY <1>5, <2>1 DEF CancelCalled
  <2>2. CASE r # NoRun
    <3>1. r \in Runs /\ stream[r] = "open"
      BY <2>2 DEF IInv, TypeOK, Files, RegistryEntryIsLive
    <3>2. sent' = [sent EXCEPT ![r] = Append(sent[r], "run.cancelled")] /\ UNCHANGED stream
      BY <1>5, <2>2 DEF CancelCalled
    <3>3. Stream!Publish(r, "run.cancelled")
      BY <3>1, <3>2 DEF Stream!Publish
    <3>4. QED
      BY <3>1, <3>3 DEF Stream!Next
  <2>3. QED
    BY <2>1, <2>2
<1>6. ASSUME Crash PROVE Stream!Next
  <2> DEFINE lost == {r \in Runs : stream[r] \in {"hijacked", "open"} /\ pc[r] \notin Ends}
  <2>1. lost \in SUBSET {r \in Runs : stream[r] \in {"hijacked", "open"}}
    OBVIOUS
  <2>2. stream' = [r \in Runs |-> IF r \in lost THEN "cut" ELSE stream[r]]
    BY <1>6 DEF Crash
  <2>3. Stream!Cut
    BY <1>6, <2>1, <2>2 DEF Crash, Stream!Cut
  <2>4. QED
    BY <2>3 DEF Stream!Next
<1>7. ASSUME NEW m \in Submits, SubmitReads(m)
      PROVE  Stream!Next \/ UNCHANGED <<stream, sent>>
  BY <1>1, <1>7 DEF SubmitReads
<1>8. ASSUME NEW c \in Creates, CreateArrives(c) PROVE Stream!Next
  BY <1>1, <1>8 DEF CreateArrives
<1>9. QED
  BY <1>2, <1>3, <1>4, <1>5, <1>6, <1>7, <1>8
     DEF Next, RunStep, ExecutorEnds, RenameStep, ArchiveStep, Quiet, vars,
         ProviderMissing, RunAudited, RunWritten, RunHalts, RunSettles, HaltAudited,
         HaltWritten, FailureAudited, FailureWritten, ExecutorReturns, ExecutorFails,
         RenameReads, RenameWritten, RenameAnswered, ArchiveReads, ArchiveChecked,
         ArchiveWritten, CancelReads

\* Every behaviour of the service is, stream by stream, one that RunStream allows:
\* no event after the end of a stream, none of the executor after run.cancelled.
THEOREM StreamsKeepTheirContract == Spec => StreamContract
<1>1. QED
  BY StreamInit, StreamStep, Invariance, PTL DEF Spec, StreamContract, Stream!Spec

-----------------------------------------------------------------------------
(***************************************************************************)
(* The service when every client waits for its answers                     *)
(* (OneRequestAtATime).  The invariant is SerialInv: what a request under  *)
(* way has read is still what the row holds, because nobody else writes it *)
(* meanwhile.                                                              *)
(***************************************************************************)

\* The frame of a step of request q: it goes to a place, and touches only what is
\* its own and the row of its session.
Moves(q, place) ==
  /\ pc' = [pc EXCEPT ![q] = place]
  /\ \A p \in Requests : p # q => seen'[p] = seen[p]
  /\ \A p \in Runs : p # q => turnFile'[p] = turnFile[p]
  /\ \A t \in Creates : t # SessionOf[q] => row'[t] = row[t]
  /\ faults' = faults \/ faults' = faults + 1
  /\ crashes' = crashes

\* A request may take a step on its session: it is under way, or no other one is.
MayMove(q) ==
  \/ UnderWay(q)
  \/ /\ pc[q] = "idle" /\ UNCHANGED row
     /\ q \in Creates \/ pc[SessionOf[q]] # "idle"
     /\ \A p \in Requests \ Cancels :
          p # q /\ SessionOf[p] = SessionOf[q] => ~UnderWay(p)

\* Requests other than cancels.
LEMMA ClientsAreTyped ==
  /\ Runs \subseteq Requests \ Cancels /\ Creates \subseteq Requests \ Cancels
  /\ Submits \subseteq Requests \ Cancels
  /\ Renames \subseteq Requests \ Cancels /\ Archives \subseteq Requests \ Cancels
  /\ Creates \subseteq Runs /\ Submits \subseteq Runs
  /\ Renames \cap Runs = {} /\ Archives \cap Runs = {} /\ Cancels \cap Runs = {}
  /\ Submits \cap Creates = {}
  /\ \A q \in Requests : SessionOf[q] \in Creates
  /\ \A c \in Creates : SessionOf[c] = c
BY RequestsAssumption DEF Requests, Runs

\* The end places and those under way.
LEMMA PlacesApart ==
  /\ Ends \cap (Live \cup Opening \cup WritingBack \cup {"rereading", "idle"}) = {}
  /\ Live \cap (Opening \cup WritingBack \cup {"rereading", "idle"}) = {}
BY DEF Ends, Live, Closing, Opening, WritingBack

\* A step of one request keeps the order of the requests of a session, and what the
\* others have read, if the request itself stays current.
LEMMA MoveKeepsCurrent ==
  ASSUME SerialInv, NEW q \in Requests \ Cancels, NEW place, Moves(q, place),
         MayMove(q), place # "idle", place \notin Ends => Current(q)',
         q \in Creates => seen'[q] = seen[q]
  PROVE  OneAtATime' /\ CreateIsFirst' /\ SeenIsCurrent'
<1> USE ClientsAreTyped
<1>0. /\ \A p \in Requests : p # q => pc'[p] = pc[p]
      /\ pc'[q] = place
      /\ \A p \in Requests \ Cancels :
           p # q /\ SessionOf[p] = SessionOf[q] => ~UnderWay(p)
  BY DEF Moves, MayMove, SerialInv, IInv, TypeOK, OneAtATime
<1>1. OneAtATime'
  BY <1>0 DEF OneAtATime, UnderWay, SerialInv
<1>2. CreateIsFirst'
  <2> SUFFICES ASSUME NEW s \in Creates
               PROVE  /\ seen'[s] = [status |-> "idle", name |-> s, file |-> NoRun]
                      /\ pc'[s] = "idle" =>
                           /\ row'[s] = NewRow(s)
                           /\ \A p \in Requests \ Cancels : SessionOf[p] = s => pc'[p] = "idle"
    BY DEF CreateIsFirst, NewRow
  <2>1. seen'[s] = seen[s]
    BY DEF Moves
  <2>2. ASSUME pc'[s] = "idle" PROVE pc[s] = "idle" /\ SessionOf[q] # s
    <3>1. s # q /\ pc[s] = "idle"
      BY <1>0, <2>2
    <3>2. CASE UnderWay(q)
      BY <3>1, <3>2 DEF UnderWay, SerialInv, CreateIsFirst
    <3>3. CASE ~UnderWay(q)
      BY <3>1, <3>3 DEF MayMove
    <3>4. QED
      BY <3>1, <3>2, <3>3
  <2>3. QED
    BY <1>0, <2>1, <2>2 DEF Moves, SerialInv, CreateIsFirst
<1>3. SeenIsCurrent'
  <2> SUFFICES ASSUME NEW p \in Requests \ Cancels, UnderWay(p)' PROVE Current(p)'
    BY DEF SeenIsCurrent
  <2>1. CASE p = q
    BY <1>0, <2>1 DEF UnderWay
  <2>2. CASE p # q
    <3>1. UnderWay(p) /\ SessionOf[p] # SessionOf[q]
      BY <1>0, <2>2 DEF UnderWay
    <3>2. /\ pc'[p] = pc[p] /\ seen'[p] = seen[p] /\ row'[SessionOf[p]] = row[SessionOf[p]]
          /\ p \in Runs => turnFile'[p] = turnFile[p]
          /\ faults' + crashes' = 0 => faults + crashes = 0
      BY <1>0, <2>2, <3>1 DEF Moves, SerialInv, IInv, TypeOK
    <3>3. Current(p)
      BY <3>1 DEF SerialInv, SeenIsCurrent
    <3>4. QED
      BY <3>2, <3>3 DEF Current, Visible, NewRow
  <2>3. QED
    BY <2>1, <2>2
<1>4. QED
  BY <1>1, <1>2, <1>3

\* The registry, the streams and the stored status after such a step, if it opens and
\* closes no stream, keeps the file of a stored turn and leaves the session running
\* only as a run or where it was.
LEMMA MoveKeepsServing ==
  ASSUME SerialInv, NEW q \in Requests \ Cancels, NEW place, Moves(q, place),
         UNCHANGED registry,
         \A r \in Runs : stream'[r] = "open" => stream[r] = "open",
         q \in Runs /\ pc[q] \in Live => place \in Live,
         place # "completed",
         row[SessionOf[q]].file \in {NoRun, row'[SessionOf[q]].file},
         faults' + crashes' = 0 /\ row'[SessionOf[q]].status = "running" =>
           \/ q \in Runs /\ place \in Live \cup {"written"}
           \/ /\ row[SessionOf[q]].status = "running"
              /\ q \notin Runs \/ pc[q] \notin Live \cup {"written"}
  PROVE  OpenIsLive' /\ OpenRunIsRegistered' /\ TurnIsReadable' /\ RunningHasARun'
<1> USE ClientsAreTyped
<1>0. /\ \A p \in Requests : p # q => pc'[p] = pc[p]
      /\ pc'[q] = place
      /\ \A r \in Runs : r \in Requests
  BY DEF Moves, SerialInv, IInv, TypeOK
<1>1. OpenIsLive'
  BY <1>0 DEF SerialInv, OpenIsLive
<1>2. OpenRunIsRegistered'
  BY RequestsAssumption DEF SerialInv, OpenRunIsRegistered, ReportedStatus
<1>3. TurnIsReadable'
  <2> SUFFICES ASSUME NEW r \in Runs, pc'[r] = "completed", turnFile'[r] # NoRun
               PROVE  row'[SessionOf[r]].file = turnFile'[r]
    BY DEF TurnIsReadable
  <2>1. /\ r # q /\ pc[r] = "completed" /\ turnFile'[r] = turnFile[r]
    BY <1>0 DEF Moves
  <2>2. row[SessionOf[r]].file = turnFile[r] /\ turnFile[r] # NoRun
    BY <2>1 DEF SerialInv, TurnIsReadable
  <2>3. SessionOf[r] # SessionOf[q] => row'[SessionOf[r]] = row[SessionOf[r]]
    BY <1>0 DEF Moves
  <2>4. QED
    BY <2>1, <2>2, <2>3
<1>4. RunningHasARun'
  <2> SUFFICES ASSUME NEW s \in Creates, row'[s].status = "running", faults' + crashes' = 0
               PROVE  \E r \in Runs : SessionOf[r] = s /\ pc'[r] \in Live \cup {"written"}
    BY DEF RunningHasARun
  <2>1. faults + crashes = 0
    BY DEF Moves, SerialInv, IInv, TypeOK
  <2>2. CASE s # SessionOf[q]
    <3>1. row'[s] = row[s]
      BY <2>2 DEF Moves
    <3>2. PICK r \in Runs : SessionOf[r] = s /\ pc[r] \in Live \cup {"written"}
      BY <2>1, <3>1 DEF SerialInv, RunningHasARun
    <3>3. r # q
      BY <2>2, <3>2
    <3>4. QED
      BY <1>0, <3>2, <3>3
  <2>3. CASE s = SessionOf[q] /\ q \in Runs /\ place \in Live \cup {"written"}
    BY <1>0, <2>3
  <2>4. CASE /\ s = SessionOf[q] /\ row[s].status = "running"
             /\ q \notin Runs \/ pc[q] \notin Live \cup {"written"}
    <3>1. PICK r \in Runs : SessionOf[r] = s /\ pc[r] \in Live \cup {"written"}
      BY <2>1, <2>4 DEF SerialInv, RunningHasARun
    <3>2. r # q
      BY <2>4, <3>1
    <3>3. QED
      BY <1>0, <3>1, <3>2
  <2>5. QED
    BY <2>2, <2>3, <2>4
<1>5. QED
  BY <1>1, <1>2, <1>3, <1>4

-----------------------------------------------------------------------------
(* The writes.                                                             *)

\* updateSession changes the row it is for, and leaves in it what it was given.
LEMMA SavedRow ==
  ASSUME TypeOK, NEW s \in Creates, NEW st \in Statuses, NEW n \in Names,
         NEW f \in Files
  PROVE  /\ \A t \in Creates : t # s => Saved(s, st, n, f)[t] = row[t]
         /\ Saved(s, st, n, f)[s].stored
         /\ Saved(s, st, n, f)[s].archived = row[s].archived
         /\ Saved(s, st, n, f)[s].status = st
         /\ Saved(s, st, n, f)[s].name = n
         /\ f = NoRun => Saved(s, st, n, f)[s].file = row[s].file
         /\ f # NoRun => Saved(s, st, n, f)[s].file = f
BY DEF Saved, TypeOK

\* An awaited write of a request under way keeps the invariant, if the request is
\* current wherever the write takes it, and the row it leaves, if any, has the file
\* of the earlier turns and is stored as running only as before or for a run.
LEMMA WriteKeepsSerial ==
  ASSUME SerialInv, IInv', NEW q \in Requests \ Cancels, UnderWay(q),
         NEW newRow, NEW newAudit, NEW next, NEW handler,
         Write(q, newRow, newAudit, next, handler),
         UNCHANGED <<seen, turnFile, registry, stream, crashes>>,
         {next, handler} \cap {"idle", "completed"} = {},
         q \in Runs /\ pc[q] \in Live => next \in Live /\ handler \in Live,
         next \notin Ends /\ row' = newRow /\ pc'[q] = next => Current(q)',
         handler \notin Ends /\ row' \in {row, newRow} /\ pc'[q] = handler
           /\ faults' = faults + 1 => Current(q)',
         \A t \in Creates : t # SessionOf[q] => newRow[t] = row[t],
         row[SessionOf[q]].file \in {NoRun, newRow[SessionOf[q]].file},
         newRow[SessionOf[q]].status = "running" /\ faults + crashes = 0 =>
           \/ q \in Runs /\ next \in Live \cup {"written"}
           \/ /\ row[SessionOf[q]].status = "running"
              /\ q \notin Runs \/ pc[q] \notin Live \cup {"written"}
  PROVE  SerialInv'
<1> USE ClientsAreTyped
<1>0. pc \in [Requests -> Places] /\ faults \in Nat /\ crashes \in Nat
  BY BoundsAssumption DEF SerialInv, IInv, TypeOK
<1>1. PICK place \in {next, handler} :
        /\ Moves(q, place) /\ pc'[q] = place
        /\ \/ place = next /\ row' = newRow /\ faults' = faults
           \/ place = handler /\ row' \in {row, newRow} /\ faults' = faults + 1
  BY <1>0 DEF Write, Goto, Fault, Moves
<1>2. place \notin Ends => Current(q)'
  BY <1>1
<1>3. OneAtATime' /\ CreateIsFirst' /\ SeenIsCurrent'
  BY <1>1, <1>2, MoveKeepsCurrent DEF MayMove
<1>4. /\ row[SessionOf[q]].file \in {NoRun, row'[SessionOf[q]].file}
      /\ faults' + crashes' = 0 => place = next /\ row' = newRow /\ faults + crashes = 0
  BY <1>0, <1>1
<1>5. /\ q \in Runs /\ pc[q] \in Live => place \in Live
      /\ place # "completed"
      /\ \A r \in Runs : stream'[r] = "open" => stream[r] = "open"
  BY <1>1
<1>6. faults' + crashes' = 0 /\ row'[SessionOf[q]].status = "running" =>
        \/ q \in Runs /\ place \in Live \cup {"written"}
        \/ /\ row[SessionOf[q]].status = "running"
           /\ q \notin Runs \/ pc[q] \notin Live \cup {"written"}
  BY <1>4
<1>7. OpenIsLive' /\ OpenRunIsRegistered' /\ TurnIsReadable' /\ RunningHasARun'
  BY <1>1, <1>4, <1>5, <1>6, MoveKeepsServing
<1>8. QED
  BY <1>3, <1>7 DEF SerialInv

\* The writes of a run.
LEMMA RunWritesKeepSerial ==
  ASSUME SerialInv, IInv', NEW r \in Runs,
         \/ RunAudited(r) \/ RunWritten(r) \/ RunSettles(r) \/ HaltAudited(r)
         \/ HaltWritten(r) \/ FailureAudited(r) \/ FailureWritten(r)
  PROVE  SerialInv'
<1> USE ClientsAreTyped
<1> DEFINE s == SessionOf[r]
<1>0. /\ r \in Requests \ Cancels /\ s \in Creates
      /\ TypeOK /\ faults \in Nat /\ crashes \in Nat
      /\ {"running", "idle", "error"} \subseteq Statuses
      /\ seen[r].name \in Names /\ seen[r].file \in Files /\ turnFile[r] \in Files
  BY BoundsAssumption DEF SerialInv, IInv, TypeOK, Statuses, Seen
<1>1. CASE RunAudited(r)
  <2>1. UnderWay(r) /\ Current(r) /\ pc[r] = "auditing"
    BY <1>0, <1>1 DEF RunAudited, UnderWay, Ends, SerialInv, SeenIsCurrent
  <2>2. row' = row /\ pc'[r] = "writing" => Current(r)'
    BY <1>1, <2>1 DEF RunAudited, Current, Visible, NewRow, Opening, WritingBack, Closing
  <2>3. "rejected" \in Ends /\ "auditing" \notin Live \cup {"written"}
    BY DEF Ends, Live, Closing
  <2> HIDE DEF s
  <2>4. QED
    BY <1>0, <1>1, <2>1, <2>2, <2>3, WriteKeepsSerial DEF RunAudited, s
<1>2. CASE RunWritten(r)
  <2>1. UnderWay(r) /\ Current(r) /\ pc[r] = "writing"
    BY <1>0, <1>2 DEF RunWritten, UnderWay, Ends, SerialInv, SeenIsCurrent
  <2> DEFINE newRow == Saved(s, "running", seen[r].name, seen[r].file)
  <2>2. row' = newRow /\ pc'[r] = "written" => Current(r)'
    BY <1>0, <1>2, <2>1, SavedRow
       DEF RunWritten, Current, Visible, NewRow, Opening, WritingBack, Closing
  <2>3. row[s].file \in {NoRun, newRow[s].file}
    BY <1>0, <2>1, SavedRow DEF Current
  <2>4. "rejected" \in Ends /\ "writing" \notin Live \cup {"written"}
    BY DEF Ends, Live, Closing
  <2>5. \A t \in Creates : t # s => newRow[t] = row[t]
    BY <1>0, SavedRow
  <2> HIDE DEF newRow
  <2>6. QED
    BY <1>0, <1>2, <2>1, <2>2, <2>3, <2>4, <2>5, WriteKeepsSerial DEF RunWritten, newRow
<1>3. CASE RunSettles(r)
  <2>1. UnderWay(r) /\ Current(r) /\ pc[r] = "settling"
    BY <1>0, <1>3 DEF RunSettles, UnderWay, Ends, SerialInv, SeenIsCurrent
  <2> DEFINE newRow == Saved(s, "idle", seen[r].name, turnFile[r])
  <2>2. row' = newRow /\ pc'[r] = "settled" => Current(r)'
    BY <1>0, <1>3, <2>1, SavedRow
       DEF RunSettles, Current, Visible, NewRow, Opening, WritingBack, Closing
  <2>3. row' \in {row, newRow} /\ pc'[r] = "failing" => Current(r)'
    BY <1>0, <1>3, <2>1, SavedRow
       DEF RunSettles, Current, Visible, NewRow, Opening, WritingBack, Closing
  <2>4. row[s].file \in {NoRun, newRow[s].file} /\ newRow[s].status = "idle"
    BY <1>0, <2>1, SavedRow DEF Current
  <2>5. \A t \in Creates : t # s => newRow[t] = row[t]
    BY <1>0, SavedRow
  <2>6. {"settled", "failing"} \subseteq Live
    BY DEF Live, Closing
  <2> HIDE DEF newRow
  <2>7. QED
    BY <1>0, <1>3, <2>1, <2>2, <2>3, <2>4, <2>5, <2>6, WriteKeepsSerial
       DEF RunSettles, newRow
<1>4. CASE HaltAudited(r)
  <2>1. UnderWay(r) /\ Current(r) /\ pc[r] = "halting"
    BY <1>0, <1>4 DEF HaltAudited, UnderWay, Ends, SerialInv, SeenIsCurrent
  <2>2. row' = row /\ pc'[r] \in {"writingHalt", "failing"} => Current(r)'
    BY <1>4, <2>1 DEF HaltAudited, Current, Visible, NewRow, Opening, WritingBack, Closing
  <2>3. {"writingHalt", "failing"} \subseteq Live
    BY DEF Live
  <2>4. QED
    BY <1>0, <1>4, <2>1, <2>2, <2>3, WriteKeepsSerial DEF HaltAudited
<1>5. CASE HaltWritten(r)
  <2>1. UnderWay(r) /\ Current(r) /\ pc[r] = "writingHalt"
    BY <1>0, <1>5 DEF HaltWritten, UnderWay, Ends, SerialInv, SeenIsCurrent
  <2> DEFINE newRow == Saved(s, "idle", seen[r].name, seen[r].file)
  <2>2. row' \in {row, newRow} /\ pc'[r] \in {"halted", "failing"} /\ (row' = newRow \/ pc'[r] = "failing")
          => Current(r)'
    BY <1>0, <1>5, <2>1, SavedRow
       DEF HaltWritten, Current, Visible, NewRow, Opening, WritingBack, Closing
  <2>3. row[s].file \in {NoRun, newRow[s].file} /\ newRow[s].status = "idle"
    BY <1>0, <2>1, SavedRow DEF Current
  <2>4. \A t \in Creates : t # s => newRow[t] = row[t]
    BY <1>0, SavedRow
  <2>5. {"halted", "failing"} \subseteq Live
    BY DEF Live, Closing
  <2> HIDE DEF newRow
  <2>6. QED
    BY <1>0, <1>5, <2>1, <2>2, <2>3, <2>4, <2>5, WriteKeepsSerial DEF HaltWritten, newRow
<1>6. CASE FailureAudited(r)
  <2>1. UnderWay(r) /\ Current(r) /\ pc[r] = "failing"
    BY <1>0, <1>6 DEF FailureAudited, UnderWay, Ends, SerialInv, SeenIsCurrent
  <2>2. row' = row /\ pc'[r] = "writingFailure" => Current(r)'
    BY <1>6, <2>1 DEF FailureAudited, Current, Visible, NewRow, Opening, WritingBack, Closing
  <2>3. row' = row /\ pc'[r] = "aborted" /\ faults' = faults + 1 => Current(r)'
    BY <1>0, <1>6, <2>1
       DEF FailureAudited, Current, Visible, NewRow, Opening, WritingBack, Closing
  <2>4. {"writingFailure", "aborted"} \subseteq Live
    BY DEF Live, Closing
  <2>5. QED
    BY <1>0, <1>6, <2>1, <2>2, <2>3, <2>4, WriteKeepsSerial DEF FailureAudited
<1>7. CASE FailureWritten(r)
  <2>1. UnderWay(r) /\ Current(r) /\ pc[r] = "writingFailure"
    BY <1>0, <1>7 DEF FailureWritten, UnderWay, Ends, SerialInv, SeenIsCurrent
  <2> DEFINE newRow == Saved(s, "error", seen[r].name, seen[r].file)
  <2>2. row' = newRow /\ pc'[r] = "reporting" => Current(r)'
    BY <1>0, <1>7, <2>1, SavedRow
       DEF FailureWritten, Current, Visible, NewRow, Opening, WritingBack, Closing
  <2>3. row' \in {row, newRow} /\ pc'[r] = "aborted" /\ faults' = faults + 1 => Current(r)'
    BY <1>0, <1>7, <2>1, SavedRow
       DEF FailureWritten, Current, Visible, NewRow, Opening, WritingBack, Closing
  <2>4. row[s].file \in {NoRun, newRow[s].file} /\ newRow[s].status = "error"
    BY <1>0, <2>1, SavedRow DEF Current
  <2>5. \A t \in Creates : t # s => newRow[t] = row[t]
    BY <1>0, SavedRow
  <2>6. {"reporting", "aborted"} \subseteq Live
    BY DEF Live, Closing
  <2> HIDE DEF newRow
  <2>7. QED
    BY <1>0, <1>7, <2>1, <2>2, <2>3, <2>4, <2>5, <2>6, WriteKeepsSerial
       DEF FailureWritten, newRow
<1>8. QED
  BY <1>1, <1>2, <1>3, <1>4, <1>5, <1>6, <1>7

\* The write of a rename.
LEMMA RenameWriteKeepsSerial ==
  ASSUME SerialInv, IInv', NEW q \in Renames, RenameWritten(q)
  PROVE  SerialInv'
<1> USE ClientsAreTyped
<1> DEFINE s == SessionOf[q]
<1> DEFINE newRow == Saved(s, seen[q].status, q, seen[q].file)
<1>0. /\ q \in Requests \ Cancels /\ q \notin Runs /\ s \in Creates /\ TypeOK
      /\ seen[q].status \in Statuses /\ seen[q].file \in Files /\ q \in Names
  BY DEF SerialInv, IInv, TypeOK, Seen, Names
<1>1. UnderWay(q) /\ Current(q) /\ pc[q] = "renaming"
  BY <1>0 DEF RenameWritten, UnderWay, Ends, SerialInv, SeenIsCurrent
<1>2. row' = newRow /\ pc'[q] = "rereading" => Current(q)'
  BY <1>0, <1>1, SavedRow
     DEF RenameWritten, Current, Visible, NewRow, Opening, WritingBack, Closing
<1>3. row[s].file \in {NoRun, newRow[s].file} /\ newRow[s].status = row[s].status
  BY <1>0, <1>1, SavedRow DEF Current, WritingBack
<1>4. \A t \in Creates : t # s => newRow[t] = row[t]
  BY <1>0, SavedRow
<1>5. "rejected" \in Ends
  BY DEF Ends
<1> HIDE DEF newRow
<1>6. QED
  BY <1>0, <1>1, <1>2, <1>3, <1>4, <1>5, WriteKeepsSerial DEF RenameWritten, newRow

\* The write of an archive.
LEMMA ArchiveWriteKeepsSerial ==
  ASSUME SerialInv, IInv', NEW q \in Archives, ArchiveWritten(q)
  PROVE  SerialInv'
<1> USE ClientsAreTyped
<1> DEFINE s == SessionOf[q]
<1> DEFINE newRow == SavedArchived(s, seen[q])
<1>0. q \in Requests \ Cancels /\ q \notin Runs /\ s \in Creates /\ TypeOK
  BY DEF SerialInv, IInv
<1>1. UnderWay(q) /\ Current(q) /\ pc[q] = "archiving"
  BY <1>0 DEF ArchiveWritten, UnderWay, Ends, SerialInv, SeenIsCurrent
<1>2. /\ row[s].file \in {NoRun, newRow[s].file} /\ newRow[s].status = seen[q].status
      /\ \A t \in Creates : t # s => newRow[t] = row[t]
  BY <1>0, <1>1 DEF SavedArchived, TypeOK, Current
<1>3. newRow[s].status # "running"
  BY <1>1, <1>2 DEF Current
<1>4. {"ok", "rejected"} \subseteq Ends
  BY DEF Ends
<1> HIDE DEF newRow
<1>5. QED
  BY <1>0, <1>1, <1>2, <1>3, <1>4, WriteKeepsSerial DEF ArchiveWritten, newRow

-----------------------------------------------------------------------------
(* The steps that write no row.                                            *)

\* A request that goes on without a write keeps the invariant if it is current where
\* it goes and opens and closes no stream.
LEMMA WalkKeepsSerial ==
  ASSUME SerialInv, IInv', NEW q \in Requests \ Cancels, UnderWay(q), NEW place,
         pc' = [pc EXCEPT ![q] = place],
         UNCHANGED <<row, seen, registry, stream, faults, crashes>>,
         \A p \in Runs : p # q => turnFile'[p] = turnFile[p],
         place \notin Ends => Current(q)', place \notin {"idle", "completed"},
         q \in Runs /\ pc[q] \in Live => place \in Live,
         q \in Runs => pc[q] # "written"
  PROVE  SerialInv'
<1> USE ClientsAreTyped
<1>1. Moves(q, place) /\ MayMove(q)
  BY DEF Moves, MayMove
<1>2. OneAtATime' /\ CreateIsFirst' /\ SeenIsCurrent'
  BY <1>1, MoveKeepsCurrent
<1>3. OpenIsLive' /\ OpenRunIsRegistered' /\ TurnIsReadable' /\ RunningHasARun'
  BY <1>1, MoveKeepsServing
<1>4. QED
  BY <1>2, <1>3 DEF SerialInv

\* The end of an execution, the halt of a run, a missing provider, and the answers
\* and checks of the other requests.
LEMMA WalksKeepSerial ==
  ASSUME SerialInv, IInv', NEW q \in Requests \ Cancels,
         \/ q \in Runs /\ (ExecutorReturns(q) \/ ExecutorFails(q) \/ RunHalts(q))
         \/ q \in Submits /\ ProviderMissing(q)
         \/ q \in Renames /\ RenameAnswered(q)
         \/ q \in Archives /\ ArchiveChecked(q)
  PROVE  SerialInv'
<1> USE ClientsAreTyped
<1>0. "running" \in Live /\ {"settling", "failing", "halting"} \subseteq Live
  BY DEF Live
<1>1. CASE q \in Runs /\ ExecutorReturns(q)
  <2>1. UnderWay(q) /\ Current(q) /\ pc[q] = "running"
    BY <1>1 DEF ExecutorReturns, Consuming, UnderWay, Ends, SerialInv, SeenIsCurrent
  <2>2. /\ pc' = [pc EXCEPT ![q] = "settling"] /\ pc'[q] = "settling"
        /\ UNCHANGED <<row, seen, registry, stream, faults, crashes>>
        /\ \A p \in Runs : p # q => turnFile'[p] = turnFile[p]
        /\ turnFile'[q] = seen[q].file \/ seen[q].file = NoRun
    BY <1>1 DEF ExecutorReturns, Goto, SerialInv, IInv, TypeOK
  <2>3. Current(q)'
    BY <2>1, <2>2 DEF Current, Visible, NewRow, Opening, WritingBack, Closing
  <2>4. QED
    BY <1>0, <2>1, <2>2, <2>3, WalkKeepsSerial
<1>2. CASE q \in Runs /\ (ExecutorFails(q) \/ RunHalts(q))
  <2>1. UnderWay(q) /\ Current(q) /\ pc[q] = "running"
    BY <1>2 DEF ExecutorFails, RunHalts, Consuming, UnderWay, Ends, SerialInv, SeenIsCurrent
  <2>2. PICK place \in {"failing", "halting"} :
          pc' = [pc EXCEPT ![q] = place] /\ pc'[q] = place
    BY <1>2 DEF ExecutorFails, RunHalts, Goto, SerialInv, IInv, TypeOK
  <2>3. UNCHANGED <<row, seen, turnFile, registry, stream, faults, crashes>>
    BY <1>2 DEF ExecutorFails, RunHalts
  <2>4. Current(q)'
    BY <2>1, <2>2, <2>3 DEF Current, Visible, NewRow, Opening, WritingBack, Closing
  <2>5. QED
    BY <1>0, <2>1, <2>2, <2>3, <2>4, WalkKeepsSerial
<1>3. CASE q \in Submits /\ ProviderMissing(q)
  <2>1. UnderWay(q) /\ pc[q] = "auditing" /\ "rejected" \in Ends /\ "auditing" \notin Live
    BY <1>3 DEF ProviderMissing, UnderWay, Ends, Live, Closing
  <2>2. /\ pc' = [pc EXCEPT ![q] = "rejected"]
        /\ UNCHANGED <<row, seen, turnFile, registry, stream, faults, crashes>>
    BY <1>3 DEF ProviderMissing, Goto
  <2> DEFINE place == "rejected"
  <2>3. /\ pc' = [pc EXCEPT ![q] = place] /\ place \in Ends
        /\ place # "idle" /\ place # "completed"
    BY <2>1, <2>2
  <2>4. place \notin {"idle", "completed"}
    BY <2>3
  <2>5. place \notin Ends => Current(q)'
    BY <2>3
  <2>6. pc[q] \notin Live /\ pc[q] # "written"
    BY <2>1
  <2>7. \A p \in Runs : p # q => turnFile'[p] = turnFile[p]
    BY <2>2
  <2> HIDE DEF place
  <2>8. QED
    BY <2>1, <2>2, <2>3, <2>4, <2>5, <2>6, <2>7, WalkKeepsSerial
<1>4. CASE q \in Renames /\ RenameAnswered(q)
  <2>1. PICK place \in {"ok", "rejected"} : pc' = [pc EXCEPT ![q] = place]
    BY <1>4 DEF RenameAnswered, Goto
  <2>2. UnderWay(q) /\ place \in Ends /\ place # "idle" /\ place # "completed"
    BY <1>4 DEF RenameAnswered, UnderWay, Ends
  <2>3. QED
    BY <1>4, <2>1, <2>2, WalkKeepsSerial DEF RenameAnswered
<1>5. CASE q \in Archives /\ ArchiveChecked(q)
  <2>1. PICK place \in {"conflict", "archiving"} :
          /\ pc' = [pc EXCEPT ![q] = place] /\ pc'[q] = place
          /\ place = "archiving" => seen[q].status # "running"
    BY <1>5 DEF ArchiveChecked, Goto, SerialInv, IInv, TypeOK
  <2>2. UnderWay(q) /\ Current(q) /\ pc[q] = "checking" /\ "conflict" \in Ends
    BY <1>5 DEF ArchiveChecked, UnderWay, Ends, SerialInv, SeenIsCurrent
  <2>3. UNCHANGED <<row, seen, turnFile, registry, stream, faults, crashes>>
    BY <1>5 DEF ArchiveChecked
  <2>4. place = "archiving" => Current(q)'
    BY <1>5, <2>1, <2>2, <2>3 DEF Current, Visible, NewRow, Opening, WritingBack, Closing
  <2>5. QED
    BY <1>5, <2>1, <2>2, <2>3, <2>4, WalkKeepsSerial
<1>6. QED
  BY <1>1, <1>2, <1>3, <1>4, <1>5

\* An arrival: the request takes its first step while no other one is under way.
LEMMA ArrivalKeepsSerial ==
  ASSUME SerialInv, IInv', NEW q \in Requests \ Cancels, pc[q] = "idle",
         NEW place, Moves(q, place), pc'[q] = place, MayMove(q),
         UNCHANGED <<row, registry>>,
         \A r \in Runs : stream'[r] = "open" => stream[r] = "open",
         q \in Creates => seen'[q] = seen[q],
         place \notin Ends => Current(q)', place \notin {"idle", "completed"}
  PROVE  SerialInv'
<1> USE ClientsAreTyped
<1>1. "idle" \notin Live \cup {"written"}
  BY DEF Live, Closing
<1>2. OneAtATime' /\ CreateIsFirst' /\ SeenIsCurrent'
  BY MoveKeepsCurrent
<1>3. OpenIsLive' /\ OpenRunIsRegistered' /\ TurnIsReadable' /\ RunningHasARun'
  BY <1>1, MoveKeepsServing
<1>4. QED
  BY <1>2, <1>3 DEF SerialInv

\* A create arrives before everything else on its session.
LEMMA CreateKeepsSerial ==
  ASSUME SerialInv, IInv', NEW c \in Creates, CreateArrives(c)
  PROVE  SerialInv'
<1> USE ClientsAreTyped
<1>1. PICK place \in {"auditing", "rejected"} :
        pc' = [pc EXCEPT ![c] = place] /\ pc'[c] = place
  BY DEF CreateArrives, Goto, SerialInv, IInv, TypeOK
<1>2. /\ pc[c] = "idle" /\ "rejected" \in Ends
      /\ UNCHANGED <<row, seen, turnFile, registry, faults, crashes>>
      /\ \A r \in Runs : stream'[r] = "open" => stream[r] = "open"
  BY DEF CreateArrives, Ends, SerialInv, IInv, TypeOK
<1>3. /\ row[c] = NewRow(c) /\ seen[c] = [status |-> "idle", name |-> c, file |-> NoRun]
      /\ \A p \in Requests \ Cancels : SessionOf[p] = c => pc[p] = "idle"
  BY <1>2 DEF SerialInv, CreateIsFirst
<1>4. Moves(c, place) /\ MayMove(c)
  BY <1>1, <1>2, <1>3 DEF Moves, MayMove, UnderWay
<1>5. place = "auditing" => Current(c)'
  <2>1. row'[c] = NewRow(c) /\ NewRow(c).name = c /\ NewRow(c).file = NoRun
    BY <1>2, <1>3 DEF NewRow
  <2>2. seen'[c].name = c /\ seen'[c].file = NoRun
    BY <1>2, <1>3
  <2>3. QED
    BY <1>1, <2>1, <2>2 DEF Current, Opening, WritingBack, Closing, NewRow
<1>6. QED
  BY <1>1, <1>2, <1>4, <1>5, ArrivalKeepsSerial

\* A submit, a rename or an archive reads the row it will write.
LEMMA ReadKeepsSerial ==
  ASSUME SerialInv, IInv', NEW q \in (Submits \cup Renames \cup Archives),
         NEW place \in {"auditing", "renaming", "checking"}, OneRequestAtATime,
         pc[q] = "idle", Admitted(q), ReadSession(q, place),
         UNCHANGED <<row, turnFile, registry, crashes>>,
         \A r \in Runs : stream'[r] = "open" => stream[r] = "open",
         q \notin Submits => place # "auditing"
  PROVE  SerialInv'
<1> USE ClientsAreTyped
<1> DEFINE s == SessionOf[q]
<1>0. /\ q \in Requests \ Cancels /\ q \notin Creates /\ s \in Creates
      /\ row[s] \in Row /\ faults \in Nat /\ "rejected" \in Ends
      /\ pc \in [Requests -> Places] /\ seen \in [Requests -> Seen]
  BY BoundsAssumption, RequestsAssumption DEF SerialInv, IInv, TypeOK, Ends
<1>1. MayMove(q)
  <2>1. row[s].stored
    BY DEF ReadSession
  <2>2. pc[s] # "idle"
    <3>1. ~NewRow(s).stored
      BY DEF NewRow
    <3>2. QED
      BY <1>0, <2>1, <3>1 DEF SerialInv, CreateIsFirst
  <2>3. \A p \in Requests \ Cancels : SessionOf[p] = s => ~UnderWay(p)
    BY DEF Admitted, UnderWay
  <2>4. QED
    BY <2>2, <2>3 DEF MayMove
<1>2. CASE pc' = [pc EXCEPT ![q] = "rejected"]
  <2>1. Moves(q, "rejected") /\ pc'[q] = "rejected"
    BY <1>0, <1>2 DEF Moves, ReadSession, Fault
  <2>2. QED
    BY <1>0, <1>1, <2>1, ArrivalKeepsSerial
<1>3. CASE /\ Visible(s)
           /\ seen' = [seen EXCEPT ![q] = [status |-> row[s].status,
                                           name |-> row[s].name, file |-> row[s].file]]
           /\ pc' = [pc EXCEPT ![q] = place] /\ UNCHANGED faults
  <2>1. Moves(q, place) /\ pc'[q] = place
    BY <1>0, <1>3 DEF Moves
  <2>2. /\ seen'[q].status = row[s].status /\ seen'[q].name = row[s].name
        /\ seen'[q].file = row[s].file
    BY <1>0, <1>3
  <2>3. Current(q)'
    BY <1>0, <1>3, <2>1, <2>2 DEF Current, Visible, Opening, WritingBack, Closing
  <2>4. QED
    BY <1>0, <1>1, <2>1, <2>3, ArrivalKeepsSerial
<1>4. QED
  BY <1>2, <1>3 DEF ReadSession, Goto

\* A run whose stream opens takes the session's entry, which no other open stream has.
LEMMA OpeningKeepsSerial ==
  ASSUME SerialInv, IInv', NEW r \in Runs, StreamOpened(r)
  PROVE  SerialInv'
<1> USE ClientsAreTyped
<1>0. /\ r \in Requests \ Cancels /\ UnderWay(r) /\ Current(r) /\ pc[r] = "written"
      /\ pc' = [pc EXCEPT ![r] = "running"] /\ pc'[r] = "running"
      /\ \A p \in Requests : p # r => pc'[p] = pc[p]
      /\ UNCHANGED <<row, seen, turnFile, faults, crashes>>
      /\ "running" \in Live
  BY DEF StreamOpened, Goto, UnderWay, Ends, Live, SerialInv, SeenIsCurrent, IInv, TypeOK
<1>1. Moves(r, "running") /\ MayMove(r)
  BY <1>0 DEF Moves, MayMove
<1>2. Current(r)'
  BY <1>0 DEF Current, Visible, NewRow, Opening, WritingBack, Closing
<1>3. OneAtATime' /\ CreateIsFirst' /\ SeenIsCurrent'
  BY <1>0, <1>1, <1>2, MoveKeepsCurrent
<1>4. OpenIsLive'
  BY <1>0 DEF StreamOpened, SerialInv, OpenIsLive, IInv, TypeOK
<1>5. ASSUME NEW p \in Runs, stream'[p] = "open"
      PROVE  registry'[SessionOf[p]] = p
  <2>1. CASE p = r
    BY <2>1 DEF StreamOpened, SerialInv, IInv, TypeOK
  <2>2. CASE p # r
    <3>1. stream[p] = "open" /\ pc[p] \in Live
      BY <1>5, <2>2 DEF StreamOpened, SerialInv, OpenIsLive, IInv, TypeOK
    <3>2. UnderWay(p)
      BY <3>1, PlacesApart DEF UnderWay
    <3>3. SessionOf[p] # SessionOf[r]
      BY <1>0, <2>2, <3>2 DEF SerialInv, OneAtATime
    <3>4. QED
      BY <3>1, <3>3 DEF StreamOpened, SerialInv, OpenRunIsRegistered, IInv, TypeOK
  <2>3. QED
    BY <2>1, <2>2
<1>6. OpenRunIsRegistered'
  BY <1>5, RequestsAssumption DEF OpenRunIsRegistered, ReportedStatus
<1>7. TurnIsReadable'
  BY <1>0 DEF SerialInv, TurnIsReadable
<1>8. RunningHasARun'
  <2> SUFFICES ASSUME NEW s \in Creates, row[s].status = "running", faults + crashes = 0
               PROVE  \E p \in Runs : SessionOf[p] = s /\ pc'[p] \in Live \cup {"written"}
    BY <1>0 DEF RunningHasARun
  <2>1. PICK p \in Runs : SessionOf[p] = s /\ pc[p] \in Live \cup {"written"}
    BY DEF SerialInv, RunningHasARun
  <2>2. pc'[p] \in Live \cup {"written"}
    BY <1>0, <2>1
  <2>3. QED
    BY <2>1, <2>2
<1>9. QED
  BY <1>3, <1>4, <1>6, <1>7, <1>8 DEF SerialInv

\* A run that ends clears the entry of its session: no other stream of the session
\* is open, and no run of it goes on.
LEMMA ClosingKeepsSerial ==
  ASSUME SerialInv, IInv', NEW r \in Runs, StreamClosed(r)
  PROVE  SerialInv'
<1> USE ClientsAreTyped
<1>0. PICK end \in {"completed", "cancelled", "failed", "erred"} :
        /\ pc' = [pc EXCEPT ![r] = end] /\ pc'[r] = end
        /\ end = "completed" => pc[r] = "settled"
  BY DEF StreamClosed, Goto, EndOf, Closing, SerialInv, IInv, TypeOK
<1>1. /\ pc[r] \in Closing /\ r \in Requests \ Cancels /\ end \in Ends /\ end # "idle"
      /\ \A p \in Requests : p # r => pc'[p] = pc[p]
      /\ UNCHANGED <<row, seen, turnFile, faults, crashes>>
  BY <1>0 DEF StreamClosed, Ends, SerialInv, IInv, TypeOK
<1>2. UnderWay(r) /\ Current(r)
  BY <1>1, PlacesApart DEF UnderWay, Live, SerialInv, SeenIsCurrent
<1>3. Moves(r, end) /\ MayMove(r)
  BY <1>0, <1>1, <1>2 DEF Moves, MayMove
<1>4. OneAtATime' /\ CreateIsFirst' /\ SeenIsCurrent'
  BY <1>1, <1>3, MoveKeepsCurrent
<1>5. /\ stream'[r] = "closed"
      /\ \A p \in Runs : p # r => stream'[p] = stream[p]
      /\ \A s \in Creates : s # SessionOf[r] => registry'[s] = registry[s]
  BY DEF StreamClosed, SerialInv, IInv, TypeOK
<1>6. OpenIsLive'
  BY <1>1, <1>5 DEF SerialInv, OpenIsLive
<1>7. ASSUME NEW p \in Runs, stream'[p] = "open"
      PROVE  registry'[SessionOf[p]] = p
  <2>1. p # r /\ stream[p] = "open" /\ pc[p] \in Live
    BY <1>5, <1>7 DEF SerialInv, OpenIsLive
  <2>2. UnderWay(p)
    BY <2>1, PlacesApart DEF UnderWay
  <2>3. SessionOf[p] # SessionOf[r]
    BY <1>1, <1>2, <2>1, <2>2 DEF SerialInv, OneAtATime
  <2>4. QED
    BY <1>5, <2>1, <2>3 DEF SerialInv, OpenRunIsRegistered
<1>8. OpenRunIsRegistered'
  BY <1>7, RequestsAssumption DEF OpenRunIsRegistered, ReportedStatus
<1>9. TurnIsReadable'
  <2> SUFFICES ASSUME NEW p \in Runs, pc'[p] = "completed", turnFile[p] # NoRun
               PROVE  row[SessionOf[p]].file = turnFile[p]
    BY <1>1 DEF TurnIsReadable
  <2>1. CASE p = r
    BY <1>0, <1>2, <2>1 DEF Current
  <2>2. CASE p # r
    BY <1>1, <2>2 DEF SerialInv, TurnIsReadable
  <2>3. QED
    BY <2>1, <2>2
<1>10. RunningHasARun'
  <2> SUFFICES ASSUME NEW s \in Creates, row[s].status = "running", faults + crashes = 0
               PROVE  \E p \in Runs : SessionOf[p] = s /\ pc'[p] \in Live \cup {"written"}
    BY <1>1 DEF RunningHasARun
  <2>1. PICK p \in Runs : SessionOf[p] = s /\ pc[p] \in Live \cup {"written"}
    BY DEF SerialInv, RunningHasARun
  <2>2. s # SessionOf[r]
    BY <1>1, <1>2 DEF Current
  <2>3. pc'[p] = pc[p]
    BY <1>1, <2>1, <2>2
  <2>4. QED
    BY <2>1, <2>3
<1>11. QED
  BY <1>4, <1>6, <1>8, <1>9, <1>10 DEF SerialInv

\* A step that leaves the rows, the entries, the streams' states and every request but
\* a cancel where they are: an event of the executor, a cancel, and no step at all.
LEMMA OnlookerKeepsSerial ==
  ASSUME SerialInv, IInv',
         UNCHANGED <<row, turnFile, registry, stream, crashes>>,
         \A q \in Requests \ Cancels : pc'[q] = pc[q] /\ seen'[q] = seen[q],
         faults' = faults \/ faults' = faults + 1
  PROVE  SerialInv'
<1> USE ClientsAreTyped
<1>0. faults' + crashes' = 0 => faults + crashes = 0
  <2>1. faults \in Nat /\ crashes \in Nat
    BY BoundsAssumption DEF SerialInv, IInv, TypeOK
  <2>2. QED
    BY <2>1
<1>1. OneAtATime'
  BY DEF SerialInv, OneAtATime, UnderWay
<1>2. CreateIsFirst'
  BY DEF SerialInv, CreateIsFirst, NewRow
<1>3. SeenIsCurrent'
  <2> SUFFICES ASSUME NEW q \in Requests \ Cancels, UnderWay(q)' PROVE Current(q)'
    BY DEF SeenIsCurrent
  <2>1. UnderWay(q) /\ Current(q)
    BY DEF UnderWay, SerialInv, SeenIsCurrent
  <2>2. QED
    BY <1>0, <2>1 DEF Current, Visible, NewRow
<1>4. OpenIsLive' /\ OpenRunIsRegistered' /\ TurnIsReadable'
  BY DEF SerialInv, OpenIsLive, OpenRunIsRegistered, ReportedStatus, TurnIsReadable
<1>5. RunningHasARun'
  <2> SUFFICES ASSUME NEW s \in Creates, row[s].status = "running", faults + crashes = 0
               PROVE  \E p \in Runs : SessionOf[p] = s /\ pc'[p] \in Live \cup {"written"}
    BY <1>0 DEF RunningHasARun
  <2>1. QED
    BY DEF SerialInv, RunningHasARun
<1>6. QED
  BY <1>1, <1>2, <1>3, <1>4, <1>5 DEF SerialInv

\* After a crash nothing is under way.
LEMMA CrashKeepsSerial ==
  ASSUME SerialInv, IInv', Crash
  PROVE  SerialInv'
<1> USE ClientsAreTyped
<1>0. /\ crashes \in Nat /\ faults \in Nat /\ faults' + crashes' # 0
      /\ \A q \in Requests : pc'[q] \in Ends \cup {"idle"}
      /\ \A q \in Requests : pc'[q] = "idle" <=> pc[q] = "idle"
      /\ \A q \in Requests : pc'[q] = "completed" => pc[q] = "completed"
      /\ UNCHANGED <<row, seen, turnFile>>
  BY BoundsAssumption DEF Crash, Ends, SerialInv, IInv, TypeOK
<1>1. OneAtATime' /\ SeenIsCurrent'
  BY <1>0 DEF OneAtATime, SeenIsCurrent, UnderWay
<1>2. CreateIsFirst'
  BY <1>0 DEF SerialInv, CreateIsFirst, NewRow
<1>3. \A r \in Runs : stream'[r] # "open"
  <2> SUFFICES ASSUME NEW r \in Runs PROVE stream'[r] # "open"
    OBVIOUS
  <2>1. stream[r] = "open" => pc[r] \notin Ends
    BY PlacesApart DEF SerialInv, OpenIsLive
  <2>2. QED
    BY <2>1 DEF Crash
<1>4. OpenIsLive' /\ OpenRunIsRegistered'
  BY <1>3 DEF OpenIsLive, OpenRunIsRegistered
<1>5. TurnIsReadable' /\ RunningHasARun'
  BY <1>0 DEF SerialInv, TurnIsReadable, RunningHasARun
<1>6. QED
  BY <1>1, <1>2, <1>4, <1>5 DEF SerialInv

-----------------------------------------------------------------------------
(* The service, for clients that wait for their answers.                   *)

\* The service starts in the invariant.
LEMMA SerialInit == Init => SerialInv
<1> SUFFICES ASSUME Init PROVE SerialInv
  OBVIOUS
<1> USE ClientsAreTyped
<1>1. \A q \in Requests : pc[q] = "idle"
  BY DEF Init
<1>2. OneAtATime /\ SeenIsCurrent
  BY <1>1 DEF OneAtATime, SeenIsCurrent, UnderWay
<1>3. CreateIsFirst
  BY <1>1 DEF Init, CreateIsFirst, NewRow
<1>4. OpenIsLive /\ OpenRunIsRegistered /\ TurnIsReadable /\ RunningHasARun
  BY DEF Init, OpenIsLive, OpenRunIsRegistered, TurnIsReadable, RunningHasARun
<1>5. QED
  BY <1>2, <1>3, <1>4, InvInit DEF SerialInv

\* Every step keeps it.
LEMMA SerialStep ==
  ASSUME OneRequestAtATime
  PROVE  SerialInv /\ [Next]_vars => SerialInv'
<1> SUFFICES ASSUME SerialInv, [Next]_vars PROVE SerialInv'
  OBVIOUS
<1> USE ClientsAreTyped
<1>0. IInv'
  BY InvStep DEF SerialInv
<1>1. ASSUME NEW c \in Creates, CreateArrives(c) PROVE SerialInv'
  BY <1>0, <1>1, CreateKeepsSerial
<1>2. ASSUME NEW m \in Submits, SubmitReads(m) PROVE SerialInv'
  <2>1. \A r \in Runs : stream'[r] = "open" => stream[r] = "open"
    BY <1>2 DEF SubmitReads, SerialInv, IInv, TypeOK
  <2>2. QED
    BY <1>0, <1>2, <2>1, ReadKeepsSerial DEF SubmitReads
<1>3. ASSUME NEW n \in Renames, RenameReads(n) PROVE SerialInv'
  BY <1>0, <1>3, ReadKeepsSerial DEF RenameReads
<1>4. ASSUME NEW a \in Archives, ArchiveReads(a) PROVE SerialInv'
  BY <1>0, <1>4, ReadKeepsSerial DEF ArchiveReads
<1>5. ASSUME NEW r \in Runs, RunStep(r) PROVE SerialInv'
  <2>1. CASE StreamOpened(r)
    BY <1>0, <2>1, OpeningKeepsSerial
  <2>2. CASE StreamClosed(r)
    BY <1>0, <2>2, ClosingKeepsSerial
  <2>3. CASE RunHalts(r)
    BY <1>0, <2>3, WalksKeepSerial
  <2>4. QED
    BY <1>0, <1>5, <2>1, <2>2, <2>3, RunWritesKeepSerial DEF RunStep
<1>6. ASSUME NEW r \in Runs, ExecutorEnds(r) PROVE SerialInv'
  BY <1>0, <1>6, WalksKeepSerial DEF ExecutorEnds
<1>7. ASSUME NEW m \in Submits, ProviderMissing(m) PROVE SerialInv'
  <2>1. m \in Requests \ Cancels
    OBVIOUS
  <2>2. QED
    BY <1>0, <1>7, <2>1, WalksKeepSerial
<1>8. ASSUME NEW n \in Renames, RenameStep(n) PROVE SerialInv'
  <2>1. n \in Requests \ Cancels
    OBVIOUS
  <2>2. CASE RenameAnswered(n)
    BY <1>0, <2>1, <2>2, WalksKeepSerial
  <2>3. CASE RenameWritten(n)
    BY <1>0, <2>3, RenameWriteKeepsSerial
  <2>4. QED
    BY <1>8, <2>2, <2>3 DEF RenameStep
<1>9. ASSUME NEW a \in Archives, ArchiveStep(a) PROVE SerialInv'
  <2>1. a \in Requests \ Cancels
    OBVIOUS
  <2>2. CASE ArchiveChecked(a)
    BY <1>0, <2>1, <2>2, WalksKeepSerial
  <2>3. CASE ArchiveWritten(a)
    BY <1>0, <2>3, ArchiveWriteKeepsSerial
  <2>4. QED
    BY <1>9, <2>2, <2>3 DEF ArchiveStep
<1>10. ASSUME NEW r \in Runs, NEW e \in ExecutorEvents, ExecutorYields(r, e)
       PROVE  SerialInv'
  BY <1>0, <1>10, OnlookerKeepsSerial DEF ExecutorYields
<1>11. ASSUME NEW k \in Cancels, CancelReads(k) PROVE SerialInv'
  BY <1>0, <1>11, OnlookerKeepsSerial
     DEF CancelReads, ReadSession, Goto, Fault, SerialInv, IInv, TypeOK
<1>12. ASSUME NEW k \in Cancels, CancelCalled(k) PROVE SerialInv'
  BY <1>0, <1>12, OnlookerKeepsSerial DEF CancelCalled, Goto, SerialInv, IInv, TypeOK
<1>13. CASE Crash
  BY <1>0, <1>13, CrashKeepsSerial
<1>14. CASE UNCHANGED vars
  BY <1>0, <1>14, OnlookerKeepsSerial DEF vars
<1>15. QED
  BY <1>1, <1>2, <1>3, <1>4, <1>5, <1>6, <1>7, <1>8, <1>9, <1>10, <1>11, <1>12,
     <1>13, <1>14 DEF Next, Quiet

\* What a request under way has read stays true until it writes.
THEOREM SerialInvariance ==
  ASSUME OneRequestAtATime
  PROVE  Spec => []SerialInv
<1>1. QED
  BY SerialInit, SerialStep, PTL DEF Spec

\* For clients that wait for their answers, a session with an open stream is reported
\* as running and its run can be cancelled.
THEOREM OpenRunsAreRegistered ==
  ASSUME OneRequestAtATime
  PROVE  Spec => []OpenRunIsRegistered
<1>1. SerialInv => OpenRunIsRegistered
  BY DEF SerialInv
<1>2. QED
  BY <1>1, SerialInvariance, PTL

\* For such clients no completed turn vanishes from the transcript.
THEOREM TurnsAreReadable ==
  ASSUME OneRequestAtATime
  PROVE  Spec => []TurnIsReadable
<1>1. SerialInv => TurnIsReadable
  BY DEF SerialInv
<1>2. QED
  BY <1>1, SerialInvariance, PTL

\* For such clients, and until something fails, a session is stored as running only
\* while one of its runs is.
THEOREM RunningSessionsRun ==
  ASSUME OneRequestAtATime
  PROVE  Spec => []RunningHasARun
<1>1. SerialInv => RunningHasARun
  BY DEF SerialInv
<1>2. QED
  BY <1>1, SerialInvariance, PTL

\* A write of the table, for clients that wait: a session is created running and
\* becomes idle only if it was running or idle; it is archived only while it does not
\* run.
LEMMA SerialRowStep ==
  ASSUME SerialInv, Next
  PROVE  \/ row' = row
         \/ \E s \in Creates, st \in Statuses, n \in Names, f \in Files :
              /\ row' = Saved(s, st, n, f)
              /\ ~row[s].archived
              /\ ~row[s].stored => st = "running"
              /\ row[s].stored /\ st = "idle" => row[s].status # "error"
         \/ \E s \in Creates, v \in Seen :
              /\ row' = SavedArchived(s, v)
              /\ Visible(s) /\ row[s].status # "running"
<1> USE ClientsAreTyped
<1>1. ASSUME NEW r \in Runs,
             \/ RunWritten(r) \/ RunSettles(r) \/ HaltWritten(r) \/ FailureWritten(r)
      PROVE  \/ row' = row
             \/ \E s \in Creates, st \in Statuses, n \in Names, f \in Files :
                  /\ row' = Saved(s, st, n, f)
                  /\ ~row[s].archived
                  /\ ~row[s].stored => st = "running"
                  /\ row[s].stored /\ st = "idle" => row[s].status # "error"
  <2> DEFINE s == SessionOf[r]
  <2>1. PICK st \in Statuses, f \in Files :
          /\ row' = row \/ row' = Saved(s, st, seen[r].name, f)
          /\ \/ pc[r] = "writing" /\ st = "running"
             \/ pc[r] \in {"settling", "writingHalt"} /\ st = "idle"
             \/ pc[r] = "writingFailure" /\ st = "error"
    BY <1>1 DEF RunWritten, RunSettles, HaltWritten, FailureWritten, Write, SerialInv,
                IInv, TypeOK, Seen, Statuses
  <2>2. Current(r) /\ s \in Creates
    BY <2>1 DEF UnderWay, Ends, SerialInv, SeenIsCurrent
  <2>3. ~row[s].archived /\ seen[r].name = row[s].name /\ row[s].name \in Names
    BY <2>1, <2>2 DEF Current, Visible, NewRow, SerialInv, IInv, TypeOK, Row
  <2>4. pc[r] # "writing" => row[s].stored
    BY <2>1, <2>2 DEF Current, Visible
  <2>5. st = "idle" => row[s].status # "error"
    BY <2>1, <2>2 DEF Current
  <2>6. CASE row' = row
    BY <2>6
  <2>7. CASE row' = Saved(s, st, row[s].name, f)
    <3>1. ~row[s].stored => st = "running"
      BY <2>1, <2>4
    <3> HIDE DEF s
    <3>2. QED
      BY <2>2, <2>3, <2>5, <2>7, <3>1
  <2>8. QED
    BY <2>1, <2>3, <2>6, <2>7
<1>2. ASSUME NEW n \in Renames, RenameWritten(n)
      PROVE  \/ row' = row
             \/ \E s \in Creates, st \in Statuses, m \in Names, f \in Files :
                  /\ row' = Saved(s, st, m, f)
                  /\ ~row[s].archived /\ row[s].stored /\ st = row[s].status
  <2> DEFINE s == SessionOf[n]
  <2>1. /\ row' = row \/ row' = Saved(s, seen[n].status, n, seen[n].file)
        /\ pc[n] = "renaming"
        /\ n \in Requests \ Cancels /\ n \in Names
        /\ seen[n].status \in Statuses /\ seen[n].file \in Files
    BY <1>2 DEF RenameWritten, Write, SerialInv, IInv, TypeOK, Seen, Names
  <2>2. Current(n) /\ s \in Creates
    BY <2>1 DEF UnderWay, Ends, SerialInv, SeenIsCurrent
  <2>3. Visible(s) /\ seen[n].status = row[s].status
    BY <2>1, <2>2 DEF Current, WritingBack
  <2> HIDE DEF s
  <2>4. QED
    BY <2>1, <2>2, <2>3 DEF Visible
<1>3. ASSUME NEW a \in Archives, ArchiveWritten(a)
      PROVE  \/ row' = row
             \/ \E s \in Creates, v \in Seen :
                  /\ row' = SavedArchived(s, v)
                  /\ Visible(s) /\ row[s].status # "running"
  <2> DEFINE s == SessionOf[a]
  <2>1. /\ row' = row \/ row' = SavedArchived(s, seen[a])
        /\ pc[a] = "archiving" /\ a \in Requests \ Cancels /\ seen[a] \in Seen
    BY <1>3 DEF ArchiveWritten, Write, SerialInv, IInv, TypeOK
  <2>2. Current(a) /\ s \in Creates
    BY <2>1 DEF UnderWay, Ends, SerialInv, SeenIsCurrent
  <2>3. Visible(s) /\ row[s].status # "running"
    BY <2>1, <2>2 DEF Current, WritingBack
  <2> HIDE DEF s
  <2>4. QED
    BY <2>1, <2>2, <2>3
<1>4. \/ row' = row
      \/ \E r \in Runs : RunWritten(r) \/ RunSettles(r) \/ HaltWritten(r) \/ FailureWritten(r)
      \/ \E n \in Renames : RenameWritten(n)
      \/ \E a \in Archives : ArchiveWritten(a)
  BY DEF Next, RunStep, ExecutorEnds, RenameStep, ArchiveStep, Quiet, vars, Crash,
         CreateArrives, SubmitReads, ProviderMissing, RunAudited, StreamOpened,
         RunHalts, HaltAudited, FailureAudited, StreamClosed, ExecutorYields,
         ExecutorReturns, ExecutorFails, RenameReads, RenameAnswered, ArchiveReads,
         ArchiveChecked, CancelReads, CancelCalled, Write
<1>5. ASSUME NEW n \in Renames, RenameWritten(n)
      PROVE  \/ row' = row
             \/ \E s \in Creates, st \in Statuses, m \in Names, f \in Files :
                  /\ row' = Saved(s, st, m, f)
                  /\ ~row[s].archived
                  /\ ~row[s].stored => st = "running"
                  /\ row[s].stored /\ st = "idle" => row[s].status # "error"
  BY <1>2, <1>5
<1>6. CASE row' = row
  BY <1>6
<1>7. CASE \E r \in Runs :
             RunWritten(r) \/ RunSettles(r) \/ HaltWritten(r) \/ FailureWritten(r)
  BY <1>1, <1>7
<1>8. CASE \E n \in Renames : RenameWritten(n)
  BY <1>5, <1>8
<1>9. CASE \E a \in Archives : ArchiveWritten(a)
  BY <1>3, <1>9
<1>10. QED
  BY <1>4, <1>6, <1>7, <1>8, <1>9

-----------------------------------------------------------------------------
(* The table implements SessionLifecycle.                                  *)

\* The service starts without a session.
LEMMA LifecycleInit == Init => Lifecycle!Init
BY DEF Init, Lifecycle!Init, Phase

\* Every step of the service is a step of SessionLifecycle or leaves the phases alone.
LEMMA LifecycleStep ==
  ASSUME SerialInv, [Next]_vars
  PROVE  [Lifecycle!Next]_Phase
<1>0. TypeOK
  BY DEF SerialInv, IInv
<1>1. ASSUME NEW s \in Creates, NEW st \in Statuses, NEW n \in Names, NEW f \in Files,
             row' = Saved(s, st, n, f), ~row[s].archived,
             ~row[s].stored => st = "running",
             row[s].stored /\ st = "idle" => row[s].status # "error"
      PROVE  [Lifecycle!Next]_Phase
  <2>1. /\ \A t \in Creates : t # s => row'[t] = row[t]
        /\ row'[s].stored /\ ~row'[s].archived /\ row'[s].status = st
    BY <1>0, <1>1, SavedRow
  <2>2. Phase' = [Phase EXCEPT ![s] = st]
    BY <2>1 DEF Phase
  <2>3. /\ ~row[s].stored => Phase[s] = "absent"
        /\ row[s].stored => Phase[s] = row[s].status
        /\ row[s].status \in Statuses
    BY <1>0, <1>1 DEF Phase, TypeOK, Row
  <2>4. Phase[s] = st => Phase' = Phase
    BY <2>2 DEF Phase
  <2>5. CASE ~row[s].stored
    BY <1>1, <2>2, <2>3, <2>5 DEF Lifecycle!Next, Lifecycle!Begin, Lifecycle!Become
  <2>6. CASE row[s].stored /\ Phase[s] # st
    <3>1. \/ Phase[s] \in {"idle", "error"} /\ st = "running"
          \/ Phase[s] = "running" /\ st \in {"idle", "error"}
          \/ Phase[s] = "idle" /\ st = "error"
      BY <1>1, <2>3, <2>6 DEF Statuses
    <3>2. QED
      BY <2>2, <3>1
         DEF Lifecycle!Next, Lifecycle!Settle, Lifecycle!Resume, Lifecycle!Revise,
             Lifecycle!Become
  <2>7. QED
    BY <2>4, <2>5, <2>6
<1>2. ASSUME NEW s \in Creates, NEW v \in Seen, row' = SavedArchived(s, v),
             Visible(s), row[s].status # "running"
      PROVE  [Lifecycle!Next]_Phase
  <2>1. /\ \A t \in Creates : t # s => row'[t] = row[t]
        /\ row'[s].stored /\ row'[s].archived
    BY <1>0, <1>2 DEF SavedArchived, TypeOK
  <2>2. Phase' = [Phase EXCEPT ![s] = "archived"]
    BY <2>1 DEF Phase
  <2>3. Phase[s] \in {"idle", "error"}
    BY <1>0, <1>2 DEF Phase, Visible, TypeOK, Row, Statuses
  <2>4. QED
    BY <2>2, <2>3 DEF Lifecycle!Next, Lifecycle!Archive, Lifecycle!Become
<1>3. CASE row' = row
  BY <1>3 DEF Phase
<1>4. row' = row \/ Next
  BY DEF vars
<1>5. QED
  BY <1>1, <1>2, <1>3, <1>4, SerialRowStep

\* For clients that wait for their answers the stored status of a session moves as
\* SessionLifecycle says, whatever fails: it is archived only while it does not run,
\* and a run settles it.
THEOREM SessionsFollowTheLifecycle ==
  ASSUME OneRequestAtATime
  PROVE  Spec => LifecycleContract
<1>1. SerialInv /\ [Next]_vars => [Lifecycle!Next]_Phase
  BY LifecycleStep
<1>2. QED
  BY <1>1, LifecycleInit, SerialInvariance, PTL
     DEF Spec, LifecycleContract, Lifecycle!Spec
===============================================================================
