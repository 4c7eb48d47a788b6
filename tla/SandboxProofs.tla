---------------------------- MODULE SandboxProofs ----------------------------
(***************************************************************************)
(* Theorems about one sandboxed execution, for every length of its log and *)
(* every number of failing calls.                                          *)
(***************************************************************************)
EXTENDS SandboxExecution, TLAPS

\* The execution starts in the invariant.
LEMMA InvInit == Init => IInv
<1> SUFFICES ASSUME Init PROVE IInv
  OBVIOUS
<1> USE BoundsAssumption
<1>1. log \in Seq(Lines) /\ Len(log) = 0 /\ delivered = <<>> /\ Len(delivered) = 0
      /\ delivered \in Seq(Item) /\ rotated = 0
  BY DEF Init
<1>2. NoAnswer \in Read /\ batch = NoAnswer
  BY DEF Init, Read, NoAnswer
<1>3. TypeOK
  <2>1. /\ pc \in Calls /\ outcome = "none" /\ consumer = "pulling"
        /\ pod = "absent" /\ failed \subseteq Calls
    BY DEF Init, Calls
  <2>2. configMap \in BOOLEAN /\ final \in BOOLEAN
    BY DEF Init
  <2>3. consumed \in 0..MaxLines /\ mirrored \in 0..MaxLines /\ faults \in 0..MaxFaults
    BY DEF Init
  <2>4. QED
    BY <1>1, <1>2, <2>1, <2>2, <2>3 DEF TypeOK
<1>4. ReadIsOfTheLog
  BY <1>1, <1>2 DEF Init, ReadIsOfTheLog, NoAnswer
<1>5. DeliveryIsInStep /\ DeliveredInOrder /\ LinesComeFromReads
  BY <1>1 DEF Init, DeliveryIsInStep, DeliveredInOrder, LinesComeFromReads, NextLine
<1>6. ClusterIsKnown
  BY DEF Init, ClusterIsKnown, EndedIsCleanedUp, Ended
<1>7. QED
  BY <1>3, <1>4, <1>5, <1>6 DEF IInv

\* A call that fails is noted under a place that makes calls, and nothing noted
\* is forgotten.
LEMMA FaultsAreKept ==
  ASSUME TypeOK, pc \in Calls, Fault \/ NoFault
  PROVE  failed' \subseteq Calls /\ faults' \in 0..MaxFaults /\ failed \subseteq failed'
BY BoundsAssumption DEF TypeOK, Fault, NoFault

\* What is said of where the delivered lines come from stays true while the place
\* the reads start from moves on.
LEMMA PlacesMoveOn ==
  ASSUME delivered \in Seq(Item), LinesComeFromReads, delivered' = delivered,
         ReadFrom \in Nat, ReadFrom' \in Nat, ReadFrom <= ReadFrom'
  PROVE  LinesComeFromReads'
<1>1. SUFFICES ASSUME NEW i \in DOMAIN delivered, delivered[i].line # Foreign
               PROVE  delivered[i].line \in i..(ReadFrom' + i)
  BY DEF LinesComeFromReads
<1>2. i \in Nat /\ delivered[i].line \in i..(ReadFrom + i)
  BY <1>1 DEF LinesComeFromReads
<1>3. QED
  BY <1>2

\* A step that neither reads, delivers nor mirrors keeps the types, and what the
\* invariant says of reading and delivery, if it goes from one place of the
\* creation or the clean-up to the next.
LEMMA AsideKeepsInv ==
  ASSUME IInv,
         \/ UserMirrored \/ ConfigMapCreated \/ PodCreated \/ PhaseReached
         \/ PhaseTimedOut \/ DoneSeen \/ BatchDone \/ PodDeleted \/ ConfigMapDeleted
  PROVE  IInv'
<1> USE BoundsAssumption
<1>1. /\ UNCHANGED <<consumer, log, rotated, final, consumed, delivered, mirrored>>
      /\ NextLine' = NextLine
      /\ batch' \in {batch, NoAnswer}
  BY DEF UserMirrored, ConfigMapCreated, PodCreated, PhaseReached, PhaseTimedOut,
         DoneSeen, BatchDone, PodDeleted, ConfigMapDeleted, At, written, reading, NextLine
<1>a. /\ NoAnswer \in Read /\ NoAnswer.from = 0 /\ NoAnswer.whole = 0
      /\ NoAnswer.torn = FALSE /\ NoAnswer.foreign = FALSE
  BY DEF NoAnswer, Read
<1>b. pc' \notin {"delivering", "mirroring"}
  BY DEF UserMirrored, ConfigMapCreated, PodCreated, PhaseReached, PhaseTimedOut,
         DoneSeen, BatchDone, PodDeleted, ConfigMapDeleted, At, Goto, CleanUp
<1>2. failed' \subseteq Calls /\ faults' \in 0..MaxFaults /\ failed \subseteq failed'
  <2>1. TypeOK /\ (NoFault \/ (pc \in Calls /\ Fault))
    BY DEF IInv, UserMirrored, ConfigMapCreated, PodCreated, PhaseReached,
           PhaseTimedOut, DoneSeen, BatchDone, PodDeleted, ConfigMapDeleted, At, Calls
  <2>2. CASE NoFault
    BY <2>1, <2>2 DEF TypeOK, NoFault
  <2>3. CASE pc \in Calls /\ Fault
    BY <2>1, <2>3, FaultsAreKept
  <2>4. QED
    BY <2>1, <2>2, <2>3
<1>3. TypeOK'
  <2>1. /\ pc' \in Calls \cup Ended
        /\ outcome' \in {"none", "returned", "threw", "withoutDone"}
        /\ pod' \in Phases \cup {"absent", "deleted", "lost"}
        /\ configMap' \in BOOLEAN
    <3>0. /\ outcome \in {"none", "returned", "threw", "withoutDone"}
          /\ pod \in Phases \cup {"absent", "deleted", "lost"}
          /\ configMap \in BOOLEAN
      BY DEF IInv, TypeOK
    <3>1. CASE UserMirrored \/ ConfigMapCreated \/ PodCreated
      BY <3>0, <3>1 DEF UserMirrored, ConfigMapCreated, PodCreated, At, Goto, CleanUp,
                        cluster, Calls, Ended, Phases
    <3>2. CASE PhaseReached \/ PhaseTimedOut \/ DoneSeen \/ BatchDone
      BY <3>0, <3>2 DEF PhaseReached, PhaseTimedOut, DoneSeen, BatchDone, At, Goto,
                        CleanUp, cluster, Calls, Ended, Phases
    <3>3. CASE PodDeleted \/ ConfigMapDeleted
      BY <3>0, <3>3 DEF PodDeleted, ConfigMapDeleted, At, Goto, cluster, Calls, Ended,
                        Phases
    <3>4. QED
      BY <3>1, <3>2, <3>3
  <2>2. QED
    BY <1>1, <1>2, <1>a, <2>1 DEF IInv, TypeOK
<1>4. ReadIsOfTheLog'
  <2>1. CASE batch' = batch
    BY <1>1, <1>2, <1>b, <2>1 DEF IInv, ReadIsOfTheLog
  <2>2. CASE batch' = NoAnswer
    BY <1>1, <1>a, <1>b, <2>2 DEF IInv, TypeOK, ReadIsOfTheLog
  <2>3. QED
    BY <1>1, <2>1, <2>2
<1>5. DeliveryIsInStep'
  <2>1. DeliveryIsInStep
    BY DEF IInv
  <2>2. CASE UserMirrored \/ ConfigMapCreated \/ PodCreated
    <3>1. Len(delivered) = consumed /\ outcome = "none"
      BY <2>1, <2>2 DEF IInv, TypeOK, ClusterIsKnown, DeliveryIsInStep, UserMirrored,
                        ConfigMapCreated, PodCreated, At, Ended
    <3>2. \/ pc' \in {"creatingConfigMap", "creatingPod", "awaitingPhase"}
             /\ outcome' = outcome
          \/ pc' \in {"deletingPod", "threw"} /\ outcome' = "threw"
      BY <2>2 DEF UserMirrored, ConfigMapCreated, PodCreated, Goto, CleanUp
    <3>3. QED
      BY <1>1, <2>1, <3>1, <3>2 DEF DeliveryIsInStep, Ended
  <2>3. CASE PhaseReached \/ PhaseTimedOut \/ BatchDone
    <3>1. Len(delivered) = consumed /\ outcome = "none"
      BY <2>1, <2>3 DEF DeliveryIsInStep, PhaseReached, PhaseTimedOut, BatchDone, At, Ended
    <3>2. \/ pc' \in {"awaitingPhase", "readingLog", "checkingPhase"}
             /\ outcome' = outcome
          \/ pc' = "deletingPod" /\ outcome' \in {"threw", "withoutDone"}
      BY <2>3 DEF PhaseReached, PhaseTimedOut, BatchDone, At, Goto, CleanUp
    <3>3. QED
      BY <1>1, <2>1, <3>1, <3>2 DEF DeliveryIsInStep, Ended
  <2>4. CASE DoneSeen
    <3>1. /\ pc = "delivering" /\ Len(delivered) = consumed
          /\ NextLine <= batch.whole /\ log[batch.from + NextLine] = "sandbox.done"
          /\ ~batch.foreign
          /\ pc' = "deletingPod" /\ outcome' = "returned"
      BY <2>1, <2>4 DEF DeliveryIsInStep, DoneSeen, At, Goto, CleanUp, Says, IsWhole
    <3>2. /\ Len(log) \in Nat /\ batch.whole \in Nat /\ NextLine \in Nat \ {0}
          /\ batch.from \in Nat /\ rotated \in Nat /\ batch.from <= rotated
          /\ batch.from + batch.whole <= Len(log)
          /\ \A i \in 1..(Len(log) - 1) : log[i] = "event"
      BY <3>1 DEF IInv, TypeOK, Read, ReadIsOfTheLog, NextLine
    <3>3. Len(log) = batch.from + NextLine
      <4>1. PICK place \in Nat : place = batch.from + NextLine
        BY <3>2
      <4>2. place \in 1..Len(log) /\ log[place] = "sandbox.done"
        BY <3>1, <3>2, <4>1
      <4>3. ~(place \in 1..(Len(log) - 1))
        BY <3>2, <4>2
      <4>4. QED
        BY <3>2, <4>1, <4>2, <4>3
    <3>4. Len(log) \in NextLine..(rotated + NextLine) /\ log[Len(log)] = "sandbox.done"
      BY <3>1, <3>2, <3>3
    <3>5. QED
      BY <1>1, <2>1, <3>1, <3>4 DEF DeliveryIsInStep, Ended
  <2>5. CASE PodDeleted \/ ConfigMapDeleted
    <3>1. pc' \in {"deletingConfigMap", "returned", "threw"} /\ outcome' = outcome
      BY <2>5 DEF PodDeleted, ConfigMapDeleted, Goto
    <3>2. QED
      BY <1>1, <2>1, <3>1 DEF DeliveryIsInStep, Ended
  <2>6. QED
    BY <2>2, <2>3, <2>4, <2>5
<1>6. DeliveredInOrder' /\ LinesComeFromReads'
  <2>1. DeliveredInOrder'
    BY <1>1, <1>2 DEF IInv, DeliveredInOrder
  <2>2. ReadFrom' = rotated /\ ReadFrom \in Nat /\ ReadFrom <= rotated /\ rotated \in Nat
    BY <1>1, <1>b DEF IInv, TypeOK, Read, ReadIsOfTheLog, ReadFrom
  <2>3. delivered \in Seq(Item) /\ LinesComeFromReads /\ delivered' = delivered
    BY <1>1 DEF IInv, TypeOK
  <2>4. QED
    BY <2>1, <2>2, <2>3, PlacesMoveOn
<1>7. ClusterIsKnown'
  <2>1. ClusterIsKnown
    BY DEF IInv
  <2>2. CASE UserMirrored
    BY <1>1, <2>1, <2>2 DEF ClusterIsKnown, EndedIsCleanedUp, Ended, Phases,
                            UserMirrored, At, Goto, cluster
  <2>3. CASE ConfigMapCreated
    BY <1>1, <2>1, <2>3 DEF ClusterIsKnown, EndedIsCleanedUp, Ended, Phases,
                            ConfigMapCreated, At, Goto, Fault
  <2>4. CASE PodCreated \/ PhaseReached \/ PhaseTimedOut \/ DoneSeen \/ BatchDone
    <3>1. pc' \in {"awaitingPhase", "readingLog", "checkingPhase", "deletingPod"}
      BY <2>4 DEF PodCreated, PhaseReached, PhaseTimedOut, DoneSeen, BatchDone, At,
                  Goto, CleanUp
    <3>2. QED
      BY <3>1 DEF ClusterIsKnown, EndedIsCleanedUp, Ended
  <2>5. CASE PodDeleted
    BY <2>5 DEF ClusterIsKnown, EndedIsCleanedUp, Ended, Phases, PodDeleted, At, Goto,
                Fault
  <2>6. CASE ConfigMapDeleted
    <3>1. /\ pod' = pod /\ pc' \in Ended
          /\ pod \in Phases => "deletingPod" \in failed
          /\ configMap' => "deletingConfigMap" \in failed'
      BY <2>1, <2>6 DEF ClusterIsKnown, Ended, ConfigMapDeleted, At, Goto, Fault
    <3>2. QED
      BY <1>2, <3>1 DEF ClusterIsKnown, EndedIsCleanedUp, Ended
  <2>7. QED
    BY <2>2, <2>3, <2>4, <2>5, <2>6
<1>8. QED
  BY <1>3, <1>4, <1>5, <1>6, <1>7 DEF IInv

\* A read, or a look at the phase, changes what is known of the log and delivers
\* nothing.
LEMMA ReadKeepsInv ==
  ASSUME IInv, LogRead \/ PhaseChecked
  PROVE  IInv'
<1> USE BoundsAssumption
<1>0. failed \subseteq failed'
  BY DEF LogRead, PhaseChecked, Fault, NoFault
<1>1. TypeOK'
  <2>1. TypeOK /\ pc \in Calls /\ (Fault \/ NoFault)
    BY DEF IInv, LogRead, PhaseChecked, At, Calls
  <2>2. failed' \subseteq Calls /\ faults' \in 0..MaxFaults
    BY <2>1, FaultsAreKept
  <2>3. /\ UNCHANGED <<consumer, pod, configMap, log, rotated, consumed, delivered,
                       mirrored>>
        /\ pc' \in {"readingLog", "delivering", "deletingPod"}
        /\ outcome' \in {outcome, "threw"}
    BY DEF LogRead, PhaseChecked, At, Goto, CleanUp, cluster, written
  <2>4. batch' \in Read
    <3>1. batch \in Read /\ Len(log) \in 0..MaxLines /\ rotated \in 0..Len(log)
      BY <2>1 DEF TypeOK
    <3>2. CASE LogRead
      <4>1. \/ \E torn \in BOOLEAN : batch' = OfTheLog(torn)
            \/ \E lines \in 0..MaxLines : batch' = Text(lines)
            \/ batch' = batch
        BY <3>2 DEF LogRead
      <4>2. ASSUME NEW torn \in BOOLEAN
            PROVE  OfTheLog(torn) \in Read
        BY <3>1, <4>2 DEF Read, OfTheLog
      <4>3. ASSUME NEW lines \in 0..MaxLines
            PROVE  Text(lines) \in Read
        BY <3>1 DEF Read, Text
      <4>4. QED
        BY <3>1, <4>1, <4>2, <4>3, Zenon
    <3>3. CASE PhaseChecked
      BY <3>1, <3>3 DEF PhaseChecked
    <3>4. QED
      BY <3>2, <3>3
  <2>5. final' \in BOOLEAN
    <3>1. CASE LogRead
      BY <2>1, <3>1 DEF LogRead, TypeOK
    <3>2. CASE PhaseChecked
      <4>1. final' = (pod \in {"Succeeded", "Failed"}) \/ final' = final
        BY <3>2, Zenon DEF PhaseChecked
      <4>2. CASE final' = (pod \in {"Succeeded", "Failed"})
        BY <4>2
      <4>3. QED
        BY <2>1, <4>1, <4>2, Zenon DEF TypeOK
    <3>3. QED
      BY <3>1, <3>2
  <2>6. QED
    BY <2>1, <2>2, <2>3, <2>4, <2>5 DEF TypeOK, Calls
<1>2. ReadIsOfTheLog'
  <2>1. CASE LogRead
    <3>1. /\ Len(log) \in 0..MaxLines /\ rotated \in 0..Len(log)
          /\ UNCHANGED <<log, rotated>> /\ pc' # "mirroring"
          /\ \A i \in 1..(Len(log) - 1) : log[i] = "event"
      BY <2>1 DEF IInv, TypeOK, ReadIsOfTheLog, LogRead, written, Goto, CleanUp
    <3>2. ASSUME NEW torn \in BOOLEAN, torn => Len(log) < MaxLines, batch' = OfTheLog(torn)
          PROVE  ReadIsOfTheLog'
      BY <3>1, <3>2 DEF ReadIsOfTheLog, OfTheLog
    <3>3. ASSUME NEW lines \in 0..MaxLines, batch' = Text(lines),
                 lines > 0 => "readingLog" \in failed'
          PROVE  ReadIsOfTheLog'
      BY <3>1, <3>3 DEF ReadIsOfTheLog, Text
    <3>4. CASE batch' = batch
      BY <1>0, <3>1, <3>4 DEF IInv, ReadIsOfTheLog
    <3>5. \/ \E torn \in BOOLEAN : (torn => Len(log) < MaxLines) /\ batch' = OfTheLog(torn)
          \/ \E lines \in 0..MaxLines :
               batch' = Text(lines) /\ (lines > 0 => "readingLog" \in failed')
          \/ batch' = batch
      BY <2>1 DEF LogRead, At, Fault
    <3>6. QED
      BY <3>2, <3>3, <3>4, <3>5
  <2>2. CASE PhaseChecked
    BY <1>0, <2>2 DEF IInv, ReadIsOfTheLog, PhaseChecked, At, Goto, written
  <2>3. QED
    BY <2>1, <2>2
<1>3. DeliveryIsInStep'
  BY DEF IInv, DeliveryIsInStep, Ended, NextLine, LogRead, PhaseChecked, At, Goto,
         CleanUp, cluster, written
<1>4. DeliveredInOrder' /\ LinesComeFromReads'
  <2>1. UNCHANGED <<delivered, rotated>>
    BY DEF LogRead, PhaseChecked, written
  <2>2. ReadFrom = rotated
    BY DEF ReadFrom, LogRead, PhaseChecked, At
  <2>3. ReadFrom' = rotated
    BY <2>1 DEF ReadFrom, LogRead, PhaseChecked, Goto, CleanUp, OfTheLog, Text
  <2>4. QED
    BY <1>0, <2>1, <2>2, <2>3 DEF IInv, DeliveredInOrder, LinesComeFromReads
<1>5. ClusterIsKnown'
  BY DEF IInv, ClusterIsKnown, EndedIsCleanedUp, Ended, LogRead, PhaseChecked, At,
         Goto, CleanUp, cluster
<1>6. QED
  BY <1>1, <1>2, <1>3, <1>4, <1>5 DEF IInv

\* A delivery hands over the next line, and no other.
LEMMA DeliverKeepsInv ==
  ASSUME IInv, Deliver
  PROVE  IInv'
<1> USE BoundsAssumption
<1>1. /\ pc = "delivering" /\ outcome = "none" /\ Len(delivered) = consumed
      /\ NextLine \in 1..MaxLines /\ (IsWhole(NextLine) \/ IsTorn(NextLine))
      /\ UNCHANGED <<outcome, cluster, log, rotated, batch, final, consumed, mirrored,
                     failed, faults>>
  BY DEF Deliver, IInv, TypeOK, Read, ReadIsOfTheLog, DeliveryIsInStep, Ended,
         IsWhole, IsTorn, NextLine, NoFault, written
<1>2. \/ /\ delivered' = delivered
         /\ pc' = "suspended"
         /\ UNCHANGED consumer
      \/ /\ delivered' = Append(delivered, [line |-> LineAt(NextLine),
                                            torn |-> ~IsWhole(NextLine)])
         /\ pc' \in {"suspended", "mirroring"}
         /\ consumer' \in {"pulling", "gone"}
  BY DEF Deliver, Goto
<1>3. delivered \in Seq(Item)
  BY DEF IInv, TypeOK
<1>4. /\ delivered' \in Seq(Item)
      /\ Len(delivered') \in {consumed, NextLine}
      /\ pc' = "mirroring" => Len(delivered') = NextLine
  <2>1. [line |-> LineAt(NextLine), torn |-> ~IsWhole(NextLine)] \in Item
    <3>1. LineAt(NextLine) \in 0..MaxLines
      BY <1>1 DEF IInv, TypeOK, Read, ReadIsOfTheLog, IsWhole, IsTorn, LineAt, Foreign
    <3>2. QED
      BY <3>1 DEF Item
  <2>2. consumed \in Nat /\ Len(delivered) = consumed /\ NextLine = consumed + 1
    BY <1>1 DEF IInv, TypeOK, NextLine
  <2>3. CASE delivered' = delivered /\ pc' = "suspended"
    BY <1>3, <2>2, <2>3
  <2>4. CASE delivered' = Append(delivered, [line |-> LineAt(NextLine), torn |-> ~IsWhole(NextLine)])
    BY <1>3, <2>1, <2>2, <2>4
  <2>5. QED
    BY <1>2, <2>3, <2>4
<1>5. TypeOK'
  BY <1>1, <1>2, <1>4 DEF IInv, TypeOK, Calls, cluster
<1>6. ReadIsOfTheLog'
  BY <1>1, <1>2 DEF IInv, ReadIsOfTheLog, IsWhole, IsTorn, NextLine
<1>7. DeliveryIsInStep'
  BY <1>1, <1>2, <1>4 DEF IInv, DeliveryIsInStep, NextLine
<1>8. DeliveredInOrder' /\ LinesComeFromReads'
  <2>1. /\ consumed \in Nat /\ Len(delivered) = consumed /\ NextLine = consumed + 1
        /\ batch.from \in Nat /\ rotated \in Nat /\ batch.from <= rotated
    BY <1>1 DEF IInv, TypeOK, Read, ReadIsOfTheLog, NextLine
  <2>2. DeliveredInOrder /\ LinesComeFromReads /\ ReadFrom = batch.from
    BY <1>1 DEF IInv, ReadFrom
  <2>3. ReadFrom' \in {batch.from, rotated}
    BY <1>1 DEF ReadFrom
  <2>4. CASE delivered' = delivered
    BY <1>1, <2>1, <2>2, <2>3, <2>4 DEF DeliveredInOrder, LinesComeFromReads
  <2>5. CASE delivered' = Append(delivered, [line |-> LineAt(NextLine), torn |-> ~IsWhole(NextLine)])
    <3>1. LineAt(NextLine) \in {Foreign, batch.from + NextLine}
      BY DEF LineAt
    <3>2. /\ DOMAIN delivered = 1..consumed /\ DOMAIN delivered' = 1..NextLine
          /\ \A i \in 1..consumed : delivered'[i] = delivered[i]
          /\ delivered'[NextLine].line = LineAt(NextLine)
      BY <1>3, <2>1, <2>5
    <3>3. ASSUME NEW i \in DOMAIN delivered', delivered'[i].line # Foreign
          PROVE  delivered'[i].line \in i..(batch.from + i)
      BY <2>1, <2>2, <3>1, <3>2, <3>3 DEF LinesComeFromReads
    <3>4. ASSUME NEW i \in DOMAIN delivered', NEW j \in DOMAIN delivered', i < j,
                 delivered'[i].line # Foreign, delivered'[j].line # Foreign
          PROVE  delivered'[i].line < delivered'[j].line
      <4>1. i \in 1..consumed /\ delivered'[i].line \in i..(batch.from + i)
        BY <2>1, <3>2, <3>3, <3>4
      <4>2. CASE j = NextLine
        BY <2>1, <3>1, <3>2, <3>4, <4>1, <4>2
      <4>3. CASE j \in 1..consumed
        BY <2>2, <3>2, <3>4, <4>1, <4>3 DEF DeliveredInOrder
      <4>4. QED
        BY <2>1, <3>2, <4>2, <4>3
    <3>5. ASSUME rotated = 0, NEW i \in DOMAIN delivered'
          PROVE  delivered'[i].line \in {Foreign, i}
      BY <2>1, <3>2, <3>3, <3>5
    <3>6. ASSUME NEW i \in DOMAIN delivered', delivered'[i].line = Foreign
          PROVE  "readingLog" \in failed
      <4>1. CASE i = NextLine
        <5>1. batch.from + NextLine # Foreign /\ LineAt(NextLine) = Foreign
          BY <2>1, <3>2, <3>6, <4>1 DEF Foreign
        <5>2. batch.foreign
          BY <5>1 DEF LineAt
        <5>3. batch.whole > 0
          BY <1>1, <5>2 DEF IInv, TypeOK, Read, ReadIsOfTheLog, IsWhole, IsTorn
        <5>4. QED
          BY <5>2, <5>3 DEF IInv, ReadIsOfTheLog
      <4>2. CASE i \in 1..consumed
        BY <2>1, <2>2, <3>2, <3>6, <4>2 DEF DeliveredInOrder
      <4>3. QED
        BY <2>1, <3>2, <4>1, <4>2
    <3>a. DeliveredInOrder'
      BY <1>1, <3>4, <3>5, <3>6 DEF DeliveredInOrder
    <3>7. LinesComeFromReads'
      <4>1. ASSUME NEW i \in DOMAIN delivered', delivered'[i].line # Foreign
            PROVE  delivered'[i].line \in i..(ReadFrom' + i)
        <5>1. i \in Nat /\ delivered'[i].line \in i..(batch.from + i)
          BY <2>1, <3>2, <3>3, <4>1
        <5>2. QED
          BY <2>1, <2>3, <5>1
      <4>2. QED
        BY <4>1 DEF LinesComeFromReads
    <3>8. QED
      BY <3>a, <3>7
  <2>6. QED
    BY <1>2, <2>4, <2>5
<1>9. ClusterIsKnown'
  BY <1>1, <1>2 DEF IInv, ClusterIsKnown, EndedIsCleanedUp, Ended, cluster
<1>10. QED
  BY <1>5, <1>6, <1>7, <1>8, <1>9 DEF IInv

\* Once an event is mirrored the three counts agree again; if that fails, the
\* objects stay and the failure is known.
LEMMA MirrorKeepsInv ==
  ASSUME IInv, EventMirrored
  PROVE  IInv'
<1> USE BoundsAssumption
<1>0. failed \subseteq failed'
  BY DEF EventMirrored, Fault, NoFault
<1>1. /\ pc = "mirroring" /\ outcome = "none" /\ Len(delivered) = NextLine
      /\ mirrored = consumed /\ NextLine \in 1..MaxLines
  BY DEF EventMirrored, At, IInv, TypeOK, Read, ReadIsOfTheLog, DeliveryIsInStep,
         Ended, IsWhole, IsTorn, NextLine
<1>2. TypeOK'
  <2>1. TypeOK /\ pc \in Calls /\ (Fault \/ NoFault)
    BY DEF IInv, EventMirrored, At, Calls
  <2>2. failed' \subseteq Calls /\ faults' \in 0..MaxFaults
    BY <2>1, FaultsAreKept
  <2>3. /\ UNCHANGED <<consumer, pod, configMap, log, rotated, batch, final, delivered>>
        /\ pc' \in {"delivering", "threw"}
        /\ outcome' \in {outcome, "threw"}
    BY DEF EventMirrored, At, Goto, cluster, written
  <2>4. consumed' \in 0..MaxLines /\ mirrored' \in 0..MaxLines
    BY <1>1, <2>1 DEF TypeOK, EventMirrored, NextLine
  <2>5. QED
    BY <2>1, <2>2, <2>3, <2>4 DEF TypeOK, Ended
<1>3. ReadIsOfTheLog'
  BY <1>0, <1>1 DEF IInv, ReadIsOfTheLog, EventMirrored, Goto, written
<1>4. DeliveryIsInStep'
  BY <1>1 DEF IInv, DeliveryIsInStep, EventMirrored, Goto, Ended, NextLine, written
<1>5. DeliveredInOrder' /\ LinesComeFromReads'
  <2>1. UNCHANGED <<delivered, rotated, batch>>
    BY DEF EventMirrored, written
  <2>2. /\ ReadFrom = batch.from /\ ReadFrom' \in {batch.from, rotated}
        /\ batch.from \in Nat /\ rotated \in Nat /\ batch.from <= rotated
    BY <1>1, <2>1 DEF IInv, TypeOK, Read, ReadIsOfTheLog, ReadFrom
  <2>3. delivered \in Seq(Item) /\ LinesComeFromReads
    BY DEF IInv, TypeOK
  <2>4. DeliveredInOrder'
    BY <1>0, <2>1 DEF IInv, DeliveredInOrder
  <2>5. QED
    BY <2>1, <2>2, <2>3, <2>4, PlacesMoveOn
<1>6. ClusterIsKnown'
  BY <1>1 DEF IInv, ClusterIsKnown, EndedIsCleanedUp, Ended, EventMirrored, Goto,
              Fault, NoFault, cluster
<1>7. QED
  BY <1>2, <1>3, <1>4, <1>5, <1>6 DEF IInv

\* A consumer that leaves and a process that dies leave everything where it is.
LEMMA LeavingKeepsInv ==
  ASSUME IInv, ConsumerLeaves \/ Crash
  PROVE  IInv'
<1>1. TypeOK'
  BY DEF IInv, TypeOK, ConsumerLeaves, Crash, Goto, cluster, reading, written
<1>2. ReadIsOfTheLog'
  BY DEF IInv, ReadIsOfTheLog, IsWhole, IsTorn, NextLine, ConsumerLeaves, Crash, Goto,
         reading, written
<1>3. DeliveryIsInStep' /\ DeliveredInOrder' /\ LinesComeFromReads'
  <2>1. DeliveryIsInStep' /\ DeliveredInOrder'
    BY DEF IInv, DeliveryIsInStep, DeliveredInOrder, Ended, NextLine, ConsumerLeaves,
           Crash, Goto, reading, written
  <2>2. UNCHANGED <<delivered, rotated, batch>> /\ ReadFrom' \in {ReadFrom, rotated}
    BY DEF ConsumerLeaves, Crash, Goto, reading, written, ReadFrom
  <2>3. /\ ReadFrom \in Nat /\ rotated \in Nat /\ ReadFrom <= rotated
    BY DEF IInv, TypeOK, Read, ReadIsOfTheLog, ReadFrom
  <2>4. delivered \in Seq(Item) /\ LinesComeFromReads
    BY DEF IInv, TypeOK
  <2>5. QED
    BY <2>1, <2>2, <2>3, <2>4, PlacesMoveOn
<1>4. ClusterIsKnown'
  BY DEF IInv, ClusterIsKnown, EndedIsCleanedUp, Ended, ConsumerLeaves, Crash, Goto,
         cluster, reading
<1>5. QED
  BY <1>1, <1>2, <1>3, <1>4 DEF IInv

\* The pod changes its phase, or is taken away, but is never made by the cluster.
LEMMA PodKeepsInv ==
  ASSUME IInv, PodStarts \/ PodExits \/ PodLost
  PROVE  IInv'
<1>1. TypeOK'
  BY DEF IInv, TypeOK, Phases, PodStarts, PodExits, PodLost, unseen, written
<1>2. ReadIsOfTheLog'
  BY DEF IInv, ReadIsOfTheLog, IsWhole, IsTorn, NextLine, PodStarts, PodExits, PodLost,
         unseen, written
<1>3. DeliveryIsInStep' /\ DeliveredInOrder' /\ LinesComeFromReads'
  BY DEF IInv, DeliveryIsInStep, DeliveredInOrder, LinesComeFromReads, ReadFrom,
         NextLine, PodStarts, PodExits, PodLost, unseen, written
<1>4. ClusterIsKnown'
  BY DEF IInv, ClusterIsKnown, EndedIsCleanedUp, Ended, Phases, PodStarts, PodExits,
         PodLost, unseen
<1>5. QED
  BY <1>1, <1>2, <1>3, <1>4 DEF IInv

\* A rotation only moves the place the next read starts from.
LEMMA RotationKeepsInv ==
  ASSUME IInv, LogRotates
  PROVE  IInv'
<1>1. /\ Len(log) \in Nat /\ rotated \in Nat /\ rotated' = Len(log) /\ rotated < Len(log)
      /\ UNCHANGED <<unseen, log, pod>>
  BY DEF IInv, TypeOK, LogRotates
<1>2. TypeOK'
  BY <1>1 DEF IInv, TypeOK, unseen
<1>3. ReadIsOfTheLog'
  BY <1>1 DEF IInv, TypeOK, Read, ReadIsOfTheLog, IsWhole, IsTorn, NextLine, unseen
<1>4. DeliveryIsInStep'
  BY <1>1 DEF IInv, TypeOK, DeliveryIsInStep, NextLine, unseen
<1>5. DeliveredInOrder'
  BY <1>1 DEF IInv, DeliveredInOrder, unseen
<1>6. LinesComeFromReads'
  <2>1. /\ delivered' = delivered /\ ReadFrom \in Nat /\ ReadFrom' \in Nat
        /\ ReadFrom <= ReadFrom'
    BY <1>1 DEF IInv, TypeOK, Read, ReadIsOfTheLog, ReadFrom, unseen
  <2>2. delivered \in Seq(Item) /\ LinesComeFromReads
    BY DEF IInv, TypeOK
  <2>3. QED
    BY <2>1, <2>2, PlacesMoveOn
<1>7. ClusterIsKnown'
  BY <1>1 DEF IInv, ClusterIsKnown, EndedIsCleanedUp, unseen
<1>8. QED
  BY <1>2, <1>3, <1>4, <1>5, <1>6, <1>7 DEF IInv

\* The harness only adds lines, and none after its last one.
LEMMA WriteKeepsInv ==
  ASSUME IInv, NEW line \in Lines, PodWrites(line)
  PROVE  IInv'
<1> USE BoundsAssumption
<1>1. /\ log \in Seq(Lines) /\ log' = Append(log, line)
      /\ Len(log) < MaxLines /\ (log # <<>> => log[Len(log)] = "event")
      /\ UNCHANGED <<unseen, rotated, pod>>
  BY DEF IInv, TypeOK, PodWrites
<1>2. /\ log' \in Seq(Lines) /\ Len(log') = Len(log) + 1
      /\ \A i \in 1..Len(log) : log'[i] = log[i]
  BY <1>1
<1>3. TypeOK'
  BY <1>1, <1>2 DEF IInv, TypeOK, unseen
<1>4. ReadIsOfTheLog'
  BY <1>1, <1>2 DEF IInv, TypeOK, Read, ReadIsOfTheLog, IsWhole, IsTorn, NextLine, unseen
<1>5. DeliveryIsInStep' /\ DeliveredInOrder' /\ LinesComeFromReads'
  BY <1>1, <1>2 DEF IInv, TypeOK, DeliveryIsInStep, DeliveredInOrder,
                    LinesComeFromReads, ReadFrom, NextLine, unseen
<1>6. ClusterIsKnown'
  BY <1>1 DEF IInv, ClusterIsKnown, EndedIsCleanedUp, unseen
<1>7. QED
  BY <1>3, <1>4, <1>5, <1>6 DEF IInv

\* Every step keeps the invariant.
LEMMA InvStep == IInv /\ [Next]_vars => IInv'
<1> SUFFICES ASSUME IInv, [Next]_vars PROVE IInv'
  OBVIOUS
<1>1. CASE ExecutorStep
  BY <1>1, AsideKeepsInv, ReadKeepsInv, DeliverKeepsInv, MirrorKeepsInv DEF ExecutorStep
<1>2. CASE ConsumerLeaves \/ Crash
  BY <1>2, LeavingKeepsInv
<1>3. CASE PodStarts \/ PodExits \/ PodLost
  BY <1>3, PodKeepsInv
<1>4. CASE \E line \in Lines : PodWrites(line)
  BY <1>4, WriteKeepsInv
<1>5. CASE LogRotates
  BY <1>5, RotationKeepsInv
<1>6. CASE UNCHANGED vars
  <2>1. TypeOK' /\ DeliveredInOrder' /\ LinesComeFromReads'
    BY <1>6 DEF vars, IInv, TypeOK, DeliveredInOrder, LinesComeFromReads, ReadFrom
  <2>2. ReadIsOfTheLog' /\ DeliveryIsInStep'
    BY <1>6 DEF vars, IInv, ReadIsOfTheLog, DeliveryIsInStep, IsWhole, IsTorn, NextLine
  <2>3. ClusterIsKnown'
    BY <1>6 DEF vars, IInv, ClusterIsKnown, EndedIsCleanedUp
  <2>4. QED
    BY <2>1, <2>2, <2>3 DEF IInv
<1>7. QED
  BY <1>1, <1>2, <1>3, <1>4, <1>5, <1>6 DEF Next, AtRest

\* Reading, delivery, mirroring and the objects in the cluster stay in step,
\* whatever fails and whoever leaves.
THEOREM Invariance == Spec => []IInv
<1>1. QED
  BY InvInit, InvStep, PTL DEF Spec

\* Every variable of an execution keeps its type.
THEOREM TypeCorrect == Spec => []TypeOK
<1>1. IInv => TypeOK
  BY DEF IInv
<1>2. QED
  BY <1>1, Invariance, PTL

\* Over any number of polls, partial reads, error texts and rotations, the consumer
\* gets lines of the log in their order and none twice; unless the log is rotated,
\* an error's text takes the place of as many lines as it delivers, and no other
\* line is left out.
THEOREM DeliveryIsInOrder == Spec => []DeliveredInOrder
<1>1. IInv => DeliveredInOrder
  BY DEF IInv
<1>2. QED
  BY <1>1, Invariance, PTL

\* An execution returns only with sandbox.done at the end of the log and with all
\* that was delivered in the host transcript: an event for each line before it,
\* unless the log is rotated.
THEOREM ReturnsAreComplete == Spec => []ReturnIsComplete
<1>1. IInv => ReturnIsComplete
  <2>1. SUFFICES ASSUME IInv, outcome = "returned"
                 PROVE  /\ log[Len(log)] = "sandbox.done"
                        /\ mirrored = Len(delivered)
                        /\ rotated = 0 => Len(log) = Len(delivered) + 1
    BY DEF ReturnIsComplete
  <2>2. QED
    BY <2>1 DEF IInv, TypeOK, DeliveryIsInStep, NextLine
<1>2. QED
  BY <1>1, Invariance, PTL

\* What an ended execution leaves in the cluster is there on account of a call that
\* failed.
THEOREM EndsAreClean == Spec => []EndedIsCleanedUp
<1>1. IInv => EndedIsCleanedUp
  BY DEF IInv, ClusterIsKnown
<1>2. QED
  BY <1>1, Invariance, PTL

=============================================================================
