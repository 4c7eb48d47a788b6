---------------------------- MODULE GatewayProofs ----------------------------
(***************************************************************************)
(* Proofs about the worker gateway, for any responses a worker may send,   *)
(* cut into chunks anywhere.                                               *)
(***************************************************************************)
EXTENDS WorkerGateway, SelectionProofs

TypeOK ==
  /\ response \in Seq(Frames)
  /\ read \in 0..2 * Len(response)
  /\ parser \in {"reading", "failed", "ending", "finished"}
  /\ queuedEvents \in Seq(Events)
  /\ completion \in BOOLEAN
  /\ parsingError \in BOOLEAN
  /\ consumer \in {"posting", "running", "waiting", "yielded", "returned", "threw"}
  /\ delivered \in Seq(Events)

ReadSoFar == SubSeq(response, 1, read \div 2)

Unbroken(frames) == \A i \in 1..Len(frames) : frames[i] # "broken"

\* Nothing happens before the worker has answered.
NothingBeforeTheAnswer ==
  consumer = "posting" =>
    parser = "reading" /\ read = 0 /\ queuedEvents = <<>> /\ delivered = <<>>

\* The parser goes no further than a frame it cannot parse, and reports it.
BrokenFramesAreReported ==
  /\ parser = "reading" => Unbroken(ReadSoFar)
  /\ Unbroken(ReadSoFar) \/ parser = "failed" \/ parsingError

\* The generator ends after the parser, and returns only when that went well.
EndsAfterTheParser ==
  /\ Ended => parser = "finished"
  /\ consumer = "returned" => ~parsingError

(* No wake-up is lost: a generator that sleeps has nothing to deliver, and the *)
(* parser that will wake it is still at work (harness-worker-client.ts:121-151). *)
NoWakeUpIsLost ==
  consumer = "waiting" => queuedEvents = <<>> /\ parser # "finished"

GatewayInv ==
  /\ TypeOK
  /\ NothingBeforeTheAnswer
  /\ BrokenFramesAreReported
  /\ EndsAfterTheParser
  /\ NoWakeUpIsLost
  /\ DeliveredInOrder
  /\ OutcomeIsTheWorkers

-----------------------------------------------------------------------------
(* Lemmas about the frames that are parsed.                                 *)

\* The frames before the first broken one are a sequence of frames.
LEMMA ParsedIsASegment ==
  ASSUME NEW frames \in Seq(Frames)
  PROVE  \E m \in 0..Len(frames) :
           /\ Parsed(frames) = [i \in 1..m |-> frames[i]]
           /\ \A i \in 1..m : frames[i] # "broken"
           /\ m < Len(frames) => frames[m + 1] = "broken"
<1> DEFINE good == {i \in 1..Len(frames) : \A j \in 1..i : frames[j] # "broken"}
           bad == {i \in 1..Len(frames) : frames[i] = "broken"}
<1>1. CASE bad = {}
  <2>1. good = 1..Len(frames)
    BY <1>1
  <2>2. Parsed(frames) = [i \in 1..Len(frames) |-> frames[i]]
    BY <2>1 DEF Parsed
  <2>3. \A i \in 1..Len(frames) : frames[i] # "broken"
    BY <1>1
  <2>4. Len(frames) \in 0..Len(frames)
    OBVIOUS
  <2> HIDE DEF good, bad
  <2>5. QED BY <2>2, <2>3, <2>4
<1>2. CASE bad # {}
  <2>1. bad \in SUBSET Nat
    OBVIOUS
  <2>2. PICK b \in bad : \A i \in bad : b <= i
    <3> HIDE DEF bad
    <3>1. QED BY <1>2, <2>1, LeastNatural
  <2>3. /\ b \in 1..Len(frames) /\ frames[b] = "broken"
        /\ \A i \in 1..(b - 1) : frames[i] # "broken"
    BY <2>2
  <2>4. good = 1..(b - 1)
    BY <2>3
  <2>5. Parsed(frames) = [i \in 1..(b - 1) |-> frames[i]]
    BY <2>4 DEF Parsed
  <2>6. b - 1 \in 0..Len(frames) /\ (b - 1) + 1 = b
    BY <2>3
  <2> HIDE DEF good, bad
  <2>7. QED BY <2>3, <2>5, <2>6
<1>3. QED BY <1>1, <1>2

LEMMA ParsedIsTyped ==
  ASSUME NEW frames \in Seq(Frames)
  PROVE  Parsed(frames) \in Seq(Frames)
<1>1. PICK m \in 0..Len(frames) : Parsed(frames) = [i \in 1..m |-> frames[i]]
  BY ParsedIsASegment
<1>2. [i \in 1..m |-> frames[i]] \in Seq(Frames)
  OBVIOUS
<1>3. QED BY <1>1, <1>2

\* Unbroken frames are all parsed.
LEMMA ParsedOfUnbroken ==
  ASSUME NEW frames \in Seq(Frames), Unbroken(frames)
  PROVE  Parsed(frames) = frames
<1>1. PICK m \in 0..Len(frames) :
        /\ Parsed(frames) = [i \in 1..m |-> frames[i]]
        /\ m < Len(frames) => frames[m + 1] = "broken"
  BY ParsedIsASegment
<1>2. m = Len(frames)
  BY <1>1 DEF Unbroken
<1>3. frames = [i \in 1..Len(frames) |-> frames[i]]
  OBVIOUS
<1>4. QED BY <1>1, <1>2, <1>3

\* After unbroken frames, what comes next is parsed as if it came alone.
ParsesOn(s, t) == Parsed(s \o t) = s \o Parsed(t)

LEMMA ParsedOfConcat ==
  ASSUME NEW s \in Seq(Frames), NEW t \in Seq(Frames), Unbroken(s)
  PROVE  ParsesOn(s, t)
<1> DEFINE u == s \o t
<1>1. /\ u \in Seq(Frames) /\ Len(u) = Len(s) + Len(t)
      /\ \A i \in 1..Len(s) : u[i] = s[i]
      /\ \A i \in 1..Len(t) : u[Len(s) + i] = t[i]
  OBVIOUS
<1>2. PICK m \in 0..Len(t) :
        /\ Parsed(t) = [i \in 1..m |-> t[i]]
        /\ \A i \in 1..m : t[i] # "broken"
        /\ m < Len(t) => t[m + 1] = "broken"
  BY ParsedIsASegment
<1> HIDE DEF u
<1>3. PICK n \in 0..Len(u) :
        /\ Parsed(u) = [i \in 1..n |-> u[i]]
        /\ \A i \in 1..n : u[i] # "broken"
        /\ n < Len(u) => u[n + 1] = "broken"
  BY <1>1, ParsedIsASegment
<1>4. n = Len(s) + m
  <2>1. ~(n < Len(s))
    <3>1. SUFFICES ASSUME n < Len(s) PROVE FALSE
      OBVIOUS
    <3>2. n + 1 \in 1..Len(s) /\ n < Len(u)
      BY <1>1, <3>1
    <3>3. u[n + 1] = s[n + 1] /\ s[n + 1] # "broken"
      BY <1>1, <3>2 DEF Unbroken
    <3>4. QED BY <1>3, <3>2, <3>3
  <2>2. ~(n < Len(s) + m)
    <3>1. SUFFICES ASSUME n < Len(s) + m PROVE FALSE
      OBVIOUS
    <3>2. (n + 1) - Len(s) \in 1..m /\ Len(s) + ((n + 1) - Len(s)) = n + 1
      BY <2>1, <3>1
    <3>3. u[n + 1] = t[(n + 1) - Len(s)]
      BY <1>1, <3>2
    <3>4. QED BY <1>1, <1>2, <1>3, <3>1, <3>2, <3>3
  <2>3. ~(n > Len(s) + m)
    <3>1. SUFFICES ASSUME n > Len(s) + m PROVE FALSE
      OBVIOUS
    <3>2. m + 1 \in 1..Len(t) /\ Len(s) + (m + 1) \in 1..n /\ m < Len(t)
      BY <1>1, <3>1
    <3>3. u[Len(s) + (m + 1)] = t[m + 1]
      BY <1>1, <3>2
    <3>4. QED BY <1>2, <1>3, <3>2, <3>3
  <2>4. QED BY <2>2, <2>3
<1>5. Parsed(t) \in Seq(Frames) /\ Parsed(u) \in Seq(Frames)
  BY <1>1, ParsedIsTyped
<1>6. Len(Parsed(t)) = m /\ Len(Parsed(u)) = n
  BY <1>2, <1>3
<1> DEFINE v == s \o Parsed(t)
<1>7. /\ v \in Seq(Frames) /\ Len(v) = Len(s) + m
      /\ \A i \in 1..Len(s) : v[i] = s[i]
      /\ \A i \in 1..m : v[Len(s) + i] = Parsed(t)[i]
  <2>1. PICK w \in Seq(Frames) : w = Parsed(t) /\ Len(w) = m
    BY <1>5, <1>6
  <2> DEFINE y == s \o w
  <2>2. /\ y \in Seq(Frames) /\ Len(y) = Len(s) + Len(w)
        /\ \A i \in 1..Len(s) : y[i] = s[i]
        /\ \A i \in 1..Len(w) : y[Len(s) + i] = w[i]
    OBVIOUS
  <2>3. y = v
    BY <2>1
  <2> HIDE DEF y, v
  <2>4. QED BY <2>1, <2>2, <2>3
<1> HIDE DEF v
<1>8. \A i \in 1..n : Parsed(u)[i] = v[i]
  <2>1. SUFFICES ASSUME NEW i \in 1..n PROVE Parsed(u)[i] = v[i]
    OBVIOUS
  <2>2. Parsed(u)[i] = u[i]
    BY <1>3
  <2>3. CASE i <= Len(s)
    BY <1>1, <1>7, <2>2, <2>3
  <2>4. CASE i > Len(s)
    <3>1. i - Len(s) \in 1..m /\ Len(s) + (i - Len(s)) = i /\ i - Len(s) \in 1..Len(t)
      BY <1>4, <2>4
    <3>2. u[i] = t[i - Len(s)] /\ v[i] = Parsed(t)[i - Len(s)]
      BY <1>1, <1>7, <3>1
    <3>3. Parsed(t)[i - Len(s)] = t[i - Len(s)]
      BY <1>2, <3>1
    <3>4. QED BY <2>2, <3>2, <3>3
  <2>5. QED BY <2>3, <2>4
<1>9. Parsed(u) = v
  BY <1>4, <1>5, <1>6, <1>7, <1>8
<1>10. QED BY <1>9 DEF ParsesOn, u, v

-----------------------------------------------------------------------------
(* Lemmas about the steps.                                                  *)

\* What an event more of the queue does to what was delivered.
HandsOver(d, q) == Append(d, Head(q)) \o Tail(q) = d \o q

LEMMA HandingOverKeepsOrder ==
  ASSUME NEW d \in Seq(Events), NEW q \in Seq(Events), q # <<>>
  PROVE  HandsOver(d, q)
<1> DEFINE a == Append(d, Head(q)) \o Tail(q)
           b == d \o q
<1>1. Head(q) \in Events /\ Tail(q) \in Seq(Events) /\ Len(Tail(q)) = Len(q) - 1
  OBVIOUS
<1>2. /\ a \in Seq(Events) /\ b \in Seq(Events)
      /\ Len(a) = Len(d) + Len(q) /\ Len(b) = Len(a)
  BY <1>1
<1>3. \A i \in 1..Len(a) : a[i] = b[i]
  OBVIOUS
<1> HIDE DEF a, b
<1>4. a = b
  BY <1>2, <1>3
<1>5. QED BY <1>4 DEF a, b, HandsOver

\* Events queued behind others are delivered behind them.
QueuesBehind(d, q, e) == d \o (q \o e) = (d \o q) \o e

LEMMA QueueingKeepsOrder ==
  ASSUME NEW d \in Seq(Events), NEW q \in Seq(Events), NEW e \in Seq(Events)
  PROVE  QueuesBehind(d, q, e)
BY ConcatAssociative DEF QueuesBehind

\* A concatenation has the frames of its parts.
LEMMA FramesOfConcat ==
  ASSUME NEW s \in Seq(Frames), NEW t \in Seq(Frames), NEW frame
  PROVE  HasFrame(s \o t, frame) <=> HasFrame(s, frame) \/ HasFrame(t, frame)
<1> DEFINE u == s \o t
<1>1. /\ Len(u) = Len(s) + Len(t) /\ Len(s) \in Nat /\ Len(t) \in Nat
      /\ \A i \in 1..Len(s) : u[i] = s[i]
      /\ \A i \in 1..Len(t) : u[Len(s) + i] = t[i]
  OBVIOUS
<1> HIDE DEF u
<1>2. ASSUME HasFrame(s, frame) PROVE HasFrame(u, frame)
  <2>1. PICK i \in 1..Len(s) : s[i] = frame
    BY <1>2 DEF HasFrame
  <2>2. i \in 1..Len(u) /\ u[i] = frame
    BY <1>1, <2>1
  <2>3. QED BY <2>2 DEF HasFrame
<1>3. ASSUME HasFrame(t, frame) PROVE HasFrame(u, frame)
  <2>1. PICK i \in 1..Len(t) : t[i] = frame
    BY <1>3 DEF HasFrame
  <2>2. Len(s) + i \in 1..Len(u) /\ u[Len(s) + i] = frame
    BY <1>1, <2>1
  <2>3. QED BY <2>2 DEF HasFrame
<1>4. ASSUME HasFrame(u, frame) PROVE HasFrame(s, frame) \/ HasFrame(t, frame)
  <2>1. PICK i \in 1..Len(u) : u[i] = frame
    BY <1>4 DEF HasFrame
  <2>2. CASE i <= Len(s)
    <3>1. i \in 1..Len(s) /\ s[i] = frame
      BY <1>1, <2>1, <2>2
    <3>2. QED BY <3>1 DEF HasFrame
  <2>3. CASE i > Len(s)
    <3>1. i - Len(s) \in 1..Len(t) /\ Len(s) + (i - Len(s)) = i
      BY <1>1, <2>3
    <3>2. t[i - Len(s)] = frame
      BY <1>1, <2>1, <3>1
    <3>3. QED BY <3>1, <3>2 DEF HasFrame
  <2>4. QED BY <1>1, <2>2, <2>3
<1>5. QED BY <1>2, <1>3, <1>4 DEF u

LEMMA UnbrokenHasNoBroken ==
  ASSUME NEW frames
  PROVE  Unbroken(frames) <=> ~HasFrame(frames, "broken")
BY DEF Unbroken, HasFrame

\* A chunk goes on where the last one stopped, even inside a frame.
GoesOn(n) == SubSeq(response, 1, n \div 2) = ReadSoFar \o Completed(n)

LEMMA ChunksAreAdjacent ==
  ASSUME TypeOK, NEW n \in 1..2 * Len(response), n > read
  PROVE  /\ ReadSoFar \in Seq(Frames) /\ Completed(n) \in Seq(Frames)
         /\ GoesOn(n)
<1> DEFINE k == read \div 2
           m == n \div 2
<1>1. response \in Seq(Frames) /\ Len(response) \in Nat /\ read \in 0..2 * Len(response)
  BY DEF TypeOK
<1>2. /\ k \in 0..Len(response) /\ m \in k..Len(response) /\ m \in Nat
  BY <1>1
<1>3. ReadSoFar \in Seq(Frames) /\ Completed(n) \in Seq(Frames)
  <2> HIDE DEF k, m
  <2>1. SubSeq(response, 1, k) \in Seq(Frames) /\ SubSeq(response, k + 1, m) \in Seq(Frames)
    BY <1>1, <1>2
  <2>2. QED BY <2>1 DEF k, m, ReadSoFar, Completed
<1>4. SubSeq(response, 1, k) \o SubSeq(response, k + 1, m) = SubSeq(response, 1, m)
  <2> HIDE DEF k, m
  <2>1. 1 \in 1..Len(response) + 1 /\ k \in (1 - 1)..Len(response) /\ m \in k..Len(response)
    BY <1>1, <1>2
  <2>2. QED BY <1>1, <2>1, ConcatAdjacentSubSeq
<1>5. QED BY <1>3, <1>4 DEF GoesOn, ReadSoFar, Completed

-----------------------------------------------------------------------------
(* The invariant.                                                           *)

LEMMA InitEstablishesInv == Init => GatewayInv
<1>1. SUFFICES ASSUME Init PROVE GatewayInv
  OBVIOUS
<1>2. response \in Seq(Frames) /\ Len(response) \in Nat
  BY <1>1, GatewayAssumption DEF Init
<1>3. TypeOK
  <2>1. 0 \in 0..2 * Len(response) /\ <<>> \in Seq(Events)
    BY <1>2
  <2>2. QED BY <1>1, <1>2, <2>1 DEF Init, TypeOK
<1>4. SubSeq(response, 1, read \div 2) = <<>>
  BY <1>1, <1>2 DEF Init
<1>5. Len(<<>>) = 0 /\ <<>> \in Seq(Frames)
  OBVIOUS
<1>6. Unbroken(ReadSoFar) /\ ~HasFrame(<<>>, "completed")
  <2>1. 1..Len(<<>>) = {}
    BY <1>5
  <2>2. ~HasFrame(<<>>, "completed") /\ ~HasFrame(<<>>, "broken")
    BY <2>1 DEF HasFrame
  <2>3. QED BY <1>4, <2>2, UnbrokenHasNoBroken DEF ReadSoFar
<1>7. Received = <<>>
  BY <1>4, <1>5, <1>6, ParsedOfUnbroken DEF Received, ReadSoFar
<1>8. DeliveredInOrder
  <2>1. Select(<<>>, Events) = <<>>
    BY SelectOfEmpty
  <2>2. <<>> \o <<>> = <<>>
    OBVIOUS
  <2>3. QED BY <1>1, <1>7, <2>1, <2>2 DEF Init, DeliveredInOrder, Ended
<1>9. OutcomeIsTheWorkers
  BY <1>1, <1>6, <1>7 DEF Init, OutcomeIsTheWorkers
<1>10. QED
  BY <1>1, <1>3, <1>6, <1>8, <1>9
     DEF Init, GatewayInv, NothingBeforeTheAnswer, BrokenFramesAreReported,
         EndsAfterTheParser, NoWakeUpIsLost, Ended

\* The steps that read nothing leave what was read as it is.
LEMMA NothingRead ==
  ASSUME response' = response, read' = read
  PROVE  ReadSoFar' = ReadSoFar /\ Received' = Received
BY DEF ReadSoFar, Received

LEMMA ReadChunkPreservesInv ==
  ASSUME GatewayInv, NEW n \in 1..2 * Len(response), ReadChunk(n)
  PROVE  GatewayInv'
<1> DEFINE R == ReadSoFar
           C == Completed(n)
           P == Parsed(C)
           E == Select(P, Events)
<1>1. TypeOK /\ parser = "reading" /\ n > read /\ consumer # "posting"
  BY DEF GatewayInv, ReadChunk
<1>2. R \in Seq(Frames) /\ C \in Seq(Frames) /\ ReadSoFar' = R \o C
  BY <1>1, ChunksAreAdjacent DEF GoesOn, ReadSoFar, ReadChunk
<1>3. P \in Seq(Frames)
  BY <1>2, ParsedIsTyped
<1>4. E \in Seq(Events)
  <2>1. E \in Seq(Frames \cap Events)
    BY <1>3, SelectIsTyped
  <2>2. Frames \cap Events = Events
    BY DEF Frames
  <2>3. QED BY <2>1, <2>2
<1>5. Unbroken(R) /\ Received = R
  <2>1. Unbroken(R)
    BY <1>1 DEF GatewayInv, BrokenFramesAreReported
  <2>2. QED BY <1>2, <2>1, ParsedOfUnbroken DEF Received, ReadSoFar
<1>6. Received' = R \o P
  BY <1>2, <1>5, ParsedOfConcat DEF Received, ReadSoFar, ParsesOn
<1>7. /\ queuedEvents' = queuedEvents \o E
      /\ completion' = (completion \/ HasFrame(P, "completed"))
      /\ consumer' = IF HasFrame(P, "completed") \/ E # <<>> THEN Notified ELSE consumer
      /\ parser' = IF HasFrame(C, "broken") THEN "failed" ELSE "reading"
      /\ read' = n /\ response' = response
      /\ parsingError' = parsingError /\ delivered' = delivered
  BY DEF ReadChunk
<1> HIDE DEF R, C, P, E
<1>8. queuedEvents' \in Seq(Events)
  BY <1>1, <1>4, <1>7 DEF TypeOK
<1>9. TypeOK'
  BY <1>1, <1>7, <1>8 DEF TypeOK, Notified
<1>10. NothingBeforeTheAnswer'
  BY <1>1, <1>7 DEF NothingBeforeTheAnswer, Notified
<1>11. BrokenFramesAreReported'
  <2>1. HasFrame(R \o C, "broken") <=> HasFrame(R, "broken") \/ HasFrame(C, "broken")
    BY <1>2, FramesOfConcat
  <2>2. Unbroken(ReadSoFar)' <=> ~HasFrame(R \o C, "broken")
    BY <1>2, UnbrokenHasNoBroken
  <2>3. ~HasFrame(R, "broken")
    BY <1>5, UnbrokenHasNoBroken
  <2>4. QED BY <1>7, <2>1, <2>2, <2>3 DEF BrokenFramesAreReported
<1>12. ~Ended /\ ~Ended'
  BY <1>1, <1>7 DEF GatewayInv, EndsAfterTheParser, Ended, Notified
<1>13. EndsAfterTheParser'
  BY <1>12 DEF EndsAfterTheParser, Ended
<1>14. NoWakeUpIsLost'
  <2>1. SUFFICES ASSUME consumer' = "waiting"
                 PROVE  queuedEvents' = <<>> /\ parser' # "finished"
    BY DEF NoWakeUpIsLost
  <2>2. E = <<>> /\ consumer = "waiting"
    BY <1>7, <2>1 DEF Notified
  <2>3. queuedEvents = <<>>
    BY <2>2 DEF GatewayInv, NoWakeUpIsLost
  <2>4. QED BY <1>7, <2>2, <2>3
<1>15. DeliveredInOrder'
  <2>1. delivered \o queuedEvents = Select(R, Events)
    BY <1>5 DEF GatewayInv, DeliveredInOrder
  <2>2. Select(R \o P, Events) = Select(R, Events) \o E
    <3>1. SelectsInParts(R, P, Events)
      BY <1>2, <1>3, SelectOfConcat
    <3>2. QED BY <3>1 DEF SelectsInParts, E
  <2>3. delivered \o (queuedEvents \o E) = (delivered \o queuedEvents) \o E
    BY <1>1, <1>4, QueueingKeepsOrder DEF QueuesBehind, TypeOK
  <2>4. QED BY <1>6, <1>7, <1>12, <2>1, <2>2, <2>3 DEF DeliveredInOrder
<1>16. OutcomeIsTheWorkers'
  <2>1. completion <=> HasFrame(R, "completed")
    BY <1>5 DEF GatewayInv, OutcomeIsTheWorkers
  <2>2. HasFrame(R \o P, "completed") <=> HasFrame(R, "completed") \/ HasFrame(P, "completed")
    BY <1>2, <1>3, FramesOfConcat
  <2>3. completion' <=> HasFrame(Received', "completed")
    BY <1>6, <1>7, <2>1, <2>2
  <2>4. QED BY <1>12, <2>3 DEF OutcomeIsTheWorkers, Ended
<1>17. QED
  BY <1>9, <1>10, <1>11, <1>13, <1>14, <1>15, <1>16 DEF GatewayInv

LEMMA GeneratePreservesInv ==
  ASSUME GatewayInv, Generate
  PROVE  GatewayInv'
<1>1. TypeOK /\ consumer = "running"
  BY DEF GatewayInv, Generate
<1>2. /\ response' = response /\ read' = read /\ parser' = parser
      /\ completion' = completion /\ parsingError' = parsingError
  BY DEF Generate
<1>3. ReadSoFar' = ReadSoFar /\ Received' = Received
  BY <1>2, NothingRead
<1>4. BrokenFramesAreReported'
  BY <1>2, <1>3 DEF GatewayInv, BrokenFramesAreReported
<1>5. delivered \o queuedEvents = Select(Received, Events)
  BY DEF GatewayInv, DeliveredInOrder
<1>6. completion <=> HasFrame(Received, "completed")
  BY DEF GatewayInv, OutcomeIsTheWorkers
<1>7. CASE queuedEvents # <<>>
  <2>1. /\ consumer' = "yielded"
        /\ delivered' = Append(delivered, Head(queuedEvents))
        /\ queuedEvents' = Tail(queuedEvents)
    BY <1>7 DEF Generate
  <2>2. Head(queuedEvents) \in Events /\ Tail(queuedEvents) \in Seq(Events)
    BY <1>1, <1>7 DEF TypeOK
  <2>3. delivered' \in Seq(Events) /\ queuedEvents' \in Seq(Events)
    BY <1>1, <2>1, <2>2 DEF TypeOK
  <2>4. TypeOK'
    BY <1>1, <1>2, <2>1, <2>3 DEF TypeOK
  <2>5. delivered' \o queuedEvents' = delivered \o queuedEvents
    BY <1>1, <1>7, <2>1, HandingOverKeepsOrder DEF HandsOver, TypeOK
  <2>6. DeliveredInOrder'
    BY <1>3, <1>5, <2>1, <2>5 DEF DeliveredInOrder, Ended
  <2>7. OutcomeIsTheWorkers'
    BY <1>2, <1>3, <1>6, <2>1 DEF OutcomeIsTheWorkers
  <2>8. QED
    BY <1>4, <2>1, <2>4, <2>6, <2>7
       DEF GatewayInv, NothingBeforeTheAnswer, EndsAfterTheParser, NoWakeUpIsLost, Ended
<1>8. CASE queuedEvents = <<>>
  <2>1. /\ consumer' = IF parser # "finished" THEN "waiting"
                       ELSE IF parsingError THEN "threw" ELSE "returned"
        /\ delivered' = delivered /\ queuedEvents' = queuedEvents
    BY <1>8 DEF Generate
  <2>2. TypeOK'
    BY <1>1, <1>2, <2>1 DEF TypeOK
  <2>3. DeliveredInOrder'
    BY <1>3, <1>5, <1>8, <2>1 DEF DeliveredInOrder
  <2>4. consumer' = "returned" => ~parsingError' /\ parser' = "finished"
    BY <1>1, <1>2, <2>1 DEF TypeOK
  <2>5. consumer' = "returned" => Unbroken(ReadSoFar)
    BY <1>2, <2>4 DEF GatewayInv, BrokenFramesAreReported
  <2>6. OutcomeIsTheWorkers'
    <3>1. HasFrame(SubSeq(response, 1, read \div 2), "broken")' <=> ~Unbroken(ReadSoFar)
      BY <1>2, UnbrokenHasNoBroken DEF ReadSoFar
    <3>2. QED BY <1>2, <1>3, <1>6, <2>4, <2>5, <3>1 DEF OutcomeIsTheWorkers
  <2>7. QED
    BY <1>1, <1>2, <1>4, <1>8, <2>1, <2>2, <2>3, <2>4, <2>6
       DEF GatewayInv, NothingBeforeTheAnswer, EndsAfterTheParser, NoWakeUpIsLost, Ended
<1>9. QED BY <1>7, <1>8

\* The other steps: none reads, queues or delivers.
LEMMA ControlPreservesInv ==
  ASSUME GatewayInv,
         Refused \/ Accepted \/ ResponseEnds \/ Catch \/ Finally \/ Pull \/ UNCHANGED vars
  PROVE  GatewayInv'
<1>1. /\ response' = response /\ read' = read /\ queuedEvents' = queuedEvents
      /\ completion' = completion /\ delivered' = delivered
  BY DEF Refused, Accepted, ResponseEnds, Catch, Finally, Pull, vars
<1>2. ReadSoFar' = ReadSoFar /\ Received' = Received
  BY <1>1, NothingRead
<1>3. TypeOK'
  BY <1>1 DEF GatewayInv, TypeOK, Refused, Accepted, ResponseEnds, Catch, Finally, Pull,
              vars, Notified
<1>4. NothingBeforeTheAnswer'
  BY <1>1 DEF GatewayInv, NothingBeforeTheAnswer, Refused, Accepted, ResponseEnds, Catch,
              Finally, Pull, vars, Notified, TypeOK
<1>5. BrokenFramesAreReported'
  BY <1>1, <1>2 DEF GatewayInv, BrokenFramesAreReported, NothingBeforeTheAnswer, Refused,
                    Accepted, ResponseEnds, Catch, Finally, Pull, vars, Notified, TypeOK
<1>6. EndsAfterTheParser'
  BY <1>1 DEF GatewayInv, EndsAfterTheParser, Ended, Refused, Accepted, ResponseEnds, Catch,
              Finally, Pull, vars, Notified, TypeOK
<1>7. NoWakeUpIsLost'
  BY <1>1 DEF GatewayInv, NoWakeUpIsLost, Refused, Accepted, ResponseEnds, Catch,
              Finally, Pull, vars, Notified, TypeOK
<1>8. Ended' => Ended \/ queuedEvents = <<>>
  BY DEF GatewayInv, NothingBeforeTheAnswer, Ended, Refused, Accepted, ResponseEnds, Catch,
         Finally, Pull, vars, Notified, TypeOK
<1>9. DeliveredInOrder'
  BY <1>1, <1>2, <1>8 DEF GatewayInv, DeliveredInOrder
<1>10. consumer' = "returned" => consumer = "returned"
  BY DEF Refused, Accepted, ResponseEnds, Catch, Finally, Pull, vars, Notified
<1>11. OutcomeIsTheWorkers'
  <2>1. consumer' = "returned" => ~parsingError'
    BY <1>6 DEF EndsAfterTheParser
  <2>2. QED BY <1>1, <1>2, <1>10, <2>1 DEF GatewayInv, OutcomeIsTheWorkers
<1>12. QED
  BY <1>3, <1>4, <1>5, <1>6, <1>7, <1>9, <1>11 DEF GatewayInv

(* Queue, flags and generator fit what was read and parsed of the response, in *)
(* every reachable state (harness-worker-client.ts:115-169).                   *)
THEOREM GatewayInvariant == Spec => []GatewayInv
<1>1. Init => GatewayInv
  BY InitEstablishesInv
<1>2. GatewayInv /\ [Next]_vars => GatewayInv'
  <2>1. SUFFICES ASSUME GatewayInv, [Next]_vars PROVE GatewayInv'
    OBVIOUS
  <2>2. CASE \E n \in 1..2 * Len(response) : ReadChunk(n)
    BY <2>1, <2>2, ReadChunkPreservesInv
  <2>3. CASE Generate
    BY <2>1, <2>3, GeneratePreservesInv
  <2>4. CASE Refused \/ Accepted \/ ResponseEnds \/ Catch \/ Finally \/ Pull \/ UNCHANGED vars
    BY <2>1, <2>4, ControlPreservesInv
  <2>5. QED BY <2>1, <2>2, <2>3, <2>4 DEF Next, Parser
<1>3. QED BY <1>1, <1>2, PTL DEF Spec

(* Every event that arrived whole is delivered exactly once, in its order and  *)
(* before the generator ends, for any response and any cut into chunks         *)
(* (harness-worker-client.ts:127-169).                                         *)
THEOREM EventsAreDeliveredInOrder == Spec => []DeliveredInOrder
<1>1. GatewayInv => DeliveredInOrder
  BY DEF GatewayInv
<1>2. QED BY <1>1, GatewayInvariant, PTL

(* A generator that returns met no frame it could not parse, and its           *)
(* completion is the worker's (harness-worker-client.ts:137-169).              *)
THEOREM OutcomeIsAlwaysTheWorkers == Spec => []OutcomeIsTheWorkers
<1>1. GatewayInv => OutcomeIsTheWorkers
  BY DEF GatewayInv
<1>2. QED BY <1>1, GatewayInvariant, PTL

(* A generator that sleeps has an empty queue and a parser still at work: the  *)
(* wake-up between the look at the queue and the wait is never lost            *)
(* (harness-worker-client.ts:121-151).                                         *)
THEOREM WakeUpsAreNotLost == Spec => []NoWakeUpIsLost
<1>1. GatewayInv => NoWakeUpIsLost
  BY DEF GatewayInv
<1>2. QED BY <1>1, GatewayInvariant, PTL
===============================================================================
