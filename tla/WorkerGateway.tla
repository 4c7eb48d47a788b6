---------------------------- MODULE WorkerGateway -----------------------------
(* harness-worker-client.ts: one execution on a remote worker.  A background   *)
(* parser reads the response in chunks, cuts it into frames and queues their   *)
(* events; the generator hands the queue to its consumer and sleeps when the   *)
(* queue is empty.  Between two awaits each of them runs alone, so a step is   *)
(* the code from one await (or yield) to the next.  A frame arrives in two     *)
(* halves, so a chunk may end inside a frame; the response may end anywhere.   *)
EXTENDS Integers, Sequences, Selection

CONSTANTS Responses,  \* the frames a worker sends, as sequences
          Events      \* frames that carry an event

(* Other frames: the completion, one that names no event or has no data, and   *)
(* one whose data is no JSON.                                                  *)
Frames == Events \cup {"completed", "comment", "broken"}

ASSUME GatewayAssumption ==
  /\ Responses \subseteq Seq(Frames)
  /\ Events \cap {"completed", "comment", "broken"} = {}

VARIABLES response,      \* what the worker sends
          read,          \* half frames read so far
          parser,        \* "reading", "failed" or "finished" (isFinished)
          queuedEvents,
          completion,    \* whether a run.completed was parsed
          parsingError,
          consumer,      \* "posting", "running", "waiting", "yielded", "returned", "threw"
          delivered      \* events the consumer was given

vars == <<response, read, parser, queuedEvents, completion, parsingError, consumer, delivered>>

Init ==
  /\ response \in Responses
  /\ read = 0
  /\ parser = "reading"
  /\ queuedEvents = <<>>
  /\ completion = FALSE
  /\ parsingError = FALSE
  /\ consumer = "posting"
  /\ delivered = <<>>

-------------------------------------------------------------------------------
(* The frames completed by a read that takes the halves up to n.               *)
Completed(n) == SubSeq(response, (read \div 2) + 1, n \div 2)

(* onEvent runs for the frames before the first broken one.                    *)
Parsed(frames) ==
  LET good == {i \in 1..Len(frames) : \A j \in 1..i : frames[j] # "broken"}
  IN  [i \in good |-> frames[i]]

HasFrame(frames, frame) == \E i \in 1..Len(frames) : frames[i] = frame

\* notify?.(): a consumer that waits goes on.
Notified == IF consumer = "waiting" THEN "running" ELSE consumer

-------------------------------------------------------------------------------
(* POST: an answer that is not ok is thrown before anything is parsed.         *)
Refused ==
  /\ consumer = "posting"
  /\ consumer' = "threw"
  /\ parser' = "finished"
  /\ UNCHANGED <<response, read, queuedEvents, completion, parsingError, delivered>>

Accepted ==
  /\ consumer = "posting"
  /\ consumer' = "running"
  /\ UNCHANGED <<response, read, parser, queuedEvents, completion, parsingError, delivered>>

\* Mutant: a chunk is cut into frames without what the last one left over.
ReadChunkDropsRest(n) ==
  LET frames == Parsed(SubSeq(response, ((read + 1) \div 2) + 1, n \div 2)) IN
  /\ consumer # "posting" /\ parser = "reading"
  /\ n > read
  /\ read' = n
  /\ queuedEvents' = queuedEvents \o Select(frames, Events)
  /\ completion' = (completion \/ HasFrame(frames, "completed"))
  /\ consumer' = IF HasFrame(frames, "completed") \/ Select(frames, Events) # <<>>
                 THEN Notified ELSE consumer
  /\ parser' = IF HasFrame(Completed(n), "broken") THEN "failed" ELSE "reading"
  /\ UNCHANGED <<response, parsingError, delivered>>

(* One chunk, up to the half frame n; its frames are parsed without a pause,   *)
(* until one of them does not parse.                                           *)
ReadChunk(n) ==
  LET frames == Parsed(Completed(n)) IN
  /\ consumer # "posting" /\ parser = "reading"
  /\ n > read
  /\ read' = n
  /\ queuedEvents' = queuedEvents \o Select(frames, Events)
  /\ completion' = (completion \/ HasFrame(frames, "completed"))
  /\ consumer' = IF HasFrame(frames, "completed") \/ Select(frames, Events) # <<>>
                 THEN Notified ELSE consumer
  /\ parser' = IF HasFrame(Completed(n), "broken") THEN "failed" ELSE "reading"
  /\ UNCHANGED <<response, parsingError, delivered>>

(* The response ends, or the read fails, wherever it is.                       *)
ResponseEnds ==
  /\ consumer # "posting" /\ parser = "reading"
  /\ parser' \in {"ending", "failed"}
  /\ UNCHANGED <<response, read, queuedEvents, completion, parsingError, consumer, delivered>>

\* Mutant: the error of the parser is logged and forgotten.
CatchSilently ==
  /\ parser = "failed"
  /\ parser' = "ending"
  /\ UNCHANGED <<response, read, queuedEvents, completion, parsingError, consumer, delivered>>

Catch ==
  /\ parser = "failed"
  /\ parser' = "ending"
  /\ parsingError' = TRUE
  /\ UNCHANGED <<response, read, queuedEvents, completion, consumer, delivered>>

\* Mutant: the end is not announced.
FinallySilent ==
  /\ parser = "ending"
  /\ parser' = "finished"
  /\ UNCHANGED <<response, read, queuedEvents, completion, parsingError, consumer, delivered>>

Finally ==
  /\ parser = "ending"
  /\ parser' = "finished"
  /\ consumer' = Notified
  /\ UNCHANGED <<response, read, queuedEvents, completion, parsingError, delivered>>

-------------------------------------------------------------------------------
(* The generator's loop, up to its next wait or yield, or to its end.          *)
Generate ==
  /\ consumer = "running"
  /\ IF queuedEvents # <<>>
     THEN /\ consumer' = "yielded"
          /\ delivered' = Append(delivered, Head(queuedEvents))
          /\ queuedEvents' = Tail(queuedEvents)
     ELSE /\ consumer' = IF parser # "finished" THEN "waiting"
                         ELSE IF parsingError THEN "threw" ELSE "returned"
          /\ UNCHANGED <<delivered, queuedEvents>>
  /\ UNCHANGED <<response, read, parser, completion, parsingError>>

(* The caller, consumeRun, asks for the next event.                            *)
Pull ==
  /\ consumer = "yielded"
  /\ consumer' = "running"
  /\ UNCHANGED <<response, read, parser, queuedEvents, completion, parsingError, delivered>>

Parser ==
  \/ \E n \in 1..2 * Len(response) : ReadChunk(n)
  \/ ResponseEnds
  \/ Catch
  \/ Finally

Next ==
  \/ Refused
  \/ Accepted
  \/ Parser
  \/ Generate
  \/ Pull

(* The worker answers and ends its response or the connection fails; the       *)
(* caller keeps asking.                                                        *)
Spec ==
  /\ Init /\ [][Next]_vars
  /\ WF_vars(Refused \/ Accepted) /\ WF_vars(Parser) /\ WF_vars(Generate) /\ WF_vars(Pull)

-------------------------------------------------------------------------------
(* Properties.                                                                 *)

Ended == consumer \in {"returned", "threw"}

(* What was read whole, cut at the first frame that does not parse.            *)
Received == Parsed(SubSeq(response, 1, read \div 2))

(* Every event that arrived whole is delivered exactly once and in its order,  *)
(* however the chunks fall, and none is left in the queue when the generator   *)
(* returns or throws (harness-worker-client.ts:127-169).                       *)
DeliveredInOrder ==
  /\ delivered \o queuedEvents = Select(Received, Events)
  /\ Ended => queuedEvents = <<>>

(* A generator that returns met no frame it could not parse, even one that     *)
(* came after all the events it delivered, and the completion it returns is    *)
(* the worker's (harness-worker-client.ts:137-169).                            *)
OutcomeIsTheWorkers ==
  /\ consumer = "returned" => ~parsingError /\ ~HasFrame(SubSeq(response, 1, read \div 2), "broken")
  /\ completion <=> HasFrame(Received, "completed")

(* The generator comes to an end: no wake-up is lost between its look at the   *)
(* queue and its wait.                                                         *)
ExecutionEnds == <>Ended
===============================================================================
