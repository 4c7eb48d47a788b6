----------------------------- MODULE Transcripts -----------------------------
(***************************************************************************)
(* A session's transcript over its runs, one at a time: what the runtime   *)
(* and the harness in it write (pi's session file, the mock executor's     *)
(* records, the host's copy of a sandbox's events) while the detail of the *)
(* session is read.  A run may stop at any moment: cancelled, failed, or   *)
(* dead with its pod or its server.  Nobody tells its harness: pi may go   *)
(* on writing beside the harnesses of later runs.  A file is seen line by  *)
(* line, and a line being written when its run stops is there before the   *)
(* next run starts.                                                        *)
(*                                                                         *)
(* pi and the claude CLI are external: what they write is taken from the   *)
(* adapters and the readers that consume it.                               *)
(***************************************************************************)
EXTENDS TranscriptReaders, FiniteSets

CONSTANTS MaxTurns,   \* how often the session is prompted
          MaxSteps,   \* how many rounds of tools, changes of settings or claude events
                      \* its runs take together
          MaxCalls,   \* how many tools one round calls
          MaxRecords  \* how many lines pi writes into one session file

ASSUME BoundsAssumption ==
  MaxTurns \in Nat /\ MaxSteps \in Nat /\ MaxCalls \in Nat \ {0} /\ MaxRecords \in Nat

VARIABLES
  runtime,   \* [executor, adapter, shared]: is the runtime's session file on the host?
  pc,        \* is a run under way, or done?
  turn,      \* the number of the last prompt
  parent,    \* the entry its user entry hangs off
  steps,     \* what the harnesses may still do
  harness,   \* the harness of each turn, of the last run and of those left behind
  buffered,  \* the events the pi adapter holds back until the prompt is answered
  session,   \* pi's session file
  view,      \* what its reader makes of it
  recorded,  \* does the session row name it?
  host       \* what the reader makes of the host's copy of the sandbox's events

vars == <<runtime, pc, turn, parent, steps, harness, buffered, session, view, recorded,
          host>>
run == <<runtime, pc, turn, parent, recorded, host>>
files == <<session, view, host>>

\* Where it stands, the last entry of the session as it knows it, and its tool calls
\* without a result.
Harness(at, leaf, open) == [at |-> at, leaf |-> leaf, open |-> open]
NoHarness == Harness("none", Null, {})

Runtimes == [executor : {"sandbox"}, adapter : {"pi", "claude-code"}, shared : BOOLEAN]
  \cup [executor : {"pi"}, adapter : {"pi", "claude-code"}, shared : {TRUE}]
  \cup [executor : {"mock"}, adapter : {"none"}, shared : {TRUE}]

Adapter(name) == runtime.adapter = name

Init ==
  /\ runtime \in Runtimes
  /\ pc = "idle"
  /\ turn = 0
  /\ parent = Null
  /\ steps = MaxSteps
  /\ harness = [w \in 1..MaxTurns |-> NoHarness]
  /\ buffered = <<>>
  /\ session = <<>>
  /\ view = NothingRead
  /\ recorded = FALSE
  /\ host = NoTurn

\* The entries of getSession.
FromSession == IF recorded /\ runtime.shared THEN PiEntries(view) ELSE <<>>

Shown == IF FromSession # <<>> THEN FromSession ELSE HostEntries(host)

-----------------------------------------------------------------------------
(* the run's entries and the events that refer to them *)

UserId    == <<"entry", turn, "user">>
ProcessId == <<"entry", turn, "process">>
FinalId   == <<"entry", turn, "assistant">>

HarnessEvent(type, call) == [type |-> type, call |-> call]

(* The line the entrypoint prints for an event of the adapter, and the     *)
(* sandbox executor copies to the host.                                    *)
HostEvent(event) ==
  CASE event.type = "text_delta" ->
         [type |-> "final.output.delta", id |-> FinalId, parent |-> ProcessId, text |-> <<turn>>]
    [] event.type = "tool_start" ->
         [type |-> "action.started", id |-> ProcessId, parent |-> UserId, call |-> event.call]
    [] event.type = "tool_end" ->
         [type |-> "action.completed", id |-> ProcessId, parent |-> UserId, call |-> event.call]
    [] event.type = "tool_error" ->
         [type |-> "action.failed", id |-> ProcessId, parent |-> UserId, call |-> event.call]
    [] event.type = "agent_end" ->
         [type |-> "final.output.completed", id |-> FinalId]

Copied(event) ==
  IF runtime.executor = "sandbox" THEN ReadHostEvent(host, HostEvent(event)) ELSE host

(* A file is read from its start every time, which comes to the same as    *)
(* reading on from the view of what was there before.                      *)
Note(record) ==
  /\ session' = Append(session, record)
  /\ view' = ReadPiRecord(view, record)

(* submitMessage, up to the first step of the executor.  A session file    *)
(* the row does not name is not opened again: pi starts a new one, apart   *)
(* from any that is still written, the mock executor overwrites its own.   *)
SubmitMessage ==
  /\ pc = "idle"
  /\ turn < MaxTurns
  /\ turn' = turn + 1
  /\ parent' = (IF Shown = <<>> THEN Null ELSE Last(Shown).id)
  /\ host' = (IF runtime.executor = "sandbox"
              THEN ReadHostEvent(host, [type |-> "user_entry", id |-> UserId',
                                        parent |-> parent', text |-> <<turn'>>])
              ELSE host)
  /\ session' = (IF recorded THEN session ELSE <<>>)
  /\ view' = (IF recorded THEN view ELSE NothingRead)
  /\ pc' = "running"
  /\ harness' = [w \in 1..MaxTurns |->
                   IF w = turn' THEN Harness("opening", Null, {})
                   ELSE IF recorded THEN harness[w] ELSE NoHarness]
  /\ UNCHANGED <<runtime, steps, buffered, recorded>>

-----------------------------------------------------------------------------
(* the pi adapter: the harness of turn w, whether its run goes on or not   *)

Pi(w, places) == Adapter("pi") /\ harness[w].at \in places

\* The id a record gets, by its place in the file and the turn of its writer.
NextId(w) == <<"msg", Len(session) + 1, w>>

\* pi chains its entries in memory, whatever else is in the file by now.
Writes(w, record, at, open) ==
  /\ Len(session) < MaxRecords
  /\ Note(record)
  /\ harness' = [harness EXCEPT ![w] = Harness(at, record.id, open)]

Message(w, role, content) ==
  [type |-> "message", id |-> NextId(w), parent |-> harness[w].leaf,
   role |-> role, content |-> content, stopReason |-> "stop"]

\* The adapter of a run that stopped is not asked for its events any more.
Buffers(w, events) ==
  buffered' = IF w = turn /\ pc = "running" THEN buffered \o events ELSE buffered

PiOpensSession(w) ==
  /\ Pi(w, {"opening"})
  /\ harness' = [harness EXCEPT ![w] =
       Harness("opened", IF session = <<>> THEN Null ELSE Last(session).id, {})]
  /\ UNCHANGED <<run, steps, buffered, session, view>>

\* pi notes a change of its settings before it notes the prompt.
PiChangesSettings(w) ==
  /\ Pi(w, {"opened"}) /\ steps > 0
  /\ Writes(w, [type |-> "model_change", id |-> NextId(w)], "configured", {})
  /\ steps' = steps - 1
  /\ UNCHANGED <<run, buffered>>

PiAcceptsPrompt(w) ==
  /\ Pi(w, {"opened", "configured"})
  /\ Writes(w, Message(w, "user", <<<<"text", w>>, <<"image", w>>>>), "prompting", {})
  /\ UNCHANGED <<run, steps, buffered>>

CallsOf(w, n) == {<<w, steps, i>> : i \in 1..n}

PiCallsTools(w) ==
  /\ Pi(w, {"prompting"}) /\ harness[w].open = {} /\ steps > 0
  /\ \E n \in 1..MaxCalls, preamble \in BOOLEAN :
       LET said == IF preamble THEN <<<<"text", w>>>> ELSE <<>>
           calls == [i \in 1..n |-> <<w, steps, i>>]
       IN /\ Writes(w,
               [Message(w, "assistant", <<<<"thinking", w>>>> \o said
                  \o [i \in 1..n |-> <<"toolCall", calls[i]>>])
                EXCEPT !.stopReason = "toolUse"],
               "prompting", CallsOf(w, n))
          /\ Buffers(w,
               (IF preamble THEN <<HarnessEvent("text_delta", Null)>> ELSE <<>>)
               \o [i \in 1..n |-> HarnessEvent("tool_start", calls[i])])
  /\ steps' = steps - 1
  /\ UNCHANGED run

\* The first tool of a round does its work, the others fail.
IsError(call) == call[3] # 1

PiToolEnds(w) ==
  /\ Pi(w, {"prompting"})
  /\ \E call \in harness[w].open :
       /\ Writes(w, [type |-> "message", id |-> NextId(w), parent |-> harness[w].leaf,
                     role |-> "toolResult", call |-> call, isError |-> IsError(call)],
                 "prompting", harness[w].open \ {call})
       /\ Buffers(w, <<HarnessEvent(IF IsError(call) THEN "tool_error" ELSE "tool_end",
                                    call)>>)
  /\ UNCHANGED <<run, steps>>

\* The reply is empty when the model's call failed or was aborted.
PiReplies(w) ==
  /\ Pi(w, {"prompting"}) /\ harness[w].open = {}
  /\ \E empty \in BOOLEAN :
       /\ Writes(w, Message(w, "assistant",
                    IF empty THEN <<>> ELSE <<<<"thinking", w>>, <<"text", w>>>>),
                 "answered", {})
       /\ Buffers(w, IF empty THEN <<>> ELSE <<HarnessEvent("text_delta", Null)>>)
  /\ UNCHANGED <<run, steps>>

At(place) == pc = "running" /\ harness[turn].at = place

\* Once the prompt is answered the events come out, one at a time.
PiAdapterYields ==
  /\ At("answered") /\ Adapter("pi")
  /\ buffered # <<>>
  /\ host' = Copied(Head(buffered))
  /\ buffered' = Tail(buffered)
  /\ UNCHANGED <<runtime, pc, turn, parent, steps, harness, session, view, recorded>>

-----------------------------------------------------------------------------
(* the claude-code adapter: its events come out as the CLI prints them     *)

Claude(place, next, open) ==
  /\ At(place) /\ Adapter("claude-code")
  /\ harness' = [harness EXCEPT ![turn] = Harness(next, Null, open)]
  /\ UNCHANGED <<runtime, pc, turn, parent, buffered, session, view, recorded>>

ClaudeStarts == Claude("opening", "prompting", {}) /\ UNCHANGED <<steps, host>>

ClaudeYields(event, open) ==
  /\ Claude("prompting", "prompting", open)
  /\ host' = Copied(event)

ClaudeWrites ==
  /\ steps > 0 /\ steps' = steps - 1
  /\ ClaudeYields(HarnessEvent("text_delta", Null), harness[turn].open)

ClaudeCallsTool ==
  /\ steps > 0 /\ steps' = steps - 1
  /\ ClaudeYields(HarnessEvent("tool_start", <<turn, steps, 1>>),
                  harness[turn].open \cup {<<turn, steps, 1>>})

ClaudeToolEnds ==
  /\ pc = "running"
  /\ \E call \in harness[turn].open, type \in {"tool_end", "tool_error"} :
       ClaudeYields(HarnessEvent(type, call), harness[turn].open \ {call})
  /\ UNCHANGED steps

ClaudeExits == Claude("prompting", "answered", {}) /\ UNCHANGED <<steps, host>>

-----------------------------------------------------------------------------
(* the mock executor: its records (and a header no reader heeds), in one write that *)
(* no cancel of the run overtakes                                                   *)

ManagedEntry(id, above, type) ==
  [type |-> "managed_entry",
   entry |-> Entry(id, above, type, <<<<"text", <<turn>>>>>>)]

MockEntries == <<ManagedEntry(UserId, parent, "user"),
                 ManagedEntry(ProcessId, UserId, "process"),
                 ManagedEntry(FinalId, ProcessId, "assistant")>>

WriteMockTranscript ==
  /\ At("opening") /\ runtime.executor = "mock"
  /\ session' = session \o MockEntries
  /\ view' = ReadPiRecord(ReadPiRecord(ReadPiRecord(view, MockEntries[1]),
                                       MockEntries[2]), MockEntries[3])
  /\ pc' = "done"
  /\ UNCHANGED <<runtime, turn, parent, steps, harness, buffered, recorded, host>>

-----------------------------------------------------------------------------

AgentEnds ==
  /\ At("answered") /\ buffered = <<>>
  /\ host' = Copied(HarnessEvent("agent_end", Null))
  /\ pc' = "done"
  /\ UNCHANGED <<runtime, turn, parent, steps, harness, buffered, session, view, recorded>>

\* The service stores the completion's session file, when it has one.
RunCompletes ==
  /\ pc = "done"
  /\ pc' = "idle"
  /\ recorded' = (recorded \/ ~Adapter("claude-code"))
  /\ UNCHANGED <<runtime, turn, parent, steps, harness, buffered, files>>

(* A run that is cancelled, fails or dies.  The service drops the iterator *)
(* it read the events from, and takes none after the one that made it      *)
(* stop: none is copied any more.  The harness goes on with its prompt, in *)
(* this process or in a pod that stays, unless it is dead, too.            *)
RunStops ==
  /\ pc # "idle"
  /\ pc' = "idle"
  /\ buffered' = <<>>
  /\ UNCHANGED <<runtime, turn, parent, steps, harness, files, recorded>>

Next ==
  \/ SubmitMessage
  \/ \E w \in 1..MaxTurns :
       \/ PiOpensSession(w) \/ PiChangesSettings(w) \/ PiAcceptsPrompt(w)
       \/ PiCallsTools(w) \/ PiToolEnds(w) \/ PiReplies(w)
  \/ PiAdapterYields
  \/ ClaudeStarts \/ ClaudeWrites \/ ClaudeCallsTool \/ ClaudeToolEnds \/ ClaudeExits
  \/ WriteMockTranscript
  \/ AgentEnds \/ RunCompletes \/ RunStops

Spec == Init /\ [][Next]_vars

-----------------------------------------------------------------------------
TurnsIn(item) == IF item[1] = "tool_call" THEN {item[2][1]} ELSE ToSet(item[2])

QuestionBefore(entries, i) ==
  LET questions == {j \in 1..i : entries[j].type = "user"}
  IN entries[CHOOSE j \in questions : \A k \in questions : k <= j].content[1][2]

(* Turn order: the questions come in the order they were asked, and every  *)
(* thought, tool call and reply shown after a question belongs to it.      *)
InTurnOrder(entries) ==
  \A i \in 1..Len(entries) :
    /\ \E j \in 1..i : entries[j].type = "user"
    /\ \A k \in 1..Len(entries[i].content) :
         TurnsIn(entries[i].content[k]) \subseteq ToSet(QuestionBefore(entries, i))
    /\ \A j \in 1..(i - 1) :
         entries[i].type = "user" /\ entries[j].type = "user"
           => entries[j].content[1][2][1] < entries[i].content[1][2][1]

(* The host's copy of a sandbox's events, and what the mock executor wrote, *)
(* keep the turn order, wherever the runs before stopped.                   *)
TurnOrderIsKept ==
  /\ InTurnOrder(HostEntries(host))
  /\ runtime.executor = "mock" => InTurnOrder(PiEntries(view))

\* The turn of the message of pi an entry was made from.
WriterOf(entry) == entry.id[2][3]

(* pi's file does not: a harness that goes on after its run was cancelled   *)
(* writes between the lines of the next.  But whatever several of them      *)
(* write, an entry holds thoughts, tool calls and text of one turn only,    *)
(* and hangs off an earlier entry of that turn unless it is the question:   *)
(* the chain a front end follows (api-interface-draft.zh-CN.md:225-230)     *)
(* leads from every reply to the question it answers.                       *)
RepliesReachTheirQuestion ==
  Adapter("pi") =>
    LET entries == PiEntries(view) IN
    \A i \in 1..Len(entries) :
      /\ \A k \in 1..Len(entries[i].content) :
           TurnsIn(entries[i].content[k]) \subseteq {WriterOf(entries[i])}
      /\ entries[i].type # "user" =>
           \E j \in 1..(i - 1) : /\ entries[j].id = entries[i].parent
                                 /\ WriterOf(entries[j]) = WriterOf(entries[i])

(* Tree: no id is shown twice, a question has no parent or one above it,   *)
(* everything else hangs off an entry above it, so that the front end can  *)
(* follow the chain from a question to its reply.                          *)
IsTree(entries) ==
  \A i \in 1..Len(entries) :
    LET above == {entries[j].id : j \in 1..(i - 1)}
    IN /\ entries[i].id \notin above
       /\ entries[i].parent \in above \cup (IF entries[i].type = "user" THEN {Null} ELSE {})

(* However many rounds of tools, stopped runs and harnesses left behind    *)
(* pi's file holds, its entries form a tree.                               *)
PiEntriesFormATree == Adapter("pi") => IsTree(PiEntries(view))

(* Every result pi noted is shown in the process that started its call,    *)
(* after the start.                                                        *)
ResultsJoinTheirCalls ==
  Adapter("pi") =>
    LET entries == PiEntries(view) IN
    \A n \in 1..Len(session) :
      session[n].type = "message" /\ session[n].role = "toolResult" =>
        \E e \in ToSet(entries) :
          \E i, j \in 1..Len(e.content) :
            /\ i < j
            /\ e.content[i] = ToolCall(session[n].call, "started")
            /\ e.content[j] \in {ToolCall(session[n].call, status) : status \in {"completed", "error"}}

Source == IF FromSession # <<>> THEN "session" ELSE "host"

\* An entry only gains items, an assistant's text only pieces.
Extends(content, later) ==
  /\ Len(content) <= Len(later)
  /\ \A i \in 1..Len(content) :
       \/ later[i] = content[i]
       \/ /\ content[i][1] = "text" /\ later[i][1] = "text"
          /\ IsPrefix(content[i][2], later[i][2])

\* Entries keep their place, their id and their parent.
Grows(entries, later) ==
  /\ Len(entries) <= Len(later)
  /\ \A i \in 1..Len(entries) :
       /\ entries[i].id = later[i].id
       /\ entries[i].parent = later[i].parent
       /\ Extends(entries[i].content, later[i].content)

(* A reader who polls sees the transcript only grow: what was shown stays  *)
(* where it was and under its id, as long as it comes from the same file.  *)
ShownOnlyGrows ==
  [][Source = Source' =>
       \A entries \in {Shown}, later \in {Shown'} : Grows(entries, later)]_<<view, recorded, host>>

=============================================================================
