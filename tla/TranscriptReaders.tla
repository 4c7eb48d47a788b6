-------------------------- MODULE TranscriptReaders --------------------------
(***************************************************************************)
(* How GET /sessions/:sessionId turns a log into entries: the reader of    *)
(* pi's session file (and of the mock executor's records in the same       *)
(* place) and the reader of the host's copy of a sandbox's events.  Both   *)
(* read the records in order and carry a view of what they have seen so    *)
(* far: ReadPiRecord and ReadHostEvent take it one record further.         *)
(*                                                                         *)
(* Ids are tuples that start with the prefix the code gives them, Null is  *)
(* the empty one.  A text is the sequence of its pieces, each the turn     *)
(* that produced it; a call is <<turn, number>>.                           *)
(***************************************************************************)
EXTENDS Naturals, Sequences, SequencesExt, Selection

Null == <<>>

Entry(id, parent, type, content) ==
  [id |-> id, parent |-> parent, type |-> type, content |-> content]

Text(pieces) == <<"text", pieces>>

ToolCall(call, status) == <<"tool_call", call, status>>

-----------------------------------------------------------------------------
(* pi's session file *)

Only(content, types) == Select(content, {item \in ToSet(content) : item[1] \in types})

ToUserContent(content) ==
  LET shown == Only(content, {"text", "image"})
  IN [i \in 1..Len(shown) |-> <<shown[i][1], <<shown[i][2]>>>>]

ToProcessContent(content) ==
  LET thoughts == Only(content, {"thinking"})
  IN [i \in 1..Len(thoughts) |-> Text(<<thoughts[i][2]>>)]

TextOf(content) ==
  LET texts == Only(content, {"text"})
  IN [i \in 1..Len(texts) |-> texts[i][2]]

ToAssistantText(content) == <<Text(TextOf(content))>>

\* The text before the first tool call.
ToAssistantPreamble(content) ==
  LET calls == {i \in 1..Len(content) : content[i][1] = "toolCall"}
      before == IF calls = {} THEN Len(content) ELSE Min(calls) - 1
      preamble == TextOf(SubSeq(content, 1, before))
  IN IF preamble = <<>> THEN <<>> ELSE <<Text(preamble)>>

ToToolCallContent(content) ==
  LET calls == Only(content, {"toolCall"})
  IN [i \in 1..Len(calls) |-> ToolCall(calls[i][2], "started")]

(* The view under construction: the entries, and which entry a message of  *)
(* pi became, as a reply or a question and as a process.                   *)
PiView(entries, platform, process) ==
  [entries |-> entries, platform |-> platform, process |-> process]

NothingRead == PiView(<<>>, <<>>, <<>>)

Known(map, id) == id # Null /\ id \in DOMAIN map

Lookup(map, id) == IF Known(map, id) THEN map[id] ELSE Null

With(map, id, entry) ==
  [i \in DOMAIN map \cup {id} |-> IF i = id THEN entry ELSE map[i]]

ReadManagedEntry(view, e) ==
  IF e.type # "user" /\ e.parent = Null
  THEN view
  ELSE PiView(Append(view.entries, Entry(e.id, e.parent, e.type,
                                         Only(e.content, {"text", "tool_call"}))),
              view.platform, view.process)

ReadUser(view, m) ==
  LET id == <<"pi_user", m.id>>
  IN PiView(Append(view.entries, Entry(id, Lookup(view.platform, m.parent), "user",
                                       ToUserContent(m.content))),
            With(view.platform, m.id, id), view.process)

AddItem(entries, id, item) ==
  LET at == CHOOSE i \in 1..Len(entries) : entries[i].id = id
  IN [entries EXCEPT ![at].content = Append(@, item)]

\* Mutant: a second result finds no process any more.
ReadToolResultUnchained(view, m) ==
  IF ~Known(view.process, m.parent)
  THEN view
  ELSE PiView(AddItem(view.entries, view.process[m.parent],
                      ToolCall(m.call, IF m.isError THEN "error" ELSE "completed")),
              view.platform, view.process)

ReadToolResult(view, m) ==
  IF ~Known(view.process, m.parent)
  THEN view
  ELSE PiView(AddItem(view.entries, view.process[m.parent],
                      ToolCall(m.call, IF m.isError THEN "error" ELSE "completed")),
              view.platform, With(view.process, m.id, view.process[m.parent]))

\* Mutant: a later round of tool calls is not tied to the one before.
ParentOfProcessUnchained(view, m) ==
  IF Known(view.platform, m.parent)
  THEN view.platform[m.parent]
  ELSE <<"pi_orphan", m.id>>

\* Mutant: a process hangs off the last entry above it, not the one its message names.
ParentOfProcessAbove(view, m) ==
  IF view.entries = <<>> THEN <<"pi_orphan", m.id>> ELSE Last(view.entries).id

ParentOfProcess(view, m) ==
  IF Known(view.platform, m.parent)
  THEN view.platform[m.parent]
  ELSE IF Known(view.process, m.parent)
       THEN view.process[m.parent]
       ELSE <<"pi_orphan", m.id>>

ReadToolUse(view, m) ==
  LET id == <<"pi_process", m.id>>
  IN PiView(Append(view.entries, Entry(id, ParentOfProcess(view, m), "process",
                     ToProcessContent(m.content) \o ToAssistantPreamble(m.content)
                       \o ToToolCallContent(m.content))),
            view.platform, With(view.process, m.id, id))

ReadReply(view, m) ==
  LET process == <<"pi_process", m.id>>
      id == <<"pi_assistant", m.id>>
      reply(parent) == Entry(id, parent, "assistant", ToAssistantText(m.content))
  IN PiView(IF Known(view.process, m.parent)
            THEN Append(view.entries, reply(view.process[m.parent]))
            ELSE Append(Append(view.entries, Entry(process, ParentOfProcess(view, m),
                                                   "process", ToProcessContent(m.content))),
                        reply(process)),
            With(view.platform, m.id, id), view.process)

ReadPiRecord(view, r) ==
  CASE r.type = "managed_entry" -> ReadManagedEntry(view, r.entry)
    [] r.type = "message" /\ r.role = "user" -> ReadUser(view, r)
    [] r.type = "message" /\ r.role = "toolResult" -> ReadToolResult(view, r)
    [] r.type = "message" /\ r.role = "assistant" ->
         IF r.stopReason = "toolUse" THEN ReadToolUse(view, r) ELSE ReadReply(view, r)
    [] OTHER -> view

PiEntries(view) ==
  Select(view.entries,
         {e \in ToSet(view.entries) : ~(e.type = "process" /\ e.parent[1] = "pi_orphan")})

-----------------------------------------------------------------------------
(* the host's copy of a sandbox's events *)

\* Each of user, process and assistant holds the entry of the current turn, if any.
HostView(entries, user, process, assistant) ==
  [entries |-> entries, user |-> user, process |-> process, assistant |-> assistant]

NoTurn == HostView(<<>>, <<>>, <<>>, <<>>)

\* A reply without a text is not written.
Written(assistant) ==
  IF assistant # <<>> /\ assistant[1].content = <<Text(<<>>)>> THEN <<>> ELSE assistant

FlushCurrentTurn(view) ==
  HostView(view.entries \o view.user \o view.process \o Written(view.assistant),
           <<>>, <<>>, <<>>)

OrElse(given, default) == IF given = Null THEN default ELSE given

EnsureProcessEntry(view, data) ==
  IF view.process # <<>>
  THEN view
  ELSE LET parent == IF view.user = <<>> THEN <<"orphan">> ELSE view.user[1].id
       IN HostView(view.entries, view.user,
                   <<Entry(OrElse(data.id, <<"sp", Len(view.entries)>>),
                           OrElse(data.parent, parent), "process", <<>>)>>,
                   view.assistant)

\* Mutant: a reply brings no process entry with it.
EnsureAssistantEntryAlone(view, data) ==
  IF view.assistant # <<>>
  THEN view
  ELSE HostView(view.entries, view.user, view.process,
                <<Entry(data.id, data.parent, "assistant", <<Text(<<>>)>>)>>)

EnsureAssistantEntry(view, data) ==
  IF view.assistant # <<>>
  THEN view
  ELSE LET seen == EnsureProcessEntry(view, data)
       IN HostView(seen.entries, seen.user, seen.process,
                   <<Entry(OrElse(data.id, <<"sa", Len(view.entries)>>),
                           OrElse(data.parent, seen.process[1].id), "assistant",
                           <<Text(<<>>)>>)>>)

\* Mutant: only final.output.completed ends a turn.
ReadUserEntryUnflushed(view, event) ==
  HostView(view.entries, <<Entry(event.id, event.parent, "user", <<Text(event.text)>>)>>,
           view.process, view.assistant)

ReadUserEntry(view, event) ==
  LET seen == FlushCurrentTurn(view)
      last == IF seen.entries = <<>> THEN Null ELSE Last(seen.entries).id
  IN HostView(seen.entries,
              <<Entry(OrElse(event.id, <<"su", Len(seen.entries)>>),
                      OrElse(event.parent, last), "user", <<Text(event.text)>>)>>,
              <<>>, <<>>)

ReadProcessItem(view, event, item) ==
  LET seen == EnsureProcessEntry(view, event)
      entry == seen.process[1]
  IN HostView(seen.entries, seen.user,
              <<[entry EXCEPT !.content = Append(@, item)]>>, seen.assistant)

StatusOf(type) ==
  CASE type = "action.started" -> "started"
    [] type = "action.completed" -> "completed"
    [] type = "action.failed" -> "error"

\* The view with the text of its reply replaced.
Rewritten(view, text) ==
  LET entry == view.assistant[1]
  IN HostView(view.entries, view.user, view.process,
              <<[entry EXCEPT !.content = <<Text(text)>>]>>)

TextSoFar(view) == view.assistant[1].content[1][2]

ReadOutput(view, event) ==
  LET seen == EnsureAssistantEntry(view, event)
  IN Rewritten(seen, TextSoFar(seen) \o event.text)

ReadFailure(view, event) ==
  LET seen == EnsureAssistantEntry(view, event)
  IN FlushCurrentTurn(IF TextSoFar(seen) = <<>> THEN Rewritten(seen, event.text) ELSE seen)

ReadHostEvent(view, event) ==
  CASE event.type = "user_entry" -> ReadUserEntry(view, event)
    [] event.type = "process.delta" -> ReadProcessItem(view, event, Text(event.text))
    [] event.type \in {"action.started", "action.completed", "action.failed"} ->
         ReadProcessItem(view, event, ToolCall(event.call, StatusOf(event.type)))
    [] event.type = "final.output.delta" -> ReadOutput(view, event)
    [] event.type = "run.failed" -> ReadFailure(view, event)
    [] event.type = "final.output.completed" -> FlushCurrentTurn(view)
    [] OTHER -> view

HostEntries(view) == FlushCurrentTurn(view).entries

=============================================================================
