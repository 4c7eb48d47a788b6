# A TLA+ model of managed-agent

`managed-agent` runs coding agents behind an HTTP API.  A client creates a
*session* with a first prompt and gets the events of the *run* it starts as an
SSE stream; later messages start further runs in the same session.  A run is
executed in the server process or in a Kubernetes pod.  Rows, recent lists,
accounts, provider configurations and audit records live in PostgreSQL; the
registry of active runs and the OAuth flows live in memory only; transcripts
are files.

This directory holds the specifications of its stateful parts, the TLC
configurations that check them, and the TLAPS proofs about them.  Paths are
relative to the repository's root; `API/` abbreviates
`apps/managed-agent-api/src/`, `SESSION/` `API/control-plane/session/`, `LLM/`
`API/control-plane/llm-provider/` and `DRAFT`
`docs/interfaces/api-interface-draft.zh-CN.md`.

## Inventory

| Component | State | Operations | Talks to | Hard behaviour | What makes it correct |
|---|---|---|---|---|---|
| Session service, `SESSION/managed-session-service.ts` | locals of pending requests | createSession, submitMessage (consumeRun), updateSessionName, archiveSession, cancelSession, getSessionStatus | all of the next five, executor | every request is a chain of awaits; a record read at the start is written back at the end, minutes later; failing calls in try, catch and between | the status follows a life cycle, archives are final, every stream ends, nothing a client was told is undone |
| Active-session registry, `active-session-registry.ts` | map from session to one cancel closure | markActive, markIdle, isActive, cancel | closures write to responses | keyed by session while runs of a session may overlap; lost in a crash | an entry belongs to a live run |
| Session repository, `repositories/postgres-session-repository.ts` | sessions table, user_sessions projection | createSession, getSession, updateSession, listUserSessions | PostgreSQL, transcript readers | table and projection in one transaction from a possibly stale record; calls that fail after they took effect; keyset pages over rows that move | visible sessions are listed; a walk through the pages misses nothing that stood still and repeats nothing |
| Audit, `API/control-plane/audit` | append-only table | record, list | PostgreSQL | written before what it records, by separate calls | never behind the table |
| Event streams, `event-publisher.ts`, `API/channel/web-api/sse` | one raw HTTP response per run | hijack, open, publish, close | client | written by the run and by the cancel closure | `RunStream` |
| Sandbox scheduler and executor, `API/harness-worker/scheduler.ts`, `sandbox-executor.ts` | locals of two nested generators; pod and ConfigMap in the cluster; host transcript | run, log polling, phase polling, clean-up | Kubernetes API, consumer | positions in a log that is read anew each time, partial reads, rotation, error texts that count as lines, abandoned generators, lost pods | every event once and in order, a run returns at sandbox.done only, nothing is left in the cluster |
| Harness entrypoint and adapters, `apps/harness/src` | log (stdout), session file of pi | run | agent SDK or CLI | killed at any time, exits by a status; the pi adapter holds its events back, the CLI adapter does not | sandbox.done last, and only on success; events of a turn stay with it |
| In-process executors, `pi-executor.ts`, `mock-executor.ts`, `runtime-selector.ts` | session files | run | adapters | a run stopped half-way leaves a half-written file | the transcript stays readable |
| Remote worker gateway, `harness-worker-client.ts` | queue between an SSE parser and a generator | execute | worker | wake-ups, frames cut by chunks, broken frames, truncated streams | every event once and in order, no lost wake-up, an error is not swallowed |
| Transcript readers, `pi-file-transcript-reader.ts`, `sandbox-transcript-reader.ts` | none | log file to entries | repository | turns cut short, harnesses that go on after their run, rounds of tools, reads between two writes | items stay with their turn, entries form a tree, what was shown stays |
| Provider registry, `LLM/llm-provider-service.ts` | provider rows with encrypted secrets | create, update, delete, validate, resolve, store and clear credentials | PostgreSQL | read-modify-write of one row by several kinds of request | rows stay consistent, no deleted row returns |
| OAuth flows, `LLM/llm-provider-oauth-service.ts` | flows and callback states, in memory | start, status, callback, device login | registry, providers | repeated callbacks, failing exchanges, a start that polls, restart | a flow completes only with its credential stored, a failed exchange can be repeated |
| Accounts and login sessions, `API/identity` | users, login sessions | register, login, logout, getCurrentUser | PostgreSQL | touch against revoke, check-then-insert, expiry between check and use | one account per name, what is over is refused |
| Routes, DTOs, schemas, trigger stub, crypto, wiring, deployment | none or constants | | | | |

`PROJECT.json` lists the same components with their status, and the hazards of
the code, each at its line, with the properties that cover it.

## Modules

| Module | Role |
|---|---|
| `SessionService` | session service, registry, repository, audit and streams: one action per stretch of code between two awaits |
| `RunStream` | abstract: what one event stream promises its reader |
| `SessionLifecycle` | abstract: the life of a session as its stored status shows it |
| `SessionProperties` | the properties of `SessionService`, with the instances of the two abstract modules |
| `SessionPages` | the keyset pages of the recent list, walked while sessions are written |
| `SandboxExecution` | scheduler, sandbox executor, consumer, pod and ConfigMap of one execution |
| `WorkerGateway` | one execution on a remote worker: parser, queue and generator |
| `Selection` | what of a sequence belongs to a set, in its order: the filter of the gateway and the readers |
| `TranscriptReaders` | the two readers as functions: a log, record by record, to the entries of a session |
| `Transcripts` | the runs that write the logs (adapters, executors, entrypoint), read at every moment |
| `ProviderCatalog` | the catalog of provider types, one entry per kind |
| `ProviderRegistry` | rows of provider configurations and the requests on them |
| `ProviderOAuth` | the OAuth flows, composed with the registry they write to |
| `Accounts` | abstract: names, accounts and logins without requests |
| `LoginSessions` | registration, login, logout and the check of a cookie, split at their database calls; implements `Accounts` |
| `SessionProofs`, `PagesProofs`, `SandboxProofs`, `GatewayProofs`, `TranscriptProofs`, `ProviderProofs`, `LoginProofs` | theorems about the modules of these names |
| `SelectionProofs` | lemmas about `Selection`, used by `GatewayProofs` and `TranscriptProofs` |
| `MCSession`, `MCProvider`, `MCLogin`, `MCGateway` | the instances TLC checks, where a `.cfg` alone cannot say them |

Definitions marked *Mutant* are not part of a specification: each is a
plausible bug that violates one property, to show that the property depends on
the code it is about.

Common to all of them: Node runs the continuation of a settled promise, and
everything that follows without another await, before the next callback.  An
action is therefore an await that settles with what follows it, and requests
interleave at awaits only.

### SessionService

A *request* is a process with a place `pc`; a session is named by the request
that creates it, a run by the request whose response it feeds.

| State | Code |
|---|---|
| `row` | the row in `sessions` (stored, archived, status, name, piSessionFile) and the presence of its row in `user_sessions` (listed) |
| `audit` | audit records |
| `seen` | the record a request read first and writes back (`session`, `pendingSession`) |
| `turnFile` | the pi session file an execution reported |
| `registry` | `activeSessions`: the run whose closure is registered, or none |
| `stopped` | runs whose `cancellationState` is set |
| `stream`, `sent` | the raw response: hijacked, open, ended, cut; and what was published on it |

A run goes `auditing - writing - written - running`, then one of
`settling - settled`, `halting - writingHalt - halted` or
`failing - writingFailure - reporting`, or `aborted` when a call in the catch
block fails; the last place of each way out is the finally block
(`StreamClosed`).  `Saved` and `SavedArchived` are `updateSession`: all columns
from the record, except that an undefined file or archive mark leaves the
column, and the projection row is upserted or deleted.

*Granularity.*  A cancel never comes between an event that won the race in
`consumeRun` and its handling.  The route's ownership check reads the session
just before the service does; an archive is for good, so a session the second
read finds was found by the first, and the two are one step - except that a
message whose session vanishes between the two is rejected after its reply was
hijacked, which `SubmitReads` allows.

*Environment.*  A database call may reject, having taken effect or not
(`MaxFaults`); the process may die and start anew (`MaxCrashes`), which empties
the registry and cuts the streams; an executor yields events, returns, or
fails, at any time or never.  Clients address only stored sessions, whose ids
are random.  A client that disconnects is not noticed by the code.  With
`OneRequestAtATime` a client waits for its answer before it sends the next
request on the session, cancel excepted: `DRAFT:309` leaves it to the web page
not to submit while a session runs.

*Left out.*  Entries handed to `updateSession` (the repository does not store
them), provider and model columns, timestamps, the text of events, validation.

### SessionPages

`listUserSessions`: one SELECT of `Limit + 1` rows below the cursor, ordered by
time and id, descending.  `lastActiveAt` is the projection (0 for a session
that is not listed), `cursor` the `nextCursor` the client sends back,
`delivered` and `page` what it was given; `untouched` and `clean` remember what
was written since the walk, or the last page, began.  `Write` is any request
that writes a session: it moves it to the time the request read, which may be
older than the clock, or removes it.  Sessions are numbered as their ids sort.
The first page is taken from every table, so how the rows came to be is left
out.

### SandboxExecution

`sandbox-executor.ts` pulls `scheduler.ts`, and `consumeRun` pulls the
executor.  The model is one place `pc` for the two nested generators, because
one moves only while the other waits.  `Deliver` is a `yield`: with a consumer
that still pulls, the executor goes on to its transcript write; with one that
has left, or leaves on `run.failed`, the generators stay suspended for good -
nothing calls `return()`.

| State | Code |
|---|---|
| `log`, `rotated` | the harness's stdout, and how many of its lines are no longer in the file the kubelet reads; JSON that is no event is dropped by every read and not modelled |
| `batch`, `final` | what `#readLogs` returned: whole lines and perhaps a piece of the next, or the lines of a text foreign to the log; whether this is the read after termination |
| `consumed` | `consumedCount` |
| `delivered`, `mirrored` | events the consumer took; events in the host transcript |
| `outcome` | how the try block ended |
| `pod`, `configMap` | the cluster's objects; `lost` is a pod somebody else removed |
| `failed` | where a call failed |

Nothing looks at the status of the answer to a log read.  A Kubernetes `Status`
object is JSON without a type and yields no event; any other text, of a proxy or
of a kubelet that cannot read the log, yields a `process.delta` for each of its
lines, and these are counted like lines of the log.  A read that gets no answer
throws.  A piece of a line comes from lines the container runtime splits, and
the kubelet may start a new file at any time (`LogRotates`).  The pod is
external: it may fail to start, be killed at any point, or disappear, and it may
exit with status 0 or another one at any point: the entrypoint's catch block
sets the exit code only after a transcript write that may be rejected.

What positions can promise is less than what one would wish.  A line of an
error's text takes the place of one line of the log, and a rotation makes
positions mean other lines.  `DeliveredInOrder` therefore says that lines come in
their order and none twice whatever happens, that foreign lines come from failing
reads only, and that without a rotation the i-th event is the i-th line or a
foreign one; `ReturnIsComplete` that a return has seen `sandbox.done`, that
everything delivered is mirrored, and that without a rotation there are as many
events as lines before it.  With neither faults nor rotation, the consumer thus
gets exactly the log.

### WorkerGateway

The client posts the job and parses the response in the background while a
generator hands out the events.

| State | Code |
|---|---|
| `response` | the frames the worker sends: events, the completion, a comment, one whose data is no JSON |
| `read` | how far the response was read, in half frames, so that a chunk may end inside a frame (`buffer`) |
| `parser` | reading, failed, ending, finished (`isFinished`) |
| `queuedEvents`, `completion`, `parsingError` | the variables of these names |
| `consumer` | posting, running, waiting (`notify` is set), yielded, returned, threw |
| `delivered` | events handed out |

The response may be refused, end anywhere, or fail anywhere; where a chunk ends
is chosen freely.  A chunk's frames are parsed without a pause.  The completion
the generator returns is only noted as parsed or not.  `server.ts` wires the
in-process executor, so nothing else here composes with this module.

### TranscriptReaders and Transcripts

`TranscriptReaders` translates both readers record by record: `ReadPiRecord`
for a line of pi's session file (or the mock executor's), `ReadHostEvent` for a
line of the host's copy of a sandbox's events.  Each takes a *view*, the
reader's local state (entries so far, the maps from message to entry, the open
turn), to the next; `PiEntries` and `HostEntries` finish it.  A text is the
sequence of its pieces and a piece the number of the turn that wrote it, a tool
call its turn and number: enough to say where something belongs.

`Transcripts` runs turns on every runtime the selector can choose: sandbox with
the pi or the claude-code adapter, with the session file on a shared volume or
not; the same adapters in process; the mock executor.

| State | Code |
|---|---|
| `pc`, `turn`, `parent` | is a run under way, its number, the entry its question hangs off (the last one shown) |
| `harness` | for each turn its harness: where it stands, the last record of the session as it knows it, its tool calls without a result |
| `steps` | what the harnesses may still do |
| `buffered` | `bufferedEvents` of the pi adapter |
| `session`, `view` | pi's session file and what its reader makes of it |
| `recorded` | whether the session row names the file |
| `host` | what the other reader makes of the host's copy |

`RunStops` may come at any moment, for a cancel, a failure or a crash.  It takes
no file back, and it does not stop the harness: `consumeRun` drops its iterator
(`managed-session-service.ts:148`), but the prompt of the pi adapter (`pi.ts:134`)
goes on, in this process or in the pod that stays.  A harness left behind writes
to its session file as long as it likes, or no more if it is dead; its events are
not copied any more.  If the session row names that file, the next run opens it
again, and two or three harnesses append to it, each chaining its records to the
last one it knows.  If the row names none, the next run starts a file of its own,
and the one left behind is read by nobody.  (To the file, a second message that
is sent while a run goes on is the same: the run before is one more writer.  To
the host's copy it is not, and runs of one session that overlap there are left
out.)  The mock executor writes its records in one stretch that no cancel of the
run overtakes.

pi's file therefore does not keep the turn order, and `TurnOrderIsKept` is about
the host's copy and the mock executor's records.  What holds of pi's file is that
each entry has one writer and hangs off an earlier entry of the same one, so that
the chain of parents, which `DRAFT:225` lays down, leads from a reply to its
question (`RepliesReachTheirQuestion`).

*External:* pi writes a prompt, then rounds of an
assistant message with tool calls and one result each, then a reply, as the
adapter and reader expect; the CLI prints text and tool events in any order.
*Left out:* torn lines (a line pi has half written makes the whole read fail),
tool names and arguments, images but for their place, model settings but for
the records they leave, and the copy of the events inside the pod, which
nothing reads.

### ProviderRegistry, ProviderCatalog and ProviderOAuth

`ProviderRegistry` has the rows and the requests on them.  PATCH, storing and
clearing a credential read the row, compute the new one, write it and read it
back; each of these database calls is a step, so two requests overlap on one
row.  `ProviderOAuth` adds the flows and their workers: a request, and for a
Copilot flow also the login that goes on behind it, is a *caller* with a `call`.

| State | Code |
|---|---|
| `rows`, `issued` | `llm_provider_configs`, ids ever generated |
| `call` | locals of an operation: where it stands, what it will write, its answer |
| `flows`, `codexFlowIdByState` | `flowById` and the map of states |
| `login` | the promise of the device login |
| `flowOf` | the flow a caller works for |
| `stored` | history: the credentials written to each row, in order |

`NormalizedRow`, `ValidInput`, `Updated`, `validateProviderConfig` and
`resolveProviderSelectionForSession` translate the functions of those names or
lines; columns nothing depends on (name, headers, options) are left out, and a
secret is the pair of what the ciphertext holds.  Credentials are named by the
caller that got them.  An update passes no API type and no base URL for a type
that has none, which leaves the columns as they were
(`postgres-llm-provider-repository.ts:113-115`): `RowFitsItsType` asks for them
where the type wants them, and not that they are empty where it does not.

*Environment.*  A database call may fail, the process may restart (`Restart`
drops flows, states and requests under way).  The token endpoint accepts or
refuses a code; the device login shows its URL, is granted, or fails.
`expiresAt` is reported by the code and enforced nowhere, so there is no expiry.

### LoginSessions and Accounts

| State | Code |
|---|---|
| `users`, `sessions` | the tables; a login session is named by the request that issued it |
| `req` | a request: where it stands, the row and the time it read |
| `clock` | `Date.now()` |

A request may send the cookie of any answered registration or login, or none.
The row and the time are read together and what follows acts on them: a logout
or the expiry may come between the read and the touch.  `over` in a request
remembers whether its login was over when it arrived.  A password is its own
hash; the unique index on the name is the only guard against two accounts.  The
development account may be there from the start.  `Accounts` is the contract:
accounts are only added, one per name; a login is opened for a user that has an
account, stays that user's (`holder`), and is never reopened when closed.

## Runs

| Run | Instance | Properties |
|---|---|---|
| `overlap` | create, message, archive, cancel; one fault; any order | `RegistryEntryIsLive`, `AuditCoversRow`, `VisibleIsListed`, `IInv` (with `TypeOK`), `StreamContract` (refines `RunStream`), `ArchiveIsPermanent` |
| `serial` | create, message, rename, archive, cancel; one fault, one crash; clients wait | `OpenRunIsRegistered`, `TurnIsReadable`, `RunningHasARun`, `LifecycleContract` (refines `SessionLifecycle`) |
| `progress` | create, message, cancel; one fault | `StreamsEnd`, `CancelEndsRun` |
| `pages` | four sessions, three times, two writes, pages of one | `IInv`, `UntouchedIsListedOnce`, `PagesDescend`, `HasMoreIsHonest` |
| `sandbox` | three log lines, error texts of up to two, two faults | `DeliveredInOrder`, `ReturnIsComplete`, `EndedIsCleanedUp`, `IInv`, `ExecutionEnds` |
| `gateway` | four responses of up to five frames, one of them broken | `DeliveredInOrder`, `OutcomeIsTheWorkers`, `ExecutionEnds` |
| `transcripts` | three turns, two rounds of up to two tools, eight records, every runtime | `TurnOrderIsKept`, `RepliesReachTheirQuestion`, `PiEntriesFormATree`, `ResultsJoinTheirCalls`, `ShownOnlyGrows` |
| `credentials` | three requests of any kind, one config, one flow, one fault or restart | `IInv`, `ValidRowResolves`, `RowFitsItsType`, `CompletedFlowWasStored`, `UnfinishedFlowKeepsItsState`, `DeletedStaysDeleted`, `EveryRequestIsAnswered` |
| `logins` | four requests on one name, a clock of two ticks, one fault | `TypeOK`, `OverIsRefused`, `CookieIsBacked`, `AccountsContract` (refines `Accounts`) |
| `sandbox_leak`, `credential_lost`, `name_lost` | small instances | each finds one promise of the documentation broken, see below |

What they show:

- *Overlapping requests on a session.*  However creates, messages, archives and
  cancels interleave, a cancel finds the closure of a living run, the streams
  keep their contract, the audit trail is never behind the table, an archive is
  final.  With clients that wait for their answers the stored status follows
  the life cycle and a completed turn stays readable.
- *Pages.*  A session that nobody touched is delivered, keys come in descending
  order, `hasMore` is true only if there is more or somebody wrote.
- *Executions.*  Both clients of a worker deliver events in order and none twice,
  whatever the reads or chunks look like, and come to an end; the gateway delivers
  every one, the scheduler every one unless a failing read or a rotation took its
  place.
- *Transcripts.*  Whatever stopped the runs before and whoever still writes, an
  item stays with the question it answers and with the tool call it belongs to
  (by place in the host's copy, by parent in pi's file), and a client that
  reads while the log is written sees entries only grow - until the session
  switches from one source of its transcript to the other, which
  `ShownOnlyGrows` excludes and which the code does when a run stores the
  session file.
- *Credentials.*  Overlapping updates leave rows that fit their type, and rows
  the validation accepts start a session; flows complete only once their
  credential is in the row.  (It need not stay there: see `credential_lost`.)
- *Logins.*  No login that was over when a request came is accepted by it, and
  registrations that overlap make one account.

*Bounds.*  Sessions share nothing but the process, so one session is enough for
the session service; two runs are the least that overlap, and one request of
every other kind meets each of them at every await.  One fault reaches the
error path of each call; two, in `sandbox`, reach a failure during the clean-up
of a failure.  `MaxSent` leaves room for one executor event after the greeting.
Pages of one row with four sessions make walks of four pages, every tie of two
times at a page boundary, and writes between any two of them; the theorems cover
other page sizes.  The responses of `gateway` have an empty one, one with a
frame without an event, one that is broken after two events; a response that
ends in the middle is one of its prefixes.  Three lines and a text of two make
an error take the place of a line before the last and of the last.  Three turns
are the least with a first one that records pi's file, a second one that is
stopped and a third one that opens the file again beside the second's harness; two
rounds of two tools are the least in which a result, a later round and a later
turn can go to the wrong place; eight records are a turn with two rounds, or three
plain turns with two records to spare.  Three requests on one configuration are a start, a callback or
login, and a PATCH, delete or disconnect between them; the inputs of
`MCProvider` change the type, the models, the default model and the key.  Four
requests in `logins` are a login, a logout and two checks, or two registrations
and what follows.  `CHECK_DEADLOCK` is off where a walk, an execution or a finite
set of requests comes to an end; the session runs and `sandbox` end in an
explicit stutter instead and check it.

*Fairness.*  `ServerFairness` says that the event loop runs continuations that
are ready, and that database calls settle.  `StreamsEnd` assumes in addition,
run by run, that the execution ends; `CancelEndsRun` does not.
`ExecutionEnds` of the sandbox assumes that a running harness comes to an end:
the code puts no limit on it once the pod has started.  Faults are bounded, so
polls that fail are retried with success.  `ExecutionEnds` of the gateway
assumes that the worker answers and its response ends or fails, and that the
caller keeps asking; that no wake-up is lost is then up to the code.  For
`EveryRequestIsAnswered` database calls are answered, timers fire, the token
endpoint answers, and a device login shows its URL or fails: without the last
the start request polls for ever.

### What the documentation says and the code does not keep

Each of these runs violates one sentence of a document or comment, quoted in
`PROJECT.json`.

| Run | Sentence | What happens |
|---|---|---|
| `sandbox_leak` | pod and ConfigMap go when the run completes | a consumer that leaves, on a cancel or a failure, suspends the generator for good |
| `credential_lost` | a completed authorization's credential persists | a PATCH that read the row before writes the older secret back |
| `name_lost` | a running session may be renamed | the run writes the record it read at its start back when it ends, and with it the old name |

Others were met while modelling.  No run shows them; the properties above are
stated so that they hold beside them.

- A run that ends after its session was archived upserts the projection row
  (`postgres-session-repository.ts:189`): the archived session is listed again,
  against `DRAFT:98`.
- A message that starts between the check and the write of a delete
  (`managed-session-service.ts:661`) runs in an archived session, against
  `DRAFT:265`.
- A rename writes back the status it read (`managed-session-service.ts:635`),
  although its comment says it does not change the execution state.
- The cancel closure stays registered until the run is stored (`:287`), so a
  client may be told `run.cancelled` after `final.output.completed`, which
  `DRAFT:419` excludes.
- The reply is hijacked before the service's checks
  (`stream-response-proxy.ts:75`), so a message to a session that vanishes
  between the two reads is never answered, where `openapi.yaml:530` has a 404.
- The text of an error answered to a log read is shown as the run's output, and
  as many lines of the log are never delivered (`scheduler.ts:225-238`); if
  `sandbox.done` is among them, or if the last read is answered with a `Status`
  object, a finished run is reported as "terminated without sandbox.done".
- A sandboxed reply without a tool call is shown with a process entry that has the
  reply's own id, and hangs off an entry that is not shown
  (`sandbox-transcript-reader.ts:81`), where `DRAFT:225` has a tree.
- The harness of a cancelled run writes on in the session file the next run has
  opened (`managed-session-service.ts:148`, `pi.ts:134`): its reply is shown after
  the later question.
- A PATCH that changes the type of a provider keeps the API type and the base URL
  of the earlier one when the new type has none
  (`postgres-llm-provider-repository.ts:113-115`).

## Proofs

The theorems hold for all values of the constants that satisfy the named
assumptions, so for any number of requests, sessions, rows, lines, turns and
faults.  They state every invariant and action property of the runs that pass,
and the three refinements.

`SessionProofs`, from `RequestsAssumption` (the request sets are disjoint and
every request has a session) and `BoundsAssumption`, with or without waiting
clients:

- `TypeCorrect`: `TypeOK` is inductive.
- `Invariance`: `IInv` is invariant.  `RegistryEntryIsLive` alone is not
  inductive: to see that an entry's stream is open one must know that a run's
  stream is open as long as its place is a live one (`StreamFollowsRun`), and
  that a run opens its stream only from a hijacked one.  `CancelIsNoticed` ties
  published cancellations to the cancellation state.  `MoveKeepsInv` covers all
  steps that only move a request; opening, closing, yielding, cancelling and
  crashing have a lemma each.
- `RegistryIsSound`: an entry in the registry belongs to a run of that session
  whose response is open, so a cancel never writes to an ended response.
- `ArchivalIsFinal` and `VisibleStaysListed` rest on `RowStep`: a step leaves
  the table alone, saves one row or archives one.
- `AuditIsNeverBehind`: `AuditInv` adds to `AuditCoversRow` that whoever will
  write a row works on a recorded session (`WritersAreRecorded`), that a failure
  is recorded before it is written, and that a status `error` which a rename or
  an archive will write back was read from a recorded failure.  `MoveKeepsAudit`
  says what a step has to show; the lemmas below it show it by kind of request.
- `StreamsKeepTheirContract`: the service implements `RunStream`.  The
  invariant supplies what the abstract guards ask for: an executor event is
  published only while its run is not stopped, hence not cancelled on its
  stream.

The second half of `SessionProofs`, with `OneRequestAtATime`: `SerialInv`
adds to `IInv` that of the requests of a session, cancels excepted, at most one is
under way (`OneAtATime`), that its create is the first of them (`CreateIsFirst`),
that what a request under way has read is still what the row holds
(`SeenIsCurrent`, place by place in `Current`), and that only runs that go on have
an open stream (`OpenIsLive`).  None of the five properties is inductive alone:
that `updateSession` may write every column back depends on `Current`, which
depends on nobody else writing.  `MoveKeepsCurrent` and `MoveKeepsServing` say
what a step of one request owes the others, `WriteKeepsSerial`, `WalkKeepsSerial`
and `ArrivalKeepsSerial` specialise them, and each action is an instance of one of
these.  From it `OpenRunsAreRegistered`, `TurnsAreReadable`, `RunningSessionsRun`,
and, with `SerialRowStep` (what a write of the table can be),
`SessionsFollowTheLifecycle`: the table implements `SessionLifecycle`.

`PagesProofs`, from `PagesAssumption` (finitely many sessions, a positive page
size): `IInv` says that the cursor is the lowest key delivered
(`CursorIsLowest`), that what was not touched has been delivered or lies below
the cursor (`UntouchedIsAhead`), and that more rows lie below a page that said
so while nobody wrote (`MoreIsAhead`).  `PageShape` and `PageIsBelow` are what
one SELECT returns.  From it `NothingUntouchedIsMissed`, `PagesDescendAlways`,
`MoreIsTrue`.

`SandboxProofs`, from its `BoundsAssumption`: `TypeCorrect` and `Invariance`,
where `IInv` relates `consumed`, `delivered`, `mirrored` and the log at every
place and says which cluster objects can exist there.  Order is not inductive
alone: a line delivered later is a later line because the place in the log that
reads start from never moves back, so that the i-th event is a line between the
i-th of the log and the i-th of the file it was read from
(`LinesComeFromReads`).  From it `DeliveryIsInOrder`, `ReturnsAreComplete` and
`EndsAreClean`.

`ProviderProofs`, from `CatalogAssumption` (every type has an entry, `None` is
no value of a column) and `OAuthAssumption`: `IInv` adds to the properties that
a call under way fits its place and that what a PATCH will write fits its type
(`CallsFit`), that workers and flows know each other (`FlowsFit`, `WorkersFit`),
and that a store which has written is in the history (`WrittenIsStored`).
`RowFitsItsType` is inductive only with `CallsFit`: between a read and its write
the row may change type, and the merged row is consistent because it is written
whole.  `NormalizedIsARow` and `UpdatedIsARow` are about the functions; then one
lemma per kind of step.  From it `RowsFitTheirType`, `ValidRowsResolve`,
`CompletionsWereStored`, `StatesStayUsable`, and from its types `DeletionIsFinal`.

`LoginProofs`, from `LoginAssumption`: `IInv` (defined there) says what each
place of a request entails (`PlacesFit`, `WritesStored`), that stored login
sessions belong to stored accounts (`SessionsAreBacked`), that an answered
logout has revoked its session (`LoggedOutIsRevoked`), and that a request whose
login was over is on its way to a refusal (`OverIsOnItsWayOut`).  From it
`TypeCorrect`, `LogoutAndExpiryHold`, `CookiesAreBacked` and
`ImplementsAccounts`, with a lemma for each action that moves the abstract
state.

`SelectionProofs`: selecting is a homomorphism of sequences (`SelectOfAppend`,
`SelectOfConcat`), keeps what it selects (`SelectKeeps`) and leaves a sequence of
selected elements alone (`SelectOfAll`).  `Select` is a recursive function; the
provers cannot instantiate the library's induction theorems, so induction goes
by the least number at which a claim fails (`LeastNatural`, `Inductive`).

`GatewayProofs`, from `GatewayAssumption` (responses are sequences of frames, an
event is none of the other frames): `GatewayInv` adds to the two properties what
they rest on.  Nothing is read before the worker answered; what was read holds a
broken frame only if the parser noticed (`BrokenFramesAreReported`); a generator
that ended found the parser finished (`EndsAfterTheParser`); one that sleeps has
an empty queue and a parser still at work (`NoWakeUpIsLost`).  A chunk adds to
the queue what selection makes of its frames; that this is what selection makes
of the longer prefix is `ParsedOfConcat` with `SelectOfConcat`.  From it
`EventsAreDeliveredInOrder`, `OutcomeIsAlwaysTheWorkers` and
`WakeUpsAreNotLost`, the safety behind `ExecutionEnds`.

`TranscriptProofs`, from its `BoundsAssumption`, over `HarnessInv` (the calls of a
harness are of its turn), in four invariants:

- `PiInv`, of pi's file and its view.  Ids of entries and the maps' keys come
  from the messages so far (`FromMessages`, `MapsMessages`), so a new one is
  fresh.  While a harness works on its prompt, the last message it wrote leads to
  an entry (`LeavesAreKnown`), and once it has called tools to the very one in
  which the open calls were started (`OpenCallsAreStarted`): that is what lets a
  result, a later round or the reply, each of which only names the message before
  it, find its process.  These conjuncts speak of every harness at once, since
  what one writes must leave the others' chains alone (`OthersRemain`).
  `UserIsRead`, `ToolUseIsRead`, `ToolResultIsRead` and `ReplyIsRead` say what one
  record does to the view, `RecordIsNoted` what it does to the file.  From it
  `PiEntriesAlwaysFormATree` and `ResultsAlwaysJoinTheirCalls`; the mock executor's
  file is in the last conjunct, as no entry of any file is an orphan the reader
  would leave out.
- `ViewIsOwn`, of the writers of pi's file: an entry holds the work of the turn
  whose harness wrote the message it was made from, and hangs off an entry of that
  turn unless it is a question.  `PromptIsOwn`, `ToolUseIsOwn`, `ResultIsOwn` and
  `ReplyIsOwn` are its steps; from it, with the tree,
  `RepliesAlwaysReachTheirQuestion`.
- `HostInv`, of the host's copy: the reader holds the entries of earlier turns in
  turn order and, if a turn is open, a question, work and a reply that belong to
  it (`HostShape`); what the adapter holds back is of the current turn
  (`BufferInv`).  `ItemIsRead`, `OutputIsRead`, `TurnIsFlushed` and
  `QuestionIsRead` are the reader's steps.  That a question flushes the turn before
  it is what keeps a stopped run's events out of the next turn.
- `MockTurns`, of the turns in the mock executor's records.  `Ordered(s, t)` gives
  every entry a turn, at most `t`, that ascends, is the one of its items, and begins
  with its question; in `Current(s, t)` the last one is `t`.  A question makes an
  ordered transcript current (`QuestionIsAsked`), work keeps it so (`WorkIsDone`).

`TurnOrderIsAlwaysKept` follows from the last two: an `Ordered` transcript is in
turn order (`OrderedIsInOrder`).  `ShownAlwaysGrows` comes with the steps of `PiInv`
and `HostInv`: each record, and each event, yields entries that `Grows` relates to
those before, `recorded` keeps the file, and only a new file starts over.

*Only model-checked.*  Liveness (`StreamsEnd`, `CancelEndsRun`, both
`ExecutionEnds`, `EveryRequestIsAnswered`), which needs fairness and ENABLED.

## Not modelled

- The trigger service is a stub that answers a constant.  Cryptography, the
  database connection, mount paths, server bootstrap and deployment files are
  single calls and wiring without behaviour of their own.
- Validation and conversion of payloads in routes, schemas and DTOs, other than
  the order of the session routes' steps, paging parameters and the provider
  inputs: stateless, and no property is about their wording.
- The set-up of models and credentials in front of an adapter's run, and the
  copy of the transcript inside the pod: nothing reads them back.
- A torn line in pi's session file: the read throws and the request is answered
  500; no entry changes.
- Expiry of OAuth flows: reported, never enforced, so there is no step.

## Plan

What is left, in the order of what it would add:

1. An abstract `Execution` that `SandboxExecution` and `WorkerGateway` implement
   and from which `SessionService` takes its executor actions.
2. Two sessions of one owner in `SessionService`, composed with `SessionPages`.

## Running

    tlc -config MCSession_overlap.cfg MCSession      (also _serial, _progress)
    tlc -config SessionPages.cfg SessionPages
    tlc -config SandboxExecution.cfg SandboxExecution
    tlc -config MCGateway.cfg MCGateway
    tlc -config Transcripts.cfg Transcripts
    tlc -config MCProvider.cfg MCProvider
    tlc -config MCLogin.cfg MCLogin
    tlc -config SandboxExecution_v_leak.cfg SandboxExecution
    tlc -config MCProvider_v_credential_lost.cfg MCProvider
    tlc -config MCSession_v_name_lost.cfg MCSession
    tlapm SessionProofs.tla       (also PagesProofs, SandboxProofs, GatewayProofs,
                                   TranscriptProofs, ProviderProofs, LoginProofs)
