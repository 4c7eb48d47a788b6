---------------------------- MODULE ProviderOAuth -----------------------------
(* llm-provider-oauth-service.ts over the provider registry: browser flows     *)
(* that end with a credential written into a row.  A Codex flow ends in a      *)
(* callback request of the browser, matched by its state; a Copilot flow in a  *)
(* login that the start request leaves running.  The flows live in memory and  *)
(* are lost when the process stops; the rows are not.                          *)
EXTENDS ProviderRegistry

CONSTANTS Flows,
          CodexTypes, CopilotTypes   \* the provider types a flow can be for

VARIABLES flows,                \* flowById
          codexFlowIdByState,   \* the flows whose callback state is registered
          login,                \* what the device login of a flow has done
          flowOf,               \* the flow a request or a login works for
          stored                \* history: the credentials written to each row, in order

oauthVars == <<flows, codexFlowIdByState, login, flowOf>>
vars == <<registryVars, oauthVars, stored>>

(* A credential is named by the caller whose exchange or login produced it.    *)
ASSUME OAuthAssumption ==
  /\ Callers = Requests \cup Flows
  /\ Requests \cap Flows = {}
  /\ Callers \subseteq Credentials
  /\ CodexTypes \subseteq Types /\ CopilotTypes \subseteq Types
  /\ CodexTypes \cap CopilotTypes = {}
  /\ None \notin Flows

NoFlow == [userId |-> None, config |-> None, type |-> None, status |-> "none", authUrl |-> FALSE]
Flow == [userId : Users, config : Configs, type : Types,
         status : {"pending", "completed", "failed"}, authUrl : BOOLEAN]

Unused(f) == flowOf[f] = None

Init ==
  /\ rows \in [Configs -> {NoRow} \cup
        {NormalizedRow(u, NoRow, input) :
            u \in Users, input \in {i \in Inputs : ValidInput(NoRow, i)}}]
  /\ issued = {c \in Configs : rows[c] # NoRow}
  /\ call = [p \in Callers |-> Idle]
  /\ faults = 0
  /\ flows = [f \in Flows |-> NoFlow]
  /\ codexFlowIdByState = {}
  /\ login = [f \in Flows |-> "none"]
  /\ flowOf = [p \in Callers |-> None]
  /\ stored = [c \in Configs |-> <<>>]

-------------------------------------------------------------------------------
(* Starting a flow: one database read, the rest in the same step.              *)

NewFlow(user, c, authUrl) ==
  [userId |-> user, config |-> c, type |-> rows[c].providerType, status |-> "pending",
   authUrl |-> authUrl]

StartRefused(p, user, c) ==
  /\ Arrives(p)
  /\ c \in issued
  /\ \/ ~Owned(user, c)
     \/ rows[c].authMode # "oauth"
     \/ rows[c].providerType \notin CodexTypes \cup CopilotTypes
  /\ Answer(p, "start", "refused")
  /\ UNCHANGED <<rows, issued, faults, oauthVars, stored>>

StartCodexFlow(p, f, user, c) ==
  /\ Arrives(p)
  /\ c \in issued /\ Owned(user, c)
  /\ rows[c].authMode = "oauth" /\ rows[c].providerType \in CodexTypes
  /\ Unused(f)
  /\ flows' = [flows EXCEPT ![f] = NewFlow(user, c, TRUE)]
  /\ codexFlowIdByState' = codexFlowIdByState \cup {f}
  /\ flowOf' = [flowOf EXCEPT ![p] = f, ![f] = f]
  /\ Answer(p, "start", "ok")
  /\ UNCHANGED <<rows, issued, faults, login, stored>>

StartCopilotFlow(p, f, user, c) ==
  /\ Arrives(p)
  /\ c \in issued /\ Owned(user, c)
  /\ rows[c].authMode = "oauth" /\ rows[c].providerType \in CopilotTypes
  /\ Unused(f)
  /\ flows' = [flows EXCEPT ![f] = NewFlow(user, c, FALSE)]
  /\ login' = [login EXCEPT ![f] = "started"]
  /\ flowOf' = [flowOf EXCEPT ![p] = f, ![f] = f]
  /\ Goto(p, "polling", "start", c, NoRow)
  /\ UNCHANGED <<rows, issued, faults, codexFlowIdByState, stored>>

\* Mutant: the poll looks for the URL only.
PollStartForUrl(p) ==
  /\ call[p].pc = "polling"
  /\ flows[flowOf[p]].authUrl
  /\ Answer(p, "start", "ok")
  /\ UNCHANGED <<rows, issued, faults, oauthVars, stored>>

(* The start request wakes every 10 ms: a failure first, then the URL.         *)
PollStart(p) ==
  LET flow == flows[flowOf[p]] IN
  /\ call[p].pc = "polling"
  /\ flow.status = "failed" \/ flow.authUrl
  /\ Answer(p, "start", IF flow.status = "failed" THEN "error" ELSE "ok")
  /\ UNCHANGED <<rows, issued, faults, oauthVars, stored>>

-------------------------------------------------------------------------------
(* The device login (external): it shows its URL, then is granted or refused.  *)

LoginShowsUrl(f) ==
  /\ login[f] = "started"
  /\ login' = [login EXCEPT ![f] = "waiting"]
  /\ flows' = [flows EXCEPT ![f].authUrl = TRUE]
  /\ UNCHANGED <<registryVars, codexFlowIdByState, flowOf, stored>>

LoginFails(f) ==
  /\ login[f] \in {"started", "waiting"}
  /\ login' = [login EXCEPT ![f] = "ended"]
  /\ flows' = [flows EXCEPT ![f].status = "failed"]
  /\ UNCHANGED <<registryVars, codexFlowIdByState, flowOf, stored>>

-------------------------------------------------------------------------------
(* The callback.  Without a code, or with a state that is not registered, it   *)
(* is refused.  Else its code is exchanged first; the exchange (external) may  *)
(* fail, as it does for a code that was already used.                          *)

CallbackRefused(p) ==
  /\ Arrives(p)
  /\ Answer(p, "store", "refused")
  /\ UNCHANGED <<rows, issued, faults, oauthVars, stored>>

\* Mutant: the state is dropped as soon as the callback uses it.
CallbackArrivesOnce(p, f) ==
  /\ Arrives(p)
  /\ f \in codexFlowIdByState
  /\ flows[f] # NoFlow
  /\ flowOf' = [flowOf EXCEPT ![p] = f]
  /\ codexFlowIdByState' = codexFlowIdByState \ {f}
  /\ Goto(p, "exchange", "store", flows[f].config, NoRow)
  /\ UNCHANGED <<rows, issued, faults, flows, login, stored>>

CallbackArrives(p, f) ==
  /\ Arrives(p)
  /\ f \in codexFlowIdByState
  /\ flows[f] # NoFlow
  /\ flowOf' = [flowOf EXCEPT ![p] = f]
  /\ Goto(p, "exchange", "store", flows[f].config, NoRow)
  /\ UNCHANGED <<rows, issued, faults, flows, codexFlowIdByState, login, stored>>

(* failFlow, and what completeFlow and its caller do once the store is         *)
(* answered.                                                                   *)
Settled(p, answer) ==
  LET f == flowOf[p] IN
  IF answer = "ok"
  THEN /\ flows' = [flows EXCEPT ![f].status = "completed"]
       /\ codexFlowIdByState' = codexFlowIdByState \ {f}
  ELSE /\ flows' = [flows EXCEPT ![f].status = "failed"]
       /\ UNCHANGED codexFlowIdByState

ExchangeFails(p) ==
  /\ call[p].pc = "exchange"
  /\ Answer(p, "store", "error")
  /\ Settled(p, "error")
  /\ UNCHANGED <<rows, issued, faults, login, flowOf, stored>>

(* Both kinds of flow end in storeOAuthCredential: a callback once its code    *)
(* was exchanged, a login once it was granted.                                 *)
HasCredential(p) ==
  \/ call[p].pc = "exchange"
  \/ p \in Flows /\ call[p].pc = "idle" /\ login[p] = "waiting"

\* Mutant: the flow completes before the credential is written.
StoreAfterCompletion(p) ==
  LET f == flowOf[p] IN
  /\ HasCredential(p)
  /\ ReadForSecret(p, "store", flows[f].userId, flows[f].config, p)
  /\ Settled(p, IF call'[p].pc = "done" THEN "error" ELSE "ok")
  /\ login' = IF p \in Flows THEN [login EXCEPT ![p] = "ended"] ELSE login
  /\ UNCHANGED <<rows, issued, faults, flowOf, stored>>

StoreOAuthCredential(p) ==
  LET f == flowOf[p] IN
  /\ HasCredential(p)
  /\ ReadForSecret(p, "store", flows[f].userId, flows[f].config, p)
  /\ IF call'[p].pc = "done" THEN Settled(p, "error")
                             ELSE UNCHANGED <<flows, codexFlowIdByState>>
  /\ login' = IF p \in Flows THEN [login EXCEPT ![p] = "ended"] ELSE login
  /\ UNCHANGED <<rows, issued, faults, flowOf, stored>>

-------------------------------------------------------------------------------
(* The registry's steps; those of a store settle its flow when they answer it. *)

SettleIfStore(p, answer) ==
  IF call[p].op = "store" THEN Settled(p, answer) ELSE UNCHANGED <<flows, codexFlowIdByState>>

RequestStep(p) ==
  /\ \/ \E user \in Users, input \in Inputs :
          \/ CreateProviderConfig(p, user, input)
          \/ \E c \in Configs : UpdateProviderConfig(p, user, c, input)
     \/ \E user \in Users, c \in Configs :
          \/ ClearOAuthCredential(p, user, c)
          \/ DeleteProviderConfig(p, user, c)
  /\ UNCHANGED <<oauthVars, stored>>

Remove(p) ==
  /\ DeleteRow(p)
  /\ UNCHANGED <<oauthVars, stored>>

Write(p) ==
  LET c == call[p].config IN
  /\ WriteRow(p)
  /\ stored' = IF call[p].op = "store" /\ rows[c] # NoRow
               THEN [stored EXCEPT ![c] = Append(@, p)] ELSE stored
  /\ UNCHANGED <<oauthVars>>

ReadBack(p) ==
  /\ Reread(p)
  /\ SettleIfStore(p, AnswerOfReread(p))
  /\ UNCHANGED <<login, flowOf, stored>>

Fault(p) ==
  /\ DatabaseFails(p)
  /\ SettleIfStore(p, "error")
  /\ UNCHANGED <<login, flowOf, stored>>

(* The process stops and starts again: requests, logins and flows are gone.    *)
Restart ==
  /\ faults < MaxFaults
  /\ faults' = faults + 1
  /\ flows' = [f \in Flows |-> NoFlow]
  /\ codexFlowIdByState' = {}
  /\ login' = [f \in Flows |-> "none"]
  /\ call' = [p \in Callers |->
               IF call[p].pc = "idle" THEN Idle
               ELSE [call[p] EXCEPT !.pc = "done", !.write = NoRow]]
  /\ UNCHANGED <<rows, issued, flowOf, stored>>

(* What a call under way waits for.                                            *)
Progress(p) ==
  \/ Write(p) \/ ReadBack(p) \/ Remove(p)
  \/ p \in Requests /\ (PollStart(p) \/ StoreOAuthCredential(p) \/ ExchangeFails(p))

RequestNext(p) ==
  \/ RequestStep(p)
  \/ Remove(p)
  \/ PollStart(p)
  \/ CallbackRefused(p)
  \/ ExchangeFails(p)
  \/ \E f \in Flows : CallbackArrives(p, f)
  \/ \E user \in Users, c \in Configs :
       \/ StartRefused(p, user, c)
       \/ \E f \in Flows : StartCodexFlow(p, f, user, c) \/ StartCopilotFlow(p, f, user, c)

Next ==
  \/ \E p \in Requests : RequestNext(p)
  \/ \E p \in Callers : StoreOAuthCredential(p) \/ Write(p) \/ ReadBack(p) \/ Fault(p)
  \/ \E f \in Flows : LoginShowsUrl(f) \/ LoginFails(f)
  \/ Restart

(* Database calls are answered, a timer fires, the token endpoint answers one  *)
(* way or the other and a device login shows its URL or fails.                 *)
Fairness ==
  /\ \A p \in Callers : WF_vars(Progress(p))
  /\ \A f \in Flows : WF_vars(LoginShowsUrl(f) \/ LoginFails(f))

Spec == Init /\ [][Next]_vars /\ Fairness

-------------------------------------------------------------------------------
(* Properties.                                                                 *)

TypeOK ==
  /\ RegistryTypeOK
  /\ flows \in [Flows -> Flow \cup {NoFlow}]
  /\ codexFlowIdByState \subseteq Flows
  /\ login \in [Flows -> {"none", "started", "waiting", "ended"}]
  /\ flowOf \in [Callers -> Flows \cup {None}]
  /\ stored \in [Configs -> Seq(Callers)]

(* Whatever updates overlap, a row that the validate route calls valid is one  *)
(* a session can start with: its default model and thinking level resolve, and *)
(* the secret of its mode is there (llm-provider-service.ts:348 and :412).     *)
ValidRowResolves ==
  \A c \in Configs :
    rows[c] # NoRow /\ rows[c].enabled /\ validateProviderConfig(rows[c]) =>
      resolveProviderSelectionForSession(rows[c], rows[c].userId, None, None, TRUE)

\* What the catalog, and the choice of a model, ask of a row.
Fits(row) ==
  /\ row.authMode = Catalog[row.providerType].authMode
  /\ LET apiType == Catalog[row.providerType].apiType IN
       apiType # None => row.apiType = apiType
  /\ Catalog[row.providerType].baseUrlRequired => row.baseUrl # None
  /\ Supports(row.availableModels, row.defaultModelId, row.defaultThinkingLevel)

(* The auth mode of a row is its type's, the API type and a base URL are there *)
(* as its type asks, and its models, default model and default level fit       *)
(* together, although two PATCHes that read different rows may write one after *)
(* the other (llm-provider-service.ts:260-289).  A type that names no API type *)
(* or needs no base URL may be left with those of the type the row had before  *)
(* (postgres-llm-provider-repository.ts:113-115).                              *)
RowFitsItsType == \A c \in Configs : rows[c] # NoRow => Fits(rows[c])

\* Those whose credential was written to the row.
StoredIn(c) == {stored[c][i] : i \in 1..Len(stored[c])}

(* A flow says completed only after its credential was written to the row it   *)
(* was started for (completeFlow, llm-provider-oauth-service.ts:212-216).      *)
CompletedFlowWasStored ==
  \A f \in Flows : flows[f].status = "completed" =>
    \E p \in Callers : flowOf[p] = f /\ p \in StoredIn(flows[f].config)

(* As long as no callback of a Codex flow has stored a credential its state    *)
(* stays registered: a failed exchange can be repeated from the same           *)
(* authorization page (llm-provider-oauth-service.ts:360-376).                 *)
UnfinishedFlowKeepsItsState ==
  \A f \in Flows :
    \/ flows[f].type \notin CodexTypes
    \/ f \in codexFlowIdByState
    \/ \E p \in Requests : flowOf[p] = f /\ call[p].op = "store" /\ call[p].answer = "ok"

(* A deleted row does not come back, whichever PATCH or store of a credential  *)
(* was under way when it was deleted (postgres-llm-provider-repository.ts:105). *)
DeletedStaysDeleted ==
  [][\A c \in Configs : c \in issued /\ rows[c] = NoRow => rows'[c] = NoRow]_vars

(* Every request is answered, so that in the end none is under way: the poll   *)
(* of a Copilot start ends too, since a login shows its URL or fails           *)
(* (llm-provider-oauth-service.ts:314-319).                                    *)
EveryRequestIsAnswered ==
  <>[](\A p \in Callers : call[p].pc \in {"idle", "done"})

(* auth-design.zh-CN.md:265 says the credential of a completed authorization   *)
(* persists as user-level provider configuration.  Without a disconnect, and   *)
(* with no credential given by hand, the row would hold the last one stored; a *)
(* PATCH that read the row before writes the older secret back.                *)
LastCredentialPersists ==
  \A f \in Flows :
    LET c == flows[f].config IN
    /\ flows[f].status = "completed"
    /\ rows[c] # NoRow
    /\ \A p \in Callers : call[p].op \notin {"clear"}
    => rows[c].secret.oauthCredential = stored[c][Len(stored[c])]

(* The inductive invariant.                                                    *)

\* A call fits its place; what a PATCH is about to write fits its type.
CallsFit ==
  \A p \in Callers :
    /\ call[p].pc \in {"exchange", "polling", "update", "reread", "delete"} => call[p].config \in issued
    /\ call[p].pc = "update" => call[p].write \in Row
    /\ call[p].pc = "update" /\ call[p].op = "patch" => Fits(call[p].write)
    /\ call[p].pc = "exchange" => call[p].op = "store"
    /\ call[p].op = "store" => call[p].pc \in {"exchange", "update", "reread", "done"}
    /\ call[p].pc # "done" => call[p].answer = "none"

RowsAreIssued == \A c \in Configs : rows[c] # NoRow => c \in issued

\* A flow is in use from its start on, and its login is a Copilot one.
FlowsFit ==
  \A f \in Flows :
    /\ flowOf[f] \in {None, f}
    /\ flows[f] # NoFlow => flowOf[f] = f /\ flows[f].config \in issued
    /\ login[f] # "none" => flows[f] # NoFlow /\ flows[f].type \in CopilotTypes
    /\ call[f].pc \in {"idle", "update", "reread", "done"}
    /\ call[f].pc \in {"update", "reread"} => call[f].op = "store" /\ login[f] = "ended"

\* Who works for a flow does so from its first step on.
WorkersFit ==
  \A p \in Callers :
    /\ flowOf[p] # None => flowOf[flowOf[p]] = flowOf[p]
    /\ p \in Requests /\ call[p].pc = "idle" => flowOf[p] = None
    /\ call[p].op = "store" /\ call[p].pc \in {"exchange", "update", "reread"} =>
         /\ flowOf[p] # None
         /\ flows[flowOf[p]] # NoFlow
         /\ flows[flowOf[p]].config = call[p].config

\* A store that finds its row wrote to it.
WrittenIsStored ==
  \A p \in Callers :
    /\ call[p].pc = "reread" /\ call[p].op = "store" /\ rows[call[p].config] # NoRow
    => p \in StoredIn(call[p].config)

IInv ==
  /\ TypeOK /\ CallsFit /\ RowsAreIssued /\ FlowsFit /\ WorkersFit /\ WrittenIsStored
  /\ RowFitsItsType /\ CompletedFlowWasStored /\ UnfinishedFlowKeepsItsState
===============================================================================
