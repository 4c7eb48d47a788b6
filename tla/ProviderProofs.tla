---------------------------- MODULE ProviderProofs ----------------------------
(* Theorems about provider configs and their OAuth flows, for any catalog, any *)
(* requests, flows and number of failing calls and restarts.                   *)
EXTENDS ProviderOAuth, TLAPS

USE DEF registryVars, oauthVars

(* None and NoRow are no row, no flow and no caller.                           *)
LEMMA NoneIsApart ==
  /\ NoRow \notin Row
  /\ NoFlow \notin Flow
  /\ NoFlow.status # "completed" /\ NoFlow.type \notin CodexTypes
  <1>1. None \notin Users /\ CodexTypes \subseteq Types /\ None \notin Types
    BY CatalogAssumption, OAuthAssumption
  <1>2. NoRow \notin Row
    <2>1. NoRow.userId = None BY DEF NoRow
    <2>2. \A r \in Row : r.userId \in Users BY DEF Row
    <2> QED BY <1>1, <2>1, <2>2
  <1>3. NoFlow \notin Flow
    <2>1. NoFlow.userId = None BY DEF NoFlow
    <2>2. \A r \in Flow : r.userId \in Users BY DEF Flow
    <2> QED BY <1>1, <2>1, <2>2
  <1>4. NoFlow.status # "completed" /\ NoFlow.type \notin CodexTypes BY <1>1 DEF NoFlow
  <1> QED BY <1>2, <1>3, <1>4

(* A request merged with a row, or with none, is a row that fits its type.     *)
LEMMA NormalizedIsARow ==
  ASSUME NEW user \in Users, NEW old \in Row \cup {NoRow}, NEW input \in Inputs,
         ValidInput(old, input)
  PROVE  NormalizedRow(user, old, input) \in Row /\ Fits(NormalizedRow(user, old, input))
  <1> DEFINE new == NormalizedRow(user, old, input)
             item == Catalog[new.providerType]
  <1>1. input \in Input /\ Catalog \in [Types -> CatalogItem] BY CatalogAssumption
  <1>2. new.providerType = Given(input.providerType, old.providerType) BY DEF NormalizedRow
  <1>3. new.providerType \in Types BY <1>2 DEF ValidInput
  <1>4. item \in CatalogItem BY <1>1, <1>3
  <1>5. new.authMode = item.authMode /\ new.apiType = item.apiType
    BY <1>2 DEF NormalizedRow
  <1>6. item.baseUrlRequired => new.baseUrl # None
    BY <1>2 DEF ValidInput, NormalizedRow
  <1>7. new.authMode \in AuthModes /\ new.apiType \in ApiTypes \cup {None}
    BY <1>4, <1>5 DEF CatalogItem
  <1>8. new.baseUrl \in BaseUrls \cup {None}
    <2>1. input.baseUrl \in BaseUrls \cup {None} BY <1>1 DEF Input
    <2>2. old.baseUrl \in BaseUrls \cup {None} BY DEF Row, NoRow
    <2> QED BY <2>1, <2>2 DEF NormalizedRow, Given
  <1>9. new.defaultModelId \in ModelIds
    <2>1. input.defaultModelId \in ModelIds \cup {None} BY <1>1 DEF Input
    <2>2. old.defaultModelId \in ModelIds \cup {None} BY DEF Row, NoRow
    <2>3. item.defaultModelId \in ModelIds BY <1>4 DEF CatalogItem
    <2>4. new.defaultModelId =
            Given(input.defaultModelId, Given(old.defaultModelId, item.defaultModelId))
      BY <1>2 DEF NormalizedRow
    <2> QED BY <2>1, <2>2, <2>3, <2>4 DEF Given
  <1>10. new.defaultThinkingLevel \in Levels
    <2>1. input.defaultThinkingLevel \in Levels \cup {None} BY <1>1 DEF Input
    <2>2. old.defaultThinkingLevel \in Levels \cup {None} BY DEF Row, NoRow
    <2>3. item.defaultThinkingLevel \in Levels BY <1>4 DEF CatalogItem
    <2>4. new.defaultThinkingLevel =
            Given(input.defaultThinkingLevel,
                  Given(old.defaultThinkingLevel, item.defaultThinkingLevel))
      BY <1>2 DEF NormalizedRow
    <2> QED BY <2>1, <2>2, <2>3, <2>4 DEF Given
  <1>11. new.enabled \in BOOLEAN
    <2>1. input.enabled \in BOOLEAN \cup {None} BY <1>1 DEF Input
    <2>2. old.enabled \in BOOLEAN \cup {None} BY DEF Row, NoRow
    <2>3. new.enabled = Given(input.enabled, Given(old.enabled, TRUE)) BY DEF NormalizedRow
    <2> QED BY <2>1, <2>2, <2>3 DEF Given
  <1>12. new.availableModels \in SUBSET Model
    <2> DEFINE models == IF old = NoRow THEN defaultModels(item) ELSE old.availableModels
    <2>1. defaultModels(item) \in SUBSET Model
      BY <1>4 DEF defaultModels, Model, CatalogItem
    <2>2. old # NoRow => old.availableModels \in SUBSET Model BY DEF Row
    <2>3. models \in SUBSET Model BY <2>1, <2>2
    <2>4. UNION {m.levels : m \in models} \in SUBSET Levels BY <2>3 DEF Model
    <2>5. input.availableModels \in SUBSET ModelIds BY <1>1 DEF Input
    <2>6. new.availableModels = normalizeAvailableModels(input.availableModels, models)
      BY <1>2 DEF NormalizedRow
    <2> HIDE DEF models
    <2>7. CASE input.availableModels = {}
      BY <2>3, <2>6, <2>7 DEF normalizeAvailableModels
    <2>8. CASE input.availableModels # {}
      BY <2>4, <2>5, <2>6, <2>8 DEF normalizeAvailableModels, Model
    <2> QED BY <2>7, <2>8
  <1>13. new.secret \in Secret
    <2>1. /\ input.apiKey \in ApiKeys \cup {None}
          /\ input.oauthCredential \in Credentials \cup {None}
      BY <1>1 DEF Input
    <2>2. old.secret \in Secret BY DEF Row, NoRow, NoSecret, Secret
    <2>3. new.secret = [apiKey |-> Given(input.apiKey, old.secret.apiKey),
             oauthCredential |-> Given(input.oauthCredential, old.secret.oauthCredential)]
      BY DEF NormalizedRow
    <2> QED BY <2>1, <2>2, <2>3 DEF Given, Secret
  <1>14. new.userId = user BY DEF NormalizedRow
  <1>15. Fits(new)
    <2>1. Supports(new.availableModels, new.defaultModelId, new.defaultThinkingLevel)
      BY DEF ValidInput, NormalizedRow
    <2>2. item = Catalog[new.providerType] OBVIOUS
    <2> HIDE DEF new
    <2> QED BY <1>5, <1>6, <2>1, <2>2 DEF Fits
  <1>16. new = [userId |-> new.userId, providerType |-> new.providerType,
                authMode |-> new.authMode, apiType |-> new.apiType, baseUrl |-> new.baseUrl,
                availableModels |-> new.availableModels, defaultModelId |-> new.defaultModelId,
                defaultThinkingLevel |-> new.defaultThinkingLevel, enabled |-> new.enabled,
                secret |-> new.secret]
    BY DEF NormalizedRow
  <1> HIDE DEF new
  <1>17. new \in Row
    BY <1>3, <1>7, <1>8, <1>9, <1>10, <1>11, <1>12, <1>13, <1>14, <1>16 DEF Row
  <1> QED BY <1>15, <1>17 DEF new

(* An UPDATE leaves a row that fits its type, and brings none back.            *)
LEMMA UpdatedIsARow ==
  ASSUME NEW row \in Row \cup {NoRow}, NEW op, NEW write \in Row,
         row # NoRow => Fits(row), op = "patch" => Fits(write)
  PROVE  /\ Updated(row, op, write) \in Row \cup {NoRow}
         /\ Updated(row, op, write) # NoRow => Fits(Updated(row, op, write))
         /\ row = NoRow => Updated(row, op, write) = NoRow
         /\ row # NoRow => Updated(row, op, write) # NoRow
  <1>1. CASE row = NoRow BY <1>1 DEF Updated
  <1>2. CASE row # NoRow /\ op = "patch"
    <2> DEFINE new == [write EXCEPT !.userId = row.userId,
                         !.apiType = Given(write.apiType, row.apiType),
                         !.baseUrl = Given(write.baseUrl, row.baseUrl),
                         !.secret = IF write.secret # NoSecret THEN write.secret ELSE row.secret]
    <2>1. Updated(row, op, write) = new BY <1>2 DEF Updated
    <2>2. new \in Row BY <1>2 DEF Row, Given
    <2>3. /\ new.authMode = write.authMode /\ new.providerType = write.providerType
          /\ write.baseUrl # None => new.baseUrl = write.baseUrl
          /\ write.apiType # None => new.apiType = write.apiType
          /\ new.availableModels = write.availableModels
          /\ new.defaultModelId = write.defaultModelId
          /\ new.defaultThinkingLevel = write.defaultThinkingLevel
      BY DEF Row, Given
    <2>4. Fits(new) BY <1>2, <2>3 DEF Fits
    <2> QED BY <1>2, <2>1, <2>2, <2>4, NoneIsApart
  <1>3. CASE row # NoRow /\ op # "patch"
    <2> DEFINE new == [row EXCEPT !.secret = write.secret]
    <2>1. Updated(row, op, write) = new BY <1>3 DEF Updated
    <2>2. new \in Row BY <1>3 DEF Row
    <2>3. /\ new.authMode = row.authMode /\ new.providerType = row.providerType
          /\ new.baseUrl = row.baseUrl /\ new.apiType = row.apiType
          /\ new.availableModels = row.availableModels
          /\ new.defaultModelId = row.defaultModelId
          /\ new.defaultThinkingLevel = row.defaultThinkingLevel
      BY <1>3 DEF Row
    <2>4. Fits(new) BY <1>3, <2>3 DEF Fits
    <2> QED BY <1>3, <2>1, <2>2, <2>4, NoneIsApart
  <1> QED BY <1>1, <1>2, <1>3

-------------------------------------------------------------------------------
(* What the invariant asks of the next record of a caller that stores nothing  *)
(* and ends no flow.                                                           *)
Follows(p, new) ==
  /\ new \in Call /\ new.pc # "idle"
  /\ new.pc \in {"exchange", "polling", "update", "reread", "delete"} => new.config \in issued
  /\ new.pc = "update" => new.write \in Row
  /\ new.pc = "update" /\ new.op = "patch" => Fits(new.write)
  /\ new.pc # "done" => new.answer = "none"
  /\ new.pc = "exchange" => new.op = "store"
  /\ new.op = "store" => new.pc \in {"exchange", "update", "done"}
  /\ p \in Flows => new.pc \in {"update", "done"}
  /\ p \in Flows /\ new.pc = "update" => new.op = "store"

(* A caller that moves on while nothing but its own record changes keeps the   *)
(* invariant.                                                                  *)
LEMMA MoveKeepsInv ==
  ASSUME IInv, NEW p \in Callers, call[p].pc # "done", NEW new, Follows(p, new),
         new.op = "store" => new.pc = "done",
         call' = [call EXCEPT ![p] = new], faults' \in 0..MaxFaults,
         UNCHANGED <<rows, issued, oauthVars, stored>>
  PROVE  IInv'
  <1>0. TypeOK BY DEF IInv
  <1>1. \A q \in Callers : call'[q] = IF q = p THEN new ELSE call[q]
    BY <1>0 DEF TypeOK, RegistryTypeOK
  <1>2. TypeOK' BY <1>0, <1>1 DEF TypeOK, RegistryTypeOK, Follows
  <1>3. CallsFit' BY <1>1 DEF CallsFit, Follows, IInv
  <1>4. RowsAreIssued' BY DEF RowsAreIssued, IInv
  <1>5. FlowsFit' BY <1>1, OAuthAssumption DEF FlowsFit, Follows, IInv
  <1>6. WorkersFit' BY <1>1 DEF WorkersFit, Follows, IInv
  <1>7. WrittenIsStored' BY <1>1 DEF WrittenIsStored, Follows, IInv, StoredIn
  <1>8. RowFitsItsType' BY DEF RowFitsItsType, Fits, IInv
  <1>9. CompletedFlowWasStored' BY DEF CompletedFlowWasStored, IInv, StoredIn
  <1>10. UnfinishedFlowKeepsItsState'
    <2>1. call[p].answer # "ok" BY DEF IInv, CallsFit
    <2> QED BY <1>1, <2>1, OAuthAssumption DEF UnfinishedFlowKeepsItsState, IInv
  <1> QED BY <1>2, <1>3, <1>4, <1>5, <1>6, <1>7, <1>8, <1>9, <1>10 DEF IInv

(* A caller that stores a credential is answered, and its flow ends with it.   *)
LEMMA SettleKeepsInv ==
  ASSUME IInv, NEW p \in Callers, NEW answer \in {"ok", "refused", "error"},
         Answer(p, "store", answer), Settled(p, answer),
         call[p].pc # "done",
         flowOf[p] # None, flows[flowOf[p]] # NoFlow,
         answer = "ok" => p \in StoredIn(flows[flowOf[p]].config),
         p \in Flows => login[p] # "none",
         login' = IF p \in Flows THEN [login EXCEPT ![p] = "ended"] ELSE login,
         faults' \in 0..MaxFaults,
         UNCHANGED <<rows, issued, flowOf, stored>>
  PROVE  IInv'
  <1> DEFINE f0 == flowOf[p]
             new == [pc |-> "done", op |-> "store", config |-> None, write |-> NoRow,
                     answer |-> answer]
  <1>0. TypeOK BY DEF IInv
  <1>1. f0 \in Flows /\ flows[f0] \in Flow BY <1>0 DEF TypeOK
  <1>2. \A q \in Callers : call'[q] = IF q = p THEN new ELSE call[q]
    BY <1>0 DEF TypeOK, RegistryTypeOK, Answer
  <1>3. new \in Call BY DEF Call
  <1>4. PICK status \in {"completed", "failed"} :
          /\ flows' = [flows EXCEPT ![f0].status = status]
          /\ status = "completed" => answer = "ok"
    BY DEF Settled
  <1>5. \A f \in Flows : /\ flows'[f] = NoFlow <=> flows[f] = NoFlow
                         /\ flows'[f].config = flows[f].config
                         /\ flows'[f].type = flows[f].type
                         /\ flows'[f].status = IF f = f0 THEN status ELSE flows[f].status
                         /\ flows'[f] \in Flow \cup {NoFlow}
    <2>1. flows'[f0] = [flows[f0] EXCEPT !.status = status] BY <1>0, <1>1, <1>4 DEF TypeOK
    <2>2. \A f \in Flows : f # f0 => flows'[f] = flows[f] BY <1>0, <1>4 DEF TypeOK
    <2>3. /\ flows'[f0].config = flows[f0].config /\ flows'[f0].type = flows[f0].type
          /\ flows'[f0].status = status /\ flows'[f0] \in Flow
      BY <1>1, <2>1 DEF Flow
    <2> QED BY <1>0, <1>1, <2>2, <2>3, NoneIsApart DEF TypeOK
  <1>6. codexFlowIdByState' \subseteq codexFlowIdByState
        /\ codexFlowIdByState \ {f0} \subseteq codexFlowIdByState'
        /\ (answer # "ok" => codexFlowIdByState' = codexFlowIdByState)
    BY DEF Settled
  <1>7. TypeOK'
    <2>1. flows' \in [Flows -> Flow \cup {NoFlow}] BY <1>0, <1>4, <1>5 DEF TypeOK
    <2>2. call' \in [Callers -> Call] BY <1>0, <1>2, <1>3 DEF TypeOK, RegistryTypeOK, Answer
    <2> QED BY <1>0, <1>6, <2>1, <2>2 DEF TypeOK, RegistryTypeOK
  <1>8. CallsFit' BY <1>2 DEF CallsFit, IInv
  <1>9. RowsAreIssued' BY DEF RowsAreIssued, IInv
  <1>10. FlowsFit' BY <1>2, <1>5, OAuthAssumption DEF FlowsFit, IInv
  <1>11. WorkersFit'
    <2>1. \A q \in Callers : flowOf[q] # None => flowOf[q] \in Flows BY <1>0 DEF TypeOK
    <2> QED BY <1>2, <1>5, <2>1 DEF WorkersFit, IInv
  <1>12. WrittenIsStored' BY <1>2 DEF WrittenIsStored, IInv, StoredIn
  <1>13. RowFitsItsType' BY DEF RowFitsItsType, Fits, IInv
  <1>14. \A c : StoredIn(c)' = StoredIn(c) BY DEF StoredIn
  <1>15. CompletedFlowWasStored'
    <2> SUFFICES ASSUME NEW f \in Flows, flows'[f].status = "completed"
                 PROVE  \E q \in Callers : flowOf[q] = f /\ q \in StoredIn(flows[f].config)
      BY <1>5, <1>14 DEF CompletedFlowWasStored, StoredIn
    <2>1. CASE f = f0 BY <1>4, <1>5, <2>1
    <2>2. CASE f # f0 BY <1>5, <2>2 DEF IInv, CompletedFlowWasStored
    <2> QED BY <2>1, <2>2
  <1>16. UnfinishedFlowKeepsItsState'
    <2> SUFFICES ASSUME NEW f \in Flows, flows[f].type \in CodexTypes,
                        f \notin codexFlowIdByState'
                 PROVE  \E q \in Requests :
                          flowOf[q] = f /\ call'[q].op = "store" /\ call'[q].answer = "ok"
      BY <1>5 DEF UnfinishedFlowKeepsItsState
    <2>1. CASE f \in codexFlowIdByState
      <3>1. f = f0 /\ answer = "ok" BY <1>6, <2>1
      <3>2. p \notin Flows
        <4>1. SUFFICES ASSUME p \in Flows PROVE FALSE OBVIOUS
        <4>2. f = p BY <3>1, <4>1 DEF IInv, FlowsFit
        <4>3. flows[p].type \in CopilotTypes BY <4>1 DEF IInv, FlowsFit
        <4> QED BY <4>2, <4>3, OAuthAssumption
      <3> QED BY <1>2, <3>1, <3>2, OAuthAssumption
    <2>2. CASE f \notin codexFlowIdByState
      <3>1. PICK q \in Requests : flowOf[q] = f /\ call[q].op = "store" /\ call[q].answer = "ok"
        BY <2>2 DEF IInv, UnfinishedFlowKeepsItsState
      <3>2. q # p BY <3>1 DEF IInv, CallsFit
      <3> QED BY <1>2, <3>1, <3>2, OAuthAssumption
    <2> QED BY <2>1, <2>2
  <1> QED BY <1>7, <1>8, <1>9, <1>10, <1>11, <1>12, <1>13, <1>15, <1>16 DEF IInv

(* An exchange that fails, and a store that is answered, settle a flow.        *)
LEMMA AnswerKeepsInv ==
  ASSUME IInv, NEW p \in Callers, ExchangeFails(p) \/ ReadBack(p) \/ Fault(p)
  PROVE  IInv'
  <1>0. TypeOK BY DEF IInv
  <1>1. call[p].pc \in {"exchange", "update", "reread", "delete"}
    BY DEF ExchangeFails, ReadBack, Reread, Fault, DatabaseFails
  <1>2. faults' \in 0..MaxFaults
    BY <1>0, CatalogAssumption
       DEF TypeOK, RegistryTypeOK, ExchangeFails, ReadBack, Reread, Fault, DatabaseFails
  <1>3. PICK answer \in {"ok", "refused", "error"} :
          /\ Answer(p, call[p].op, answer)
          /\ SettleIfStore(p, answer)
          /\ answer = "ok" => call[p].pc = "reread" /\ rows[call[p].config] # NoRow
    <2>1. CASE ExchangeFails(p)
      BY <2>1 DEF ExchangeFails, SettleIfStore, IInv, CallsFit
    <2>2. CASE ReadBack(p)
      BY <2>2 DEF ReadBack, Reread, AnswerOfReread
    <2>3. CASE Fault(p)
      BY <2>3 DEF Fault, DatabaseFails
    <2> QED BY <2>1, <2>2, <2>3
  <1>4. UNCHANGED <<rows, issued, login, flowOf, stored>>
    BY DEF ExchangeFails, ReadBack, Reread, Fault, DatabaseFails
  <1>5. CASE call[p].op = "store"
    <2>1. /\ flowOf[p] # None /\ flows[flowOf[p]] # NoFlow
          /\ flows[flowOf[p]].config = call[p].config
      BY <1>1, <1>5 DEF IInv, WorkersFit, CallsFit
    <2>2. answer = "ok" => p \in StoredIn(flows[flowOf[p]].config)
      <3>1. SUFFICES ASSUME answer = "ok" PROVE p \in StoredIn(call[p].config) BY <2>1
      <3>2. call[p].pc = "reread" /\ rows[call[p].config] # NoRow BY <1>3, <3>1
      <3> QED BY <1>5, <3>2 DEF IInv, WrittenIsStored
    <2>3. p \in Flows => login[p] = "ended" BY <1>1 DEF IInv, FlowsFit
    <2>4. login' = IF p \in Flows THEN [login EXCEPT ![p] = "ended"] ELSE login
      BY <1>0, <1>4, <2>3 DEF TypeOK
    <2> QED BY <1>1, <1>2, <1>3, <1>4, <1>5, <2>1, <2>2, <2>3, <2>4, SettleKeepsInv
          DEF SettleIfStore
  <1>6. CASE call[p].op # "store"
    <2> DEFINE new == [pc |-> "done", op |-> call[p].op, config |-> None, write |-> NoRow,
                       answer |-> answer]
    <2>1. Follows(p, new) BY <1>0, <1>6 DEF Follows, Call, TypeOK, RegistryTypeOK
    <2>2. call' = [call EXCEPT ![p] = new] BY <1>3 DEF Answer
    <2>3. UNCHANGED <<flows, codexFlowIdByState>> BY <1>3, <1>6 DEF SettleIfStore
    <2>4. new.op = "store" => new.pc = "done" OBVIOUS
    <2> HIDE DEF new
    <2> QED BY <1>1, <1>2, <1>4, <2>1, <2>2, <2>3, <2>4, MoveKeepsInv
  <1> QED BY <1>5, <1>6

(* A row with another credential is a row.                                     *)
LEMMA CredentialKeepsRow ==
  ASSUME NEW row \in Row, NEW credential \in Credentials \cup {None}
  PROVE  [row EXCEPT !.secret.oauthCredential = credential] \in Row
  BY DEF Row, Secret

(* A credential at hand is refused by the row, or on its way to it.            *)
LEMMA StoreKeepsInv ==
  ASSUME IInv, NEW p \in Callers, StoreOAuthCredential(p)
  PROVE  IInv'
  <1> DEFINE f0 == flowOf[p]
             c0 == flows[f0].config
  <1>0. TypeOK BY DEF IInv
  <1>1. /\ call[p].pc \in {"exchange", "idle"}
        /\ p \in Flows => login[p] = "waiting"
        /\ p \notin Flows => call[p].pc = "exchange" /\ call[p].op = "store"
    BY DEF StoreOAuthCredential, HasCredential, IInv, FlowsFit, CallsFit
  <1>2. f0 # None /\ flows[f0] # NoFlow /\ c0 \in issued /\ f0 \in Flows
    <2>1. CASE p \in Flows BY <1>1, <2>1, OAuthAssumption DEF IInv, FlowsFit
    <2>2. CASE p \notin Flows
      <3>1. f0 # None /\ flows[f0] # NoFlow BY <1>1, <2>2 DEF IInv, WorkersFit
      <3>2. f0 \in Flows BY <1>0, <3>1 DEF TypeOK
      <3> QED BY <3>1, <3>2 DEF IInv, FlowsFit
    <2> QED BY <2>1, <2>2
  <1>3. /\ ReadForSecret(p, "store", flows[f0].userId, c0, p)
        /\ login' = IF p \in Flows THEN [login EXCEPT ![p] = "ended"] ELSE login
        /\ UNCHANGED <<rows, issued, faults, flowOf, stored>>
    BY DEF StoreOAuthCredential
  <1>4. CASE ~(Owned(flows[f0].userId, c0) /\ rows[c0].authMode = "oauth")
    <2>1. Answer(p, "store", "refused") BY <1>3, <1>4 DEF ReadForSecret
    <2>2. call'[p].pc = "done" BY <1>0, <2>1 DEF Answer, TypeOK, RegistryTypeOK
    <2>3. Settled(p, "error") BY <2>2 DEF StoreOAuthCredential
    <2>4. Settled(p, "refused") BY <2>3 DEF Settled
    <2>5. faults' \in 0..MaxFaults BY <1>0, <1>3 DEF TypeOK, RegistryTypeOK
    <2> QED BY <1>1, <1>2, <1>3, <2>1, <2>4, <2>5, SettleKeepsInv
  <1>5. CASE Owned(flows[f0].userId, c0) /\ rows[c0].authMode = "oauth"
    <2> DEFINE write == [rows[c0] EXCEPT !.secret.oauthCredential = p]
               new == [pc |-> "update", op |-> "store", config |-> c0, write |-> write,
                       answer |-> "none"]
    <2>1. call' = [call EXCEPT ![p] = new] BY <1>3, <1>5 DEF ReadForSecret, Goto
    <2>2. \A q \in Callers : call'[q] = IF q = p THEN new ELSE call[q]
      BY <1>0, <2>1 DEF TypeOK, RegistryTypeOK
    <2>3. UNCHANGED <<flows, codexFlowIdByState>>
      BY <2>2 DEF StoreOAuthCredential
    <2>4. c0 \in Configs BY <1>0, <1>2 DEF TypeOK, RegistryTypeOK
    <2>5. write \in Row
      <3>1. rows[c0] \in Row BY <1>0, <1>5, <2>4 DEF TypeOK, RegistryTypeOK, Owned
      <3>2. p \in Credentials \cup {None} BY OAuthAssumption
      <3> QED BY <3>1, <3>2, CredentialKeepsRow
    <2> HIDE DEF write
    <2>6. new \in Call BY <2>4, <2>5 DEF Call
    <2>7. \A f \in Flows : login'[f] = IF f = p THEN "ended" ELSE login[f]
      BY <1>0, <1>3 DEF TypeOK
    <2>8. TypeOK' BY <1>0, <1>3, <2>1, <2>2, <2>3, <2>6 DEF TypeOK, RegistryTypeOK
    <2>9. CallsFit' BY <1>2, <1>3, <2>2, <2>5 DEF CallsFit, IInv
    <2>10. RowsAreIssued' BY <1>3 DEF RowsAreIssued, IInv
    <2>11. FlowsFit'
      BY <1>1, <1>3, <2>2, <2>3, <2>7, OAuthAssumption DEF FlowsFit, IInv
    <2>12. WorkersFit' BY <1>2, <1>3, <2>2, <2>3 DEF WorkersFit, IInv
    <2>13. WrittenIsStored' BY <1>3, <2>2 DEF WrittenIsStored, IInv, StoredIn
    <2>14. RowFitsItsType' BY <1>3 DEF RowFitsItsType, Fits, IInv
    <2>15. CompletedFlowWasStored'
      BY <1>3, <2>3 DEF CompletedFlowWasStored, IInv, StoredIn
    <2>16. UnfinishedFlowKeepsItsState'
      <3>1. call[p].answer # "ok" BY <1>1 DEF IInv, CallsFit
      <3> QED BY <1>3, <2>2, <2>3, <3>1, OAuthAssumption DEF UnfinishedFlowKeepsItsState, IInv
    <2> QED BY <2>8, <2>9, <2>10, <2>11, <2>12, <2>13, <2>14, <2>15, <2>16 DEF IInv
  <1> QED BY <1>4, <1>5

(* A caller that takes up a flow: a callback, or a request that starts one.    *)
LEMMA CallbackKeepsInv ==
  ASSUME IInv, NEW p \in Requests, NEW f0 \in Flows, CallbackArrives(p, f0)
  PROVE  IInv'
  <1> DEFINE new == [pc |-> "exchange", op |-> "store", config |-> flows[f0].config,
                     write |-> NoRow, answer |-> "none"]
  <1>0. TypeOK BY DEF IInv
  <1>1. /\ call[p].pc = "idle" /\ flows[f0] # NoFlow
        /\ flowOf' = [flowOf EXCEPT ![p] = f0]
        /\ call' = [call EXCEPT ![p] = new]
        /\ UNCHANGED <<rows, issued, faults, flows, codexFlowIdByState, login, stored>>
    BY DEF CallbackArrives, Arrives, Goto
  <1>2. p \in Callers /\ p \notin Flows BY OAuthAssumption
  <1>3. \A q \in Callers : /\ call'[q] = IF q = p THEN new ELSE call[q]
                           /\ flowOf'[q] = IF q = p THEN f0 ELSE flowOf[q]
    BY <1>0, <1>1 DEF TypeOK, RegistryTypeOK
  <1>4. flowOf[p] = None /\ flowOf[f0] = f0 /\ flows[f0].config \in issued /\ f0 # None
    BY <1>1, OAuthAssumption DEF IInv, WorkersFit, FlowsFit
  <1>5. new \in Call BY <1>0, <1>4 DEF Call, TypeOK, RegistryTypeOK
  <1>6. TypeOK'
    BY <1>0, <1>1, <1>2, <1>3, <1>5 DEF TypeOK, RegistryTypeOK
  <1>7. CallsFit' BY <1>1, <1>3, <1>4 DEF CallsFit, IInv
  <1>8. RowsAreIssued' BY <1>1 DEF RowsAreIssued, IInv
  <1>9. FlowsFit' BY <1>1, <1>2, <1>3, OAuthAssumption DEF FlowsFit, IInv
  <1>10. WorkersFit'
    <2>1. \A q \in Callers : flowOf[q] # None => flowOf[q] \in Flows /\ flowOf[q] \in Callers
      BY <1>0, OAuthAssumption DEF TypeOK
    <2> QED BY <1>1, <1>2, <1>3, <1>4, <2>1, OAuthAssumption DEF WorkersFit, IInv
  <1>11. WrittenIsStored' BY <1>1, <1>3 DEF WrittenIsStored, IInv, StoredIn
  <1>12. RowFitsItsType' BY <1>1 DEF RowFitsItsType, Fits, IInv
  <1>13. CompletedFlowWasStored'
    <2> SUFFICES ASSUME NEW f \in Flows, flows[f].status = "completed"
                 PROVE  \E q \in Callers : flowOf'[q] = f /\ q \in StoredIn(flows[f].config)
      BY <1>1 DEF CompletedFlowWasStored, StoredIn
    <2>1. PICK q \in Callers : flowOf[q] = f /\ q \in StoredIn(flows[f].config)
      BY DEF CompletedFlowWasStored, IInv
    <2> QED BY <1>3, <1>4, <2>1, OAuthAssumption
  <1>14. UnfinishedFlowKeepsItsState'
    <2>1. call[p].answer # "ok" BY <1>1, <1>2 DEF IInv, CallsFit
    <2> QED BY <1>1, <1>3, <2>1, OAuthAssumption DEF UnfinishedFlowKeepsItsState, IInv
  <1> QED BY <1>6, <1>7, <1>8, <1>9, <1>10, <1>11, <1>12, <1>13, <1>14 DEF IInv

(* A request that starts a flow, of either kind.                               *)
Starts(p, f0, user, c, authUrl, new) ==
  /\ Arrives(p) /\ Owned(user, c) /\ Unused(f0)
  /\ Follows(p, new) /\ new.op = "start"
  /\ call' = [call EXCEPT ![p] = new]
  /\ flows' = [flows EXCEPT ![f0] = NewFlow(user, c, authUrl)]
  /\ flowOf' = [flowOf EXCEPT ![p] = f0, ![f0] = f0]
  /\ codexFlowIdByState \subseteq codexFlowIdByState' /\ codexFlowIdByState' \subseteq Flows
  /\ rows[c].providerType \in CodexTypes => f0 \in codexFlowIdByState'
  /\ \/ UNCHANGED login
     \/ /\ login' = [login EXCEPT ![f0] = "started"]
        /\ rows[c].providerType \in CopilotTypes
  /\ UNCHANGED <<rows, issued, faults, stored>>

(* It keeps the invariant.                                                     *)
LEMMA StartKeepsInv ==
  ASSUME IInv, NEW p \in Requests, NEW f0 \in Flows, NEW user \in Users, NEW c \in issued,
         NEW authUrl \in BOOLEAN, NEW new, Starts(p, f0, user, c, authUrl, new)
  PROVE  IInv'
  <1> DEFINE flow == NewFlow(user, c, authUrl)
  <1>0. TypeOK BY DEF IInv
  <1>1. p \in Callers /\ p \notin Flows /\ f0 \in Callers /\ f0 # None /\ f0 # p
    BY OAuthAssumption
  <1>2. call[p].pc = "idle" /\ flowOf[p] = None /\ flowOf[f0] = None
    BY <1>1 DEF Starts, Arrives, IInv, WorkersFit, Unused
  <1>3. c \in Configs /\ rows[c] \in Row /\ flows[f0] = NoFlow /\ login[f0] = "none"
        /\ call[f0].pc \notin {"update", "reread"}
    <2>1. c \in Configs /\ rows[c] \in Row
      BY <1>0 DEF Starts, TypeOK, RegistryTypeOK, Owned
    <2>2. flows[f0] = NoFlow BY <1>1, <1>2 DEF IInv, FlowsFit
    <2>3. login[f0] = "none" BY <2>2 DEF IInv, FlowsFit
    <2> QED BY <2>1, <2>2, <2>3 DEF IInv, FlowsFit
  <1>4. /\ flow \in Flow /\ flow.config = c /\ flow.type = rows[c].providerType
        /\ flow.status = "pending"
    BY <1>3 DEF NewFlow, Flow, Row
  <1> HIDE DEF flow
  <1>5. /\ \A q \in Callers : /\ call'[q] = IF q = p THEN new ELSE call[q]
                              /\ flowOf'[q] = IF q \in {p, f0} THEN f0 ELSE flowOf[q]
        /\ \A f \in Flows : /\ flows'[f] = IF f = f0 THEN flow ELSE flows[f]
                            /\ f # f0 => login'[f] = login[f]
        /\ login'[f0] # "none" => flow.type \in CopilotTypes
        /\ codexFlowIdByState \subseteq codexFlowIdByState'
        /\ rows[c].providerType \in CodexTypes => f0 \in codexFlowIdByState'
        /\ UNCHANGED <<rows, issued, faults, stored>>
        /\ Follows(p, new) /\ new.op = "start"
    BY <1>0, <1>1, <1>3, <1>4 DEF Starts, TypeOK, RegistryTypeOK, flow
  <1>6. TypeOK'
    <2>1. new \in Call BY DEF Starts, Follows
    <2>2. call' \in [Callers -> Call] BY <1>0, <2>1 DEF Starts, TypeOK, RegistryTypeOK
    <2>3. flows' \in [Flows -> Flow \cup {NoFlow}] BY <1>0, <1>4 DEF Starts, TypeOK, flow
    <2>4. flowOf' \in [Callers -> Flows \cup {None}] BY <1>0 DEF Starts, TypeOK
    <2>5. login' \in [Flows -> {"none", "started", "waiting", "ended"}] BY <1>0 DEF Starts, TypeOK
    <2> QED BY <1>0, <2>2, <2>3, <2>4, <2>5 DEF Starts, TypeOK, RegistryTypeOK
  <1>7. CallsFit' BY <1>5 DEF CallsFit, Follows, IInv
  <1>8. RowsAreIssued' BY <1>5 DEF RowsAreIssued, IInv
  <1>9. FlowsFit'
    <2> SUFFICES ASSUME NEW f \in Flows
                 PROVE  /\ flowOf'[f] \in {None, f}
                        /\ flows'[f] # NoFlow => flowOf'[f] = f /\ flows'[f].config \in issued
                        /\ login'[f] # "none" => flows'[f] # NoFlow /\ flows'[f].type \in CopilotTypes
                        /\ call'[f].pc \in {"idle", "update", "reread", "done"}
                        /\ call'[f].pc \in {"update", "reread"} =>
                             call'[f].op = "store" /\ login'[f] = "ended"
      BY <1>5 DEF FlowsFit
    <2>1. call'[f] = call[f] /\ f \in Callers /\ f # p BY <1>1, <1>5, OAuthAssumption
    <2>2. CASE f = f0
      BY <1>3, <1>4, <1>5, <2>1, <2>2, NoneIsApart DEF IInv, FlowsFit
    <2>3. CASE f # f0 BY <1>5, <2>1, <2>3 DEF IInv, FlowsFit
    <2> QED BY <2>2, <2>3
  <1>10. WorkersFit'
    <2> SUFFICES ASSUME NEW q \in Callers
                 PROVE  /\ flowOf'[q] # None => flowOf'[flowOf'[q]] = flowOf'[q]
                        /\ q \in Requests /\ call'[q].pc = "idle" => flowOf'[q] = None
                        /\ call'[q].op = "store" /\ call'[q].pc \in {"exchange", "update", "reread"} =>
                             /\ flowOf'[q] # None
                             /\ flows'[flowOf'[q]] # NoFlow
                             /\ flows'[flowOf'[q]].config = call'[q].config
      BY DEF WorkersFit
    <2>1. flowOf[q] # None => flowOf[q] \in Flows /\ flowOf[q] \in Callers /\ flowOf[q] # f0
      BY <1>0, <1>1, <1>2, OAuthAssumption DEF TypeOK, IInv, WorkersFit
    <2>2. CASE q = p BY <1>1, <1>5, <2>2 DEF Follows
    <2>3. CASE q = f0
      <3>1. call'[q] = call[q] /\ q \notin Requests BY <1>1, <1>5, <2>3, OAuthAssumption
      <3>2. ~(call[q].op = "store" /\ call[q].pc \in {"exchange", "update", "reread"})
        BY <1>2, <2>3 DEF IInv, WorkersFit
      <3> QED BY <1>1, <1>5, <2>3, <3>1, <3>2
    <2>4. CASE q \notin {p, f0}
      <3>1. flowOf'[q] = flowOf[q] /\ call'[q] = call[q] BY <1>5, <2>4
      <3>2. flowOf[q] # None => /\ flows'[flowOf[q]] = flows[flowOf[q]]
                                /\ flowOf[q] # p
        BY <1>1, <1>5, <2>1
      <3>3. flowOf[q] # None => flowOf'[flowOf[q]] = flowOf[flowOf[q]] BY <1>5, <2>1, <3>2
      <3> QED BY <3>1, <3>2, <3>3 DEF IInv, WorkersFit
    <2> QED BY <2>2, <2>3, <2>4
  <1>11. WrittenIsStored' BY <1>5 DEF WrittenIsStored, IInv, StoredIn, Follows
  <1>12. RowFitsItsType' BY <1>5 DEF RowFitsItsType, Fits, IInv
  <1>13. CompletedFlowWasStored'
    <2> SUFFICES ASSUME NEW f \in Flows, flows'[f].status = "completed"
                 PROVE  \E q \in Callers : flowOf'[q] = f /\ q \in StoredIn(flows'[f].config)
      BY <1>5 DEF CompletedFlowWasStored, StoredIn
    <2>1. f # f0 /\ flows'[f] = flows[f] BY <1>4, <1>5
    <2>2. PICK q \in Callers : flowOf[q] = f /\ q \in StoredIn(flows[f].config)
      BY <2>1 DEF CompletedFlowWasStored, IInv
    <2>3. f # None BY OAuthAssumption
    <2> QED BY <1>2, <1>5, <2>1, <2>2, <2>3
  <1>14. UnfinishedFlowKeepsItsState'
    <2> SUFFICES ASSUME NEW f \in Flows, flows'[f].type \in CodexTypes,
                        f \notin codexFlowIdByState'
                 PROVE  \E q \in Requests :
                          flowOf'[q] = f /\ call'[q].op = "store" /\ call'[q].answer = "ok"
      BY DEF UnfinishedFlowKeepsItsState
    <2>1. f # f0 /\ flows'[f] = flows[f] /\ f # None BY <1>4, <1>5, OAuthAssumption
    <2>2. PICK q \in Requests : flowOf[q] = f /\ call[q].op = "store" /\ call[q].answer = "ok"
      BY <1>5, <2>1 DEF UnfinishedFlowKeepsItsState, IInv
    <2>3. q \in Callers /\ q \notin {p, f0} BY <1>2, <2>1, <2>2, OAuthAssumption
    <2> QED BY <1>5, <2>2, <2>3
  <1> QED BY <1>6, <1>7, <1>8, <1>9, <1>10, <1>11, <1>12, <1>13, <1>14 DEF IInv

(* The device login shows its URL or fails.                                    *)
LEMMA LoginKeepsInv ==
  ASSUME IInv, NEW f0 \in Flows, LoginShowsUrl(f0) \/ LoginFails(f0)
  PROVE  IInv'
  <1>0. TypeOK BY DEF IInv
  <1>1. login[f0] # "none" BY DEF LoginShowsUrl, LoginFails
  <1>2. flows[f0] # NoFlow /\ flows[f0] \in Flow BY <1>0, <1>1 DEF TypeOK, IInv, FlowsFit
  <1>3. UNCHANGED <<registryVars, codexFlowIdByState, flowOf, stored>>
    BY DEF LoginShowsUrl, LoginFails
  <1>4. PICK new \in Flow, step \in {"waiting", "ended"} :
          /\ flows' = [flows EXCEPT ![f0] = new] /\ login' = [login EXCEPT ![f0] = step]
          /\ new.config = flows[f0].config /\ new.type = flows[f0].type
          /\ new.status = "completed" => flows[f0].status = "completed"
          /\ login[f0] # "ended"
    <2>1. CASE LoginShowsUrl(f0)
      <3> DEFINE new == [flows[f0] EXCEPT !.authUrl = TRUE]
      <3>1. new \in Flow /\ new.config = flows[f0].config /\ new.type = flows[f0].type
            /\ new.status = flows[f0].status
        BY <1>2 DEF Flow
      <3> QED BY <2>1, <3>1 DEF LoginShowsUrl
    <2>2. CASE LoginFails(f0)
      <3> DEFINE new == [flows[f0] EXCEPT !.status = "failed"]
      <3>1. new \in Flow /\ new.config = flows[f0].config /\ new.type = flows[f0].type
            /\ new.status = "failed"
        BY <1>2 DEF Flow
      <3> QED BY <2>2, <3>1 DEF LoginFails
    <2> QED BY <2>1, <2>2
  <1>5. \A f \in Flows : /\ flows'[f] = IF f = f0 THEN new ELSE flows[f]
                         /\ login'[f] = IF f = f0 THEN step ELSE login[f]
                         /\ flows'[f] = NoFlow <=> flows[f] = NoFlow
                         /\ flows'[f].config = flows[f].config
                         /\ flows'[f].type = flows[f].type
    BY <1>0, <1>2, <1>4, NoneIsApart DEF TypeOK
  <1>6. TypeOK'
    <2>1. flows' \in [Flows -> Flow \cup {NoFlow}] BY <1>0, <1>4 DEF TypeOK
    <2>2. login' \in [Flows -> {"none", "started", "waiting", "ended"}] BY <1>0, <1>4 DEF TypeOK
    <2> QED BY <1>0, <1>3, <2>1, <2>2 DEF TypeOK, RegistryTypeOK
  <1>7. CallsFit' /\ RowsAreIssued' /\ RowFitsItsType'
    BY <1>3 DEF CallsFit, RowsAreIssued, RowFitsItsType, Fits, IInv
  <1>8. FlowsFit' BY <1>1, <1>3, <1>4, <1>5 DEF FlowsFit, IInv
  <1>9. WorkersFit'
    <2>1. \A q \in Callers : flowOf[q] # None => flowOf[q] \in Flows BY <1>0 DEF TypeOK
    <2> QED BY <1>3, <1>5, <2>1 DEF WorkersFit, IInv
  <1>10. WrittenIsStored' BY <1>3 DEF WrittenIsStored, IInv, StoredIn
  <1>11. CompletedFlowWasStored'
    <2> SUFFICES ASSUME NEW f \in Flows, flows'[f].status = "completed"
                 PROVE  \E q \in Callers : flowOf[q] = f /\ q \in StoredIn(flows[f].config)
      BY <1>3, <1>5 DEF CompletedFlowWasStored, StoredIn
    <2>1. flows[f].status = "completed" BY <1>4, <1>5
    <2> QED BY <2>1 DEF CompletedFlowWasStored, IInv
  <1>12. UnfinishedFlowKeepsItsState' BY <1>3, <1>5 DEF UnfinishedFlowKeepsItsState, IInv
  <1> QED BY <1>6, <1>7, <1>8, <1>9, <1>10, <1>11, <1>12 DEF IInv

(* A restart drops the calls and the flows.                                    *)
LEMMA RestartKeepsInv ==
  ASSUME IInv, Restart
  PROVE  IInv'
  <1>0. TypeOK BY DEF IInv
  <1>1. \A q \in Callers :
          /\ call[q].pc = "idle" => /\ call'[q].pc = "idle" /\ call'[q].op = "none"
                                    /\ call'[q].answer = "none"
          /\ call[q].pc # "idle" => call'[q].pc = "done"
          /\ call'[q] \in Call
    <2> SUFFICES ASSUME NEW q \in Callers
                 PROVE  /\ call[q].pc = "idle" => /\ call'[q].pc = "idle" /\ call'[q].op = "none"
                                                  /\ call'[q].answer = "none"
                        /\ call[q].pc # "idle" => call'[q].pc = "done"
                        /\ call'[q] \in Call
      OBVIOUS
    <2>1. call'[q] = IF call[q].pc = "idle" THEN Idle
                     ELSE [call[q] EXCEPT !.pc = "done", !.write = NoRow]
      BY DEF Restart
    <2>2. call[q] \in Call BY <1>0 DEF TypeOK, RegistryTypeOK
    <2>3. [call[q] EXCEPT !.pc = "done", !.write = NoRow] \in Call
          /\ [call[q] EXCEPT !.pc = "done", !.write = NoRow].pc = "done"
      BY <2>2 DEF Call
    <2>4. Idle \in Call /\ Idle.pc = "idle" /\ Idle.op = "none" /\ Idle.answer = "none"
      BY DEF Idle, Call
    <2> QED BY <2>1, <2>3, <2>4
  <1>2. /\ \A f \in Flows : flows'[f] = NoFlow /\ login'[f] = "none"
        /\ flows' \in [Flows -> {NoFlow}] /\ login' \in [Flows -> {"none"}]
        /\ codexFlowIdByState' = {}
        /\ UNCHANGED <<rows, issued, flowOf, stored>>
    BY DEF Restart
  <1>3. faults' \in 0..MaxFaults
    <2>1. faults < MaxFaults /\ faults' = faults + 1 BY DEF Restart
    <2>2. faults \in 0..MaxFaults BY <1>0 DEF TypeOK, RegistryTypeOK
    <2> QED BY <2>1, <2>2, CatalogAssumption
  <1>4. TypeOK'
    <2>1. call' \in [Callers -> Call] BY <1>1 DEF Restart
    <2> QED BY <1>0, <1>2, <1>3, <2>1 DEF TypeOK, RegistryTypeOK
  <1>5. CallsFit' BY <1>1 DEF CallsFit
  <1>6. RowsAreIssued' /\ RowFitsItsType'
    BY <1>2 DEF RowsAreIssued, RowFitsItsType, Fits, IInv
  <1>7. FlowsFit' BY <1>1, <1>2, OAuthAssumption DEF FlowsFit, IInv
  <1>8. WorkersFit' BY <1>1, <1>2 DEF WorkersFit, IInv
  <1>9. WrittenIsStored' BY <1>1 DEF WrittenIsStored
  <1>10. CompletedFlowWasStored' BY <1>2, NoneIsApart DEF CompletedFlowWasStored
  <1>11. UnfinishedFlowKeepsItsState' BY <1>2, NoneIsApart DEF UnfinishedFlowKeepsItsState
  <1> QED BY <1>4, <1>5, <1>6, <1>7, <1>8, <1>9, <1>10, <1>11 DEF IInv

(* Operations of the registry that arrive.                                     *)
LEMMA ArrivalKeepsInv ==
  ASSUME IInv, NEW p \in Requests, NEW user \in Users,
         \/ \E input \in Inputs :
              \/ CreateProviderConfig(p, user, input)
              \/ \E c \in Configs : UpdateProviderConfig(p, user, c, input)
         \/ \E c \in Configs : ClearOAuthCredential(p, user, c) \/ DeleteProviderConfig(p, user, c),
         UNCHANGED <<oauthVars, stored>>
  PROVE  IInv'
  <1>0. TypeOK /\ p \in Callers /\ p \notin Flows BY OAuthAssumption DEF IInv
  <1>1. call[p].pc = "idle" /\ faults' = faults /\ faults \in 0..MaxFaults
    BY <1>0 DEF CreateProviderConfig, UpdateProviderConfig, ClearOAuthCredential,
                DeleteProviderConfig, Arrives, TypeOK, RegistryTypeOK
  <1>2. ASSUME NEW op \in {"create", "patch", "clear", "delete"}, Answer(p, op, "refused"),
               UNCHANGED <<rows, issued>>
        PROVE  IInv'
    <2> DEFINE new == [pc |-> "done", op |-> op, config |-> None, write |-> NoRow,
                       answer |-> "refused"]
    <2>1. Follows(p, new) BY <1>0 DEF Follows, Call
    <2>2. call' = [call EXCEPT ![p] = new] BY <1>2 DEF Answer
    <2>3. new.op # "store" OBVIOUS
    <2> HIDE DEF new
    <2> QED BY <1>0, <1>1, <1>2, <2>1, <2>2, <2>3, MoveKeepsInv
  <1>3. ASSUME NEW op \in {"patch", "clear", "delete"}, NEW pc \in {"update", "delete"},
               NEW c \in issued, NEW write \in Row \cup {NoRow},
               pc = "update" => write \in Row, op = "patch" => Fits(write),
               Goto(p, pc, op, c, write), UNCHANGED <<rows, issued>>
        PROVE  IInv'
    <2> DEFINE new == [pc |-> pc, op |-> op, config |-> c, write |-> write, answer |-> "none"]
    <2>1. c \in Configs BY <1>0 DEF TypeOK, RegistryTypeOK
    <2>2. Follows(p, new) BY <1>0, <1>3, <2>1 DEF Follows, Call
    <2>3. call' = [call EXCEPT ![p] = new] BY <1>3 DEF Goto
    <2>4. new.op # "store" OBVIOUS
    <2> HIDE DEF new
    <2> QED BY <1>0, <1>1, <1>3, <2>2, <2>3, <2>4, MoveKeepsInv
  <1>4. ASSUME NEW input \in Inputs, CreateProviderConfig(p, user, input) PROVE IInv'
    <2>1. CASE ~ValidInput(NoRow, input) BY <1>2, <1>4, <2>1 DEF CreateProviderConfig
    <2>2. CASE ValidInput(NoRow, input)
      <3> DEFINE row == NormalizedRow(user, NoRow, input)
      <3>1. PICK c \in Configs \ issued :
              /\ rows' = [rows EXCEPT ![c] = row]
              /\ issued' = issued \cup {c}
              /\ Goto(p, "reread", "create", c, NoRow)
        BY <1>4, <2>2 DEF CreateProviderConfig
      <3> DEFINE new == [pc |-> "reread", op |-> "create", config |-> c, write |-> NoRow,
                         answer |-> "none"]
      <3>2. call' = [call EXCEPT ![p] = new] BY <3>1 DEF Goto
      <3>3. row \in Row /\ Fits(row) BY <2>2, NormalizedIsARow
      <3> HIDE DEF row
      <3>4. /\ \A d \in Configs : rows'[d] = IF d = c THEN row ELSE rows[d]
            /\ \A q \in Callers : call'[q] = IF q = p THEN new ELSE call[q]
        BY <1>0, <3>1, <3>2 DEF TypeOK, RegistryTypeOK
      <3>5. new \in Call BY <3>1 DEF Call
      <3>6. TypeOK' BY <1>0, <1>1, <3>1, <3>2, <3>3, <3>5 DEF TypeOK, RegistryTypeOK
      <3>7. CallsFit' BY <3>1, <3>4 DEF CallsFit, IInv
      <3>8. RowsAreIssued' BY <3>1, <3>4 DEF RowsAreIssued, IInv
      <3>9. FlowsFit' BY <1>0, <3>1, <3>4, OAuthAssumption DEF FlowsFit, IInv
      <3>10. WorkersFit' BY <3>1, <3>4 DEF WorkersFit, IInv
      <3>11. WrittenIsStored'
        <4>1. \A q \in Callers : call[q].pc = "reread" =>
                call[q].config # c /\ call[q].config \in Configs
          BY <1>0, <3>1 DEF IInv, CallsFit, TypeOK, RegistryTypeOK
        <4> QED BY <3>4, <4>1 DEF WrittenIsStored, IInv, StoredIn
      <3>12. RowFitsItsType'
        <4> SUFFICES ASSUME NEW d \in Configs, rows'[d] # NoRow PROVE Fits(rows'[d])
          BY DEF RowFitsItsType, Fits
        <4> QED BY <3>3, <3>4 DEF RowFitsItsType, IInv
      <3>13. CompletedFlowWasStored' BY DEF CompletedFlowWasStored, IInv, StoredIn
      <3>14. UnfinishedFlowKeepsItsState'
        <4>1. call[p].answer # "ok" BY <1>0, <1>1 DEF IInv, CallsFit
        <4> QED BY <3>4, <4>1, OAuthAssumption DEF UnfinishedFlowKeepsItsState, IInv
      <3> QED BY <3>6, <3>7, <3>8, <3>9, <3>10, <3>11, <3>12, <3>13, <3>14 DEF IInv
    <2> QED BY <2>1, <2>2
  <1>5. ASSUME NEW input \in Inputs, NEW c \in Configs, UpdateProviderConfig(p, user, c, input)
        PROVE  IInv'
    <2>1. CASE ~(Owned(user, c) /\ ValidInput(rows[c], input))
      BY <1>2, <1>5, <2>1 DEF UpdateProviderConfig
    <2>2. CASE Owned(user, c) /\ ValidInput(rows[c], input)
      <3>1. rows[c] \in Row \cup {NoRow} BY <1>0 DEF TypeOK, RegistryTypeOK
      <3>2. /\ NormalizedRow(user, rows[c], input) \in Row
            /\ Fits(NormalizedRow(user, rows[c], input))
        BY <2>2, <3>1, NormalizedIsARow
      <3> QED BY <1>3, <1>5, <2>2, <3>2 DEF UpdateProviderConfig
    <2> QED BY <2>1, <2>2
  <1>6. ASSUME NEW c \in Configs, ClearOAuthCredential(p, user, c) PROVE IInv'
    <2>1. CASE ~(Owned(user, c) /\ rows[c].authMode = "oauth")
      BY <1>2, <1>6, <2>1 DEF ClearOAuthCredential, ReadForSecret
    <2>2. CASE Owned(user, c) /\ rows[c].authMode = "oauth"
      <3>1. rows[c] \in Row BY <1>0, <2>2 DEF TypeOK, RegistryTypeOK, Owned
      <3>2. [rows[c] EXCEPT !.secret.oauthCredential = None] \in Row
        BY <3>1, CredentialKeepsRow
      <3>3. /\ Goto(p, "update", "clear", c, [rows[c] EXCEPT !.secret.oauthCredential = None])
            /\ c \in issued /\ UNCHANGED <<rows, issued>>
        BY <1>6, <2>2 DEF ClearOAuthCredential, ReadForSecret
      <3> QED BY <1>3, <3>2, <3>3
    <2> QED BY <2>1, <2>2
  <1>7. ASSUME NEW c \in Configs, DeleteProviderConfig(p, user, c) PROVE IInv'
    BY <1>2, <1>3, <1>7 DEF DeleteProviderConfig
  <1> QED BY <1>4, <1>5, <1>6, <1>7

(* Appending to a sequence adds one to what it holds.                          *)
LEMMA AppendAdds ==
  ASSUME NEW S, NEW seq \in Seq(S), NEW e \in S
  PROVE  {Append(seq, e)[i] : i \in 1..Len(Append(seq, e))} = {seq[i] : i \in 1..Len(seq)} \cup {e}
  <1>1. Len(Append(seq, e)) = Len(seq) + 1 /\ Len(seq) \in Nat OBVIOUS
  <1>2. \A i \in 1..Len(seq) : Append(seq, e)[i] = seq[i] OBVIOUS
  <1>3. Append(seq, e)[Len(seq) + 1] = e OBVIOUS
  <1>4. 1..(Len(seq) + 1) = (1..Len(seq)) \cup {Len(seq) + 1} BY <1>1
  <1> QED BY <1>1, <1>2, <1>3, <1>4

(* The UPDATE of a PATCH, a store or a clear.                                  *)
LEMMA WriteKeepsInv ==
  ASSUME IInv, NEW p \in Callers, Write(p)
  PROVE  IInv'
  <1>c. PICK c \in Configs : c = call[p].config
    BY DEF Write, WriteRow, IInv, CallsFit, TypeOK, RegistryTypeOK
  <1> DEFINE row == Updated(rows[c], call[p].op, call[p].write)
             storing == call[p].op = "store" /\ rows[c] # NoRow
             new == [call[p] EXCEPT !.pc = "reread", !.write = NoRow]
  <1>0. TypeOK BY DEF IInv
  <1>1. /\ call[p].pc = "update"
        /\ rows' = [rows EXCEPT ![c] = row]
        /\ call' = [call EXCEPT ![p].pc = "reread", ![p].write = NoRow]
        /\ stored' = IF storing THEN [stored EXCEPT ![c] = Append(@, p)] ELSE stored
        /\ UNCHANGED <<issued, faults, oauthVars>>
    BY <1>c DEF Write, WriteRow
  <1>u. call[p].pc = "update" /\ UNCHANGED <<issued, faults, oauthVars>> BY <1>1
  <1>2. c \in Configs /\ c \in issued /\ call[p].write \in Row /\ call[p] \in Call
    BY <1>0, <1>1, <1>c DEF IInv, CallsFit, TypeOK, RegistryTypeOK
  <1>3. /\ row \in Row \cup {NoRow} /\ (row # NoRow => Fits(row))
        /\ (row = NoRow <=> rows[c] = NoRow)
    <2>1. rows[c] \in Row \cup {NoRow} BY <1>0, <1>2 DEF TypeOK, RegistryTypeOK
    <2>2. rows[c] # NoRow => Fits(rows[c]) BY <1>2 DEF IInv, RowFitsItsType
    <2>3. call[p].op = "patch" => Fits(call[p].write) BY <1>1 DEF IInv, CallsFit
    <2> QED BY <1>2, <2>1, <2>2, <2>3, UpdatedIsARow
  <1> HIDE DEF row
  <1>4. /\ new \in Call /\ new.pc = "reread" /\ new.op = call[p].op /\ new.config = c
        /\ new.answer = call[p].answer
    BY <1>2, <1>c DEF Call
  <1>5. call' = [call EXCEPT ![p] = new] BY <1>0, <1>1, <1>2 DEF TypeOK, RegistryTypeOK, Call
  <1> HIDE DEF new
  <1>6. /\ \A q \in Callers : call'[q] = IF q = p THEN new ELSE call[q]
        /\ \A d \in Configs : rows'[d] = IF d = c THEN row ELSE rows[d]
    BY <1>0, <1>1, <1>5 DEF TypeOK, RegistryTypeOK
  <1>7. /\ stored' \in [Configs -> Seq(Callers)]
        /\ \A d \in Configs : StoredIn(d) \subseteq StoredIn(d)'
        /\ storing => p \in StoredIn(c)'
    <2>1. CASE storing
      <3>1. stored[c] \in Seq(Callers) BY <1>0, <1>2 DEF TypeOK
      <3>2. stored'[c] = Append(stored[c], p) BY <1>0, <1>1, <1>2, <2>1 DEF TypeOK
      <3>3. StoredIn(c)' = StoredIn(c) \cup {p} BY <3>1, <3>2, AppendAdds DEF StoredIn
      <3>4. \A d \in Configs : d # c => stored'[d] = stored[d]
        BY <1>0, <1>1, <2>1 DEF TypeOK
      <3>5. \A d \in Configs : d # c => StoredIn(d)' = StoredIn(d) BY <3>4 DEF StoredIn
      <3>6. Append(stored[c], p) \in Seq(Callers) BY <3>1
      <3>7. stored' \in [Configs -> Seq(Callers)] BY <1>0, <1>1, <2>1, <3>6 DEF TypeOK
      <3> QED BY <3>3, <3>5, <3>7
    <2>2. CASE ~storing BY <1>0, <1>1, <2>2 DEF TypeOK, StoredIn
    <2> QED BY <2>1, <2>2
  <1>8. TypeOK'
    <2>1. call' \in [Callers -> Call] BY <1>0, <1>4, <1>5 DEF TypeOK, RegistryTypeOK
    <2>2. rows' \in [Configs -> Row \cup {NoRow}] BY <1>0, <1>1, <1>3 DEF TypeOK, RegistryTypeOK
    <2> QED BY <1>0, <1>1, <1>7, <2>1, <2>2 DEF TypeOK, RegistryTypeOK
  <1>9. CallsFit' BY <1>u, <1>2, <1>4, <1>6 DEF CallsFit, IInv
  <1>10. RowsAreIssued' BY <1>u, <1>2, <1>6 DEF RowsAreIssued, IInv
  <1>11. FlowsFit' BY <1>u, <1>4, <1>6, OAuthAssumption DEF FlowsFit, IInv
  <1>12. WorkersFit' BY <1>u, <1>c, <1>4, <1>6 DEF WorkersFit, IInv
  <1>13. WrittenIsStored'
    <2>1. \A q \in Callers : call'[q].pc = "reread" => call'[q].config \in Configs
      BY <1>0, <1>2, <1>4, <1>6 DEF IInv, CallsFit, TypeOK, RegistryTypeOK
    <2>2. ASSUME NEW q \in Callers, NEW d \in Configs, d = call'[q].config,
                 call'[q].pc = "reread", call'[q].op = "store", rows'[d] # NoRow
          PROVE  q \in StoredIn(d)'
      <3>1. CASE q = p BY <1>2, <1>3, <1>4, <1>6, <1>7, <2>2, <3>1
      <3>2. CASE q # p
        <4>1. call'[q] = call[q] BY <1>6, <3>2
        <4>2. rows[d] # NoRow BY <1>3, <1>6, <2>2
        <4>3. q \in StoredIn(d) BY <2>2, <4>1, <4>2 DEF IInv, WrittenIsStored
        <4> QED BY <1>7, <4>3
      <3> QED BY <3>1, <3>2
    <2> QED BY <2>1, <2>2 DEF WrittenIsStored, StoredIn
  <1>14. RowFitsItsType'
    <2> SUFFICES ASSUME NEW d \in Configs, rows'[d] # NoRow PROVE Fits(rows'[d])
      BY DEF RowFitsItsType, Fits
    <2> QED BY <1>3, <1>6 DEF RowFitsItsType, IInv
  <1>15. CompletedFlowWasStored'
    <2>1. ASSUME NEW f \in Flows, NEW d \in Configs, d = flows[f].config,
                 flows[f].status = "completed"
          PROVE  \E q \in Callers : flowOf[q] = f /\ q \in StoredIn(d)'
      <3>1. PICK q \in Callers : flowOf[q] = f /\ q \in StoredIn(d)
        BY <2>1 DEF CompletedFlowWasStored, IInv
      <3> QED BY <1>7, <3>1
    <2>2. \A f \in Flows : flows[f].status = "completed" => flows[f].config \in Configs
      BY <1>0, NoneIsApart DEF TypeOK, Flow
    <2> QED BY <1>u, <2>1, <2>2 DEF CompletedFlowWasStored, StoredIn
  <1>16. UnfinishedFlowKeepsItsState'
    <2>1. call[p].answer # "ok" BY <1>u DEF IInv, CallsFit
    <2> QED BY <1>u, <1>4, <1>6, <2>1, OAuthAssumption DEF UnfinishedFlowKeepsItsState, IInv
  <1> QED BY <1>8, <1>9, <1>10, <1>11, <1>12, <1>13, <1>14, <1>15, <1>16 DEF IInv

(* The DELETE of a row.                                                        *)
LEMMA RemoveKeepsInv ==
  ASSUME IInv, NEW p \in Requests, Remove(p)
  PROVE  IInv'
  <1> DEFINE c == call[p].config
             new == [pc |-> "done", op |-> "delete", config |-> None, write |-> NoRow,
                     answer |-> "ok"]
  <1>0. TypeOK /\ p \in Callers /\ p \notin Flows BY OAuthAssumption DEF IInv
  <1>1. /\ call[p].pc = "delete"
        /\ rows' = [rows EXCEPT ![c] = NoRow]
        /\ call' = [call EXCEPT ![p] = new]
        /\ UNCHANGED <<issued, faults, oauthVars, stored>>
    BY DEF Remove, DeleteRow, Answer
  <1>2. /\ \A q \in Callers : call'[q] = IF q = p THEN new ELSE call[q]
        /\ \A d \in Configs : rows'[d] = IF d = c THEN NoRow ELSE rows[d]
    BY <1>0, <1>1 DEF TypeOK, RegistryTypeOK
  <1>3. new \in Call BY DEF Call
  <1>4. TypeOK' BY <1>0, <1>1, <1>3 DEF TypeOK, RegistryTypeOK
  <1>5. CallsFit' BY <1>1, <1>2 DEF CallsFit, IInv
  <1>6. RowsAreIssued' BY <1>1, <1>2 DEF RowsAreIssued, IInv
  <1>7. FlowsFit' BY <1>0, <1>1, <1>2, OAuthAssumption DEF FlowsFit, IInv
  <1>8. WorkersFit' BY <1>1, <1>2 DEF WorkersFit, IInv
  <1>9. WrittenIsStored'
    <2>1. \A q \in Callers : call[q].pc = "reread" => call[q].config \in Configs
      BY <1>0 DEF IInv, CallsFit, TypeOK, RegistryTypeOK
    <2> QED BY <1>1, <1>2, <2>1 DEF WrittenIsStored, IInv, StoredIn
  <1>10. RowFitsItsType'
    <2> SUFFICES ASSUME NEW d \in Configs, rows'[d] # NoRow PROVE Fits(rows'[d])
      BY DEF RowFitsItsType, Fits
    <2> QED BY <1>2 DEF RowFitsItsType, IInv
  <1>11. CompletedFlowWasStored' BY <1>1 DEF CompletedFlowWasStored, IInv, StoredIn
  <1>12. UnfinishedFlowKeepsItsState'
    <2>1. call[p].op # "store" BY <1>0, <1>1 DEF IInv, CallsFit
    <2> QED BY <1>1, <1>2, <2>1, OAuthAssumption DEF UnfinishedFlowKeepsItsState, IInv
  <1> QED BY <1>4, <1>5, <1>6, <1>7, <1>8, <1>9, <1>10, <1>11, <1>12 DEF IInv

-------------------------------------------------------------------------------
(* Every step keeps the invariant.                                             *)
LEMMA StepKeepsInv == IInv /\ [Next]_vars => IInv'
  <1> SUFFICES ASSUME IInv, [Next]_vars PROVE IInv' OBVIOUS
  <1>0. TypeOK /\ Requests \subseteq Callers /\ Requests \cap Flows = {}
        /\ faults \in 0..MaxFaults
    BY OAuthAssumption DEF IInv, TypeOK, RegistryTypeOK
  <1>1. ASSUME NEW p \in Requests, RequestNext(p) PROVE IInv'
    <2>1. CASE RequestStep(p) BY <2>1, ArrivalKeepsInv DEF RequestStep
    <2>2. CASE Remove(p) BY <2>2, RemoveKeepsInv
    <2>3. ASSUME NEW op \in {"start", "store"}, NEW answer \in {"ok", "refused", "error"},
                 Answer(p, op, answer), call[p].pc # "done",
                 UNCHANGED <<rows, issued, faults, oauthVars, stored>>
          PROVE  IInv'
      <3> DEFINE new == [pc |-> "done", op |-> op, config |-> None, write |-> NoRow,
                         answer |-> answer]
      <3>1. Follows(p, new) BY <1>0 DEF Follows, Call
      <3>2. call' = [call EXCEPT ![p] = new] BY <2>3 DEF Answer
      <3>3. new.pc = "done" OBVIOUS
      <3> HIDE DEF new
      <3> QED BY <1>0, <2>3, <3>1, <3>2, <3>3, MoveKeepsInv
    <2>4. CASE PollStart(p) BY <2>3, <2>4 DEF PollStart
    <2>5. CASE CallbackRefused(p) BY <2>3, <2>5 DEF CallbackRefused, Arrives
    <2>6. CASE ExchangeFails(p) BY <1>0, <2>6, AnswerKeepsInv
    <2>7. ASSUME NEW f \in Flows, CallbackArrives(p, f) PROVE IInv' BY <2>7, CallbackKeepsInv
    <2>8. ASSUME NEW user \in Users, NEW c \in Configs, StartRefused(p, user, c) PROVE IInv'
      BY <2>3, <2>8 DEF StartRefused, Arrives
    <2>9. ASSUME NEW user \in Users, NEW c \in Configs, NEW f \in Flows,
                 StartCodexFlow(p, f, user, c)
          PROVE  IInv'
      <3> DEFINE new == [pc |-> "done", op |-> "start", config |-> None, write |-> NoRow,
                         answer |-> "ok"]
      <3>1. Follows(p, new) BY <1>0 DEF Follows, Call
      <3>2. call' = [call EXCEPT ![p] = new] /\ c \in issued
        BY <2>9 DEF StartCodexFlow, Answer
      <3>3. new.op = "start" OBVIOUS
      <3> HIDE DEF new
      <3>4. Starts(p, f, user, c, TRUE, new)
        BY <1>0, <2>9, <3>1, <3>2, <3>3 DEF Starts, StartCodexFlow, TypeOK
      <3> QED BY <3>2, <3>4, StartKeepsInv
    <2>10. ASSUME NEW user \in Users, NEW c \in Configs, NEW f \in Flows,
                  StartCopilotFlow(p, f, user, c)
           PROVE  IInv'
      <3> DEFINE new == [pc |-> "polling", op |-> "start", config |-> c, write |-> NoRow,
                         answer |-> "none"]
      <3>1. call' = [call EXCEPT ![p] = new] /\ c \in issued
        BY <2>10 DEF StartCopilotFlow, Goto
      <3>2. Follows(p, new) BY <1>0, <3>1 DEF Follows, Call
      <3>3. new.op = "start" OBVIOUS
      <3> HIDE DEF new
      <3>4. rows[c].providerType \notin CodexTypes
        BY <2>10, OAuthAssumption DEF StartCopilotFlow
      <3>5. Starts(p, f, user, c, FALSE, new)
        BY <1>0, <2>10, <3>1, <3>2, <3>3, <3>4 DEF Starts, StartCopilotFlow, TypeOK
      <3> QED BY <3>1, <3>5, StartKeepsInv
    <2> QED BY <1>1, <2>1, <2>2, <2>4, <2>5, <2>6, <2>7, <2>8, <2>9, <2>10 DEF RequestNext
  <1>2. ASSUME NEW p \in Callers,
               StoreOAuthCredential(p) \/ Write(p) \/ ReadBack(p) \/ Fault(p)
        PROVE  IInv'
    BY <1>2, StoreKeepsInv, WriteKeepsInv, AnswerKeepsInv
  <1>3. ASSUME NEW f \in Flows, LoginShowsUrl(f) \/ LoginFails(f) PROVE IInv'
    BY <1>3, LoginKeepsInv
  <1>4. CASE Restart BY <1>4, RestartKeepsInv
  <1>5. CASE UNCHANGED vars
    BY <1>5 DEF vars, IInv, TypeOK, RegistryTypeOK, CallsFit, RowsAreIssued, FlowsFit, WorkersFit,
         WrittenIsStored, RowFitsItsType, Fits, CompletedFlowWasStored, StoredIn,
         UnfinishedFlowKeepsItsState
  <1> QED BY <1>1, <1>2, <1>3, <1>4, <1>5 DEF Next

(* The invariant holds of any table of rows that requests have created.        *)
LEMMA InitHasInv == Init => IInv
  <1> SUFFICES ASSUME Init PROVE IInv OBVIOUS
  <1>1. \A c \in Configs : rows[c] \in Row \cup {NoRow} /\ (rows[c] # NoRow => Fits(rows[c]))
    <2> TAKE c \in Configs
    <2>1. CASE rows[c] = NoRow BY <2>1
    <2>2. CASE rows[c] # NoRow
      <3>1. PICK u \in Users, input \in {i \in Inputs : ValidInput(NoRow, i)} :
              rows[c] = NormalizedRow(u, NoRow, input)
        BY <2>2 DEF Init
      <3> QED BY <3>1, NormalizedIsARow
    <2> QED BY <2>1, <2>2
  <1>2. rows \in [Configs -> Row \cup {NoRow}] BY <1>1 DEF Init
  <1>3. Idle \in Call /\ Idle.pc = "idle" /\ Idle.op = "none" /\ Idle.answer = "none"
    BY DEF Idle, Call
  <1>4. TypeOK
    <2>1. call \in [Callers -> Call] BY <1>3 DEF Init
    <2>2. stored \in [Configs -> Seq(Callers)] BY DEF Init
    <2>3. faults \in 0..MaxFaults BY CatalogAssumption DEF Init
    <2> QED BY <1>2, <2>1, <2>2, <2>3 DEF Init, TypeOK, RegistryTypeOK
  <1>5. CallsFit /\ WrittenIsStored BY <1>3 DEF Init, CallsFit, WrittenIsStored
  <1>6. RowsAreIssued BY DEF Init, RowsAreIssued
  <1>7. FlowsFit /\ WorkersFit BY <1>3, OAuthAssumption DEF Init, FlowsFit, WorkersFit
  <1>8. RowFitsItsType BY <1>1 DEF RowFitsItsType
  <1>9. CompletedFlowWasStored /\ UnfinishedFlowKeepsItsState
    BY NoneIsApart DEF Init, CompletedFlowWasStored, UnfinishedFlowKeepsItsState
  <1> QED BY <1>4, <1>5, <1>6, <1>7, <1>8, <1>9 DEF IInv

(* The inductive invariant of rows, calls and flows.                           *)
THEOREM Invariance == Spec => []IInv
  BY InitHasInv, StepKeepsInv, PTL DEF Spec

(* Every row, call and flow keeps its type, above all every row is complete,   *)
(* whichever updates overlap (llm-provider-service.ts:234-303).                *)
THEOREM TypeCorrect == Spec => []TypeOK
  <1>1. IInv => TypeOK BY DEF IInv
  <1> QED BY <1>1, Invariance, PTL

(* A row has the auth mode of its type, the API type and a base URL where its  *)
(* type asks for them, and a choice of models that fits together, whichever    *)
(* updates overlap (llm-provider-service.ts:260-289).                          *)
THEOREM RowsFitTheirType == Spec => []RowFitsItsType
  <1>1. IInv => RowFitsItsType BY DEF IInv
  <1> QED BY <1>1, Invariance, PTL

(* A row the validate route calls valid is one a session can start with        *)
(* (llm-provider-service.ts:348 and :412).                                     *)
THEOREM ValidRowsResolve == Spec => []ValidRowResolves
  <1>1. IInv => ValidRowResolves
    <2> SUFFICES ASSUME IInv, NEW c \in Configs, rows[c] # NoRow, rows[c].enabled,
                        validateProviderConfig(rows[c])
                 PROVE  resolveProviderSelectionForSession(rows[c], rows[c].userId, None, None, TRUE)
      BY DEF ValidRowResolves
    <2>1. Supports(rows[c].availableModels, rows[c].defaultModelId, rows[c].defaultThinkingLevel)
      BY DEF IInv, RowFitsItsType, Fits
    <2>2. PicksModel(rows[c], None, None, TRUE) BY <2>1 DEF Supports, PicksModel, Given
    <2> QED BY <2>2 DEF validateProviderConfig, resolveProviderSelectionForSession
  <1> QED BY <1>1, Invariance, PTL

(* A flow that says completed has had its credential written to its row        *)
(* (llm-provider-oauth-service.ts:212-216).                                    *)
THEOREM CompletionsWereStored == Spec => []CompletedFlowWasStored
  <1>1. IInv => CompletedFlowWasStored BY DEF IInv
  <1> QED BY <1>1, Invariance, PTL

(* A Codex flow keeps its state until one of its callbacks has stored a        *)
(* credential (llm-provider-oauth-service.ts:360-376).                         *)
THEOREM StatesStayUsable == Spec => []UnfinishedFlowKeepsItsState
  <1>1. IInv => UnfinishedFlowKeepsItsState BY DEF IInv
  <1> QED BY <1>1, Invariance, PTL

(* A row that was deleted, or was never there, is brought back by no PATCH and *)
(* no store under way (postgres-llm-provider-repository.ts:105).               *)
THEOREM DeletionIsFinal == Spec => DeletedStaysDeleted
  <1>1. IInv /\ [Next]_vars =>
          [\A c \in Configs : c \in issued /\ rows[c] = NoRow => rows'[c] = NoRow]_vars
    <2> SUFFICES ASSUME IInv, [Next]_vars, NEW c \in Configs, c \in issued, rows[c] = NoRow
                 PROVE  rows'[c] = NoRow
      OBVIOUS
    <2>0. DOMAIN rows = Configs BY DEF IInv, TypeOK, RegistryTypeOK
    <2>1. CASE rows' = rows BY <2>1
    <2>2. ASSUME NEW p \in Requests, NEW user \in Users, NEW input \in Inputs,
                 CreateProviderConfig(p, user, input)
          PROVE  rows'[c] = NoRow
      BY <2>0, <2>2 DEF CreateProviderConfig
    <2>3. ASSUME NEW p \in Callers, Write(p) PROVE rows'[c] = NoRow
      <3>1. rows' = [rows EXCEPT ![call[p].config] =
                       Updated(rows[call[p].config], call[p].op, call[p].write)]
        BY <2>3 DEF Write, WriteRow
      <3>2. \A op, write : Updated(NoRow, op, write) = NoRow BY DEF Updated
      <3> QED BY <2>0, <3>1, <3>2
    <2>4. ASSUME NEW p \in Requests, Remove(p) PROVE rows'[c] = NoRow
      BY <2>0, <2>4 DEF Remove, DeleteRow
    <2>5. ASSUME NEW p \in Requests, RequestStep(p) PROVE rows'[c] = NoRow
      <3>1. \/ rows' = rows
            \/ \E user \in Users, input \in Inputs : CreateProviderConfig(p, user, input)
        BY <2>5 DEF RequestStep, UpdateProviderConfig, ClearOAuthCredential, DeleteProviderConfig
      <3> QED BY <2>1, <2>2, <3>1
    <2>6. ASSUME NEW p \in Requests, RequestNext(p) PROVE rows'[c] = NoRow
      <3>1. \/ rows' = rows \/ RequestStep(p) \/ Remove(p)
        BY <2>6 DEF RequestNext, PollStart, CallbackRefused, ExchangeFails, CallbackArrives,
             StartRefused, StartCodexFlow, StartCopilotFlow
      <3> QED BY <2>1, <2>4, <2>5, <3>1
    <2>7. ASSUME NEW p \in Callers,
                 StoreOAuthCredential(p) \/ Write(p) \/ ReadBack(p) \/ Fault(p)
          PROVE  rows'[c] = NoRow
      <3>1. rows' = rows \/ Write(p)
        BY <2>7 DEF StoreOAuthCredential, ReadBack, Reread, Fault, DatabaseFails
      <3> QED BY <2>1, <2>3, <3>1
    <2>8. ASSUME NEW f \in Flows, LoginShowsUrl(f) \/ LoginFails(f) PROVE rows'[c] = NoRow
      BY <2>1, <2>8 DEF LoginShowsUrl, LoginFails
    <2>9. CASE Restart BY <2>1, <2>9 DEF Restart
    <2>10. CASE UNCHANGED vars BY <2>1, <2>10 DEF vars
    <2> QED BY <2>6, <2>7, <2>8, <2>9, <2>10 DEF Next
  <1> QED BY <1>1, Invariance, PTL DEF Spec, DeletedStaysDeleted
===============================================================================
