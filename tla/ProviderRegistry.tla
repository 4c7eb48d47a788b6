--------------------------- MODULE ProviderRegistry ---------------------------
(* The rows of llm_provider_configs and the operations of                      *)
(* llm-provider-service.ts on them.  Every operation is split at its database  *)
(* calls: PATCH, store and clear of a credential all read a row, compute from  *)
(* what they read, write, and read the row back, so two of them can overlap.   *)
(* A column nothing here depends on (name, headers, options) is left out; a    *)
(* model is an id with the thinking levels it supports; a secret is the pair   *)
(* of what encryptedSecret holds, NoSecret standing for a null column.         *)
EXTENDS Integers, Sequences

CONSTANTS Configs,       \* provider config ids
          Users,
          Types,         \* provider types of the catalog
          Catalog,       \* catalog entry of a type
          ModelIds, Levels, BaseUrls, ApiTypes, ApiKeys,
          Credentials,   \* OAuth credential material
          Requests,      \* numbered in the order they arrive
          Callers,       \* requests, and the logins that run behind a request
          Inputs,        \* bodies of POST and PATCH
          MaxFaults,     \* bound on failing database calls and restarts
          None           \* undefined, or a null column

VARIABLES rows,    \* the table
          issued,  \* ids ever generated
          call,    \* progress of each caller's operation
          faults   \* database calls that failed and restarts so far

registryVars == <<rows, issued, call, faults>>

AuthModes == {"api_key", "oauth", "none"}
Model == [modelId : ModelIds, levels : SUBSET Levels]
CatalogItem == [authMode : AuthModes, apiType : ApiTypes \cup {None},
                baseUrlRequired : BOOLEAN, defaultModelId : ModelIds,
                levels : SUBSET Levels, defaultThinkingLevel : Levels]
Secret == [apiKey : ApiKeys \cup {None}, oauthCredential : Credentials \cup {None}]
Input == [providerType : Types \cup {None}, baseUrl : BaseUrls \cup {None},
          availableModels : SUBSET ModelIds, defaultModelId : ModelIds \cup {None},
          defaultThinkingLevel : Levels \cup {None}, enabled : BOOLEAN \cup {None},
          apiKey : ApiKeys \cup {None}, oauthCredential : Credentials \cup {None}]

(* The catalog has an entry for every type; None is no value of any column.    *)
ASSUME CatalogAssumption ==
  /\ Catalog \in [Types -> CatalogItem]
  /\ Inputs \subseteq Input
  /\ MaxFaults \in Nat
  /\ Requests \subseteq Nat /\ Requests \subseteq Callers
  /\ None \notin Users /\ None \notin Types /\ None \notin Configs
  /\ None \notin ModelIds /\ None \notin Levels /\ None \notin BOOLEAN
  /\ None \notin BaseUrls /\ None \notin ApiKeys /\ None \notin Credentials

NoSecret == [apiKey |-> None, oauthCredential |-> None]

Row == [userId : Users, providerType : Types, authMode : AuthModes,
        apiType : ApiTypes \cup {None}, baseUrl : BaseUrls \cup {None},
        availableModels : SUBSET Model, defaultModelId : ModelIds,
        defaultThinkingLevel : Levels, enabled : BOOLEAN, secret : Secret]

(* What a read finds when there is no row: no column has a value.              *)
NoRow == [userId |-> None, providerType |-> None, authMode |-> None, apiType |-> None,
          baseUrl |-> None, availableModels |-> {}, defaultModelId |-> None,
          defaultThinkingLevel |-> None, enabled |-> None, secret |-> NoSecret]

Call == [pc : {"idle", "exchange", "polling", "update", "reread", "delete", "done"},
         op : {"none", "create", "patch", "store", "clear", "delete", "start"},
         config : Configs \cup {None}, write : Row \cup {NoRow},
         answer : {"none", "ok", "refused", "error"}]
Idle == [pc |-> "idle", op |-> "none", config |-> None, write |-> NoRow, answer |-> "none"]

-------------------------------------------------------------------------------
(* Validation and normalisation.                                               *)

\* given ?? fallback
Given(given, fallback) == IF given # None THEN given ELSE fallback

defaultModels(item) == {[modelId |-> item.defaultModelId, levels |-> item.levels]}

(* Models named in a request take the union of the levels of the models they   *)
(* replace; without any the old ones stay.                                     *)
normalizeAvailableModels(requested, models) ==
  IF requested = {} THEN models
  ELSE {[modelId |-> id, levels |-> UNION {m.levels : m \in models}] : id \in requested}

Supports(models, id, level) ==
  \E m \in models : m.modelId = id /\ (m.levels # {} => level \in m.levels)

(* The row a request asks for, merged with the row that was read (NoRow for a  *)
(* create).                                                                    *)
NormalizedRow(user, old, input) ==
  LET type == Given(input.providerType, old.providerType)
      item == Catalog[type]
  IN  [userId |-> user, providerType |-> type, authMode |-> item.authMode,
       apiType |-> item.apiType, baseUrl |-> Given(input.baseUrl, old.baseUrl),
       availableModels |-> normalizeAvailableModels(input.availableModels,
                             IF old = NoRow THEN defaultModels(item) ELSE old.availableModels),
       defaultModelId |-> Given(input.defaultModelId,
                             Given(old.defaultModelId, item.defaultModelId)),
       defaultThinkingLevel |-> Given(input.defaultThinkingLevel,
                             Given(old.defaultThinkingLevel, item.defaultThinkingLevel)),
       enabled |-> Given(input.enabled, Given(old.enabled, TRUE)),
       secret |-> [apiKey |-> Given(input.apiKey, old.secret.apiKey),
                   oauthCredential |-> Given(input.oauthCredential, old.secret.oauthCredential)]]

ValidInput(old, input) ==
  /\ Given(input.providerType, old.providerType) \in Types
  /\ LET new == NormalizedRow(None, old, input) IN
       /\ Supports(new.availableModels, new.defaultModelId, new.defaultThinkingLevel)
       /\ Catalog[new.providerType].baseUrlRequired => new.baseUrl # None
       /\ new.authMode = "api_key" /\ old = NoRow => new.secret.apiKey # None

-------------------------------------------------------------------------------
(* What a session, and the validate route, make of a row.                      *)

HasSecretForMode(row) ==
  /\ row.authMode = "api_key" => row.secret.apiKey # None
  /\ row.authMode = "oauth" => row.secret.oauthCredential # None

(* pickModelId: an explicit level must be supported where the caller asks for  *)
(* the check, and is refused by a model without levels.                        *)
PicksModel(row, modelId, level, validateLevel) ==
  \E m \in row.availableModels :
    /\ m.modelId = Given(modelId, row.defaultModelId)
    /\ validateLevel => /\ level # None => m.levels # {}
                        /\ m.levels # {} => Given(level, row.defaultThinkingLevel) \in m.levels

resolveProviderSelectionForSession(row, user, modelId, level, validateLevel) ==
  /\ row # NoRow
  /\ row.userId = user
  /\ row.enabled
  /\ row.providerType \in Types
  /\ PicksModel(row, modelId, level, validateLevel)
  /\ HasSecretForMode(row)

validateProviderConfig(row) ==
  /\ row.providerType \in Types
  /\ row.availableModels # {}
  /\ Catalog[row.providerType].baseUrlRequired => row.baseUrl # None
  /\ HasSecretForMode(row)

-------------------------------------------------------------------------------
\* Mutant: the UPDATE of a PATCH forgets a column.
UpdatedWithoutModels(row, op, write) ==
  CASE row = NoRow -> NoRow
    [] row # NoRow /\ op = "patch" -> [write EXCEPT !.availableModels = row.availableModels]
    [] OTHER -> [row EXCEPT !.secret = write.secret]

\* Mutant: the UPDATE of a PATCH keeps the auth mode the row has.
UpdatedWithoutMode(row, op, write) ==
  CASE row = NoRow -> NoRow
    [] row # NoRow /\ op = "patch" -> [write EXCEPT !.authMode = row.authMode]
    [] OTHER -> [row EXCEPT !.secret = write.secret]

\* Mutant: the write is an upsert.
UpdatedOrInserted(row, op, write) ==
  IF op = "patch" THEN write
  ELSE IF row = NoRow THEN NoRow ELSE [row EXCEPT !.secret = write.secret]

(* Database calls.  A column given as undefined is left as it is, so the       *)
(* UPDATE of a PATCH keeps apiType, baseUrl or the secret when the new value   *)
(* has none; an UPDATE of a row that is gone touches nothing.                  *)
Updated(row, op, write) ==
  CASE row = NoRow -> NoRow
    [] row # NoRow /\ op = "patch" ->
         [write EXCEPT !.userId = row.userId,
                       !.apiType = Given(write.apiType, row.apiType),
                       !.baseUrl = Given(write.baseUrl, row.baseUrl),
                       !.secret = IF write.secret # NoSecret THEN write.secret ELSE row.secret]
    [] OTHER -> [row EXCEPT !.secret = write.secret]

Owned(user, c) == rows[c] # NoRow /\ rows[c].userId = user

(* Requests differ in nothing but what they ask, so they are numbered in the    *)
(* order they arrive.                                                          *)
Arrives(p) == call[p].pc = "idle" /\ \A q \in Requests : q < p => call[q].pc # "idle"

(* A 4xx answer is "refused", a 5xx one "error".                               *)
Answer(p, op, answer) ==
  call' = [call EXCEPT ![p] = [pc |-> "done", op |-> op, config |-> None, write |-> NoRow,
                               answer |-> answer]]

Goto(p, pc, op, c, write) ==
  call' = [call EXCEPT ![p] = [pc |-> pc, op |-> op, config |-> c, write |-> write,
                               answer |-> "none"]]

-------------------------------------------------------------------------------
(* Operations.                                                                 *)

(* POST: nothing is awaited between the validation and the insert.             *)
CreateProviderConfig(p, user, input) ==
  /\ Arrives(p)
  /\ IF ValidInput(NoRow, input)
     THEN \E c \in Configs \ issued :
            /\ rows' = [rows EXCEPT ![c] = NormalizedRow(user, NoRow, input)]
            /\ issued' = issued \cup {c}
            /\ Goto(p, "reread", "create", c, NoRow)
     ELSE Answer(p, "create", "refused") /\ UNCHANGED <<rows, issued>>
  /\ UNCHANGED faults

(* PATCH: the row is read, merged and validated; the UPDATE comes later.       *)
UpdateProviderConfig(p, user, c, input) ==
  /\ Arrives(p)
  /\ c \in issued
  /\ IF Owned(user, c) /\ ValidInput(rows[c], input)
     THEN Goto(p, "update", "patch", c, NormalizedRow(user, rows[c], input))
     ELSE Answer(p, "patch", "refused")
  /\ UNCHANGED <<rows, issued, faults>>

(* storeOAuthCredential and clearOAuthCredential: the new secret is computed   *)
(* from the secret that was read.                                              *)
ReadForSecret(p, op, user, c, credential) ==
  IF Owned(user, c) /\ rows[c].authMode = "oauth"
  THEN Goto(p, "update", op, c, [rows[c] EXCEPT !.secret.oauthCredential = credential])
  ELSE Answer(p, op, "refused")

ClearOAuthCredential(p, user, c) ==
  /\ Arrives(p)
  /\ c \in issued
  /\ ReadForSecret(p, "clear", user, c, None)
  /\ UNCHANGED <<rows, issued, faults>>

DeleteProviderConfig(p, user, c) ==
  /\ Arrives(p)
  /\ c \in issued
  /\ IF Owned(user, c) THEN Goto(p, "delete", "delete", c, NoRow)
                       ELSE Answer(p, "delete", "refused")
  /\ UNCHANGED <<rows, issued, faults>>

WriteRow(p) ==
  LET c == call[p].config IN
  /\ call[p].pc = "update"
  /\ rows' = [rows EXCEPT ![c] = Updated(rows[c], call[p].op, call[p].write)]
  /\ call' = [call EXCEPT ![p].pc = "reread", ![p].write = NoRow]
  /\ UNCHANGED <<issued, faults>>

(* The row is read back for the answer; one that is gone answers 404, or 500   *)
(* for a create.                                                               *)
AnswerOfReread(p) ==
  IF rows[call[p].config] # NoRow THEN "ok"
  ELSE IF call[p].op = "create" THEN "error" ELSE "refused"

Reread(p) ==
  /\ call[p].pc = "reread"
  /\ Answer(p, call[p].op, AnswerOfReread(p))
  /\ UNCHANGED <<rows, issued, faults>>

\* Mutant: a delete only takes the row away from its owner.
DisownRow(p) ==
  LET c == call[p].config IN
  /\ call[p].pc = "delete"
  /\ rows' = [rows EXCEPT ![c].userId = None]
  /\ Answer(p, "delete", "ok")
  /\ UNCHANGED <<issued, faults>>

DeleteRow(p) ==
  LET c == call[p].config IN
  /\ call[p].pc = "delete"
  /\ rows' = [rows EXCEPT ![c] = NoRow]
  /\ Answer(p, "delete", "ok")
  /\ UNCHANGED <<issued, faults>>

(* A database call of the operation throws.                                    *)
DatabaseFails(p) ==
  /\ faults < MaxFaults
  /\ call[p].pc \in {"update", "reread", "delete"}
  /\ faults' = faults + 1
  /\ Answer(p, call[p].op, "error")
  /\ UNCHANGED <<rows, issued>>

-------------------------------------------------------------------------------
RegistryTypeOK ==
  /\ rows \in [Configs -> Row \cup {NoRow}]
  /\ issued \subseteq Configs
  /\ call \in [Callers -> Call]
  /\ faults \in 0..MaxFaults
===============================================================================
