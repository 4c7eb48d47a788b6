------------------------------ MODULE MCProvider ------------------------------
(* Two or three requests on one provider config, with a flow or two.           *)
EXTENDS ProviderOAuth, TLC

ProviderCatalogs == INSTANCE ProviderCatalog
MCCatalog == ProviderCatalogs!LLM_PROVIDER_TYPE_CATALOG
MCTypes == DOMAIN MCCatalog
MCCallers == Requests \cup Flows
MCCredentials == MCCallers

Body == [providerType |-> None, baseUrl |-> None, availableModels |-> {}, defaultModelId |-> None,
         defaultThinkingLevel |-> None, enabled |-> None, apiKey |-> None, oauthCredential |-> None]

(* Bodies: a Codex config that also got an API key, a Copilot one, a change to *)
(* a compatible API, and two changes of the models, one of the default model.  *)
MCInputs ==
  {[Body EXCEPT !.providerType = "openai-codex", !.apiKey = "key"],
   [Body EXCEPT !.providerType = "github-copilot"],
   [Body EXCEPT !.providerType = "openai-compatible", !.baseUrl = "url", !.apiKey = "key"],
   [Body EXCEPT !.availableModels = {"gpt", "codex"}],
   [Body EXCEPT !.availableModels = {"gpt"}, !.defaultModelId = "gpt"]}
===============================================================================
