--------------------------- MODULE ProviderCatalog ----------------------------
(* llm-provider-catalog.ts: the static entries of the supported provider       *)
(* types, one for each kind the service tells apart: a built-in provider with  *)
(* an API key (with thinking levels and without), with OAuth (two, one per     *)
(* browser flow), with ambient credentials, and a compatible API that needs a  *)
(* base URL.                                                                   *)
CONSTANT None

BuiltIn(authMode, modelId, levels) ==
  [authMode |-> authMode, apiType |-> None, baseUrlRequired |-> FALSE,
   defaultModelId |-> modelId, levels |-> levels, defaultThinkingLevel |-> "medium"]

Compatible(apiType, modelId) ==
  [authMode |-> "api_key", apiType |-> apiType, baseUrlRequired |-> TRUE,
   defaultModelId |-> modelId, levels |-> {}, defaultThinkingLevel |-> "medium"]

LLM_PROVIDER_TYPE_CATALOG ==
  [type \in {"openai", "deepseek", "openai-codex", "github-copilot", "amazon-bedrock",
             "openai-compatible"} |->
     CASE type = "openai"         -> BuiltIn("api_key", "gpt", {"low", "medium"})
       [] type = "deepseek"       -> BuiltIn("api_key", "deepseek", {})
       [] type = "openai-codex"   -> BuiltIn("oauth", "codex", {"low", "medium"})
       [] type = "github-copilot" -> BuiltIn("oauth", "gpt", {})
       [] type = "amazon-bedrock" -> BuiltIn("none", "claude", {})
       [] OTHER                   -> Compatible("openai-completions", "local-model")]
===============================================================================
