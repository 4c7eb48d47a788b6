SPECIFICATION Spec
CONSTANTS
  None = None
  Configs = {c1}
  Users = {ann}
  Types <- MCTypes
  Catalog <- MCCatalog
  ModelIds = {"gpt", "codex", "claude", "deepseek", "local-model"}
  Levels = {"low", "medium"}
  BaseUrls = {"url"}
  ApiTypes = {"openai-completions"}
  ApiKeys = {"key"}
  Credentials <- MCCredentials
  Callers <- MCCallers
  Inputs <- MCInputs
  Requests = {1, 2, 3}
  Flows = {f1}
  CodexTypes = {"openai-codex"}
  CopilotTypes = {"github-copilot"}
  MaxFaults = 1
INVARIANT LastCredentialPersists
CHECK_DEADLOCK FALSE
