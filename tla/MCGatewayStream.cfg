SPECIFICATION Spec
CONSTANTS
  None = None
  JsonKind <- MCJsonKind
  Dialects = {"anthropic", "responses", "ollama", "generate", "openai"}
  Tools = {a, b}
  MaxPieces = 3
  MaxTurns = 3
INVARIANTS
  AnthropicWellFormed
  ResponsesWellFormed
  ClientSeesWhatWasSaid
  StreamMatchesJson
  HistoryIsFaithful
  ParametersArrive
PROPERTIES
  HistoryIsStable
CHECK_DEADLOCK FALSE
