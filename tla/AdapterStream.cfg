SPECIFICATION Spec
CONSTANTS
  Dialects = {"claude", "codex", "cursor", "gemini", "pi", "hermes"}
  BigResult = {"claude", "codex", "cursor", "gemini", "pi"}
  Sizes = {10, 20}
  MaxTurns = 2
  MaxLines <- MCLines
INVARIANTS
  ChatIsFaithful
  SignalsAreTrue
  GaugeIsTrue
  SessionResumes
CHECK_DEADLOCK FALSE
