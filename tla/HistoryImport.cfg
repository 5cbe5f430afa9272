\* The five kinds that have an importer.  A channel of two is full while a
\* session of two entries is sent; a second request follows an abort.
SPECIFICATION Spec
CONSTANTS
  Kinds = {"claude", "cursor", "codex", "gemini", "pi"}
  Mixed = {"claude", "gemini", "pi"}
  MaxShapes = 2
  MaxRequests = 2
  Cap = 2
INVARIANTS
  FinishedIsFaithful
  NoHungSheet
CHECK_DEADLOCK FALSE
