\* A single request, and a bubble of cursor with text and a call.
SPECIFICATION Spec
CONSTANTS
  Kinds = {"cursor"}
  Mixed = {"cursor"}
  MaxShapes = 2
  MaxRequests = 1
  Cap = 2
INVARIANT
  EveryFrameIsARow
CHECK_DEADLOCK FALSE
