\* One chat of each dialect, up to two tool calls of earlier turns and two of this
\* one, prune calls included, two items in a command, two processes.
SPECIFICATION Spec
CONSTANTS
  Glob <- MCGlob
  Hits <- MCHits
  MaxPast = 2
  MaxCalls = 2
  MaxSession = 2
  MaxItems = 2
  MaxQueue = 1
INVARIANTS
  NoCopyLeaks
  BatchIsSequential
  ReportIsTrue

  
  
CHECK_DEADLOCK FALSE
