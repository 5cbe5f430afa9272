SPECIFICATION FairSpec
CONSTANTS
  Chat = {c1}
  Capacity = 1
  MaxOps = 6
  MaxCrashes = 1
  MaxStartOvers = 1
INVARIANTS
  TypeOK
  CursorCovers
  ServedInOrder
  MirrorIsPrefix
  SavedIsPrefix
  NoOrphanMessage
PROPERTIES
  NeverEvicted
  SessionKept
  AnsweredNotRepeated
  EveryMessageHandled
CHECK_DEADLOCK FALSE
