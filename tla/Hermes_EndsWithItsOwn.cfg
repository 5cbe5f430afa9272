SPECIFICATION Spec
CONSTANTS
  Chats = {c, d}
  Known = {c}
  Capacity = 1
  MaxTurns = 2
  MaxLines = 1
  MaxLinks = 2
  MaxCron = 0
PROPERTY EndsWithItsOwn
CHECK_DEADLOCK FALSE
