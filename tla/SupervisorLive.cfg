SPECIFICATION ResidentFairSpec
CONSTANTS
  Chat = {c1}
  Proc = {p1, p2}
  Task = {}
  None = None
  Capacity = 1
PROPERTY EndingFinishes
