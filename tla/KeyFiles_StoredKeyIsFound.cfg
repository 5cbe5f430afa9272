\* The instance of KeyFiles.cfg: a lookup before the key arrives.
SPECIFICATION Spec
CONSTANTS
  Owner = owner
  Invitee = {u}
  MaxOps = 6
  MaxCrashes = 1
  MaxFaults = 1
INVARIANT StoredKeyIsFound
CHECK_DEADLOCK FALSE
