\* One owner and one invitee.  The machine's and the owner's rows take two
\* operations; four more are an invitation, an update and an expulsion, or
\* two memberships from beginning to end.
SPECIFICATION Spec
CONSTANTS
  Owner = owner
  Invitee = {u}
  MaxOps = 6
  MaxCrashes = 1
  MaxFaults = 1
INVARIANTS
  CacheMirrorsDisk
  OpenedBlobHasFile
  GoneMeansNoKey
CHECK_DEADLOCK FALSE
