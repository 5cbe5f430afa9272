SPECIFICATION Spec
CONSTANTS
  Chat = {c1}
  Proc = {p1, p2}
  Task = {t1}
  None = None
  Capacity = 2
INVARIANTS
  TypeOK
  OneShotColumn
  IdleWhenQuiet
  LiveSessionsTracked
  MailboxOwnerRuns
  IdleEdgeMeansIdle
PROPERTY ExclusiveSession
SYMMETRY Symmetry
