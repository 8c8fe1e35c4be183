SPECIFICATION FairSpec
CONSTANTS
  Procs = {p1, p2, p3}
  Res = {r1, r2, r3}
  MaxSize = 1
  HasJanitor = TRUE
  CloseDeadline = FALSE
  Permit = Permit
  None = None
PROPERTIES
  ServedInOrder
  QueuedCallWakes
  ClosedPoolDrains
