SPECIFICATION Spec
CONSTANTS
  Procs = {p1, p2}
  Res = {r1, r2, r3}
  MaxSize = 1
  HasJanitor = FALSE
  CloseDeadline = FALSE
  Permit = Permit
  None = None
INVARIANT QueuedWaitersGetErrClosed
