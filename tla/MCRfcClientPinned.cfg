SPECIFICATION Spec
CONSTANTS
  Callers = {p1}
  Conns = {c1}
  MaxSize = 1
  Functions = {f}
  Kinds = {"flat"}
  HasDeadline = TRUE
  Pin = Pin
  Nobody = Nobody
INVARIANT PinnedConnectionWorks
