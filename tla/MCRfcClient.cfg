SPECIFICATION FairSpec
CONSTANTS
  Callers = {p1, p2}
  Conns = {c1}
  MaxSize = 1
  Functions = {f}
  Kinds = {"flat", "nested", "deep"}
  HasDeadline = TRUE
  Pin = Pin
  Nobody = Nobody
INVARIANTS
  LeasesAreAccountedFor
  FailuresAreNotInherited
PROPERTIES
  TransportFailureIsDropped
  OperationsReturn
