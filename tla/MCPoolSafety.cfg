SPECIFICATION Spec
CONSTANTS
  Procs = {p1, p2, p3, p4}
  Res = {r1, r2, r3}
  MaxSize = 2
  HasJanitor = TRUE
  CloseDeadline = TRUE
  Permit = Permit
  None = None
SYMMETRY Symmetry
INVARIANTS
  SlotConservation
  LeasedCountsHolders
  NoLostWakeup
  SoleOwner
PROPERTIES
  ImplementsLeases
