CONSTANTS
  p1 = p1
  p2 = p2
  k1 = k1
  None = None
  Posts = {p1, p2}
  Closers = {k1}
  MaxSockets = 2
  InitialBackoff = 1
  MaxBackoff = 1
  SeriesCap = 0
SPECIFICATION Spec
INVARIANTS
  OneOutcome
  NoForgottenWaiter
  CloseLeavesNoWaiter
  RegistryHoldsCalls
PROPERTY
  ContractSpec
SYMMETRY Symmetry
CHECK_DEADLOCK FALSE
