CONSTANTS
  a = a
  b = b
  Callers = {a, b}
  WeightOf <- MCWeightOf
  ExtraOf <- MCExtraOf
  Limit = 3
  Ring = 2
  FieldMax = 4
  MaxRequests = 2
  MaxClock = 4
SPECIFICATION Spec
INVARIANTS
  NothingLost
  OvershootBounded
CHECK_DEADLOCK FALSE
