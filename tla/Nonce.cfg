CONSTANTS
  a = a
  b = b
  x = x
  s = s
  t = t
  Clients <- MCClients
  Signers <- MCSigners
  SignerOf <- MCSignerOf
  MaxClock = 2
  MaxIssued = 3
  None = None
SPECIFICATION Spec
INVARIANTS
  IssuedIncreasing
  NoGapAhead
PROPERTY SourceSpec
CHECK_DEADLOCK FALSE
