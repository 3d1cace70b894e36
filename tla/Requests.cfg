SPECIFICATION Spec
CONSTANTS
  Calls = {c1, c2}
  Kinds = {"order", "noop", "query", "watch"}
  Batches = {2}
  Texts = {{"insufficient margin"}}
  Refusals = {422}
  Failures = {502}
  Limit = 21
SYMMETRY Symmetry
INVARIANTS
  CloseStopsAll
  OutcomeTold
  NoopDecides
  MirrorFollows
CHECK_DEADLOCK FALSE
