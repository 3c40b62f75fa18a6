CONSTANTS
  Bidders = {a, b}
  Handlers = {h1}
  Criteria = {c1}
  MaxTime = 2
  MayFail = FALSE
  Null = Null
  Undefined = Undefined
SPECIFICATION Spec
SYMMETRY Symmetry
CHECK_DEADLOCK FALSE
INVARIANT SealedUntilDeadline
