CONSTANTS
  Bidders = {a, b}
  Handlers = {h1, h2}
  Criteria = {c1}
  MaxTime = 1
  MayFail = TRUE
  Null = Null
  Undefined = Undefined
SPECIFICATION Spec
SYMMETRY Symmetry
CHECK_DEADLOCK FALSE
VIEW View
INVARIANT BidsFollowPublication
INVARIANT LosersHaveAWinner
INVARIANT Inductive
