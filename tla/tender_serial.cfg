CONSTANTS
  Bidders = {a, b}
  Handlers = {h1}
  Criteria = {c1}
  MaxTime = 3
  MayFail = TRUE
  Null = Null
  Undefined = Undefined
SPECIFICATION Spec
SYMMETRY Symmetry
CHECK_DEADLOCK FALSE
INVARIANT TypeOK
INVARIANT Serial
INVARIANT NoBidOnDeletedTender
INVARIANT OpenedEarlyOnlyByDisqualifying
PROPERTY ClosedBidsStayClosed
PROPERTY SubmittedInGoodOrder
PROPERTY StageMovesByRule
PROPERTY KeepsTheBook
