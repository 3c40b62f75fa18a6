CONSTANTS
  Bidders = {a, b}
  Handlers = {h1, h2}
  Criteria = {c1}
  MaxTime = 1
  MayFail = FALSE
  Null = Null
  Undefined = Undefined
SPECIFICATION LiveSpec
CHECK_DEADLOCK FALSE
PROPERTY AwardDecidesEveryBid
PROPERTY AwardReachesItsStage
