CONSTANTS
  Tabs = {t1, t2}
  MaxVersion = 1
  None = None
  Guests = {g1, g2}
  Desks = {k1, k2}
  Documents = {d1}
  Clerks = {c1, c2}
  NoRecord = NoRecord
  Entrants = {1, 2, 3}
  Marks = {50, 130}
  Unit = 600
  Whole = 100
  Silent = Silent
CONSTANT Tiers <- TwoTiers
CONSTANT MaxSeeds <- TwoSeeds
CONSTANT Values <- ValuesStated
CONSTANT Mandate <- MandateSought
CONSTANT Weights <- WeightsInUse
CONSTANT Terms <- TermsEntered
SPECIFICATION Spec
SYMMETRY Symmetry
CONSTRAINT ThreeWhereTheyMeet
INVARIANT TypesOK
INVARIANT NoHalfSession
INVARIANT SignedInPagesStaySignedIn
INVARIANT SignedOutStaysOut
INVARIANT DocumentsOpen
INVARIANT TierRestsOnItsRecord
INVARIANT MeritIsRewarded
INVARIANT AdviceFitsTitleAndTerm
INVARIANT EnginesAgree
PROPERTY MembershipMovesOn
PROPERTY OwnGainNeverCostsRank
