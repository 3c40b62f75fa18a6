CONSTANTS
  Questions = {q1}
  Answers = {a1, a2}
  Handlers = {h1, h2}
  MaxTime = 2
  MaxAddenda = 2
  Window = 1
  Null = Null
SPECIFICATION Spec
SYMMETRY Symmetry
CONSTRAINT AtMostTwoDesks
INVARIANT TypeOK
INVARIANT NoWinnerInsideTheWindow
INVARIANT AnnouncedDeadlineHolds
PROPERTY AddendaAppendOnly
PROPERTY DecisionsStand
PROPERTY LatePapersWereUnderWay
