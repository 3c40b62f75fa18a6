CONSTANTS
  Users = {a, b}
  Handlers = {h1, h2}
  MaxVersion = 1
SPECIFICATION Spec
SYMMETRY Symmetry
CHECK_DEADLOCK FALSE
INVARIANT TypeOK
INVARIANT RevocationHolds
INVARIANT AnAdminRemains
INVARIANT Inductive
