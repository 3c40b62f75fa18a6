CONSTANTS
  Developers = {d1}
  Handlers = {h1, h2}
SPECIFICATION Spec
SYMMETRY Symmetry
INVARIANT TypeOK
INVARIANT NobodyUnvetted
INVARIANT GrantRestsOnItsOwnNda
PROPERTY DecidedTermsStand
PROPERTY RevocationStands
PROPERTY KeepsTheLedger
