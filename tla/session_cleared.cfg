CONSTANTS
  Tabs = {t1, t2}
  MaxVersion = 1
  None = None
SPECIFICATION WebSpec
PROPERTY ClearsOnlyTheRevoked
