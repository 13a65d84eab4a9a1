SPECIFICATION Spec
CONSTANTS
  n1 = n1
  n2 = n2
  p1 = p1
  p2 = p2
  pn1 = pn1
  NoHash = NoHash
  Nodes <- OneNode
  Operator <- OneOperator
  PNs = {pn1}
  Handlers = {g1}
  Compact = TRUE
  StreamMax = 2
  MaxEdits = 2
  MaxAnnounces = 2
  MaxRuns = 2
INVARIANTS TypeOK SavedWhenQuiet RouterIgnoresTheList
PROPERTIES OnlyTheRowGoes
CHECK_DEADLOCK FALSE
