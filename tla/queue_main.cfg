SPECIFICATION FairSpec
CONSTANTS
  p1 = p1
  p2 = p2
  Panels <- OnePanel
  NLines = 3
  Capacity = 2
  MaxVersion = 1
  MaxLag = 2
INVARIANTS TypeOK LinesInOrder
PROPERTIES AbstractSpec CallsReturn PanelsCatchUp
CHECK_DEADLOCK FALSE
