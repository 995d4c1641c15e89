SPECIFICATION FairSpec
CONSTANTS
  Viewer = {v1}
  PaneId = {p1,p2}
  None = None
  Buffer = 1
  MaxDraws = 3
  MaxStarts = 2
INVARIANTS  HeldPaneIsPolled
PROPERTIES SessionsArePolled
