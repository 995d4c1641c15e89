SPECIFICATION Spec
CONSTANTS
  Viewer = {v1}
  PaneId = {p1,p2}
  None = None
  Buffer = 1
  MaxDraws = 2
  MaxStarts = 2
INVARIANT WatchingSeesViewers
