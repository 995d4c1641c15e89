SPECIFICATION Spec
CONSTANTS
  rae = rae
  ann = ann
  bob = bob
  line = line
  toM = toM
  toL = toL
  gone = gone
  M = M
  L = L
  j1 = j1
  j2 = j2
  h1 = h1
  h2 = h2
  h3 = h3
  None = None
  Reader = {rae}
  Owner = {ann, bob}
  Text = {line}
  Dest = {toM, toL, gone}
  Project = {M, L}
  Home = M
  Where <- MCWhere
  Owns <- MCOwns
  Row = {j1, j2}
  Hand = {h1, h2, h3}
SYMMETRY Symmetry
INVARIANTS JotInOnePlace FiledWhereOwned
CHECK_DEADLOCK FALSE
