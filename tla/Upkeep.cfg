SPECIFICATION UpkeepSpec
CONSTANTS
  X = X
  B = B
  D = D
  h = h
  n = n
  pic = pic
  None = None
  Prefix = {X, B, D}
  Rec <- MCRec
  RoleOf <- MCRoleOf
  Citing = {D}
  Pic = {pic}
  Note = {n}
  Hand = {h}
  MaxSerial = 1
  MaxPairs = 1
  MaxRows = 4
  P = P
  Q = Q
  f1 = f1
  f2 = f2
  Proj = {P, Q}
  Box = P
  Lists <- MCLists
  Flags <- MCFlags
  Finding = {f1, f2}
  Writer = {c1}
  Mover = {m1}
  Nil = Nil
  MaxWrites = 3
  Trees <- MCTrees
  FirstEntry = 3
  MaxDay = 2
  MaxEdits = 1
SYMMETRY Symmetry
INVARIANTS LinksMeanTheirRecord NamesOneRecord FindingsPass ReferencesKeepMeaning
PROPERTIES BoxFilesWhereItMoved RepairSparesOthers StampStays
CHECK_DEADLOCK FALSE
