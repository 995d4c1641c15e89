SPECIFICATION RenameSpec
CONSTANTS
  X = X
  B = B
  D = D
  h = h
  n = n
  pic = pic
  None = None
  Prefix = {X, B, D}
  Rec <- MCRec
  RoleOf <- MCRoleOf
  Citing = {D}
  Pic = {pic}
  Note = {n}
  Hand = {h}
  MaxSerial = 1
  MaxPairs = 1
  MaxRows = 4
SYMMETRY Symmetry
INVARIANTS KeptStayPlain
CHECK_DEADLOCK FALSE
