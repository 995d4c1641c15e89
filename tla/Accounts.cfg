SPECIFICATION Spec
CONSTANTS
  ann = ann
  bob = bob
  M = M
  k1 = k1
  k2 = k2
  s1 = s1
  s2 = s2
  c1 = c1
  i1 = i1
  h1 = h1
  h2 = h2
  None = None
  Person = {ann, bob}
  Project = {M}
  Home = M
  Key = {k1, k2}
  Cookie = {s1, s2}
  Ceremony = {c1}
  Invite = {i1}
  Hand = {h1, h2}
  Known <- MCKnown
  Granted <- MCGranted
SYMMETRY Symmetry
INVARIANTS InvitationSpentOnce SignedInHasPasskey PasskeyWhereBegun
PROPERTIES OwnedStaysOwned
CHECK_DEADLOCK FALSE
