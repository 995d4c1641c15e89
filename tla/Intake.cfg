SPECIFICATION Spec
CONSTANTS
  IB = IB
  M = M
  box = box
  app = app
  archive = archive
  jot = jot
  filer = filer
  pic1 = pic1
  h1 = h1
  h2 = h2
  fixed = fixed
  None = None
  Prefix = {IB, M}
  Rec <- MCRec
  Pic = {pic1}
  Hand = {h1, h2}
  Jot = {jot}
  Filer = {filer}
  Dest = {box, app, archive}
  Box = box
  OptOut = {archive}
  Mentions <- MCMentions
  Cites = {}
  PrefixOf <- MCPrefixOf
  Word = {fixed}
  Declares <- MCDeclares
  Tries = 2
  MaxEvents = 4
SYMMETRY Symmetry
INVARIANTS LineOfRecords PicturesOnLiveRecords
PROPERTIES MoveCarriesClaims
CHECK_DEADLOCK FALSE
