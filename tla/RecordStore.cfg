SPECIFICATION Spec
CONSTANTS
  P = P
  c1 = c1
  c2 = c2
  r1 = r1
  r2 = r2
  pic1 = pic1
  Prefix = {P}
  Rec = {r1, r2}
  Pic = {pic1}
  Client = {c1, c2}
  NoRead = NoRead
  SeedId = {}
  BatchId <- MCBatchId
  MaxEvents = 4
SYMMETRY Symmetry
INVARIANTS LatestIsNewest CheckedWriteLosesNothing IssuedOnce
PROPERTIES StoreIsAMap
