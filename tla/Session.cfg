SPECIFICATION FairSpec
CONSTANTS
  MaxCalls = 2
  Tab = {t1}
  None = None
  Hand = {h1, h2}
  Nobody = Nobody
  MaxDialogs = 2
  MaxSessions = 2
  Proc = {q1, q2}
  Inode = {1, 2, 3}
  Nothing = Nothing
  MaxEvents = 3
  a1 = a1
  a2 = a2
  y1 = y1
  y2 = y2
  Agent = {a1, a2}
  Type = {y1, y2}
  Unset = Unset
  Window = 0
  Payloads <- MCPayloads
  MaxLogged = 5
  MaxClock = 1
  Token = {k1}
  Conn = {c1}
  Absent = Absent
  MaxTime = 1
INVARIANTS DecidedByPress NeverIntoSeenDialog OwnText FoldIsWhole ReportsFitRuns LetInByRight
PROPERTIES GoneIsCleared RowsReachTab StreamEndsWithToken
CHECK_DEADLOCK FALSE
