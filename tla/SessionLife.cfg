SPECIFICATION FairLifeSpec
CONSTANTS
  h1 = h1
  h2 = h2
  sweep = sweep
  Nothing = Nothing
  Sweeper = sweep
  Hand = {h1}
  MaxSessions = 2
INVARIANTS OfferedUntilEnded NoStaleConversation
PROPERTIES UpdateTaken
