SPECIFICATION FairSpec
CONSTANTS
  P = P
  agent = agent
  h1 = h1
  h2 = h2
  yes = yes
  None = None
  Owner = Owner
  Prefix = {P}
  Rec <- MCRec
  Pic = {}
  Hand = {h1, h2}
  Agent = {agent}
  Text = {yes}
  Failing = {h1}
  MaxQuestions = 1
  MaxEvents = 3
INVARIANTS DeliveredIsThisAnswer
PROPERTIES HeldAgainOnlyByOverlap AnswerChangedOnPurpose AnswerReachesRecord QuestionsMoveLawfully
CHECK_DEADLOCK FALSE
