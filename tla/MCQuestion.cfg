SPECIFICATION FairSpec
CONSTANTS
  Requests = {q1, q2}
  Answers = {a1}
  Clients = {c1, c2}
  None = None
  MaxFailures = 1
INVARIANTS SettledWasShown ListedIffOpen
PROPERTIES PromptSpec AnswerReaches
CHECK_DEADLOCK FALSE
