SPECIFICATION FairSpec
CONSTANTS
  s1 = s1
  s2 = s2
  Sessions = {s2}
  Ids = {i1}
  Prompts = {p1}
  Clients = {c1, c2}
  None = None
  Steps <- MCSteps
  MaxReverts = 0
INVARIANTS ReceiptsAgree
PROPERTIES WokenInputServed
