SPECIFICATION Spec
CONSTANTS
  s1 = s1
  s2 = s2
  Sessions = {s1}
  Ids = {i1, i2}
  Prompts = {p1}
  Clients = {c1}
  None = None
  Steps <- MCSteps
  MaxReverts = 1
SYMMETRY Symmetry
INVARIANTS TypeOK PromotionOrder SteersReachTurn AllowanceExact WakesServed WakeBringsInput
PROPERTIES QueueOneByOne
