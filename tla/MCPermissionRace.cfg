SPECIFICATION Spec
CONSTANTS
  q1 = q1
  q2 = q2
  q3 = q3
  s1 = s1
  s2 = s2
  r1 = r1
  r2 = r2
  None = None
  Requests = {q1, q2}
  Posted = {}
  Sessions = {s1, s2}
  Resources = {r1, r2}
  SessionOf <- MCSessionOf
  Needs <- MCNeeds
  Saves <- MCSaves
  Rulesets <- MCRulesets
  Initially <- MCInitially
  Repliers = {f1, f2}
  MaxFailures = 1
  MaxChanges = 0
SYMMETRY Symmetry
INVARIANTS ListedIffOpen
PROPERTIES PromptSpec RejectSweepsSession
CHECK_DEADLOCK FALSE
