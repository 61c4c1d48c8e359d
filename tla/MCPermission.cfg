SPECIFICATION FairSpec
CONSTANTS
  q1 = q1
  q2 = q2
  q3 = q3
  s1 = s1
  s2 = s2
  r1 = r1
  r2 = r2
  None = None
  Requests = {q1, q3}
  Posted = {q3}
  Sessions = {s1, s2}
  Resources = {r1, r2}
  SessionOf <- MCSessionOf
  Needs <- MCNeeds
  Saves <- MCSaves
  Rulesets <- MCRulesets
  Initially <- MCInitially
  Repliers = {f1}
  MaxFailures = 1
  MaxChanges = 1
INVARIANTS DenyHolds
PROPERTIES AlwaysSweepsAll AnswerReaches
CHECK_DEADLOCK FALSE
