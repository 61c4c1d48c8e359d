SPECIFICATION Spec
CONSTANTS
  Calls = {c1, c2}
  Hosted = {}
INVARIANTS SettledBeforeContinuation
CHECK_DEADLOCK FALSE
