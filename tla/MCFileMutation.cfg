SPECIFICATION Spec
CONSTANTS
  a = a
  b = b
  Fibers = {f1, f2, f3}
  Keys <- MCKeys
  Entries = {e1, e2, e3}
  None = None
  Plans <- MCPlans
  MaxForeign = 1
  MaxFailures = 1
SYMMETRY Symmetry
CHECK_DEADLOCK FALSE
INVARIANTS LocksExact NoLostEdit
