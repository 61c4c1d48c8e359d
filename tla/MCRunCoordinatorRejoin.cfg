SPECIFICATION Spec
CONSTANTS
  Keys = {k1}
  Fibers = {f1, f2}
  Callers = {c1, c2}
  None = None
PROPERTIES ResumeDuringCleanupStarts
