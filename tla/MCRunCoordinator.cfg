SPECIFICATION FairSpec
CONSTANTS
  Keys = {k1}
  Fibers = {f1, f2, f3, f4}
  Callers = {c1, c2, c3}
  None = None
INVARIANTS SerialPerKey NoOrphanWaiter InterruptReaches WakeRemembered
PROPERTIES ImplementsSerialDrain
