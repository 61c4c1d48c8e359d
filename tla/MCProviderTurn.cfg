SPECIFICATION FairSpec
CONSTANTS
  Calls = {c1, c2, h1}
  Hosted = {h1}
INVARIANTS TypeOK SettledOnce ResultsBeforeContinuation InterruptedStepClosed
PROPERTIES InterruptEndsTurn
CHECK_DEADLOCK FALSE
