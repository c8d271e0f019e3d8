SPECIFICATION FairSpec
CONSTANTS
  Apis = {a1, a2}
  Main = a1
  MaxLate = 2
  None = None
INVARIANTS TypeOK InStep
PROPERTIES FinalIsFinal CancelAnswered
\* A job whose last report is delivered, or that never reached the worker, stops.
CHECK_DEADLOCK FALSE
