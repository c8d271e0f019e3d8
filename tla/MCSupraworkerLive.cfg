SPECIFICATION FairSpec
CONSTANTS
  Jobs = {j1, j2}
  Keys = {k1}
  Cancellable = {j1}
  Overdue = {j1}
  Workers = {w1}
  None = None
PROPERTIES ShutdownTerminates JobsEnd
