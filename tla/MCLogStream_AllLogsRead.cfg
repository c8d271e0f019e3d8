SPECIFICATION Spec
CONSTANTS
  Stdout = Stdout
  Stderr = Stderr
  Worker = Worker
  Lines = 1
  elements = 3
INVARIANT AllLogsRead
