SPECIFICATION FairSpec
CONSTANTS
  Stdout = Stdout
  Stderr = Stderr
  Worker = Worker
  Lines = 2
  elements = 2
INVARIANTS TypeOK InOrder BufferBounded FlushedAtEnd
PROPERTIES LogsEnd
