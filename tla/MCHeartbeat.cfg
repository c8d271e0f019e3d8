SPECIFICATION FairSpec
CONSTANTS
  Apis = {a1, a2, a3}
  Reachable = {a1, a2}
  NumWorkers = 2
  None = None
INVARIANTS TypeOK NumbersAgree
PROPERTY HeardDespiteFailures
