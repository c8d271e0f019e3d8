SPECIFICATION FairSpec
CONSTANTS
  Worker = Worker
  Timeouter = Timeouter
  Callers = {c1}
  Nobody = Nobody
  Descendants = {k1}
PROPERTY TimeoutKillsDescendants
