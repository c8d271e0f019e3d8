SPECIFICATION FairSpec
CONSTANTS
  Worker = Worker
  Timeouter = Timeouter
  Callers = {c1, c2}
  Nobody = Nobody
  Descendants = {k1}
INVARIANTS TypeOK ReportsChain DoneMeansReported StoppedMeansKilled NoProcessLeft SuccessIsEarned JobInv
PROPERTIES EventuallyReported StopReturns QueuedStopHolds ImplementsReports
