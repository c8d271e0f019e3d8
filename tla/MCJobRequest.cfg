SPECIFICATION Spec
CONSTANTS
  KeyRows <- Rows
  LimitRows <- LimitSets
  EnvRows <- Envs
  Vars <- AllVars
  Environ <- OsEnv
  DefaultPath <- Path
  None = None
  Exponent = 3
  Precise = 4
  Half = 32
  NsPerMs = 2
  MsPerSec = 2
  SecPerMin = 2
  DefaultTTR = 3
  MaxNow = 5
INVARIANTS TypeOK CancelFinds Deadline SweptAfterContext JobEnvWins
CHECK_DEADLOCK FALSE
