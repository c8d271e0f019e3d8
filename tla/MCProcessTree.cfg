SPECIFICATION Spec
CONSTANT MaxPid = 5
INVARIANTS TypeOK OnlyOurs StandingSignalled RefusedAfterWrap
