SPECIFICATION BreakerFairSpec
CONSTANTS
  Calls = {c1, c2, c3}
  FailureThreshold = 2
  ResetTimeout = 3
  CallTimeout = 2
  MaxFailures = 4
INVARIANTS OnlyTheProbeRuns FlagIsHonest
PROPERTY Recovers
