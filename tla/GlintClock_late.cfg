SPECIFICATION ClockSpec
CONSTANTS
  Instances = {1}
  Configs <- EvenConfigs
  Year <- MCYear
  Lateness = {0, 1, 2}
  Horizon = 19
INVARIANTS NeverMissesItsCall ForcingInOnePlace IceClockMatchesForcing AccumulationComplete
CHECK_DEADLOCK FALSE
