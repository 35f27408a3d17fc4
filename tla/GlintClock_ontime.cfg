SPECIFICATION FairClock
CONSTANTS
  Instances = {1, 2}
  Configs <- LongConfigs
  Year <- MCYear
  Lateness = {0}
  Horizon = 34
INVARIANTS RegularCallsAccepted
PROPERTIES IceFlagTruthful ForcingReachesIce
CHECK_DEADLOCK FALSE
