SPECIFICATION FairSpec
CONSTANTS
  Years = 3
  MaxAttempts = 3
  SMBs <- MCSMBs
  Spare = 2
  Full = 1000
  Sizes = {0, 980, 1000}
  TempIsInput = FALSE
  do_snow_shuffling = TRUE
INVARIANTS MassCarried EnoughSnow DumpWhole
PROPERTIES RetrySucceeds
CHECK_DEADLOCK FALSE
