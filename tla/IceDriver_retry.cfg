SPECIFICATION FairSpec
CONSTANTS
  Years = 2
  MaxAttempts = 3
  StepCounts = {2}
  CfOptions = {TRUE}
  StopIsSeen = TRUE
INVARIANTS PublishedByThisAttempt
PROPERTIES OneYearAtATime RetrySucceeds
CHECK_DEADLOCK FALSE
