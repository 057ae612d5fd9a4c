SPECIFICATION FairSpec
CONSTANTS
  f1 = f1
  f2 = f2
  Null = Null
  Frames <- MCFrames
  Deadlines <- MCDeadlines
  StopContexts <- StopFromSleeper
  MaxTime = 3
  MaxTimers = 2
  ClockReadsRepeat = FALSE
INVARIANTS
  NeverResumesNull
CHECK_DEADLOCK FALSE
