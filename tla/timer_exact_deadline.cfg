SPECIFICATION FairSpec
CONSTANTS
  f1 = f1
  f2 = f2
  Null = Null
  Frames <- MCFrames
  Deadlines <- MCDeadlines
  StopContexts <- NoStop
  MaxTime = 3
  MaxTimers = 2
  ClockReadsRepeat = TRUE
PROPERTIES
  SleepersWake
CHECK_DEADLOCK FALSE
