SPECIFICATION FairSpec
CONSTANTS
  f1 = f1
  f2 = f2
  Null = Null
  Frames <- MCFrames
  Deadlines <- MCDeadlines
  StopContexts <- StopBetweenPolls
  MaxTime = 3
  MaxTimers = 4
  ClockReadsRepeat = FALSE
INVARIANTS
  TypeOK
  EntriesMatchFrames
  CancelledStillQueued
  WakeupArmed
  NeverResumesNull
PROPERTIES
  ImplementsSleepService
CHECK_DEADLOCK FALSE
