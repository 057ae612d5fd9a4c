SPECIFICATION FairSpec
CONSTANTS
  f1 = f1
  f2 = f2
  f3 = f3
  Null = Null
  Fds <- MCFds
  Frames <- MCFrames
  Events = {"read"}
  MaxRehashes = 0
PROPERTIES
  ReadyWaitersResume
CHECK_DEADLOCK FALSE
