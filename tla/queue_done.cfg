SPECIFICATION FairSpec
CONSTANTS
  t1 = t1
  t2 = t2
  t3 = t3
  i1 = i1
  i2 = i2
  None = None
  Garbage = Garbage
  Threads <- MCThreads
  Items <- MCItems
  MaxLen = 2
PROPERTIES
  DoneReleases
CHECK_DEADLOCK FALSE
