SPECIFICATION LoopSpec
CONSTANTS
  f1 = f1
  f2 = f2
  f3 = f3
  Null = Null
  Fds <- MCFds
  Frames <- MCFrames
  SelectFrames <- MCSelectFrames
  SharedWaits = FALSE
  WriterCloses = FALSE
  LateDrops = FALSE
  MaxRehashes = 1
INVARIANTS
  TypeOK
  CallbacksMatchWaits
  MaskArmed
  SelectTypeOK
  SelectIteratorValid
  SelectCallbacksMatchWaits
PROPERTIES
  ReadyWaitersResume
CHECK_DEADLOCK FALSE
