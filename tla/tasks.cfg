SPECIFICATION FairSpec
CONSTANTS
  noop = noop
  Nobody = noop
  Trees <- MCTrees
  Root <- MCRoot
  MaxTries = 2
INVARIANTS
  TypeOK
  ControlLive
  OnlyAwaitedFramesRemain
PROPERTIES
  StartedBeforeDestroyed
  LastEndResumes
  ImplementsStructuredTasks
  RunReturns
CHECK_DEADLOCK FALSE
