SPECIFICATION FairSpec
CONSTANTS
  Kind <- OneOfEach
  NumThreads = 2
  MaxTasks = 4
  None = None
INVARIANTS
  DeletedIsIdle
  LoopEndsSynchronized
PROPERTIES
  DoneEndsLoop
CHECK_DEADLOCK FALSE
