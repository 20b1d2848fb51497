SPECIFICATION FairSpec
CONSTANTS
    InitialTasks = 1
    MaxTasks = 3
    MinCapacity = 2
    null = null
    NULL = null
INVARIANT SavedContexts
INVARIANT UserRunsAsItself
PROPERTY ResumedWhereStopped
PROPERTY EveryTaskRunsUnlessStopped
CHECK_DEADLOCK FALSE
