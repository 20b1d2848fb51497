SPECIFICATION FairSpec
CONSTANTS
    InitialTasks = 2
    MaxTasks = 2
    MinCapacity = 2
    null = null
    NULL = null
PROPERTY EveryTaskRuns
CHECK_DEADLOCK FALSE
