SPECIFICATION FairSpec
CONSTANTS
    init = init
    t1 = t1
    t2 = t2
    t3 = t3
    Tasks = {init, t1, t2, t3}
    BootTasks = {init}
    MaxModules = 4
    Kinds = {"good", "empty", "bad"}
    NoTask = NoTask
INVARIANT OneTaskPerModule
INVARIANT NothingPassedOver
PROPERTY ModulesStartUnlessStopped
CHECK_DEADLOCK FALSE
