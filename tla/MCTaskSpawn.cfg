SPECIFICATION SpawnSpec
CONSTANTS
    NSLOT = 4
    SCAN = 2
    MAX_rank = 3
    BootFuncs <- MCBootFuncs
    MayReturn = {task_idle0}
    StackWords = {0, 1, 3, 4, 6}
    WORK = 1
    Masked = TRUE
    Ranks = {3, 5}
    task_idle = task_idle
    cstart = cstart
    NoFunc = NoFunc
    task_idle0 = task_idle0
    task_idle1 = task_idle1
INVARIANTS
    SpawnedRunTheirFunction
PROPERTIES
    OnlyTaskZeroIsOverwritten
