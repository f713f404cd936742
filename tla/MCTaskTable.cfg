SPECIFICATION FairSpec
CONSTANTS
    NSLOT = 6
    SCAN = 2
    MAX_rank = 3
    BootFuncs <- MCBootFuncs
    MayReturn <- MCMayReturn
    StackWords = {0, 5, 77}
    WORK = 2
    task_idle = task_idle
    cstart = cstart
    NoFunc = NoFunc
    task_idle0 = task_idle0
    task_idle1 = task_idle1
    task_idle2 = task_idle2
    task_idle3 = task_idle3
INVARIANTS
    TypeOK
    OwnRegisters
    IdleNeverRuns
    SentinelNeverRuns
    DeadEnd
PROPERTIES
    DispatchOnlyReady
    NoSlotReuse
    RoundRobin
    ImplementsVcpu
