CONSTANTS
    NULL = NULL
    j1 = j1
    j2 = j2
    Food = {j1, j2}
    NR_POOL = 2
    MaxTtl = 1
    Callers = {}
    MaxRunning = 1
SPECIFICATION BSpec
INVARIANTS
    BmsReachesLiveJobs
PROPERTIES
    CallbackFindsGenerators
    InitOnInvalidTimer
    BoundJobLeaves
    KilledHasPriority
