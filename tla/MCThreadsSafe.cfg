CONSTANTS
    Threads = {t1, t2, t3}
    Tasks <- MCTasks
    Needs <- MCNeeds
    Kinds = {"queue", "noqueue", "delay"}
    Dynamic = TRUE
    MaxThreads = 3
    Sequential = 0
    CreateMayFail = TRUE
    SpawnMayFail = TRUE
    MayDestroy = TRUE
    Nobody = Nobody
    NTasks = 3
    t1 = t1
    t2 = t2
    t3 = t3
SPECIFICATION Spec
SYMMETRY Symmetry
INVARIANT SpawnsAccounted
INVARIANT StopTargetAlive
INVARIANT NoLostWakeup
INVARIANT DestroyedClean
CHECK_DEADLOCK FALSE
