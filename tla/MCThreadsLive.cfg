CONSTANTS
    Threads = {t1, t2}
    Nobody = Nobody
    t1 = t1
    t2 = t2
SPECIFICATION FairSpec
PROPERTY TasksComplete
PROPERTY DestroyCompletes
CHECK_DEADLOCK FALSE
