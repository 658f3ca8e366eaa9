CONSTANTS
    Clients = {c1}
    Threads = {t1, t2}
    HeapEnts = {e1, e2, e3}
    PreEnts = {}
    MaxId = 3
    MinAlloc = 1
    MaxAlloc = 2
    MaxPolls = 1
    Prepopulate = FALSE
    Hows = {"sleep"}
    Ops = {"pend", "noqueue", "delay", "id", "outstanding", "all", "destroy"}
    TaskOps = {"front", "delay"}
    CancelRacesExpiry = FALSE
    Nobody = Nobody
    c1 = c1
    c2 = c2
    t1 = t1
    t2 = t2
    e1 = e1
    e2 = e2
    e3 = e3
    e4 = e4
    q1 = q1
SPECIFICATION FairSpec
 
PROPERTY TasksComplete
PROPERTY WaitersReturn
CHECK_DEADLOCK FALSE
