CONSTANTS
    Clients = {c1, c2}
    Threads = {t1, t2}
    HeapEnts = {e1, e2, e3, e4}
    PreEnts = {}
    MaxId = 4
    MinAlloc = 1
    MaxAlloc = 2
    MaxPolls = 1
    Prepopulate = FALSE
    Hows = {"sleep"}
    Ops = {"pend", "front", "noqueue"}
    TaskOps = {}
    CancelRacesExpiry = FALSE
    Nobody = Nobody
    c1 = c1
    c2 = c2
    t1 = t1
    t2 = t2
    e1 = e1
    e2 = e2
    e3 = e3
    e4 = e4
    q1 = q1
SPECIFICATION Spec
SYMMETRY Symmetry
INVARIANT LowestIdExact
CHECK_DEADLOCK FALSE
