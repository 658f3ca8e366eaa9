CONSTANTS
    Clients = {c1, c2}
    Threads = {t1, t2}
    HeapEnts = {e1, e2}
    PreEnts = {q1}
    MaxId = 3
    MinAlloc = 1
    MaxAlloc = 1
    MaxPolls = 1
    Prepopulate = FALSE
    Hows = {"sleep", "nosleep", "noalloc"}
    Ops = {"pend", "front", "delay", "ent", "cancel", "id", "outstanding"}
    TaskOps = {}
    CancelRacesExpiry = FALSE
    Nobody = Nobody
    c1 = c1
    c2 = c2
    t1 = t1
    t2 = t2
    e1 = e1
    e2 = e2
    e3 = e3
    e4 = e4
    q1 = q1
SPECIFICATION Spec
SYMMETRY Symmetry
INVARIANT LowestIdExact
 
INVARIANT EntriesOwned
INVARIANT IInv
PROPERTY LowestIdMonotone
PROPERTY KeepsPromise
CHECK_DEADLOCK FALSE
