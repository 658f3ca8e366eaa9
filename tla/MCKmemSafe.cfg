CONSTANTS
    Threads = {p1, p2}
    Cpus = {cpu1, cpu2}
    Slabs = {s1, s2}
    SlabObjs = 2
    MagSize = 2
    Emergency = {x1}
    Vmem = TRUE
    Expire = {"mem"}
    Waits = {"sleep"}
    MaxHeld = 2
    Reaps = FALSE
    Configs = {"direct", "async", "reap", "age"}
    p1 = p1
    p2 = p2
    s1 = s1
    s2 = s2
    x1 = x1
SPECIFICATION MCSpec
SYMMETRY Symmetry
INVARIANT ObjectsOwned
INVARIANT MagazineBounded
INVARIANT SlabsExact
CHECK_DEADLOCK FALSE
