CONSTANTS
    Threads = {p1, p2}
    Cpus = {cpu1}
    Slabs = {s1}
    SlabObjs = 2
    MagSize = 2
    Emergency = {x1, x2}
    Vmem = TRUE
    Expire = {"mem"}
    Waits = {"sleep"}
    MaxHeld = 1
    Reaps = TRUE
    Configs = {"live"}
    p1 = p1
    p2 = p2
    s1 = s1
    s2 = s2
    x1 = x1
SPECIFICATION MCFairSpec
PROPERTY AllocProgress
PROPERTY ReapEnds
CHECK_DEADLOCK FALSE
