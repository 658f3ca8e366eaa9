CONSTANTS
    Three = {a1, a2, a3}
    Two = {b1, b2}
    Other = {d1, d2}
    VAddrs = {v1}
    TSD_KEYS_MAX = 2
    None = None
    MaxRef = 2
    Sizes = {1, 2}
    spl_kmem_alloc_max = 1
    MaxLoads = 2
    MaxInstance = 2
    RawMax = 3
    kx = kx
    ky = ky
    kz = kz
    kc = kc
    MaxTime = 7
    MaxCount = 3
SPECIFICATION AllSpec
SYMMETRY Symmetry
INVARIANT TsdExact
INVARIANT KstatRegistry
INVARIANT QueueExact
INVARIANT VnodeRefsExact
INVARIANT FilesExact
INVARIANT TaskqListExact
INVARIANT AllocExact
INVARIANT LoadClean
CHECK_DEADLOCK FALSE
