CONSTANTS
    Caches = {k1, k2}
    h1 = h1
    h2 = h2
    MaxTask = 3
SPECIFICATION FairSpec
INVARIANT NoUseAfterFree
 
 
CHECK_DEADLOCK FALSE
