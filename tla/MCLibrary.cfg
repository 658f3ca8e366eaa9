CONSTANTS
    Half = 8
    Gids = {0, 1, 3, 4, 7}
    NGroups = 5
    Base = 2
    Size = 15
    MaxItems = 3
    DivHalf = 4
    Width = 6
    Bases = {0, 8, 10, 16}
    Chars = {45, 48, 49, 55, 57, 65, 102, 120}
    MaxLen = 3
    SizeBits = 12
    Page = 16
    MB = 64
    SlabHeader = 10
    ObjHeader = 3
    MaxOrderPages = 8
    MaxSize = 990
    Aligns = {2, 4, 16}
    PerSlab = {1, 8}
    PerSlabMin = {1}
    MaxMB = {1, 4}
    KmemLimit = {16}
SPECIFICATION LibSpec
INVARIANT XdrExact
INVARIANT NumbersExact
 
INVARIANT SlabFits
CHECK_DEADLOCK FALSE
