CONSTANTS
    Object = {a, b}
    Null = Null
    Mutator = {m1}
    Global = {g}
    GcType = {"full", "sticky"}
    MaxLocals = 2
    Thread = {t1, t2}
    kPageSize = 9
    kBitsPerVec = 1
    fixed_header_size = 1
    bracketSizes <- MCBracketSizes
    numOfPages <- MCNumOfPages
    kNumThreadLocalSizeBrackets = 1
    LargeObjectPages = {2}
    MorecoreStart = 1
    InitialSize = 2
    MaxCapacity = 3
    GrowIncrement = 1
    page_release_mode = "SizeAndEnd"
    page_release_size_threshold = 2
    MaxBulk = 2
SYMMETRY Symm
SPECIFICATION HeapSpec
INVARIANTS NoDanglingReference GarbageFreed FreeMemoryIsZero SlotsVerified
CHECK_DEADLOCK FALSE
