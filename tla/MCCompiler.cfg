CONSTANTS
    N = 4
    L = 2
    MaxOps = 3
    Programs <- MCPrograms
    R = 2
    Arch = {"x86", "arm", "x86_64"}
    CoreRegisters = 2
    StackSlots = {0, 1}
    DoubleStackSlots = {2, 4}
    MaxMoves = 3
SPECIFICATION CompilerSpec
INVARIANTS GraphAnalysed SsaValuesRight InputsInPlace MovesInParallel
CHECK_DEADLOCK FALSE
