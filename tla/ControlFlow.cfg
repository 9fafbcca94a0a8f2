CONSTANT N = 4
SPECIFICATION Spec
INVARIANT LiveBlocksVisited
CHECK_DEADLOCK FALSE
