CONSTANTS
    Threads = {d1, n1, n2}
    Daemons = {d1}
    Main = main
    Tries = 2
    Worker = {w1, w2, w3}
    MaxTasks = 3
    InitialActive = 3
    NoTask = NoTask
SPECIFICATION ThreadsSpec
INVARIANT NoThreadLeftBehind
PROPERTIES ShutdownCompletes WaitMeansDone PoolProgress
CHECK_DEADLOCK FALSE
