CONSTANTS
    String = {s1, s2, s3}
    Null = Null
    Thread = {t1, t2}
    NoThread = NoThread
    HashCode = {1}
    kThinLockMaxCount = 1
    MaxDepth = 3
    Moving = TRUE
    Calls = {"enter", "exit", "wait", "interrupt", "notify", "notifyAll", "hash"}
    Contender = {c1, c2, c3}
    ContenderDepth = 1
    ContenderCalls = {"enter", "exit", "wait", "notify"}
SYMMETRY Symm
SPECIFICATION TablesSpec
INVARIANTS InternsAlive Canonical NoStaleMonitor ContenderNotLost
PROPERTY ImplementsMonitor
