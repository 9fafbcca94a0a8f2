CONSTANTS
    Thread = {t1, t2, t3}
    NoThread = NoThread
SPECIFICATION FairSpec
PROPERTIES ImplementsRWLock Progress
CHECK_DEADLOCK FALSE
