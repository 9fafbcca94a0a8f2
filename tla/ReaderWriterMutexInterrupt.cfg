CONSTANTS
    Thread = {t1, t2}
    NoThread = NoThread
SPECIFICATION Spec
INVARIANTS InterruptIsRetried
CHECK_DEADLOCK FALSE
