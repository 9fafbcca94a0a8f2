CONSTANTS
    Thread = {t1, t2, t3}
    NoThread = NoThread
    Recursive = TRUE
    MaxRecursion = 2
    Waiter = {t1, t2}
    Signaller = {t2, t3}
    MaxSequence = 1
SPECIFICATION CVFairSpec
PROPERTIES ImplementsLock Progress SignalsDelivered WaitReturnsHolding RequeuedProgress
