CONSTANTS
    Thread = {t1, t2, t3}
    NoThread = NoThread
    Collector = {t2}
    Suspender = {t2, t3}
    Marker = {t1}
    Sampler = {t2}
    kMaxCheckpoints = 2
    MaxCalls = 2
SPECIFICATION CheckpointFairSpec
INVARIANTS StopTheWorld NoSuspendCycle TargetStays ExactlyOnce CheckpointsConsistent
PROPERTY EveryoneResumes
