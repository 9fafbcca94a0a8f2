SPECIFICATION CollectionSpec
CONSTANTS
    Object = {x}
    Reference = {s, w, f, p}
    SoftReference = {s}
    WeakReference = {w}
    FinalizerReference = {f}
    PhantomReference = {p}
    Enqueuable = {f, p}
    Null = Null
    Mutator = {m1}
    clear_soft_references = FALSE
    mutator = mutator
    daemon = daemon
    native = native
    Foreground = "CMS"
    Background = "SS"
    CompactForOom = TRUE
    IgnoreMaxFootprint = FALSE
    MaxPlan = 1
INVARIANTS OnlyFastPathLeaks ReferencesProcessed CriticalNotMoved ConcurrentGcEnabled
PROPERTIES GetReferentReturns
CHECK_DEADLOCK FALSE
