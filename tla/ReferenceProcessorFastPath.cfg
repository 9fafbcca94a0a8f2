SPECIFICATION Spec
CONSTANTS
    Object = {x}
    Reference = {w}
    SoftReference = {}
    WeakReference = {w}
    FinalizerReference = {}
    PhantomReference = {}
    Enqueuable = {}
    Null = Null
    Mutator = {m1}
    clear_soft_references = FALSE
INVARIANT HeldNotSwept
CHECK_DEADLOCK FALSE
