CONSTANTS
    Thread = {t1, t2}
    Null = Null
    A = A
    B = B
    I = I
    Name = {A, B, I}
    Interface = {I}
    Asked = {A, B}
    Abstract = {B}
    MayFail = {"load", "link", "initialize"}
    Hierarchy <- MCHierarchy
    P = P
    C = C
    D = D
    InitializingMayFail = {"verify", "validate", "clinit"}
SPECIFICATION ClassesSpec
INVARIANTS OneClassPerName InitializedBeforeUse
PROPERTIES FindClassReturns EnsureInitializedReturns
CHECK_DEADLOCK FALSE
