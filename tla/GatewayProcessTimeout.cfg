SPECIFICATION Spec
CONSTANTS
    r1 = r1
    r2 = r2
    Limit = 2
    BatchSize = 2
    Requests <- TwoRequests
INVARIANT ShutdownSettles
