SPECIFICATION ServerLiveSpec
CONSTANTS
    r1 = r1
    r2 = r2
    r3 = r3
    p1 = p1
    Unset = Unset
    Malformed = Malformed
    Limit = 2
    BatchSize = 2
    Requests <- AllRequests
    Probes <- OneProbe
    Environments <- SomeEnvironments
INVARIANTS
    NoLateEvent
    ClosedExitSettles
    ConstructorsAgree
    RetryDelayIsCapped
    ReadyIsWitnessed
PROPERTIES
    ShutdownEnds
    ProbeEnds
