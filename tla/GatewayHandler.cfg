SPECIFICATION Spec
CONSTANTS
    r1 = r1
    r2 = r2
    k1 = k1
    Requests <- TwoRequests
    Keys <- OneKey
    NoKey = NoKey
    Blank = Blank
    Paths <- SomePaths
    UpstreamStatuses <- TwoStatuses
SYMMETRY Symmetry
INVARIANTS
    ProxiedOnlyIfGranted
    RevocationIsImmediate
    UsageIsExact
    CountersAgree
    ScrapeIsConsistent
    FailureStatuses
    
    RecordedStatusIsSent
