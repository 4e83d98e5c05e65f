SPECIFICATION Spec
CONSTANTS
    r1 = r1
    r2 = r2
    k1 = k1
    Requests <- OneRequest
    Keys <- OneKey
    NoKey = NoKey
    Blank = Blank
    Paths <- OnePath
    UpstreamStatuses <- TwoStatuses
INVARIANT EveryStatusIsSent
