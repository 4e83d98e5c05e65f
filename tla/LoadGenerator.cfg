SPECIFICATION LoadLiveSpec
CONSTANTS
    RatePerSecond = 1
    BurstCapacity = 1
    OtherPolicies <- NoOther
    MicroToken = 1
    Second = 1
    MaxTime = 3
    Requests = 3
    Warmup = 1
    Concurrency = 2
    Grain = 2
    Slack = 1
    Latencies <- ThreeLatencies
    ShortLists = 5
    LongLists = 101
INVARIANTS
    BoundIsSound
    VerdictIsSound
    PercentilesAreNearestRank
PROPERTIES
    RunEnds
