SPECIFICATION Spec
CONSTANTS
    RatePerSecond = 2
    BurstCapacity = 2
    OtherPolicies <- Earlier
    MicroToken = 6
    Second = 3
    MaxTime = 14
INVARIANTS
    WithinQuota
    RetryIsExact
    RetryAfterIsEnough
    ResetIsExact
