SPECIFICATION Spec
CONSTANTS
    e1 = e1
    e2 = e2
    e3 = e3
    bad = bad
    c1 = c1
    c2 = c2
    Events <- TwoEvents
    ValidEvents <- TwoEvents
    Closers <- OneCloser
    QueueCapacity = 2
    BatchSize = 2
    MaxAttempts = 2
INVARIANTS
    IdleGaugeIsExact
