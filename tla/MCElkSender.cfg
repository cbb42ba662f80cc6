CONSTANTS
    FailureThreshold = 2
    SuccessThreshold = 2
    BreakerTimeout = 1
    CountMax = 2
    QueueCap = 3
    BatchSize = 2
    FlushInterval = 1
    RetryBase = 1
    RetryMax = 2
    PoolSize = 2
    MaxEvents = 5
SPECIFICATION Spec
INVARIANTS
    TypeOK
    EachEventOnce
    InOrder
    OpenHoldsNothing
    OneConnection
    LossHasCause
PROPERTIES
    Terminates
    ImplementsSink
