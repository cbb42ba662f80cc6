CONSTANTS
    FailureThreshold = 2
    SuccessThreshold = 2
    BreakerTimeout = 1
    CountMax = 2
    QueueCap = 2
    MaxAlerts = 5
SPECIFICATION Spec
INVARIANTS
    EachAlertOnce
PROPERTIES
    Terminates
    ImplementsSink
