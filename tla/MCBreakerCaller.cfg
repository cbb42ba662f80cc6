\* FailureThreshold and SuccessThreshold are the shipped defaults; the timeout
\* of 30 s is 2 units, and counters saturate one past the larger threshold.
CONSTANTS
    FailureThreshold = 5
    SuccessThreshold = 3
    BreakerTimeout = 2
    CountMax = 6
SPECIFICATION Spec
INVARIANTS
    TripsOnFailureRun
PROPERTIES
    ClosesOnSuccessRun
    CoolsDown
    Recovers
