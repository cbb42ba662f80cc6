--------------------------- MODULE CircuitBreaker ---------------------------
(***************************************************************************)
(* The circuit breaker of infrastructure/performance.rs as operators on a  *)
(* record, one operator per method.  The global registry creates one       *)
(* breaker per name and each name is used by a single sender task, so a    *)
(* method call is one atomic step of that task: the sender modules apply   *)
(* these operators to their own breaker variable.                          *)
(*                                                                         *)
(* Instants are ages: lastFailure is the time since the last recorded      *)
(* failure, grown by Aged and capped one unit past the timeout, where      *)
(* nothing depends on it any more.                                         *)
(***************************************************************************)
EXTENDS Integers

CONSTANTS
    FailureThreshold,   \* CIRCUIT_BREAKER_FAILURE_THRESHOLD
    SuccessThreshold,   \* CIRCUIT_BREAKER_SUCCESS_THRESHOLD
    BreakerTimeout,     \* CIRCUIT_BREAKER_TIMEOUT_SECS, in clock units
    CountMax            \* bound: usize::MAX, where the counters saturate

ASSUME BreakerAssumption ==
    /\ FailureThreshold \in Nat \ {0}
    /\ SuccessThreshold \in Nat \ {0}
    /\ BreakerTimeout \in Nat
    /\ CountMax \in Nat
    /\ FailureThreshold <= CountMax
    /\ SuccessThreshold <= CountMax

CircuitState == {"Closed", "Open", "HalfOpen"}

NoFailure == -1         \* last_failure_time is None

Breaker == [state : CircuitState,
            failures : 0..CountMax,
            successes : 0..CountMax,
            lastFailure : NoFailure..(BreakerTimeout + 1)]

NewBreaker == [state |-> "Closed", failures |-> 0, successes |-> 0,
               lastFailure |-> NoFailure]

increment_saturating(c) == IF c < CountMax THEN c + 1 ELSE c

Aged(b) ==
    IF b.lastFailure \in 0..BreakerTimeout
    THEN [b EXCEPT !.lastFailure = @ + 1]
    ELSE b

-----------------------------------------------------------------------------
transition_to_closed(b) ==
    [b EXCEPT !.state = "Closed", !.failures = 0, !.successes = 0]

transition_to_open(b) == [b EXCEPT !.state = "Open"]

transition_to_half_open(b) == [b EXCEPT !.state = "HalfOpen", !.successes = 0]

\* Seeded fault: the probe is let through one unit before the timeout has passed.
TimedOut_TooEarly(b) == b.lastFailure >= BreakerTimeout

TimedOut(b) == b.lastFailure > BreakerTimeout

\* can_execute answers and, from Open, may move to HalfOpen: the answer ...
can_execute(b) == b.state = "Open" => TimedOut(b)

\* Seeded fault: the call is let through but the state stays Open.
after_can_execute_StaysOpen(b) == b

\* ... and the breaker it leaves behind.
after_can_execute(b) ==
    IF b.state = "Open" /\ TimedOut(b) THEN transition_to_half_open(b) ELSE b

\* Seeded fault: a success leaves the failure count alone.
record_success_KeepsFailures(b) ==
    LET counted == [b EXCEPT !.successes = increment_saturating(@)]
    IN  IF b.state = "HalfOpen" /\ counted.successes >= SuccessThreshold
        THEN transition_to_closed(counted)
        ELSE counted

record_success(b) ==
    LET counted == [b EXCEPT !.successes = increment_saturating(@),
                             !.failures = 0]
    IN  IF b.state = "HalfOpen" /\ counted.successes >= SuccessThreshold
        THEN transition_to_closed(counted)
        ELSE counted

\* Seeded fault: a failure leaves the success count alone.
record_failure_KeepsSuccesses(b) ==
    LET counted == [b EXCEPT !.failures = increment_saturating(@),
                             !.lastFailure = 0]
    IN  IF counted.failures >= FailureThreshold /\ b.state # "Open"
        THEN transition_to_open(counted)
        ELSE counted

record_failure(b) ==
    LET counted == [b EXCEPT !.failures = increment_saturating(@),
                             !.successes = 0, !.lastFailure = 0]
    IN  IF counted.failures >= FailureThreshold /\ b.state # "Open"
        THEN transition_to_open(counted)
        ELSE counted
=============================================================================
