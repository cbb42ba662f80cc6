------------------------ MODULE BreakerCaller_proofs ------------------------
(***************************************************************************)
(* The breaker's trip and reset rules, for every threshold and timeout.    *)
(***************************************************************************)
EXTENDS BreakerCaller, TLAPS

(***************************************************************************)
(* What each breaker method leaves behind is a breaker again.              *)
(***************************************************************************)
LEMMA BreakerTyped ==
    ASSUME NEW b \in Breaker
    PROVE  /\ after_can_execute(b) \in Breaker
           /\ record_success(b) \in Breaker
           /\ record_failure(b) \in Breaker
           /\ Aged(b) \in Breaker
<1>a. /\ 0 \in 0..CountMax
      /\ 0 \in NoFailure..(BreakerTimeout + 1)
      /\ \A n \in 0..CountMax : increment_saturating(n) \in 0..CountMax
  BY BreakerAssumption DEF BreakerAssumption, NoFailure, increment_saturating
<1>b. ASSUME NEW c \in Breaker
      PROVE  /\ [c EXCEPT !.state = "Open"] \in Breaker
             /\ [c EXCEPT !.state = "HalfOpen", !.successes = 0] \in Breaker
             /\ [c EXCEPT !.state = "Closed", !.failures = 0, !.successes = 0]
                  \in Breaker
  BY <1>a DEF Breaker, CircuitState
<1>c. ASSUME NEW f \in 0..CountMax, NEW s \in 0..CountMax
      PROVE  /\ [b EXCEPT !.successes = s, !.failures = f] \in Breaker
             /\ [b EXCEPT !.failures = f, !.successes = s, !.lastFailure = 0]
                  \in Breaker
  BY <1>a DEF Breaker, CircuitState
<1>d. /\ increment_saturating(b.successes) \in 0..CountMax
      /\ increment_saturating(b.failures) \in 0..CountMax
  BY <1>a DEF Breaker
<1>1. after_can_execute(b) \in Breaker
  BY <1>b DEF after_can_execute, transition_to_half_open
<1>2. record_success(b) \in Breaker
  BY <1>a, <1>b, <1>c, <1>d DEF record_success, transition_to_closed
<1>3. record_failure(b) \in Breaker
  BY <1>a, <1>b, <1>c, <1>d DEF record_failure, transition_to_open
<1>4. Aged(b) \in Breaker
  <2>1. b.lastFailure \in 0..BreakerTimeout
          => b.lastFailure + 1 \in NoFailure..(BreakerTimeout + 1)
    BY BreakerAssumption DEF BreakerAssumption, NoFailure
  <2> QED BY <2>1 DEF Aged, Breaker
<1> QED BY <1>1, <1>2, <1>3, <1>4

(***************************************************************************)
(* The state of a caller is always well typed.                             *)
(***************************************************************************)
THEOREM Typing == Spec => []TypeOK
<1>1. Init => TypeOK
  <2>1. NewBreaker \in Breaker
    BY BreakerAssumption
    DEF BreakerAssumption, NewBreaker, Breaker, CircuitState, NoFailure
  <2>2. /\ 0 \in 0..FailureThreshold /\ 0 \in 0..SuccessThreshold
        /\ 0 \in 0..(BreakerTimeout + 1)
    BY BreakerAssumption DEF BreakerAssumption
  <2> QED BY <2>1, <2>2, Zenon DEF Init, TypeOK
<1>2. TypeOK /\ [Next]_vars => TypeOK'
  <2> SUFFICES ASSUME TypeOK, [Next]_vars PROVE TypeOK'
    OBVIOUS
  <2> USE BreakerAssumption DEF BreakerAssumption, TypeOK
  <2>1. CASE Ask
    BY <2>1, BreakerTyped DEF Ask
  <2>0. CASE NothingDue \/ StartCall \/ Traffic
    BY <2>0 DEF NothingDue, StartCall, Traffic
  <2>2. CASE CallSucceeds
    BY <2>2, BreakerTyped DEF CallSucceeds
  <2>3. CASE CallFails
    BY <2>3, BreakerTyped DEF CallFails
  <2>4. CASE ServiceChanges
    BY <2>4 DEF ServiceChanges
  <2>5. CASE Tick
    BY <2>5, BreakerTyped DEF Tick
  <2>6. CASE UNCHANGED vars
    BY <2>6 DEF vars
  <2> QED BY <2>0, <2>1, <2>2, <2>3, <2>4, <2>5, <2>6 DEF Next, Caller
<1> QED BY <1>1, <1>2, PTL DEF Spec

(***************************************************************************)
(* The inductive invariant ties the breaker's counters to what happened.   *)
(* Up to the threshold, the failure count is the run of failed calls,      *)
(* except that closing the breaker resets it, which only a success does.   *)
(* The success count never exceeds the run of successful calls: half-open  *)
(* entry resets the count and leaves the run alone.  An Open breaker's     *)
(* last failure is as old as the silence since the call that caused it; a  *)
(* HalfOpen one behind a full run of failures has waited the timeout out,  *)
(* also when the grant found nothing to send.                              *)
(***************************************************************************)
CountsFollowCalls ==
    /\ breaker.failures < FailureThreshold => failRun = breaker.failures
    /\ breaker.failures >= FailureThreshold => failRun = FailureThreshold
    /\ breaker.failures >= FailureThreshold => breaker.state # "Closed"
    /\ breaker.state = "Open" => breaker.failures >= FailureThreshold
    /\ breaker.successes < SuccessThreshold => breaker.successes <= okRun
    /\ breaker.successes >= SuccessThreshold => okRun = SuccessThreshold
    /\ pc # "idle" => breaker.state # "Open"
    /\ breaker.state = "Open" => breaker.lastFailure = quiet
    /\ breaker.state = "HalfOpen" /\ pc # "calling" /\ failRun = FailureThreshold
         => quiet > BreakerTimeout

LEMMA CountsInitially == Init => CountsFollowCalls
  BY BreakerAssumption DEF BreakerAssumption, Init, CountsFollowCalls, NewBreaker

LEMMA CountsStep == TypeOK /\ CountsFollowCalls /\ [Next]_vars => CountsFollowCalls'
<1> SUFFICES ASSUME TypeOK, CountsFollowCalls, [Next]_vars
             PROVE  CountsFollowCalls'
  OBVIOUS
<1> USE BreakerAssumption DEF BreakerAssumption, TypeOK, CountsFollowCalls, Breaker, CircuitState,
                              NoFailure
<1>1. CASE Ask
  BY <1>1 DEF Ask, can_execute, after_can_execute, TimedOut,
              transition_to_half_open
<1>0. CASE NothingDue \/ StartCall \/ Traffic
  BY <1>0 DEF NothingDue, StartCall, Traffic
<1>2. CASE CallSucceeds
  BY <1>2 DEF CallSucceeds, record_success, transition_to_closed,
              increment_saturating
<1>3. CASE CallFails
  BY <1>3 DEF CallFails, record_failure, transition_to_open,
              increment_saturating
<1>4. CASE ServiceChanges
  BY <1>4 DEF ServiceChanges
<1>5. CASE Tick
  BY <1>5 DEF Tick, Aged
<1>6. CASE UNCHANGED vars
  BY <1>6 DEF vars
<1> QED BY <1>0, <1>1, <1>2, <1>3, <1>4, <1>5, <1>6 DEF Next, Caller

(***************************************************************************)
(* record_failure and record_success trip the breaker exactly on a run of  *)
(* FailureThreshold failed calls.                                          *)
(***************************************************************************)
THEOREM TripsExactly == Spec => []TripsOnFailureRun
<1>1. TypeOK /\ CountsFollowCalls => TripsOnFailureRun
  BY BreakerAssumption DEF BreakerAssumption, TypeOK, CountsFollowCalls, TripsOnFailureRun,
                           Breaker, CircuitState
<1> QED BY <1>1, Typing, CountsInitially, CountsStep, PTL DEF Spec

(***************************************************************************)
(* A tripped breaker closes only on SuccessThreshold successful calls in a *)
(* row.                                                                    *)
(***************************************************************************)
THEOREM ClosesExactly == Spec => ClosesOnSuccessRun
<1> DEFINE Closing == breaker.state # "Closed" /\ breaker'.state = "Closed"
                        => okRun' = SuccessThreshold
<1>1. TypeOK /\ CountsFollowCalls /\ [Next]_vars => [Closing]_vars
  <2> SUFFICES ASSUME TypeOK, CountsFollowCalls, [Next]_vars,
                      breaker.state # "Closed", breaker'.state = "Closed"
               PROVE  okRun' = SuccessThreshold
    OBVIOUS
  <2> USE BreakerAssumption DEF BreakerAssumption, TypeOK, Breaker, CircuitState, NoFailure
  <2>1. CASE CallSucceeds
    BY <2>1 DEF CountsFollowCalls, CallSucceeds, record_success,
                transition_to_closed, increment_saturating
  <2>2. CASE Ask
    BY <2>2 DEF Ask, after_can_execute, transition_to_half_open
  <2>0. CASE NothingDue \/ StartCall \/ Traffic
    BY <2>0 DEF NothingDue, StartCall, Traffic
  <2>3. CASE CallFails
    BY <2>3 DEF CallFails, record_failure, transition_to_open
  <2>4. CASE ServiceChanges
    BY <2>4 DEF ServiceChanges
  <2>5. CASE Tick
    BY <2>5 DEF Tick, Aged
  <2>6. CASE UNCHANGED vars
    BY <2>6 DEF vars
  <2> QED BY <2>0, <2>1, <2>2, <2>3, <2>4, <2>5, <2>6 DEF Next, Caller
<1> QED BY <1>1, Typing, CountsInitially, CountsStep, PTL
        DEF Spec, ClosesOnSuccessRun

(***************************************************************************)
(* After a full run of failures no call is made before the timeout has     *)
(* passed.                                                                 *)
(***************************************************************************)
THEOREM CoolsDownFully == Spec => CoolsDown
<1> DEFINE Waits == pc # "calling" /\ pc' = "calling" /\ failRun = FailureThreshold
                      => quiet > BreakerTimeout
<1>1. TypeOK /\ CountsFollowCalls /\ [Next]_vars => [Waits]_vars
  <2> SUFFICES ASSUME TypeOK, CountsFollowCalls, [Next]_vars,
                      pc # "calling", pc' = "calling", failRun = FailureThreshold
               PROVE  quiet > BreakerTimeout
    OBVIOUS
  <2>1. StartCall
    BY DEF Next, Caller, Ask, NothingDue, CallSucceeds, CallFails, ServiceChanges,
           Traffic, Tick, vars
  <2>2. pc = "granted"
    BY <2>1 DEF StartCall
  <2>3. breaker.failures >= FailureThreshold
    BY BreakerAssumption DEF BreakerAssumption, TypeOK, Breaker, CountsFollowCalls
  <2>4. breaker.state = "HalfOpen"
    BY <2>2, <2>3 DEF TypeOK, Breaker, CircuitState, CountsFollowCalls
  <2> QED BY <2>2, <2>4 DEF CountsFollowCalls
<1> QED BY <1>1, Typing, CountsInitially, CountsStep, PTL DEF Spec, CoolsDown
=============================================================================
