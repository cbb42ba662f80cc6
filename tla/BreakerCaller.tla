---------------------------- MODULE BreakerCaller ----------------------------
(***************************************************************************)
(* A circuit breaker in the hands of its one caller, the way both sender   *)
(* tasks use it: ask can_execute, wait up to a second for something to     *)
(* send, make the call if there is, record how it went, and ask again.     *)
(* Traffic and the downstream service come and go as they like; a grant    *)
(* that finds nothing to send is followed by no call and no record.        *)
(*                                                                         *)
(* Three history variables say what really happened, independently of the  *)
(* breaker's own counters: the current run of failed calls, the current    *)
(* run of successful calls (each capped at its threshold, nothing looks    *)
(* further) and the time since the last call ended.                        *)
(***************************************************************************)
EXTENDS CircuitBreaker

VARIABLES
    breaker,
    pc,         \* "idle", "granted" by can_execute, or "calling"
    due,        \* an alert waits in the queue, or a batch is to be flushed
    healthy,    \* whether the downstream service answers
    failRun,    \* history: consecutive failed calls, up to FailureThreshold
    okRun,      \* history: consecutive successful calls, up to SuccessThreshold
    quiet       \* history: time since the last call ended, capped as ages are

vars == <<breaker, pc, due, healthy, failRun, okRun, quiet>>

Init ==
    /\ breaker = NewBreaker
    /\ pc = "idle"
    /\ due = FALSE
    /\ healthy \in BOOLEAN
    /\ failRun = 0
    /\ okRun = 0
    /\ quiet = 0

\* A refused caller sleeps and asks again: a refusal changes nothing.
Ask ==
    /\ pc = "idle"
    /\ can_execute(breaker)
    /\ breaker' = after_can_execute(breaker)
    /\ pc' = "granted"
    /\ UNCHANGED <<due, healthy, failRun, okRun, quiet>>

\* recv_timeout gives up, or what it took only fills a batch.
NothingDue ==
    /\ pc = "granted"
    /\ ~due
    /\ pc' = "idle"
    /\ UNCHANGED <<breaker, due, healthy, failRun, okRun, quiet>>

StartCall ==
    /\ pc = "granted"
    /\ due
    /\ pc' = "calling"
    /\ due' = FALSE
    /\ UNCHANGED <<breaker, healthy, failRun, okRun, quiet>>

CallSucceeds ==
    /\ pc = "calling"
    /\ healthy
    /\ breaker' = record_success(breaker)
    /\ pc' = "idle"
    /\ failRun' = 0
    /\ okRun' = IF okRun < SuccessThreshold THEN okRun + 1 ELSE okRun
    /\ quiet' = 0
    /\ UNCHANGED <<due, healthy>>

CallFails ==
    /\ pc = "calling"
    /\ ~healthy
    /\ breaker' = record_failure(breaker)
    /\ pc' = "idle"
    /\ failRun' = IF failRun < FailureThreshold THEN failRun + 1 ELSE failRun
    /\ okRun' = 0
    /\ quiet' = 0
    /\ UNCHANGED <<due, healthy>>

ServiceChanges ==
    /\ healthy' = ~healthy
    /\ UNCHANGED <<breaker, pc, due, failRun, okRun, quiet>>

\* Input: workers queue an alert, fill a batch, or its interval is over.
Traffic ==
    /\ ~due
    /\ due' = TRUE
    /\ UNCHANGED <<breaker, pc, healthy, failRun, okRun, quiet>>

Tick ==
    /\ breaker' = Aged(breaker)
    /\ quiet' = IF quiet <= BreakerTimeout THEN quiet + 1 ELSE quiet
    /\ UNCHANGED <<pc, due, healthy, failRun, okRun>>

Caller == Ask \/ NothingDue \/ StartCall \/ CallSucceeds \/ CallFails

Next == Caller \/ ServiceChanges \/ Traffic \/ Tick

\* The caller's loop never stops while the program runs, each wait in it has
\* a timeout, and time passes.  Nothing is assumed of traffic or the service.
Spec == Init /\ [][Next]_vars /\ WF_vars(Caller) /\ WF_vars(Tick)

-----------------------------------------------------------------------------
TypeOK ==
    /\ breaker \in Breaker
    /\ pc \in {"idle", "granted", "calling"}
    /\ due \in BOOLEAN
    /\ healthy \in BOOLEAN
    /\ failRun \in 0..FailureThreshold
    /\ okRun \in 0..SuccessThreshold
    /\ quiet \in 0..(BreakerTimeout + 1)

(***************************************************************************)
(* The breaker trips exactly on a run of failures.  It is Open only if the *)
(* last FailureThreshold calls all failed, with no success in between,     *)
(* whatever happened before them and through however many half-open        *)
(* probes; and it is never Closed when they all did.  record_failure and   *)
(* record_success, with the counts left by the three transitions.          *)
(***************************************************************************)
TripsOnFailureRun ==
    /\ breaker.state = "Open" => failRun = FailureThreshold
    /\ failRun = FailureThreshold => breaker.state # "Closed"

(***************************************************************************)
(* A half-open breaker closes only on SuccessThreshold successful calls in *)
(* a row, the failed probes in between starting the count again.           *)
(***************************************************************************)
ClosesOnSuccessRun ==
    [][breaker.state # "Closed" /\ breaker'.state = "Closed"
         => okRun' = SuccessThreshold]_vars

(***************************************************************************)
(* A service that has failed FailureThreshold calls in a row is left alone *)
(* for more than the whole timeout before it is called again, however long *)
(* before that can_execute moved the breaker to HalfOpen.                  *)
(***************************************************************************)
CoolsDown ==
    [][pc # "calling" /\ pc' = "calling" /\ failRun = FailureThreshold
         => quiet > BreakerTimeout]_vars

(***************************************************************************)
(* A service that comes back for good ends up behind a breaker that is     *)
(* closed for good, provided there is something to send again and again:   *)
(* neither the Open state nor the half-open probing can trap the caller.   *)
(* Without traffic there are no probes and the breaker stays as it is.     *)
(***************************************************************************)
Recovers == <>[]healthy /\ []<>due => <>[](breaker.state = "Closed")
=============================================================================
