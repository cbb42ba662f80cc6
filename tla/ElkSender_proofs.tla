-------------------------- MODULE ElkSender_proofs --------------------------
(***************************************************************************)
(* The ELK sender's safety for every queue, batch, threshold and number of *)
(* events: where its control is, what becomes of each event (one fate,     *)
(* order kept, a cause for every loss), and that it is a best-effort sink. *)
(***************************************************************************)
EXTENDS ElkSender, SequenceTheorems, TLAPS

(***************************************************************************)
(* What each breaker method leaves behind is a breaker again.              *)
(***************************************************************************)
LEMMA BreakerTyped ==
    ASSUME NEW b \in Breaker
    PROVE  /\ after_can_execute(b) \in Breaker
           /\ record_success(b) \in Breaker
           /\ record_failure(b) \in Breaker
           /\ Aged(b) \in Breaker
<1>a. /\ 0 \in 0..CountMax
      /\ 0 \in NoFailure..(BreakerTimeout + 1)
      /\ \A n \in 0..CountMax : increment_saturating(n) \in 0..CountMax
  BY BreakerAssumption DEF BreakerAssumption, NoFailure, increment_saturating
<1>b. ASSUME NEW c \in Breaker
      PROVE  /\ [c EXCEPT !.state = "Open"] \in Breaker
             /\ [c EXCEPT !.state = "HalfOpen", !.successes = 0] \in Breaker
             /\ [c EXCEPT !.state = "Closed", !.failures = 0, !.successes = 0]
                  \in Breaker
  BY <1>a DEF Breaker, CircuitState
<1>c. ASSUME NEW f \in 0..CountMax, NEW s \in 0..CountMax
      PROVE  /\ [b EXCEPT !.successes = s, !.failures = f] \in Breaker
             /\ [b EXCEPT !.failures = f, !.successes = s, !.lastFailure = 0]
                  \in Breaker
  BY <1>a DEF Breaker, CircuitState
<1>d. /\ increment_saturating(b.successes) \in 0..CountMax
      /\ increment_saturating(b.failures) \in 0..CountMax
  BY <1>a DEF Breaker
<1>1. after_can_execute(b) \in Breaker
  BY <1>b DEF after_can_execute, transition_to_half_open
<1>2. record_success(b) \in Breaker
  BY <1>a, <1>b, <1>c, <1>d DEF record_success, transition_to_closed
<1>3. record_failure(b) \in Breaker
  BY <1>a, <1>b, <1>c, <1>d DEF record_failure, transition_to_open
<1>4. Aged(b) \in Breaker
  <2>1. b.lastFailure \in 0..BreakerTimeout
          => b.lastFailure + 1 \in NoFailure..(BreakerTimeout + 1)
    BY BreakerAssumption DEF BreakerAssumption, NoFailure
  <2> QED BY <2>1 DEF Aged, Breaker
<1> QED BY <1>1, <1>2, <1>3, <1>4

(***************************************************************************)
(* can_execute says yes exactly when it leaves a breaker that is not Open, *)
(* and neither a success nor the passing of time opens one.                *)
(***************************************************************************)
LEMMA BreakerStates ==
    ASSUME NEW b \in Breaker
    PROVE  /\ can_execute(b) <=> after_can_execute(b).state # "Open"
           /\ b.state # "Open" => after_can_execute(b) = b
           /\ b.state # "Open" => record_success(b).state # "Open"
           /\ Aged(b).state = b.state
<1> USE DEF Breaker, CircuitState
<1>1. can_execute(b) <=> after_can_execute(b).state # "Open"
  BY DEF can_execute, after_can_execute, transition_to_half_open
<1>2. b.state # "Open" => after_can_execute(b) = b
  BY DEF after_can_execute
<1>3. b.state # "Open" => record_success(b).state # "Open"
  BY DEF record_success, transition_to_closed
<1>4. Aged(b).state = b.state
  BY DEF Aged
<1> QED BY <1>1, <1>2, <1>3, <1>4

-----------------------------------------------------------------------------

(***************************************************************************)
(* Control.  Where the task takes an event there is room in the batch;     *)
(* past the breaker's yes the breaker is not Open, and an Open breaker     *)
(* finds an empty batch; a connection is checked out exactly while writing *)
(* and a new one is opened only when none is idle.                         *)
(***************************************************************************)
BatchHasRoom ==
    pc \in {"top", "sleeping", "receiving", "checking"} => Len(batch) < BatchSize

PastTheBreaker ==
    /\ breaker.state = "Open" => batch = <<>>
    /\ pc \in {"receiving", "flushing", "connecting", "writing"}
         => breaker.state # "Open"

CheckoutDiscipline ==
    /\ conn # NoConn <=> pc = "writing"
    /\ pc = "writing" => idle = <<>>
    /\ pc = "connecting" => idle = <<>>
    /\ Len(idle) <= 1

Control == TypeOK /\ BatchHasRoom /\ PastTheBreaker /\ CheckoutDiscipline

LEMMA ControlInitially == Init => Control
<1> SUFFICES ASSUME Init PROVE Control
  OBVIOUS
<1> USE BreakerAssumption, ElkAssumption
    DEF BreakerAssumption, ElkAssumption
<1>1. breaker \in Breaker
  BY DEF Init, NewBreaker, Breaker, CircuitState, NoFailure
<1>2. FlagsOK
  BY DEF Init, FlagsOK
<1>3. QueueOK
  BY DEF Init, QueueOK
<1>4. TaskOK
  BY <1>1 DEF Init, TaskOK, Labels, FlushCalls
<1>5. PoolOK
  BY DEF Init, PoolOK
<1>6. SettledOK
  BY DEF Init, SettledOK
<1>7. BatchHasRoom /\ PastTheBreaker /\ CheckoutDiscipline
  BY DEF Init, BatchHasRoom, PastTheBreaker, CheckoutDiscipline, NewBreaker
<1> QED BY <1>2, <1>3, <1>4, <1>5, <1>6, <1>7 DEF Control, TypeOK

(***************************************************************************)
(* flush_batch_to_elk returns to a caller that has cleared the batch.      *)
(***************************************************************************)
LEMMA FlushEndsControl ==
    ASSUME Control, NEW ok \in BOOLEAN, FlushEnds(ok, breaker)
    PROVE  /\ QueueOK' /\ TaskOK' /\ BatchHasRoom' /\ PastTheBreaker'
           /\ pc' \in {"top", "checking", "closing"}
           /\ UNCHANGED <<connected, shutdown, stranded>>
<1> USE DEF FlushEnds, FlushRecorded, Control, TypeOK, TaskOK, world
<1>1. breaker' \in Breaker
  BY BreakerTyped
<1>2. retryDelay' \in RetryBase..RetryMax
  BY ElkAssumption DEF ElkAssumption, Backoff
<1>3. sinceFlush' \in 0..FlushInterval
  BY ElkAssumption DEF ElkAssumption
<1>4. pc' \in {"top", "checking", "closing"}
  BY DEF AfterFlush, FlushCalls
<1>5. batch' \in Seq(1..MaxEvents) /\ Len(batch') = 0
  BY EmptySeq
<1>6. TaskOK'
  BY <1>1, <1>2, <1>3, <1>4, <1>5, ElkAssumption DEF Labels, ElkAssumption
<1>7. BatchHasRoom'
  BY <1>5, ElkAssumption DEF BatchHasRoom, ElkAssumption
<1>8. PastTheBreaker'
  BY <1>4 DEF PastTheBreaker
<1>9. QueueOK' /\ UNCHANGED <<connected, shutdown, stranded>>
  BY DEF QueueOK
<1> QED BY <1>4, <1>6, <1>7, <1>8, <1>9

(***************************************************************************)
(* Taking the only element of a sequence leaves the empty one.             *)
(***************************************************************************)
LEMMA OnlyElement ==
    ASSUME NEW S, NEW s \in Seq(S), s # <<>>, Len(s) <= 1
    PROVE  Head(s) \in S /\ Tail(s) = <<>>
<1>1. Len(s) = 1
  <2>1. Len(s) \in Nat \ {0}
    BY EmptySeq
  <2> QED BY <2>1
<1>2. Head(s) \in S /\ Tail(s) \in Seq(S) /\ Len(Tail(s)) = 0
  BY <1>1, HeadTailProperties
<1>3. Tail(s) = <<>>
  BY <1>2, EmptySeq
<1> QED BY <1>2, <1>3

(***************************************************************************)
(* The elements of a sequence over S are in S.                             *)
(***************************************************************************)
LEMMA RangeTyped ==
    ASSUME NEW S, NEW s \in Seq(S)
    PROVE  Range(s) \subseteq S
<1>1. DOMAIN s = 1..Len(s) /\ \A i \in 1..Len(s) : s[i] \in S
  BY LenProperties, ElementOfSeq
<1> QED BY <1>1 DEF Range

(***************************************************************************)
(* Where events go when a batch is settled, they are events.               *)
(***************************************************************************)
LEMMA BatchTyped ==
    ASSUME TaskOK, SettledOK
    PROVE  /\ BatchEvents \subseteq 1..MaxEvents
           /\ received \o batch \in Seq(1..MaxEvents)
           /\ \A k \in 0..(Len(batch) - 1) :
                /\ received \o SubSeq(batch, 1, k) \in Seq(1..MaxEvents)
                /\ {batch[i] : i \in (k + 1)..Len(batch)} \subseteq 1..MaxEvents
<1> USE DEF TaskOK, SettledOK
<1>1. Len(batch) \in Nat /\ DOMAIN batch = 1..Len(batch)
      /\ \A i \in 1..Len(batch) : batch[i] \in 1..MaxEvents
  BY LenProperties, ElementOfSeq
<1>2. BatchEvents \subseteq 1..MaxEvents
  BY <1>1 DEF BatchEvents, Range
<1>3. received \o batch \in Seq(1..MaxEvents)
  OBVIOUS
<1>4. ASSUME NEW k \in 0..(Len(batch) - 1)
      PROVE  /\ received \o SubSeq(batch, 1, k) \in Seq(1..MaxEvents)
             /\ {batch[i] : i \in (k + 1)..Len(batch)} \subseteq 1..MaxEvents
  <2>1. SubSeq(batch, 1, k) \in Seq(1..MaxEvents)
    BY <1>1, SubSeqProperties
  <2>2. received \o SubSeq(batch, 1, k) \in Seq(1..MaxEvents)
    BY <2>1
  <2> QED BY <1>1, <2>2
<1> QED BY <1>2, <1>3, <1>4

(***************************************************************************)
(* Actions that leave a part of the state alone leave its typing alone.    *)
(***************************************************************************)
LEMMA PartsUnchanged ==
    /\ FlagsOK /\ UNCHANGED <<connected, shutdown, faulty>> => FlagsOK'
    /\ QueueOK /\ UNCHANGED <<accepted, queue>> => QueueOK'
    /\ TaskOK /\ UNCHANGED task => TaskOK'
    /\ PoolOK /\ UNCHANGED pool => PoolOK'
    /\ SettledOK /\ UNCHANGED settled => SettledOK'
<1>1. FlagsOK /\ UNCHANGED <<connected, shutdown, faulty>> => FlagsOK'
  BY DEF FlagsOK
<1>2. QueueOK /\ UNCHANGED <<accepted, queue>> => QueueOK'
  BY DEF QueueOK
<1>3. TaskOK /\ UNCHANGED task => TaskOK'
  BY DEF TaskOK, task, timing
<1>4. PoolOK /\ UNCHANGED pool => PoolOK'
  BY DEF PoolOK, pool
<1>5. SettledOK /\ UNCHANGED settled => SettledOK'
  BY DEF SettledOK, settled
<1> QED BY <1>1, <1>2, <1>3, <1>4, <1>5

(***************************************************************************)
(* return_connection leaves one idle connection and none checked out.      *)
(***************************************************************************)
LEMMA ReturnControl ==
    ASSUME PoolOK, CheckoutDiscipline, pc = "writing", NEW c \in Health, return_connection(c),
           pc' \in {"top", "checking", "closing"}
    PROVE  PoolOK' /\ CheckoutDiscipline'
<1>1. idle = <<>>
  BY DEF CheckoutDiscipline
<1>2. idle' = <<c>> /\ conn' = NoConn
  BY <1>1, EmptySeq, ElkAssumption DEF return_connection, ElkAssumption
<1>3. idle' \in Seq(Health) /\ Len(idle') = 1
  BY <1>1, <1>2
<1>4. active' \in 0..CountMax
  BY BreakerAssumption
  DEF return_connection, decrement_saturating, PoolOK, BreakerAssumption
<1> QED BY <1>2, <1>3, <1>4, ElkAssumption
        DEF PoolOK, CheckoutDiscipline, ElkAssumption

LEMMA ControlStep == Control /\ [Next]_vars => Control'
<1> SUFFICES ASSUME Control, [Next]_vars PROVE Control'
  OBVIOUS
<1>a. FlagsOK /\ QueueOK /\ TaskOK /\ PoolOK /\ SettledOK
      /\ BatchHasRoom /\ PastTheBreaker /\ CheckoutDiscipline
  BY DEF Control, TypeOK
<1>b. ASSUME FlagsOK', QueueOK', TaskOK', PoolOK', SettledOK',
             BatchHasRoom', PastTheBreaker', CheckoutDiscipline'
      PROVE  Control'
  BY <1>b DEF Control, TypeOK
<1> USE DEF world, timing, outside
<1>1. CASE LoopTop
  <2> USE <1>1 DEF LoopTop
  <2>1. TaskOK'
    BY <1>a, BreakerTyped, ElkAssumption DEF TaskOK, Labels, ElkAssumption
  <2>2. BatchHasRoom'
    BY <1>a DEF BatchHasRoom
  <2>3. PastTheBreaker'
    BY <1>a, BreakerStates DEF PastTheBreaker, TaskOK
  <2>4. CheckoutDiscipline'
    BY <1>a DEF CheckoutDiscipline, pool
  <2> QED BY <1>a, <1>b, <2>1, <2>2, <2>3, <2>4, PartsUnchanged
<1>2. CASE Wake
  <2> USE <1>2 DEF Wake
  <2>1. TaskOK'
    BY <1>a DEF TaskOK, Labels, FlushCalls
  <2>2. BatchHasRoom' /\ PastTheBreaker' /\ CheckoutDiscipline'
    BY <1>a DEF BatchHasRoom, PastTheBreaker, CheckoutDiscipline, pool
  <2> QED BY <1>a, <1>b, <2>1, <2>2, PartsUnchanged
<1>3. CASE RecvEvent
  <2> USE <1>3 DEF RecvEvent
  <2>1. Head(queue) \in 1..MaxEvents /\ Tail(queue) \in Seq(1..MaxEvents)
        /\ Len(Tail(queue)) <= QueueCap
    BY <1>a, ElkAssumption DEF QueueOK, ElkAssumption
  <2>2. batch' \in Seq(1..MaxEvents) /\ Len(batch') = Len(batch) + 1
    BY <1>a, <2>1 DEF TaskOK
  <2>3. QueueOK'
    BY <1>a, <2>1 DEF QueueOK
  <2>4. TaskOK'
    BY <1>a, <2>2, ElkAssumption
    DEF TaskOK, BatchHasRoom, Labels, FlushCalls, ElkAssumption
  <2>5. BatchHasRoom'
    BY <1>a, <2>2, ElkAssumption DEF TaskOK, BatchHasRoom, ElkAssumption
  <2>6. PastTheBreaker'
    BY <1>a DEF PastTheBreaker
  <2>7. CheckoutDiscipline'
    BY <1>a DEF CheckoutDiscipline, pool
  <2> QED BY <1>a, <1>b, <2>3, <2>4, <2>5, <2>6, <2>7, PartsUnchanged
<1>4. CASE RecvTimeout
  <2> USE <1>4 DEF RecvTimeout
  <2>1. TaskOK'
    BY <1>a DEF TaskOK, Labels, FlushCalls
  <2>2. BatchHasRoom' /\ PastTheBreaker' /\ CheckoutDiscipline'
    BY <1>a DEF BatchHasRoom, PastTheBreaker, CheckoutDiscipline, pool
  <2> QED BY <1>a, <1>b, <2>1, <2>2, PartsUnchanged
<1>5. CASE RecvDisconnected
  <2> USE <1>5 DEF RecvDisconnected
  <2>1. TaskOK'
    BY <1>a DEF TaskOK, Labels, FlushCalls
  <2>2. BatchHasRoom' /\ PastTheBreaker' /\ CheckoutDiscipline'
    BY <1>a DEF BatchHasRoom, PastTheBreaker, CheckoutDiscipline, pool
  <2> QED BY <1>a, <1>b, <2>1, <2>2, PartsUnchanged
<1>6. CASE CheckShutdown
  <2> USE <1>6 DEF CheckShutdown
  <2>1. TaskOK'
    BY <1>a DEF TaskOK, Labels, FlushCalls
  <2>2. BatchHasRoom' /\ PastTheBreaker' /\ CheckoutDiscipline'
    BY <1>a DEF BatchHasRoom, PastTheBreaker, CheckoutDiscipline, pool
  <2> QED BY <1>a, <1>b, <2>1, <2>2, PartsUnchanged
<1>7. CASE BeginFlush
  <2>1. can_execute(breaker) /\ after_can_execute(breaker) = breaker
    BY <1>a, <1>7, BreakerStates DEF BeginFlush, PastTheBreaker, TaskOK
  <2>2. /\ pc = "flushing"
        /\ breaker' = breaker
        /\ IF idle # <<>> THEN ReuseIdle /\ pc' = "writing"
                         ELSE pc' = "connecting" /\ UNCHANGED pool
        /\ UNCHANGED <<world, queue, flush, batch, retryDelay, sleepLeft,
                       sinceFlush, settled, faulty>>
    BY <1>7, <2>1 DEF BeginFlush, settled
  <2>3. TaskOK'
    BY <1>a, <2>2 DEF TaskOK, Labels
  <2>4. PoolOK' /\ CheckoutDiscipline'
    <3>1. CASE idle = <<>>
      BY <1>a, <2>2, <3>1 DEF PoolOK, CheckoutDiscipline, pool
    <3>2. CASE idle # <<>>
      <4>1. Head(idle) \in Health /\ Tail(idle) = <<>>
        BY <1>a, <3>2, OnlyElement DEF PoolOK, CheckoutDiscipline
      <4>2. idle' = <<>> /\ conn' = Head(idle) /\ pc' = "writing"
            /\ active' = increment_saturating(active)
        BY <2>2, <3>2, <4>1 DEF ReuseIdle, CheckOut
      <4>3. increment_saturating(active) \in 0..CountMax
        BY <1>a, BreakerAssumption
        DEF PoolOK, increment_saturating, BreakerAssumption
      <4>4. idle' \in Seq(Health) /\ Len(idle') = 0
        BY <4>2
      <4>5. PoolOK'
        BY <4>1, <4>2, <4>3, <4>4, ElkAssumption DEF PoolOK, ElkAssumption
      <4>6. conn' # NoConn
        BY <4>1, <4>2 DEF NoConn, Health
      <4>7. CheckoutDiscipline'
        BY <4>2, <4>4, <4>6 DEF CheckoutDiscipline
      <4> QED BY <4>5, <4>7
    <3> QED BY <3>1, <3>2
  <2>5. BatchHasRoom' /\ PastTheBreaker'
    BY <1>a, <2>2 DEF BatchHasRoom, PastTheBreaker
  <2> QED BY <1>a, <1>b, <2>2, <2>3, <2>4, <2>5, PartsUnchanged
<1>8. CASE ConnectOk
  <2> USE <1>8 DEF ConnectOk, CheckOut
  <2>1. TaskOK'
    BY <1>a DEF TaskOK, Labels
  <2>2. PoolOK'
    BY <1>a, BreakerAssumption
    DEF PoolOK, Health, increment_saturating, BreakerAssumption
  <2>3. BatchHasRoom' /\ PastTheBreaker'
    BY <1>a DEF BatchHasRoom, PastTheBreaker
  <2>4. CheckoutDiscipline'
    BY <1>a DEF CheckoutDiscipline, NoConn
  <2> QED BY <1>a, <1>b, <2>1, <2>2, <2>3, <2>4, PartsUnchanged
<1>9. CASE ConnectFails
  <2> USE <1>9 DEF ConnectFails
  <2>1. /\ QueueOK' /\ TaskOK' /\ BatchHasRoom' /\ PastTheBreaker'
        /\ pc' \in {"top", "checking", "closing"}
        /\ UNCHANGED <<connected, shutdown, stranded>>
    BY FlushEndsControl
  <2>2. FlagsOK'
    BY <1>a, <2>1 DEF FlagsOK
  <2>3. SettledOK'
    BY <1>a, <2>1, BatchTyped DEF SettledOK
  <2>4. CheckoutDiscipline'
    BY <1>a, <2>1 DEF CheckoutDiscipline, pool
  <2> QED BY <1>a, <1>b, <2>1, <2>2, <2>3, <2>4, PartsUnchanged
<1>10. CASE WriteOk
  <2> USE <1>10 DEF WriteOk
  <2>1. /\ QueueOK' /\ TaskOK' /\ BatchHasRoom' /\ PastTheBreaker'
        /\ pc' \in {"top", "checking", "closing"}
        /\ UNCHANGED <<connected, shutdown, stranded>>
    BY FlushEndsControl
  <2>2. FlagsOK'
    BY <1>a, <2>1 DEF FlagsOK
  <2>3. SettledOK'
    BY <1>a, <2>1, BatchTyped DEF SettledOK
  <2>4. PoolOK' /\ CheckoutDiscipline'
    BY <1>a, <2>1, ReturnControl DEF Health
  <2> QED BY <1>a, <1>b, <2>1, <2>2, <2>3, <2>4
<1>11. CASE WriteVanishes
  <2> USE <1>11 DEF WriteVanishes
  <2>1. /\ QueueOK' /\ TaskOK' /\ BatchHasRoom' /\ PastTheBreaker'
        /\ pc' \in {"top", "checking", "closing"}
        /\ UNCHANGED <<connected, shutdown, stranded>>
    BY FlushEndsControl
  <2>2. FlagsOK'
    BY <1>a, <2>1 DEF FlagsOK
  <2>3. SettledOK'
    BY <1>a, <2>1, BatchTyped DEF SettledOK, ArrivesInPart
  <2>4. PoolOK' /\ CheckoutDiscipline'
    BY <1>a, <2>1, ReturnControl DEF Health
  <2> QED BY <1>a, <1>b, <2>1, <2>2, <2>3, <2>4
<1>12. CASE WriteFails
  <2> USE <1>12 DEF WriteFails, ArrivesInPart
  <2>1. /\ QueueOK' /\ TaskOK' /\ BatchHasRoom' /\ PastTheBreaker'
        /\ pc' \in {"top", "checking", "closing"}
        /\ UNCHANGED <<connected, shutdown, stranded>>
    BY FlushEndsControl
  <2>2. FlagsOK'
    BY <1>a, <2>1 DEF FlagsOK
  <2>3. SettledOK'
    BY <1>a, <2>1, BatchTyped DEF SettledOK
  <2>4. PoolOK' /\ CheckoutDiscipline'
    BY <1>a, <2>1 DEF DropConnection, PoolOK, CheckoutDiscipline
  <2> QED BY <1>a, <1>b, <2>1, <2>2, <2>3, <2>4
<1>13. CASE Finish
  <2> USE <1>13 DEF Finish
  <2>1. TaskOK'
    BY <1>a DEF TaskOK, Labels, FlushCalls
  <2>2. BatchHasRoom' /\ PastTheBreaker' /\ CheckoutDiscipline'
    BY <1>a DEF BatchHasRoom, PastTheBreaker, CheckoutDiscipline, pool
  <2> QED BY <1>a, <1>b, <2>1, <2>2, PartsUnchanged
<1>14. CASE EndTask
  <2> USE <1>14 DEF EndTask
  <2>1. QueueOK'
    BY <1>a, EmptySeq, ElkAssumption DEF QueueOK, ElkAssumption
  <2>2. TaskOK'
    BY <1>a DEF TaskOK, Labels
  <2>3. Range(queue) \subseteq 1..MaxEvents
    BY <1>a, RangeTyped DEF QueueOK
  <2>5. SettledOK'
    BY <1>a, <2>3 DEF SettledOK
  <2>4. BatchHasRoom' /\ PastTheBreaker' /\ CheckoutDiscipline'
    BY <1>a DEF BatchHasRoom, PastTheBreaker, CheckoutDiscipline, pool
  <2> QED BY <1>a, <1>b, <2>1, <2>2, <2>4, <2>5, PartsUnchanged
<1>15. CASE Accept
  <2> USE <1>15 DEF Accept
  <2>1. accepted' \in 1..MaxEvents
    BY <1>a, ElkAssumption DEF QueueOK, ElkAssumption
  <2>2. queue' \in Seq(1..MaxEvents) /\ Len(queue') = Len(queue) + 1
    BY <1>a, <2>1 DEF QueueOK
  <2>3. QueueOK'
    BY <1>a, <2>1, <2>2, ElkAssumption DEF QueueOK, ElkAssumption
  <2>4. BatchHasRoom' /\ PastTheBreaker' /\ CheckoutDiscipline'
    BY <1>a DEF BatchHasRoom, PastTheBreaker, CheckoutDiscipline, task, pool
  <2> QED BY <1>a, <1>b, <2>3, <2>4, PartsUnchanged
<1>16. CASE WorkersGone
  <2> USE <1>16 DEF WorkersGone
  <2>1. FlagsOK'
    BY <1>a DEF FlagsOK
  <2>2. BatchHasRoom' /\ PastTheBreaker' /\ CheckoutDiscipline'
    BY <1>a DEF BatchHasRoom, PastTheBreaker, CheckoutDiscipline, task, pool
  <2> QED BY <1>a, <1>b, <2>1, <2>2, PartsUnchanged
<1>17. CASE Shutdown
  <2> USE <1>17 DEF Shutdown
  <2>1. FlagsOK'
    BY <1>a DEF FlagsOK
  <2>2. BatchHasRoom' /\ PastTheBreaker' /\ CheckoutDiscipline'
    BY <1>a DEF BatchHasRoom, PastTheBreaker, CheckoutDiscipline, task, pool
  <2> QED BY <1>a, <1>b, <2>1, <2>2, PartsUnchanged
<1>18. CASE PeerCloses
  <2> USE <1>18 DEF PeerCloses
  <2>1. FlagsOK'
    BY <1>a DEF FlagsOK
  <2>2. idle' \in Seq(Health) /\ Len(idle') = Len(idle)
    BY <1>a DEF PoolOK, Health
  <2>3. PoolOK'
    BY <1>a, <2>2 DEF PoolOK, Health
  <2>4. BatchHasRoom' /\ PastTheBreaker'
    BY <1>a DEF BatchHasRoom, PastTheBreaker, task
  <2>5. CheckoutDiscipline'
    BY <1>a, <2>2, EmptySeq DEF CheckoutDiscipline, PoolOK, task, NoConn
  <2> QED BY <1>a, <1>b, <2>1, <2>3, <2>4, <2>5, PartsUnchanged
<1>19. CASE Tick
  <2> USE <1>19 DEF Tick
  <2>1. breaker' \in Breaker /\ breaker'.state = breaker.state
    BY <1>a, BreakerTyped, BreakerStates DEF TaskOK
  <2>2. TaskOK'
    BY <1>a, <2>1, ElkAssumption DEF TaskOK, IntervalElapsed, ElkAssumption
  <2>3. BatchHasRoom' /\ PastTheBreaker' /\ CheckoutDiscipline'
    BY <1>a, <2>1 DEF BatchHasRoom, PastTheBreaker, CheckoutDiscipline, pool
  <2> QED BY <1>a, <1>b, <2>2, <2>3, PartsUnchanged
<1>20. CASE UNCHANGED vars
  <2>1. BatchHasRoom' /\ PastTheBreaker' /\ CheckoutDiscipline'
    BY <1>a, <1>20
    DEF vars, task, pool, BatchHasRoom, PastTheBreaker, CheckoutDiscipline
  <2> QED BY <1>a, <1>b, <1>20, <2>1, PartsUnchanged DEF vars
<1> QED BY <1>1, <1>2, <1>3, <1>4, <1>5, <1>6, <1>7, <1>8, <1>9, <1>10, <1>11, <1>12, <1>13,
           <1>14, <1>15, <1>16, <1>17, <1>18, <1>19, <1>20 DEF Next, Task

(***************************************************************************)
(* The ELK sender's state is always well typed: in particular the batch    *)
(* and the queue never outgrow their bounds and the counters saturate.     *)
(***************************************************************************)
THEOREM Typing == Spec => []TypeOK
<1>1. Control => TypeOK
  BY DEF Control
<1> QED BY <1>1, ControlInitially, ControlStep, PTL DEF Spec

(***************************************************************************)
(* An Open breaker never holds a batch, so no flush, the final one         *)
(* included, is ever refused by it.                                        *)
(***************************************************************************)
THEOREM NothingHeldWhileOpen == Spec => []OpenHoldsNothing
<1>1. Control => OpenHoldsNothing
  BY DEF Control, PastTheBreaker, OpenHoldsNothing
<1> QED BY <1>1, ControlInitially, ControlStep, PTL DEF Spec

(***************************************************************************)
(* The pool's count covers the connection in use, and is exact until the   *)
(* network fails.                                                          *)
(***************************************************************************)
CountIsRight ==
    /\ conn # NoConn => active > 0
    /\ ~faulty => active = IF conn = NoConn THEN 0 ELSE 1

LEMMA CountInitially == Init => CountIsRight
  BY DEF Init, CountIsRight

LEMMA CountStep == Control /\ Control' /\ CountIsRight /\ [Next]_vars => CountIsRight'
<1> SUFFICES ASSUME Control, Control', CountIsRight, [Next]_vars PROVE CountIsRight'
  OBVIOUS
<1>a. /\ active \in 0..CountMax /\ CountMax \in Nat /\ CountMax > 0
      /\ conn # NoConn <=> pc = "writing"
  BY BreakerAssumption DEF BreakerAssumption, Control, TypeOK, PoolOK, CheckoutDiscipline
<1>1. ASSUME UNCHANGED <<conn, active, faulty>> PROVE CountIsRight'
  BY <1>1 DEF CountIsRight
<1>2. ASSUME NEW c \in Health, CheckOut(c), conn = NoConn, UNCHANGED faulty PROVE CountIsRight'
  <2>1. conn' # NoConn
    BY <1>2 DEF CheckOut, Health, NoConn
  <2>2. active' > 0 /\ (active = 0 => active' = 1)
    BY <1>a, <1>2 DEF CheckOut, increment_saturating
  <2> QED BY <1>2, <2>1, <2>2 DEF CountIsRight
<1>3. CASE LoopTop \/ Wake \/ RecvEvent \/ RecvTimeout \/ RecvDisconnected \/ CheckShutdown
  BY <1>1, <1>3 DEF LoopTop, Wake, RecvEvent, RecvTimeout, RecvDisconnected, CheckShutdown, outside, pool
<1>4. CASE BeginFlush
  <2>1. pc = "flushing" /\ UNCHANGED faulty
    BY <1>4 DEF BeginFlush
  <2>2. CASE UNCHANGED pool
    BY <1>1, <2>1, <2>2 DEF pool
  <2>3. CASE ReuseIdle /\ idle # <<>>
    <3>1. Head(idle) \in Health
      BY <2>3 DEF Control, TypeOK, PoolOK
    <3> QED BY <1>2, <1>a, <2>1, <2>3, <3>1 DEF ReuseIdle
  <2> QED BY <1>4, <2>2, <2>3 DEF BeginFlush
<1>5. CASE ConnectOk
  BY <1>2, <1>5, <1>a DEF ConnectOk, Health
<1>6. CASE ConnectFails
  BY <1>6 DEF ConnectFails, pool, CountIsRight
<1>7. CASE WriteOk
  <2>1. active > 0 /\ conn' = NoConn /\ UNCHANGED faulty /\ conn # NoConn /\ active' = active - 1
    BY <1>7, <1>a DEF WriteOk, return_connection, CountIsRight, decrement_saturating
  <2> QED BY <1>a, <2>1 DEF CountIsRight
<1>8. CASE WriteVanishes \/ WriteFails
  BY <1>8 DEF WriteVanishes, WriteFails, return_connection, DropConnection, CountIsRight
<1>9. CASE Finish \/ EndTask
  BY <1>1, <1>9 DEF Finish, EndTask, outside, pool
<1>10. CASE Accept \/ WorkersGone \/ Shutdown \/ Tick
  BY <1>1, <1>10 DEF Accept, WorkersGone, Shutdown, Tick, pool
<1>11. CASE PeerCloses
  <2>1. faulty' /\ active' = active /\ (conn' # NoConn => conn # NoConn)
    BY <1>11 DEF PeerCloses, NoConn
  <2> QED BY <2>1 DEF CountIsRight
<1>12. CASE UNCHANGED vars
  BY <1>1, <1>12 DEF vars, pool
<1> QED BY <1>3, <1>4, <1>5, <1>6, <1>7, <1>8, <1>9, <1>10, <1>11, <1>12 DEF Next, Task

(***************************************************************************)
(* The sender never has more than one connection, idle or in use, and the  *)
(* pool counts it.                                                         *)
(***************************************************************************)
THEOREM AtMostOneConnection == Spec => []OneConnection
<1>1. Control /\ CountIsRight => OneConnection
  <2> SUFFICES ASSUME Control, CountIsRight PROVE OneConnection
    OBVIOUS
  <2>1. active \in Nat /\ idle \in Seq(Health)
    BY BreakerAssumption DEF BreakerAssumption, Control, TypeOK, PoolOK
  <2> QED BY <2>1, EmptySeq DEF Control, CheckoutDiscipline, OneConnection, CountIsRight
<1> QED BY <1>1, ControlInitially, ControlStep, CountInitially, CountStep, PTL DEF Spec

-----------------------------------------------------------------------------
(* Delivery: what becomes of each event.                                   *)

\* Events up to this one have been settled; the batch and the queue follow.
Base == accepted - Len(queue) - Len(batch)

(***************************************************************************)
(* The batch and the queue hold consecutive events.                        *)
(***************************************************************************)
Consecutive ==
    /\ Base \in Nat
    /\ \A i \in 1..Len(batch) : batch[i] = Base + i
    /\ \A i \in 1..Len(queue) : queue[i] = Base + Len(batch) + i

(***************************************************************************)
(* The settled events are divided among the received, lost and stranded.   *)
(***************************************************************************)
Divided ==
    /\ \A e \in 1..Base : e \in Range(received) \/ e \in lost \/ e \in stranded
    /\ \A e \in Range(received) : e \in 1..Base /\ e \notin lost /\ e \notin stranded
    /\ \A e \in lost : e \in 1..Base /\ e \notin stranded
    /\ \A e \in stranded : e \in 1..Base

Increasing(s) == \A i, j \in 1..Len(s) : i < j => s[i] < s[j]

(***************************************************************************)
(* The task strands nothing before it ends, and ends with an empty batch.  *)
(***************************************************************************)
Closing ==
    /\ pc \in {"closing", "done"} => batch = <<>>
    /\ pc # "done" => stranded = {}

Delivery == Consecutive /\ Divided /\ Increasing(received) /\ Closing

(***************************************************************************)
(* The elements of a sequence by their places.                             *)
(***************************************************************************)
LEMMA RangeByIndex ==
    ASSUME NEW S, NEW s \in Seq(S)
    PROVE  /\ Len(s) \in Nat /\ DOMAIN s = 1..Len(s)
           /\ \A i \in 1..Len(s) : s[i] \in S
           /\ Range(s) = {s[i] : i \in 1..Len(s)}
<1>1. Len(s) \in Nat /\ DOMAIN s = 1..Len(s) /\ \A i \in 1..Len(s) : s[i] \in S
  BY LenProperties, ElementOfSeq
<1> QED BY <1>1 DEF Range

LEMMA DeliveryInitially == Init => Delivery
<1> SUFFICES ASSUME Init PROVE Delivery
  OBVIOUS
<1>1. Len(queue) = 0 /\ Len(batch) = 0 /\ Len(received) = 0 /\ accepted = 0
  BY DEF Init
<1>2. Base = 0
  BY <1>1 DEF Base
<1>3. Consecutive
  BY <1>1, <1>2 DEF Consecutive
<1>4. Range(received) = {}
  BY DEF Init, Range
<1>5. Divided
  BY <1>2, <1>4 DEF Divided, Init
<1>6. Increasing(received) /\ Closing
  BY <1>1 DEF Increasing, Closing, Init
<1> QED BY <1>3, <1>5, <1>6 DEF Delivery

(***************************************************************************)
(* A batch of which the first k events arrive and the rest are lost is     *)
(* settled: this is every way out of flush_batch_to_elk.                   *)
(***************************************************************************)
LEMMA SettleBatch ==
    ASSUME Control, Delivery,
           batch' = <<>>, UNCHANGED <<accepted, queue, stranded>>, pc # "done",
           NEW k \in 0..Len(batch),
           received' \in Seq(1..MaxEvents),
           Len(received') = Len(received) + k,
           \A i \in 1..Len(received) : received'[i] = received[i],
           \A i \in 1..k : received'[Len(received) + i] = batch[i],
           \A e : e \in lost' <=> e \in lost \/ \E i \in (k + 1)..Len(batch) : e = batch[i]
    PROVE  Delivery'
<1> DEFINE r == Len(received)
           b == Len(batch)
<1>1. /\ queue \in Seq(1..MaxEvents) /\ batch \in Seq(1..MaxEvents)
      /\ received \in Seq(1..MaxEvents) /\ accepted \in Nat
  BY DEF Control, TypeOK, QueueOK, TaskOK, SettledOK
<1>2. r \in Nat /\ b \in Nat /\ Len(queue) \in Nat
  BY <1>1
<1>3. Base \in Nat /\ Base' = Base + b
  BY <1>1, <1>2 DEF Delivery, Consecutive, Base
<1>4. Len(batch') = 0
  OBVIOUS
<1>5. Consecutive'
  <2>1. \A i \in 1..Len(queue) : queue[i] = Base + b + i
    BY DEF Delivery, Consecutive
  <2> QED BY <1>2, <1>3, <1>4, <2>1 DEF Consecutive
<1>6. \A i \in 1..b : batch[i] = Base + i
  BY DEF Delivery, Consecutive
<1>7. Range(received) = {received[i] : i \in 1..r}
  BY <1>1, RangeByIndex
<1>8. Range(received') = {received'[i] : i \in 1..(r + k)}
  <2>1. Range(received') = {received'[i] : i \in 1..Len(received')}
    BY RangeByIndex
  <2> QED BY <2>1
<1>9. \A i \in 1..r : received[i] \in 1..Base
  BY <1>7 DEF Delivery, Divided
<1>10. \A i \in 1..(r + k) :
          \/ i \in 1..r /\ received'[i] = received[i]
          \/ i - r \in 1..k /\ received'[i] = Base + (i - r)
  <2> TAKE i \in 1..(r + k)
  <2>1. CASE i \in 1..r
    BY <2>1
  <2>2. CASE i \notin 1..r
    <3>1. i - r \in 1..k /\ i - r \in 1..b /\ r + (i - r) = i
      BY <1>2, <2>2
    <3>2. received'[r + (i - r)] = batch[i - r]
      BY <3>1
    <3> QED BY <1>6, <3>1, <3>2
  <2> QED BY <2>1, <2>2
<1>11. Increasing(received)'
  <2>1. Len(received') = r + k /\ k \in Nat
    BY <1>2
  <2>2. SUFFICES ASSUME NEW i \in 1..(r + k), NEW j \in 1..(r + k), i < j
                 PROVE  received'[i] < received'[j]
    BY <2>1 DEF Increasing
  <2>3. CASE j \in 1..r
    <3>1. i \in 1..r
      BY <1>2, <2>2, <2>3
    <3>2. received[i] < received[j]
      BY <2>2, <2>3, <3>1 DEF Delivery, Increasing
    <3> QED BY <2>3, <3>1, <3>2
  <2>4. CASE j \notin 1..r
    <3>1. j - r \in 1..k /\ received'[j] = Base + (j - r)
      BY <1>2, <1>10, <2>1, <2>4
    <3>2. CASE i \in 1..r
      <4>1. received'[i] \in 1..Base
        BY <1>9, <3>2
      <4> QED BY <1>3, <2>1, <3>1, <4>1
    <3>3. CASE i \notin 1..r
      <4>1. i - r \in 1..k /\ received'[i] = Base + (i - r)
        BY <1>2, <1>10, <2>1, <3>3
      <4>2. i - r < j - r
        BY <1>2, <2>1, <2>2
      <4> QED BY <1>3, <2>1, <3>1, <4>1, <4>2
    <3> QED BY <3>2, <3>3
  <2> QED BY <2>3, <2>4
<1>12. \A e : e \in Range(received') <=> e \in Range(received) \/ e \in (Base + 1)..(Base + k)
  <2>1. ASSUME NEW e, e \in Range(received')
        PROVE  e \in Range(received) \/ e \in (Base + 1)..(Base + k)
    BY <1>2, <1>3, <1>7, <1>8, <1>10, <2>1
  <2>2. ASSUME NEW e, e \in Range(received) PROVE e \in Range(received')
    BY <1>2, <1>7, <1>8, <2>2
  <2>3. ASSUME NEW e \in (Base + 1)..(Base + k) PROVE e \in Range(received')
    <3>1. e - Base \in 1..k /\ e - Base \in 1..b
      BY <1>2, <1>3
    <3>2. received'[r + (e - Base)] = e
      <4>1. received'[r + (e - Base)] = batch[e - Base]
        BY <3>1
      <4>2. batch[e - Base] = Base + (e - Base)
        BY <1>6, <3>1
      <4>3. Base + (e - Base) = e
        BY <1>3
      <4> QED BY <4>1, <4>2, <4>3
    <3>3. r + (e - Base) \in 1..(r + k)
      BY <1>2, <3>1
    <3> QED BY <1>8, <3>2, <3>3
  <2> QED BY <2>1, <2>2, <2>3
<1>13. \A e : e \in lost' <=> e \in lost \/ e \in (Base + k + 1)..(Base + b)
  <2>1. ASSUME NEW e \in (Base + k + 1)..(Base + b)
        PROVE  \E i \in (k + 1)..b : e = batch[i]
    <3>1. e - Base \in (k + 1)..b /\ e - Base \in 1..b
      BY <1>2, <1>3
    <3>2. batch[e - Base] = e
      BY <1>3, <1>6, <3>1
    <3> QED BY <3>1, <3>2
  <2>2. ASSUME NEW i \in (k + 1)..b PROVE batch[i] \in (Base + k + 1)..(Base + b)
    BY <1>2, <1>3, <1>6
  <2> QED BY <2>1, <2>2
<1>14. Divided'
  <2>1. \A e \in 1..(Base + b) : e \in 1..Base \/ e \in (Base + 1)..(Base + k)
                                   \/ e \in (Base + k + 1)..(Base + b)
    BY <1>2, <1>3
  <2>2. Divided
    BY DEF Delivery
  <2>3. ASSUME NEW e \in 1..Base'
        PROVE  e \in Range(received') \/ e \in lost' \/ e \in stranded'
    BY <1>3, <1>12, <1>13, <2>1, <2>2 DEF Divided
  <2>4. ASSUME NEW e \in Range(received')
        PROVE  e \in 1..Base' /\ e \notin lost' /\ e \notin stranded'
    <3>1. CASE e \in Range(received)
      <4>1. e \in 1..Base /\ e \notin lost /\ e \notin stranded
        BY <2>2, <3>1 DEF Divided
      <4>2. e \notin (Base + k + 1)..(Base + b) /\ e \in 1..(Base + b)
        BY <1>2, <1>3, <4>1
      <4> QED BY <1>3, <1>13, <4>1, <4>2
    <3>2. CASE e \in (Base + 1)..(Base + k)
      <4>1. e \notin 1..Base /\ e \notin (Base + k + 1)..(Base + b) /\ e \in 1..(Base + b)
        BY <1>2, <1>3, <3>2
      <4>2. e \notin lost /\ e \notin stranded
        BY <2>2, <4>1 DEF Divided
      <4> QED BY <1>3, <1>13, <4>1, <4>2
    <3> QED BY <1>12, <2>4, <3>1, <3>2
  <2>5. ASSUME NEW e \in lost' PROVE e \in 1..Base' /\ e \notin stranded'
    <3>1. CASE e \in lost
      <4>1. e \in 1..Base /\ e \notin stranded
        BY <2>2, <3>1 DEF Divided
      <4>2. e \in 1..(Base + b)
        BY <1>2, <1>3, <4>1
      <4> QED BY <1>3, <4>1, <4>2
    <3>2. CASE e \in (Base + k + 1)..(Base + b)
      <4>1. e \notin 1..Base /\ e \in 1..(Base + b)
        BY <1>2, <1>3, <3>2
      <4>2. e \notin stranded
        BY <2>2, <4>1 DEF Divided
      <4> QED BY <1>3, <4>1, <4>2
    <3> QED BY <1>13, <2>5, <3>1, <3>2
  <2>6. ASSUME NEW e \in stranded' PROVE e \in 1..Base'
    <3>1. e \in 1..Base
      BY <2>2, <2>6 DEF Divided
    <3> QED BY <1>2, <1>3, <3>1
  <2> QED BY <2>3, <2>4, <2>5, <2>6 DEF Divided
<1>15. Closing'
  BY DEF Delivery, Closing
<1> QED BY <1>5, <1>11, <1>14, <1>15 DEF Delivery

(***************************************************************************)
(* A flush that sends nothing loses the whole batch.                       *)
(***************************************************************************)
LEMMA BatchLost ==
    ASSUME Control, Delivery, Control',
           batch' = <<>>, UNCHANGED <<accepted, queue, stranded, received>>,
           lost' = lost \cup BatchEvents, pc # "done"
    PROVE  Delivery'
<1>1. batch \in Seq(1..MaxEvents) /\ received \in Seq(1..MaxEvents)
  BY DEF Control, TypeOK, TaskOK, SettledOK
<1>2. Len(batch) \in Nat /\ Len(received) \in Nat
      /\ BatchEvents = {batch[i] : i \in 1..Len(batch)}
  BY <1>1, RangeByIndex DEF BatchEvents
<1>3. \A e : e \in lost' <=> e \in lost \/ \E i \in (0 + 1)..Len(batch) : e = batch[i]
  BY <1>2
<1>4. received' \in Seq(1..MaxEvents) /\ Len(received') = Len(received) + 0
  BY <1>1, <1>2
<1>5. \A i \in 1..0 : received'[Len(received) + i] = batch[i]
  OBVIOUS
<1>6. 0 \in 0..Len(batch)
  BY <1>2
<1> QED BY <1>3, <1>4, <1>5, <1>6, SettleBatch

(***************************************************************************)
(* Steps that leave the events where they are.                             *)
(***************************************************************************)
LEMMA NothingMoves ==
    ASSUME Delivery, UNCHANGED <<accepted, queue, batch, settled>>,
           pc' \in {"closing", "done"} => pc' = pc \/ batch = <<>>,
           pc = "done" => pc' = "done"
    PROVE  Delivery'
<1>1. Base' = Base
  BY DEF Base
<1>2. Consecutive'
  BY <1>1 DEF Delivery, Consecutive
<1>3. Divided' /\ Increasing(received)'
  BY <1>1 DEF Delivery, Divided, Increasing, settled
<1>4. Closing'
  BY DEF Delivery, Closing, settled
<1> QED BY <1>2, <1>3, <1>4 DEF Delivery

LEMMA DeliveryStep == Control /\ Control' /\ Delivery /\ [Next]_vars => Delivery'
<1> SUFFICES ASSUME Control, Control', Delivery, [Next]_vars PROVE Delivery'
  OBVIOUS
<1>a. /\ queue \in Seq(1..MaxEvents) /\ batch \in Seq(1..MaxEvents)
      /\ received \in Seq(1..MaxEvents) /\ accepted \in Nat
      /\ Len(queue) \in Nat /\ Len(batch) \in Nat /\ Len(received) \in Nat
  BY DEF Control, TypeOK, QueueOK, TaskOK, SettledOK
<1>b. received' \in Seq(1..MaxEvents) /\ pc \in Labels /\ flush \in FlushCalls
  BY DEF Control, TypeOK, SettledOK, TaskOK
<1> USE DEF world, timing, outside
<1>1. CASE LoopTop
  BY <1>1, NothingMoves DEF LoopTop
<1>2. CASE Wake
  BY <1>2, NothingMoves DEF Wake
<1>3. CASE RecvEvent
  <2> USE <1>3 DEF RecvEvent, settled
  <2>1. /\ Len(queue) # 0 /\ queue' \in Seq(1..MaxEvents)
        /\ Len(queue') = Len(queue) - 1
        /\ \A i \in 1..Len(queue') : queue'[i] = queue[i + 1]
        /\ Head(queue) = queue[1]
    BY <1>a, HeadTailProperties, EmptySeq
  <2>2. /\ Len(batch') = Len(batch) + 1
        /\ \A i \in 1..Len(batch) : batch'[i] = batch[i]
        /\ batch'[Len(batch) + 1] = queue[1]
    BY <1>a, <2>1
  <2>3. Base' = Base
    BY <1>a, <2>1, <2>2 DEF Base
  <2>4. Consecutive'
    <3>1. queue[1] = Base + Len(batch) + 1
      BY <1>a, <2>1 DEF Delivery, Consecutive
    <3>2. \A i \in 1..Len(batch') : batch'[i] = Base + i
      <4> TAKE i \in 1..Len(batch')
      <4>1. CASE i \in 1..Len(batch)
        <5>1. batch'[i] = batch[i]
          BY <2>2, <4>1
        <5>2. batch[i] = Base + i
          BY <4>1 DEF Delivery, Consecutive
        <5> QED BY <5>1, <5>2
      <4>2. CASE i = Len(batch) + 1
        <5>1. batch'[i] = queue[1]
          BY <2>2, <4>2
        <5>2. Base \in Nat
          BY DEF Delivery, Consecutive
        <5> QED BY <1>a, <3>1, <4>2, <5>1, <5>2
      <4>3. i \in 1..Len(batch) \/ i = Len(batch) + 1
        BY <1>a, <2>2
      <4> QED BY <4>1, <4>2, <4>3
    <3>3. \A i \in 1..Len(queue') : queue'[i] = Base + Len(batch') + i
      BY <1>a, <2>1, <2>2 DEF Delivery, Consecutive
    <3> QED BY <2>3, <3>2, <3>3 DEF Delivery, Consecutive
  <2>5. Divided' /\ Increasing(received)'
    BY <2>3 DEF Delivery, Divided, Increasing
  <2>6. Closing'
    BY DEF Closing, Delivery
  <2> QED BY <2>4, <2>5, <2>6 DEF Delivery
<1>4. CASE RecvTimeout
  BY <1>4, NothingMoves DEF RecvTimeout
<1>5. CASE RecvDisconnected
  BY <1>5, NothingMoves DEF RecvDisconnected
<1>6. CASE CheckShutdown
  BY <1>6, NothingMoves DEF CheckShutdown
<1>7. CASE BeginFlush
  <2>1. CASE can_execute(breaker)
    <3>1. pc' \in {"writing", "connecting"}
          /\ UNCHANGED <<accepted, queue, batch, settled>> /\ pc # "done"
      BY <1>7, <2>1 DEF BeginFlush
    <3> QED BY <3>1, NothingMoves
  <2>2. CASE ~can_execute(breaker)
    <3>1. /\ batch' = <<>> /\ UNCHANGED <<accepted, queue, stranded, received>>
          /\ lost' = lost \cup BatchEvents /\ pc # "done"
      BY <1>7, <2>2 DEF BeginFlush, FlushEnds, FlushRecorded
    <3> QED BY <3>1, BatchLost
  <2> QED BY <2>1, <2>2
<1>8. CASE ConnectOk
  BY <1>8, NothingMoves DEF ConnectOk
<1>9. CASE ConnectFails
  <2>1. /\ batch' = <<>> /\ UNCHANGED <<accepted, queue, stranded, received>>
        /\ lost' = lost \cup BatchEvents /\ pc # "done"
    BY <1>9 DEF ConnectFails, FlushEnds, FlushRecorded
  <2> QED BY <2>1, BatchLost
<1>10. CASE WriteOk
  <2>1. /\ batch' = <<>> /\ UNCHANGED <<accepted, queue, stranded, lost>>
        /\ received' = received \o batch /\ pc # "done"
    BY <1>10 DEF WriteOk, FlushEnds, FlushRecorded
  <2>2. /\ Len(received') = Len(received) + Len(batch)
        /\ \A i \in 1..Len(received) : received'[i] = received[i]
        /\ \A i \in 1..Len(batch) : received'[Len(received) + i] = batch[i]
    BY <1>a, <2>1
  <2>3. \A e : e \in lost' <=> e \in lost \/ \E i \in (Len(batch) + 1)..Len(batch) : e = batch[i]
    BY <1>a, <2>1
  <2>4. Len(batch) \in 0..Len(batch)
    BY <1>a
  <2> QED BY <1>b, <2>1, <2>2, <2>3, <2>4, SettleBatch
<1>12. CASE WriteVanishes \/ WriteFails
  <2>1. batch' = <<>> /\ UNCHANGED <<accepted, queue, stranded>> /\ pc # "done"
    BY <1>12 DEF WriteVanishes, WriteFails, FlushEnds, FlushRecorded
  <2>2. PICK k \in 0..(Len(batch) - 1) :
          /\ received' = received \o SubSeq(batch, 1, k)
          /\ lost' = lost \cup {batch[i] : i \in (k + 1)..Len(batch)}
    BY <1>12 DEF WriteVanishes, WriteFails, ArrivesInPart
  <2>3. k \in 0..Len(batch)
    BY <1>a
  <2>4. /\ SubSeq(batch, 1, k) \in Seq(1..MaxEvents)
        /\ Len(SubSeq(batch, 1, k)) = k
        /\ \A i \in 1..k : SubSeq(batch, 1, k)[i] = batch[i]
    <3>1. /\ 1 \in 1..(Len(batch) + 1) /\ k \in 0..Len(batch) /\ k \in Nat
          /\ 1..k = 1..(k - 1 + 1)
      BY <1>a, <2>3
    <3>2. \A i \in 1..k : batch[i] \in 1..MaxEvents
      <4>1. \A i \in 1..Len(batch) : batch[i] \in 1..MaxEvents
        BY <1>a, RangeByIndex
      <4>2. 1..k \subseteq 1..Len(batch)
        BY <1>a, <3>1
      <4> QED BY <4>1, <4>2
    <3>5. 1 \in Int /\ k \in Int
      BY <3>1
    <3>6. /\ SubSeq(batch, 1, k) \in Seq(1..MaxEvents)
          /\ Len(SubSeq(batch, 1, k)) = (IF 1 <= k THEN k - 1 + 1 ELSE 0)
          /\ \A i \in 1..(k - 1 + 1) : SubSeq(batch, 1, k)[i] = batch[1 + i - 1]
      BY <3>2, <3>5, SubSeqProperties
    <3>3. Len(SubSeq(batch, 1, k)) = k
      BY <3>1, <3>6
    <3>4. ASSUME NEW i \in 1..k PROVE SubSeq(batch, 1, k)[i] = batch[i]
      <4>1. SubSeq(batch, 1, k)[i] = batch[1 + i - 1] /\ 1 + i - 1 = i
        BY <3>1, <3>6
      <4> QED BY <4>1
    <3> QED BY <3>3, <3>4, <3>6
  <2>5. /\ Len(received') = Len(received) + k
        /\ \A i \in 1..Len(received) : received'[i] = received[i]
        /\ \A i \in 1..k : received'[Len(received) + i] = batch[i]
    BY <1>a, <2>2, <2>3, <2>4
  <2>6. \A e : e \in lost' <=> e \in lost \/ \E i \in (k + 1)..Len(batch) : e = batch[i]
    BY <2>2
  <2> QED BY <1>b, <2>1, <2>3, <2>5, <2>6, SettleBatch
<1>13. CASE Finish
  BY <1>13, NothingMoves DEF Finish
<1>14. CASE EndTask
  <2> USE <1>14 DEF EndTask
  <2>1. batch = <<>> /\ Len(batch) = 0 /\ Len(queue') = 0 /\ UNCHANGED batch
    BY DEF Delivery, Closing
  <2>2. Base \in Nat /\ Base' = accepted /\ accepted = Base + Len(queue)
    BY <1>a, <2>1 DEF Base, Delivery, Consecutive
  <2>3. Consecutive'
    BY <1>a, <2>1, <2>2 DEF Consecutive
  <2>4. \A e : e \in stranded' <=> e \in (Base + 1)..accepted
    <3>1. Range(queue) = {queue[i] : i \in 1..Len(queue)}
      BY <1>a, RangeByIndex
    <3>2. \A i \in 1..Len(queue) : queue[i] = Base + i
      BY <1>a, <2>1, <2>2 DEF Delivery, Consecutive
    <3>3. ASSUME NEW e \in (Base + 1)..accepted
          PROVE  e \in Range(queue)
      <4>1. e - Base \in 1..Len(queue) /\ Base + (e - Base) = e
        BY <1>a, <2>2
      <4> QED BY <3>1, <3>2, <4>1
    <3>4. ASSUME NEW i \in 1..Len(queue)
          PROVE  queue[i] \in (Base + 1)..accepted
      BY <1>a, <2>2, <3>2
    <3> QED BY <3>1, <3>3, <3>4
  <2>5. Divided'
    <3>1. Divided /\ UNCHANGED <<received, lost>>
      BY DEF Delivery
    <3>2. Len(queue) \in Nat /\ 1..Base \subseteq 1..accepted
      BY <1>a, <2>2
    <3>3. \A e \in 1..accepted : e \in 1..Base \/ e \in (Base + 1)..accepted
      BY <1>a, <2>2
    <3>4. \A e \in (Base + 1)..accepted : e \in 1..accepted /\ e \notin 1..Base
      BY <1>a, <2>2
    <3>5. \A e \in 1..Base' : e \in Range(received') \/ e \in lost' \/ e \in stranded'
      <4> SUFFICES ASSUME NEW e \in 1..accepted
                   PROVE  e \in Range(received) \/ e \in lost \/ e \in stranded'
        BY <2>2, <3>1
      <4>1. CASE e \in 1..Base
        <5>1. e \in Range(received) \/ e \in lost \/ e \in stranded
          BY <3>1, <4>1 DEF Divided
        <5>2. stranded = {}
          BY DEF Delivery, Closing
        <5> QED BY <5>1, <5>2
      <4>2. CASE e \in (Base + 1)..accepted
        BY <2>4, <4>2
      <4> QED BY <3>3, <4>1, <4>2
    <3>6. \A e \in Range(received') : e \in 1..Base' /\ e \notin lost' /\ e \notin stranded'
      BY <2>2, <2>4, <3>1, <3>2, <3>4 DEF Divided
    <3>7. \A e \in lost' : e \in 1..Base' /\ e \notin stranded'
      BY <2>2, <2>4, <3>1, <3>2, <3>4 DEF Divided
    <3>8. \A e \in stranded' : e \in 1..Base'
      BY <2>2, <2>4, <3>4
    <3> QED BY <3>5, <3>6, <3>7, <3>8 DEF Divided
  <2>6. Increasing(received)' /\ Closing'
    BY <2>1 DEF Delivery, Increasing, Closing
  <2> QED BY <2>3, <2>5, <2>6 DEF Delivery
<1>15. CASE Accept
  <2> USE <1>15 DEF Accept, task, settled
  <2>1. /\ Len(queue') = Len(queue) + 1
        /\ \A i \in 1..Len(queue) : queue'[i] = queue[i]
        /\ queue'[Len(queue) + 1] = accepted + 1
    BY <1>a
  <2>2. Base' = Base
    BY <1>a, <2>1 DEF Base
  <2>3. accepted + 1 = Base + Len(batch) + (Len(queue) + 1)
    BY <1>a DEF Base
  <2>4. \A i \in 1..Len(queue') : queue'[i] = Base + Len(batch) + i
    <3> TAKE i \in 1..Len(queue')
    <3>1. CASE i \in 1..Len(queue)
      <4>1. queue'[i] = queue[i]
        BY <2>1, <3>1
      <4>2. queue[i] = Base + Len(batch) + i
        BY <3>1 DEF Delivery, Consecutive
      <4> QED BY <4>1, <4>2
    <3>2. CASE i = Len(queue) + 1
      <4>1. queue'[i] = accepted + 1
        BY <2>1, <3>2
      <4> QED BY <2>3, <3>2, <4>1
    <3>3. i \in 1..Len(queue) \/ i = Len(queue) + 1
      BY <1>a, <2>1
    <3> QED BY <3>1, <3>2, <3>3
  <2>5. Consecutive'
    BY <2>2, <2>4 DEF Delivery, Consecutive
  <2>6. Divided' /\ Increasing(received)' /\ Closing'
    BY <2>2 DEF Delivery, Divided, Increasing, Closing
  <2> QED BY <2>5, <2>6 DEF Delivery
<1>16. CASE WorkersGone
  BY <1>16, NothingMoves DEF WorkersGone, task
<1>17. CASE Shutdown
  BY <1>17, NothingMoves DEF Shutdown, task
<1>18. CASE PeerCloses
  BY <1>18, NothingMoves DEF PeerCloses, task
<1>19. CASE Tick
  BY <1>19, NothingMoves DEF Tick
<1>20. CASE UNCHANGED vars
  BY <1>20, NothingMoves DEF vars, task
<1> QED BY <1>1, <1>2, <1>3, <1>4, <1>5, <1>6, <1>7, <1>8, <1>9, <1>10, <1>12,
           <1>13, <1>14, <1>15, <1>16, <1>17, <1>18, <1>19, <1>20 DEF Next, Task

(***************************************************************************)
(* Every accepted event has exactly one fate, whatever fails.              *)
(***************************************************************************)
THEOREM OneFateEach == Spec => []EachEventOnce
<1>1. Control /\ Delivery => EachEventOnce
  <2> SUFFICES ASSUME Control, Delivery PROVE EachEventOnce
    OBVIOUS
  <2>1. /\ queue \in Seq(1..MaxEvents) /\ batch \in Seq(1..MaxEvents)
        /\ accepted \in Nat /\ Len(queue) \in Nat /\ Len(batch) \in Nat
    BY DEF Control, TypeOK, QueueOK, TaskOK
  <2>2. Base \in Nat /\ accepted = Base + Len(batch) + Len(queue)
    BY <2>1 DEF Delivery, Consecutive, Base
  <2>3. \A e : e \in Range(batch) <=> e \in (Base + 1)..(Base + Len(batch))
    <3>1. Range(batch) = {batch[i] : i \in 1..Len(batch)}
      BY <2>1, RangeByIndex
    <3>2. \A i \in 1..Len(batch) : batch[i] = Base + i
      BY DEF Delivery, Consecutive
    <3>3. ASSUME NEW e \in (Base + 1)..(Base + Len(batch)) PROVE e \in Range(batch)
      <4>1. e - Base \in 1..Len(batch) /\ Base + (e - Base) = e
        BY <2>1, <2>2
      <4> QED BY <3>1, <3>2, <4>1
    <3> QED BY <2>1, <2>2, <3>1, <3>2, <3>3
  <2>4. \A e : e \in Range(queue) <=> e \in (Base + Len(batch) + 1)..accepted
    <3>1. Range(queue) = {queue[i] : i \in 1..Len(queue)}
      BY <2>1, RangeByIndex
    <3>2. \A i \in 1..Len(queue) : queue[i] = Base + Len(batch) + i
      BY DEF Delivery, Consecutive
    <3>3. ASSUME NEW e \in (Base + Len(batch) + 1)..accepted PROVE e \in Range(queue)
      <4> DEFINE i == e - Base - Len(batch)
      <4>1. i \in 1..Len(queue) /\ Base + Len(batch) + i = e
        BY <2>1, <2>2
      <4> QED BY <3>1, <3>2, <4>1
    <3> QED BY <2>1, <2>2, <3>1, <3>2, <3>3
  <2>5. Divided
    BY DEF Delivery
  <2>6. \A e \in 1..accepted : e \in 1..Base \/ e \in Range(batch) \/ e \in Range(queue)
    BY <2>1, <2>2, <2>3, <2>4
  <2>7. \A e : e \in Range(batch) \/ e \in Range(queue) => e \in 1..accepted /\ e \notin 1..Base
    BY <2>1, <2>2, <2>3, <2>4
  <2>8. 1..Base \subseteq 1..accepted
    BY <2>1, <2>2
  <2> QED BY <2>5, <2>6, <2>7, <2>8 DEF EachEventOnce, Divided
<1> QED BY <1>1, ControlInitially, ControlStep, DeliveryInitially, DeliveryStep, PTL DEF Spec

(***************************************************************************)
(* Logstash receives events in the order in which the queue accepted them. *)
(***************************************************************************)
THEOREM OrderKept == Spec => []InOrder
<1>1. Control /\ Delivery => InOrder
  <2> SUFFICES ASSUME Control, Delivery PROVE InOrder
    OBVIOUS
  <2> DEFINE r == Len(received)
             line == received \o batch \o queue
  <2>1. /\ queue \in Seq(1..MaxEvents) /\ batch \in Seq(1..MaxEvents)
        /\ received \in Seq(1..MaxEvents)
        /\ Len(queue) \in Nat /\ Len(batch) \in Nat /\ r \in Nat
    BY DEF Control, TypeOK, QueueOK, TaskOK, SettledOK
  <2>2. /\ DOMAIN line = 1..(r + Len(batch) + Len(queue))
        /\ \A i \in 1..r : line[i] = received[i]
        /\ \A i \in 1..Len(batch) : line[r + i] = batch[i]
        /\ \A i \in 1..Len(queue) : line[r + Len(batch) + i] = queue[i]
    BY <2>1
  <2>3. Base \in Nat /\ \A i \in 1..r : received[i] \in 1..Base
    <3>1. Range(received) = {received[i] : i \in 1..r}
      BY <2>1, RangeByIndex
    <3> QED BY <3>1 DEF Delivery, Consecutive, Divided
  <2>4. \A i \in DOMAIN line : i > r => line[i] = Base + (i - r)
    <3> SUFFICES ASSUME NEW i \in 1..(r + Len(batch) + Len(queue)), i > r
                 PROVE  line[i] = Base + (i - r)
      BY <2>2
    <3>1. CASE i - r <= Len(batch)
      <4>1. i - r \in 1..Len(batch) /\ r + (i - r) = i
        BY <2>1, <3>1
      <4>2. line[r + (i - r)] = batch[i - r]
        BY <2>2, <4>1
      <4> QED BY <4>1, <4>2 DEF Delivery, Consecutive
    <3>2. CASE i - r > Len(batch)
      <4> DEFINE j == i - r - Len(batch)
      <4>1. j \in 1..Len(queue) /\ r + Len(batch) + j = i
            /\ Base + Len(batch) + j = Base + (i - r)
        BY <2>1, <2>3, <3>2
      <4>2. line[r + Len(batch) + j] = queue[j]
        BY <2>2, <4>1
      <4>3. queue[j] = Base + Len(batch) + j
        BY <4>1 DEF Delivery, Consecutive
      <4> QED BY <4>1, <4>2, <4>3
    <3> QED BY <2>1, <3>1, <3>2
  <2>5. \A i, j \in 1..r : i < j => received[i] < received[j]
    BY DEF Delivery, Increasing
  <2>6. ASSUME NEW i \in DOMAIN line, NEW j \in DOMAIN line, i < j
        PROVE  line[i] < line[j]
    <3> HIDE DEF line
    <3>1. CASE j <= r
      BY <2>1, <2>2, <2>5, <2>6, <3>1
    <3>2. CASE i <= r /\ j > r
      BY <2>1, <2>2, <2>3, <2>4, <2>6, <3>2
    <3>3. CASE i > r
      <4>1. line[i] = Base + (i - r)
        BY <2>4, <3>3
      <4>2. i \in Int /\ j \in Int /\ i < j /\ j > r
        BY <2>1, <2>2, <2>6, <3>3
      <4>3. line[j] = Base + (j - r)
        BY <2>4, <4>2
      <4> HIDE DEF r
      <4> QED BY <2>1, <2>3, <4>1, <4>2, <4>3
    <3> QED BY <2>1, <2>2, <2>6, <3>1, <3>2, <3>3
  <2> QED BY <2>6 DEF InOrder
<1> QED BY <1>1, ControlInitially, ControlStep, DeliveryInitially, DeliveryStep, PTL DEF Spec

(***************************************************************************)
(* Blame.  Whatever can make an event disappear is a consequence of a      *)
(* network failure, and the task leaves a queue behind only on a shutdown: *)
(* once the workers are gone the queue it found empty stays empty.         *)
(***************************************************************************)
Leaves == shutdown \/ (~connected /\ queue = <<>>)

Blame ==
    /\ lost # {} => faulty
    /\ conn = "stale" => faulty
    /\ \A i \in DOMAIN idle : idle[i] = "stale" => faulty
    /\ flush = "final" \/ pc \in {"finishing", "closing", "done"} => Leaves
    /\ stranded # {} => shutdown

LEMMA BlameInitially == Init => Blame
<1> SUFFICES ASSUME Init PROVE Blame
  OBVIOUS
<1>1. \A i \in DOMAIN idle : FALSE
  BY DEF Init
<1> QED BY <1>1 DEF Init, Blame, NoConn

(***************************************************************************)
(* Once the network has failed, only the reasons to leave are at stake.    *)
(***************************************************************************)
LEMMA FaultExcuses ==
    ASSUME Blame, faulty', UNCHANGED <<connected, shutdown, queue, stranded>>,
           flush' = "final" \/ pc' \in {"finishing", "closing", "done"}
             => flush = "final" \/ pc \in {"finishing", "closing", "done"}
    PROVE  Blame'
BY DEF Blame, Leaves

(***************************************************************************)
(* A step away from the pool and the settled events keeps the blame where  *)
(* it is, if whoever starts to leave has a reason.                         *)
(***************************************************************************)
LEMMA BlameKept ==
    ASSUME Blame, UNCHANGED <<lost, stranded, faulty, conn, idle>>,
           shutdown => shutdown',
           Leaves => Leaves',
           flush' = "final" \/ pc' \in {"finishing", "closing", "done"}
             => flush = "final" \/ pc \in {"finishing", "closing", "done"} \/ Leaves'
    PROVE  Blame'
BY DEF Blame

LEMMA BlameStep == Control /\ Delivery /\ Blame /\ [Next]_vars => Blame'
<1> SUFFICES ASSUME Control, Delivery, Blame, [Next]_vars PROVE Blame'
  OBVIOUS
<1>a. pc \in Labels /\ flush \in FlushCalls /\ idle \in Seq(Health) /\ Len(idle) \in Nat
  BY DEF Control, TypeOK, TaskOK, PoolOK
<1> USE DEF world, timing, outside, pool, settled
<1>1. CASE LoopTop
  BY <1>1, BlameKept DEF LoopTop, Leaves
<1>2. CASE Wake
  BY <1>2, BlameKept DEF Wake, Leaves
<1>3. CASE RecvEvent
  BY <1>3, BlameKept DEF RecvEvent, Leaves
<1>4. CASE RecvTimeout
  BY <1>4, BlameKept DEF RecvTimeout, Leaves
<1>5. CASE RecvDisconnected
  BY <1>5, BlameKept DEF RecvDisconnected, Leaves
<1>6. CASE CheckShutdown
  BY <1>6, BlameKept DEF CheckShutdown, Leaves
<1>7. CASE BeginFlush
  <2>1. can_execute(breaker)
    BY <1>7 DEF BeginFlush, Control, PastTheBreaker, can_execute
  <2>2. /\ UNCHANGED <<world, queue, flush, batch, settled, faulty>>
        /\ pc = "flushing" /\ pc' \in {"writing", "connecting"}
    BY <1>7, <2>1 DEF BeginFlush
  <2>3. CASE idle # <<>>
    <3>1. conn' = Head(idle) /\ idle' = Tail(idle)
      BY <1>7, <2>1, <2>3 DEF BeginFlush, ReuseIdle, CheckOut
    <3>2. Head(idle) = idle[1] /\ Tail(idle) = <<>> /\ 1 \in DOMAIN idle
      <4>1. Len(idle) <= 1
        BY DEF Control, CheckoutDiscipline
      <4>2. Len(idle) # 0
        BY <1>a, <2>3, EmptySeq
      <4> QED BY <1>a, <2>3, <4>1, <4>2, OnlyElement, HeadTailProperties
    <3>3. DOMAIN idle' = {}
      BY <3>1, <3>2
    <3> QED BY <2>2, <3>1, <3>2, <3>3 DEF Blame, Leaves
  <2>4. CASE idle = <<>>
    <3>1. UNCHANGED pool
      BY <1>7, <2>1, <2>4 DEF BeginFlush
    <3> QED BY <2>2, <3>1, BlameKept DEF Leaves
  <2> QED BY <2>3, <2>4
<1>8. CASE ConnectOk
  <2>1. /\ conn' = "live" /\ pc = "connecting" /\ pc' = "writing"
        /\ UNCHANGED <<world, queue, flush, idle, settled, faulty>>
    BY <1>8 DEF ConnectOk, CheckOut
  <2> QED BY <2>1 DEF Blame, Leaves
<1>b. ASSUME NEW ok, NEW b, FlushEnds(ok, b), pc \in {"flushing", "connecting", "writing"}
      PROVE  /\ UNCHANGED <<connected, shutdown, queue, flush, stranded>>
             /\ pc' \in {"top", "checking", "closing"}
             /\ pc' = "closing" => flush = "final"
  BY <1>a, <1>b DEF FlushEnds, FlushRecorded, AfterFlush, FlushCalls
<1>9. CASE ConnectFails
  BY <1>9, <1>b, FaultExcuses DEF ConnectFails
<1>10. CASE WriteOk
  <2>1. /\ UNCHANGED <<connected, shutdown, queue, flush, stranded>>
        /\ pc' \in {"top", "checking", "closing"}
        /\ pc' = "closing" => flush = "final"
    BY <1>10, <1>b DEF WriteOk
  <2>2. conn' = "none" /\ UNCHANGED <<lost, faulty>>
    BY <1>10 DEF WriteOk, return_connection, NoConn
  <2>3. \A i \in DOMAIN idle' : idle'[i] = "live"
    <3>1. idle = <<>> /\ conn = "live"
      BY <1>10 DEF WriteOk, Control, CheckoutDiscipline
    <3>2. idle' = <<>> \/ idle' = <<"live">>
      BY <1>10, <3>1 DEF WriteOk, return_connection
    <3> QED BY <3>2
  <2> QED BY <2>1, <2>2, <2>3 DEF Blame, Leaves
<1>11. CASE WriteVanishes
  BY <1>11, <1>b, FaultExcuses DEF WriteVanishes
<1>12. CASE WriteFails
  BY <1>12, <1>b, FaultExcuses DEF WriteFails
<1>13. CASE Finish
  BY <1>13, BlameKept DEF Finish, Leaves, Blame
<1>14. CASE EndTask
  <2> USE <1>14 DEF EndTask
  <2>1. Leaves /\ Leaves'
    BY DEF Blame, Leaves
  <2>2. stranded' # {} => shutdown'
    <3>1. CASE shutdown
      BY <3>1
    <3>2. CASE queue = <<>>
      <4>1. Range(queue) = {}
        BY <3>2 DEF Range
      <4> QED BY <4>1
    <3> QED BY <2>1, <3>1, <3>2 DEF Leaves
  <2> QED BY <2>1, <2>2 DEF Blame
<1>15. CASE Accept
  BY <1>15, BlameKept DEF Accept, Leaves, task
<1>16. CASE WorkersGone
  BY <1>16, BlameKept DEF WorkersGone, Leaves, task
<1>17. CASE Shutdown
  BY <1>17, BlameKept DEF Shutdown, Leaves, task
<1>18. CASE PeerCloses
  BY <1>18, FaultExcuses DEF PeerCloses, task
<1>19. CASE Tick
  BY <1>19, BlameKept DEF Tick, Leaves
<1>20. CASE UNCHANGED vars
  BY <1>20, BlameKept DEF vars, task, Leaves
<1> QED BY <1>1, <1>2, <1>3, <1>4, <1>5, <1>6, <1>7, <1>8, <1>9, <1>10, <1>11, <1>12,
           <1>13, <1>14, <1>15, <1>16, <1>17, <1>18, <1>19, <1>20 DEF Next, Task

(***************************************************************************)
(* No event disappears without a network failure, and none is left in the  *)
(* queue without a shutdown.                                               *)
(***************************************************************************)
THEOREM LossExplained == Spec => []LossHasCause
<1>1. Delivery /\ Blame => LossHasCause
  BY DEF Delivery, Closing, Blame, LossHasCause
<1> QED BY <1>1, ControlInitially, ControlStep, DeliveryInitially, DeliveryStep,
           BlameInitially, BlameStep, PTL DEF Spec

-----------------------------------------------------------------------------
(* The task as a best-effort sink.                                         *)

(***************************************************************************)
(* The final flush is called on the way out only: no step of the loop      *)
(* comes after it.                                                         *)
(***************************************************************************)
FinalIsLast ==
    flush = "final" => pc \in {"flushing", "connecting", "writing", "closing", "done"}

LEMMA FinalIsLastInitially == Init => FinalIsLast
BY DEF Init, FinalIsLast

LEMMA FinalIsLastStep == Control /\ FinalIsLast /\ [Next]_vars => FinalIsLast'
<1> SUFFICES ASSUME Control, FinalIsLast, [Next]_vars PROVE FinalIsLast'
  OBVIOUS
<1>a. flush \in FlushCalls
  BY DEF Control, TypeOK, TaskOK
<1>1. ASSUME NEW ok, NEW b, FlushEnds(ok, b) PROVE FinalIsLast'
  BY <1>a, <1>1 DEF FlushEnds, FlushRecorded, AfterFlush, FlushCalls, FinalIsLast
<1>2. CASE BeginFlush
  <2>1. CASE can_execute(breaker)
    BY <1>2, <2>1 DEF BeginFlush, FinalIsLast
  <2>2. CASE ~can_execute(breaker)
    BY <1>1, <1>2, <2>2 DEF BeginFlush
  <2> QED BY <2>1, <2>2
<1>3. CASE ConnectFails \/ WriteOk \/ WriteVanishes \/ WriteFails
  BY <1>1, <1>3 DEF ConnectFails, WriteOk, WriteVanishes, WriteFails
<1>4. CASE LoopTop \/ Wake \/ RecvEvent \/ RecvTimeout \/ RecvDisconnected \/ CheckShutdown
  BY <1>4 DEF LoopTop, Wake, RecvEvent, RecvTimeout, RecvDisconnected, CheckShutdown, FinalIsLast
<1>5. CASE ConnectOk \/ Finish \/ EndTask
  BY <1>5 DEF ConnectOk, Finish, EndTask, FinalIsLast
<1>6. CASE Accept \/ WorkersGone \/ Shutdown \/ PeerCloses \/ Tick \/ UNCHANGED vars
  BY <1>6 DEF Accept, WorkersGone, Shutdown, PeerCloses, Tick, vars, task, FinalIsLast
<1> QED BY <1>2, <1>3, <1>4, <1>5, <1>6 DEF Next, Task

(***************************************************************************)
(* A flush settles the batch: k events arrive, the others are lost.  With  *)
(* nothing in the batch it changes nothing.                                *)
(***************************************************************************)
LEMMA FlushSettles ==
    ASSUME Control, batch' = <<>>, UNCHANGED <<connected, shutdown, queue, stranded, Phase>>,
           NEW k \in 0..Len(batch),
           received' = received \o SubSeq(batch, 1, k),
           lost' = lost \cup {batch[i] : i \in (k + 1)..Len(batch)}
    PROVE  [Sink!Next]_<<Sink!inputs, Sink!sinkVars>>
<1>1. CASE batch = <<>>
  <2>1. Len(batch) = 0 /\ k = 0
    BY <1>1
  <2>2. SubSeq(batch, 1, k) = <<>>
    BY <2>1, SubSeqEmpty
  <2>3. received \o <<>> = received
    <3>1. received \in Seq(1..MaxEvents)
      BY DEF Control, TypeOK, SettledOK
    <3> QED BY <3>1, ConcatEmptySeq
  <2>4. received' = received
    BY <2>2, <2>3
  <2>5. (k + 1)..Len(batch) = {}
    BY <2>1
  <2>6. lost' = lost
    BY <2>5
  <2> QED BY <1>1, <2>4, <2>6 DEF Sink!inputs, Sink!sinkVars
<1>2. CASE batch # <<>>
  <2>1. Sink!Settle
    BY <1>2 DEF Sink!Settle
  <2> QED BY <2>1 DEF Sink!Next, Sink!Sink, Sink!inputs
<1> QED BY <1>1, <1>2

LEMMA FlushLosesAll ==
    ASSUME Control, batch' = <<>>,
           UNCHANGED <<connected, shutdown, queue, stranded, Phase, received>>,
           lost' = lost \cup BatchEvents
    PROVE  [Sink!Next]_<<Sink!inputs, Sink!sinkVars>>
<1>1. batch \in Seq(1..MaxEvents) /\ received \in Seq(1..MaxEvents)
  BY DEF Control, TypeOK, TaskOK, SettledOK
<1>2. Len(batch) \in Nat /\ BatchEvents = {batch[i] : i \in 1..Len(batch)}
  BY <1>1, RangeByIndex DEF BatchEvents
<1>3. 0 \in 0..Len(batch) /\ (0 + 1)..Len(batch) = 1..Len(batch)
  BY <1>2
<1>4. SubSeq(batch, 1, 0) = <<>>
  BY SubSeqEmpty
<1>5. received' = received \o SubSeq(batch, 1, 0)
  BY <1>1, <1>4, ConcatEmptySeq
<1>6. lost' = lost \cup {batch[i] : i \in (0 + 1)..Len(batch)}
  BY <1>2, <1>3
<1> QED BY <1>3, <1>5, <1>6, FlushSettles

(***************************************************************************)
(* Every caller of flush_batch_to_elk goes on in the phase it was in.      *)
(***************************************************************************)
LEMMA FlushKeepsPhase ==
    ASSUME Control, NEW ok, NEW b, FlushEnds(ok, b),
           pc \in {"flushing", "connecting", "writing"}
    PROVE  /\ batch' = <<>> /\ UNCHANGED <<connected, shutdown, queue, stranded, Phase>>
<1>1. /\ batch' = <<>> /\ UNCHANGED <<connected, shutdown, queue, stranded, flush>>
      /\ pc' = AfterFlush[flush]
  BY DEF FlushEnds, FlushRecorded, world
<1>2. flush \in FlushCalls
  BY DEF Control, TypeOK, TaskOK
<1>3. CASE flush = "final"
  BY <1>1, <1>3 DEF AfterFlush, Phase, Leaving
<1>4. CASE flush \in {"full", "partial"}
  BY <1>1, <1>4 DEF AfterFlush, Phase, Leaving
<1> QED BY <1>1, <1>2, <1>3, <1>4 DEF FlushCalls

(***************************************************************************)
(* The task is a best-effort sink: each of its steps is one the sink may   *)
(* take, or none the workers could notice.                                 *)
(***************************************************************************)
THEOREM IsBestEffortSink == Spec => Sink!Safety
<1>1. Init => Sink!Init
  BY DEF Init, Sink!Init, Sink!SinkInit, Phase, Leaving
<1>2. Control /\ Delivery /\ FinalIsLast /\ [Next]_vars
         => [Sink!Next]_<<Sink!inputs, Sink!sinkVars>>
  <2> SUFFICES ASSUME Control, Delivery, FinalIsLast, [Next]_vars
               PROVE  [Sink!Next]_<<Sink!inputs, Sink!sinkVars>>
    OBVIOUS
  <2>a. /\ queue \in Seq(1..MaxEvents) /\ batch \in Seq(1..MaxEvents)
        /\ received \in Seq(1..MaxEvents) /\ accepted \in 0..MaxEvents
        /\ Len(batch) \in Nat /\ pc \in Labels
    BY RangeByIndex DEF Control, TypeOK, QueueOK, TaskOK, SettledOK
  <2>b. ASSUME UNCHANGED <<queue, batch, received, lost, stranded, Phase>>,
               connected' => connected, shutdown => shutdown'
        PROVE  Sink!Next
    BY <2>b DEF Sink!Next, Sink!Outside, Sink!sinkVars
  <2>c. ASSUME Sink!Sink, UNCHANGED <<connected, shutdown>> PROVE Sink!Next
    BY <2>c DEF Sink!Next, Sink!inputs
  <2>d. pc \in {"top", "sleeping", "receiving", "checking"} => Phase = "running"
    BY DEF FinalIsLast, Phase, Leaving
  <2>1. CASE LoopTop \/ CheckShutdown
    <3>1. /\ UNCHANGED <<connected, shutdown, queue, batch, received, lost, stranded, flush>>
          /\ pc \in {"top", "checking"}
          /\ pc' \in {"top", "sleeping", "receiving"} \/ (pc' = "finishing" /\ shutdown)
      BY <2>1 DEF LoopTop, CheckShutdown, outside, world, settled
    <3>2. Phase = "running" /\ flush # "final"
      BY <2>d, <3>1 DEF FinalIsLast
    <3>3. CASE pc' = "finishing" /\ shutdown
      <4>1. Phase' = "leaving"
        BY <3>3 DEF Phase, Leaving
      <4>2. Sink!Leave
        BY <3>1, <3>2, <3>3, <4>1 DEF Sink!Leave
      <4> QED BY <2>c, <3>1, <4>2 DEF Sink!Sink
    <3>4. CASE pc' \in {"top", "sleeping", "receiving"}
      <4>1. Phase' = "running"
        BY <3>1, <3>2, <3>4 DEF Phase, Leaving
      <4> QED BY <2>b, <3>1, <3>2, <4>1
    <3> QED BY <3>1, <3>3, <3>4
  <2>2. CASE Wake \/ RecvTimeout
    <3>1. /\ UNCHANGED <<connected, shutdown, queue, batch, received, lost, stranded>>
          /\ pc \in {"sleeping", "receiving"} /\ pc' \in {"top", "flushing", "checking"}
          /\ flush' = flush \/ flush' = "partial"
      BY <2>2 DEF Wake, RecvTimeout, outside, world, settled
    <3>2. Phase = "running" /\ flush # "final"
      BY <2>d, <3>1 DEF FinalIsLast
    <3>3. Phase' = "running"
      BY <3>1, <3>2 DEF Phase, Leaving
    <3> QED BY <2>b, <3>1, <3>2, <3>3
  <2>3. CASE RecvEvent
    <3>1. /\ UNCHANGED <<connected, shutdown, received, lost, stranded>>
          /\ queue # <<>> /\ batch' = Append(batch, Head(queue)) /\ queue' = Tail(queue)
          /\ pc = "receiving" /\ pc' \in {"flushing", "top"} /\ flush' = "full"
      BY <2>3 DEF RecvEvent, outside, world, settled
    <3>2. Phase = "running"
      BY <2>d, <3>1
    <3>3. Phase' = "running"
      BY <3>1 DEF Phase, Leaving
    <3>4. Sink!Take
      BY <3>1, <3>2, <3>3 DEF Sink!Take
    <3> QED BY <2>c, <3>1, <3>4 DEF Sink!Sink
  <2>4. CASE RecvDisconnected
    <3>1. /\ UNCHANGED <<connected, shutdown, queue, batch, received, lost, stranded>>
          /\ ~connected /\ queue = <<>> /\ pc = "receiving" /\ pc' = "finishing"
      BY <2>4 DEF RecvDisconnected, outside, world, settled
    <3>2. Phase = "running" /\ Phase' = "leaving"
      BY <2>d, <3>1 DEF Phase, Leaving
    <3>3. Sink!Leave
      BY <3>1, <3>2 DEF Sink!Leave
    <3> QED BY <2>c, <3>1, <3>3 DEF Sink!Sink
  <2>5. CASE BeginFlush
    <3>1. CASE can_execute(breaker)
      <4>1. /\ UNCHANGED <<connected, shutdown, queue, batch, received, lost, stranded, flush>>
            /\ pc = "flushing" /\ pc' \in {"writing", "connecting"}
        BY <2>5, <3>1 DEF BeginFlush, world, settled
      <4>2. Phase' = Phase
        BY <4>1 DEF Phase, Leaving
      <4> QED BY <2>b, <4>1, <4>2
    <3>2. CASE ~can_execute(breaker)
      <4>1. /\ FlushEnds(FALSE, breaker) /\ lost' = lost \cup BatchEvents
            /\ UNCHANGED received /\ pc = "flushing"
        BY <2>5, <3>2 DEF BeginFlush
      <4> QED BY <4>1, FlushKeepsPhase, FlushLosesAll
    <3> QED BY <3>1, <3>2
  <2>6. CASE ConnectOk
    <3>1. /\ UNCHANGED <<connected, shutdown, queue, batch, received, lost, stranded, flush>>
          /\ pc = "connecting" /\ pc' = "writing"
      BY <2>6 DEF ConnectOk, world, settled
    <3>2. Phase' = Phase
      BY <3>1 DEF Phase, Leaving
    <3> QED BY <2>b, <3>1, <3>2
  <2>7. CASE ConnectFails
    <3>1. /\ \E ok \in BOOLEAN : FlushEnds(ok, breaker)
          /\ lost' = lost \cup BatchEvents /\ UNCHANGED received
          /\ pc = "connecting"
      BY <2>7 DEF ConnectFails
    <3>2. batch' = <<>> /\ UNCHANGED <<connected, shutdown, queue, stranded, Phase>>
      BY <3>1, FlushKeepsPhase
    <3> QED BY <3>1, <3>2, FlushLosesAll
  <2>8. CASE WriteOk
    <3>1. FlushEnds(TRUE, breaker) /\ received' = received \o batch /\ lost' = lost /\ pc = "writing"
      BY <2>8 DEF WriteOk
    <3>2. batch' = <<>> /\ UNCHANGED <<connected, shutdown, queue, stranded, Phase>>
      BY <3>1, FlushKeepsPhase
    <3>3. SubSeq(batch, 1, Len(batch)) = batch
      BY <2>a, SubSeqFull
    <3>4. Len(batch) \in 0..Len(batch) /\ (Len(batch) + 1)..Len(batch) = {}
      BY <2>a
    <3>5. lost' = lost \cup {batch[i] : i \in (Len(batch) + 1)..Len(batch)}
      BY <3>1, <3>4
    <3>6. received' = received \o SubSeq(batch, 1, Len(batch))
      BY <3>1, <3>3
    <3> QED BY <3>2, <3>4, <3>5, <3>6, FlushSettles
  <2>9. CASE WriteVanishes \/ WriteFails
    <3>1. /\ \E ok \in BOOLEAN : FlushEnds(ok, breaker)
          /\ pc = "writing"
      BY <2>9 DEF WriteVanishes, WriteFails
    <3>2. PICK k \in 0..(Len(batch) - 1) :
             /\ received' = received \o SubSeq(batch, 1, k)
             /\ lost' = lost \cup {batch[i] : i \in (k + 1)..Len(batch)}
      BY <2>9 DEF WriteVanishes, WriteFails, ArrivesInPart
    <3>3. batch' = <<>> /\ UNCHANGED <<connected, shutdown, queue, stranded, Phase>>
      BY <3>1, FlushKeepsPhase
    <3>4. k \in 0..Len(batch)
      BY <2>a
    <3> QED BY <3>2, <3>3, <3>4, FlushSettles
  <2>10. CASE Finish
    <3>1. /\ UNCHANGED <<connected, shutdown, queue, batch, received, lost, stranded>>
          /\ pc = "finishing" /\ pc' \in {"closing", "flushing"} /\ flush' = "final"
      BY <2>10 DEF Finish, outside, world, settled
    <3>2. Phase = "leaving" /\ Phase' = "leaving"
      BY <3>1 DEF Phase, Leaving
    <3> QED BY <2>b, <3>1, <3>2
  <2>11. CASE EndTask
    <3>1. /\ UNCHANGED <<connected, shutdown, batch, received, lost>>
          /\ stranded' = Range(queue) /\ queue' = <<>> /\ pc = "closing" /\ pc' = "done"
      BY <2>11 DEF EndTask, world
    <3>2. Phase = "leaving" /\ Phase' = "stopped"
      BY <3>1 DEF Phase, Leaving
    <3>4. batch = <<>>
      BY <3>1 DEF Delivery, Closing
    <3>3. Sink!Stop
      BY <3>1, <3>2, <3>4 DEF Sink!Stop, Range, Sink!Range
    <3> QED BY <2>c, <3>1, <3>3 DEF Sink!Sink
  <2>12. CASE Accept
    <3>1. /\ connected /\ UNCHANGED <<connected, shutdown, batch, received, lost, stranded, pc, flush>>
          /\ Len(queue) < QueueCap /\ queue' = Append(queue, accepted + 1)
          /\ accepted < MaxEvents /\ pc # "done"
      BY <2>12 DEF Accept, task, settled
    <3>2. Phase' = Phase /\ Phase # "stopped"
      BY <3>1 DEF Phase, Leaving
    <3>3. accepted + 1 \in 1..MaxEvents
      BY <2>a, <3>1, ElkAssumption DEF ElkAssumption
    <3>4. Sink!Accept(accepted + 1)
      BY <3>1, <3>2 DEF Sink!Accept, Sink!Accepts
    <3> QED BY <3>1, <3>3, <3>4 DEF Sink!Next, Sink!Worker, Sink!inputs
  <2>13. CASE WorkersGone \/ Shutdown \/ PeerCloses \/ Tick \/ UNCHANGED vars
    <3>1. /\ UNCHANGED <<queue, batch, received, lost, stranded, pc, flush>>
          /\ connected' => connected
          /\ shutdown => shutdown'
      BY <2>13 DEF WorkersGone, Shutdown, PeerCloses, Tick, vars, world, task, settled
    <3>2. Phase' = Phase
      BY <3>1 DEF Phase, Leaving
    <3> QED BY <2>b, <3>1, <3>2
  <2> QED BY <2>1, <2>2, <2>3, <2>4, <2>5, <2>6, <2>7, <2>8, <2>9, <2>10, <2>11, <2>12, <2>13
          DEF Next, Task
<1> QED BY <1>1, <1>2, ControlInitially, ControlStep, DeliveryInitially, DeliveryStep,
           FinalIsLastInitially, FinalIsLastStep, PTL DEF Spec, Sink!Safety
=============================================================================
