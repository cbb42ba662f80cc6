------------------------- MODULE WazuhSender_proofs -------------------------
(***************************************************************************)
(* The Wazuh sender's safety for every queue capacity, threshold and       *)
(* number of alerts.  The delivery argument is that of the ELK sender with *)
(* a batch of at most one: alerts are taken and settled by their numbers.  *)
(***************************************************************************)
EXTENDS WazuhSender, SequenceTheorems, TLAPS

(***************************************************************************)
(* What each breaker method leaves behind is a breaker again.              *)
(***************************************************************************)
LEMMA BreakerTyped ==
    ASSUME NEW b \in Breaker
    PROVE  /\ after_can_execute(b) \in Breaker
           /\ record_success(b) \in Breaker
           /\ record_failure(b) \in Breaker
           /\ Aged(b) \in Breaker
<1>a. /\ 0 \in 0..CountMax
      /\ 0 \in NoFailure..(BreakerTimeout + 1)
      /\ \A n \in 0..CountMax : increment_saturating(n) \in 0..CountMax
  BY BreakerAssumption DEF BreakerAssumption, NoFailure, increment_saturating
<1>b. ASSUME NEW c \in Breaker
      PROVE  /\ [c EXCEPT !.state = "Open"] \in Breaker
             /\ [c EXCEPT !.state = "HalfOpen", !.successes = 0] \in Breaker
             /\ [c EXCEPT !.state = "Closed", !.failures = 0, !.successes = 0]
                  \in Breaker
  BY <1>a DEF Breaker, CircuitState
<1>c. ASSUME NEW f \in 0..CountMax, NEW s \in 0..CountMax
      PROVE  /\ [b EXCEPT !.successes = s, !.failures = f] \in Breaker
             /\ [b EXCEPT !.failures = f, !.successes = s, !.lastFailure = 0]
                  \in Breaker
  BY <1>a DEF Breaker, CircuitState
<1>d. /\ increment_saturating(b.successes) \in 0..CountMax
      /\ increment_saturating(b.failures) \in 0..CountMax
  BY <1>a DEF Breaker
<1>1. after_can_execute(b) \in Breaker
  BY <1>b DEF after_can_execute, transition_to_half_open
<1>2. record_success(b) \in Breaker
  BY <1>a, <1>b, <1>c, <1>d DEF record_success, transition_to_closed
<1>3. record_failure(b) \in Breaker
  BY <1>a, <1>b, <1>c, <1>d DEF record_failure, transition_to_open
<1>4. Aged(b) \in Breaker
  <2>1. b.lastFailure \in 0..BreakerTimeout
          => b.lastFailure + 1 \in NoFailure..(BreakerTimeout + 1)
    BY BreakerAssumption DEF BreakerAssumption, NoFailure
  <2> QED BY <2>1 DEF Aged, Breaker
<1> QED BY <1>1, <1>2, <1>3, <1>4

(***************************************************************************)
(* can_execute says yes exactly when it leaves a breaker that is not Open, *)
(* and neither a success nor the passing of time opens one.                *)
(***************************************************************************)
LEMMA BreakerStates ==
    ASSUME NEW b \in Breaker
    PROVE  /\ can_execute(b) <=> after_can_execute(b).state # "Open"
           /\ b.state # "Open" => after_can_execute(b) = b
           /\ b.state # "Open" => record_success(b).state # "Open"
           /\ Aged(b).state = b.state
<1> USE DEF Breaker, CircuitState
<1>1. can_execute(b) <=> after_can_execute(b).state # "Open"
  BY DEF can_execute, after_can_execute, transition_to_half_open
<1>2. b.state # "Open" => after_can_execute(b) = b
  BY DEF after_can_execute
<1>3. b.state # "Open" => record_success(b).state # "Open"
  BY DEF record_success, transition_to_closed
<1>4. Aged(b).state = b.state
  BY DEF Aged
<1> QED BY <1>1, <1>2, <1>3, <1>4

-----------------------------------------------------------------------------

(***************************************************************************)
(* Control.  From the breaker's yes to the end of the send the breaker is  *)
(* not Open.                                                               *)
(***************************************************************************)
Alerts == 1..MaxAlerts

Shape ==
    /\ accepted \in 0..MaxAlerts
    /\ queue \in Seq(Alerts) /\ Len(queue) <= QueueCap
    /\ sent \in Seq(Alerts)
    /\ alert \in Seq(Alerts)

Place ==
    /\ pc \in Labels
    /\ Len(alert) = IF pc = "sending" THEN 1 ELSE 0
    /\ breaker \in Breaker
    /\ pc \in {"receiving", "sending"} => breaker.state # "Open"

Flags == connected \in BOOLEAN /\ shutdown \in BOOLEAN

(***************************************************************************)
(* Delivery.  Alerts up to Base have been settled; the one in hand and the *)
(* queue follow without a gap.                                             *)
(***************************************************************************)
Base == accepted - Len(queue) - Len(alert)

Consecutive ==
    /\ Base \in Nat
    /\ Len(alert) = 1 => alert[1] = Base + 1
    /\ \A i \in 1..Len(queue) : queue[i] = Base + Len(alert) + i

Divided ==
    /\ \A e \in 1..Base : e \in Range(sent) \/ e \in lost \/ e \in stranded
    /\ \A e \in Range(sent) : e \in 1..Base /\ e \notin lost /\ e \notin stranded
    /\ \A e \in lost : e \in 1..Base /\ e \notin stranded
    /\ \A e \in stranded : e \in 1..Base

Increasing(s) == \A i, j \in 1..Len(s) : i < j => s[i] < s[j]

Ending == pc # "done" => stranded = {}

IInv == Shape /\ Place /\ Flags /\ Consecutive /\ Divided /\ Increasing(sent) /\ Ending

LEMMA Initially == Init => IInv
<1> SUFFICES ASSUME Init PROVE IInv
  OBVIOUS
<1> USE DEF Init
<1>1. breaker \in Breaker
  BY BreakerAssumption
  DEF BreakerAssumption, NewBreaker, Breaker, CircuitState, NoFailure
<1>2. Len(queue) = 0 /\ Len(alert) = 0 /\ Len(sent) = 0 /\ Range(sent) = {}
  BY DEF Range
<1>3. Base = 0
  <2>1. accepted = 0
    OBVIOUS
  <2> HIDE DEF Init
  <2> QED BY <1>2, <2>1 DEF Base
<1>4. Shape
  <2>1. queue \in Seq(Alerts) /\ sent \in Seq(Alerts) /\ alert \in Seq(Alerts)
    OBVIOUS
  <2>2. accepted \in 0..MaxAlerts /\ Len(queue) <= QueueCap
    BY <1>2, WazuhAssumption DEF WazuhAssumption
  <2> QED BY <2>1, <2>2 DEF Shape
<1>5. Place /\ Flags
  BY <1>1, <1>2 DEF Place, Flags, Labels, NewBreaker
<1>6. Consecutive /\ Divided /\ Increasing(sent) /\ Ending
  BY <1>2, <1>3 DEF Consecutive, Divided, Increasing, Ending
<1> QED BY <1>4, <1>5, <1>6 DEF IInv

(***************************************************************************)
(* Steps that leave the alerts where they are.                             *)
(***************************************************************************)
LEMMA NothingMoves ==
    ASSUME IInv, UNCHANGED <<accepted, queue, alert, outcome>>,
           Flags', Place', pc = "done" => pc' = "done"
    PROVE  IInv'
<1>1. Base' = Base
  BY DEF Base
<1>2. Shape' /\ Ending'
  BY DEF IInv, Shape, Ending, outcome
<1>3. Consecutive'
  BY <1>1 DEF IInv, Consecutive
<1>4. Divided' /\ Increasing(sent)'
  BY <1>1 DEF IInv, Divided, Increasing, outcome
<1> QED BY <1>2, <1>3, <1>4 DEF IInv

LEMMA Step == IInv /\ [Next]_vars => IInv'
<1> SUFFICES ASSUME IInv, [Next]_vars PROVE IInv'
  OBVIOUS
<1>a. /\ queue \in Seq(Alerts) /\ Len(queue) \in Nat
      /\ alert \in Seq(Alerts) /\ Len(alert) \in Nat
      /\ sent \in Seq(Alerts) /\ Len(sent) \in Nat /\ accepted \in Nat
      /\ breaker \in Breaker /\ pc \in Labels /\ Base \in Nat
  BY DEF IInv, Shape, Place, Consecutive
<1>b. Shape /\ Place /\ Flags /\ Consecutive /\ Divided /\ Increasing(sent) /\ Ending
  BY DEF IInv
<1> USE DEF world
<1>1. CASE LoopTop
  <2> USE <1>1 DEF LoopTop
  <2>1. Place'
    BY <1>a, <1>b, BreakerTyped, BreakerStates DEF Place, Labels
  <2> QED BY <1>b, <2>1, NothingMoves DEF Flags
<1>2. CASE Wake
  BY <1>b, <1>2, NothingMoves DEF Wake, Flags, Place, Labels
<1>3. CASE RecvAlert
  <2> USE <1>3 DEF RecvAlert, outcome
  <2>1. /\ Len(queue) # 0 /\ queue' \in Seq(Alerts)
        /\ Len(queue') = Len(queue) - 1
        /\ \A i \in 1..Len(queue') : queue'[i] = queue[i + 1]
        /\ Head(queue) = queue[1] /\ Head(queue) \in Alerts
    BY <1>a, HeadTailProperties, EmptySeq
  <2>2. Len(alert) = 0 /\ Len(alert') = 1 /\ alert'[1] = queue[1] /\ alert' \in Seq(Alerts)
    BY <1>b, <2>1 DEF Place
  <2>3. Base' = Base
    BY <1>a, <2>1, <2>2 DEF Base
  <2>4. Shape'
    BY <1>a, <1>b, <2>1, <2>2, WazuhAssumption DEF Shape, WazuhAssumption
  <2>5. Place' /\ Flags' /\ Ending'
    BY <1>b, <2>2 DEF Place, Flags, Ending, Labels
  <2>6. Consecutive'
    <3>1. \A i \in 1..Len(queue) : queue[i] = Base + i
      BY <1>a, <1>b, <2>2 DEF Consecutive
    <3>2. alert'[1] = Base + 1
      BY <1>a, <2>1, <2>2, <3>1
    <3>3. ASSUME NEW i \in 1..Len(queue') PROVE queue'[i] = Base + 1 + i
      <4>1. i + 1 \in 1..Len(queue) /\ Base + (i + 1) = Base + 1 + i
        BY <1>a, <2>1
      <4> QED BY <2>1, <3>1, <4>1
    <3> QED BY <1>a, <2>2, <2>3, <3>2, <3>3 DEF Consecutive
  <2>7. Divided' /\ Increasing(sent)'
    BY <1>b, <2>3 DEF Divided, Increasing
  <2> QED BY <2>4, <2>5, <2>6, <2>7 DEF IInv
<1>4. CASE RecvTimeout
  BY <1>b, <1>4, NothingMoves DEF RecvTimeout, Flags, Place, Labels
<1>5. CASE RecvDisconnected
  BY <1>b, <1>5, NothingMoves DEF RecvDisconnected, Flags, Place, Labels
<1>6. CASE CheckShutdown
  BY <1>b, <1>6, NothingMoves DEF CheckShutdown, Flags, Place, Labels
<1>c. ASSUME pc = "sending", alert' = <<>>, pc' = "top", UNCHANGED <<world, queue, stranded>>
      PROVE  /\ Len(alert) = 1 /\ Len(alert') = 0 /\ alert' \in Seq(Alerts)
             /\ alert = <<Base + 1>> /\ Base' = Base + 1
             /\ Consecutive' /\ Flags' /\ Ending'
             /\ accepted' \in 0..MaxAlerts
             /\ queue' \in Seq(Alerts) /\ Len(queue') <= QueueCap
             /\ pc' \in Labels
  <2> USE <1>c
  <2>1. Len(alert) = 1 /\ Len(alert') = 0 /\ alert' \in Seq(Alerts)
    BY <1>b DEF Place
  <2>2. alert = <<Base + 1>>
    <3>1. alert[1] = Base + 1
      BY <1>b, <2>1 DEF Consecutive
    <3> QED BY <1>a, <2>1, <3>1
  <2>3. Base' = Base + 1
    BY <1>a, <2>1 DEF Base
  <2>4. Consecutive'
    <3>1. \A i \in 1..Len(queue) : queue[i] = Base + 1 + i
      BY <1>b, <2>1 DEF Consecutive
    <3> QED BY <1>a, <2>1, <2>3, <3>1 DEF Consecutive
  <2>5. Flags' /\ Ending'
    BY <1>b DEF Flags, Ending
  <2> QED BY <1>b, <2>1, <2>2, <2>3, <2>4, <2>5 DEF Shape, Labels
<1>d. /\ \A e \in 1..(Base + 1) : e \in 1..Base \/ e = Base + 1
      /\ Base + 1 \in 1..(Base + 1) /\ Base + 1 \notin 1..Base
      /\ 1..Base \subseteq 1..(Base + 1)
  BY <1>a
<1>7. CASE SendOk
  <2> USE <1>7 DEF SendOk
  <2>1. /\ Len(alert') = 0 /\ alert' \in Seq(Alerts)
        /\ alert = <<Base + 1>> /\ Base' = Base + 1
        /\ Consecutive' /\ Flags' /\ Ending' /\ accepted' \in 0..MaxAlerts
        /\ queue' \in Seq(Alerts) /\ Len(queue') <= QueueCap /\ pc' \in Labels
    BY <1>c
  <2>2. /\ sent' \in Seq(Alerts) /\ Len(sent') = Len(sent) + 1
        /\ \A i \in 1..Len(sent) : sent'[i] = sent[i]
        /\ sent'[Len(sent) + 1] = Base + 1
    BY <1>a, <2>1
  <2>3. Range(sent) = {sent[i] : i \in 1..Len(sent)}
        /\ Range(sent') = {sent'[i] : i \in 1..(Len(sent) + 1)}
    BY <1>a, <2>2, LenProperties DEF Range
  <2>4. \A i \in 1..(Len(sent) + 1) : i \in 1..Len(sent) \/ i = Len(sent) + 1
    BY <1>a
  <2>5. \A e : e \in Range(sent') <=> e \in Range(sent) \/ e = Base + 1
    <3>1. Len(sent) + 1 \in 1..(Len(sent) + 1) /\ 1..Len(sent) \subseteq 1..(Len(sent) + 1)
      BY <1>a
    <3> QED BY <2>2, <2>3, <2>4, <3>1
  <2>6. Divided'
    <3>1. \A e \in lost : e \in 1..Base /\ e \notin stranded
      BY <1>b DEF Divided
    <3>2. Base + 1 \notin lost /\ Base + 1 \notin stranded
      BY <1>b, <1>d DEF Divided
    <3> QED BY <1>b, <1>d, <2>1, <2>5, <3>2 DEF Divided
  <2>7. Increasing(sent)'
    <3> SUFFICES ASSUME NEW i \in 1..(Len(sent) + 1), NEW j \in 1..(Len(sent) + 1), i < j
                 PROVE  sent'[i] < sent'[j]
      BY <2>2 DEF Increasing
    <3>1. i \in 1..Len(sent)
      BY <1>a
    <3>2. sent[i] \in 1..Base
      BY <1>b, <2>3, <3>1 DEF Divided
    <3>3. CASE j \in 1..Len(sent)
      BY <1>b, <2>2, <3>1, <3>3 DEF Increasing
    <3>4. CASE j = Len(sent) + 1
      <4>1. sent'[i] = sent[i] /\ sent'[j] = Base + 1
        BY <2>2, <3>1, <3>4
      <4> QED BY <1>a, <3>2, <4>1
    <3> QED BY <2>4, <3>3, <3>4
  <2>8. Place'
    BY <1>a, <1>b, <2>1, BreakerTyped, BreakerStates DEF Place
  <2>9. Shape'
    BY <2>1, <2>2 DEF Shape
  <2> QED BY <2>1, <2>6, <2>7, <2>8, <2>9 DEF IInv
<1>8. CASE SendFails
  <2> USE <1>8 DEF SendFails
  <2>1. /\ Len(alert') = 0 /\ alert' \in Seq(Alerts)
        /\ alert = <<Base + 1>> /\ Base' = Base + 1
        /\ Consecutive' /\ Flags' /\ Ending' /\ accepted' \in 0..MaxAlerts
        /\ queue' \in Seq(Alerts) /\ Len(queue') <= QueueCap /\ pc' \in Labels
    BY <1>c
  <2>2. Range(alert) = {Base + 1}
    BY <2>1 DEF Range
  <2>3. \A e : e \in lost' <=> e \in lost \/ e = Base + 1
    BY <2>2
  <2>4. Divided'
    <3>1. Base + 1 \notin Range(sent) /\ Base + 1 \notin stranded
      BY <1>b, <1>d DEF Divided
    <3> QED BY <1>b, <1>d, <2>1, <2>3, <3>1 DEF Divided
  <2>5. Increasing(sent)'
    BY <1>b DEF Increasing
  <2>6. Place'
    BY <1>a, <1>b, <2>1, BreakerTyped DEF Place
  <2>7. Shape'
    BY <1>b, <2>1 DEF Shape
  <2> QED BY <2>1, <2>4, <2>5, <2>6, <2>7 DEF IInv
<1>9. CASE EndTask
  <2> USE <1>9 DEF EndTask
  <2>1. Len(alert) = 0 /\ Len(queue') = 0 /\ queue' \in Seq(Alerts) /\ UNCHANGED alert
    BY <1>b DEF Place
  <2>2. Base' = accepted /\ accepted = Base + Len(queue)
    BY <1>a, <2>1 DEF Base
  <2>3. \A e : e \in stranded' <=> e \in (Base + 1)..accepted
    <3>1. Range(queue) = {queue[i] : i \in 1..Len(queue)}
      BY <1>a, LenProperties DEF Range
    <3>2. \A i \in 1..Len(queue) : queue[i] = Base + i
      BY <1>a, <1>b, <2>1 DEF Consecutive
    <3>3. ASSUME NEW e \in (Base + 1)..accepted PROVE e \in Range(queue)
      <4>1. e - Base \in 1..Len(queue) /\ Base + (e - Base) = e
        BY <1>a, <2>2
      <4> QED BY <3>1, <3>2, <4>1
    <3>4. ASSUME NEW i \in 1..Len(queue) PROVE queue[i] \in (Base + 1)..accepted
      BY <1>a, <2>2, <3>2
    <3> QED BY <3>1, <3>3, <3>4
  <2>4. /\ \A e \in 1..accepted : e \in 1..Base \/ e \in (Base + 1)..accepted
        /\ \A e \in (Base + 1)..accepted : e \in 1..accepted /\ e \notin 1..Base
        /\ 1..Base \subseteq 1..accepted
    BY <1>a, <2>2
  <2>5. Divided'
    <3>1. stranded = {} /\ UNCHANGED <<sent, lost>>
      BY <1>b DEF Ending
    <3>2. \A e \in 1..Base' : e \in Range(sent') \/ e \in lost' \/ e \in stranded'
      <4> SUFFICES ASSUME NEW e \in 1..accepted
                   PROVE  e \in Range(sent) \/ e \in lost \/ e \in stranded'
        BY <2>2, <3>1
      <4> QED BY <1>b, <2>3, <2>4, <3>1 DEF Divided
    <3>3. \A e \in Range(sent') : e \in 1..Base' /\ e \notin lost' /\ e \notin stranded'
      BY <1>b, <2>2, <2>3, <2>4, <3>1 DEF Divided
    <3>4. \A e \in lost' : e \in 1..Base' /\ e \notin stranded'
      BY <1>b, <2>2, <2>3, <2>4, <3>1 DEF Divided
    <3>5. \A e \in stranded' : e \in 1..Base'
      BY <2>2, <2>3, <2>4
    <3> QED BY <3>2, <3>3, <3>4, <3>5 DEF Divided
  <2>6. Consecutive'
    BY <1>a, <2>1, <2>2 DEF Consecutive
  <2>7. Shape'
    BY <1>a, <1>b, <2>1, WazuhAssumption DEF Shape, WazuhAssumption
  <2>8. Place' /\ Flags' /\ Ending'
    BY <1>b, <2>1 DEF Place, Flags, Ending, Labels
  <2>9. Increasing(sent)'
    BY <1>b DEF Increasing
  <2> QED BY <2>5, <2>6, <2>7, <2>8, <2>9 DEF IInv
<1>10. CASE Accept
  <2> USE <1>10 DEF Accept, outcome
  <2>1. accepted' \in Alerts /\ accepted' = accepted + 1 /\ accepted' \in 0..MaxAlerts
    BY <1>a, <1>b, WazuhAssumption DEF Alerts, Shape, WazuhAssumption
  <2>2. /\ queue' \in Seq(Alerts) /\ Len(queue') = Len(queue) + 1
        /\ \A i \in 1..Len(queue) : queue'[i] = queue[i]
        /\ queue'[Len(queue) + 1] = accepted + 1
    BY <1>a, <2>1
  <2>3. Base' = Base
    BY <1>a, <2>1, <2>2 DEF Base
  <2>4. accepted + 1 = Base + Len(alert) + (Len(queue) + 1)
    BY <1>a DEF Base
  <2>5. Consecutive'
    <3>1. ASSUME NEW i \in 1..Len(queue') PROVE queue'[i] = Base + Len(alert) + i
      <4>1. CASE i \in 1..Len(queue)
        BY <1>b, <2>2, <4>1 DEF Consecutive
      <4>2. CASE i = Len(queue) + 1
        BY <2>2, <2>4, <4>2
      <4>3. i \in 1..Len(queue) \/ i = Len(queue) + 1
        BY <1>a, <2>2
      <4> QED BY <4>1, <4>2, <4>3
    <3> QED BY <1>b, <2>3, <3>1 DEF Consecutive
  <2>6. Shape'
    BY <1>a, <1>b, <2>1, <2>2, WazuhAssumption DEF Shape, WazuhAssumption
  <2>7. Place' /\ Flags' /\ Ending'
    BY <1>b DEF Place, Flags, Ending
  <2>8. Divided' /\ Increasing(sent)'
    BY <1>b, <2>3 DEF Divided, Increasing
  <2> QED BY <2>5, <2>6, <2>7, <2>8 DEF IInv
<1>11. CASE SendersGone
  BY <1>b, <1>11, NothingMoves DEF SendersGone, Flags, Place
<1>12. CASE Shutdown
  BY <1>b, <1>12, NothingMoves DEF Shutdown, Flags, Place
<1>13. CASE Tick
  <2> USE <1>13 DEF Tick
  <2>1. Place'
    BY <1>a, <1>b, BreakerTyped, BreakerStates DEF Place
  <2> QED BY <1>b, <2>1, NothingMoves DEF Flags
<1>14. CASE UNCHANGED vars
  BY <1>b, <1>14, NothingMoves DEF vars, Flags, Place
<1> QED BY <1>1, <1>2, <1>3, <1>4, <1>5, <1>6, <1>7, <1>8, <1>9, <1>10, <1>11, <1>12,
           <1>13, <1>14 DEF Next, Task

(***************************************************************************)
(* A sequence is one of whatever its elements are.                         *)
(***************************************************************************)
LEMMA Retyped ==
    ASSUME NEW S, NEW s \in Seq(S), NEW T, \A i \in 1..Len(s) : s[i] \in T
    PROVE  s \in Seq(T)
<1>1. Len(s) \in Nat /\ s \in [1..Len(s) -> S]
  BY LenProperties
<1>2. s \in [1..Len(s) -> T]
  BY <1>1
<1> QED BY <1>1, <1>2

(***************************************************************************)
(* The sender's state is always well typed: no alert is queued, in hand or *)
(* settled that was not accepted, and the queue keeps its bound.           *)
(***************************************************************************)
THEOREM Typing == Spec => []TypeOK
<1>1. IInv => TypeOK
  <2> SUFFICES ASSUME IInv PROVE TypeOK
    OBVIOUS
  <2>1. /\ accepted \in Nat /\ Base \in Nat /\ accepted \in 0..MaxAlerts
        /\ queue \in Seq(Alerts) /\ sent \in Seq(Alerts) /\ alert \in Seq(Alerts)
        /\ Len(queue) \in Nat /\ Len(alert) \in 0..1 /\ Len(sent) \in Nat
    <3>1. /\ queue \in Seq(Alerts) /\ sent \in Seq(Alerts) /\ alert \in Seq(Alerts)
          /\ accepted \in 0..MaxAlerts /\ Base \in Nat
      BY DEF IInv, Shape, Consecutive
    <3>2. Len(queue) \in Nat /\ Len(sent) \in Nat
      BY <3>1, LenProperties
    <3>3. Len(alert) \in 0..1
      BY DEF IInv, Place
    <3>4. accepted \in Nat
      BY <3>1, WazuhAssumption DEF WazuhAssumption
    <3> QED BY <3>1, <3>2, <3>3, <3>4
  <2>2. accepted = Base + Len(alert) + Len(queue)
    BY <2>1 DEF Base
  <2>3. 1..Base \subseteq 1..accepted
    BY <2>1, <2>2
  <2>4. queue \in Seq(1..accepted)
    <3>1. \A i \in 1..Len(queue) : queue[i] \in 1..accepted
      <4>1. \A i \in 1..Len(queue) : Base + Len(alert) + i \in 1..accepted
        BY <2>1, <2>2
      <4> QED BY <4>1 DEF IInv, Consecutive
    <3> QED BY <2>1, <3>1, Retyped
  <2>5. alert \in Seq(1..accepted)
    <3>1. \A i \in 1..Len(alert) : alert[i] \in 1..accepted
      <4>1. \A i \in 1..Len(alert) : i = 1 /\ Len(alert) = 1
        <5>1. \A n \in 0..1 : \A i \in 1..n : i = 1 /\ n = 1
          OBVIOUS
        <5> QED BY <2>1, <5>1
      <4>2. Len(alert) = 1 => Base + 1 \in 1..accepted
        BY <2>1, <2>2
      <4> QED BY <4>1, <4>2 DEF IInv, Consecutive
    <3> QED BY <2>1, <3>1, Retyped
  <2>6. sent \in Seq(1..accepted)
    <3>1. \A i \in 1..Len(sent) : sent[i] \in 1..accepted
      <4>1. \A i \in 1..Len(sent) : sent[i] \in Range(sent)
        BY <2>1, LenProperties DEF Range
      <4> QED BY <2>3, <4>1 DEF IInv, Divided
    <3> QED BY <2>1, <3>1, Retyped
  <2>7. lost \subseteq 1..accepted /\ stranded \subseteq 1..accepted
    BY <2>3 DEF IInv, Divided
  <2> HIDE DEF IInv
  <2>8. Len(queue) <= QueueCap /\ connected \in BOOLEAN /\ shutdown \in BOOLEAN
    BY DEF IInv, Shape, Flags
  <2>9. pc \in Labels /\ Len(alert) = (IF pc = "sending" THEN 1 ELSE 0) /\ breaker \in Breaker
    BY DEF IInv, Place
  <2> QED BY <2>1, <2>4, <2>5, <2>6, <2>7, <2>8, <2>9 DEF TypeOK
<1> QED BY <1>1, Initially, Step, PTL DEF Spec

(***************************************************************************)
(* Every accepted alert has one fate, and alerts are sent in order.        *)
(***************************************************************************)
THEOREM OneFateEach == Spec => []EachAlertOnce
<1>1. IInv => EachAlertOnce
  <2> SUFFICES ASSUME IInv PROVE EachAlertOnce
    OBVIOUS
  <2> DEFINE s == Len(sent)
             a == Len(alert)
             q == Len(queue)
             line == sent \o alert \o queue
  <2>1. /\ sent \in Seq(Alerts) /\ alert \in Seq(Alerts) /\ queue \in Seq(Alerts)
        /\ s \in Nat /\ a \in Nat /\ q \in Nat /\ a <= 1
        /\ accepted \in Nat /\ Base \in Nat
    BY DEF IInv, Shape, Place, Consecutive
  <2>2. accepted = Base + a + q
    BY <2>1 DEF Base
  <2>3. /\ DOMAIN line = 1..(s + a + q)
        /\ \A i \in 1..s : line[i] = sent[i]
        /\ \A i \in 1..a : line[s + i] = alert[i]
        /\ \A i \in 1..q : line[s + a + i] = queue[i]
    BY <2>1
  <2>4. Range(sent) = {sent[i] : i \in 1..s} /\ \A i \in 1..s : sent[i] \in 1..Base
    BY <2>1, LenProperties DEF Range, IInv, Divided
  <2> HIDE DEF line
  <2>5. \A i \in (s + 1)..(s + a + q) : line[i] = Base + (i - s)
    <3> TAKE i \in (s + 1)..(s + a + q)
    <3>1. CASE i - s <= a
      <4> HIDE DEF s, a, q
      <4>0. i \in Int /\ s + 1 <= i
        BY <2>1
      <4>1. i - s = 1 /\ a = 1 /\ i - s \in 1..a /\ s + (i - s) = i
        BY <2>1, <3>1, <4>0
      <4>2. line[s + (i - s)] = alert[i - s]
        BY <2>3, <4>1
      <4>3. alert[1] = Base + 1
        BY <4>1 DEF IInv, Consecutive, a
      <4> QED BY <4>1, <4>2, <4>3
    <3>2. CASE i - s > a
      <4> DEFINE k == i - s - a
      <4> HIDE DEF s, a, q
      <4>0. i \in Int /\ s + 1 <= i /\ i <= s + a + q
        BY <2>1
      <4>1. k \in 1..q /\ s + a + k = i /\ Base + a + k = Base + (i - s)
        BY <2>1, <3>2, <4>0
      <4>2. line[s + a + k] = queue[k]
        BY <2>3, <4>1
      <4>3. queue[k] = Base + a + k
        BY <4>1 DEF IInv, Consecutive, a, q
      <4> QED BY <4>1, <4>2, <4>3
    <3> QED BY <2>1, <3>1, <3>2
  <2>6. \A i \in DOMAIN line : i \in 1..s \/ i \in (s + 1)..(s + a + q)
    BY <2>1, <2>3
  <2>7. Range(line) = Range(sent) \cup (Base + 1)..accepted
    <3>1. Range(line) = {line[i] : i \in DOMAIN line}
      BY DEF Range
    <3>2. ASSUME NEW i \in DOMAIN line
          PROVE  line[i] \in Range(sent) \cup (Base + 1)..accepted
      <4>1. CASE i \in 1..s
        BY <2>3, <2>4, <4>1
      <4>2. CASE i \in (s + 1)..(s + a + q)
        <5>1. line[i] = Base + (i - s)
          BY <2>5, <4>2
        <5>2. Base + (i - s) \in (Base + 1)..accepted
          BY <2>1, <2>2, <4>2
        <5> QED BY <5>1, <5>2
      <4> QED BY <2>6, <4>1, <4>2
    <3>3. ASSUME NEW e \in Range(sent) PROVE e \in Range(line)
      <4>1. PICK i \in 1..s : e = sent[i]
        BY <2>4
      <4>2. i \in DOMAIN line /\ line[i] = e
        BY <2>1, <2>3, <4>1
      <4> QED BY <3>1, <4>2
    <3>4. ASSUME NEW e \in (Base + 1)..accepted PROVE e \in Range(line)
      <4> DEFINE i == s + (e - Base)
      <4>1. i \in (s + 1)..(s + a + q) /\ Base + (i - s) = e
        BY <2>1, <2>2
      <4>2. line[i] = e /\ i \in DOMAIN line
        BY <2>1, <2>3, <2>5, <4>1
      <4> QED BY <3>1, <4>2
    <3> QED BY <3>1, <3>2, <3>3, <3>4
  <2>8. /\ \A e \in 1..accepted : e \in 1..Base \/ e \in (Base + 1)..accepted
        /\ \A e \in (Base + 1)..accepted : e \in 1..accepted /\ e \notin 1..Base
        /\ 1..Base \subseteq 1..accepted
    BY <2>1, <2>2
  <2>9. Divided
    BY DEF IInv
  <2>10. /\ Range(line) \cup lost \cup stranded = 1..accepted
         /\ Range(line) \cap (lost \cup stranded) = {} /\ lost \cap stranded = {}
    BY <2>7, <2>8, <2>9 DEF Divided
  <2>11. ASSUME NEW i \in DOMAIN line, NEW j \in DOMAIN line, i < j
         PROVE  line[i] < line[j]
    <3>1. i \in Int /\ j \in Int /\ i <= s + a + q /\ j <= s + a + q
      BY <2>1, <2>3
    <3>2. CASE j \in 1..s
      <4>1. i \in 1..s
        BY <2>1, <2>3, <2>11, <3>1, <3>2
      <4>2. sent[i] < sent[j]
        BY <2>11, <3>2, <4>1 DEF IInv, Increasing
      <4> QED BY <2>3, <3>2, <4>1, <4>2
    <3>3. CASE j \in (s + 1)..(s + a + q)
      <4>1. line[j] = Base + (j - s) /\ j > s
        BY <2>1, <2>5, <3>3
      <4>2. CASE i \in 1..s
        <5>1. line[i] \in 1..Base
          BY <2>3, <2>4, <4>2
        <5> QED BY <2>1, <3>1, <4>1, <5>1
      <4>3. CASE i \in (s + 1)..(s + a + q)
        <5>1. line[i] = Base + (i - s)
          BY <2>5, <4>3
        <5> QED BY <2>1, <2>11, <3>1, <4>1, <5>1
      <4> QED BY <2>6, <4>2, <4>3
    <3> QED BY <2>6, <3>2, <3>3
  <2> QED BY <2>10, <2>11 DEF EachAlertOnce, line
<1> QED BY <1>1, Initially, Step, PTL DEF Spec

(***************************************************************************)
(* Sending the alert in hand, or failing to, settles a batch of one.       *)
(***************************************************************************)
LEMMA SendSettles ==
    ASSUME NEW S, NEW a \in Seq(S), Len(a) = 1, NEW s \in Seq(S)
    PROVE  /\ a # <<>>
           /\ 1 \in 0..Len(a) /\ s \o a = s \o SubSeq(a, 1, 1)
           /\ {a[i] : i \in (1 + 1)..Len(a)} = {}
           /\ 0 \in 0..Len(a) /\ s = s \o SubSeq(a, 1, 0)
           /\ {a[i] : i \in (0 + 1)..Len(a)} = Range(a)
<1>1. SubSeq(a, 1, Len(a)) = a
  BY SubSeqFull
<1>2. SubSeq(a, 1, 0) = <<>>
  BY SubSeqEmpty
<1>3. s \o <<>> = s
  BY ConcatEmptySeq
<1>4. (1 + 1)..Len(a) = {} /\ (0 + 1)..Len(a) = 1..Len(a)
  OBVIOUS
<1>5. Range(a) = {a[i] : i \in 1..Len(a)}
  BY RangeEquality DEF Range
<1>6. a # <<>>
  <2>1. Len(<<>>) = 0
    BY EmptySeq
  <2> QED BY <2>1
<1>7. 1 \in 0..Len(a) /\ 0 \in 0..Len(a)
  OBVIOUS
<1>8. s \o a = s \o SubSeq(a, 1, 1) /\ s = s \o SubSeq(a, 1, 0)
  BY <1>1, <1>2, <1>3
<1>9. {a[i] : i \in (1 + 1)..Len(a)} = {} /\ {a[i] : i \in (0 + 1)..Len(a)} = Range(a)
  BY <1>4, <1>5
<1> QED BY <1>6, <1>7, <1>8, <1>9

(***************************************************************************)
(* The task is a best-effort sink: each of its steps is one the sink may   *)
(* take, or none the workers could notice.                                 *)
(***************************************************************************)
THEOREM IsBestEffortSink == Spec => Sink!Safety
<1>1. Init => Sink!Init
  BY DEF Init, Sink!Init, Sink!SinkInit, Phase
<1>2. IInv /\ [Next]_vars => [Sink!Next]_<<Sink!inputs, Sink!sinkVars>>
  <2> SUFFICES ASSUME IInv, [Next]_vars PROVE [Sink!Next]_<<Sink!inputs, Sink!sinkVars>>
    OBVIOUS
  <2>a. /\ pc \in Labels /\ queue \in Seq(Alerts) /\ alert \in Seq(Alerts) /\ sent \in Seq(Alerts)
        /\ Len(alert) = IF pc = "sending" THEN 1 ELSE 0
    BY DEF IInv, Shape, Place
  <2>b. ASSUME UNCHANGED <<queue, alert, sent, lost, stranded, Phase>>,
               connected' => connected, shutdown => shutdown'
        PROVE  Sink!Next
    BY <2>b DEF Sink!Next, Sink!Outside, Sink!sinkVars
  <2>c. ASSUME Sink!Sink, UNCHANGED <<connected, shutdown>> PROVE Sink!Next
    BY <2>c DEF Sink!Next, Sink!inputs
  <2>1. CASE LoopTop \/ CheckShutdown
    <3>1. UNCHANGED <<connected, shutdown, queue, alert, sent, lost, stranded>> /\ Phase = "running"
      BY <2>1 DEF LoopTop, CheckShutdown, world, outcome, Phase
    <3>2. Phase' = "running" \/ (shutdown /\ Phase' = "leaving")
      BY <2>1 DEF LoopTop, CheckShutdown, Phase
    <3>3. CASE shutdown /\ Phase' = "leaving"
      <4>1. Sink!Leave
        BY <3>1, <3>3 DEF Sink!Leave
      <4> QED BY <2>c, <3>1, <4>1 DEF Sink!Sink
    <3> QED BY <2>b, <3>1, <3>2, <3>3
  <2>2. CASE Wake \/ RecvTimeout
    <3>1. /\ UNCHANGED <<connected, shutdown, queue, alert, sent, lost, stranded>>
          /\ Phase = "running" /\ Phase' = "running"
      BY <2>2 DEF Wake, RecvTimeout, world, outcome, Phase
    <3> QED BY <2>b, <3>1
  <2>3. CASE RecvAlert
    <3>1. /\ queue # <<>> /\ alert' = <<Head(queue)>> /\ queue' = Tail(queue)
          /\ UNCHANGED <<connected, shutdown, sent, lost, stranded>> /\ pc = "receiving"
          /\ Phase = "running" /\ Phase' = "running"
      BY <2>3 DEF RecvAlert, world, outcome, Phase
    <3>2. alert = <<>>
      BY <2>a, <3>1, EmptySeq
    <3>3. alert' = Append(alert, Head(queue))
      BY <3>1, <3>2
    <3>4. Sink!Take
      BY <3>1, <3>3 DEF Sink!Take
    <3> QED BY <2>c, <3>1, <3>4 DEF Sink!Sink
  <2>4. CASE RecvDisconnected
    <3>1. /\ UNCHANGED <<connected, shutdown, queue, alert, sent, lost, stranded>>
          /\ ~connected /\ queue = <<>> /\ Phase = "running" /\ Phase' = "leaving"
      BY <2>4 DEF RecvDisconnected, world, outcome, Phase
    <3>2. Sink!Leave
      BY <3>1 DEF Sink!Leave
    <3> QED BY <2>c, <3>1, <3>2 DEF Sink!Sink
  <2>5. CASE SendOk \/ SendFails
    <3>1. /\ UNCHANGED <<connected, shutdown, queue, stranded>> /\ alert' = <<>> /\ pc = "sending"
          /\ Phase = "running" /\ Phase' = "running"
          /\ \/ sent' = sent \o alert /\ lost' = lost
             \/ sent' = sent /\ lost' = lost \cup Range(alert)
      BY <2>5 DEF SendOk, SendFails, world, Phase
    <3>2. Len(alert) = 1
      BY <2>a, <3>1
    <3>3. /\ alert # <<>>
          /\ 1 \in 0..Len(alert) /\ sent \o alert = sent \o SubSeq(alert, 1, 1)
          /\ {alert[i] : i \in (1 + 1)..Len(alert)} = {}
          /\ 0 \in 0..Len(alert) /\ sent = sent \o SubSeq(alert, 1, 0)
          /\ {alert[i] : i \in (0 + 1)..Len(alert)} = Range(alert)
      BY <2>a, <3>2, SendSettles
    <3>4. \E k \in 0..Len(alert) :
             /\ sent' = sent \o SubSeq(alert, 1, k)
             /\ lost' = lost \cup {alert[i] : i \in (k + 1)..Len(alert)}
      <4>1. CASE sent' = sent \o alert /\ lost' = lost
        <5>1. lost' = lost \cup {alert[i] : i \in (1 + 1)..Len(alert)}
          BY <3>3, <4>1
        <5> QED BY <3>3, <4>1, <5>1
      <4>2. CASE sent' = sent /\ lost' = lost \cup Range(alert)
        <5>1. lost' = lost \cup {alert[i] : i \in (0 + 1)..Len(alert)}
          BY <3>3, <4>2
        <5> QED BY <3>3, <4>2, <5>1
      <4> QED BY <3>1, <4>1, <4>2
    <3>5. Sink!Settle
      BY <3>1, <3>3, <3>4 DEF Sink!Settle
    <3> QED BY <2>c, <3>1, <3>5 DEF Sink!Sink
  <2>6. CASE EndTask
    <3>1. /\ UNCHANGED <<connected, shutdown, alert, sent, lost>> /\ pc = "leaving"
          /\ stranded' = Range(queue) /\ queue' = <<>>
          /\ Phase = "leaving" /\ Phase' = "stopped"
      BY <2>6 DEF EndTask, world, Phase
    <3>2. alert = <<>>
      BY <2>a, <3>1, EmptySeq
    <3>3. Sink!Stop
      BY <3>1, <3>2 DEF Sink!Stop, Range, Sink!Range
    <3> QED BY <2>c, <3>1, <3>3 DEF Sink!Sink
  <2>7. CASE Accept
    <3>1. /\ connected /\ UNCHANGED <<connected, shutdown, alert, sent, lost, stranded, Phase>>
          /\ Len(queue) < QueueCap /\ queue' = Append(queue, accepted + 1)
          /\ accepted < MaxAlerts /\ Phase # "stopped"
      BY <2>a, <2>7 DEF Accept, outcome, Phase, Labels
    <3>2. accepted + 1 \in 1..MaxAlerts
      BY <3>1, WazuhAssumption DEF IInv, Shape, WazuhAssumption
    <3>3. Sink!Accept(accepted + 1)
      BY <3>1 DEF Sink!Accept, Sink!Accepts
    <3> QED BY <3>1, <3>2, <3>3 DEF Sink!Next, Sink!Worker, Sink!inputs
  <2>8. CASE SendersGone \/ Shutdown \/ Tick \/ UNCHANGED vars
    <3>1. /\ UNCHANGED <<queue, alert, sent, lost, stranded, pc>>
          /\ connected' => connected
          /\ shutdown => shutdown'
      BY <2>8 DEF SendersGone, Shutdown, Tick, vars, world, outcome
    <3>2. Phase' = Phase
      BY <3>1 DEF Phase
    <3> QED BY <2>b, <3>1, <3>2
  <2> QED BY <2>1, <2>2, <2>3, <2>4, <2>5, <2>6, <2>7, <2>8 DEF Next, Task
<1> QED BY <1>1, <1>2, Initially, Step, PTL DEF Spec, Sink!Safety
=============================================================================
