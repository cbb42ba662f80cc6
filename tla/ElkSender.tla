------------------------------ MODULE ElkSender ------------------------------
(***************************************************************************)
(* elk_sender_thread of infrastructure/senders.rs with flush_batch_to_elk  *)
(* and the connection pool it draws from: the one task that takes enriched *)
(* events from the bounded ELK queue, gathers them in a batch and writes   *)
(* the batch to Logstash over TCP, behind a circuit breaker.               *)
(*                                                                         *)
(* Around the task: the workers that fill the queue and go away, the       *)
(* shutdown flag set by the signal thread, a network that refuses          *)
(* connections, cuts writes and closes idle connections, and the clock.    *)
(* An action ends where the task awaits or reads something that others     *)
(* change; what lies between two such points touches only the task's own   *)
(* state and is one step.                                                  *)
(*                                                                         *)
(* Events are numbered in the order the queue accepted them.               *)
(***************************************************************************)
EXTENDS CircuitBreaker, Sequences, SequencesExt

CONSTANTS
    QueueCap,       \* capacity of the ELK channel
    BatchSize,      \* elk_batch_size
    FlushInterval,  \* elk_batch_flush_interval_secs, in clock units
    RetryBase,      \* initial and reset value of retry_delay (5 s)
    RetryMax,       \* upper limit of retry_delay (60 s)
    PoolSize,       \* CONNECTION_POOL_SIZE
    MaxEvents       \* bound: how many events the workers ever offer

ASSUME ElkAssumption ==
    /\ QueueCap \in Nat \ {0}
    /\ BatchSize \in Nat \ {0}
    /\ FlushInterval \in Nat \ {0}
    /\ RetryBase \in Nat \ {0}
    /\ RetryMax \in Nat
    /\ RetryBase <= RetryMax
    /\ PoolSize \in Nat \ {0}
    /\ MaxEvents \in Nat

VARIABLES
    accepted,       \* number of events the queue has accepted
    queue,          \* elk_rx, oldest first
    connected,      \* some worker still holds an elk_tx
    shutdown,       \* the shared shutdown flag
    pc,             \* where the task is
    flush,          \* which of the three call sites of flush_batch_to_elk
    batch,          \* batch_buffer
    breaker,        \* the "elk_sender" circuit breaker
    retryDelay,     \* retry_delay
    sleepLeft,      \* time left of the sleep under an open breaker
    sinceFlush,     \* last_batch_flush as an age, capped at FlushInterval
    idle,           \* idle pooled connections, each "live" or "stale"
    conn,           \* the connection checked out of the pool, or NoConn
    active,         \* the pool's active_count
    received,       \* history: events that reached Logstash, in order
    lost,           \* history: events of failed or cut or vanished writes
    stranded,       \* history: events still queued when the task ended
    faulty          \* history: the network has failed in some way

timing == <<breaker, retryDelay, sleepLeft, sinceFlush>>
task == <<pc, flush, batch, timing>>
pool == <<idle, conn, active>>
settled == <<received, lost, stranded>>
world == <<accepted, connected, shutdown>>
outside == <<world, pool, settled, faulty>>

vars == <<world, queue, task, pool, settled, faulty>>

NoConn == "none"
Health == {"live", "stale"}

Labels == {"top", "sleeping", "receiving", "flushing", "connecting",
           "writing", "checking", "finishing", "closing", "done"}

Init ==
    /\ accepted = 0 /\ queue = <<>> /\ connected = TRUE /\ shutdown = FALSE
    /\ pc = "top" /\ flush = "full" /\ batch = <<>>
    /\ breaker = NewBreaker /\ retryDelay = RetryBase /\ sleepLeft = 0
    /\ sinceFlush = 0
    /\ idle = <<>> /\ conn = NoConn /\ active = 0
    /\ received = <<>> /\ lost = {} /\ stranded = {} /\ faulty = FALSE

-----------------------------------------------------------------------------
(* The connection pool.  There is one task, so at most one checkout.       *)

decrement_saturating(c) == IF c > 0 THEN c - 1 ELSE c

CheckOut(c) ==
    /\ conn' = c
    /\ active' = increment_saturating(active)

\* get_connection, first half: an idle connection is reused as it is found.
ReuseIdle ==
    /\ CheckOut(Head(idle))
    /\ idle' = Tail(idle)

\* Seeded fault: the count is left to the branch that drops the connection.
return_connection_StaysActive(c) ==
    /\ idle' = IF Len(idle) < PoolSize THEN Append(idle, c) ELSE idle
    /\ conn' = NoConn
    /\ active' = IF Len(idle) < PoolSize THEN active ELSE decrement_saturating(active)

return_connection(c) ==
    /\ idle' = IF Len(idle) < PoolSize THEN Append(idle, c) ELSE idle
    /\ conn' = NoConn
    /\ active' = decrement_saturating(active)

\* A stream dropped after a failed write never reaches return_connection.
DropConnection ==
    /\ conn' = NoConn
    /\ UNCHANGED <<idle, active>>

-----------------------------------------------------------------------------
(* The main loop.                                                          *)

\* Seeded fault: the doubled delay is not capped.
Backoff_Uncapped(r) == 2 * r

Backoff(r) == IF 2 * r <= RetryMax THEN 2 * r ELSE RetryMax

IntervalElapsed == sinceFlush >= FlushInterval

\* The loop condition and, inside the loop, the breaker's answer.
LoopTop ==
    /\ pc = "top"
    /\ IF shutdown /\ queue = <<>>
       THEN /\ pc' = "finishing"
            /\ UNCHANGED <<breaker, sleepLeft>>
       ELSE IF can_execute(breaker)
       THEN /\ pc' = "receiving"
            /\ breaker' = after_can_execute(breaker)
            /\ UNCHANGED sleepLeft
       ELSE /\ pc' = "sleeping"
            /\ sleepLeft' = retryDelay
            /\ UNCHANGED breaker
    /\ UNCHANGED <<queue, flush, batch, retryDelay, sinceFlush, outside>>

Wake ==
    /\ pc = "sleeping"
    /\ sleepLeft = 0
    /\ pc' = "top"
    /\ UNCHANGED <<queue, flush, batch, timing, outside>>

\* recv_timeout returns an event: it joins the batch, which may be due.
RecvEvent ==
    /\ pc = "receiving"
    /\ queue # <<>>
    /\ batch' = Append(batch, Head(queue))
    /\ queue' = Tail(queue)
    /\ flush' = "full"
    /\ pc' = IF Len(batch') >= BatchSize \/ IntervalElapsed
             THEN "flushing" ELSE "top"
    /\ UNCHANGED <<timing, outside>>

\* Seeded fault: an incomplete batch is left for the next event to flush.
RecvTimeout_NeverFlushes ==
    /\ pc = "receiving"
    /\ queue = <<>>
    /\ connected
    /\ pc' = "checking"
    /\ UNCHANGED <<queue, flush, batch, timing, outside>>

\* recv_timeout gives up after a second without an event.
RecvTimeout ==
    /\ pc = "receiving"
    /\ queue = <<>>
    /\ connected
    /\ flush' = "partial"
    /\ pc' = IF batch # <<>> /\ IntervalElapsed THEN "flushing" ELSE "checking"
    /\ UNCHANGED <<queue, batch, timing, outside>>

\* Seeded fault: a disconnected queue is treated like an empty one.
RecvDisconnected_Continues ==
    /\ pc = "receiving"
    /\ queue = <<>>
    /\ ~connected
    /\ pc' = "checking"
    /\ UNCHANGED <<queue, flush, batch, timing, outside>>

\* recv_timeout reports that the queue is empty and its last sender is gone.
RecvDisconnected ==
    /\ pc = "receiving"
    /\ queue = <<>>
    /\ ~connected
    /\ pc' = "finishing"
    /\ UNCHANGED <<queue, flush, batch, timing, outside>>

\* The shutdown test that ends the timeout branch.
CheckShutdown ==
    /\ pc = "checking"
    /\ pc' = IF shutdown THEN "finishing" ELSE "top"
    /\ UNCHANGED <<queue, flush, batch, timing, outside>>

-----------------------------------------------------------------------------
(* flush_batch_to_elk and what each of its three callers does with the     *)
(* answer: the loop records it in the breaker, the final flush does not.   *)

FlushCalls == {"full", "partial", "final"}

AfterFlush == [full |-> "top", partial |-> "checking", final |-> "closing"]

FlushRecorded(ok, b) ==
    /\ breaker' = IF flush = "final" THEN b
                  ELSE IF ok THEN record_success(b) ELSE record_failure(b)
    /\ retryDelay' = IF flush # "full" THEN retryDelay
                     ELSE IF ok THEN RetryBase ELSE Backoff(retryDelay)
    /\ sinceFlush' = IF flush = "final" THEN sinceFlush ELSE 0
    /\ pc' = AfterFlush[flush]
    /\ UNCHANGED <<world, queue, flush, sleepLeft, stranded>>

\* Seeded fault: a batch that could not be sent is kept for another try.
FlushEnds_KeepsFailedBatch(ok, b) ==
    FlushRecorded(ok, b) /\ batch' = IF ok THEN <<>> ELSE batch

\* Seeded fault: only the branch for a full batch clears it.
FlushEnds_ClearsFullOnly(ok, b) ==
    FlushRecorded(ok, b) /\ batch' = IF flush = "full" THEN <<>> ELSE batch

\* The batch is cleared whether or not it was sent.
FlushEnds(ok, b) == FlushRecorded(ok, b) /\ batch' = <<>>

BatchEvents == Range(batch)

BeginFlush ==
    /\ pc = "flushing"
    /\ IF ~can_execute(breaker)
       THEN /\ FlushEnds(FALSE, breaker)
            /\ lost' = lost \cup BatchEvents
            /\ UNCHANGED <<pool, received>>
       ELSE /\ breaker' = after_can_execute(breaker)
            /\ IF idle # <<>>
               THEN ReuseIdle /\ pc' = "writing"
               ELSE pc' = "connecting" /\ UNCHANGED pool
            /\ UNCHANGED <<world, queue, flush, batch, retryDelay, sleepLeft,
                           sinceFlush, settled>>
    /\ UNCHANGED faulty

\* get_connection, second half: a fresh connection within five seconds ...
ConnectOk ==
    /\ pc = "connecting"
    /\ CheckOut("live")
    /\ pc' = "writing"
    /\ UNCHANGED <<world, queue, flush, batch, timing, idle, settled, faulty>>

\* ... or an error, which loses the batch.
ConnectFails ==
    /\ pc = "connecting"
    /\ FlushEnds(FALSE, breaker)
    /\ lost' = lost \cup BatchEvents
    /\ faulty' = TRUE
    /\ UNCHANGED <<pool, received>>

\* Logstash gets the events up to where it closed the connection, none of
\* them if it had closed it before.
ArrivesInPart ==
    \E k \in 0..(Len(batch) - 1) :
        /\ conn = "stale" => k = 0
        /\ received' = received \o SubSeq(batch, 1, k)
        /\ lost' = lost \cup {batch[i] : i \in (k + 1)..Len(batch)}

WriteOk ==
    /\ pc = "writing"
    /\ conn = "live"
    /\ return_connection(conn)
    /\ FlushEnds(TRUE, breaker)
    /\ received' = received \o batch
    /\ UNCHANGED <<lost, faulty>>

\* The kernel accepts a write on a connection that the peer has closed, or
\* closes before it has read everything: the task sees a success.
WriteVanishes ==
    /\ pc = "writing"
    /\ return_connection("stale")
    /\ FlushEnds(TRUE, breaker)
    /\ ArrivesInPart
    /\ faulty' = TRUE

\* write_all fails or takes more than ten seconds.
WriteFails ==
    /\ pc = "writing"
    /\ DropConnection
    /\ FlushEnds(FALSE, breaker)
    /\ ArrivesInPart
    /\ faulty' = TRUE

\* Seeded fault: the batch in hand is not flushed on the way out.
Finish_ForgetsBatch ==
    /\ pc = "finishing"
    /\ flush' = "final"
    /\ pc' = "closing"
    /\ UNCHANGED <<queue, batch, timing, outside>>

\* After the loop: the rest of the batch gets one last flush.
Finish ==
    /\ pc = "finishing"
    /\ flush' = "final"
    /\ pc' = IF batch = <<>> THEN "closing" ELSE "flushing"
    /\ UNCHANGED <<queue, batch, timing, outside>>

\* The task ends and drops elk_rx with whatever is still queued.
EndTask ==
    /\ pc = "closing"
    /\ pc' = "done"
    /\ stranded' = Range(queue)
    /\ queue' = <<>>
    /\ UNCHANGED <<world, flush, batch, timing, pool, received, lost, faulty>>

-----------------------------------------------------------------------------
(* The world around the task.                                              *)

\* A worker's try_send finds room.  (One that does not leaves no trace here.)
Accept ==
    /\ connected
    /\ pc # "done"
    /\ accepted < MaxEvents
    /\ Len(queue) < QueueCap
    /\ accepted' = accepted + 1
    /\ queue' = Append(queue, accepted')
    /\ UNCHANGED <<connected, shutdown, task, pool, settled, faulty>>

\* The last worker is gone and run drops its elk_tx.
WorkersGone ==
    /\ connected
    /\ connected' = FALSE
    /\ UNCHANGED <<accepted, shutdown, queue, task, pool, settled, faulty>>

Shutdown ==
    /\ ~shutdown
    /\ shutdown' = TRUE
    /\ UNCHANGED <<accepted, connected, queue, task, pool, settled, faulty>>

\* Logstash closes its side of a connection the task does not look at.
PeerCloses ==
    /\ \/ /\ \E i \in DOMAIN idle : idle[i] = "live" /\ idle' = [idle EXCEPT ![i] = "stale"]
          /\ UNCHANGED conn
       \/ /\ conn = "live"
          /\ conn' = "stale"
          /\ UNCHANGED idle
    /\ faulty' = TRUE
    /\ UNCHANGED <<world, queue, task, active, settled>>

Tick ==
    /\ breaker' = Aged(breaker)
    /\ sinceFlush' = IF IntervalElapsed THEN sinceFlush ELSE sinceFlush + 1
    /\ sleepLeft' = IF sleepLeft = 0 THEN 0 ELSE sleepLeft - 1
    /\ UNCHANGED <<world, queue, pc, flush, batch, retryDelay, pool, settled,
                   faulty>>

Task ==
    \/ LoopTop \/ Wake \/ RecvEvent \/ RecvTimeout \/ RecvDisconnected
    \/ CheckShutdown \/ BeginFlush \/ ConnectOk \/ ConnectFails
    \/ WriteOk \/ WriteVanishes \/ WriteFails \/ Finish \/ EndTask

Next == Task \/ Accept \/ WorkersGone \/ Shutdown \/ PeerCloses \/ Tick

\* The runtime polls the task until it returns, every await in it has a
\* timeout, and time passes.  Nothing is assumed of the workers or the network.
Spec == Init /\ [][Next]_vars /\ WF_vars(Task) /\ WF_vars(Tick)

-----------------------------------------------------------------------------
FlagsOK == {connected, shutdown, faulty} \subseteq BOOLEAN

QueueOK ==
    /\ accepted \in 0..MaxEvents
    /\ queue \in Seq(1..MaxEvents) /\ Len(queue) <= QueueCap

TaskOK ==
    /\ pc \in Labels
    /\ flush \in FlushCalls
    /\ batch \in Seq(1..MaxEvents) /\ Len(batch) <= BatchSize
    /\ breaker \in Breaker
    /\ retryDelay \in RetryBase..RetryMax
    /\ sleepLeft \in 0..RetryMax
    /\ sinceFlush \in 0..FlushInterval

PoolOK ==
    /\ idle \in Seq(Health) /\ Len(idle) <= PoolSize
    /\ conn \in Health \cup {NoConn}
    /\ active \in 0..CountMax

SettledOK ==
    /\ received \in Seq(1..MaxEvents)
    /\ lost \subseteq 1..MaxEvents
    /\ stranded \subseteq 1..MaxEvents

TypeOK == FlagsOK /\ QueueOK /\ TaskOK /\ PoolOK /\ SettledOK

(***************************************************************************)
(* Every accepted event is in exactly one place: queued or in the batch,   *)
(* received, lost or stranded.  A batch cleared too early leaves an event  *)
(* nowhere, one kept after a flush or flushed twice leaves it in two       *)
(* places.  (InOrder excludes two copies along the line itself.)           *)
(***************************************************************************)
EachEventOnce ==
    LET line == Range(received) \cup Range(batch) \cup Range(queue)
    IN  /\ line \cup lost \cup stranded = 1..accepted
        /\ line \cap lost = {}
        /\ line \cap stranded = {}
        /\ lost \cap stranded = {}

(***************************************************************************)
(* Logstash never sees an event before one that the queue accepted         *)
(* earlier, through failed batches, cut writes, reconnections and the      *)
(* final flush.                                                            *)
(***************************************************************************)
InOrder ==
    LET line == received \o batch \o queue
    IN  \A i, j \in DOMAIN line : i < j => line[i] < line[j]

(***************************************************************************)
(* The breaker never stands between a batch and Logstash: while it is Open *)
(* the batch is empty.  Otherwise flush_batch_to_elk would refuse a batch  *)
(* ("Circuit breaker is open") that its caller then throws away, and the   *)
(* final flush at shutdown would lose the rest without trying.             *)
(***************************************************************************)
OpenHoldsNothing == breaker.state = "Open" => batch = <<>>

(***************************************************************************)
(* The one task never needs two connections: the pool holds none while one *)
(* is checked out, and one otherwise at most, so the branch that drops an  *)
(* excess connection is dead however large PoolSize is.  The pool's count  *)
(* of active connections never misses the one that is checked out, and is  *)
(* exact until the network fails: a connection is counted without being    *)
(* there only after a write that dropped it (get_connection,               *)
(* return_connection, flush_batch_to_elk).                                 *)
(***************************************************************************)
OneConnection ==
    LET used == IF conn = NoConn THEN 0 ELSE 1
    IN  /\ Len(idle) + used <= 1
        /\ used <= active
        /\ ~faulty => active = used

(***************************************************************************)
(* Events are lost for a reason only: taken events when the network has    *)
(* failed, queued events when a shutdown ended the task before they were   *)
(* taken.  When the workers simply go away (end of a stdin capture) the    *)
(* task drains the queue and flushes the last batch before it ends.        *)
(***************************************************************************)
LossHasCause ==
    /\ lost # {} => faulty
    /\ stranded # {} => shutdown
    /\ pc = "done" => batch = <<>>

(***************************************************************************)
(* Once the workers are gone or a shutdown is requested the task ends,     *)
(* whatever the network does: an open breaker, a growing retry delay or a  *)
(* backlog cannot keep run waiting for it.                                 *)
(***************************************************************************)
Terminates == (shutdown \/ ~connected) ~> pc = "done"

(***************************************************************************)
(* The task is a best-effort sink: it settles every event it takes, once,  *)
(* in order, neither the breaker nor the flush interval holds one forever, *)
(* and it leaves only for the reasons a sink may leave.                    *)
(***************************************************************************)
Leaving == flush = "final" \/ pc \in {"finishing", "closing"}

Phase == IF pc = "done" THEN "stopped" ELSE IF Leaving THEN "leaving" ELSE "running"

Sink == INSTANCE BestEffortSink
            WITH Events <- 1..MaxEvents, held <- batch, phase <- Phase

ImplementsSink == Sink!Spec
=============================================================================
