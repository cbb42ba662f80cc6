----------------------------- MODULE WazuhSender -----------------------------
(***************************************************************************)
(* wazuh_enriched_syslog_sender_thread of infrastructure/senders/wazuh.rs: *)
(* the one task that takes formatted alerts from the bounded Wazuh queue   *)
(* and sends each in a UDP datagram of its own, behind a circuit breaker.  *)
(* The model starts when the task's socket is open; a task that cannot     *)
(* open it returns at once (WazuhGivesUp in PaloAltoRun).                  *)
(*                                                                         *)
(* Unlike the ELK sender's, this loop leaves at a shutdown without looking *)
(* at its queue.  Alerts are numbered in the order the queue accepted      *)
(* them; a sent alert is one the socket took.                              *)
(***************************************************************************)
EXTENDS CircuitBreaker, Sequences, SequencesExt

CONSTANTS
    QueueCap,       \* max_wazuh_queue_size
    MaxAlerts       \* bound: how many alerts the workers ever offer

ASSUME WazuhAssumption == QueueCap \in Nat \ {0} /\ MaxAlerts \in Nat

VARIABLES
    accepted,       \* number of alerts the queue has accepted
    queue,          \* wazuh_enriched_rx, oldest first
    connected,      \* some worker, or run, still holds a sender
    shutdown,       \* the shared shutdown flag
    pc,             \* where the task is
    alert,          \* the alert being sent, as a sequence of at most one
    breaker,        \* the "wazuh_enriched_sender" circuit breaker
    sent,           \* history: alerts the socket took, in order
    lost,           \* history: alerts whose send failed or timed out
    stranded        \* history: alerts still queued when the task ended

world == <<accepted, connected, shutdown>>
outcome == <<sent, lost, stranded>>
vars == <<world, queue, pc, alert, breaker, outcome>>

Labels == {"top", "sleeping", "receiving", "sending", "checking", "leaving", "done"}

Init ==
    /\ accepted = 0 /\ queue = <<>> /\ connected = TRUE /\ shutdown = FALSE
    /\ pc = "top" /\ alert = <<>> /\ breaker = NewBreaker
    /\ sent = <<>> /\ lost = {} /\ stranded = {}

-----------------------------------------------------------------------------
(* The loop.                                                               *)

\* Seeded fault: the loop ends with its senders, whatever is queued.
LoopTop_LeavesWhenAlone ==
    /\ pc = "top"
    /\ IF shutdown \/ ~connected
       THEN pc' = "leaving" /\ UNCHANGED breaker
       ELSE IF can_execute(breaker)
       THEN pc' = "receiving" /\ breaker' = after_can_execute(breaker)
       ELSE pc' = "sleeping" /\ UNCHANGED breaker
    /\ UNCHANGED <<world, queue, alert, outcome>>

LoopTop ==
    /\ pc = "top"
    /\ IF shutdown
       THEN pc' = "leaving" /\ UNCHANGED breaker
       ELSE IF can_execute(breaker)
       THEN pc' = "receiving" /\ breaker' = after_can_execute(breaker)
       ELSE pc' = "sleeping" /\ UNCHANGED breaker
    /\ UNCHANGED <<world, queue, alert, outcome>>

\* The second of sleep under an open breaker is over.
Wake ==
    /\ pc = "sleeping"
    /\ pc' = "top"
    /\ UNCHANGED <<world, queue, alert, breaker, outcome>>

RecvAlert ==
    /\ pc = "receiving"
    /\ queue # <<>>
    /\ alert' = <<Head(queue)>>
    /\ queue' = Tail(queue)
    /\ pc' = "sending"
    /\ UNCHANGED <<world, breaker, outcome>>

RecvTimeout ==
    /\ pc = "receiving"
    /\ queue = <<>>
    /\ connected
    /\ pc' = "checking"
    /\ UNCHANGED <<world, queue, alert, breaker, outcome>>

\* Seeded fault: a channel without senders is polled again like an empty one.
RecvDisconnected_Retries ==
    /\ pc = "receiving"
    /\ queue = <<>>
    /\ ~connected
    /\ pc' = "checking"
    /\ UNCHANGED <<world, queue, alert, breaker, outcome>>

RecvDisconnected ==
    /\ pc = "receiving"
    /\ queue = <<>>
    /\ ~connected
    /\ pc' = "leaving"
    /\ UNCHANGED <<world, queue, alert, breaker, outcome>>

CheckShutdown ==
    /\ pc = "checking"
    /\ pc' = IF shutdown THEN "leaving" ELSE "top"
    /\ UNCHANGED <<world, queue, alert, breaker, outcome>>

SendOk ==
    /\ pc = "sending"
    /\ sent' = sent \o alert
    /\ alert' = <<>>
    /\ breaker' = record_success(breaker)
    /\ pc' = "top"
    /\ UNCHANGED <<world, queue, lost, stranded>>

\* Seeded fault: an alert that was not sent is put back in the queue.
SendFails_Requeues ==
    /\ pc = "sending"
    /\ queue' = queue \o alert
    /\ alert' = <<>>
    /\ breaker' = record_failure(breaker)
    /\ pc' = "top"
    /\ UNCHANGED <<world, sent, lost, stranded>>

\* An error of the socket (a host name that does not resolve, an
\* unreachable network) or five seconds without an answer from it.
SendFails ==
    /\ pc = "sending"
    /\ lost' = lost \cup Range(alert)
    /\ alert' = <<>>
    /\ breaker' = record_failure(breaker)
    /\ pc' = "top"
    /\ UNCHANGED <<world, queue, sent, stranded>>

\* The receiver goes with the task, and what is queued goes with it.
EndTask ==
    /\ pc = "leaving"
    /\ pc' = "done"
    /\ stranded' = Range(queue)
    /\ queue' = <<>>
    /\ UNCHANGED <<world, alert, breaker, sent, lost>>

Task ==
    \/ LoopTop \/ Wake \/ RecvAlert \/ RecvTimeout \/ RecvDisconnected
    \/ CheckShutdown \/ SendOk \/ SendFails \/ EndTask

-----------------------------------------------------------------------------
(* The workers, the signal thread and the clock.                           *)

\* try_send by a worker; a full queue, or one whose receiver is gone, refuses.
Accept ==
    /\ connected
    /\ accepted < MaxAlerts
    /\ pc # "done"
    /\ Len(queue) < QueueCap
    /\ accepted' = accepted + 1
    /\ queue' = Append(queue, accepted')
    /\ UNCHANGED <<connected, shutdown, pc, alert, breaker, outcome>>

SendersGone ==
    /\ connected
    /\ connected' = FALSE
    /\ UNCHANGED <<accepted, shutdown, queue, pc, alert, breaker, outcome>>

Shutdown ==
    /\ ~shutdown
    /\ shutdown' = TRUE
    /\ UNCHANGED <<accepted, connected, queue, pc, alert, breaker, outcome>>

Tick ==
    /\ breaker' = Aged(breaker)
    /\ UNCHANGED <<world, queue, pc, alert, outcome>>

Next == Task \/ Accept \/ SendersGone \/ Shutdown \/ Tick

\* The task keeps running, a pending send ends, and time passes.
Spec == Init /\ [][Next]_vars /\ WF_vars(Task) /\ WF_vars(Tick)

-----------------------------------------------------------------------------
TypeOK ==
    /\ accepted \in 0..MaxAlerts
    /\ queue \in Seq(1..accepted) /\ Len(queue) <= QueueCap
    /\ {connected, shutdown} \subseteq BOOLEAN
    /\ pc \in Labels
    /\ alert \in Seq(1..accepted) /\ Len(alert) = IF pc = "sending" THEN 1 ELSE 0
    /\ breaker \in Breaker
    /\ sent \in Seq(1..accepted)
    /\ {lost, stranded} \subseteq SUBSET (1..accepted)

(***************************************************************************)
(* Every alert the queue accepted has one fate, and those that are sent    *)
(* are sent in order: none is sent twice or after a later one, through     *)
(* failed sends and an opening and closing breaker.                        *)
(***************************************************************************)
EachAlertOnce ==
    LET line == sent \o alert \o queue
    IN  /\ Range(line) \cup lost \cup stranded = 1..accepted
        /\ Range(line) \cap (lost \cup stranded) = {} /\ lost \cap stranded = {}
        /\ \A i, j \in DOMAIN line : i < j => line[i] < line[j]

(***************************************************************************)
(* The task ends once it is told to, or once nobody is left to feed it.    *)
(***************************************************************************)
Terminates == (shutdown \/ ~connected) ~> pc = "done"

(***************************************************************************)
(* The task is a best-effort sink that holds one alert at a time.          *)
(***************************************************************************)
Phase == CASE pc = "leaving" -> "leaving"
           [] pc = "done" -> "stopped"
           [] OTHER -> "running"

Sink == INSTANCE BestEffortSink
            WITH Events <- 1..MaxAlerts, held <- alert, received <- sent,
                 phase <- Phase

ImplementsSink == Sink!Spec
=============================================================================
