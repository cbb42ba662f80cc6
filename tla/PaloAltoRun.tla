----------------------------- MODULE PaloAltoRun -----------------------------
(***************************************************************************)
(* interface/palo_alto.rs run with the receiver and the enrichment workers *)
(* of application/palo_alto_workers.rs: one receiver task fills the        *)
(* bounded raw queue, worker threads parse and enrich what they take from  *)
(* it and feed the ELK and the Wazuh queue, and run waits for all of them  *)
(* in a fixed order, dropping its end of each channel on the way.          *)
(*                                                                         *)
(* The two senders are best-effort sinks here (ElkSender and WazuhSender   *)
(* show that they are).  Behavioural state and its merger are modelled     *)
(* elsewhere: a worker's report to the merger never blocks and reads       *)
(* nothing, so only the merger thread's end is kept.                       *)
(* A run whose result is an error is at "failed".                          *)
(*                                                                         *)
(* A message is known by its place in the order of arrival; which ones do  *)
(* not parse and which carry something to enrich is fixed by constants.    *)
(***************************************************************************)
EXTENDS Integers, Sequences, SequencesExt, FiniteSets

CONSTANTS
    Workers,        \* the enrichment worker threads
    MaxMessages,    \* bound: datagrams that ever arrive
    Unparsable,     \* messages the parser rejects
    Notable,        \* messages with an indicator or an anomaly to report
    RawCap,         \* max_receiver_queue_size, the raw queue's capacity
    MonitorCap,     \* MAX_RECEIVER_QUEUE_SIZE, the capacity the monitor is told
    ElkCap,         \* max_enrichment_queue_size
    WazuhCap,       \* max_wazuh_queue_size
    FeedsEnabled    \* enable_threat_intel_feeds

Messages == 1..MaxMessages

ASSUME RunAssumption ==
    /\ IsFiniteSet(Workers) /\ Workers # {}
    /\ MaxMessages \in Nat
    /\ Unparsable \subseteq Messages
    /\ Notable \subseteq Messages
    /\ {RawCap, MonitorCap, ElkCap, WazuhCap} \subseteq Nat \ {0}
    /\ FeedsEnabled \in BOOLEAN

VARIABLES
    shutdown,       \* the shared shutdown flag
    main,           \* what run is waiting for
    receiver,       \* the receiver task
    arrived,        \* datagrams read from the socket so far
    rawQueue,       \* raw_log_rx, oldest first
    highLoad,       \* QUEUE_MONITOR's flag
    worker,         \* where each worker is
    item,           \* the message a worker works on
    skip,           \* should_skip_enrichment, read before the message is processed
    updater,        \* the threat intelligence updater: running or not
    merger,         \* the state merger thread: running or not
    dropped,        \* history: why messages went no further
    enriched,       \* history: messages that were tagged
    elkQueue, elkHeld, elkReceived, elkLost, elkStranded, elkPhase,
    wazuhQueue, wazuhHeld, wazuhReceived, wazuhLost, wazuhStranded, wazuhPhase,
    wazuhSocket     \* the Wazuh sender's socket: opening, open or failed

elkVars == <<elkQueue, elkHeld, elkReceived, elkLost, elkStranded, elkPhase>>
wazuhVars == <<wazuhQueue, wazuhHeld, wazuhReceived, wazuhLost, wazuhStranded,
               wazuhPhase>>
sinks == <<elkVars, wazuhVars, wazuhSocket>>
helpers == <<updater, merger>>
intake == <<receiver, arrived>>
crew == <<worker, item, skip>>
past == <<dropped, enriched>>
vars == <<shutdown, main, intake, rawQueue, highLoad, crew, helpers, past, sinks>>

\* Seeded fault: run drops its end of the raw queue after joining the workers.
RawConnected_DroppedLate == main \in {"receiver", "workers"}

\* run holds a sender of each channel until it has joined those before it.
RawConnected == main = "receiver"
ElkConnected == main \in {"receiver", "workers"}
WazuhConnected == main \in {"receiver", "workers", "elk"}
MergerConnected == main \notin {"merger", "done", "failed"}

Elk == INSTANCE BestEffortSink
          WITH Events <- Messages, QueueCap <- ElkCap,
               connected <- ElkConnected, queue <- elkQueue, held <- elkHeld,
               received <- elkReceived, lost <- elkLost,
               stranded <- elkStranded, phase <- elkPhase

Wazuh == INSTANCE BestEffortSink
            WITH Events <- Messages, QueueCap <- WazuhCap,
                 connected <- WazuhConnected, queue <- wazuhQueue,
                 held <- wazuhHeld, received <- wazuhReceived,
                 lost <- wazuhLost, stranded <- wazuhStranded,
                 phase <- wazuhPhase

Causes == {"raw_full", "unparsed", "elk_full", "elk_gone"}
NoItem == 0

Init ==
    /\ shutdown = FALSE /\ main = "receiver"
    /\ receiver = "binding" /\ arrived = 0
    /\ rawQueue = <<>> /\ highLoad = FALSE
    /\ worker = [w \in Workers |-> "loop"]
    /\ item = [w \in Workers |-> NoItem]
    /\ skip = [w \in Workers |-> FALSE]
    /\ updater = IF FeedsEnabled THEN "running" ELSE "done"
    /\ merger = "running"
    /\ dropped = [c \in Causes |-> {}]
    /\ enriched = {}
    /\ Elk!SinkInit /\ Wazuh!SinkInit
    /\ wazuhSocket = "opening"

Drop(m, cause) == dropped' = [dropped EXCEPT ![cause] = @ \cup {m}]

-----------------------------------------------------------------------------
(* The receiver task.                                                      *)

\* An error ends the task before it has received anything; run only logs it.
Bind ==
    /\ receiver = "binding"
    /\ receiver' \in {"loop", "done"}
    /\ UNCHANGED <<shutdown, main, arrived, rawQueue, highLoad, crew, helpers,
                   past, sinks>>

ReceiverLoop ==
    /\ receiver = "loop"
    /\ receiver' = IF shutdown THEN "done" ELSE "waiting"
    /\ UNCHANGED <<shutdown, main, arrived, rawQueue, highLoad, crew, helpers,
                   past, sinks>>

\* The flag follows the length the queue had before the message is enqueued.
check_queue_health == highLoad' = (5 * Len(rawQueue) >= 4 * MonitorCap)

Receive ==
    /\ receiver = "waiting"
    /\ arrived < MaxMessages
    /\ arrived' = arrived + 1
    /\ check_queue_health
    /\ receiver' = "enqueueing"
    /\ UNCHANGED <<shutdown, main, rawQueue, crew, helpers, past, sinks>>

EnqueueLog ==
    /\ receiver = "enqueueing"
    /\ IF Len(rawQueue) < RawCap
       THEN rawQueue' = Append(rawQueue, arrived) /\ UNCHANGED dropped
       ELSE Drop(arrived, "raw_full") /\ UNCHANGED rawQueue
    /\ receiver' = "loop"
    /\ UNCHANGED <<shutdown, main, arrived, highLoad, crew, helpers, enriched, sinks>>

\* Seeded fault: the wait for a datagram has no timeout.
ReceiveNothing_NeedsTraffic ==
    /\ receiver = "waiting"
    /\ arrived < MaxMessages
    /\ receiver' = "loop"
    /\ UNCHANGED <<shutdown, main, arrived, rawQueue, highLoad, crew, helpers,
                   past, sinks>>

\* A second without a datagram, or an error from the socket.
ReceiveNothing ==
    /\ receiver = "waiting"
    /\ receiver' = "loop"
    /\ UNCHANGED <<shutdown, main, arrived, rawQueue, highLoad, crew, helpers,
                   past, sinks>>

-----------------------------------------------------------------------------
(* The enrichment workers.                                                 *)

Goto(w, label) == worker' = [worker EXCEPT ![w] = label]

\* Seeded fault: at a shutdown a worker empties the raw queue first.
WorkerLoop_DrainsFirst(w) ==
    /\ worker[w] = "loop"
    /\ Goto(w, IF shutdown /\ rawQueue = <<>> THEN "exiting" ELSE "waiting")
    /\ UNCHANGED <<shutdown, main, intake, rawQueue, highLoad, item, skip,
                   helpers, past, sinks>>

WorkerLoop(w) ==
    /\ worker[w] = "loop"
    /\ Goto(w, IF shutdown THEN "exiting" ELSE "waiting")
    /\ UNCHANGED <<shutdown, main, intake, rawQueue, highLoad, item, skip,
                   helpers, past, sinks>>

TakeLog(w) ==
    /\ worker[w] = "waiting"
    /\ rawQueue # <<>>
    /\ item' = [item EXCEPT ![w] = Head(rawQueue)]
    /\ rawQueue' = Tail(rawQueue)
    /\ Goto(w, "taken")
    /\ UNCHANGED <<shutdown, main, intake, highLoad, skip, helpers, past, sinks>>

\* Seeded fault: a worker takes a second of silence for the end of the input.
TakeNothing_Quits(w) ==
    /\ worker[w] = "waiting"
    /\ rawQueue = <<>>
    /\ Goto(w, "exiting")
    /\ UNCHANGED <<shutdown, main, intake, rawQueue, highLoad, item, skip,
                   helpers, past, sinks>>

\* recv_timeout gives up on an empty queue, or finds it disconnected.
TakeNothing(w) ==
    /\ worker[w] = "waiting"
    /\ rawQueue = <<>>
    /\ Goto(w, IF RawConnected THEN "loop" ELSE "exiting")
    /\ UNCHANGED <<shutdown, main, intake, rawQueue, highLoad, item, skip,
                   helpers, past, sinks>>

\* Seeded fault: a worker that took a message looks at the shutdown flag first.
ReadLoad_QuitsOnShutdown(w) ==
    /\ worker[w] = "taken"
    /\ skip' = [skip EXCEPT ![w] = highLoad]
    /\ item' = IF shutdown THEN [item EXCEPT ![w] = NoItem] ELSE item
    /\ Goto(w, IF shutdown THEN "exiting" ELSE "processing")
    /\ UNCHANGED <<shutdown, main, intake, rawQueue, highLoad, helpers, past,
                   sinks>>

\* is_high_load is read after the message was taken, perhaps long after.
ReadLoad(w) ==
    /\ worker[w] = "taken"
    /\ skip' = [skip EXCEPT ![w] = highLoad]
    /\ Goto(w, "processing")
    /\ UNCHANGED <<shutdown, main, intake, rawQueue, highLoad, item, helpers,
                   past, sinks>>

\* process_palo_alto_log_item, up to its ELK send.
RejectLog(w) ==
    /\ worker[w] = "processing"
    /\ item[w] \in Unparsable
    /\ Drop(item[w], "unparsed")
    /\ item' = [item EXCEPT ![w] = NoItem]
    /\ Goto(w, "loop")
    /\ UNCHANGED <<shutdown, main, intake, rawQueue, highLoad, skip, helpers,
                   enriched, sinks>>

\* Seeded fault: every parsed message goes to Wazuh as well.
EnrichLog_AllToWazuh(w) ==
    /\ worker[w] = "processing"
    /\ item[w] \notin Unparsable
    /\ enriched' = IF item[w] \in Notable /\ ~skip[w]
                   THEN enriched \cup {item[w]} ELSE enriched
    /\ IF Wazuh!Accepts THEN Wazuh!Accept(item[w]) ELSE UNCHANGED wazuhVars
    /\ Goto(w, "sending")
    /\ UNCHANGED <<shutdown, main, intake, rawQueue, highLoad, item, skip,
                   helpers, dropped, elkVars, wazuhSocket>>

EnrichLog(w) ==
    LET tagged == item[w] \in Notable /\ ~skip[w]
    IN  /\ worker[w] = "processing"
        /\ item[w] \notin Unparsable
        /\ enriched' = IF tagged THEN enriched \cup {item[w]} ELSE enriched
        /\ IF tagged /\ Wazuh!Accepts THEN Wazuh!Accept(item[w])
           ELSE UNCHANGED wazuhVars
        /\ Goto(w, "sending")
        /\ UNCHANGED <<shutdown, main, intake, rawQueue, highLoad, item, skip,
                       helpers, dropped, elkVars, wazuhSocket>>

SendElk(w) ==
    /\ worker[w] = "sending"
    /\ IF Elk!Accepts
       THEN Elk!Accept(item[w]) /\ UNCHANGED dropped
       ELSE /\ Drop(item[w], IF elkPhase = "stopped" THEN "elk_gone" ELSE "elk_full")
            /\ UNCHANGED elkVars
    /\ item' = [item EXCEPT ![w] = NoItem]
    /\ Goto(w, "loop")
    /\ UNCHANGED <<shutdown, main, intake, rawQueue, highLoad, skip, helpers,
                   enriched, wazuhVars, wazuhSocket>>

\* The final report to the merger, whose failure is only logged.
WorkerExit(w) ==
    /\ worker[w] = "exiting"
    /\ Goto(w, "done")
    /\ UNCHANGED <<shutdown, main, intake, rawQueue, highLoad, item, skip,
                   helpers, past, sinks>>

WorkerStep(w) ==
    \/ WorkerLoop(w) \/ TakeLog(w) \/ TakeNothing(w) \/ ReadLoad(w)
    \/ RejectLog(w) \/ EnrichLog(w) \/ SendElk(w) \/ WorkerExit(w)

-----------------------------------------------------------------------------
(* The senders, the two helpers and the signal thread.                     *)

beforeSinks == <<shutdown, main, intake, rawQueue, highLoad, crew, helpers, past>>

ElkTakes == Elk!Take /\ UNCHANGED <<beforeSinks, wazuhVars, wazuhSocket>>
ElkSettles == Elk!Settle /\ UNCHANGED <<beforeSinks, wazuhVars, wazuhSocket>>
ElkLeaves == Elk!Leave /\ UNCHANGED <<beforeSinks, wazuhVars, wazuhSocket>>
ElkStops == Elk!Stop /\ UNCHANGED <<beforeSinks, wazuhVars, wazuhSocket>>

WazuhOpens ==
    /\ wazuhSocket = "opening"
    /\ wazuhSocket' = "open"
    /\ UNCHANGED <<beforeSinks, elkVars, wazuhVars>>

\* A sender that cannot open its socket leaves at once with an error, and
\* its end of the channel with it.
WazuhGivesUp ==
    /\ wazuhSocket = "opening"
    /\ wazuhSocket' = "failed"
    /\ wazuhPhase' = "stopped"
    /\ wazuhStranded' = Range(wazuhQueue)
    /\ wazuhQueue' = <<>>
    /\ UNCHANGED <<beforeSinks, elkVars, wazuhHeld, wazuhReceived, wazuhLost>>

WazuhActs(A) ==
    wazuhSocket = "open" /\ A /\ UNCHANGED <<beforeSinks, elkVars, wazuhSocket>>

WazuhTakes == WazuhActs(Wazuh!Take)
WazuhSettles == WazuhActs(Wazuh!Settle)
WazuhLeaves == WazuhActs(Wazuh!Leave)
WazuhStops == WazuhActs(Wazuh!Stop)

UpdaterEnds ==
    /\ updater = "running"
    /\ shutdown
    /\ updater' = "done"
    /\ UNCHANGED <<shutdown, main, intake, rawQueue, highLoad, crew, merger,
                   past, sinks>>

MergerEnds ==
    /\ merger = "running"
    /\ shutdown \/ ~MergerConnected
    /\ merger' = "done"
    /\ UNCHANGED <<shutdown, main, intake, rawQueue, highLoad, crew, updater,
                   past, sinks>>

\* Only the first SIGINT or SIGTERM is handled, and it is enough.
Signal ==
    /\ ~shutdown
    /\ shutdown' = TRUE
    /\ UNCHANGED <<main, intake, rawQueue, highLoad, crew, helpers, past, sinks>>

-----------------------------------------------------------------------------
(* run: one join after another.                                            *)

Joined(stage, over, next) ==
    /\ main = stage
    /\ over
    /\ main' = next
    /\ UNCHANGED <<shutdown, intake, rawQueue, highLoad, crew, helpers, past, sinks>>

JoinReceiver == Joined("receiver", receiver = "done", "workers")

JoinWorkers == Joined("workers", \A w \in Workers : worker[w] = "done", "elk")

JoinElk == Joined("elk", elkPhase = "stopped", "wazuh")

\* The error of a sender that never started is the result of run.
JoinWazuh == Joined("wazuh", wazuhPhase = "stopped",
                    IF wazuhSocket = "failed" THEN "failed" ELSE "updater")

JoinUpdater == Joined("updater", updater = "done", "merger")

JoinMerger == Joined("merger", merger = "done", "done")

Main == JoinReceiver \/ JoinWorkers \/ JoinElk \/ JoinWazuh \/ JoinUpdater \/ JoinMerger

Receiver == Bind \/ ReceiverLoop \/ Receive \/ EnqueueLog \/ ReceiveNothing

Senders ==
    \/ ElkTakes \/ ElkSettles \/ ElkLeaves \/ ElkStops
    \/ WazuhOpens \/ WazuhGivesUp \/ WazuhTakes \/ WazuhSettles \/ WazuhLeaves \/ WazuhStops

Next ==
    \/ Receiver
    \/ \E w \in Workers : WorkerStep(w)
    \/ Senders \/ UpdaterEnds \/ MergerEnds \/ Signal \/ Main

\* Every thread and task keeps running; each wait in them has a timeout.  Of
\* the senders only what BestEffortSink promises is assumed.
Fairness ==
    /\ WF_vars(Receiver)
    /\ \A w \in Workers : WF_vars(WorkerStep(w))
    /\ WF_vars(ElkTakes) /\ WF_vars(ElkSettles) /\ WF_vars(ElkStops)
    /\ WF_vars(~ElkConnected /\ ElkLeaves)
    /\ WF_vars(WazuhOpens \/ WazuhGivesUp)
    /\ WF_vars(WazuhTakes) /\ WF_vars(WazuhSettles) /\ WF_vars(WazuhStops)
    /\ WF_vars(~WazuhConnected /\ WazuhLeaves)
    /\ WF_vars(UpdaterEnds) /\ WF_vars(MergerEnds) /\ WF_vars(Main)

Spec == Init /\ [][Next]_vars /\ Fairness

-----------------------------------------------------------------------------
Stages == {"receiver", "workers", "elk", "wazuh", "updater", "merger", "done",
           "failed"}

ThreadsOK ==
    /\ shutdown \in BOOLEAN
    /\ main \in Stages
    /\ receiver \in {"binding", "loop", "waiting", "enqueueing", "done"}
    /\ updater \in {"running", "done"} /\ merger \in {"running", "done"}

CrewOK ==
    /\ worker \in [Workers -> {"loop", "waiting", "taken", "processing",
                               "sending", "exiting", "done"}]
    /\ item \in [Workers -> Messages \cup {NoItem}]
    /\ skip \in [Workers -> BOOLEAN]

IntakeOK ==
    /\ arrived \in 0..MaxMessages
    /\ rawQueue \in Seq(Messages) /\ Len(rawQueue) <= RawCap
    /\ highLoad \in BOOLEAN
    /\ dropped \in [Causes -> SUBSET Messages]
    /\ enriched \subseteq Messages

ElkOK ==
    /\ elkQueue \in Seq(Messages) /\ Len(elkQueue) <= ElkCap
    /\ elkHeld \in Seq(Messages) /\ elkReceived \in Seq(Messages)
    /\ elkLost \subseteq Messages /\ elkStranded \subseteq Messages
    /\ elkPhase \in {"running", "leaving", "stopped"}

WazuhOK ==
    /\ wazuhQueue \in Seq(Messages) /\ Len(wazuhQueue) <= WazuhCap
    /\ wazuhHeld \in Seq(Messages) /\ wazuhReceived \in Seq(Messages)
    /\ wazuhLost \subseteq Messages /\ wazuhStranded \subseteq Messages
    /\ wazuhPhase \in {"running", "leaving", "stopped"}
    /\ wazuhSocket \in {"opening", "open", "failed"}

TypeOK == ThreadsOK /\ CrewOK /\ IntakeOK /\ ElkOK /\ WazuhOK

BeingEnqueued == IF receiver = "enqueueing" THEN {arrived} ELSE {}
InHand == {item[w] : w \in Workers} \ {NoItem}
OnElkSide == Range(elkQueue) \cup Range(elkHeld) \cup Range(elkReceived)
               \cup elkLost \cup elkStranded
OnWazuhSide == Range(wazuhQueue) \cup Range(wazuhHeld) \cup Range(wazuhReceived)
                 \cup wazuhLost \cup wazuhStranded
DroppedAnyhow == UNION {dropped[c] : c \in Causes}

(***************************************************************************)
(* Every datagram that arrived is in one place on its way to ELK: about to *)
(* be enqueued, in the raw queue, in the hands of one worker, with the ELK *)
(* sender, or dropped.  Two workers never process the same message.        *)
(***************************************************************************)
EachMessageOnce ==
    /\ BeingEnqueued \cup Range(rawQueue) \cup InHand \cup OnElkSide
          \cup DroppedAnyhow = 1..arrived
    /\ BeingEnqueued \cap (Range(rawQueue) \cup InHand \cup OnElkSide
                              \cup DroppedAnyhow) = {}
    /\ Range(rawQueue) \cap (InHand \cup OnElkSide \cup DroppedAnyhow) = {}
    /\ InHand \cap (OnElkSide \cup DroppedAnyhow) = {}
    /\ OnElkSide \cap DroppedAnyhow = {}
    /\ \A v, w \in Workers : v # w /\ item[v] = item[w] => item[v] = NoItem

(***************************************************************************)
(* Wazuh is sent only what was enriched, and only what ELK was offered or  *)
(* is about to be: a worker that skipped enrichment, because of the load   *)
(* it read, alerts nobody.                                                 *)
(***************************************************************************)
WazuhOnlyEnriched ==
    /\ OnWazuhSide \subseteq enriched
    /\ enriched \subseteq Notable
    /\ OnWazuhSide \subseteq InHand \cup OnElkSide
                              \cup dropped["elk_full"] \cup dropped["elk_gone"]

(***************************************************************************)
(* A signal may stop the ELK sender while workers are still at it.  Each   *)
(* of them loses the message it has, or the one it is about to get, to the *)
(* closed channel and no other: those lost and the workers that may still  *)
(* lose one are never more than there are workers.                         *)
(***************************************************************************)
StillAtWork == {w \in Workers : worker[w] \in {"waiting", "taken", "processing", "sending"}}

OneLostPerWorker ==
    elkPhase = "stopped" =>
        Cardinality(dropped["elk_gone"]) + Cardinality(StillAtWork) <= Cardinality(Workers)

(***************************************************************************)
(* A signal ends the program: the joins of run wait on nothing that waits  *)
(* on run.                                                                 *)
(***************************************************************************)
EndsOnSignal == shutdown ~> main \in {"done", "failed"}

(***************************************************************************)
(* A receiver that has ended, the one that could not bind included, takes  *)
(* the pipeline with it without any signal: each channel is closed in time *)
(* for the threads behind it to see its end, and run comes to the updater, *)
(* which is the first it waits for that ends by a signal only.             *)
(***************************************************************************)
PipelineFollowsReceiver ==
    receiver = "done" ~> main \in {"updater", "merger", "done", "failed"}

(***************************************************************************)
(* An enqueued message does not stay in the raw queue while the program is *)
(* up, however the workers interleave.                                     *)
(***************************************************************************)
QueueMoves ==
    \A m \in Messages : m \in Range(rawQueue) ~> (m \notin Range(rawQueue) \/ shutdown)
=============================================================================
