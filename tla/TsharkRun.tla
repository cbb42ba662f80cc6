------------------------------ MODULE TsharkRun ------------------------------
(***************************************************************************)
(* interface/tshark.rs run with the stdin receiver and the enrichment      *)
(* workers of application/tshark_workers.rs: packets come line by line     *)
(* from a tshark process, and enriched events go to the ELK sender or, in  *)
(* stdout mode, to a writer of run's own.                                  *)
(*                                                                         *)
(* It differs from the Palo Alto run where it matters: the input can end,  *)
(* run waits for the threat intelligence before it starts anything, and in *)
(* stdout mode run keeps a receiver of the output queue for itself, so the *)
(* queue outlives its reader.                                              *)
(*                                                                         *)
(* The ELK sender is a best-effort sink, as ElkSender shows; of the        *)
(* updater, its loop is kept (ThreatIntelFeeds has the rest).  Lines are   *)
(* numbered in the order they are read.                                    *)
(***************************************************************************)
EXTENDS Integers, Sequences, SequencesExt, FiniteSets

CONSTANTS
    Workers,
    MaxLines,       \* bound: lines that ever arrive
    Skipped,        \* index lines, lines that do not parse, packets without IP
    ParsedCap,      \* max_receiver_queue_size
    MonitorCap,     \* MAX_RECEIVER_QUEUE_SIZE
    OutCap,         \* max_enrichment_queue_size
    Modes           \* how the program may be started

Lines == 1..MaxLines

ASSUME TsharkAssumption ==
    /\ IsFiniteSet(Workers) /\ Workers # {}
    /\ MaxLines \in Nat /\ Skipped \subseteq Lines
    /\ {ParsedCap, MonitorCap, OutCap} \subseteq Nat \ {0}
    /\ Modes # {} /\ Modes \subseteq [feeds : BOOLEAN, stdout : BOOLEAN]

VARIABLES
    mode,           \* enable_threat_intel_feeds and --stdout, fixed at the start
    shutdown,
    main,           \* what run is doing or waiting for
    ready,          \* intel_ready
    updater,        \* "top", "refreshing", "sleeping" or "done"
    merger,         \* "running" or "done"
    receiver,       \* "unborn", "loop", "waiting", "enqueueing" or "done"
    arrived,        \* lines read so far
    stdinOpen,      \* tshark is still there
    parsedQueue,    \* parsed_rx, oldest first
    highLoad,       \* QUEUE_MONITOR's flag
    worker,         \* where each worker is
    item,           \* the packet a worker works on
    skip,           \* should_skip_behavioral
    dropped,        \* history: why lines went no further
    outQueue, outHeld, outReceived, outLost, outStranded, outPhase

outVars == <<outQueue, outHeld, outReceived, outLost, outStranded, outPhase>>
intake == <<receiver, arrived, stdinOpen, parsedQueue, highLoad>>
crew == <<worker, item, skip>>
helpers == <<mode, ready, updater, merger>>
vars == <<shutdown, main, helpers, intake, crew, dropped, outVars>>

FeedsEnabled == mode.feeds
StdoutMode == mode.stdout

ParsedConnected == main \in {"intel", "receiver"}
OutConnected == main \in {"intel", "receiver", "workers"}
MergerConnected == main \notin {"merger", "done"}

Elk == INSTANCE BestEffortSink
          WITH Events <- Lines, QueueCap <- OutCap,
               connected <- OutConnected, queue <- outQueue, held <- outHeld,
               received <- outReceived, lost <- outLost,
               stranded <- outStranded, phase <- outPhase

Causes == {"skipped", "parsed_full", "out_full", "out_gone"}
NoItem == 0

Init ==
    /\ mode \in Modes
    /\ shutdown = FALSE /\ main = "intel"
    /\ ready = ~FeedsEnabled
    /\ updater = IF FeedsEnabled THEN "top" ELSE "done"
    /\ merger = "running"
    /\ receiver = "unborn" /\ arrived = 0 /\ stdinOpen = TRUE
    /\ parsedQueue = <<>> /\ highLoad = FALSE
    /\ worker = [w \in Workers |-> "unborn"]
    /\ item = [w \in Workers |-> NoItem] /\ skip = [w \in Workers |-> FALSE]
    /\ dropped = [c \in Causes |-> {}]
    /\ Elk!SinkInit

Drop(n, cause) == dropped' = [dropped EXCEPT ![cause] = @ \cup {n}]

-----------------------------------------------------------------------------
(* run, up to its first join.                                              *)

\* The loop that polls intel_ready once a second looks at nothing else.
StartPipeline ==
    /\ main = "intel"
    /\ ready
    /\ main' = "receiver"
    /\ receiver' = "loop"
    /\ worker' = [w \in Workers |-> "loop"]
    /\ UNCHANGED <<shutdown, helpers, arrived, stdinOpen, parsedQueue, highLoad,
                   item, skip, dropped, outVars>>

-----------------------------------------------------------------------------
(* The updater and the merger.                                             *)

UpdaterTop ==
    /\ updater = "top"
    /\ updater' = IF shutdown THEN "done" ELSE "refreshing"
    /\ UNCHANGED <<mode, shutdown, main, ready, merger, intake, crew, dropped, outVars>>

UpdaterLoads ==
    /\ updater = "refreshing"
    /\ updater' = "sleeping"
    /\ ready' = TRUE
    /\ UNCHANGED <<mode, shutdown, main, merger, intake, crew, dropped, outVars>>

\* The sleep is over, or a tick of it finds the shutdown flag set.
UpdaterWakes ==
    /\ updater = "sleeping"
    /\ updater' = "top"
    /\ UNCHANGED <<mode, shutdown, main, ready, merger, intake, crew, dropped, outVars>>

MergerEnds ==
    /\ merger = "running"
    /\ shutdown \/ ~MergerConnected
    /\ merger' = "done"
    /\ UNCHANGED <<mode, shutdown, main, ready, updater, intake, crew, dropped, outVars>>

-----------------------------------------------------------------------------
(* The stdin receiver.                                                     *)

afterIntake == <<shutdown, main, helpers, crew, outVars>>

ReceiverLoop ==
    /\ receiver = "loop"
    /\ receiver' = IF shutdown THEN "done" ELSE "waiting"
    /\ UNCHANGED <<afterIntake, arrived, stdinOpen, parsedQueue, highLoad, dropped>>

\* A line that is skipped never reaches the queue monitor.
ReadLine ==
    /\ receiver = "waiting"
    /\ arrived < MaxLines
    /\ stdinOpen
    /\ arrived' = arrived + 1
    /\ IF arrived' \in Skipped
       THEN /\ Drop(arrived', "skipped")
            /\ receiver' = "loop"
            /\ UNCHANGED highLoad
       ELSE /\ highLoad' = (5 * Len(parsedQueue) >= 4 * MonitorCap)
            /\ receiver' = "enqueueing"
            /\ UNCHANGED dropped
    /\ UNCHANGED <<afterIntake, stdinOpen, parsedQueue>>

EnqueuePacket ==
    /\ receiver = "enqueueing"
    /\ IF Len(parsedQueue) < ParsedCap
       THEN parsedQueue' = Append(parsedQueue, arrived) /\ UNCHANGED dropped
       ELSE Drop(arrived, "parsed_full") /\ UNCHANGED parsedQueue
    /\ receiver' = "loop"
    /\ UNCHANGED <<afterIntake, arrived, stdinOpen, highLoad>>

\* Seeded fault: the wait for a line has no timeout.
ReadTimeout_NeedsLine ==
    /\ receiver = "waiting"
    /\ stdinOpen /\ arrived < MaxLines
    /\ receiver' = "loop"
    /\ UNCHANGED <<afterIntake, arrived, stdinOpen, parsedQueue, highLoad, dropped>>

ReadTimeout ==
    /\ receiver = "waiting"
    /\ stdinOpen
    /\ receiver' = "loop"
    /\ UNCHANGED <<afterIntake, arrived, stdinOpen, parsedQueue, highLoad, dropped>>

\* End of file, or an error.
EndOfStdin ==
    /\ receiver = "waiting"
    /\ ~stdinOpen
    /\ receiver' = "done"
    /\ UNCHANGED <<afterIntake, arrived, stdinOpen, parsedQueue, highLoad, dropped>>

Receiver == ReceiverLoop \/ ReadLine \/ EnqueuePacket \/ ReadTimeout \/ EndOfStdin

-----------------------------------------------------------------------------
(* The enrichment workers.                                                 *)

Goto(w, label) == worker' = [worker EXCEPT ![w] = label]

WorkerLoop(w) ==
    /\ worker[w] = "loop"
    /\ Goto(w, IF shutdown THEN "exiting" ELSE "waiting")
    /\ UNCHANGED <<shutdown, main, helpers, intake, item, skip, dropped, outVars>>

TakePacket(w) ==
    /\ worker[w] = "waiting"
    /\ parsedQueue # <<>>
    /\ item' = [item EXCEPT ![w] = Head(parsedQueue)]
    /\ parsedQueue' = Tail(parsedQueue)
    /\ Goto(w, "taken")
    /\ UNCHANGED <<shutdown, main, helpers, receiver, arrived, stdinOpen, highLoad,
                   skip, dropped, outVars>>

\* Seeded fault: a disconnected queue is left before it is empty.
TakeNothing_OnDisconnect(w) ==
    /\ worker[w] = "waiting"
    /\ parsedQueue = <<>> \/ ~ParsedConnected
    /\ Goto(w, IF ParsedConnected THEN "loop" ELSE "exiting")
    /\ UNCHANGED <<shutdown, main, helpers, intake, item, skip, dropped, outVars>>

TakeNothing(w) ==
    /\ worker[w] = "waiting"
    /\ parsedQueue = <<>>
    /\ Goto(w, IF ParsedConnected THEN "loop" ELSE "exiting")
    /\ UNCHANGED <<shutdown, main, helpers, intake, item, skip, dropped, outVars>>

\* Seeded fault: a worker that took a packet looks at the shutdown flag first.
ReadLoad_QuitsOnShutdown(w) ==
    /\ worker[w] = "taken"
    /\ skip' = [skip EXCEPT ![w] = highLoad]
    /\ item' = IF shutdown THEN [item EXCEPT ![w] = NoItem] ELSE item
    /\ Goto(w, IF shutdown THEN "exiting" ELSE "processing")
    /\ UNCHANGED <<shutdown, main, helpers, intake, dropped, outVars>>

ReadLoad(w) ==
    /\ worker[w] = "taken"
    /\ skip' = [skip EXCEPT ![w] = highLoad]
    /\ Goto(w, "processing")
    /\ UNCHANGED <<shutdown, main, helpers, intake, item, dropped, outVars>>

\* In stdout mode run's own receiver keeps the queue open after its writer left.
OutAccepts ==
    IF StdoutMode THEN Len(outQueue) < OutCap ELSE Elk!Accepts

\* process_tshark_packet_item.
ProcessPacket(w) ==
    /\ worker[w] = "processing"
    /\ IF OutAccepts
       THEN /\ outQueue' = Append(outQueue, item[w])
            /\ UNCHANGED dropped
       ELSE /\ Drop(item[w], IF ~StdoutMode /\ outPhase = "stopped"
                             THEN "out_gone" ELSE "out_full")
            /\ UNCHANGED outQueue
    /\ item' = [item EXCEPT ![w] = NoItem]
    /\ Goto(w, "loop")
    /\ UNCHANGED <<shutdown, main, helpers, intake, skip, outHeld, outReceived,
                   outLost, outStranded, outPhase>>

WorkerExit(w) ==
    /\ worker[w] = "exiting"
    /\ Goto(w, "done")
    /\ UNCHANGED <<shutdown, main, helpers, intake, item, skip, dropped, outVars>>

WorkerStep(w) ==
    \/ WorkerLoop(w) \/ TakePacket(w) \/ TakeNothing(w) \/ ReadLoad(w)
    \/ ProcessPacket(w) \/ WorkerExit(w)

-----------------------------------------------------------------------------
(* The output: the ELK sender, or the stdout writer.                       *)

beforeOut == <<shutdown, main, helpers, intake, crew, dropped>>
Started == main # "intel"

ElkActs(A) == Started /\ ~StdoutMode /\ A /\ UNCHANGED beforeOut

ElkTakes == ElkActs(Elk!Take)
ElkSettles == ElkActs(Elk!Settle)
ElkLeaves == ElkActs(Elk!Leave)
ElkStops == ElkActs(Elk!Stop)

\* One round of the writer: a line is written as soon as it is taken.
StdoutWrites ==
    /\ Started /\ StdoutMode /\ outPhase = "running"
    /\ outQueue # <<>>
    /\ outReceived' = Append(outReceived, Head(outQueue))
    /\ outQueue' = Tail(outQueue)
    /\ UNCHANGED <<beforeOut, outHeld, outLost, outStranded, outPhase>>

\* Seeded fault: the writer leaves at a shutdown, whatever is queued.
StdoutLeaves_AtOnce ==
    /\ Started /\ StdoutMode /\ outPhase = "running"
    /\ shutdown \/ (~OutConnected /\ outQueue = <<>>)
    /\ outPhase' = "stopped"
    /\ UNCHANGED <<beforeOut, outQueue, outHeld, outReceived, outLost, outStranded>>

StdoutLeaves ==
    /\ Started /\ StdoutMode /\ outPhase = "running"
    /\ outQueue = <<>>
    /\ shutdown \/ ~OutConnected
    /\ outPhase' = "stopped"
    /\ UNCHANGED <<beforeOut, outQueue, outHeld, outReceived, outLost, outStranded>>

Output ==
    \/ ElkTakes \/ ElkSettles \/ ElkLeaves \/ ElkStops
    \/ StdoutWrites \/ StdoutLeaves

-----------------------------------------------------------------------------
(* The joins of run, the signal and the tshark process.                    *)

Joined(stage, over, next) ==
    /\ main = stage
    /\ over
    /\ main' = next
    /\ UNCHANGED <<shutdown, helpers, intake, crew, dropped, outVars>>

JoinReceiver == Joined("receiver", receiver = "done", "workers")

JoinWorkers == Joined("workers", \A w \in Workers : worker[w] = "done", "output")

JoinOutput == Joined("output", outPhase = "stopped", "updater")


JoinUpdater == Joined("updater", updater = "done", "merger")

JoinMerger == Joined("merger", merger = "done", "done")

Main ==
    \/ StartPipeline \/ JoinReceiver \/ JoinWorkers \/ JoinOutput
    \/ JoinUpdater \/ JoinMerger

Signal ==
    /\ ~shutdown
    /\ shutdown' = TRUE
    /\ UNCHANGED <<main, helpers, intake, crew, dropped, outVars>>

TsharkExits ==
    /\ stdinOpen
    /\ stdinOpen' = FALSE
    /\ UNCHANGED <<shutdown, main, helpers, receiver, arrived, parsedQueue, highLoad,
                   crew, dropped, outVars>>

Next ==
    \/ Main \/ UpdaterTop \/ UpdaterLoads \/ UpdaterWakes \/ MergerEnds
    \/ Receiver \/ (\E w \in Workers : WorkerStep(w)) \/ Output
    \/ Signal \/ TsharkExits

\* Threads and tasks keep running; tshark need not exit, nor a signal come.
Fairness ==
    /\ WF_vars(Main)
    /\ WF_vars(UpdaterTop) /\ WF_vars(UpdaterLoads) /\ WF_vars(UpdaterWakes)
    /\ WF_vars(MergerEnds) /\ WF_vars(Receiver)
    /\ \A w \in Workers : WF_vars(WorkerStep(w))
    /\ WF_vars(ElkTakes) /\ WF_vars(ElkSettles) /\ WF_vars(ElkStops)
    /\ WF_vars(~OutConnected /\ ElkLeaves)
    /\ WF_vars(StdoutWrites) /\ WF_vars(StdoutLeaves)

Spec == Init /\ [][Next]_vars /\ Fairness

-----------------------------------------------------------------------------
ThreadsOK ==
    /\ mode \in Modes
    /\ shutdown \in BOOLEAN
    /\ main \in {"intel", "receiver", "workers", "output", "updater", "merger", "done"}
    /\ ready \in BOOLEAN
    /\ updater \in {"top", "refreshing", "sleeping", "done"}
    /\ merger \in {"running", "done"}
    /\ receiver \in {"unborn", "loop", "waiting", "enqueueing", "done"}
    /\ stdinOpen \in BOOLEAN

CrewOK ==
    /\ worker \in [Workers -> {"unborn", "loop", "waiting", "taken", "processing",
                               "exiting", "done"}]
    /\ item \in [Workers -> Lines \cup {NoItem}]
    /\ skip \in [Workers -> BOOLEAN]

IntakeOK ==
    /\ arrived \in 0..MaxLines
    /\ parsedQueue \in Seq(Lines) /\ Len(parsedQueue) <= ParsedCap
    /\ highLoad \in BOOLEAN
    /\ dropped \in [Causes -> SUBSET Lines]

OutOK ==
    /\ outQueue \in Seq(Lines) /\ Len(outQueue) <= OutCap
    /\ outHeld \in Seq(Lines) /\ outReceived \in Seq(Lines)
    /\ outLost \subseteq Lines /\ outStranded \subseteq Lines
    /\ outPhase \in {"running", "leaving", "stopped"}

TypeOK == ThreadsOK /\ CrewOK /\ IntakeOK /\ OutOK

BeingEnqueued == IF receiver = "enqueueing" THEN {arrived} ELSE {}
InHand == {item[w] : w \in Workers} \ {NoItem}
OnOutSide == Range(outQueue) \cup Range(outHeld) \cup Range(outReceived)
               \cup outLost \cup outStranded
DroppedAnyhow == UNION {dropped[c] : c \in Causes}

(***************************************************************************)
(* Every line that was read is in one place: about to be enqueued, queued, *)
(* with one worker, with the output, or dropped.                           *)
(***************************************************************************)
EachPacketOnce ==
    /\ BeingEnqueued \cup Range(parsedQueue) \cup InHand \cup OnOutSide
          \cup DroppedAnyhow = 1..arrived
    /\ BeingEnqueued \cap (Range(parsedQueue) \cup InHand \cup OnOutSide
                              \cup DroppedAnyhow) = {}
    /\ Range(parsedQueue) \cap (InHand \cup OnOutSide \cup DroppedAnyhow) = {}
    /\ InHand \cap (OnOutSide \cup DroppedAnyhow) = {}
    /\ OnOutSide \cap DroppedAnyhow = {}
    /\ \A v, w \in Workers : v # w /\ item[v] = item[w] => item[v] = NoItem

(***************************************************************************)
(* The end of a capture loses nothing: when tshark exits, and no signal    *)
(* comes, every line that was read and enqueued reaches the output before  *)
(* run waits for anything else, and nothing is left in a queue.            *)
(***************************************************************************)
EofLosesNothing ==
    ~shutdown =>
        /\ dropped["out_gone"] = {} /\ outStranded = {}
        /\ main \in {"output", "updater", "merger", "done"} => parsedQueue = <<>> /\ InHand = {}
        /\ main \in {"updater", "merger", "done"} => outQueue = <<>> /\ outHeld = <<>>

(***************************************************************************)
(* In stdout mode a packet taken from the output queue is printed.  After  *)
(* a shutdown only what a worker had in hand when the writer left can stay *)
(* in the queue, one packet for each worker.                               *)
(***************************************************************************)
StdoutKeepsUp ==
    StdoutMode =>
        /\ outLost = {} /\ outHeld = <<>> /\ outStranded = {}
        /\ outPhase = "stopped" => Len(outQueue) + Cardinality(InHand) <= Cardinality(Workers)

(***************************************************************************)
(* Once the intelligence is loaded a signal ends the run, whatever the     *)
(* mode and the point each thread has reached.                             *)
(***************************************************************************)
EndsOnSignal == (shutdown /\ ready) ~> main = "done"


(***************************************************************************)
(* "Installs a graceful shutdown signal handler for SIGINT/SIGTERM": a     *)
(* signal ends the run.                                                    *)
(***************************************************************************)
SignalEndsRun == shutdown ~> main = "done"
=============================================================================
