---------------------------- MODULE BehavioralRun ----------------------------
(***************************************************************************)
(* Behavioural analysis across the enrichment workers: every worker keeps  *)
(* an AlertHistory of its own, counts the logs it happens to take, whether *)
(* or not it analyses them, and now and then sends a copy of its history   *)
(* to the state merger thread, which adds the copies up and writes the     *)
(* state file. (application/palo_alto_workers.rs, application/state.rs.)   *)
(*                                                                         *)
(* Which worker takes which log is up to the scheduler.  Logs and time are *)
(* bounded by MaxLogs and MaxTime.                                         *)
(***************************************************************************)
EXTENDS AlertHistory, FiniteSets

CONSTANTS
    Workers,
    ReportEvery,    \* a worker reports after this many logs (100)
    SaveEvery,      \* the merger saves once this much time has passed
    MaxLogs, MaxTime

ASSUME BehavioralAssumption ==
    /\ IsFiniteSet(Workers) /\ ReportEvery \in Nat \ {0}
    /\ {SaveEvery, MaxLogs, MaxTime} \subseteq Nat

state_merger_queue_size == 2 * Cardinality(Workers)

VARIABLES
    now,            \* in the unit of Window
    shutdown,
    input,          \* the raw queue still has a sender
    connected,      \* run or a worker still holds a sender to the merger
    history,        \* worker_state of each worker
    processed,      \* processed_count of each worker
    running,        \* the workers that have not exited
    reports,        \* state_merger_rx
    merged,         \* the state manager's alert_history
    lastSave,       \* last_save
    merger,         \* "loop", "waiting", "saving" or "done"
    file,           \* the history in the state file, as a reader finds it
    seen,           \* history: the events each worker has analysed, in order
    refused         \* history: a report found the merger's queue full or gone

workerVars == <<history, processed, running, seen>>
mergerVars == <<merged, lastSave, merger, file>>
given == <<now, shutdown, input>>
vars == <<given, connected, workerVars, reports, refused, mergerVars>>

Init ==
    /\ now = 0 /\ shutdown = FALSE /\ input = TRUE /\ connected = TRUE
    /\ history = [w \in Workers |-> Default(0)] /\ running = Workers
    /\ processed = [w \in Workers |-> 0]
    /\ reports = <<>> /\ refused = FALSE
    /\ merged = Default(0) /\ lastSave = 0 /\ merger = "loop" /\ file = <<>>
    /\ seen = [w \in Workers |-> <<>>]

\* try_send: a full queue, or a merger that has gone, refuses.
Report(h) ==
    IF merger # "done" /\ Len(reports) < state_merger_queue_size
    THEN reports' = Append(reports, h) /\ UNCHANGED refused
    ELSE refused' = TRUE /\ UNCHANGED reports

Taken == UNION {{<<w, i>> : i \in 1..processed[w]} : w \in Workers}

\* A worker takes a log; after every so many it reports what it then has.
Process(w) ==
    /\ w \in running
    /\ Cardinality(Taken) < MaxLogs
    /\ processed' = [processed EXCEPT ![w] = @ + 1]
    /\ IF processed'[w] % ReportEvery = 0
       THEN Report(history'[w])
       ELSE UNCHANGED <<reports, refused>>
    /\ UNCHANGED <<given, connected, running, mergerVars>>

\* enrich_behavioral of a log.
Analyse(w, key) ==
    /\ history' = [history EXCEPT ![w] = update(@, key, now)]
    /\ seen' = [seen EXCEPT ![w] =
                   Append(@, [key |-> key, at |-> now,
                              flagged |-> is_suspicious_activity(history'[w], key)])]
    /\ Process(w)

\* A log that does not parse, or is not enriched because the load is high.
PassOver(w) ==
    /\ UNCHANGED <<history, seen>>
    /\ Process(w)

\* The raw queue is gone or a shutdown was requested: one last report.
Exit(w) ==
    /\ w \in running
    /\ shutdown \/ ~input
    /\ running' = running \ {w}
    /\ Report(history[w])
    /\ UNCHANGED <<given, connected, history, processed, seen, mergerVars>>

\* run has joined the workers and drops its own sender.
Disconnect ==
    /\ connected /\ running = {}
    /\ connected' = FALSE
    /\ UNCHANGED <<given, workerVars, reports, refused, mergerVars>>

\* alert_history is marked serde(skip): the file has none of it.
Serialized(state) == <<>>

MergerLoop ==
    /\ merger = "loop"
    /\ merger' = IF shutdown THEN "saving" ELSE "waiting"
    /\ UNCHANGED <<given, connected, workerVars, reports, refused, merged,
                   lastSave, file>>

MergeReport ==
    /\ merger = "waiting"
    /\ reports # <<>>
    /\ merged' = merge(merged, Head(reports), now)
    /\ reports' = Tail(reports)
    /\ IF now - lastSave >= SaveEvery
       THEN lastSave' = now /\ file' = Serialized(merged')
       ELSE UNCHANGED <<lastSave, file>>
    /\ merger' = "loop"
    /\ UNCHANGED <<given, connected, workerVars, refused>>

\* Seeded fault: the merger leaves with its senders, whatever is queued.
MergerTimeout_LeavesEarly ==
    /\ merger = "waiting"
    /\ merger' = IF connected THEN "loop" ELSE "saving"
    /\ UNCHANGED <<given, connected, workerVars, reports, refused, merged,
                   lastSave, file>>

\* Five seconds without a report, or a channel that is empty and disconnected.
MergerTimeout ==
    /\ merger = "waiting"
    /\ reports = <<>>
    /\ merger' = IF connected THEN "loop" ELSE "saving"
    /\ UNCHANGED <<given, connected, workerVars, reports, refused, merged,
                   lastSave, file>>

FinalSave ==
    /\ merger = "saving"
    /\ file' = Serialized(merged)
    /\ merger' = "done"
    /\ UNCHANGED <<given, connected, workerVars, reports, refused, merged, lastSave>>

Signal ==
    /\ ~shutdown
    /\ shutdown' = TRUE
    /\ UNCHANGED <<now, input, connected, workerVars, reports, refused, mergerVars>>

EndOfInput ==
    /\ input
    /\ input' = FALSE
    /\ UNCHANGED <<now, shutdown, connected, workerVars, reports, refused, mergerVars>>

Tick ==
    /\ now < MaxTime
    /\ now' = now + 1
    /\ UNCHANGED <<shutdown, input, connected, workerVars, reports, refused, mergerVars>>

Next ==
    \/ \E w \in Workers :
          (\E key \in Keys \cup {NoSource} : Analyse(w, key)) \/ PassOver(w) \/ Exit(w)
    \/ Disconnect \/ MergerLoop \/ MergeReport \/ MergerTimeout \/ FinalSave
    \/ Signal \/ EndOfInput \/ Tick

Spec == Init /\ [][Next]_vars

-----------------------------------------------------------------------------
(* What really happened, from the log of events alone.                     *)

\* Which events of a log came since its last silence longer than the window.
SinceSilence(log) ==
    {i \in DOMAIN log : \A j \in (i + 1)..Len(log) : log[j].at - log[j - 1].at <= Window}

Of(log, key, events) == {i \in events : log[i].key = key}

Sources(log, events) == {log[i].key : i \in events} \cap Keys

\* Among these events there is one of a source after all those of the other.
SeenLater(log, events, key, other) ==
    \E i \in Of(log, key, events) : \A j \in Of(log, other, events) : j < i

KeysSeen == UNION {Sources(seen[w], DOMAIN seen[w]) : w \in Workers}

\* No key is held twice.
Cache ==
    {entries \in Seq(Entry) :
        /\ Len(entries) <= CacheCap
        /\ \A i, j \in DOMAIN entries : entries[i].key = entries[j].key => i = j}
History == [entries : Cache, last : 0..now]
Event == [key : Keys \cup {NoSource}, at : 0..now, flagged : BOOLEAN]

TypeOK ==
    /\ now \in 0..MaxTime /\ running \subseteq Workers
    /\ shutdown \in BOOLEAN /\ input \in BOOLEAN /\ connected \in BOOLEAN /\ refused \in BOOLEAN
    /\ processed \in [Workers -> Nat]
    /\ history \in [Workers -> History] /\ merged \in History
    /\ reports \in Seq(History) /\ Len(reports) <= state_merger_queue_size
    /\ seen \in [Workers -> Seq(Event)]
    /\ lastSave \in 0..now /\ merger \in {"loop", "waiting", "saving", "done"}
    /\ file \in Seq(Entry)

(***************************************************************************)
(* A worker's cache holds the CacheCap sources it saw last, in that order, *)
(* since it was last silent for longer than the window: a busy source is   *)
(* never evicted by one seen less recently, and no key is held twice.      *)
(***************************************************************************)
CacheIsRecent ==
    \A w \in Workers :
        LET log == seen[w]
            mine == SinceSilence(log)
            held == history[w].entries
        IN  /\ CachedKeys(held) \subseteq Sources(log, mine)
            /\ \A i, j \in DOMAIN held : i < j => SeenLater(log, mine, held[i].key, held[j].key)
            /\ \A key \in Sources(log, mine) \ CachedKeys(held) :
                  /\ Len(held) = CacheCap
                  /\ \A i \in DOMAIN held : SeenLater(log, mine, held[i].key, key)

(***************************************************************************)
(* No alarm is made up: a flagged event is one of more than Threshold of   *)
(* its source that this worker saw without a silence between them.         *)
(***************************************************************************)
FlagIsEarned ==
    \A w \in Workers :
        seen[w] # <<>> /\ Last(seen[w]).flagged =>
            Cardinality(Of(seen[w], Last(seen[w]).key, SinceSilence(seen[w]))) > Threshold

(***************************************************************************)
(* No alarm of a single worker is missed while its cache has room: if it   *)
(* saw more than Threshold events of a source within the window and no     *)
(* more sources than fit, the latest of these events is flagged.           *)
(***************************************************************************)
OwnBurstIsFlagged ==
    \A w \in Workers :
        LET log == seen[w]
            recent == {i \in SinceSilence(log) : now - log[i].at <= Window}
        IN  /\ recent # {} /\ Last(log).key # NoSource
            /\ Cardinality(Sources(log, SinceSilence(log))) <= CacheCap
            /\ Cardinality(Of(log, Last(log).key, recent)) > Threshold
            => Last(log).flagged

(***************************************************************************)
(* If the merger ends because everyone else has, it has merged all there   *)
(* was: every source a worker still tracks is in the merged history, when  *)
(* no report was refused, no window has expired and the caches had room.   *)
(***************************************************************************)
NothingForgotten ==
    (merger = "done" /\ ~shutdown /\ ~refused
        /\ now <= Window /\ Cardinality(KeysSeen) <= CacheCap) =>
        \A w \in Workers : CachedKeys(history[w].entries) \subseteq CachedKeys(merged.entries)
=============================================================================
