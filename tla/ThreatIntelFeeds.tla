-------------------------- MODULE ThreatIntelFeeds --------------------------
(***************************************************************************)
(* The threat intelligence updater: the task of application/threat_intel.rs*)
(* that rebuilds the indicator database from all feeds in parallel, and    *)
(* the file cache of infrastructure/threat_feeds.rs each feed goes through.*)
(*                                                                         *)
(* Around it: feeds that come and go, a disk that may fail, a process that *)
(* may die and be restarted by systemd at any point, also half-way through *)
(* a cache file, and the clock.  TTL is THREAT_INTEL_REFRESH_INTERVAL_SECS,*)
(* which is both the lifetime of a cache file and the updater's sleep.     *)
(*                                                                         *)
(* Time passes only while the task sleeps or a refresh is going on, at most*)
(* MaxRefresh units of it: the 30 s timeout of each request bounds them.   *)
(* Indicators are abstracted to the age of the download they came from: the*)
(* time since the feed answered, which the program does not know.  What it *)
(* sees is the time since the cache file was last written, a little less.  *)
(***************************************************************************)
EXTENDS Integers, FiniteSets

CONSTANTS
    IpFeeds, OtherFeeds,    \* fetched in two rounds, the second after the first
    TTL,                    \* THREAT_INTEL_REFRESH_INTERVAL_SECS
    MaxRefresh,             \* bound: what a refresh may last
    MaxCrashes              \* bound: how often the process may die

Feeds == IpFeeds \cup OtherFeeds

ASSUME FeedsAssumption ==
    /\ IsFiniteSet(Feeds) /\ IpFeeds \cap OtherFeeds = {}
    /\ TTL \in Nat \ {0} /\ MaxRefresh \in Nat /\ MaxCrashes \in Nat

VARIABLES
    pc,             \* the updater: "top", "refreshing", "loaded", "sleeping" or "done"
    stage,          \* where the fetch of each feed is
    fetched,        \* age of what was fetched for a feed in this refresh, or NoData
    db,             \* the shared database: age of each feed's indicators, or NoData
    ready,          \* intel_ready
    left,           \* what is left of the updater's sleep
    spent,          \* how long this refresh has lasted
    cache,          \* the cache file of each feed: [age, data, whole] or NoFile
    reachable,      \* whether each feed answers
    diskOk,         \* whether cache files can be written
    shutdown,
    crashes,
    goodFor         \* history: how long nothing has stood in a feed's way

updater == <<pc, left, spent>>
fetches == <<stage, fetched>>
shared == <<db, ready>>
environment == <<reachable, diskOk, shutdown, crashes>>
vars == <<updater, fetches, shared, cache, environment, goodFor>>

NoData == -1
\* age since the last write, data: age of the download in it, whole: not torn.
NoFile == [age |-> -1, data |-> NoData, whole |-> FALSE]

\* Files are compared with TTL, downloaded data with the bounds below.
DataAgeMax == 2 * (TTL - 1) + 3 * MaxRefresh
FileDataMax == (TTL - 1) + 2 * MaxRefresh  \* no older data is ever read from a file
RecoveryMax == 2 * (TTL - 1) + 2 * MaxRefresh
Older(age, cap) == IF age = NoData THEN NoData ELSE IF age <= cap THEN age + 1 ELSE age

Empty == [f \in Feeds |-> NoData]

Init ==
    /\ pc = "top" /\ left = 0 /\ spent = 0
    /\ stage = [f \in Feeds |-> "idle"] /\ fetched = Empty
    /\ db = Empty /\ ready = FALSE
    /\ cache = [f \in Feeds |-> NoFile]
    /\ reachable \in [Feeds -> BOOLEAN] /\ diskOk = TRUE
    /\ shutdown = FALSE /\ crashes = 0
    /\ goodFor = [f \in Feeds |-> 0]

-----------------------------------------------------------------------------
(* download_feed_to_cache_dir, one step per await.                         *)

\* Seeded fault: a cache file never expires.
is_cache_valid_Forever(f) == cache[f] # NoFile

\* Seeded fault: the cache is written but never used.
is_cache_valid_Never(f) == FALSE

is_cache_valid(f) == cache[f] # NoFile /\ cache[f].age < TTL

StageOf(f, label) == stage' = [stage EXCEPT ![f] = label]

CheckCache(f) ==
    /\ stage[f] = "pending"
    /\ StageOf(f, IF is_cache_valid(f) THEN "reading" ELSE "requesting")
    /\ UNCHANGED <<updater, fetched, shared, cache, environment, goodFor>>

\* A file that does not parse is an error, not a reason to download.
ReadCache(f) ==
    /\ stage[f] = "reading"
    /\ IF cache[f].whole
       THEN StageOf(f, "ok") /\ fetched' = [fetched EXCEPT ![f] = cache[f].data]
       ELSE StageOf(f, "failed") /\ UNCHANGED fetched
    /\ UNCHANGED <<updater, shared, cache, environment, goodFor>>

Request(f) ==
    /\ stage[f] = "requesting"
    /\ IF reachable[f]
       THEN StageOf(f, "creating") /\ fetched' = [fetched EXCEPT ![f] = 0]
       ELSE StageOf(f, "failed") /\ UNCHANGED fetched
    /\ UNCHANGED <<updater, shared, cache, environment, goodFor>>

\* File::create empties the old file before anything is written to the new one.
CreateFile(f) ==
    /\ stage[f] = "creating"
    /\ IF diskOk
       THEN /\ StageOf(f, "writing")
            /\ cache' = [cache EXCEPT ![f] = [age |-> 0, data |-> NoData, whole |-> FALSE]]
            /\ UNCHANGED fetched
       ELSE /\ StageOf(f, "failed")
            /\ fetched' = [fetched EXCEPT ![f] = NoData]
            /\ UNCHANGED cache
    /\ UNCHANGED <<updater, shared, environment, goodFor>>

\* What was downloaded is thrown away with the error of a failed write.
WriteFile(f) ==
    /\ stage[f] = "writing"
    /\ IF diskOk
       THEN /\ StageOf(f, "ok")
            /\ cache' = [cache EXCEPT ![f] = [age |-> 0, data |-> fetched[f], whole |-> TRUE]]
            /\ UNCHANGED fetched
       ELSE /\ StageOf(f, "failed")
            /\ fetched' = [fetched EXCEPT ![f] = NoData]
            /\ UNCHANGED cache
    /\ UNCHANGED <<updater, shared, environment, goodFor>>

FetchStep(f) ==
    CheckCache(f) \/ ReadCache(f) \/ Request(f) \/ CreateFile(f) \/ WriteFile(f)

-----------------------------------------------------------------------------
(* threat_intel_updater_thread and refresh_threat_intel_once.              *)

Over(feeds) == \A f \in feeds : stage[f] \in {"ok", "failed"}

\* Seeded fault: what the last refresh fetched is not forgotten.
StartRefresh_KeepsOld ==
    /\ pc = "top"
    /\ IF shutdown
       THEN pc' = "done" /\ UNCHANGED stage
       ELSE /\ pc' = "refreshing"
            /\ stage' = [f \in Feeds |-> IF f \in IpFeeds THEN "pending" ELSE "idle"]
    /\ spent' = 0
    /\ UNCHANGED <<left, fetched, shared, cache, environment, goodFor>>

StartRefresh ==
    /\ pc = "top"
    /\ IF shutdown
       THEN pc' = "done" /\ UNCHANGED fetches
       ELSE /\ pc' = "refreshing"
            /\ stage' = [f \in Feeds |-> IF f \in IpFeeds THEN "pending" ELSE "idle"]
            /\ fetched' = Empty
    /\ spent' = 0
    /\ UNCHANGED <<left, shared, cache, environment, goodFor>>

SecondRound ==
    /\ pc = "refreshing"
    /\ Over(IpFeeds)
    /\ \E f \in OtherFeeds : stage[f] = "idle"
    /\ stage' = [f \in Feeds |-> IF f \in OtherFeeds THEN "pending" ELSE stage[f]]
    /\ UNCHANGED <<updater, fetched, shared, cache, environment, goodFor>>

\* The new database replaces the old one whole, failed feeds included.
Publish ==
    /\ pc = "refreshing"
    /\ Over(Feeds)
    /\ db' = fetched
    /\ pc' = "loaded"
    /\ UNCHANGED <<left, spent, fetches, ready, cache, environment, goodFor>>

\* The interval's first tick is immediate: TTL ticks take TTL - 1 units.
Sleep ==
    /\ pc = "loaded"
    /\ ready' = TRUE
    /\ left' = TTL - 1
    /\ pc' = "sleeping"
    /\ UNCHANGED <<spent, fetches, db, cache, environment, goodFor>>

\* Seeded fault: a shutdown is looked at only between refreshes, and the
\* sleep starts over when one is noticed.
Wake_IgnoresShutdown ==
    /\ pc = "sleeping"
    /\ left = 0
    /\ IF shutdown THEN left' = TTL - 1 /\ UNCHANGED pc
       ELSE pc' = "top" /\ UNCHANGED left
    /\ UNCHANGED <<spent, fetches, shared, cache, environment, goodFor>>

Wake ==
    /\ pc = "sleeping"
    /\ left = 0 \/ shutdown
    /\ pc' = "top"
    /\ UNCHANGED <<left, spent, fetches, shared, cache, environment, goodFor>>

Updater == StartRefresh \/ SecondRound \/ Publish \/ Sleep \/ Wake

-----------------------------------------------------------------------------
(* The signal, the network, the disk, the process and the clock.           *)

Clear(feeds) == goodFor' = [f \in Feeds |-> IF f \in feeds THEN 0 ELSE goodFor[f]]

Shutdown ==
    /\ ~shutdown
    /\ shutdown' = TRUE
    /\ UNCHANGED <<updater, fetches, shared, cache, reachable, diskOk, crashes, goodFor>>

FeedChanges(f) ==
    /\ reachable' = [reachable EXCEPT ![f] = ~@]
    /\ Clear({f})
    /\ UNCHANGED <<updater, fetches, shared, cache, diskOk, shutdown, crashes>>

DiskChanges ==
    /\ diskOk' = ~diskOk
    /\ Clear(Feeds)
    /\ UNCHANGED <<updater, fetches, shared, cache, reachable, shutdown, crashes>>

\* The process dies with its memory and is started again.
Crash ==
    /\ pc # "done"
    /\ crashes < MaxCrashes
    /\ crashes' = crashes + 1
    /\ pc' = "top" /\ left' = 0 /\ spent' = 0
    /\ stage' = [f \in Feeds |-> "idle"] /\ fetched' = Empty
    /\ db' = Empty /\ ready' = FALSE
    /\ Clear(Feeds)
    /\ UNCHANGED <<cache, reachable, diskOk, shutdown>>

Tick ==
    /\ \/ pc = "refreshing" /\ spent < MaxRefresh /\ spent' = spent + 1 /\ UNCHANGED left
       \/ pc = "sleeping" /\ left > 0 /\ left' = left - 1 /\ UNCHANGED spent
    /\ cache' = [f \in Feeds |-> [cache[f] EXCEPT !.age = Older(@, TTL),
                                                !.data = Older(@, FileDataMax)]]
    /\ fetched' = [f \in Feeds |-> Older(fetched[f], DataAgeMax)]
    /\ db' = [f \in Feeds |-> Older(db[f], DataAgeMax)]
    /\ goodFor' = [f \in Feeds |-> IF reachable[f] /\ diskOk /\ goodFor[f] <= RecoveryMax
                                   THEN goodFor[f] + 1 ELSE goodFor[f]]
    /\ UNCHANGED <<pc, stage, ready, environment>>

Next ==
    \/ Updater \/ (\E f \in Feeds : FetchStep(f))
    \/ Shutdown \/ (\E f \in Feeds : FeedChanges(f)) \/ DiskChanges \/ Crash \/ Tick

\* The task and its fetches keep running, and a sleep ends.
Fairness ==
    /\ WF_vars(Updater)
    /\ \A f \in Feeds : WF_vars(FetchStep(f))
    /\ WF_vars(pc = "sleeping" /\ Tick)

Spec == Init /\ [][Next]_vars /\ Fairness

-----------------------------------------------------------------------------
UpdaterOK ==
    /\ pc \in {"top", "refreshing", "loaded", "sleeping", "done"}
    /\ left \in 0..(TTL - 1) /\ spent \in 0..MaxRefresh /\ ready \in BOOLEAN

FetchesOK ==
    /\ stage \in [Feeds -> {"idle", "pending", "reading", "requesting", "creating",
                            "writing", "ok", "failed"}]
    /\ fetched \in [Feeds -> -1..(DataAgeMax + 1)]
    /\ db \in [Feeds -> -1..(DataAgeMax + 1)]

FilesOK ==
    cache \in [Feeds -> [age : -1..(TTL + 1), data : -1..(FileDataMax + 1), whole : BOOLEAN]]

WorldOK ==
    /\ reachable \in [Feeds -> BOOLEAN] /\ diskOk \in BOOLEAN
    /\ shutdown \in BOOLEAN /\ crashes \in 0..MaxCrashes
    /\ goodFor \in [Feeds -> 0..(RecoveryMax + 1)]

TypeOK == UpdaterOK /\ FetchesOK /\ FilesOK /\ WorldOK

(***************************************************************************)
(* However feeds, disk and process fail, no indicator in use was downloaded*)
(* longer ago than two sleeps and three refreshes.  The download may be a  *)
(* refresh old when its file is written, the file almost TTL old when it is*)
(* judged valid and another refresh older when the database is built, and  *)
(* the database serves for one more sleep and refresh.                     *)
(***************************************************************************)
DataAgeBounded == \A f \in Feeds : db[f] <= DataAgeMax

(***************************************************************************)
(* A cache file torn by a crash or a full disk hides its feed, but not for *)
(* long: once the feed answers, the disk works and the process lives, the  *)
(* feed is back in the database within RecoveryMax, two refreshes and two  *)
(* sleeps, or the updater has ended before.                                *)
(***************************************************************************)
RecoversInTime == \A f \in Feeds : goodFor[f] > RecoveryMax => db[f] # NoData

(***************************************************************************)
(* A feed that is in the database and whose cache file is whole and valid  *)
(* is not lost by the next refresh, even if it is unreachable by then.     *)
(***************************************************************************)
ValidCacheCarriesOver ==
    [][\A f \in Feeds :
          pc = "loaded" /\ pc' = "sleeping" /\ cache[f].whole /\ cache[f].age < TTL
             => db'[f] # NoData]_vars

(***************************************************************************)
(* The updater ends after a shutdown request, so run can wait for it.      *)
(***************************************************************************)
EndsOnShutdown == shutdown ~> pc = "done"

(***************************************************************************)
(* "If a feed is unreachable at refresh time the previous cache is         *)
(* retained", "Stale caches continue working": publishing a new database   *)
(* loses no feed whose cache file is whole.                                *)
(***************************************************************************)
RetainsPrevious ==
    [][\A f \in Feeds :
          pc = "refreshing" /\ pc' = "loaded" /\ cache[f].whole => db'[f] # NoData]_vars
=============================================================================
