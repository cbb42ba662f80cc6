----------------------- MODULE ThreatIntelFeeds_proofs -----------------------
(***************************************************************************)
(* How old indicators get and how soon a feed comes back, for every set of *)
(* feeds, every refresh interval and any number of crashes.                *)
(***************************************************************************)
EXTENDS ThreatIntelFeeds, TLAPS

(***************************************************************************)
(* A fetch goes on only during a refresh; a file that can be read has an   *)
(* age, and so has what was fetched.                                       *)
(***************************************************************************)
Orderly(f) ==
    /\ pc # "refreshing" => stage[f] \in {"idle", "ok", "failed"}
    /\ cache[f].whole => cache[f].age # NoData
    /\ cache[f].whole <=> cache[f].data # NoData
    /\ stage[f] = "reading" => cache[f].age # NoData
    /\ pc = "refreshing" /\ stage[f] \in {"creating", "writing", "ok"} => fetched[f] # NoData

(***************************************************************************)
(* A download is written by the refresh it was made in, so it is a refresh *)
(* older than its file at most, as long as the file may be read.           *)
(***************************************************************************)
FileYoung(f) == cache[f].age <= TTL => cache[f].data <= cache[f].age + MaxRefresh

(***************************************************************************)
(* Ages by where the updater is: a file that is read was valid in this     *)
(* refresh, a download was made in it; what is in use was fetched by the   *)
(* one before.                                                             *)
(***************************************************************************)
FetchedYoung(f) ==
    pc = "refreshing" =>
        /\ fetched[f] <= TTL - 1 + MaxRefresh + spent
        /\ stage[f] = "reading" => cache[f].data <= TTL - 1 + MaxRefresh + spent
        /\ stage[f] \in {"creating", "writing"} => fetched[f] <= spent

InUseYoung(f) ==
    /\ pc = "loaded" => db[f] <= (TTL - 1) + 2 * MaxRefresh
    /\ pc = "sleeping" => db[f] <= (TTL - 1) + 2 * MaxRefresh + (TTL - 1 - left)
    /\ pc \in {"top", "done"} => db[f] <= 2 * (TTL - 1) + 2 * MaxRefresh
    /\ pc = "refreshing" => db[f] <= 2 * (TTL - 1) + 2 * MaxRefresh + spent

(***************************************************************************)
(* A valid whole file is never behind a failed fetch.                      *)
(***************************************************************************)
Expired(f) == cache[f].age = NoData \/ cache[f].age >= TTL

FailsWithoutFile(f) ==
    /\ stage[f] \in {"requesting", "creating"} => Expired(f)
    /\ stage[f] = "writing" => ~cache[f].whole
    /\ stage[f] = "failed" => ~cache[f].whole \/ Expired(f)
    /\ pc = "loaded" /\ db[f] = NoData => stage[f] = "failed"

(***************************************************************************)
(* In good times a fetch fails by a torn file only.  That file is as old   *)
(* as the good times at least, so the fetch began early in them.           *)
(***************************************************************************)
TornBefore(f) ==
    /\ ~reachable[f] \/ ~diskOk => goodFor[f] = 0
    /\ ~cache[f].whole /\ ~Expired(f) /\ stage[f] # "writing" =>
           goodFor[f] <= cache[f].age
    /\ pc = "refreshing" /\ stage[f] = "reading" /\ ~cache[f].whole =>
           goodFor[f] <= TTL - 1 + spent
    /\ pc = "refreshing" /\ stage[f] = "failed" => goodFor[f] <= TTL - 1 + spent

\* How long good times last with the feed still missing.
MissingBriefly(f) ==
    db[f] = NoData =>
        /\ pc = "loaded" => goodFor[f] <= (TTL - 1) + MaxRefresh
        /\ pc = "sleeping" => goodFor[f] <= (TTL - 1) + MaxRefresh + (TTL - 1 - left)
        /\ pc \in {"top", "done"} => goodFor[f] <= 2 * (TTL - 1) + MaxRefresh
        /\ pc = "refreshing" => goodFor[f] <= 2 * (TTL - 1) + MaxRefresh + spent

Sound(f) ==
    /\ Orderly(f) /\ FileYoung(f) /\ FetchedYoung(f) /\ InUseYoung(f)
    /\ FailsWithoutFile(f) /\ TornBefore(f) /\ MissingBriefly(f)

\* The feeds of the second round start together.
InRounds == \A f, g \in OtherFeeds : stage[f] = "idle" => stage[g] = "idle"

IInv == TypeOK /\ InRounds /\ \A f \in Feeds : Sound(f)

LEMMA Bounds ==
    /\ TTL \in Nat /\ TTL >= 1 /\ MaxRefresh \in Nat /\ MaxCrashes \in Nat
    /\ DataAgeMax \in Nat /\ DataAgeMax = 2 * (TTL - 1) + 3 * MaxRefresh
    /\ FileDataMax \in Nat /\ FileDataMax = (TTL - 1) + 2 * MaxRefresh
    /\ RecoveryMax \in Nat /\ RecoveryMax = 2 * (TTL - 1) + 2 * MaxRefresh
BY FeedsAssumption DEF FeedsAssumption, DataAgeMax, FileDataMax, RecoveryMax

LEMMA Initially == Init => IInv
<1> SUFFICES ASSUME Init PROVE IInv
  OBVIOUS
<1>1. UpdaterOK
  <2>1. 0 \in 0..(TTL - 1) /\ 0 \in 0..MaxRefresh
    BY Bounds
  <2> QED BY <2>1 DEF Init, UpdaterOK
<1>2. FetchesOK
  BY Bounds DEF Init, Empty, NoData, FetchesOK
<1>3. FilesOK
  <2>1. NoFile \in [age : -1..(TTL + 1), data : -1..(FileDataMax + 1), whole : BOOLEAN]
    BY Bounds DEF NoFile, NoData
  <2> QED BY <2>1 DEF Init, FilesOK
<1>4. WorldOK
  <2>1. 0 \in 0..MaxCrashes /\ 0 \in 0..(RecoveryMax + 1)
    BY Bounds
  <2> QED BY <2>1 DEF Init, WorldOK
<1>5. ASSUME NEW f \in Feeds PROVE Sound(f)
  BY Bounds DEF Init, Empty, NoData, NoFile, Sound, Orderly, FileYoung, FetchedYoung, InUseYoung, FailsWithoutFile, TornBefore,
         MissingBriefly, Expired
<1>6. InRounds
  BY DEF Init, InRounds, Feeds
<1> QED BY <1>1, <1>2, <1>3, <1>4, <1>5, <1>6 DEF IInv, TypeOK

(***************************************************************************)
(* The types of what belongs to one feed.                                  *)
(***************************************************************************)
LEMMA TypesAt ==
    ASSUME TypeOK, NEW f \in Feeds
    PROVE  /\ stage[f] \in {"idle", "pending", "reading", "requesting", "creating",
                            "writing", "ok", "failed"}
           /\ fetched[f] \in Int /\ db[f] \in Int
           /\ cache[f] = [age |-> cache[f].age, data |-> cache[f].data, whole |-> cache[f].whole]
           /\ cache[f].age \in Int /\ cache[f].age >= -1 /\ cache[f].data \in Int /\ cache[f].data >= -1
           /\ cache[f].whole \in BOOLEAN
           /\ goodFor[f] \in Nat /\ reachable[f] \in BOOLEAN
           /\ left \in 0..(TTL - 1) /\ spent \in 0..MaxRefresh
BY Bounds DEF TypeOK, UpdaterOK, FetchesOK, FilesOK, WorldOK

(***************************************************************************)
(* Steps of the updater.                                                   *)
(***************************************************************************)
LEMMA UpdaterStep == IInv /\ Updater => IInv'
<1> SUFFICES ASSUME IInv, Updater PROVE IInv'
  OBVIOUS
<1>a. TypeOK /\ InRounds /\ \A f \in Feeds : Sound(f)
  BY DEF IInv
<1>1. TypeOK'
  <2> USE <1>a, Bounds DEF TypeOK, UpdaterOK, FetchesOK, FilesOK, WorldOK, shared, environment
  <2>1. CASE StartRefresh
    BY <2>1 DEF StartRefresh, Empty, NoData, fetches
  <2>2. CASE SecondRound
    BY <2>2 DEF SecondRound, updater
  <2>3. CASE Publish
    BY <2>3 DEF Publish, fetches
  <2>4. CASE Sleep
    BY <2>4 DEF Sleep, fetches
  <2>5. CASE Wake
    BY <2>5 DEF Wake, fetches
  <2> QED BY <2>1, <2>2, <2>3, <2>4, <2>5 DEF Updater
<1>2. InRounds'
  <2>1. CASE StartRefresh
    BY <1>a, <2>1, FeedsAssumption DEF StartRefresh, InRounds, Feeds, fetches, FeedsAssumption
  <2>2. CASE SecondRound
    BY <1>a, <2>2 DEF SecondRound, InRounds, Feeds
  <2>3. CASE Publish \/ Sleep \/ Wake
    BY <1>a, <2>3 DEF Publish, Sleep, Wake, InRounds, fetches
  <2> QED BY <2>1, <2>2, <2>3 DEF Updater
<1>3. ASSUME NEW f \in Feeds PROVE Sound(f)'
  <2>a. /\ Orderly(f) /\ FileYoung(f) /\ FetchedYoung(f) /\ InUseYoung(f)
        /\ FailsWithoutFile(f) /\ TornBefore(f) /\ MissingBriefly(f)
    BY <1>a DEF Sound
  <2>b. /\ stage[f] \in {"idle", "pending", "reading", "requesting", "creating",
                         "writing", "ok", "failed"}
        /\ fetched[f] \in Int /\ db[f] \in Int
        /\ cache[f].age \in Int /\ cache[f].age >= -1 /\ cache[f].data \in Int /\ cache[f].data >= -1
        /\ cache[f].whole \in BOOLEAN
        /\ goodFor[f] \in Nat
        /\ left \in 0..(TTL - 1) /\ spent \in 0..MaxRefresh
        /\ TTL \in Nat /\ TTL >= 1 /\ MaxRefresh \in Nat
    BY <1>a, Bounds, TypesAt
  <2>1. CASE StartRefresh
    <3>1. /\ pc = "top" /\ spent' = 0 /\ pc' \in {"refreshing", "done"}
          /\ pc' = "refreshing" => stage'[f] \in {"idle", "pending"} /\ fetched'[f] = NoData
          /\ pc' = "done" => UNCHANGED <<stage, fetched>>
      BY <2>1 DEF StartRefresh, Empty, fetches, shared, environment
    <3>2. UNCHANGED <<left, db, cache, reachable, diskOk, goodFor>>
      BY <2>1 DEF StartRefresh, Empty, fetches, shared, environment
    <3>3. Orderly(f)' /\ FileYoung(f)' /\ FetchedYoung(f)' /\ InUseYoung(f)'
      BY <2>a, <2>b, <3>1, <3>2 DEF Orderly, FileYoung, FetchedYoung, InUseYoung, NoData
    <3>4. FailsWithoutFile(f)'
      BY <2>a, <2>b, <3>1, <3>2 DEF Orderly, FailsWithoutFile, Expired, NoData
    <3>5. TornBefore(f)' /\ MissingBriefly(f)'
      BY <2>a, <2>b, <3>1, <3>2 DEF Orderly, TornBefore, MissingBriefly, Expired, NoData
    <3> QED BY <3>3, <3>4, <3>5 DEF Sound
  <2>2. CASE SecondRound
    <3>1. /\ pc = "refreshing"
          /\ UNCHANGED stage[f] \/ (stage[f] = "idle" /\ stage'[f] = "pending")
      BY <1>a, <2>2 DEF SecondRound, InRounds, TypeOK, FetchesOK, updater, shared, environment
    <3>2. UNCHANGED <<pc, left, spent, fetched, db, cache, reachable, diskOk, goodFor>>
      BY <2>2 DEF SecondRound, InRounds, TypeOK, FetchesOK, updater, shared, environment
    <3>3. Orderly(f)' /\ FileYoung(f)' /\ FetchedYoung(f)' /\ InUseYoung(f)'
      BY <2>a, <2>b, <3>1, <3>2 DEF Orderly, FileYoung, FetchedYoung, InUseYoung, NoData
    <3>4. FailsWithoutFile(f)'
      BY <2>a, <2>b, <3>1, <3>2 DEF Orderly, FailsWithoutFile, Expired, NoData
    <3>5. TornBefore(f)' /\ MissingBriefly(f)'
      BY <2>a, <2>b, <3>1, <3>2 DEF Orderly, TornBefore, MissingBriefly, Expired, NoData
    <3> QED BY <3>3, <3>4, <3>5 DEF Sound
  <2>3. CASE Publish
    <3>1. /\ stage[f] \in {"ok", "failed"} /\ db'[f] = fetched[f]
          /\ pc = "refreshing" /\ pc' = "loaded"
      BY <2>3 DEF Publish, Over, fetches, environment
    <3>2. UNCHANGED <<left, spent, stage, fetched, cache, reachable, diskOk, goodFor>>
      BY <2>3 DEF Publish, Over, fetches, environment
    <3>3. Orderly(f)' /\ FileYoung(f)' /\ FetchedYoung(f)' /\ InUseYoung(f)'
      BY <2>a, <2>b, <3>1, <3>2 DEF Orderly, FileYoung, FetchedYoung, InUseYoung, NoData
    <3>4. FailsWithoutFile(f)'
      BY <2>a, <2>b, <3>1, <3>2 DEF Orderly, FailsWithoutFile, Expired, NoData
    <3>5. TornBefore(f)' /\ MissingBriefly(f)'
      BY <2>a, <2>b, <3>1, <3>2 DEF Orderly, TornBefore, MissingBriefly, Expired, NoData
    <3> QED BY <3>3, <3>4, <3>5 DEF Sound
  <2>4. CASE Sleep
    <3>1. pc = "loaded" /\ pc' = "sleeping" /\ left' = TTL - 1
      BY <2>4 DEF Sleep, fetches, environment
    <3>2. UNCHANGED <<spent, stage, fetched, db, cache, reachable, diskOk, goodFor>>
      BY <2>4 DEF Sleep, fetches, environment
    <3>3. Orderly(f)' /\ FileYoung(f)' /\ FetchedYoung(f)' /\ InUseYoung(f)'
      BY <2>a, <2>b, <3>1, <3>2 DEF Orderly, FileYoung, FetchedYoung, InUseYoung, NoData
    <3>4. FailsWithoutFile(f)'
      BY <2>a, <2>b, <3>1, <3>2 DEF Orderly, FailsWithoutFile, Expired, NoData
    <3>5. TornBefore(f)' /\ MissingBriefly(f)'
      BY <2>a, <2>b, <3>1, <3>2 DEF Orderly, TornBefore, MissingBriefly, Expired, NoData
    <3> QED BY <3>3, <3>4, <3>5 DEF Sound
  <2>5. CASE Wake
    <3>1. pc = "sleeping" /\ pc' = "top"
      BY <2>5 DEF Wake, fetches, shared, environment
    <3>2. UNCHANGED <<left, spent, stage, fetched, db, cache, reachable, diskOk, goodFor>>
      BY <2>5 DEF Wake, fetches, shared, environment
    <3>3. Orderly(f)' /\ FileYoung(f)' /\ FetchedYoung(f)' /\ InUseYoung(f)'
      BY <2>a, <2>b, <3>1, <3>2 DEF Orderly, FileYoung, FetchedYoung, InUseYoung, NoData
    <3>4. FailsWithoutFile(f)'
      BY <2>a, <2>b, <3>1, <3>2 DEF Orderly, FailsWithoutFile, Expired, NoData
    <3>5. TornBefore(f)' /\ MissingBriefly(f)'
      BY <2>a, <2>b, <3>1, <3>2 DEF Orderly, TornBefore, MissingBriefly, Expired, NoData
    <3> QED BY <3>3, <3>4, <3>5 DEF Sound
  <2> QED BY <2>1, <2>2, <2>3, <2>4, <2>5 DEF Updater
<1> QED BY <1>1, <1>2, <1>3 DEF IInv

(***************************************************************************)
(* What a step of a fetch does to its feed, in the terms of the invariant. *)
(***************************************************************************)
FetchMoves(f) ==
    \/ /\ stage[f] = "pending" /\ UNCHANGED <<fetched[f], cache[f]>>
       /\ IF Expired(f) THEN stage'[f] = "requesting" ELSE stage'[f] = "reading"
    \/ /\ stage[f] = "reading" /\ cache[f].whole /\ stage'[f] = "ok"
       /\ fetched'[f] = cache[f].data /\ UNCHANGED cache[f]
    \/ /\ stage[f] = "reading" /\ ~cache[f].whole /\ stage'[f] = "failed"
       /\ UNCHANGED <<fetched[f], cache[f]>>
    \/ /\ stage[f] = "requesting" /\ stage'[f] = "creating"
       /\ fetched'[f] = 0 /\ UNCHANGED cache[f]
    \/ /\ stage[f] = "requesting" /\ ~reachable[f] /\ stage'[f] = "failed"
       /\ UNCHANGED <<fetched[f], cache[f]>>
    \/ /\ stage[f] \in {"creating", "writing"} /\ ~diskOk /\ stage'[f] = "failed"
       /\ fetched'[f] = NoData /\ UNCHANGED cache[f]
    \/ /\ stage[f] = "creating" /\ stage'[f] = "writing" /\ UNCHANGED fetched[f]
       /\ cache'[f] = [age |-> 0, data |-> NoData, whole |-> FALSE]
    \/ /\ stage[f] = "writing" /\ stage'[f] = "ok" /\ UNCHANGED fetched[f]
       /\ cache'[f] = [age |-> 0, data |-> fetched[f], whole |-> TRUE]

LEMMA FetchStepMoves ==
    ASSUME TypeOK, NEW f \in Feeds, Orderly(f), FetchStep(f)
    PROVE  /\ UNCHANGED <<pc, left, spent, db, ready, reachable, diskOk, shutdown,
                          crashes, goodFor>>
           /\ \A g \in Feeds \ {f} : UNCHANGED <<stage[g], fetched[g], cache[g]>>
           /\ DOMAIN stage' = Feeds /\ DOMAIN fetched' = Feeds /\ DOMAIN cache' = Feeds
           /\ stage' = [g \in Feeds |-> stage'[g]]
           /\ fetched' = [g \in Feeds |-> fetched'[g]]
           /\ cache' = [g \in Feeds |-> cache'[g]]
           /\ FetchMoves(f)
<1> USE DEF TypeOK, FetchesOK, FilesOK, StageOf, updater, shared, environment, FetchMoves
<1>1. CASE CheckCache(f)
  <2>1. /\ cache[f] = [age |-> cache[f].age, data |-> cache[f].data, whole |-> cache[f].whole]
        /\ cache[f].age \in Int /\ cache[f].whole \in BOOLEAN
    BY Bounds
  <2>2. cache[f] = NoFile <=> cache[f].age = NoData
    BY <2>1 DEF Orderly, NoFile, NoData
  <2>3. is_cache_valid(f) <=> ~Expired(f)
    BY <2>1, <2>2, Bounds DEF is_cache_valid, Expired
  <2> QED BY <1>1, <2>3 DEF CheckCache
<1>2. CASE ReadCache(f)
  BY <1>2 DEF ReadCache
<1>3. CASE Request(f)
  BY <1>3 DEF Request
<1>4. CASE CreateFile(f)
  BY <1>4 DEF CreateFile
<1>5. CASE WriteFile(f)
  BY <1>5 DEF WriteFile
<1> QED BY <1>1, <1>2, <1>3, <1>4, <1>5 DEF FetchStep
(***************************************************************************)
(* Steps of the fetch of one feed.                                         *)
(***************************************************************************)
LEMMA FetchStepSound == ASSUME IInv, NEW e \in Feeds, FetchStep(e) PROVE IInv'
<1>a. TypeOK /\ InRounds /\ \A f \in Feeds : Sound(f)
  BY DEF IInv
<1>b. /\ UNCHANGED <<pc, left, spent, db, ready, reachable, diskOk, shutdown, crashes, goodFor>>
      /\ \A f \in Feeds \ {e} : UNCHANGED <<stage[f], fetched[f], cache[f]>>
      /\ stage' = [f \in Feeds |-> stage'[f]]
      /\ fetched' = [f \in Feeds |-> fetched'[f]]
      /\ cache' = [f \in Feeds |-> cache'[f]]
      /\ FetchMoves(e)
  BY <1>a, FetchStepMoves DEF Sound
<1>c. /\ stage'[e] \in {"reading", "requesting", "creating", "writing", "ok", "failed"}
      /\ stage[e] # "idle"
  BY <1>b DEF FetchMoves
<1>1. TypeOK'
  <2>1. UpdaterOK' /\ WorldOK'
    BY <1>a, <1>b DEF TypeOK, UpdaterOK, WorldOK
  <2>2. fetched'[e] \in -1..(DataAgeMax + 1)
    <3>1. FetchedYoung(e) /\ Orderly(e)
      BY <1>a DEF Sound
    <3>2. stage[e] \notin {"idle", "ok", "failed"}
      BY <1>b DEF FetchMoves
    <3>3. pc = "refreshing"
      BY <3>1, <3>2 DEF Orderly
    <3>4. /\ cache[e].data \in -1..(FileDataMax + 1) /\ fetched[e] \in -1..(DataAgeMax + 1)
          /\ spent \in 0..MaxRefresh
      BY <1>a DEF TypeOK, FilesOK, FetchesOK, UpdaterOK
    <3> QED BY <1>b, <3>1, <3>3, <3>4, Bounds DEF FetchMoves, FetchedYoung, NoData
  <2>3. FetchesOK'
    BY <1>a, <1>b, <1>c, <2>2 DEF TypeOK, FetchesOK
  <2>4. cache'[e] \in [age : -1..(TTL + 1), data : -1..(FileDataMax + 1), whole : BOOLEAN]
    <3>1. cache[e] \in [age : -1..(TTL + 1), data : -1..(FileDataMax + 1), whole : BOOLEAN]
      BY <1>a DEF TypeOK, FilesOK
    <3>2. CASE stage[e] = "creating" /\ cache'[e] = [age |-> 0, data |-> NoData, whole |-> FALSE]
      BY <3>2, Bounds DEF NoData
    <3>3. CASE stage[e] = "writing" /\ cache'[e] = [age |-> 0, data |-> fetched[e], whole |-> TRUE]
      <4>1. FetchedYoung(e) /\ Orderly(e) /\ fetched[e] \in -1..(DataAgeMax + 1)
            /\ spent \in 0..MaxRefresh
        BY <1>a DEF Sound, TypeOK, FetchesOK, UpdaterOK
      <4>2. fetched[e] \in -1..(FileDataMax + 1)
        BY <3>3, <4>1, Bounds DEF FetchedYoung, Orderly
      <4> QED BY <3>3, <4>2, Bounds
    <3> QED BY <1>b, <3>1, <3>2, <3>3 DEF FetchMoves
  <2>5. FilesOK'
    BY <1>a, <1>b, <2>4 DEF TypeOK, FilesOK
  <2> QED BY <2>1, <2>3, <2>5 DEF TypeOK
<1>2. InRounds'
  BY <1>a, <1>b, <1>c DEF InRounds, Feeds
<1>3. ASSUME NEW f \in Feeds PROVE Sound(f)'
  <2>a. /\ Orderly(f) /\ FileYoung(f) /\ FetchedYoung(f) /\ InUseYoung(f)
        /\ FailsWithoutFile(f) /\ TornBefore(f) /\ MissingBriefly(f)
    BY <1>a DEF Sound
  <2>b. /\ stage[f] \in {"idle", "pending", "reading", "requesting", "creating",
                         "writing", "ok", "failed"}
        /\ fetched[f] \in Int /\ db[f] \in Int
        /\ cache[f].age \in Int /\ cache[f].age >= -1 /\ cache[f].data \in Int /\ cache[f].data >= -1
        /\ cache[f].whole \in BOOLEAN
        /\ goodFor[f] \in Nat
        /\ left \in 0..(TTL - 1) /\ spent \in 0..MaxRefresh
        /\ TTL \in Nat /\ TTL >= 1 /\ MaxRefresh \in Nat
    BY <1>a, Bounds, TypesAt
  <2>1. CASE f # e
    <3>1. UNCHANGED <<stage[f], fetched[f], cache[f]>>
      BY <1>b, <2>1
    <3> QED BY <1>b, <2>a, <3>1 DEF Sound, Orderly, FileYoung, FetchedYoung, InUseYoung,
               FailsWithoutFile, TornBefore, MissingBriefly, Expired
  <2>2. CASE f = e
    <3>1. FetchMoves(f)
      BY <1>b, <2>2
    <3>2. UNCHANGED <<pc, left, spent, db[f], reachable[f], diskOk, goodFor[f]>>
      BY <1>b
    <3>3. Orderly(f)' /\ FileYoung(f)' /\ FetchedYoung(f)' /\ InUseYoung(f)'
      BY <2>a, <2>b, <3>1, <3>2 DEF FetchMoves, Orderly, FileYoung, FetchedYoung, InUseYoung, Expired, NoData
    <3>4. FailsWithoutFile(f)'
      BY <2>a, <2>b, <3>1, <3>2 DEF FetchMoves, Orderly, FailsWithoutFile, Expired, NoData
    <3>5. TornBefore(f)' /\ MissingBriefly(f)'
      BY <2>a, <2>b, <3>1, <3>2 DEF FetchMoves, Orderly, TornBefore, MissingBriefly, Expired, NoData
    <3> QED BY <3>3, <3>4, <3>5 DEF Sound
  <2> QED BY <2>1, <2>2
<1> QED BY <1>1, <1>2, <1>3 DEF IInv

(***************************************************************************)
(* A shutdown request, and changes of the network and the disk: time in    *)
(* which something is in the way does not count.                           *)
(***************************************************************************)
LEMMA WorldStepSound ==
    ASSUME IInv, Shutdown \/ (\E e \in Feeds : FeedChanges(e)) \/ DiskChanges
    PROVE  IInv'
<1>a. TypeOK /\ InRounds /\ \A f \in Feeds : Sound(f)
  BY DEF IInv
<1>b. /\ UNCHANGED <<pc, left, spent, stage, fetched, db, ready, cache, crashes>>
      /\ reachable' \in [Feeds -> BOOLEAN] /\ diskOk' \in BOOLEAN /\ shutdown' \in BOOLEAN
      /\ goodFor' = [f \in Feeds |-> goodFor'[f]]
      /\ \A f \in Feeds : \/ goodFor'[f] = 0
                          \/ UNCHANGED <<goodFor[f], reachable[f], diskOk>>
  <2> USE <1>a DEF TypeOK, WorldOK, Clear, updater, fetches, shared
  <2>1. CASE Shutdown
    BY <2>1 DEF Shutdown
  <2>2. CASE \E e \in Feeds : FeedChanges(e)
    BY <2>2 DEF FeedChanges
  <2>3. CASE DiskChanges
    BY <2>3 DEF DiskChanges
  <2> QED BY <2>1, <2>2, <2>3
<1>1. TypeOK'
  BY <1>a, <1>b, Bounds DEF TypeOK, UpdaterOK, FetchesOK, FilesOK, WorldOK
<1>2. InRounds'
  BY <1>a, <1>b DEF InRounds
<1>3. ASSUME NEW f \in Feeds PROVE Sound(f)'
  <2>a. /\ Orderly(f) /\ FileYoung(f) /\ FetchedYoung(f) /\ InUseYoung(f)
        /\ FailsWithoutFile(f) /\ TornBefore(f) /\ MissingBriefly(f)
    BY <1>a DEF Sound
  <2>b. /\ stage[f] \in {"idle", "pending", "reading", "requesting", "creating",
                         "writing", "ok", "failed"}
        /\ fetched[f] \in Int /\ db[f] \in Int
        /\ cache[f].age \in Int /\ cache[f].age >= -1 /\ cache[f].data \in Int /\ cache[f].data >= -1
        /\ cache[f].whole \in BOOLEAN
        /\ goodFor[f] \in Nat
        /\ left \in 0..(TTL - 1) /\ spent \in 0..MaxRefresh
        /\ TTL \in Nat /\ TTL >= 1 /\ MaxRefresh \in Nat
    BY <1>a, Bounds, TypesAt
  <2>1. \/ goodFor'[f] = 0
        \/ UNCHANGED <<goodFor[f], reachable[f], diskOk>>
    BY <1>b
  <2>2. UNCHANGED <<pc, left, spent, stage, fetched, db, cache>>
    BY <1>b
  <2>3. Orderly(f)' /\ FileYoung(f)' /\ FetchedYoung(f)' /\ InUseYoung(f)'
    BY <2>a, <2>b, <2>1, <2>2 DEF Orderly, FileYoung, FetchedYoung, InUseYoung, NoData
  <2>4. FailsWithoutFile(f)'
    BY <2>a, <2>b, <2>1, <2>2 DEF Orderly, FailsWithoutFile, Expired, NoData
  <2>5. TornBefore(f)' /\ MissingBriefly(f)'
    BY <2>a, <2>b, <2>1, <2>2 DEF Orderly, TornBefore, MissingBriefly, Expired, NoData
  <2> QED BY <2>3, <2>4, <2>5 DEF Sound
<1> QED BY <1>1, <1>2, <1>3 DEF IInv

(***************************************************************************)
(* A crash forgets everything but the files.                               *)
(***************************************************************************)
LEMMA CrashSound == IInv /\ Crash => IInv'
<1> SUFFICES ASSUME IInv, Crash PROVE IInv'
  OBVIOUS
<1>a. TypeOK /\ InRounds /\ \A f \in Feeds : Sound(f)
  BY DEF IInv
<1>b. /\ pc' = "top" /\ left' = 0 /\ spent' = 0 /\ ready' = FALSE
      /\ stage' = [f \in Feeds |-> "idle"]
      /\ fetched' = [f \in Feeds |-> NoData] /\ db' = [f \in Feeds |-> NoData]
      /\ goodFor' = [f \in Feeds |-> 0] /\ crashes' \in 0..MaxCrashes
      /\ UNCHANGED <<cache, reachable, diskOk, shutdown>>
  BY <1>a, Bounds DEF Crash, Empty, Clear, TypeOK, WorldOK
<1>1. TypeOK'
  <2>1. /\ -1 \in -1..(DataAgeMax + 1) /\ 0 \in 0..(RecoveryMax + 1)
        /\ 0 \in 0..(TTL - 1) /\ 0 \in 0..MaxRefresh
    BY Bounds
  <2> QED BY <1>a, <1>b, <2>1 DEF TypeOK, UpdaterOK, FetchesOK, FilesOK, WorldOK, NoData
<1>2. InRounds'
  BY <1>b DEF InRounds, Feeds
<1>3. ASSUME NEW f \in Feeds PROVE Sound(f)'
  <2>a. /\ Orderly(f) /\ FileYoung(f) /\ FetchedYoung(f) /\ InUseYoung(f)
        /\ FailsWithoutFile(f) /\ TornBefore(f) /\ MissingBriefly(f)
    BY <1>a DEF Sound
  <2>b. /\ stage[f] \in {"idle", "pending", "reading", "requesting", "creating",
                         "writing", "ok", "failed"}
        /\ fetched[f] \in Int /\ db[f] \in Int
        /\ cache[f].age \in Int /\ cache[f].age >= -1 /\ cache[f].data \in Int /\ cache[f].data >= -1
        /\ cache[f].whole \in BOOLEAN
        /\ goodFor[f] \in Nat
        /\ left \in 0..(TTL - 1) /\ spent \in 0..MaxRefresh
        /\ TTL \in Nat /\ TTL >= 1 /\ MaxRefresh \in Nat
    BY <1>a, Bounds, TypesAt
  <2>1. /\ stage'[f] = "idle" /\ fetched'[f] = NoData /\ db'[f] = NoData
        /\ goodFor'[f] = 0 /\ pc' = "top"
    BY <1>b
  <2>2. UNCHANGED cache
    BY <1>b
  <2>3. Orderly(f)' /\ FileYoung(f)' /\ FetchedYoung(f)' /\ InUseYoung(f)'
    BY <2>a, <2>b, <2>1, <2>2 DEF Orderly, FileYoung, FetchedYoung, InUseYoung, NoData
  <2>4. FailsWithoutFile(f)'
    BY <2>a, <2>b, <2>1, <2>2 DEF Orderly, FailsWithoutFile, Expired, NoData
  <2>5. TornBefore(f)' /\ MissingBriefly(f)'
    BY <2>a, <2>b, <2>1, <2>2 DEF Orderly, TornBefore, MissingBriefly, Expired, NoData
  <2> QED BY <2>3, <2>4, <2>5 DEF Sound
<1> QED BY <1>1, <1>2, <1>3 DEF IInv

(***************************************************************************)
(* A unit of time passes, in a refresh or in a sleep.                      *)
(***************************************************************************)
LEMMA TickSound == IInv /\ Tick => IInv'
<1> SUFFICES ASSUME IInv, Tick PROVE IInv'
  OBVIOUS
<1>a. TypeOK /\ InRounds /\ \A f \in Feeds : Sound(f)
  BY DEF IInv
<1>b. /\ \/ pc = "refreshing" /\ spent < MaxRefresh /\ spent' = spent + 1 /\ UNCHANGED left
         \/ pc = "sleeping" /\ left > 0 /\ left' = left - 1 /\ UNCHANGED spent
      /\ UNCHANGED <<pc, stage, ready, reachable, diskOk, shutdown, crashes>>
  BY DEF Tick, environment
<1>1. TypeOK'
  <2>1. UpdaterOK'
    BY <1>a, <1>b, Bounds DEF TypeOK, UpdaterOK
  <2>2. FetchesOK'
    <3>1. \A age \in -1..(DataAgeMax + 1) : Older(age, DataAgeMax) \in -1..(DataAgeMax + 1)
      BY Bounds DEF Older, NoData
    <3> QED BY <1>a, <1>b, <3>1 DEF Tick, TypeOK, FetchesOK
  <2>3. FilesOK'
    <3> SUFFICES ASSUME NEW f \in Feeds
                 PROVE  [cache[f] EXCEPT !.age = Older(@, TTL), !.data = Older(@, FileDataMax)]
                           \in [age : -1..(TTL + 1), data : -1..(FileDataMax + 1), whole : BOOLEAN]
      BY DEF Tick, FilesOK
    <3>1. cache[f] \in [age : -1..(TTL + 1), data : -1..(FileDataMax + 1), whole : BOOLEAN]
      BY <1>a DEF TypeOK, FilesOK
    <3>2. Older(cache[f].age, TTL) \in -1..(TTL + 1)
          /\ Older(cache[f].data, FileDataMax) \in -1..(FileDataMax + 1)
      BY <3>1, Bounds DEF Older, NoData
    <3> QED BY <3>1, <3>2
  <2>4. WorldOK'
    <3>1. \A n \in 0..(RecoveryMax + 1) : n <= RecoveryMax => n + 1 \in 0..(RecoveryMax + 1)
      BY Bounds
    <3> QED BY <1>a, <1>b, <3>1 DEF Tick, TypeOK, WorldOK
  <2> QED BY <2>1, <2>2, <2>3, <2>4 DEF TypeOK
<1>2. InRounds'
  BY <1>a, <1>b DEF InRounds
<1>3. ASSUME NEW f \in Feeds PROVE Sound(f)'
  <2>a. /\ Orderly(f) /\ FileYoung(f) /\ FetchedYoung(f) /\ InUseYoung(f)
        /\ FailsWithoutFile(f) /\ TornBefore(f) /\ MissingBriefly(f)
    BY <1>a DEF Sound
  <2>b. /\ stage[f] \in {"idle", "pending", "reading", "requesting", "creating",
                         "writing", "ok", "failed"}
        /\ fetched[f] \in Int /\ db[f] \in Int
        /\ cache[f].age \in Int /\ cache[f].age >= -1 /\ cache[f].data \in Int /\ cache[f].data >= -1
        /\ cache[f].whole \in BOOLEAN
        /\ goodFor[f] \in Nat
        /\ left \in 0..(TTL - 1) /\ spent \in 0..MaxRefresh
        /\ TTL \in Nat /\ TTL >= 1 /\ MaxRefresh \in Nat
    BY <1>a, Bounds, TypesAt
  <2>1. /\ fetched'[f] = Older(fetched[f], DataAgeMax) /\ db'[f] = Older(db[f], DataAgeMax)
        /\ cache'[f].age = Older(cache[f].age, TTL) /\ cache'[f].whole = cache[f].whole
        /\ cache'[f].data = Older(cache[f].data, FileDataMax)
        /\ \/ reachable[f] /\ diskOk /\ goodFor'[f] = goodFor[f] + 1
           \/ goodFor'[f] = goodFor[f] /\ goodFor[f] > RecoveryMax
           \/ goodFor'[f] = goodFor[f] /\ goodFor[f] = 0 /\ (~reachable[f] \/ ~diskOk)
    <3>1. cache[f] \in [age : -1..(TTL + 1), data : -1..(FileDataMax + 1), whole : BOOLEAN]
      BY <1>a DEF TypeOK, FilesOK
    <3>2. /\ cache'[f].age = Older(cache[f].age, TTL) /\ cache'[f].whole = cache[f].whole
          /\ cache'[f].data = Older(cache[f].data, FileDataMax)
      BY <3>1 DEF Tick
    <3>3. /\ fetched'[f] = Older(fetched[f], DataAgeMax) /\ db'[f] = Older(db[f], DataAgeMax)
          /\ goodFor'[f] = IF reachable[f] /\ diskOk /\ goodFor[f] <= RecoveryMax
                            THEN goodFor[f] + 1 ELSE goodFor[f]
      BY DEF Tick
    <3>4. goodFor[f] <= RecoveryMax \/ goodFor[f] > RecoveryMax
      BY <2>b, Bounds
    <3>5. ~reachable[f] \/ ~diskOk => goodFor[f] = 0
      BY <2>a DEF TornBefore
    <3> QED BY <3>2, <3>3, <3>4, <3>5
  <2>2. /\ fetched[f] = NoData <=> fetched'[f] = NoData
        /\ fetched'[f] \in Int /\ fetched'[f] <= fetched[f] + 1
        /\ db[f] = NoData <=> db'[f] = NoData
        /\ db'[f] \in Int /\ db'[f] <= db[f] + 1
    BY <1>a, <2>1, Bounds DEF Older, NoData, TypeOK, FetchesOK
  <2>3. /\ cache'[f].whole = cache[f].whole
        /\ cache[f].age = NoData <=> cache'[f].age = NoData
        /\ cache[f].age # NoData =>
              \/ cache'[f].age = cache[f].age + 1
              \/ cache'[f].age = cache[f].age /\ cache[f].age > TTL
    BY <2>b, <2>1, Bounds DEF Older, NoData
  <2>d. /\ cache[f].data = NoData <=> cache'[f].data = NoData
        /\ cache'[f].data \in Int /\ cache'[f].data <= cache[f].data + 1
    BY <2>b, <2>1, Bounds DEF Older, NoData
  <2>4. Orderly(f)' /\ FileYoung(f)' /\ FetchedYoung(f)' /\ InUseYoung(f)'
    <3>1. Orderly(f)'
      BY <2>a, <2>b, <1>b, <2>2, <2>3, <2>d DEF Orderly
    <3>2. FileYoung(f)'
      BY <2>a, <2>b, <2>3, <2>d DEF FileYoung, Orderly, NoData
    <3>3. FetchedYoung(f)'
      BY <2>a, <2>b, <1>b, <2>2, <2>d DEF FetchedYoung, Orderly
    <3>4. InUseYoung(f)'
      BY <2>a, <2>b, <1>b, <2>2 DEF InUseYoung
    <3> QED BY <3>1, <3>2, <3>3, <3>4
  <2>5. FailsWithoutFile(f)'
    BY <2>a, <2>b, <1>b, <2>1, <2>2, <2>3 DEF Orderly, FailsWithoutFile, Expired, NoData
  <2>6. TornBefore(f)' /\ MissingBriefly(f)'
    BY <2>a, <2>b, <1>b, <2>1, <2>2, <2>3 DEF Orderly, TornBefore, MissingBriefly, Expired, NoData
  <2> QED BY <2>4, <2>5, <2>6 DEF Sound
<1> QED BY <1>1, <1>2, <1>3 DEF IInv

LEMMA Step == IInv /\ [Next]_vars => IInv'
<1> SUFFICES ASSUME IInv, [Next]_vars PROVE IInv'
  OBVIOUS
<1>1. CASE UNCHANGED vars
  <2> USE <1>1 DEF vars, updater, fetches, shared, environment
  <2>1. TypeOK'
    BY DEF IInv, TypeOK, UpdaterOK, FetchesOK, FilesOK, WorldOK
  <2>2. InRounds'
    BY DEF IInv, InRounds
  <2>3. ASSUME NEW f \in Feeds PROVE Sound(f)'
    <3>1. Sound(f)
      BY DEF IInv
    <3> QED BY <3>1 DEF Sound, Orderly, FileYoung, FetchedYoung, InUseYoung, FailsWithoutFile,
                        TornBefore, MissingBriefly, Expired
  <2> QED BY <2>1, <2>2, <2>3 DEF IInv
<1> QED BY <1>1, UpdaterStep, FetchStepSound, WorldStepSound, CrashSound, TickSound DEF Next

(***************************************************************************)
(* Whatever feeds, disk and process do, nothing in use was downloaded      *)
(* longer ago than two sleeps and three refreshes.                         *)
(***************************************************************************)
THEOREM DataNeverTooOld == Spec => []DataAgeBounded
<1>1. IInv => DataAgeBounded
  <2> SUFFICES ASSUME IInv, NEW f \in Feeds PROVE db[f] <= DataAgeMax
    BY DEF DataAgeBounded
  <2>1. InUseYoung(f) /\ TypeOK
    BY DEF IInv, Sound
  <2>2. /\ pc \in {"top", "refreshing", "loaded", "sleeping", "done"} /\ db[f] \in Int
        /\ left \in 0..(TTL - 1) /\ spent \in 0..MaxRefresh
    BY <2>1, TypesAt DEF TypeOK, UpdaterOK
  <2> QED BY <2>1, <2>2, Bounds DEF InUseYoung
<1> QED BY <1>1, Initially, Step, PTL DEF Spec

(***************************************************************************)
(* Good times of more than two sleeps and two refreshes bring a feed back, *)
(* whatever the crash or the full disk before them left of its file.       *)
(***************************************************************************)
THEOREM TornFileHeals == Spec => []RecoversInTime
<1>1. IInv => RecoversInTime
  <2> SUFFICES ASSUME IInv, NEW f \in Feeds, db[f] = NoData PROVE ~(goodFor[f] > RecoveryMax)
    BY DEF RecoversInTime
  <2>1. MissingBriefly(f) /\ TypeOK
    BY DEF IInv, Sound
  <2>2. /\ pc \in {"top", "refreshing", "loaded", "sleeping", "done"} /\ goodFor[f] \in Nat
        /\ left \in 0..(TTL - 1) /\ spent \in 0..MaxRefresh
    BY <2>1, TypesAt DEF TypeOK, UpdaterOK
  <2> QED BY <2>1, <2>2, Bounds DEF MissingBriefly
<1> QED BY <1>1, Initially, Step, PTL DEF Spec

(***************************************************************************)
(* No refresh loses a feed whose cache file is whole and valid.            *)
(***************************************************************************)
THEOREM ValidFileSurvives == Spec => ValidCacheCarriesOver
<1> DEFINE Kept == \A f \in Feeds :
                      pc = "loaded" /\ pc' = "sleeping" /\ cache[f].whole /\ cache[f].age < TTL
                         => db'[f] # NoData
<1>1. IInv /\ [Next]_vars => [Kept]_vars
  <2> SUFFICES ASSUME IInv, Next, pc = "loaded", pc' = "sleeping",
                      NEW f \in Feeds, cache[f].whole, cache[f].age < TTL
               PROVE  db'[f] # NoData
    OBVIOUS
  <2>1. Sound(f) /\ TypeOK
    BY DEF IInv
  <2>2a. cache[f].age \in Int /\ cache[f].age < TTL
    BY <2>1, TypesAt
  <2>2. ~Expired(f)
    <3>1. cache[f].age # NoData
      BY <2>1 DEF Sound, Orderly
    <3>2. ~(cache[f].age >= TTL)
      BY <2>2a, Bounds
    <3> QED BY <3>1, <3>2 DEF Expired
  <2>3. db[f] # NoData
    BY <2>1, <2>2 DEF Sound, FailsWithoutFile
  <2>4. db' = db
    <3>1. CASE Updater
      BY <3>1 DEF Updater, StartRefresh, SecondRound, Publish, Sleep, Wake, updater
    <3>2. CASE \E e \in Feeds : FetchStep(e)
      BY <3>2 DEF FetchStep, CheckCache, ReadCache, Request, CreateFile, WriteFile, updater
    <3>3. CASE Shutdown \/ (\E e \in Feeds : FeedChanges(e)) \/ DiskChanges
      BY <3>3 DEF Shutdown, FeedChanges, DiskChanges, updater
    <3>4. CASE Crash \/ Tick
      BY <3>4 DEF Crash, Tick
    <3> QED BY <3>1, <3>2, <3>3, <3>4 DEF Next
  <2> QED BY <2>3, <2>4
<1> QED BY <1>1, Initially, Step, PTL DEF Spec, ValidCacheCarriesOver
=============================================================================
