-------------------------- MODULE RecordRun_proofs --------------------------
(***************************************************************************)
(* The safety properties of RecordRun, for every configuration, every set  *)
(* of words, lines and feeds and any number of refreshes: only the UDP     *)
(* service judges events before the first refresh, an event reports        *)
(* exactly the indicators that stand in what was received and in the feeds *)
(* of one database, every filled column and every layer arrives, and an    *)
(* alert tells each value once.                                            *)
(***************************************************************************)
EXTENDS RecordRun, TLAPS, SequenceTheorems, FiniteSetTheorems, FunctionTheorems

(***************************************************************************)
(* intel_ready promises a loaded database if the feeds are enabled, since  *)
(* it is set only after the database was stored; a program that has passed *)
(* the wait has seen the flag, --stdin has copied what it promises, and    *)
(* nothing is handled before.                                              *)
(***************************************************************************)
Passed == phase \notin {"off", "loading", "refused"}

FlagPromises == (ready \/ updater = "stored") /\ FeedsEnabled => listing # None

WaitOver ==
    Passed /\ mode # "udp" /\ FeedsEnabled =>
        listing # None /\ (mode = "stdin" => basis # None)

NothingEarly == latest # Nothing => Passed

IInv == FlagPromises /\ WaitOver /\ NothingEarly /\ JudgedAfterLoad

(***************************************************************************)
(* Nothing is handled before the program has been started.                 *)
(***************************************************************************)
LEMMA Initially == Init => IInv
BY DEF Init, IInv, FlagPromises, WaitOver, NothingEarly, JudgedAfterLoad, Passed

(***************************************************************************)
(* Every step of the program, of its workers and of the updater keeps it.  *)
(***************************************************************************)
LEMMA Inductive == IInv /\ [Next]_vars => IInv'
<1> SUFFICES ASSUME IInv, [Next]_vars PROVE IInv'
  OBVIOUS
<1> USE DEF IInv, FlagPromises, WaitOver, NothingEarly, JudgedAfterLoad, Passed, FeedsEnabled,
            start, refreshed, judging, work
<1>1. ASSUME NEW invocation \in Invocations, Start(invocation) PROVE IInv'
  BY <1>1 DEF Start
<1>2. CASE MainReady
  BY <1>2 DEF MainReady
<1>3. CASE EndOfStdin \/ JoinUpdater
  BY <1>3 DEF EndOfStdin, JoinUpdater
<1>4. ASSUME NEW answers \in FeedAnswers, Refresh(answers) PROVE IInv'
  BY <1>4, RecordAssumption DEF RecordAssumption, Refresh
<1>5. CASE StartRefresh \/ SetReady \/ UpdaterWakes \/ UpdaterQuits
  BY <1>5 DEF StartRefresh, SetReady, UpdaterWakes, UpdaterQuits
<1>6. CASE CloseStdin
  BY <1>6 DEF CloseStdin
<1>7. ASSUME NEW w \in Workers, NEW skip \in BOOLEAN, NEW datagram \in SyslogLines,
             HandleDatagram(w, datagram, skip)
      PROVE IInv'
  BY <1>7 DEF HandleDatagram
<1>8. ASSUME NEW w \in Workers, NEW skip \in BOOLEAN, NEW ek \in EkLines,
             HandlePacket(w, ek, skip)
      PROVE IInv'
  BY <1>8 DEF HandlePacket
<1>9. ASSUME NEW stdin \in SyslogLines, HandleStdinLine(stdin) PROVE IInv'
  BY <1>9 DEF HandleStdinLine
<1>10. CASE UNCHANGED vars
  BY <1>10 DEF vars
<1> QED
  BY <1>1, <1>2, <1>3, <1>4, <1>5, <1>6, <1>7, <1>8, <1>9, <1>10
  DEF Next, MainStep, UpdaterStep

(***************************************************************************)
(* No event of --stdin or of the tshark program is judged by the empty     *)
(* database that they start with, whenever the updater is scheduled and    *)
(* whatever the feeds answer.                                              *)
(***************************************************************************)
THEOREM LoadedBeforeJudged == Spec => []JudgedAfterLoad
<1>1. IInv => JudgedAfterLoad
  BY DEF IInv
<1> QED BY <1>1, Initially, Inductive, PTL DEF Spec

-----------------------------------------------------------------------------
(***************************************************************************)
(* By what an event is judged: the database that a refresh with these      *)
(* answers builds, the empty one before any, and the event of the last line *)
(* as it is before anything is added to it.                                *)
(***************************************************************************)

DatabaseOf(answers, time) ==
    IF answers = None THEN NewIntel("start") ELSE refresh_threat_intel_once(answers, time)

Parsed ==
    IF mode = "tshark" THEN normalize_packet(latest.line)
    ELSE parse_palo_alto_log_to_json(latest.line)

(***************************************************************************)
(* The shared database is always that of the last answers as a whole, and  *)
(* the copy of --stdin that of the answers it was taken from.              *)
(***************************************************************************)
InForce ==
    /\ \E time : intel = DatabaseOf(listing, time)
    /\ mode = "stdin" /\ Passed => \E time : snapshot = DatabaseOf(basis, time)

(***************************************************************************)
(* The last event is what enrichment makes of its line with the database   *)
(* that was in force when it was taken up, whatever came of that since.    *)
(***************************************************************************)
JudgedByListing ==
    latest # Nothing =>
        IF Parsed = None \/ latest.skipped THEN latest.log = Parsed
        ELSE \E time, past : latest.log =
                enrich_and_analyze_log(Parsed, DatabaseOf(latest.listing, time), past, geoip)

(***************************************************************************)
(* A firewall's line is one of those that may come, and the UDP service    *)
(* alerts by the log that it hands on.                                     *)
(***************************************************************************)
TakenAsSent ==
    latest # Nothing =>
        /\ mode \in {"udp", "stdin", "tshark"}
        /\ mode # "tshark" => \E datagram \in SyslogLines : latest.line = datagram.line
        /\ mode = "udp" => latest.alert = Alert(latest.log)

(***************************************************************************)
(* What the log of an event says was found, if these are its words and the *)
(* feeds last answered this.                                               *)
(***************************************************************************)
ReportsExactly(log, words, answers) ==
    LET lists == IF answers = None THEN <<>> ELSE answers
        Listed(kind) == {i \in FoundIn(kind, words) : ListedBy(kind, i, lists) # {}}
    IN  /\ Reported(log, "malicious_ips")
              = {[ip |-> i, sources |-> ListedBy("ip", i, lists)] :
                    i \in {j \in Listed("ip") : is_public_ip(<<j>>)}}
        /\ Reported(log, "malicious_domains") = Listed("domain")
        /\ Reported(log, "malicious_hashes") = Listed("hash")
        /\ Reported(log, "malicious_urls") = Listed("url")

(***************************************************************************)
(* The last event, if it has been enriched, reports what its words and the *)
(* feeds it was judged by have in common. A packet whose layer is called   *)
(* forwarder_enrichment would be read as a finding, and is left out.       *)
(***************************************************************************)
ListedInRecordIsReported ==
    latest # Nothing /\ latest.log # None /\ ~latest.skipped
        /\ "forwarder_enrichment" \notin DOMAIN Parsed =>
        ReportsExactly(latest.log, WordsIn(Parsed), latest.listing)

WholeDatabases == NothingEarly /\ InForce /\ JudgedByListing /\ TakenAsSent

(***************************************************************************)
(* The service starts with the empty database and no event.                *)
(***************************************************************************)
LEMMA EmptyAtFirst == Init => WholeDatabases
<1> SUFFICES ASSUME Init PROVE WholeDatabases
  OBVIOUS
<1>1. NothingEarly /\ JudgedByListing /\ TakenAsSent
  BY DEF Init, NothingEarly, JudgedByListing, TakenAsSent
<1>2. intel = DatabaseOf(listing, "start") /\ mode # "stdin"
  BY DEF Init, DatabaseOf
<1> QED BY <1>1, <1>2 DEF WholeDatabases, InForce

(***************************************************************************)
(* A refresh replaces the database as a whole, --stdin copies all of it,   *)
(* and a worker reads one database for all of an event's lookups.          *)
(***************************************************************************)
LEMMA WholeStays == WholeDatabases /\ [Next]_vars => WholeDatabases'
<1> SUFFICES ASSUME WholeDatabases, [Next]_vars PROVE WholeDatabases'
  OBVIOUS
<1>a. /\ latest # Nothing => Passed
      /\ \E time : intel = DatabaseOf(listing, time)
      /\ mode = "stdin" /\ Passed => \E time : snapshot = DatabaseOf(basis, time)
      /\ JudgedByListing /\ TakenAsSent
  BY DEF WholeDatabases, NothingEarly, InForce
<1>b. ASSUME latest' = latest, mode' = mode, config' = config
      PROVE  JudgedByListing' /\ TakenAsSent'
  BY <1>a, <1>b DEF JudgedByListing, TakenAsSent, Parsed, geoip
<1>1. ASSUME NEW invocation \in Invocations, Start(invocation) PROVE WholeDatabases'
  <2>1. latest' = Nothing /\ intel' = intel /\ listing' = listing /\ ~(Passed /\ mode # mode')
        /\ (mode' = "stdin" => ~Passed')
    BY <1>1, <1>a DEF Start, work, Passed, Starts
  <2> QED BY <1>a, <2>1 DEF WholeDatabases, NothingEarly, InForce, JudgedByListing, TakenAsSent
<1>2. CASE MainReady
  <2>1. /\ latest' = latest /\ mode' = mode /\ config' = config /\ Passed'
        /\ intel' = intel /\ listing' = listing
        /\ mode = "stdin" => snapshot' = intel /\ basis' = listing
    BY <1>2 DEF MainReady, start, refreshed, work, Passed
  <2> QED BY <1>a, <1>b, <2>1 DEF WholeDatabases, NothingEarly, InForce
<1>3. ASSUME NEW answers \in FeedAnswers, Refresh(answers) PROVE WholeDatabases'
  <2>1. intel' = DatabaseOf(listing', ToString(loads))
    BY <1>3, RecordAssumption DEF RecordAssumption, Refresh, DatabaseOf
  <2>2. /\ latest' = latest /\ mode' = mode /\ config' = config /\ phase' = phase
        /\ snapshot' = snapshot /\ basis' = basis
    BY <1>3 DEF Refresh, start, judging, work
  <2> QED BY <1>a, <1>b, <2>1, <2>2 DEF WholeDatabases, NothingEarly, InForce, Passed
<1>4. CASE \/ StartRefresh \/ SetReady \/ UpdaterWakes \/ UpdaterQuits
           \/ CloseStdin \/ EndOfStdin \/ JoinUpdater \/ UNCHANGED vars
  <2>1. /\ latest' = latest /\ mode' = mode /\ config' = config /\ (Passed' <=> Passed)
        /\ intel' = intel /\ listing' = listing /\ snapshot' = snapshot /\ basis' = basis
    BY <1>4 DEF StartRefresh, SetReady, UpdaterWakes, UpdaterQuits, CloseStdin, EndOfStdin, JoinUpdater,
                vars, start, refreshed, judging, work, Passed
  <2> QED BY <1>a, <1>b, <2>1 DEF WholeDatabases, NothingEarly, InForce
<1>5. ASSUME mode' = mode, config' = config, intel' = intel, listing' = listing,
             snapshot' = snapshot, basis' = basis, Passed, Passed',
             JudgedByListing', TakenAsSent'
      PROVE  WholeDatabases'
  BY <1>a, <1>5 DEF WholeDatabases, NothingEarly, InForce
<1>6. ASSUME NEW w \in Workers, NEW skip \in BOOLEAN, NEW datagram \in SyslogLines,
             HandleDatagram(w, datagram, skip)
      PROVE  WholeDatabases'
  <2> DEFINE log == parse_palo_alto_log_to_json(datagram.line)
  <2>1. /\ mode = "udp" /\ mode' = mode /\ config' = config /\ phase = "up" /\ phase' = phase
        /\ intel' = intel /\ listing' = listing /\ snapshot' = snapshot /\ basis' = basis
    BY <1>6 DEF HandleDatagram, start, refreshed, judging
  <2>2. /\ latest'.line = datagram.line /\ latest'.listing = listing /\ latest'.skipped = skip
        /\ latest'.log = Enriched(w, log, intel, skip) /\ latest'.alert = Alert(latest'.log)
    BY <1>6 DEF HandleDatagram
  <2>3. Parsed' = log /\ geoip' = geoip
    BY <2>1, <2>2 DEF Parsed, geoip
  <2>4. JudgedByListing'
    <3> HIDE DEF log
    <3> QED BY <1>a, <2>1, <2>2, <2>3 DEF JudgedByListing, Enriched
  <2>5. TakenAsSent'
    <3> HIDE DEF log
    <3> QED BY <2>1, <2>2 DEF TakenAsSent, Alert
  <2> QED BY <1>5, <2>1, <2>4, <2>5 DEF Passed
<1>7. ASSUME NEW w \in Workers, NEW skip \in BOOLEAN, NEW ek \in EkLines, HandlePacket(w, ek, skip)
      PROVE  WholeDatabases'
  <2>1. /\ mode = "tshark" /\ mode' = mode /\ config' = config /\ Passed /\ Passed'
        /\ intel' = intel /\ listing' = listing /\ snapshot' = snapshot /\ basis' = basis
    BY <1>7 DEF HandlePacket, start, refreshed, judging, Passed
  <2>2. CASE ek.utf8 /\ ek.kind = "packet"
    <3> DEFINE log == normalize_packet(ek.packet)
    <3>1. /\ latest'.line = ek.packet /\ latest'.listing = listing /\ latest'.skipped = skip
          /\ latest'.log = Enriched(w, log, intel, skip)
      BY <1>7, <2>2 DEF HandlePacket
    <3>2. Parsed' = log /\ geoip' = geoip
      BY <2>1, <3>1 DEF Parsed, geoip
    <3>3. JudgedByListing'
      <4> HIDE DEF log
      <4> QED BY <1>a, <2>1, <3>1, <3>2 DEF JudgedByListing, Enriched
    <3> QED BY <1>5, <2>1, <3>3 DEF TakenAsSent
  <2>3. CASE ~(ek.utf8 /\ ek.kind = "packet")
    <3>1. latest' = Nothing
      BY <1>7, <2>3 DEF HandlePacket
    <3> QED BY <1>5, <2>1, <3>1 DEF JudgedByListing, TakenAsSent
  <2> QED BY <2>2, <2>3
<1>8. ASSUME NEW stdin \in SyslogLines, HandleStdinLine(stdin) PROVE WholeDatabases'
  <2> DEFINE log == parse_palo_alto_log_to_json(stdin.line)
  <2>1. /\ mode = "stdin" /\ mode' = mode /\ config' = config /\ Passed /\ Passed'
        /\ intel' = intel /\ listing' = listing /\ snapshot' = snapshot /\ basis' = basis
    BY <1>8 DEF HandleStdinLine, start, refreshed, judging, Passed
  <2>2. CASE stdin.line # <<<<>>>> /\ stdin.utf8
    <3>1. /\ latest'.line = stdin.line /\ latest'.listing = basis
          /\ latest'.log = Enriched(StdinThread, log, snapshot, FALSE) /\ ~latest'.skipped
      BY <1>8, <2>2 DEF HandleStdinLine
    <3>2. Parsed' = log /\ geoip' = geoip
      BY <2>1, <3>1 DEF Parsed, geoip
    <3>3. JudgedByListing'
      <4> HIDE DEF log
      <4> QED BY <1>a, <2>1, <3>1, <3>2 DEF JudgedByListing, Enriched
    <3>4. TakenAsSent'
      BY <2>1, <3>1 DEF TakenAsSent
    <3> QED BY <1>5, <2>1, <3>3, <3>4
  <2>3. CASE ~(stdin.line # <<<<>>>> /\ stdin.utf8)
    <3>1. latest' = Nothing
      BY <1>8, <2>3 DEF HandleStdinLine
    <3> QED BY <1>5, <2>1, <3>1 DEF JudgedByListing, TakenAsSent
  <2> QED BY <2>2, <2>3
<1> QED
  BY <1>1, <1>2, <1>3, <1>4, <1>6, <1>7, <1>8 DEF Next, MainStep, UpdaterStep

(***************************************************************************)
(* A section says under a name what was found under it, or nothing; and    *)
(* what a log says was found is in its section.                            *)
(***************************************************************************)
Says(section, name) == IF name \in DOMAIN section.object THEN section.object[name] ELSE {}

LEMMA SectionSays ==
    ASSUME NEW findings, NEW name \in DOMAIN findings
    PROVE  Says(Section(findings), name) = findings[name] /\ IsObj(Section(findings))
<1>1. /\ Section(findings).object = [m \in {n \in DOMAIN findings : findings[n] # {}} |-> findings[m]]
      /\ IsObj(Section(findings))
  BY DEF Section, Obj, IsObj
<1> QED BY <1>1 DEF Says

LEMMA LogSays ==
    ASSUME NEW log, "forwarder_enrichment" \notin DOMAIN log,
           NEW intel_, NEW past, NEW located, NEW name,
           IsObj(enrich_ioc_matches(log, intel_))
    PROVE  Reported(enrich_and_analyze_log(log, intel_, past, located), name)
             = Says(enrich_ioc_matches(log, intel_), name)
<1> DEFINE matches == enrich_ioc_matches(log, intel_)
           sections == [ioc_matches |-> matches,
                        threat_hunting |-> enrich_threat_hunt(log),
                        behavioral_anomalies |-> enrich_behavioral(log, AfterUpdate(past, log)),
                        geoip |-> enrich_geoip(log, located)]
           found == {n \in DOMAIN sections : DOMAIN sections[n].object # {}}
           members == insert([n \in found |-> sections[n]],
                             "intel_last_updated", Str(<<intel_.last_updated>>))
           judged == IF found = {} THEN log
                     ELSE insert(log, "forwarder_enrichment", Obj(members))
<1>1. enrich_and_analyze_log(log, intel_, past, located) = judged
  BY DEF enrich_and_analyze_log
<1>2. "ioc_matches" \in found <=> DOMAIN matches.object # {}
  <2> HIDE DEF matches
  <2> QED OBVIOUS
<1>3. \A k : ~IsObj(None) /\ get(None, k) = None
  BY DEF None, IsObj, get
<1>4. get(Obj(judged), "forwarder_enrichment") = IF found = {} THEN None ELSE Obj(members)
  <2>1. IsObj(Obj(judged)) /\ Obj(judged).object = judged
    <3> HIDE DEF judged
    <3> QED BY DEF IsObj, Obj
  <2>2. CASE found = {}
    <3>1. judged = log
      BY <2>2
    <3> HIDE DEF judged, found
    <3> QED BY <2>1, <2>2, <3>1 DEF get
  <2>3. CASE found # {}
    <3> HIDE DEF members, found
    <3>1. "forwarder_enrichment" \in DOMAIN judged /\ judged["forwarder_enrichment"] = Obj(members)
      BY <2>3 DEF insert
    <3> HIDE DEF judged
    <3> QED BY <2>1, <2>3, <3>1 DEF get
  <2> QED BY <2>2, <2>3
<1>5. get(Obj(members), "ioc_matches") = IF "ioc_matches" \in found THEN matches ELSE None
  <2>1. IsObj(Obj(members)) /\ Obj(members).object = members
    <3> HIDE DEF members
    <3> QED BY DEF IsObj, Obj
  <2>2. CASE "ioc_matches" \in found
    <3>1. sections["ioc_matches"] = matches
      <4> HIDE DEF matches
      <4> QED OBVIOUS
    <3> HIDE DEF found, sections
    <3>2. "ioc_matches" \in DOMAIN members /\ members["ioc_matches"] = matches
      BY <2>2, <3>1 DEF insert
    <3> HIDE DEF members
    <3> QED BY <2>1, <2>2, <3>2 DEF get
  <2>3. CASE "ioc_matches" \notin found
    <3> HIDE DEF found, sections
    <3>1. "ioc_matches" \notin DOMAIN members
      BY <2>3 DEF insert
    <3> HIDE DEF members
    <3> QED BY <2>1, <2>3, <3>1 DEF get
  <2> QED BY <2>2, <2>3
<1> HIDE DEF matches, found, members, judged
<1>6. get(get(Obj(judged), "forwarder_enrichment"), "ioc_matches")
        = IF "ioc_matches" \in found THEN matches ELSE None
  BY <1>3, <1>4, <1>5
<1>7. IsObj(matches)
  BY DEF matches
<1>8. Reported(judged, name) = Says(matches, name)
  <2>1. CASE "ioc_matches" \in found
    BY <1>6, <1>7, <2>1 DEF Reported, Says
  <2>2. CASE "ioc_matches" \notin found
    BY <1>2, <1>3, <1>6, <2>2 DEF Reported, Says
  <2> QED BY <2>1, <2>2
<1> QED BY <1>1, <1>8 DEF matches

(***************************************************************************)
(* What the refreshed database has of an indicator that is no comment.     *)
(***************************************************************************)
LEMMA DatabaseLists ==
    ASSUME NEW answers, NEW time, NEW i, i \notin CommentWords
    PROVE  LET lists == IF answers = None THEN <<>> ELSE answers
               base == DatabaseOf(answers, time)
           IN  /\ <<i>> \in DOMAIN base.ips <=> ListedBy("ip", i, lists) # {} /\ is_public_ip(<<i>>)
               /\ <<i>> \in DOMAIN base.ips => base.ips[<<i>>] = ListedBy("ip", i, lists)
               /\ \A kind \in Kinds \ {"ip"} :
                     <<i>> \in base.indicators[kind] <=> ListedBy(kind, i, lists) # {}
<1>1. CASE answers = None
  <2>1. \A kind : ListedBy(kind, i, <<>>) = {}
    BY DEF ListedBy
  <2>2. /\ DatabaseOf(answers, time).ips = <<>>
        /\ DatabaseOf(answers, time).indicators = [kind \in Kinds \ {"ip"} |-> {}]
    BY <1>1 DEF DatabaseOf, NewIntel
  <2> QED BY <1>1, <2>1, <2>2
<1>2. CASE answers # None
  <2>1. \A lines : <<i>> \in FeedItems(lines) <=> <<i>> \in lines
    BY DEF FeedItems
  <2>2. \A kind : ListedBy(kind, i, answers)
                    = {feed \in DOMAIN answers \cap Sources[kind] : <<i>> \in FeedItems(answers[feed])}
    BY <2>1 DEF ListedBy
  <2>3. /\ DatabaseOf(answers, time).ips = Listings(answers)
        /\ DatabaseOf(answers, time).indicators
             = [kind \in Kinds \ {"ip"} |->
                   UNION {FeedItems(answers[feed]) : feed \in DOMAIN answers \cap Sources[kind]}]
    BY <1>2 DEF DatabaseOf, refresh_threat_intel_once
  <2>4. Sources.ip = Sources["ip"]
    OBVIOUS
  <2>5. <<i>> \in DOMAIN Listings(answers)
          <=> ListedBy("ip", i, answers) # {} /\ is_public_ip(<<i>>)
    BY <2>2, <2>4 DEF Listings
  <2>6. <<i>> \in DOMAIN Listings(answers)
          => Listings(answers)[<<i>>] = ListedBy("ip", i, answers)
    BY <2>2, <2>4 DEF Listings
  <2>7. ASSUME NEW kind \in Kinds \ {"ip"}
        PROVE  <<i>> \in DatabaseOf(answers, time).indicators[kind] <=> ListedBy(kind, i, answers) # {}
    BY <2>2, <2>3
  <2> QED BY <1>2, <2>3, <2>5, <2>6, <2>7
<1> QED BY <1>1, <1>2

(***************************************************************************)
(* So a lookup reports exactly what is listed.                             *)
(***************************************************************************)
LEMMA LookupIsExact ==
    ASSUME NEW log, "forwarder_enrichment" \notin DOMAIN log,
           NEW answers, NEW time, NEW past, NEW located
    PROVE  ReportsExactly(enrich_and_analyze_log(log, DatabaseOf(answers, time), past, located),
                          WordsIn(log), answers)
<1> DEFINE lists == IF answers = None THEN <<>> ELSE answers
           base == DatabaseOf(answers, time)
           judged == enrich_and_analyze_log(log, base, past, located)
           words == WordsIn(log)
           Listed(kind) == {i \in FoundIn(kind, words) : ListedBy(kind, i, lists) # {}}
           Known(kind) == {i \in FoundIn(kind, words) : <<i>> \in base.indicators[kind]}
           findings == [malicious_ips |-> {[ip |-> i, sources |-> base.ips[<<i>>]] :
                                              i \in {j \in FoundIn("ip", words) : <<j>> \in DOMAIN base.ips}},
                        malicious_domains |-> Known("domain"),
                        malicious_hashes |-> Known("hash"),
                        malicious_urls |-> Known("url")]
<1>1. \A kind \in Kinds : \A i \in FoundIn(kind, words) : i \notin CommentWords
  BY EnrichmentAssumption DEF EnrichmentAssumption, FoundIn
<1>2. enrich_ioc_matches(log, base) = Section(findings)
  <2>1. \A kind \in Kinds : extract_iocs(log)[kind] = FoundIn(kind, words)
    BY DEF extract_iocs, FoundIn
  <2>2. /\ extract_iocs(log).ip = FoundIn("ip", words)
        /\ extract_iocs(log)["domain"] = FoundIn("domain", words)
        /\ extract_iocs(log)["hash"] = FoundIn("hash", words)
        /\ extract_iocs(log)["url"] = FoundIn("url", words)
    BY <2>1 DEF Kinds
  <2> HIDE DEF base, words
  <2> QED BY <2>2 DEF enrich_ioc_matches
<1>3. \A kind \in {"domain", "hash", "url"} : Known(kind) = Listed(kind)
  <2>1. {"domain", "hash", "url"} \subseteq Kinds \ {"ip"}
    BY DEF Kinds
  <2>2. ASSUME NEW kind \in {"domain", "hash", "url"}, NEW i \in FoundIn(kind, words)
        PROVE  <<i>> \in base.indicators[kind] <=> ListedBy(kind, i, lists) # {}
    BY <1>1, <2>1, DatabaseLists
  <2> QED BY <2>2
<1>4. findings["malicious_ips"]
        = {[ip |-> i, sources |-> ListedBy("ip", i, lists)] : i \in {j \in Listed("ip") : is_public_ip(<<j>>)}}
  <2>1. "ip" \in Kinds
    BY DEF Kinds
  <2>2. ASSUME NEW i \in FoundIn("ip", words)
        PROVE  /\ <<i>> \in DOMAIN base.ips <=> ListedBy("ip", i, lists) # {} /\ is_public_ip(<<i>>)
               /\ <<i>> \in DOMAIN base.ips => base.ips[<<i>>] = ListedBy("ip", i, lists)
    BY <1>1, <2>1, DatabaseLists
  <2> HIDE DEF base, lists, words
  <2> QED BY <2>2
<1> HIDE DEF base, lists, words, Known, Listed
<1>5. \A name \in DOMAIN findings : Reported(judged, name) = findings[name]
  <2>1. "malicious_ips" \in DOMAIN findings
    OBVIOUS
  <2> HIDE DEF findings, judged
  <2>2. IsObj(enrich_ioc_matches(log, base))
    BY <1>2, <2>1, SectionSays
  <2>3. \A name : Reported(judged, name) = Says(enrich_ioc_matches(log, base), name)
    BY <2>2, LogSays DEF judged
  <2> QED BY <1>2, <2>3, SectionSays
<1>6. /\ Reported(judged, "malicious_ips") = findings["malicious_ips"]
      /\ Reported(judged, "malicious_domains") = Known("domain")
      /\ Reported(judged, "malicious_hashes") = Known("hash")
      /\ Reported(judged, "malicious_urls") = Known("url")
  BY <1>5
<1> HIDE DEF findings, judged
<1>7. ReportsExactly(judged, words, answers)
  BY <1>3, <1>4, <1>6 DEF ReportsExactly, lists, Listed
<1> QED BY <1>7 DEF judged, base, words

(***************************************************************************)
(* Whatever refreshes come in between, an event is judged by the answers   *)
(* of one refresh as a whole, the last one or, with --stdin, the one that  *)
(* was waited for: it reports exactly the indicators among its words that  *)
(* are lines of these feeds, each address with all of its feeds.           *)
(***************************************************************************)
THEOREM ReportedAsListed == Spec => []ListedInRecordIsReported
<1>1. WholeDatabases => ListedInRecordIsReported
  BY LookupIsExact DEF WholeDatabases, JudgedByListing, ListedInRecordIsReported
<1> QED BY <1>1, EmptyAtFirst, WholeStays, PTL DEF Spec

-----------------------------------------------------------------------------
(* Firewall lines and their records.                                       *)

(***************************************************************************)
(* A text, the names that no column of a firewall may have, and the names  *)
(* that columns do have.                                                   *)
(***************************************************************************)
Text == Seq(STRING)
Reserved == {"@timestamp", "log_source", "forwarder_enrichment", "palo_alto_raw_log",
             "src_ip", "dst_ip", "src_port", "dst_port"}

Headers ==
    {COMMON_HEADERS[i] : i \in 1..31} \cup {TRAFFIC_EXTRA_HEADERS[i] : i \in 1..84}
        \cup {THREAT_EXTRA_HEADERS[i] : i \in 1..53}

(***************************************************************************)
(* The table of the common columns has no name twice and none that is      *)
(* reserved (COMMON_HEADERS of schema.rs).                                 *)
(***************************************************************************)
LEMMA CommonTable ==
    /\ COMMON_HEADERS \in Seq(Headers) /\ Len(COMMON_HEADERS) = 31
    /\ \A i, j \in 1..Len(COMMON_HEADERS) : COMMON_HEADERS[i] = COMMON_HEADERS[j] => i = j
    /\ \A i \in 1..Len(COMMON_HEADERS) : COMMON_HEADERS[i] \notin Reserved
<1>1. COMMON_HEADERS \in Seq(Headers)
  <2>1. \A i \in 1..31 : COMMON_HEADERS[i] \in Headers
    BY DEF Headers
  <2> HIDE DEF Headers
  <2> QED BY <2>1 DEF COMMON_HEADERS
<1>2. Len(COMMON_HEADERS) = 31
  BY DEF COMMON_HEADERS
<1>3. \A i, j \in 1..31 : COMMON_HEADERS[i] = COMMON_HEADERS[j] => i = j
  BY DEF COMMON_HEADERS
<1>4. \A i \in 1..31 : COMMON_HEADERS[i] \notin Reserved
  BY DEF COMMON_HEADERS, Reserved
<1> QED BY <1>1, <1>2, <1>3, <1>4

(***************************************************************************)
(* Nor has that of the traffic columns, which shares no name with the      *)
(* common ones.                                                            *)
(***************************************************************************)
LEMMA TrafficTable ==
    /\ TRAFFIC_EXTRA_HEADERS \in Seq(Headers) /\ Len(TRAFFIC_EXTRA_HEADERS) = 84
    /\ \A i, j \in 1..Len(TRAFFIC_EXTRA_HEADERS) : TRAFFIC_EXTRA_HEADERS[i] = TRAFFIC_EXTRA_HEADERS[j] => i = j
    /\ \A i \in 1..Len(TRAFFIC_EXTRA_HEADERS) : TRAFFIC_EXTRA_HEADERS[i] \notin Reserved
    /\ \A i \in 1..Len(COMMON_HEADERS), j \in 1..Len(TRAFFIC_EXTRA_HEADERS) : COMMON_HEADERS[i] # TRAFFIC_EXTRA_HEADERS[j]
<1>1. TRAFFIC_EXTRA_HEADERS \in Seq(Headers)
  <2>1. \A i \in 1..84 : TRAFFIC_EXTRA_HEADERS[i] \in Headers
    BY DEF Headers
  <2> HIDE DEF Headers
  <2> QED BY <2>1 DEF TRAFFIC_EXTRA_HEADERS
<1>2. Len(TRAFFIC_EXTRA_HEADERS) = 84
  BY DEF TRAFFIC_EXTRA_HEADERS
<1>3. \A i, j \in 1..84 : TRAFFIC_EXTRA_HEADERS[i] = TRAFFIC_EXTRA_HEADERS[j] => i = j
  BY DEF TRAFFIC_EXTRA_HEADERS
<1>4. \A i \in 1..84 : TRAFFIC_EXTRA_HEADERS[i] \notin Reserved
  BY DEF TRAFFIC_EXTRA_HEADERS, Reserved
<1>5. \A i \in 1..31, j \in 1..84 : COMMON_HEADERS[i] # TRAFFIC_EXTRA_HEADERS[j]
  BY DEF COMMON_HEADERS, TRAFFIC_EXTRA_HEADERS
<1>6. \A i \in 1..Len(COMMON_HEADERS), j \in 1..Len(TRAFFIC_EXTRA_HEADERS) : COMMON_HEADERS[i] # TRAFFIC_EXTRA_HEADERS[j]
  <2>1. Len(COMMON_HEADERS) = 31
    BY CommonTable
  <2>2. ASSUME NEW i \in 1..Len(COMMON_HEADERS), NEW j \in 1..Len(TRAFFIC_EXTRA_HEADERS)
        PROVE  i \in 1..31 /\ j \in 1..84
    BY <1>2, <2>1
  <2> QED BY <1>5, <2>2
<1>7. /\ \A i, j \in 1..Len(TRAFFIC_EXTRA_HEADERS) : TRAFFIC_EXTRA_HEADERS[i] = TRAFFIC_EXTRA_HEADERS[j] => i = j
      /\ \A i \in 1..Len(TRAFFIC_EXTRA_HEADERS) : TRAFFIC_EXTRA_HEADERS[i] \notin Reserved
  BY <1>2, <1>3, <1>4
<1> QED BY <1>1, <1>2, <1>6, <1>7

(***************************************************************************)
(* Nor has that of the threat columns.                                     *)
(***************************************************************************)
LEMMA ThreatTable ==
    /\ THREAT_EXTRA_HEADERS \in Seq(Headers) /\ Len(THREAT_EXTRA_HEADERS) = 53
    /\ \A i, j \in 1..Len(THREAT_EXTRA_HEADERS) : THREAT_EXTRA_HEADERS[i] = THREAT_EXTRA_HEADERS[j] => i = j
    /\ \A i \in 1..Len(THREAT_EXTRA_HEADERS) : THREAT_EXTRA_HEADERS[i] \notin Reserved
    /\ \A i \in 1..Len(COMMON_HEADERS), j \in 1..Len(THREAT_EXTRA_HEADERS) : COMMON_HEADERS[i] # THREAT_EXTRA_HEADERS[j]
<1>1. THREAT_EXTRA_HEADERS \in Seq(Headers)
  <2>1. \A i \in 1..53 : THREAT_EXTRA_HEADERS[i] \in Headers
    BY DEF Headers
  <2> HIDE DEF Headers
  <2> QED BY <2>1 DEF THREAT_EXTRA_HEADERS
<1>2. Len(THREAT_EXTRA_HEADERS) = 53
  BY DEF THREAT_EXTRA_HEADERS
<1>3. \A i, j \in 1..53 : THREAT_EXTRA_HEADERS[i] = THREAT_EXTRA_HEADERS[j] => i = j
  BY DEF THREAT_EXTRA_HEADERS
<1>4. \A i \in 1..53 : THREAT_EXTRA_HEADERS[i] \notin Reserved
  BY DEF THREAT_EXTRA_HEADERS, Reserved
<1>5. \A i \in 1..31, j \in 1..53 : COMMON_HEADERS[i] # THREAT_EXTRA_HEADERS[j]
  BY DEF COMMON_HEADERS, THREAT_EXTRA_HEADERS
<1>6. \A i \in 1..Len(COMMON_HEADERS), j \in 1..Len(THREAT_EXTRA_HEADERS) : COMMON_HEADERS[i] # THREAT_EXTRA_HEADERS[j]
  <2>1. Len(COMMON_HEADERS) = 31
    BY CommonTable
  <2>2. ASSUME NEW i \in 1..Len(COMMON_HEADERS), NEW j \in 1..Len(THREAT_EXTRA_HEADERS)
        PROVE  i \in 1..31 /\ j \in 1..53
    BY <1>2, <2>1
  <2> QED BY <1>5, <2>2
<1>7. /\ \A i, j \in 1..Len(THREAT_EXTRA_HEADERS) : THREAT_EXTRA_HEADERS[i] = THREAT_EXTRA_HEADERS[j] => i = j
      /\ \A i \in 1..Len(THREAT_EXTRA_HEADERS) : THREAT_EXTRA_HEADERS[i] \notin Reserved
  BY <1>2, <1>3, <1>4
<1> QED BY <1>1, <1>2, <1>6, <1>7

(***************************************************************************)
(* Two sequences without repetition that share nothing are one without     *)
(* repetition.                                                             *)
(***************************************************************************)
LEMMA Joined ==
    ASSUME NEW S, NEW s \in Seq(S), NEW t \in Seq(S), NEW Out,
           \A i, j \in 1..Len(s) : s[i] = s[j] => i = j,
           \A i, j \in 1..Len(t) : t[i] = t[j] => i = j,
           \A i \in 1..Len(s), j \in 1..Len(t) : s[i] # t[j],
           \A i \in 1..Len(s) : s[i] \notin Out,
           \A i \in 1..Len(t) : t[i] \notin Out
    PROVE  /\ Len(s \o t) \in Nat /\ DOMAIN (s \o t) = 1..Len(s \o t)
           /\ \A i, j \in 1..Len(s \o t) : (s \o t)[i] = (s \o t)[j] => i = j
           /\ \A i \in 1..Len(s \o t) : (s \o t)[i] \notin Out
<1> DEFINE u == s \o t
           m == Len(s)
           n == Len(t)
<1>1. m \in Nat /\ n \in Nat
  BY LenProperties
<1>2. u \in Seq(S) /\ Len(u) = m + n
  BY ConcatProperties
<1>3. \A i \in 1..(m + n) : u[i] = IF i <= m THEN s[i] ELSE t[i - m]
  BY ConcatProperties
<1>4. DOMAIN u = 1..Len(u)
  BY <1>2, LenProperties
<1>5. /\ \A i, j \in 1..m : s[i] = s[j] => i = j
      /\ \A i, j \in 1..n : t[i] = t[j] => i = j
      /\ \A i \in 1..m, j \in 1..n : s[i] # t[j]
  OBVIOUS
<1>6. /\ \A i \in 1..m : s[i] \notin Out
      /\ \A i \in 1..n : t[i] \notin Out
  OBVIOUS
<1> HIDE DEF u, m, n
<1>7. ASSUME NEW i \in 1..(m + n)
      PROVE  \/ i \in 1..m /\ u[i] = s[i]
             \/ i - m \in 1..n /\ u[i] = t[i - m]
  BY <1>1, <1>3
<1>8. ASSUME NEW i \in 1..(m + n), NEW j \in 1..(m + n), u[i] = u[j] PROVE i = j
  <2>1. i \in Int /\ j \in Int
    BY <1>1
  <2>2. CASE i \in 1..m /\ u[i] = s[i]
    BY <1>5, <1>7, <1>8, <2>2
  <2>3. CASE i - m \in 1..n /\ u[i] = t[i - m]
    <3>1. i - m = j - m
      BY <1>5, <1>7, <1>8, <2>3
    <3> QED BY <1>1, <2>1, <3>1
  <2> QED BY <1>7, <2>2, <2>3
<1>9. ASSUME NEW i \in 1..(m + n) PROVE u[i] \notin Out
  BY <1>6, <1>7
<1> QED BY <1>1, <1>2, <1>4, <1>8, <1>9 DEF u

(***************************************************************************)
(* So no two columns of a line have one key, and none has the key of       *)
(* something that is added to the log later or a label of its own in the   *)
(* alert.                                                                  *)
(***************************************************************************)
LEMMA Tables ==
    ASSUME NEW line
    PROVE  /\ Len(TableOf(line)) \in Nat /\ DOMAIN TableOf(line) = 1..Len(TableOf(line))
           /\ \A i, j \in 1..Len(TableOf(line)) : TableOf(line)[i] = TableOf(line)[j] => i = j
           /\ \A i \in 1..Len(TableOf(line)) : TableOf(line)[i] \notin Reserved
<1> DEFINE extra == extra_headers(line)
<1>1. extra = TRAFFIC_EXTRA_HEADERS \/ extra = THREAT_EXTRA_HEADERS
  BY DEF extra_headers
<1> HIDE DEF extra
<1>2. /\ extra \in Seq(Headers)
      /\ \A i, j \in 1..Len(extra) : extra[i] = extra[j] => i = j
      /\ \A i \in 1..Len(COMMON_HEADERS), j \in 1..Len(extra) : COMMON_HEADERS[i] # extra[j]
      /\ \A i \in 1..Len(extra) : extra[i] \notin Reserved
  <2>1. CASE extra = TRAFFIC_EXTRA_HEADERS
    BY <2>1, TrafficTable
  <2>2. CASE extra = THREAT_EXTRA_HEADERS
    BY <2>2, ThreatTable
  <2> QED BY <1>1, <2>1, <2>2
<1> DEFINE T == COMMON_HEADERS \o extra
<1>3. /\ Len(T) \in Nat /\ DOMAIN T = 1..Len(T)
      /\ \A i, j \in 1..Len(T) : T[i] = T[j] => i = j
      /\ \A i \in 1..Len(T) : T[i] \notin Reserved
  BY <1>2, CommonTable, Joined
<1>4. T = TableOf(line)
  BY DEF TableOf, extra
<1> HIDE DEF T
<1> QED BY <1>3, <1>4

(***************************************************************************)
(* What comes before all others is the first of a set of places.           *)
(***************************************************************************)
LEMMA FirstIs ==
    ASSUME NEW S, S \subseteq Int \X Int, NEW m \in S, \A q \in S \ {m} : Before(m, q)
    PROVE  FirstOf(S) = m
<1>1. \A p, q \in S : ~(Before(p, q) /\ Before(q, p))
  BY DEF Before
<1>2. \E p \in S : \A q \in S \ {p} : Before(p, q)
  OBVIOUS
<1>3. FirstOf(S) \in S /\ \A q \in S \ {FirstOf(S)} : Before(FirstOf(S), q)
  <2> HIDE DEF Before
  <2> QED BY <1>2 DEF FirstOf
<1> QED BY <1>1, <1>3

(***************************************************************************)
(* What comes after all others is the last.                                *)
(***************************************************************************)
LEMMA LastIs ==
    ASSUME NEW S, S \subseteq Int \X Int, NEW m \in S, \A q \in S \ {m} : Before(q, m)
    PROVE  LastOf(S) = m
<1>1. \A p, q \in S : ~(Before(p, q) /\ Before(q, p))
  BY DEF Before
<1>2. \E p \in S : \A q \in S \ {p} : Before(q, p)
  OBVIOUS
<1>3. LastOf(S) \in S /\ \A q \in S \ {LastOf(S)} : Before(q, LastOf(S))
  <2> HIDE DEF Before
  <2> QED BY <1>2 DEF LastOf
<1> QED BY <1>1, <1>3

(***************************************************************************)
(* The places of a line are pairs of numbers within its cells.             *)
(***************************************************************************)
LEMMA PlacesAre ==
    ASSUME NEW line \in Seq(Text)
    PROVE  /\ Places(line) \subseteq Int \X Int
           /\ \A p \in Places(line) : p[1] \in 1..Len(line) /\ p[2] \in 1..Len(line[p[1]])
           /\ \A c \in 1..Len(line) : line[c] \in Text
           /\ \A c \in 1..Len(line) : \A w \in 1..Len(line[c]) : <<c, w>> \in Places(line)
<1>1. DOMAIN line = 1..Len(line) /\ Len(line) \in Nat
  BY LenProperties
<1>2. \A c \in 1..Len(line) : line[c] \in Text
  BY ElementOfSeq
<1>3. \A c \in 1..Len(line) : DOMAIN line[c] = 1..Len(line[c]) /\ Len(line[c]) \in Nat
  BY <1>2, LenProperties DEF Text
<1> QED BY <1>1, <1>2, <1>3 DEF Places

(***************************************************************************)
(* From the last word of its first cell on, a line is its columns.         *)
(***************************************************************************)
LEMMA FromLast ==
    ASSUME NEW line \in Seq(Text), line # <<>>, line[1] # <<>>
    PROVE  From(line, <<1, Len(line[1])>>) = Columns(line)
<1>1. Len(line) \in Nat \ {0} /\ line[1] \in Text /\ Len(line[1]) \in Nat \ {0}
  BY EmptySeq, PlacesAre DEF Text
<1> DEFINE n == Len(line[1])
           head == SubSeq(line[1], n, n)
           tail == SubSeq(line, 2, Len(line))
<1>2. head = <<line[1][n]>> /\ line[1][n] \in STRING
  <2>1. head \in Seq(STRING) /\ Len(head) = 1 /\ head[1] = line[1][n]
    BY <1>1, SubSeqProperties, ElementOfSeq DEF Text
  <2>2. n \in 1..Len(line[1])
    BY <1>1
  <2>3. line[1][n] \in STRING
    BY <1>1, <2>2, ElementOfSeq DEF Text
  <2> HIDE DEF head, n
  <2>4. <<line[1][n]>> \in Seq(STRING)
    BY <2>3
  <2> QED BY <2>1, <2>3, <2>4, SeqEqual
<1>3. tail \in Seq(Text) /\ Len(tail) = Len(line) - 1 /\ \A i \in 1..(Len(line) - 1) : tail[i] = line[i + 1]
  <2>1. \A i \in 2..Len(line) : line[i] \in Text
    BY <1>1, ElementOfSeq
  <2>2. /\ tail \in Seq(Text) /\ Len(tail) = IF 2 <= Len(line) THEN Len(line) - 2 + 1 ELSE 0
        /\ \A i \in 1..(Len(line) - 2 + 1) : tail[i] = line[2 + i - 1]
    BY <1>1, <2>1, SubSeqProperties
  <2> HIDE DEF tail
  <2>3. Len(tail) = Len(line) - 1
    <3>1. CASE Len(line) = 1
      BY <2>2, <3>1
    <3>2. CASE 2 <= Len(line)
      BY <1>1, <2>2, <3>2
    <3> DEFINE m == Len(line)
    <3>3. m \in Nat \ {0}
      BY <1>1
    <3> HIDE DEF m
    <3>4. m = 1 \/ 2 <= m
      BY <3>3
    <3> QED BY <3>1, <3>2, <3>4 DEF m
  <2>4. ASSUME NEW i \in 1..(Len(line) - 1) PROVE tail[i] = line[i + 1]
    <3>1. i \in 1..(Len(line) - 2 + 1) /\ 2 + i - 1 = i + 1
      BY <1>1
    <3> QED BY <2>2, <3>1
  <2> QED BY <2>2, <2>3, <2>4
<1>4. <<head>> \in Seq(Text) /\ Len(<<head>>) = 1 /\ <<head>>[1] = head
  BY <1>2 DEF Text
<1> DEFINE whole == <<head>> \o tail
<1>5. /\ whole \in Seq(Text) /\ Len(whole) = Len(line)
      /\ \A i \in 1..Len(line) : whole[i] = IF i = 1 THEN head ELSE line[i]
  <2> HIDE DEF head, tail
  <2> QED BY <1>1, <1>3, <1>4, ConcatProperties
<1>6. Columns(line) = [line EXCEPT ![1] = head]
  BY <1>2 DEF Columns, Last
<1>7. /\ Columns(line) \in Seq(Text) /\ Len(Columns(line)) = Len(line)
      /\ \A i \in 1..Len(line) : Columns(line)[i] = IF i = 1 THEN head ELSE line[i]
  <2> HIDE DEF head
  <2> QED BY <1>1, <1>4, <1>6, <1>2, ExceptSeq DEF Text
<1>8. whole = Columns(line)
  <2> HIDE DEF whole
  <2> QED BY <1>5, <1>7, SeqEqual
<1> QED BY <1>8 DEF From

(***************************************************************************)
(* The columns differ from the cells of the line in the first at most.     *)
(***************************************************************************)
LEMMA ColumnsAre ==
    ASSUME NEW line \in Seq(Text), line # <<>>
    PROVE  /\ Columns(line) \in Seq(Text) /\ Len(Columns(line)) = Len(line)
           /\ Len(line) \in Nat \ {0}
           /\ DOMAIN Columns(line) = DOMAIN line /\ DOMAIN line = 1..Len(line)
           /\ \A i \in 2..Len(line) : Columns(line)[i] = line[i]
           /\ Len(line[1]) = 1 => Columns(line) = line
<1>1. Len(line) \in Nat \ {0} /\ DOMAIN line = 1..Len(line) /\ line[1] \in Text /\ 1 \in 1..Len(line)
  BY EmptySeq, PlacesAre, LenProperties
<1>2. CASE line[1] = <<>>
  BY <1>1, <1>2 DEF Columns
<1>3. CASE line[1] # <<>>
  <2> DEFINE n == Len(line[1])
             head == <<line[1][n]>>
  <2>1. n \in Nat \ {0} /\ DOMAIN line[1] = 1..n
    BY <1>1, <1>3, EmptySeq, LenProperties DEF Text
  <2>2. head \in Text
    <3>1. line[1][n] \in STRING
      BY <1>1, <2>1, ElementOfSeq DEF Text
    <3> QED BY <3>1 DEF Text
  <2>3. Columns(line) = [line EXCEPT ![1] = head]
    BY <1>3 DEF Columns, Last
  <2>4. n = 1 => line[1] = head
    <3> HIDE DEF n
    <3>1. ASSUME n = 1 PROVE line[1] \in Seq(STRING) /\ Len(line[1]) = 1 /\ head[1] = line[1][1]
      BY <1>1, <3>1 DEF n, Text
    <3>2. ASSUME n = 1 PROVE head \in Seq(STRING) /\ Len(head) = 1
      BY <2>2 DEF Text
    <3> HIDE DEF head
    <3> QED BY <3>1, <3>2, SeqEqual
  <2> HIDE DEF head
  <2>5. /\ Columns(line) \in Seq(Text) /\ Len(Columns(line)) = Len(line)
        /\ \A i \in 1..Len(line) : Columns(line)[i] = IF i = 1 THEN head ELSE line[i]
    BY <1>1, <2>2, <2>3, ExceptSeq
  <2>6. DOMAIN Columns(line) = 1..Len(line) /\ Columns(line)[1] = head
    BY <1>1, <2>5, LenProperties
  <2>7. \A i \in 2..Len(line) : Columns(line)[i] = line[i]
    BY <1>1, <2>5
  <2>8. ASSUME Len(line[1]) = 1 PROVE Columns(line) = line
    <3>1. line[1] = head
      BY <2>4, <2>8
    <3>2. \A i \in 1..Len(line) : Columns(line)[i] = line[i]
      BY <2>5, <3>1
    <3> QED BY <2>5, <3>2, SeqEqual
  <2> QED BY <1>1, <2>5, <2>6, <2>7, <2>8
<1> QED BY <1>2, <1>3

(***************************************************************************)
(* Behind the header that is found by the device's name or by the date, a  *)
(* recognisable line has its columns and nothing else, whatever words the  *)
(* header and the columns hold (csv_content of                             *)
(* parse_palo_alto_log_to_json).                                           *)
(***************************************************************************)
LEMMA ContentIsColumns ==
    ASSUME NEW line \in Seq(Text), line # <<>>, Recognisable(line)
    PROVE  CsvContent(line) = Columns(line)
<1> DEFINE n == Len(line[1])
           last == <<1, n>>
<1>1. line[1] # <<>> /\ line[1] \in Text /\ n \in Nat \ {0} /\ 1 \in 1..Len(line)
  <2>1. line[1] # <<>>
    BY DEF Recognisable
  <2>2. 1 \in 1..Len(line)
    BY ColumnsAre
  <2>3. line[1] \in Text
    BY <2>2, PlacesAre
  <2> QED BY <2>1, <2>2, <2>3, EmptySeq, LenProperties DEF Text
<1>2. From(line, last) = Columns(line)
  BY <1>1, FromLast
<1>3. last \in Places(line)
  BY <1>1, PlacesAre
<1>4. \A p \in Places(line) : p \in Int \X Int /\ p[1] >= 1 /\ p[2] >= 1 /\ (p[1] = 1 => p[2] <= n)
  BY PlacesAre
<1>5. CASE \E p \in PlacesOf(line, DeviceWords) :
              p = <<1, n - 1>> /\ FirstOf(PlacesOf(line, DeviceWords)) = p
  <2> DEFINE device == <<1, n - 1>>
             later == {p \in AfterSpace(line) : Before(device, p)}
  <2>1. device \in Places(line) /\ FirstOf(PlacesOf(line, DeviceWords)) = device /\ n > 1
    <3>1. device \in Places(line) /\ FirstOf(PlacesOf(line, DeviceWords)) = device
      BY <1>5 DEF PlacesOf
    <3>2. device[2] >= 1
      BY <1>4, <3>1
    <3> HIDE DEF n
    <3> QED BY <1>1, <3>1, <3>2
  <2> HIDE DEF n
  <2>2. last \in later
    BY <1>1, <1>3, <2>1 DEF AfterSpace, Before
  <2>3. later \subseteq Int \X Int
    BY <1>4 DEF AfterSpace
  <2>4. ASSUME NEW q \in later \ {last} PROVE Before(last, q)
    BY <1>1, <1>4, <2>1, <2>4 DEF AfterSpace, Before
  <2>5. FirstOf(later) = last
    <3> HIDE DEF later
    <3> QED BY <2>2, <2>3, <2>4, FirstIs
  <2>6. AfterDevice(line) = From(line, last)
    BY <2>1, <2>2, <2>5 DEF AfterDevice
  <2> QED BY <1>2, <1>5, <2>6 DEF CsvContent
<1>6. CASE PlacesOf(line, DeviceWords) = {} /\ <<2, 1>> \in Stamps(line)
  <2> DEFINE date == <<2, 1>>
             earlier == {p \in AfterSpace(line) : Before(p, date)}
  <2>1. FirstOf(Stamps(line)) = date
    <3>1. Stamps(line) \subseteq Int \X Int
      BY <1>4 DEF Stamps, PlacesOf
    <3>2. ASSUME NEW q \in Stamps(line) \ {date} PROVE Before(date, q)
      BY <1>4, <3>2 DEF Stamps, PlacesOf, Before
    <3> QED BY <1>6, <3>1, <3>2, FirstIs
  <2> HIDE DEF n
  <2>2. \A p \in earlier : p \in Int \X Int /\ p[1] = 1 /\ p[2] > 1 /\ p[2] <= n
    BY <1>4 DEF AfterSpace, Before
  <2>3. BeforeStamp(line) = IF earlier = {} THEN line ELSE From(line, LastOf(earlier))
    BY <2>1 DEF BeforeStamp
  <2>4. BeforeStamp(line) = Columns(line)
    <3>1. CASE n = 1
      <4>1. earlier = {}
        <5> HIDE DEF earlier
        <5> QED BY <2>2, <3>1
      <4> QED BY <2>3, <4>1, <3>1, ColumnsAre DEF n
    <3>2. CASE n > 1
      <4>1. last \in earlier
        BY <1>1, <1>3, <3>2 DEF AfterSpace, Before
      <4>2. ASSUME NEW q \in earlier \ {last} PROVE Before(q, last)
        <5>1. q \in Int \X Int /\ q[1] = 1 /\ q[2] <= n /\ q # <<1, n>>
          BY <2>2, <4>2
        <5> HIDE DEF earlier
        <5> QED BY <1>1, <5>1 DEF Before
      <4>3. LastOf(earlier) = last
        <5> HIDE DEF earlier
        <5> QED BY <2>2, <4>1, <4>2, LastIs
      <4> QED BY <1>2, <2>3, <4>1, <4>3
    <3> QED BY <1>1, <3>1, <3>2
  <2> QED BY <1>6, <2>4 DEF CsvContent
<1> QED BY <1>5, <1>6 DEF Recognisable

(***************************************************************************)
(* Every filled column has a value of its own in the record.               *)
(***************************************************************************)
LEMMA FieldsAre ==
    ASSUME NEW line \in Seq(Text), line # <<>>, Len(line) >= 31
    PROVE  /\ DOMAIN Fields(Columns(line)) = {TableOf(line)[i] : i \in Filled(line)}
           /\ \A i \in Filled(line) :
                 Fields(Columns(line))[TableOf(line)[i]]
                    = ParsedValue(TableOf(line)[i], Columns(line)[i])
<1> DEFINE record == Columns(line)
           T == TableOf(line)
           headers == COMMON_HEADERS \o extra_headers(record)
           filled == {i \in DOMAIN record \cap DOMAIN headers : record[i] # <<>>}
           cell == [header \in {headers[i] : i \in filled} |->
                      record[CHOOSE i \in filled : headers[i] = header]]
<1>1. headers = T
  <2>1. record[4] = line[4]
    BY ColumnsAre
  <2> HIDE DEF record
  <2> QED BY <2>1 DEF extra_headers, TableOf
<1>2. filled = Filled(line)
  <2>1. DOMAIN record = DOMAIN line
    BY ColumnsAre
  <2> HIDE DEF headers, T
  <2> QED BY <1>1, <2>1 DEF Filled, T
<1>3. Fields(record) = [header \in DOMAIN cell |-> ParsedValue(header, cell[header])]
  BY DEF Fields
<1> HIDE DEF headers
<1>4. \A i, j \in filled : headers[i] = headers[j] => i = j
  <2>1. \A i \in filled : i \in 1..Len(T)
    BY <1>1, Tables
  <2>2. \A i, j \in 1..Len(T) : T[i] = T[j] => i = j
    BY Tables
  <2> HIDE DEF filled, T
  <2> QED BY <1>1, <2>1, <2>2
<1> HIDE DEF record, filled
<1>5. \A i \in filled : cell[headers[i]] = record[i]
  BY <1>4
<1>6. DOMAIN cell = {headers[i] : i \in filled}
  OBVIOUS
<1> HIDE DEF cell, T
<1>7. /\ DOMAIN Fields(record) = {T[i] : i \in Filled(line)}
      /\ \A i \in Filled(line) : Fields(record)[T[i]] = ParsedValue(T[i], record[i])
  BY <1>1, <1>2, <1>3, <1>5, <1>6
<1> QED BY <1>7 DEF record, T

(***************************************************************************)
(* An indicator is found in words if it is found in one of them.           *)
(***************************************************************************)
LEMMA WordsFound ==
    ASSUME NEW kind, NEW words
    PROVE  \A i : i \in FoundIn(kind, words) <=>
               \E word \in words : word \in DOMAIN Found[kind] /\ i \in Found[kind][word]
BY DEF FoundIn

(***************************************************************************)
(* In numbers and in the texts that are added nothing is found.            *)
(***************************************************************************)
LEMMA Silent ==
    ASSUME NEW kind \in Kinds, NEW words,
           words \subseteq IntegerWords \cup FloatWords \cup AddedWords
    PROVE  FoundIn(kind, words) = {}
BY WordsAssumption DEF WordsAssumption, FoundIn

(***************************************************************************)
(* A string has the words of its text and is shown as it is.               *)
(***************************************************************************)
LEMMA StringIs ==
    ASSUME NEW text
    PROVE  /\ IsStr(Str(text)) /\ ~IsObj(Str(text)) /\ WordsOf(Str(text)) = Range(text)
           /\ format_syslog_value(Str(text)) = text
<1>1. IsStr(Str(text)) /\ ~IsObj(Str(text)) /\ Str(text).string = text /\ "number" \notin DOMAIN Str(text)
  BY DEF IsStr, IsObj, Str
<1>2. Leaves(Str(text)) = <<text>>
  BY <1>1 DEF Leaves
<1>3. Range(<<text>>) = {text}
  BY DEF Range
<1>4. WordsOf(Str(text)) = Range(text)
  BY <1>2, <1>3 DEF WordsOf
<1>5. format_syslog_value(Str(text)) = text
  BY <1>1 DEF format_syslog_value
<1> QED BY <1>1, <1>4, <1>5

(***************************************************************************)
(* A number has no words that are searched, and is shown.                  *)
(***************************************************************************)
LEMMA NumberIs ==
    ASSUME NEW word
    PROVE  /\ ~IsStr(Num(word)) /\ ~IsObj(Num(word)) /\ WordsOf(Num(word)) = {}
           /\ format_syslog_value(Num(word)) = <<word>>
<1>1. /\ ~IsStr(Num(word)) /\ ~IsObj(Num(word)) /\ "array" \notin DOMAIN Num(word)
      /\ "number" \in DOMAIN Num(word) /\ Num(word).number = word
  BY DEF IsStr, IsObj, Num
<1>2. Leaves(Num(word)) = <<>>
  BY <1>1 DEF Leaves
<1>3. WordsOf(Num(word)) = {}
  BY <1>2 DEF WordsOf, Range
<1> QED BY <1>1, <1>3 DEF format_syslog_value

(***************************************************************************)
(* The value of a filled column is its text or the number that it parses   *)
(* as; it can be shown, and what is found in it is what is found in the    *)
(* column.                                                                 *)
(***************************************************************************)
LEMMA ValueIs ==
    ASSUME NEW header, NEW text \in Text, text # <<>>
    PROVE  /\ ParsedValue(header, text) \in {Str(text), Num(text[1]), Num("0")}
           /\ ~IsObj(ParsedValue(header, text))
           /\ format_syslog_value(ParsedValue(header, text)) # <<>>
           /\ \A kind \in Kinds :
                 FoundIn(kind, WordsOf(ParsedValue(header, text))) = FoundIn(kind, Range(text))
<1> DEFINE word == WordOf(text)
           value == ParsedValue(header, text)
           Numbers == IntegerWords \cup FloatWords
<1>1. word \in Numbers => text[1] = word /\ Range(text) = {word}
  <2>1. word \in Numbers => Len(text) = 1 /\ text[1] = word
    BY WordsAssumption DEF WordsAssumption, WordOf
  <2>2. DOMAIN text = 1..Len(text)
    BY LenProperties DEF Text
  <2>3. Len(text) = 1 => Range(text) = {text[1]}
    BY <2>2 DEF Range
  <2> QED BY <2>1, <2>3
<1>2. \/ value = Str(text)
      \/ word \in Numbers /\ (value = Num(word) \/ value = Num("0"))
  <2> HIDE DEF word
  <2> QED BY DEF ParsedValue, word
<1>3. CASE value = Str(text)
  <2> HIDE DEF value
  <2> QED BY <1>3, StringIs DEF value
<1>4. CASE word \in Numbers /\ \E number \in {word, "0"} : value = Num(number)
  <2>1. \A kind \in Kinds : FoundIn(kind, Range(text)) = {} /\ FoundIn(kind, {}) = {}
    <3> HIDE DEF word
    <3> QED BY <1>1, <1>4, Silent
  <2>2. PICK number \in {word, "0"} : value = Num(number)
    BY <1>4
  <2>3. ~IsObj(value) /\ format_syslog_value(value) = <<number>> /\ WordsOf(value) = {}
    <3> HIDE DEF value
    <3> QED BY <2>2, NumberIs
  <2>4. value \in {Str(text), Num(text[1]), Num("0")}
    BY <1>1, <1>4, <2>2
  <2> HIDE DEF value
  <2> QED BY <2>1, <2>3, <2>4 DEF value
<1> QED BY <1>2, <1>3, <1>4

(***************************************************************************)
(* The record of a recognisable line has the filled columns and two keys   *)
(* more.                                                                   *)
(***************************************************************************)
LEMMA RecordIs ==
    ASSUME NEW line \in Seq(Text), line # <<>>, Recognisable(line)
    PROVE  LET log == parse_palo_alto_log_to_json(line)
               T == TableOf(line)
           IN  /\ log # None
               /\ DOMAIN log = {T[i] : i \in Filled(line)} \cup {"@timestamp", "log_source"}
               /\ \A i \in Filled(line) : log[T[i]] = ParsedValue(T[i], Columns(line)[i])
               /\ log["@timestamp"] = Str(<<"now">>) /\ log["log_source"] = Str(<<"palo_alto">>)
<1> DEFINE log == parse_palo_alto_log_to_json(line)
           T == TableOf(line)
           fields == Fields(Columns(line))
<1>1. Len(line) >= 31
  BY CommonTable DEF Recognisable
<1>2. log = extend(fields, Metadata)
  <2>1. CsvContent(line) = Columns(line) /\ Len(Columns(line)) = Len(line) /\ Len(line) \in Nat
    BY ContentIsColumns, ColumnsAre
  <2>2. ~(Len(Columns(line)) < Len(COMMON_HEADERS))
    BY <1>1, <2>1, CommonTable
  <2> QED BY <2>1, <2>2 DEF parse_palo_alto_log_to_json
<1>3. /\ DOMAIN fields = {T[i] : i \in Filled(line)}
      /\ \A i \in Filled(line) : fields[T[i]] = ParsedValue(T[i], Columns(line)[i])
  BY <1>1, FieldsAre
<1>4. /\ DOMAIN Metadata = {"@timestamp", "log_source"}
      /\ Metadata["@timestamp"] = Str(<<"now">>) /\ Metadata["log_source"] = Str(<<"palo_alto">>)
  BY DEF Metadata
<1>5. \A i \in Filled(line) : T[i] \notin DOMAIN Metadata
  <2>1. \A i \in Filled(line) : i \in 1..Len(T)
    BY Tables DEF Filled
  <2>2. \A i \in 1..Len(T) : T[i] \notin Reserved
    BY Tables
  <2> HIDE DEF T
  <2> QED BY <1>4, <2>1, <2>2 DEF Reserved
<1> HIDE DEF log, T, fields
<1>6. /\ DOMAIN log = {T[i] : i \in Filled(line)} \cup {"@timestamp", "log_source"}
      /\ \A i \in Filled(line) : log[T[i]] = ParsedValue(T[i], Columns(line)[i])
      /\ log["@timestamp"] = Str(<<"now">>) /\ log["log_source"] = Str(<<"palo_alto">>)
  BY <1>2, <1>3, <1>4, <1>5 DEF extend
<1>7. log # None
  BY <1>6 DEF None
<1> QED BY <1>6, <1>7 DEF log, T

-----------------------------------------------------------------------------
(* What enrichment leaves of a record.                                     *)

(***************************************************************************)
(* A section of the findings leaves nothing in the alert.                  *)
(***************************************************************************)
LEMMA SectionIsHidden ==
    ASSUME NEW findings
    PROVE  format_syslog_value(Section(findings)) = <<>>
<1> DEFINE members == [name \in {n \in DOMAIN findings : findings[n] # {}} |-> findings[name]]
<1>1. Section(findings) = Obj(members)
  BY DEF Section
<1> HIDE DEF members
<1>2. /\ "number" \notin DOMAIN Obj(members) /\ ~IsStr(Obj(members))
      /\ "array" \notin DOMAIN Obj(members)
  BY DEF Obj, IsStr
<1>3. Leaves(Obj(members)) = <<>>
  BY <1>2 DEF Leaves
<1>4. FlattenSeq(<<>>) = <<>>
  BY DEF FlattenSeq
<1> QED BY <1>1, <1>2, <1>3, <1>4 DEF format_syslog_value

(***************************************************************************)
(* Enrichment leaves a log alone or adds one key, of whose members only    *)
(* the age of the intelligence is shown in an alert.                       *)
(***************************************************************************)
LEMMA Enriches ==
    ASSUME NEW log, NEW database, NEW past, NEW located
    PROVE  LET judged == enrich_and_analyze_log(log, database, past, located)
           IN  \/ judged = log
               \/ \E members :
                     /\ judged = insert(log, "forwarder_enrichment", Obj(members))
                     /\ {key \in DOMAIN members : format_syslog_value(members[key]) # <<>>}
                           = {"intel_last_updated"}
<1> DEFINE ioc == enrich_ioc_matches(log, database)
           hunt == enrich_threat_hunt(log)
           anomalies == enrich_behavioral(log, AfterUpdate(past, log))
           place == enrich_geoip(log, located)
           sections == [ioc_matches |-> ioc, threat_hunting |-> hunt,
                        behavioral_anomalies |-> anomalies, geoip |-> place]
           found == {name \in DOMAIN sections : DOMAIN sections[name].object # {}}
           age == Str(<<database.last_updated>>)
           members == insert([name \in found |-> sections[name]], "intel_last_updated", age)
           judged == enrich_and_analyze_log(log, database, past, located)
<1>1. judged = IF found = {} THEN log ELSE insert(log, "forwarder_enrichment", Obj(members))
  BY DEF enrich_and_analyze_log
<1>2. /\ format_syslog_value(ioc) = <<>> /\ format_syslog_value(hunt) = <<>>
      /\ format_syslog_value(anomalies) = <<>> /\ format_syslog_value(place) = <<>>
  <2>1. format_syslog_value(ioc) = <<>>
    BY SectionIsHidden DEF enrich_ioc_matches
  <2>2. format_syslog_value(hunt) = <<>>
    BY SectionIsHidden DEF enrich_threat_hunt
  <2>3. format_syslog_value(anomalies) = <<>>
    BY SectionIsHidden DEF enrich_behavioral
  <2>4. format_syslog_value(place) = <<>>
    BY SectionIsHidden DEF enrich_geoip
  <2> QED BY <2>1, <2>2, <2>3, <2>4
<1> HIDE DEF ioc, hunt, anomalies, place
<1>3. \A name \in DOMAIN sections : format_syslog_value(sections[name]) = <<>>
  BY <1>2
<1>4. found \subseteq DOMAIN sections /\ "intel_last_updated" \notin found
  OBVIOUS
<1>5. format_syslog_value(age) # <<>>
  BY StringIs
<1> HIDE DEF found, sections, age
<1>6. /\ DOMAIN members = found \cup {"intel_last_updated"}
      /\ members["intel_last_updated"] = age
      /\ \A name \in found : members[name] = sections[name]
  BY <1>4 DEF insert
<1> HIDE DEF members
<1>7. {key \in DOMAIN members : format_syslog_value(members[key]) # <<>>} = {"intel_last_updated"}
  BY <1>3, <1>4, <1>5, <1>6
<1> HIDE DEF judged
<1> QED BY <1>1, <1>7 DEF judged

(***************************************************************************)
(* The last event is its log, as parsed or with that key added.            *)
(***************************************************************************)
LEMMA Outcome ==
    ASSUME WholeDatabases, latest # Nothing
    PROVE  \/ latest.log = Parsed
           \/ /\ Parsed # None
              /\ \E members :
                    /\ latest.log = insert(Parsed, "forwarder_enrichment", Obj(members))
                    /\ {key \in DOMAIN members : format_syslog_value(members[key]) # <<>>}
                          = {"intel_last_updated"}
<1>1. CASE Parsed = None \/ latest.skipped
  BY <1>1 DEF WholeDatabases, JudgedByListing
<1>2. CASE ~(Parsed = None \/ latest.skipped)
  <2>1. PICK time, past : latest.log = enrich_and_analyze_log(
                              Parsed, DatabaseOf(latest.listing, time), past, geoip)
    BY <1>2 DEF WholeDatabases, JudgedByListing
  <2> QED BY <1>2, <2>1, Enriches
<1> QED BY <1>1, <1>2

(***************************************************************************)
(* Enrichment loses no key of a log and changes none but its own.          *)
(***************************************************************************)
LEMMA KeepsOwn ==
    ASSUME WholeDatabases, latest # Nothing, Parsed # None
    PROVE  /\ latest.log # None
           /\ OwnKeys(latest.log) = DOMAIN Parsed \ {"forwarder_enrichment"}
           /\ \A key \in OwnKeys(latest.log) : latest.log[key] = Parsed[key]
<1> DEFINE log == latest.log
           own == Parsed
<1>1. CASE log = own
  BY <1>1 DEF OwnKeys
<1>2. CASE \E members : log = insert(own, "forwarder_enrichment", Obj(members))
  <2>1. /\ DOMAIN log = DOMAIN own \cup {"forwarder_enrichment"}
        /\ \A key \in DOMAIN own \ {"forwarder_enrichment"} : log[key] = own[key]
    <3> HIDE DEF log, own
    <3> QED BY <1>2 DEF insert
  <2>2. log # None
    <3> HIDE DEF log, own
    <3> QED BY <2>1 DEF None
  <2> HIDE DEF log, own
  <2> QED BY <2>1, <2>2 DEF OwnKeys, log, own
<1> QED BY <1>1, <1>2, Outcome

(***************************************************************************)
(* The line of a firewall is one that may come, and its event comes of it. *)
(***************************************************************************)
LEMMA LineSent ==
    ASSUME WholeDatabases, FromFirewall
    PROVE  /\ latest.line \in Seq(Text) /\ latest.line # <<>>
           /\ Parsed = parse_palo_alto_log_to_json(latest.line)
BY RecordAssumption DEF RecordAssumption, WholeDatabases, TakenAsSent, FromFirewall, Parsed, Text

(***************************************************************************)
(* A filled column has a header and a text.                                *)
(***************************************************************************)
LEMMA FilledColumns ==
    ASSUME NEW line \in Seq(Text), line # <<>>
    PROVE  /\ Filled(line) \subseteq 1..Len(TableOf(line)) /\ Len(TableOf(line)) \in Nat
           /\ \A i \in Filled(line) : Columns(line)[i] \in Text /\ Columns(line)[i] # <<>>
<1>1. \A i \in Filled(line) : i \in 1..Len(line) /\ i \in 1..Len(TableOf(line)) /\ Columns(line)[i] # <<>>
  BY ColumnsAre, Tables DEF Filled
<1>2. \A i \in 1..Len(line) : Columns(line)[i] \in Text
  BY ColumnsAre, ElementOfSeq
<1> QED BY <1>1, <1>2, Tables

(***************************************************************************)
(* As many keys as filled columns, and two.                                *)
(***************************************************************************)
LEMMA KeysCounted ==
    ASSUME NEW line \in Seq(Text), line # <<>>
    PROVE  Cardinality({TableOf(line)[i] : i \in Filled(line)} \cup {"@timestamp", "log_source"})
             = Cardinality(Filled(line)) + 2
<1> DEFINE T == TableOf(line)
           F == Filled(line)
           names == {T[i] : i \in F}
           f == [i \in F |-> T[i]]
<1>1. IsFiniteSet(F)
  <2> DEFINE n == Len(T)
  <2>1. F \in SUBSET (1..n) /\ n \in Nat
    BY FilledColumns
  <2> HIDE DEF n, F
  <2>2. IsFiniteSet(1..n)
    BY <2>1, FS_Interval
  <2> QED BY <2>1, <2>2, FS_Subset
<1>2. /\ \A i, j \in F : T[i] = T[j] => i = j
      /\ \A i \in F : T[i] \notin {"@timestamp", "log_source"}
  BY FilledColumns, Tables DEF Reserved
<1> HIDE DEF T, F
<1>3. f \in Bijection(F, names)
  <2>1. f \in [F -> names]
    OBVIOUS
  <2>2. \A a, b \in F : f[a] = f[b] => a = b
    BY <1>2
  <2>3. \A t \in names : \E s \in F : f[s] = t
    OBVIOUS
  <2> HIDE DEF f, names
  <2> QED BY <2>1, <2>2, <2>3, Fun_IsBij
<1>4. IsFiniteSet(names) /\ Cardinality(names) = Cardinality(F)
  BY <1>1, <1>3, FS_Bijection DEF ExistsBijection
<1>5. /\ IsFiniteSet(names \cup {"@timestamp"})
      /\ Cardinality(names \cup {"@timestamp"}) = Cardinality(F) + 1
  <2>1. "@timestamp" \notin names
    BY <1>2
  <2> HIDE DEF names
  <2> QED BY <1>4, <2>1, FS_AddElement
<1>6. Cardinality((names \cup {"@timestamp"}) \cup {"log_source"}) = Cardinality(F) + 1 + 1
  <2>1. "log_source" \notin names \cup {"@timestamp"}
    BY <1>2
  <2> HIDE DEF names
  <2> QED BY <1>5, <2>1, FS_AddElement
<1>7. Cardinality(F) \in Nat
  BY <1>1, FS_CardinalityType
<1>8. (names \cup {"@timestamp"}) \cup {"log_source"} = names \cup {"@timestamp", "log_source"}
  OBVIOUS
<1> HIDE DEF names
<1>9. Cardinality(names \cup {"@timestamp", "log_source"}) = Cardinality(F) + 2
  <2> DEFINE c == Cardinality(F)
  <2>1. c \in Nat /\ Cardinality(names \cup {"@timestamp", "log_source"}) = c + 1 + 1
    BY <1>6, <1>7, <1>8
  <2> HIDE DEF c
  <2>2. c + 1 + 1 = c + 2
    BY <2>1
  <2> QED BY <2>1, <2>2 DEF c
<1> QED BY <1>9 DEF names, T, F

(***************************************************************************)
(* Every filled column of every recognisable line arrives under a key of   *)
(* its own, for every set of words and however enrichment, refreshes and   *)
(* load interfere (FieldsArrive).                                          *)
(***************************************************************************)
THEOREM FilledColumnsArrive == Spec => []FieldsArrive
<1>1. ASSUME WholeDatabases PROVE FieldsArrive
  <2> SUFFICES ASSUME FromFirewall, Recognisable(latest.line)
               PROVE  LET line == latest.line
                          log == latest.log
                      IN  /\ log # None
                          /\ \A i \in Filled(line) :
                                /\ TableOf(line)[i] \in DOMAIN log
                                /\ log[TableOf(line)[i]] \in {Str(Columns(line)[i]), Num(Columns(line)[i][1]), Num("0")}
                          /\ Cardinality(OwnKeys(log)) = Cardinality(Filled(line)) + 2
    BY DEF FieldsArrive
  <2> DEFINE line == latest.line
             log == latest.log
             T == TableOf(line)
             keys == {T[i] : i \in Filled(line)} \cup {"@timestamp", "log_source"}
  <2>1. /\ line \in Seq(Text) /\ line # <<>> /\ latest # Nothing
        /\ Parsed = parse_palo_alto_log_to_json(line)
    BY <1>1, LineSent DEF FromFirewall
  <2>2. /\ Parsed # None /\ DOMAIN Parsed = keys
        /\ \A i \in Filled(line) : Parsed[T[i]] = ParsedValue(T[i], Columns(line)[i])
    BY <2>1, RecordIs
  <2>3. "forwarder_enrichment" \notin keys
    BY <2>1, FilledColumns, Tables DEF Reserved
  <2>4. log # None /\ OwnKeys(log) = keys /\ \A key \in keys : log[key] = Parsed[key]
    BY <1>1, <2>1, <2>2, <2>3, KeepsOwn
  <2>5. ASSUME NEW i \in Filled(line)
        PROVE  /\ T[i] \in DOMAIN log
               /\ log[T[i]] \in {Str(Columns(line)[i]), Num(Columns(line)[i][1]), Num("0")}
    <3>1. Columns(line)[i] \in Text /\ Columns(line)[i] # <<>>
      BY <2>1, FilledColumns
    <3>2. T[i] \in keys
      OBVIOUS
    <3>3. log[T[i]] = ParsedValue(T[i], Columns(line)[i]) /\ T[i] \in DOMAIN log
      <4> HIDE DEF keys, T, line, log
      <4> QED BY <2>2, <2>4, <3>2 DEF OwnKeys
    <3> HIDE DEF T, line, log
    <3> QED BY <3>1, <3>3, ValueIs
  <2>6. Cardinality(OwnKeys(log)) = Cardinality(Filled(line)) + 2
    BY <2>1, <2>4, KeysCounted
  <2> HIDE DEF keys
  <2> QED BY <2>4, <2>5, <2>6
<1> QED BY <1>1, EmptyAtFirst, WholeStays, PTL DEF Spec

-----------------------------------------------------------------------------
(* Packets and their events.                                               *)

(***************************************************************************)
(* Of nothing nothing can be got.                                          *)
(***************************************************************************)
LEMMA NothingGot ==
    /\ \A key : get(None, key) = None
    /\ TextOf(None) = <<>> /\ ~IsObj(None)
BY DEF get, TextOf, IsObj, IsStr, None

(***************************************************************************)
(* The flow fields that are numbers.                                       *)
(***************************************************************************)
NumberNames == {"Source Port", "Destination Port", "ip_version", "Bytes", "timestamp_ms"}

(***************************************************************************)
(* The flow fields of a packet, key by key.                                *)
(***************************************************************************)
LEMMA FlowNames ==
    ASSUME NEW layers, NEW time
    PROVE  /\ DOMAIN FlowFields(layers, time)
                 = {"Source Port", "Destination Port", "source_address", "destination_address",
                    "ip_version", "ip_protocol", "Bytes", "timestamp_ms", "time_utc", "protocols",
                    "log_type"}
           /\ FlowFields(layers, time)["source_address"] = Str(extract_ip(layers).src)
           /\ FlowFields(layers, time)["destination_address"] = Str(extract_ip(layers).dst)
           /\ FlowFields(layers, time)["ip_protocol"] = Str(<<extract_transport(layers).name>>)
           /\ FlowFields(layers, time)["time_utc"] = Str(extract_frame(layers).time_utc)
           /\ FlowFields(layers, time)["protocols"] = Str(extract_frame(layers).protocols)
           /\ FlowFields(layers, time)["log_type"] = Str(<<"tshark">>)
           /\ FlowFields(layers, time)["ip_version"] = Num(extract_ip(layers).version)
           /\ FlowFields(layers, time)["Bytes"] = Num(extract_frame(layers).len)
           /\ FlowFields(layers, time)["timestamp_ms"] = Num(time)
           /\ FlowFields(layers, time)["Source Port"] = Num(extract_transport(layers).sp)
           /\ FlowFields(layers, time)["Destination Port"] = Num(extract_transport(layers).dp)
<1> DEFINE ip == extract_ip(layers)
           transport == extract_transport(layers)
           frame == extract_frame(layers)
           ports == [key \in {"Source Port", "Destination Port"} |->
                        Num(IF key = "Source Port" THEN transport.sp ELSE transport.dp)]
           named == [source_address |-> Str(ip.src), destination_address |-> Str(ip.dst),
             ip_version |-> Num(ip.version), ip_protocol |-> Str(<<transport.name>>),
             Bytes |-> Num(frame.len), timestamp_ms |-> Num(time),
             time_utc |-> Str(frame.time_utc), protocols |-> Str(frame.protocols),
             log_type |-> Str(<<"tshark">>)]
<1>1. FlowFields(layers, time) = extend(ports, named)
  BY DEF FlowFields
<1> HIDE DEF ip, transport, frame
<1>2. /\ DOMAIN ports = {"Source Port", "Destination Port"}
      /\ ports["Source Port"] = Num(transport.sp) /\ ports["Destination Port"] = Num(transport.dp)
  OBVIOUS
<1>3. /\ DOMAIN named = {"source_address", "destination_address", "ip_version", "ip_protocol",
                         "Bytes", "timestamp_ms", "time_utc", "protocols", "log_type"}
      /\ named["source_address"] = Str(ip.src) /\ named["destination_address"] = Str(ip.dst)
      /\ named["ip_protocol"] = Str(<<transport.name>>)
      /\ named["time_utc"] = Str(frame.time_utc) /\ named["protocols"] = Str(frame.protocols)
      /\ named["log_type"] = Str(<<"tshark">>)
      /\ named["ip_version"] = Num(ip.version) /\ named["Bytes"] = Num(frame.len)
      /\ named["timestamp_ms"] = Num(time)
  OBVIOUS
<1> HIDE DEF ports, named
<1>4. extend(ports, named)
        = [key \in DOMAIN ports \cup DOMAIN named |->
              IF key \in DOMAIN named THEN named[key] ELSE ports[key]]
  BY DEF extend
<1> DEFINE flow == extend(ports, named)
<1>5. /\ DOMAIN flow = {"Source Port", "Destination Port", "source_address", "destination_address",
                       "ip_version", "ip_protocol", "Bytes", "timestamp_ms", "time_utc", "protocols",
                       "log_type"}
      /\ \A key \in DOMAIN named : flow[key] = named[key]
      /\ \A key \in DOMAIN ports \ DOMAIN named : flow[key] = ports[key]
  <2>1. DOMAIN flow = DOMAIN ports \cup DOMAIN named
    BY <1>4
  <2>2. /\ \A key \in DOMAIN named : flow[key] = named[key]
        /\ \A key \in DOMAIN ports \ DOMAIN named : flow[key] = ports[key]
    BY <1>4
  <2> HIDE DEF flow
  <2>3. DOMAIN ports \cup DOMAIN named
          = {"Source Port", "Destination Port", "source_address", "destination_address",
             "ip_version", "ip_protocol", "Bytes", "timestamp_ms", "time_utc", "protocols",
             "log_type"}
    BY <1>2, <1>3
  <2> QED BY <2>1, <2>2, <2>3
<1> HIDE DEF flow
<1>6. /\ flow["ip_version"] = Num(ip.version) /\ flow["Bytes"] = Num(frame.len)
      /\ flow["timestamp_ms"] = Num(time)
      /\ flow["Source Port"] = Num(transport.sp) /\ flow["Destination Port"] = Num(transport.dp)
  BY <1>2, <1>3, <1>5
<1>7. /\ flow["source_address"] = Str(ip.src) /\ flow["destination_address"] = Str(ip.dst)
      /\ flow["ip_protocol"] = Str(<<transport.name>>)
      /\ flow["time_utc"] = Str(frame.time_utc) /\ flow["protocols"] = Str(frame.protocols)
      /\ flow["log_type"] = Str(<<"tshark">>)
  BY <1>3, <1>5
<1>8. FlowFields(layers, time) = flow
  BY <1>1 DEF flow
<1> QED BY <1>5, <1>6, <1>7, <1>8 DEF ip, transport, frame

(***************************************************************************)
(* Those that are numbers.                                                 *)
(***************************************************************************)
LEMMA FlowNumbers ==
    ASSUME NEW layers, NEW time, NEW key \in NumberNames
    PROVE  \E word : FlowFields(layers, time)[key] = Num(word)
<1>1. /\ FlowFields(layers, time)["ip_version"] = Num(extract_ip(layers).version)
      /\ FlowFields(layers, time)["Bytes"] = Num(extract_frame(layers).len)
      /\ FlowFields(layers, time)["timestamp_ms"] = Num(time)
      /\ FlowFields(layers, time)["Source Port"] = Num(extract_transport(layers).sp)
      /\ FlowFields(layers, time)["Destination Port"] = Num(extract_transport(layers).dp)
  BY FlowNames
<1> QED BY <1>1 DEF NumberNames

(***************************************************************************)
(* A packet that becomes an event has layers and an IP header, and its     *)
(* event is the layers with the flow fields in front of them.              *)
(***************************************************************************)
LEMMA PacketIs ==
    ASSUME NEW packet, normalize_packet(packet) # None
    PROVE  LET layers == get(packet, "layers")
               time == WordOf(TextOf(get(packet, "timestamp")))
           IN  /\ IsObj(layers) /\ extract_ip(layers) # None
               /\ normalize_packet(packet) = extend(layers.object, FlowFields(layers, time))
<1> DEFINE layers == get(packet, "layers")
           time == WordOf(TextOf(get(packet, "timestamp")))
<1>1. extract_ip(layers) # None
  BY DEF normalize_packet
<1>2. IsObj(layers)
  <2>1. ASSUME ~IsObj(layers) PROVE get(layers, "ip") = None /\ get(layers, "ipv6") = None
    BY <2>1 DEF get
  <2> HIDE DEF layers
  <2> QED BY <1>1, <2>1, NothingGot DEF extract_ip
<1>3. normalize_packet(packet) = extend(layers.object, FlowFields(layers, time))
  BY <1>2 DEF normalize_packet
<1> QED BY <1>1, <1>2, <1>3

(***************************************************************************)
(* A packet with a sender has an IP header, and its flow starts there.     *)
(***************************************************************************)
LEMMA SourceIs ==
    ASSUME NEW layers, SourceSent(layers) # <<>>
    PROVE  layers # None /\ extract_ip(layers) # None /\ extract_ip(layers).src = SourceSent(layers)
<1> DEFINE ip == get(layers, "ip")
           ip6 == get(layers, "ipv6")
           flow == IF IsObj(ip)
                   THEN [src |-> FieldOr(ip, "ip_ip_src", "ip_ip_src_host"),
                         dst |-> FieldOr(ip, "ip_ip_dst", "ip_ip_dst_host"), version |-> "4"]
                   ELSE [src |-> TextOf(get(ip6, "ipv6_ipv6_src")),
                         dst |-> TextOf(get(ip6, "ipv6_ipv6_dst")), version |-> "6"]
<1>1. extract_ip(layers) = IF flow.src = <<>> /\ flow.dst = <<>> THEN None ELSE flow
  BY DEF extract_ip
<1>2. SourceSent(layers) = TextOf(IF IsObj(ip) THEN get(ip, "ip_ip_src") ELSE get(ip6, "ipv6_ipv6_src"))
  BY DEF SourceSent
<1>3. layers # None
  <2> SUFFICES ASSUME layers = None PROVE FALSE
    OBVIOUS
  <2>1. ip = None /\ ip6 = None
    BY NothingGot
  <2> HIDE DEF ip, ip6
  <2> QED BY <1>2, <2>1, NothingGot
<1> HIDE DEF ip, ip6
<1>4. flow.src = SourceSent(layers)
  <2>1. CASE IsObj(ip)
    <3>1. get(ip, "ip_ip_src") # None
      BY <1>2, <2>1, NothingGot
    <3> QED BY <1>2, <2>1, <3>1 DEF FieldOr
  <2>2. CASE ~IsObj(ip)
    BY <1>2, <2>2
  <2> QED BY <2>1, <2>2
<1>5. flow # None
  <2>1. "src" \in DOMAIN flow
    OBVIOUS
  <2> HIDE DEF flow
  <2> QED BY <2>1 DEF None
<1> HIDE DEF flow
<1> QED BY <1>1, <1>3, <1>4, <1>5

(***************************************************************************)
(* Every timed packet with a sender becomes an event that names it and     *)
(* keeps the other layers, whatever the layers are called, and no packet   *)
(* without an IP header does (FlowArrives).                                *)
(***************************************************************************)
THEOREM FlowsArrive == Spec => []FlowArrives
<1>1. ASSUME WholeDatabases PROVE FlowArrives
  <2> SUFFICES ASSUME FromTshark PROVE FlowArrives
    BY DEF FlowArrives
  <2> DEFINE packet == latest.line
             layers == get(packet, "layers")
             time == WordOf(TextOf(get(packet, "timestamp")))
             log == latest.log
             flow == FlowFields(layers, time)
  <2>1. Parsed = normalize_packet(packet) /\ latest # Nothing
    BY DEF FromTshark, Parsed
  <2>2. ASSUME SourceSent(layers) # <<>>, time \in IntegerWords
        PROVE  /\ log # None
               /\ log.source_address = Str(SourceSent(layers))
               /\ log.log_type = Str(<<"tshark">>) /\ IsStr(log.protocols)
               /\ \A name \in DOMAIN KeptLayers(layers) : log[name] = layers.object[name]
    <3>1. normalize_packet(packet) # None
      <4>1. layers # None /\ extract_ip(layers) # None
        BY <2>2, SourceIs
      <4>2. normalize_packet(packet)
              = extend(IF IsObj(layers) THEN layers.object ELSE <<>>, flow)
        BY <2>2, <4>1 DEF normalize_packet
      <4>3. "log_type" \in DOMAIN flow
        BY FlowNames
      <4> HIDE DEF flow, layers
      <4>4. "log_type" \in DOMAIN normalize_packet(packet)
        BY <4>2, <4>3 DEF extend
      <4> QED BY <4>4 DEF None
    <3>2. Parsed = extend(layers.object, flow)
      BY <2>1, <3>1, PacketIs
    <3>3. /\ DOMAIN Parsed = DOMAIN layers.object \cup DOMAIN flow
          /\ \A key \in DOMAIN flow : Parsed[key] = flow[key]
          /\ \A key \in DOMAIN layers.object \ DOMAIN flow : Parsed[key] = layers.object[key]
      <4> HIDE DEF layers, flow
      <4> QED BY <3>2 DEF extend
    <3>4. /\ log # None
          /\ \A key \in DOMAIN Parsed \ {"forwarder_enrichment"} : log[key] = Parsed[key]
      <4> HIDE DEF log
      <4> QED BY <1>1, <2>1, <3>1, KeepsOwn DEF log
    <3>5. /\ {"source_address", "log_type", "protocols"} \subseteq DOMAIN flow \ {"forwarder_enrichment"}
          /\ flow["source_address"] = Str(SourceSent(layers))
          /\ flow["log_type"] = Str(<<"tshark">>) /\ IsStr(flow["protocols"])
      <4>1. IsStr(flow["protocols"])
        <5>1. flow["protocols"] = Str(extract_frame(layers).protocols)
          BY FlowNames
        <5> QED BY <5>1, StringIs
      <4>2. flow["source_address"] = Str(SourceSent(layers))
        <5>1. flow["source_address"] = Str(extract_ip(layers).src)
          BY FlowNames
        <5>2. extract_ip(layers).src = SourceSent(layers)
          BY <2>2, SourceIs
        <5> QED BY <5>1, <5>2
      <4> QED BY <4>1, <4>2, FlowNames
    <3>6. ASSUME NEW name \in DOMAIN KeptLayers(layers)
          PROVE  name \in DOMAIN layers.object \ (DOMAIN flow \cup {"forwarder_enrichment"})
      <4>1. DOMAIN FlowFields(layers, "") = DOMAIN flow
        BY FlowNames
      <4> HIDE DEF layers, flow
      <4> QED BY <4>1 DEF KeptLayers
    <3> HIDE DEF log, layers, flow
    <3>7. /\ log["source_address"] = Str(SourceSent(layers))
          /\ log["log_type"] = Str(<<"tshark">>) /\ IsStr(log["protocols"])
      BY <3>3, <3>4, <3>5
    <3> QED BY <3>3, <3>4, <3>6, <3>7
  <2>3. ASSUME ~IsObj(get(layers, "ip")), ~IsObj(get(layers, "ipv6")) PROVE log = None
    <3>1. /\ get(get(layers, "ipv6"), "ipv6_ipv6_src") = None
          /\ get(get(layers, "ipv6"), "ipv6_ipv6_dst") = None
      BY <2>3 DEF get
    <3>2. extract_ip(layers) = None
      <4> HIDE DEF layers
      <4> QED BY <2>3, <3>1, NothingGot DEF extract_ip
    <3>3. Parsed = None
      BY <2>1, <3>2 DEF normalize_packet
    <3> QED BY <1>1, <2>1, <3>3, Outcome
  <2> HIDE DEF log
  <2> QED BY <2>2, <2>3 DEF FlowArrives, log
<1> QED BY <1>1, EmptyAtFirst, WholeStays, PTL DEF Spec

-----------------------------------------------------------------------------
(* What stands in the event is what was received.                          *)

(***************************************************************************)
(* The words of one value of a log.                                        *)
(***************************************************************************)
WordsUnder(value) ==
    IF IsObj(value) THEN UNION {WordsOf(value.object[k]) : k \in DOMAIN value.object}
    ELSE WordsOf(value)

(***************************************************************************)
(* The words of a log are those of its values.                             *)
(***************************************************************************)
LEMMA WordsByKey ==
    ASSUME NEW log
    PROVE  \A word : word \in WordsIn(log) <=> \E key \in DOMAIN log : word \in WordsUnder(log[key])
BY DEF WordsIn, WordsUnder

(***************************************************************************)
(* In a record is found what is found in the filled columns of its line.   *)
(***************************************************************************)
LEMMA RecordWords ==
    ASSUME NEW line \in Seq(Text), line # <<>>, Recognisable(line), NEW kind \in Kinds
    PROVE  FoundIn(kind, WordsIn(parse_palo_alto_log_to_json(line)))
             = FoundIn(kind, UNION {Range(Columns(line)[i]) : i \in Filled(line)})
<1> DEFINE log == parse_palo_alto_log_to_json(line)
           T == TableOf(line)
           cells == UNION {Range(Columns(line)[i]) : i \in Filled(line)}
<1>1. /\ DOMAIN log = {T[i] : i \in Filled(line)} \cup {"@timestamp", "log_source"}
      /\ \A i \in Filled(line) : log[T[i]] = ParsedValue(T[i], Columns(line)[i])
      /\ log["@timestamp"] = Str(<<"now">>) /\ log["log_source"] = Str(<<"palo_alto">>)
  BY RecordIs
<1>2. ASSUME NEW i \in Filled(line)
      PROVE  /\ WordsUnder(log[T[i]]) = WordsOf(log[T[i]])
             /\ FoundIn(kind, WordsOf(log[T[i]])) = FoundIn(kind, Range(Columns(line)[i]))
  <2>1. Columns(line)[i] \in Text /\ Columns(line)[i] # <<>>
    BY FilledColumns
  <2>2. log[T[i]] = ParsedValue(T[i], Columns(line)[i])
    BY <1>1
  <2> HIDE DEF log, T
  <2> QED BY <2>1, <2>2, ValueIs DEF WordsUnder
<1>3. ASSUME NEW key \in {"@timestamp", "log_source"}
      PROVE  FoundIn(kind, WordsUnder(log[key])) = {}
  <2>1. PICK word \in {"now", "palo_alto"} : log[key] = Str(<<word>>)
    BY <1>1
  <2>2. Range(<<word>>) = {word}
    BY DEF Range
  <2>3. WordsUnder(log[key]) = {word}
    <3> HIDE DEF log
    <3> QED BY <2>1, <2>2, StringIs DEF WordsUnder
  <2>4. {word} \subseteq AddedWords
    BY DEF AddedWords
  <2> HIDE DEF log
  <2> QED BY <2>3, <2>4, Silent
<1> HIDE DEF log, T
<1>4. ASSUME NEW i, i \in FoundIn(kind, WordsIn(log)) PROVE i \in FoundIn(kind, cells)
  <2>1. PICK word \in WordsIn(log) : word \in DOMAIN Found[kind] /\ i \in Found[kind][word]
    BY <1>4, WordsFound
  <2>2. PICK key \in DOMAIN log : word \in WordsUnder(log[key])
    BY WordsByKey
  <2>3. i \in FoundIn(kind, WordsUnder(log[key]))
    BY <2>1, <2>2, WordsFound
  <2>4. PICK j \in Filled(line) : key = T[j]
    BY <1>1, <1>3, <2>3
  <2>5. i \in FoundIn(kind, Range(Columns(line)[j]))
    BY <1>2, <2>3, <2>4
  <2>6. Range(Columns(line)[j]) \subseteq cells
    OBVIOUS
  <2> HIDE DEF cells
  <2> QED BY <2>5, <2>6, WordsFound
<1>5. ASSUME NEW i, i \in FoundIn(kind, cells) PROVE i \in FoundIn(kind, WordsIn(log))
  <2>1. PICK word \in cells : word \in DOMAIN Found[kind] /\ i \in Found[kind][word]
    BY <1>5, WordsFound
  <2>2. PICK j \in Filled(line) : word \in Range(Columns(line)[j])
    OBVIOUS
  <2>3. i \in FoundIn(kind, Range(Columns(line)[j]))
    BY <2>1, <2>2, WordsFound
  <2>4. i \in FoundIn(kind, WordsUnder(log[T[j]])) /\ T[j] \in DOMAIN log
    BY <1>1, <1>2, <2>3
  <2>5. WordsUnder(log[T[j]]) \subseteq WordsIn(log)
    BY <2>4, WordsByKey
  <2> QED BY <2>4, <2>5, WordsFound
<1> HIDE DEF cells
<1>6. FoundIn(kind, WordsIn(log)) = FoundIn(kind, cells)
  BY <1>4, <1>5
<1> QED BY <1>6 DEF log, cells

(***************************************************************************)
(* A text of one of these layers is among the words of the layers that are *)
(* kept.                                                                   *)
(***************************************************************************)
LEMMA LayerWords ==
    ASSUME NEW layers, IsObj(layers), NEW name \in {"ip", "ipv6", "frame"}, NEW k
    PROVE  Range(TextOf(get(get(layers, name), k))) \subseteq WordsIn(KeptLayers(layers))
<1> DEFINE layer == get(layers, name)
           value == get(layer, k)
           kept == KeptLayers(layers)
<1>1. CASE value = None \/ ~IsStr(value)
  <2>1. TextOf(value) = <<>>
    <3> HIDE DEF value
    <3> QED BY <1>1, NothingGot DEF TextOf
  <2>2. Range(<<>>) = {}
    BY DEF Range
  <2> HIDE DEF value
  <2> QED BY <2>1, <2>2 DEF value, layer
<1>2. CASE value # None /\ IsStr(value)
  <2>1. IsObj(layer) /\ k \in DOMAIN layer.object /\ value = layer.object[k]
    <3> HIDE DEF layer
    <3> QED BY <1>2 DEF get
  <2>2. name \in DOMAIN layers.object /\ layer = layers.object[name]
    BY <2>1, NothingGot DEF get
  <2>3. name \in DOMAIN kept /\ kept[name] = layers.object[name]
    <3>1. name \notin DOMAIN FlowFields(layers, "")
      BY FlowNames
    <3> QED BY <2>2, <3>1 DEF KeptLayers
  <2> HIDE DEF kept, layer, value
  <2>4. WordsOf(value) \subseteq WordsUnder(layer)
    BY <2>1 DEF WordsUnder
  <2>5. WordsOf(value) = Range(TextOf(value))
    <3>1. Leaves(value) = <<TextOf(value)>>
      BY <1>2 DEF Leaves, TextOf
    <3>2. Range(<<TextOf(value)>>) = {TextOf(value)}
      BY DEF Range
    <3> QED BY <3>1, <3>2 DEF WordsOf
  <2>6. WordsUnder(layer) \subseteq WordsIn(kept)
    BY <2>2, <2>3, WordsByKey
  <2> QED BY <2>4, <2>5, <2>6 DEF kept, layer, value
<1> QED BY <1>1, <1>2

(***************************************************************************)
(* The flow fields hold words of the kept layers and words that are added. *)
(***************************************************************************)
LEMMA FlowWords ==
    ASSUME NEW layers, IsObj(layers), extract_ip(layers) # None, NEW time,
           NEW key \in DOMAIN FlowFields(layers, time)
    PROVE  WordsUnder(FlowFields(layers, time)[key]) \subseteq WordsIn(KeptLayers(layers)) \cup AddedWords
<1> DEFINE flow == FlowFields(layers, time)
           words == WordsIn(KeptLayers(layers))
           ip == get(layers, "ip")
           ip6 == get(layers, "ipv6")
           frame == get(layers, "frame")
<1>1. \A text : WordsUnder(Str(text)) = Range(text)
  BY StringIs DEF WordsUnder
<1>2. \A word : WordsUnder(Num(word)) = {}
  BY NumberIs DEF WordsUnder
<1>3. \A k : /\ Range(TextOf(get(ip, k))) \subseteq words
             /\ Range(TextOf(get(ip6, k))) \subseteq words
             /\ Range(TextOf(get(frame, k))) \subseteq words
  BY LayerWords
<1> HIDE DEF words
<1>4. \A k1, k2 : Range(FieldOr(ip, k1, k2)) \subseteq words
  <2> HIDE DEF ip
  <2> QED BY <1>3 DEF FieldOr
<1>5. Range(extract_ip(layers).src) \subseteq words /\ Range(extract_ip(layers).dst) \subseteq words
  <2>1. /\ extract_ip(layers).src = IF IsObj(ip) THEN FieldOr(ip, "ip_ip_src", "ip_ip_src_host")
                                    ELSE TextOf(get(ip6, "ipv6_ipv6_src"))
        /\ extract_ip(layers).dst = IF IsObj(ip) THEN FieldOr(ip, "ip_ip_dst", "ip_ip_dst_host")
                                    ELSE TextOf(get(ip6, "ipv6_ipv6_dst"))
    BY DEF extract_ip
  <2> HIDE DEF ip, ip6
  <2> QED BY <1>3, <1>4, <2>1
<1>6. /\ Range(extract_frame(layers).time_utc) \subseteq words
      /\ Range(extract_frame(layers).protocols) \subseteq words
  <2>1. /\ extract_frame(layers).time_utc = TextOf(get(frame, "frame_frame_time_utc"))
        /\ extract_frame(layers).protocols = TextOf(get(frame, "frame_frame_protocols"))
    BY DEF extract_frame
  <2> HIDE DEF frame
  <2> QED BY <1>3, <2>1
<1>7. \A word : Range(<<word>>) = {word}
  BY DEF Range
<1>8. extract_transport(layers).name \in {"TCP", "UDP", "OTHER"}
  BY DEF extract_transport
<1>9. /\ {"TCP", "UDP", "OTHER", "tshark"} \subseteq AddedWords
  BY DEF AddedWords
<1> HIDE DEF flow
<1>10. CASE key \in NumberNames
  <2>1. PICK word : flow[key] = Num(word)
    BY <1>10, FlowNumbers DEF flow
  <2> QED BY <1>2, <2>1 DEF flow, words
<1>11. CASE key \in {"source_address", "destination_address"}
  <2>1. flow[key] = Str(extract_ip(layers).src) \/ flow[key] = Str(extract_ip(layers).dst)
    <3>1. /\ flow["source_address"] = Str(extract_ip(layers).src)
          /\ flow["destination_address"] = Str(extract_ip(layers).dst)
      BY FlowNames DEF flow
    <3> QED BY <1>11, <3>1
  <2> QED BY <1>1, <1>5, <2>1 DEF flow, words
<1>12. CASE key \in {"time_utc", "protocols"}
  <2>1. flow[key] = Str(extract_frame(layers).time_utc) \/ flow[key] = Str(extract_frame(layers).protocols)
    <3>1. /\ flow["time_utc"] = Str(extract_frame(layers).time_utc)
          /\ flow["protocols"] = Str(extract_frame(layers).protocols)
      BY FlowNames DEF flow
    <3> QED BY <1>12, <3>1
  <2> QED BY <1>1, <1>6, <2>1 DEF flow, words
<1>13. CASE key \in {"ip_protocol", "log_type"}
  <2> DEFINE name == extract_transport(layers).name
  <2>1. flow["ip_protocol"] = Str(<<name>>) /\ flow["log_type"] = Str(<<"tshark">>)
    BY FlowNames DEF flow
  <2>2. name \in AddedWords /\ "tshark" \in AddedWords
    BY <1>8, <1>9
  <2> HIDE DEF name
  <2>3. flow[key] = Str(<<name>>) \/ flow[key] = Str(<<"tshark">>)
    BY <1>13, <2>1
  <2>4. WordsUnder(flow[key]) = {name} \/ WordsUnder(flow[key]) = {"tshark"}
    BY <1>1, <1>7, <2>3
  <2> QED BY <2>2, <2>4 DEF flow, words
<1> QED
  <2>1. \/ key \in NumberNames
        \/ key \in {"source_address", "destination_address"} \/ key \in {"time_utc", "protocols"}
        \/ key \in {"ip_protocol", "log_type"}
    BY FlowNames DEF NumberNames
  <2> QED BY <1>10, <1>11, <1>12, <1>13, <2>1

(***************************************************************************)
(* In the event of a packet is found what is found in its kept layers.     *)
(***************************************************************************)
LEMMA PacketWords ==
    ASSUME NEW packet, normalize_packet(packet) # None, Unmarked(packet), NEW kind \in Kinds
    PROVE  FoundIn(kind, WordsIn(normalize_packet(packet)))
             = FoundIn(kind, WordsIn(KeptLayers(get(packet, "layers"))))
<1> DEFINE layers == get(packet, "layers")
           time == WordOf(TextOf(get(packet, "timestamp")))
           log == normalize_packet(packet)
           flow == FlowFields(layers, time)
           kept == KeptLayers(layers)
           words == WordsIn(kept)
<1>1. IsObj(layers) /\ extract_ip(layers) # None /\ log = extend(layers.object, flow)
  BY PacketIs
<1>2. \A key \in DOMAIN flow : WordsUnder(flow[key]) \subseteq words \cup AddedWords
  BY <1>1, FlowWords
<1>3. /\ DOMAIN kept = DOMAIN layers.object \ DOMAIN flow
      /\ \A key \in DOMAIN kept : kept[key] = layers.object[key]
  <2>1. DOMAIN FlowFields(layers, "") = DOMAIN flow
    BY FlowNames
  <2>2. "forwarder_enrichment" \notin DOMAIN layers.object
    BY DEF Unmarked
  <2> HIDE DEF layers, flow
  <2> QED BY <2>1, <2>2 DEF KeptLayers
<1> HIDE DEF layers, log, flow, kept
<1>4. /\ DOMAIN log = DOMAIN kept \cup DOMAIN flow
      /\ \A key \in DOMAIN kept : log[key] = kept[key]
      /\ \A key \in DOMAIN flow : log[key] = flow[key]
  BY <1>1, <1>3 DEF extend
<1>5. words \subseteq WordsIn(log)
  BY <1>4, WordsByKey
<1>6. WordsIn(log) \subseteq words \cup AddedWords
  <2> SUFFICES ASSUME NEW word \in WordsIn(log) PROVE word \in words \cup AddedWords
    OBVIOUS
  <2>1. PICK key \in DOMAIN log : word \in WordsUnder(log[key])
    BY WordsByKey
  <2>2. CASE key \in DOMAIN kept
    BY <1>4, <2>1, <2>2, WordsByKey
  <2>3. CASE key \in DOMAIN flow
    <3> HIDE DEF words
    <3> QED BY <1>2, <1>4, <2>1, <2>3
  <2> QED BY <1>4, <2>2, <2>3
<1> HIDE DEF words
<1>7. FoundIn(kind, WordsIn(log)) = FoundIn(kind, words)
  <2>1. FoundIn(kind, AddedWords) = {}
    BY Silent
  <2>2. ASSUME NEW i PROVE i \in FoundIn(kind, WordsIn(log)) <=> i \in FoundIn(kind, words)
    BY <1>5, <1>6, <2>1, WordsFound
  <2> QED BY <2>2
<1> QED BY <1>7 DEF log, words, kept, layers

(***************************************************************************)
(* An event reports exactly the indicators that stand in what was received *)
(* and in the feeds in force: nothing is lost or made up by parsing, by    *)
(* the order of the layers or by a refresh in between (ListedIsReported).  *)
(***************************************************************************)
THEOREM ReceivedIsReported == Spec => []ListedIsReported
<1>1. ASSUME WholeDatabases PROVE ListedIsReported
  <2> DEFINE log == latest.log
             answers == IF latest.listing = None THEN <<>> ELSE latest.listing
  <2> SUFFICES ASSUME latest # Nothing, log # None, ~latest.skipped,
                      IF FromTshark THEN Unmarked(latest.line) ELSE Recognisable(latest.line)
               PROVE  /\ Reported(log, "malicious_ips")
                            = {[ip |-> i, sources |-> ListedBy("ip", i, answers)] :
                                  i \in {j \in ListedIn("ip", answers) : is_public_ip(<<j>>)}}
                      /\ Reported(log, "malicious_domains") = ListedIn("domain", answers)
                      /\ Reported(log, "malicious_hashes") = ListedIn("hash", answers)
                      /\ Reported(log, "malicious_urls") = ListedIn("url", answers)
    BY DEF ListedIsReported
  <2>1. Parsed # None
    BY <1>1, Outcome DEF WholeDatabases, JudgedByListing
  <2>2. /\ "forwarder_enrichment" \notin DOMAIN Parsed
        /\ \A kind \in Kinds : FoundIn(kind, WordsIn(Parsed)) = FoundIn(kind, Contents)
    <3>1. CASE mode = "tshark"
      <4> DEFINE packet == latest.line
                 layers == get(packet, "layers")
                 time == WordOf(TextOf(get(packet, "timestamp")))
      <4>1. FromTshark /\ ~FromFirewall /\ Unmarked(packet) /\ Parsed = normalize_packet(packet)
        BY <3>1 DEF FromTshark, FromFirewall, Parsed
      <4>2. Parsed = extend(layers.object, FlowFields(layers, time))
        BY <2>1, <4>1, PacketIs
      <4>3. "forwarder_enrichment" \notin DOMAIN FlowFields(layers, time)
        <5> HIDE DEF layers, time
        <5>1. DOMAIN FlowFields(layers, time)
                = {"Source Port", "Destination Port", "source_address", "destination_address",
                   "ip_version", "ip_protocol", "Bytes", "timestamp_ms", "time_utc", "protocols",
                   "log_type"}
          BY FlowNames
        <5> QED BY <5>1
      <4>4. "forwarder_enrichment" \notin DOMAIN Parsed
        BY <4>1, <4>2, <4>3 DEF Unmarked, extend
      <4>5. Contents = WordsIn(KeptLayers(layers))
        BY <4>1 DEF Contents
      <4>6. \A kind \in Kinds : FoundIn(kind, WordsIn(Parsed)) = FoundIn(kind, Contents)
        BY <2>1, <4>1, <4>5, PacketWords
      <4> QED BY <4>4, <4>6
    <3>2. CASE mode # "tshark"
      <4> DEFINE line == latest.line
      <4>1. FromFirewall /\ ~FromTshark
        BY <1>1, <3>2 DEF WholeDatabases, TakenAsSent, FromFirewall, FromTshark
      <4>2. line \in Seq(Text) /\ line # <<>> /\ Recognisable(line)
            /\ Parsed = parse_palo_alto_log_to_json(line)
        BY <1>1, <4>1, LineSent
      <4>3. DOMAIN Parsed = {TableOf(line)[i] : i \in Filled(line)} \cup {"@timestamp", "log_source"}
        BY <4>2, RecordIs
      <4>4. "forwarder_enrichment" \notin DOMAIN Parsed
        BY <4>2, <4>3, FilledColumns, Tables DEF Reserved
      <4>5. Contents = UNION {Range(Columns(line)[i]) : i \in Filled(line)}
        BY <4>1 DEF Contents
      <4>6. \A kind \in Kinds : FoundIn(kind, WordsIn(Parsed)) = FoundIn(kind, Contents)
        <5> HIDE DEF line
        <5> QED BY <4>2, <4>5, RecordWords
      <4> QED BY <4>4, <4>6
    <3> QED BY <3>1, <3>2
  <2>3. PICK time, past : log = enrich_and_analyze_log(
                              Parsed, DatabaseOf(latest.listing, time), past, geoip)
    BY <1>1, <2>1 DEF WholeDatabases, JudgedByListing
  <2>4. ReportsExactly(log, WordsIn(Parsed), latest.listing)
    BY <2>2, <2>3, LookupIsExact
  <2>5. {"ip", "domain", "hash", "url"} \subseteq Kinds
    BY DEF Kinds
  <2>6. \A kind \in Kinds :
           {i \in FoundIn(kind, WordsIn(Parsed)) : ListedBy(kind, i, answers) # {}}
              = ListedIn(kind, answers)
    <3> HIDE DEF answers
    <3> QED BY <2>2 DEF ListedIn
  <2> HIDE DEF log
  <2> QED BY <2>4, <2>5, <2>6 DEF ReportsExactly
<1> QED BY <1>1, EmptyAtFirst, WholeStays, PTL DEF Spec

-----------------------------------------------------------------------------
(* Alerts.                                                                 *)

(***************************************************************************)
(* The value of a text that is not empty is shown.                         *)
(***************************************************************************)
LEMMA AlwaysShown ==
    ASSUME NEW header, NEW text, text # <<>>
    PROVE  format_syslog_value(ParsedValue(header, text)) # <<>>
<1>1. ParsedValue(header, text) = Str(text) \/ \E word : ParsedValue(header, text) = Num(word)
  <2> DEFINE word == WordOf(text)
  <2> HIDE DEF word
  <2> QED BY DEF ParsedValue, word
<1> HIDE DEF ParsedValue
<1> QED BY <1>1, StringIs, NumberIs

(***************************************************************************)
(* The record of any line has no reserved key and no empty value.          *)
(***************************************************************************)
LEMMA AnyFields ==
    ASSUME NEW record
    PROVE  \A key \in DOMAIN Fields(record) :
               key \notin Reserved /\ format_syslog_value(Fields(record)[key]) # <<>>
<1> DEFINE headers == COMMON_HEADERS \o extra_headers(record)
           filled == {i \in DOMAIN record \cap DOMAIN headers : record[i] # <<>>}
           at(key) == CHOOSE i \in filled : headers[i] = key
           cell == [key \in {headers[i] : i \in filled} |-> record[at(key)]]
<1>1. Fields(record) = [key \in DOMAIN cell |-> ParsedValue(key, cell[key])]
  BY DEF Fields
<1>2. \A i \in filled : headers[i] \notin Reserved
  <2>1. headers = TableOf(record)
    BY DEF TableOf
  <2>2. /\ DOMAIN TableOf(record) = 1..Len(TableOf(record))
        /\ \A i \in 1..Len(TableOf(record)) : TableOf(record)[i] \notin Reserved
    BY Tables
  <2> HIDE DEF headers
  <2> QED BY <2>1, <2>2
<1> SUFFICES ASSUME NEW key \in DOMAIN Fields(record)
             PROVE  key \notin Reserved /\ format_syslog_value(Fields(record)[key]) # <<>>
  OBVIOUS
<1> HIDE DEF headers, filled
<1>3. PICK i \in filled : headers[i] = key
  BY <1>1
<1>4. at(key) \in filled
  BY <1>3
<1> HIDE DEF at
<1>5. cell[key] = record[at(key)]
  BY <1>3
<1>6. record[at(key)] # <<>>
  BY <1>4 DEF filled
<1> HIDE DEF cell
<1>7. Fields(record)[key] = ParsedValue(key, cell[key])
  BY <1>1
<1> QED BY <1>2, <1>3, <1>5, <1>6, <1>7, AlwaysShown

(***************************************************************************)
(* So has its log, but for the two keys that are hidden from the alert.    *)
(***************************************************************************)
LEMMA AnyRecord ==
    ASSUME NEW line, parse_palo_alto_log_to_json(line) # None
    PROVE  LET log == parse_palo_alto_log_to_json(line)
           IN  /\ {"@timestamp", "log_source"} \subseteq DOMAIN log
               /\ "forwarder_enrichment" \notin DOMAIN log
               /\ \A key \in DOMAIN log \ {"@timestamp", "log_source"} :
                     key \notin Reserved /\ format_syslog_value(log[key]) # <<>>
<1> DEFINE fields == Fields(CsvContent(line))
           log == parse_palo_alto_log_to_json(line)
<1>1. log = extend(fields, Metadata)
  BY DEF parse_palo_alto_log_to_json
<1>2. DOMAIN Metadata = {"@timestamp", "log_source"}
  BY DEF Metadata
<1>3. \A key \in DOMAIN fields : key \notin Reserved /\ format_syslog_value(fields[key]) # <<>>
  BY AnyFields
<1> HIDE DEF fields, log
<1>4. /\ DOMAIN log = DOMAIN fields \cup {"@timestamp", "log_source"}
      /\ \A key \in DOMAIN fields \ {"@timestamp", "log_source"} : log[key] = fields[key]
  BY <1>1, <1>2 DEF extend
<1>5. "forwarder_enrichment" \notin DOMAIN log
  BY <1>3, <1>4 DEF Reserved
<1> QED BY <1>3, <1>4, <1>5 DEF log

(***************************************************************************)
(* No two keys have one label, nor one the other's.                        *)
(***************************************************************************)
LEMMA LabelsApart ==
    ASSUME NEW a, NEW b, a \notin Reserved, b \notin Reserved, Label(a) \in {b, Label(b)}
    PROVE  a = b
BY DEF Label, Reserved

(***************************************************************************)
(* What an alert tells of these keys of a log.                             *)
(***************************************************************************)
TellsOnce(log, alert, shown) ==
    /\ \A key \in shown :
          Cardinality({field \in alert.fields : field.label \in {key, Label(key)}}) = 1
    /\ {field.value : field \in alert.fields} = {format_syslog_value(log[key]) : key \in shown}
    /\ {field.label : field \in alert.enrich} = {"intel_last_updated"}

(***************************************************************************)
(* The alert for an enriched record tells each of its values once, and of  *)
(* the findings the age of the intelligence.                               *)
(***************************************************************************)
LEMMA AlertTells ==
    ASSUME NEW log, NEW members, NEW shown,
           DOMAIN log = shown \cup {"@timestamp", "log_source", "forwarder_enrichment"},
           \A key \in shown : key \notin Reserved /\ format_syslog_value(log[key]) # <<>>,
           log["forwarder_enrichment"] = Obj(members),
           {key \in DOMAIN members : format_syslog_value(members[key]) # <<>>}
              = {"intel_last_updated"}
    PROVE  /\ format_json_to_palo_alto_syslog(log) # None
           /\ TellsOnce(log, format_json_to_palo_alto_syslog(log), shown)
<1> DEFINE listed == (DOMAIN log \cap Leading)
                        \cup {key \in DOMAIN log \ (Leading \cup Hidden) :
                                 format_syslog_value(log[key]) # <<>>}
           enrichment == IF "forwarder_enrichment" \in DOMAIN log
                            /\ IsObj(log["forwarder_enrichment"])
                         THEN log["forwarder_enrichment"].object ELSE <<>>
           aged == {k \in DOMAIN enrichment : format_syslog_value(enrichment[k]) # <<>>}
           value(key) == format_syslog_value(log[key])
           Field(key) == [label |-> Label(key), value |-> value(key)]
           age == [label |-> "intel_last_updated",
                   value |-> format_syslog_value(enrichment["intel_last_updated"])]
           alert == format_json_to_palo_alto_syslog(log)
<1>1. listed = shown
  <2>1. /\ shown \cap Hidden = {} /\ Leading \cap Hidden = {}
        /\ {"@timestamp", "log_source", "forwarder_enrichment"} \subseteq Hidden
    BY DEF Hidden, Reserved, Leading
  <2> QED BY <2>1
<1>2. enrichment = members
  BY DEF IsObj, Obj
<1>3. alert = [fields |-> {Field(key) : key \in listed},
               enrich |-> {[label |-> key, value |-> format_syslog_value(enrichment[key])] :
                              key \in aged}]
  BY DEF format_json_to_palo_alto_syslog
<1>4. aged = {"intel_last_updated"}
  BY <1>2
<1> HIDE DEF listed, enrichment, aged, alert
<1>5. /\ "fields" \in DOMAIN alert
      /\ alert.fields = {Field(key) : key \in shown} /\ alert.enrich = {age}
  BY <1>1, <1>3, <1>4
<1>6. alert # None
  BY <1>5 DEF None
<1>7. ASSUME NEW key \in shown
      PROVE  Cardinality({field \in alert.fields : field.label \in {key, Label(key)}}) = 1
  <2> DEFINE same == {field \in alert.fields : field.label \in {key, Label(key)}}
  <2>1. Field(key) \in same
    BY <1>5
  <2>2. ASSUME NEW field \in same PROVE field = Field(key)
    <3>1. PICK k \in shown : field = Field(k)
      BY <1>5
    <3>2. field.label = Label(k)
      BY <3>1
    <3>3. k = key
      BY <3>2, LabelsApart
    <3> QED BY <3>1, <3>3
  <2>3. same = {Field(key)}
    <3> HIDE DEF same
    <3> QED BY <2>1, <2>2
  <2> HIDE DEF same, Field
  <2> QED BY <2>3, FS_Singleton DEF same
<1>8. {field.value : field \in alert.fields} = {value(key) : key \in shown}
  <2> DEFINE fields == alert.fields
  <2>1. ASSUME NEW field \in fields PROVE \E key \in shown : field.value = value(key)
    BY <1>5
  <2>2. ASSUME NEW key \in shown PROVE \E field \in fields : field.value = value(key)
    <3>1. Field(key) \in fields /\ Field(key).value = value(key)
      BY <1>5
    <3> HIDE DEF fields, value, Field
    <3> QED BY <3>1
  <2> HIDE DEF fields, value
  <2>3. {field.value : field \in fields} = {value(key) : key \in shown}
    BY <2>1, <2>2
  <2> QED BY <2>3 DEF fields
<1>9. {field.label : field \in alert.enrich} = {"intel_last_updated"}
  <2>1. age.label = "intel_last_updated"
    OBVIOUS
  <2> HIDE DEF age
  <2> QED BY <1>5, <2>1
<1> QED BY <1>6, <1>7, <1>8, <1>9 DEF TellsOnce, alert

(***************************************************************************)
(* Wazuh is alerted of exactly the logs in which something was found, and  *)
(* the alert has each of their values once, for every line, recognisable   *)
(* or not (AlertMatchesRecord).                                            *)
(***************************************************************************)
THEOREM AlertsTellAll == Spec => []AlertMatchesRecord
<1>1. ASSUME WholeDatabases PROVE AlertMatchesRecord
  <2> SUFFICES ASSUME mode = "udp", latest # Nothing PROVE AlertMatchesRecord
    BY DEF AlertMatchesRecord
  <2> DEFINE log == latest.log
             alert == latest.alert
             own == Parsed
             shown == OwnKeys(log) \ {"@timestamp", "log_source"}
  <2>1. alert = Alert(log) /\ own = parse_palo_alto_log_to_json(latest.line)
    BY <1>1 DEF WholeDatabases, TakenAsSent, Parsed
  <2>2. CASE log = own
    <3>1. log # None => "forwarder_enrichment" \notin DOMAIN log
      <4> HIDE DEF log, own
      <4> QED BY <2>1, <2>2, AnyRecord
    <3>2. alert = None
      <4> HIDE DEF log, alert
      <4> QED BY <2>1, <3>1 DEF Alert
    <3>3. ~(log # None /\ OwnKeys(log) # DOMAIN log)
      <4> HIDE DEF log
      <4> QED BY <3>1 DEF OwnKeys
    <3> HIDE DEF log, alert
    <3> QED BY <3>2, <3>3 DEF AlertMatchesRecord, log, alert
  <2>3. CASE log # own
    <3>1. PICK members :
             /\ own # None
             /\ log = insert(own, "forwarder_enrichment", Obj(members))
             /\ {key \in DOMAIN members : format_syslog_value(members[key]) # <<>>}
                   = {"intel_last_updated"}
      BY <1>1, <2>3, Outcome
    <3> HIDE DEF log, own, alert
    <3>2. /\ {"@timestamp", "log_source"} \subseteq DOMAIN own
          /\ "forwarder_enrichment" \notin DOMAIN own
          /\ \A key \in DOMAIN own \ {"@timestamp", "log_source"} :
                key \notin Reserved /\ format_syslog_value(own[key]) # <<>>
      BY <2>1, <3>1, AnyRecord
    <3>3. /\ DOMAIN log = DOMAIN own \cup {"forwarder_enrichment"}
          /\ log["forwarder_enrichment"] = Obj(members)
          /\ \A key \in DOMAIN own : log[key] = own[key]
      BY <3>1, <3>2 DEF insert
    <3>4. /\ shown = DOMAIN own \ {"@timestamp", "log_source"}
          /\ DOMAIN log = shown \cup {"@timestamp", "log_source", "forwarder_enrichment"}
          /\ log # None /\ OwnKeys(log) # DOMAIN log
      BY <3>2, <3>3 DEF OwnKeys, None
    <3>5. \A key \in shown : key \notin Reserved /\ format_syslog_value(log[key]) # <<>>
      BY <3>2, <3>3, <3>4
    <3> HIDE DEF shown
    <3>6. alert = format_json_to_palo_alto_syslog(log)
      BY <2>1, <3>3, <3>4 DEF Alert
    <3>7. alert # None /\ TellsOnce(log, alert, shown)
      <4>1. DOMAIN log = shown \cup {"@timestamp", "log_source", "forwarder_enrichment"}
        BY <3>4
      <4>2. log["forwarder_enrichment"] = Obj(members)
        BY <3>3
      <4>3. {key \in DOMAIN members : format_syslog_value(members[key]) # <<>>}
               = {"intel_last_updated"}
        BY <3>1
      <4> QED BY <3>5, <3>6, <4>1, <4>2, <4>3, AlertTells
    <3> QED BY <3>4, <3>7 DEF AlertMatchesRecord, TellsOnce, log, alert, shown
  <2> QED BY <2>2, <2>3
<1> QED BY <1>1, EmptyAtFirst, WholeStays, PTL DEF Spec

-----------------------------------------------------------------------------
(* Types.                                                                  *)

(***************************************************************************)
(* Nothing has been counted when a program is started.                     *)
(***************************************************************************)
LEMMA TypesAtFirst == Init => TypeOK
<1> SUFFICES ASSUME Init PROVE TypeOK
  OBVIOUS
<1>1. 0 \in 0..MaxLoads /\ 0 \in 0..MaxItems
  BY RecordAssumption DEF RecordAssumption
<1> QED BY <1>1 DEF Init, TypeOK

(***************************************************************************)
(* Every step keeps the types and the bounds of the counts.                *)
(***************************************************************************)
LEMMA TypesStay == TypeOK /\ [Next]_vars => TypeOK'
<1> SUFFICES ASSUME TypeOK, [Next]_vars PROVE TypeOK'
  OBVIOUS
<1>a. MaxItems \in Nat /\ MaxLoads \in Nat
  BY RecordAssumption DEF RecordAssumption
<1> USE DEF TypeOK, start, refreshed, judging, work
<1>1. ASSUME NEW invocation \in Invocations, Start(invocation) PROVE TypeOK'
  BY <1>1, RecordAssumption DEF RecordAssumption, Start
<1>2. CASE MainReady
  BY <1>2 DEF MainReady
<1>3. CASE EndOfStdin \/ JoinUpdater \/ SetReady \/ UpdaterWakes \/ UpdaterQuits \/ CloseStdin
  BY <1>3 DEF EndOfStdin, JoinUpdater, SetReady, UpdaterWakes, UpdaterQuits, CloseStdin
<1>4. ASSUME StartRefresh \/ \E answers \in FeedAnswers : Refresh(answers) PROVE TypeOK'
  BY <1>a, <1>4 DEF StartRefresh, Refresh
<1>5. ASSUME Takes PROVE count' \in 0..MaxItems
  BY <1>a, <1>5 DEF Takes
<1>6. ASSUME NEW w \in Workers, NEW skip \in BOOLEAN, NEW datagram \in SyslogLines,
             HandleDatagram(w, datagram, skip)
      PROVE TypeOK'
  BY <1>5, <1>6 DEF HandleDatagram
<1>7. ASSUME NEW w \in Workers, NEW skip \in BOOLEAN, NEW ek \in EkLines,
             HandlePacket(w, ek, skip)
      PROVE TypeOK'
  BY <1>5, <1>7 DEF HandlePacket
<1>8. ASSUME NEW stdin \in SyslogLines, HandleStdinLine(stdin) PROVE TypeOK'
  BY <1>5, <1>8 DEF HandleStdinLine
<1>9. CASE UNCHANGED vars
  BY <1>9 DEF vars
<1> QED
  BY <1>1, <1>2, <1>3, <1>4, <1>6, <1>7, <1>8, <1>9 DEF Next, MainStep, UpdaterStep

(***************************************************************************)
(* The state of the programs is well typed for every configuration, line   *)
(* and feed (TypeOK).                                                      *)
(***************************************************************************)
THEOREM Typing == Spec => []TypeOK
BY TypesAtFirst, TypesStay, PTL DEF Spec
=============================================================================
