------------------------------ MODULE RecordRun ------------------------------
(***************************************************************************)
(* What becomes of one line of input, from the configuration that the      *)
(* program was started with to the event and the alert that leave it: the  *)
(* Palo Alto program on its UDP port and in its --stdin mode               *)
(* (interface/palo_alto.rs run_stdin), and the tshark program.  The        *)
(* updater replaces the threat intelligence in the meantime.               *)
(*                                                                         *)
(* Queues, threads and the shutdown of the two services are in PaloAltoRun *)
(* and TsharkRun.  Here a line is read, parsed, enriched and handed on in  *)
(* one step, which looks at the shared intelligence once, as a worker      *)
(* does; whether the load of the queues suspends enrichment is left open.  *)
(***************************************************************************)
EXTENDS PaloAltoLog, TsharkPacket, Enrichment, ForwarderConfig

CONSTANTS
    Invocations,    \* modes and configuration files the programs are started with
    Databases,      \* paths of readable GeoIP databases
    Workers,        \* the first of them stands for the one thread of --stdin
    SyslogLines,    \* firewall lines that may come
    EkLines,        \* lines of tshark that may come
    FeedAnswers,    \* what the feeds may answer at a refresh
    MaxItems,       \* bound: lines that come
    MaxLoads        \* bound: refreshes

AddedWords == {"now", "palo_alto", "tshark", "TCP", "UDP", "OTHER"}

ASSUME RecordAssumption ==
    /\ \A i \in Invocations : i.mode \in {"udp", "stdin", "tshark"}
    /\ None \notin FeedAnswers
    /\ \A datagram \in SyslogLines : datagram.line \in Seq(Seq(STRING)) /\ datagram.line # <<>>
    /\ Workers # {} /\ {MaxItems, MaxLoads} \subseteq Nat

\* An empty word is no number, and there is no indicator in a number or in a
\* text that the parsers add: a hash has 32 digits or more, an address two
\* dots or colons, a domain a letter at its end.
ASSUME WordsAssumption ==
    /\ "" \notin IntegerWords \cup FloatWords
    /\ \A kind \in Kinds :
          DOMAIN Found[kind] \cap (IntegerWords \cup FloatWords \cup AddedWords) = {}

VARIABLES
    mode, config,
    phase,          \* "off", "loading", "up", "closing"; "deaf", "ended", "died", "refused"
    intel,          \* the shared database
    listing,        \* history: the answers it was made of, None before the first
    ready,          \* intel_ready
    updater,        \* "none", "top", "refreshing", "stored", "asleep" or "done"
    loads,          \* refreshes begun so far
    snapshot,       \* the copy that --stdin judges by
    basis,          \* history: the answers that copy was made of
    history,        \* each worker's AlertHistory
    input,          \* stdin is "open" or "closed"
    shutdown,
    count,          \* lines handled
    latest          \* history: the line handled last and what became of it

refreshed == <<intel, listing, ready, updater, loads>>
start == <<mode, config>>
judging == <<snapshot, basis>>
work == <<history, count, latest>>
vars == <<start, phase, refreshed, judging, work, input, shutdown>>

Nothing == [line |-> None]
StdinThread == CHOOSE w \in Workers : TRUE
Running == phase \in {"loading", "up", "closing", "deaf"}
FeedsEnabled == config.enable_threat_intel_feeds
geoip == config.geoip_enabled /\ config.database_path \in Databases

Init ==
    /\ mode = "none" /\ config = None /\ phase = "off"
    /\ intel = NewIntel("start") /\ listing = None
    /\ ready = FALSE /\ updater = "none" /\ loads = 0
    /\ snapshot = None /\ basis = None
    /\ history = [w \in Workers |-> Default(0)]
    /\ input = "open" /\ shutdown = FALSE
    /\ count = 0 /\ latest = Nothing

-----------------------------------------------------------------------------
(* Starting.                                                               *)

\* run starts its receiver without waiting for the intelligence; run_stdin
\* and the tshark run wait, and set the flag themselves if feeds are disabled.
Start(invocation) ==
    /\ phase = "off"
    /\ mode' = invocation.mode
    /\ config' = MainConfig(mode', invocation.file)
    /\ updater' = IF Starts(mode', config') /\ FeedsEnabled' THEN "top" ELSE "none"
    /\ ready' = (Starts(mode', config') /\ mode' # "udp" /\ ~FeedsEnabled')
    /\ phase' = IF ~Starts(mode', config') THEN "refused"
                ELSE IF mode' = "udp" THEN "up" ELSE "loading"
    /\ UNCHANGED <<intel, listing, loads, judging, work, input, shutdown>>

MainReady ==
    /\ phase = "loading"
    /\ ready
    /\ phase' = "up"
    /\ IF mode = "stdin" THEN snapshot' = intel /\ basis' = listing ELSE UNCHANGED judging
    /\ UNCHANGED <<start, refreshed, work, input, shutdown>>

-----------------------------------------------------------------------------
(* threat_intel_updater_thread.                                            *)

\* Seeded fault: the flag is set before the database is in place.
StartRefresh_FlagFirst ==
    /\ Running /\ updater = "top" /\ ~shutdown
    /\ loads < MaxLoads
    /\ updater' = "refreshing" /\ ready' = TRUE /\ loads' = loads + 1
    /\ UNCHANGED <<start, phase, intel, listing, judging, work, input, shutdown>>

StartRefresh ==
    /\ Running /\ updater = "top" /\ ~shutdown
    /\ loads < MaxLoads
    /\ updater' = "refreshing" /\ loads' = loads + 1
    /\ UNCHANGED <<start, phase, intel, listing, ready, judging, work, input, shutdown>>

\* A refresh that was started ends, whatever the flag says by then.
Refresh(answers) ==
    /\ Running /\ updater = "refreshing"
    /\ intel' = refresh_threat_intel_once(answers, ToString(loads))
    /\ listing' = answers
    /\ updater' = "stored"
    /\ UNCHANGED <<start, phase, ready, loads, judging, work, input, shutdown>>

SetReady ==
    /\ Running /\ updater = "stored"
    /\ ready' = TRUE /\ updater' = "asleep"
    /\ UNCHANGED <<start, phase, intel, listing, loads, judging, work, input, shutdown>>

\* The sleep is over or its next tick sees the flag.
UpdaterWakes ==
    /\ Running /\ updater = "asleep"
    /\ shutdown \/ loads < MaxLoads
    /\ updater' = "top"
    /\ UNCHANGED <<start, phase, intel, listing, ready, loads, judging, work, input, shutdown>>

UpdaterQuits ==
    /\ Running /\ updater = "top" /\ shutdown
    /\ updater' = "done"
    /\ UNCHANGED <<start, phase, intel, listing, ready, loads, judging, work, input, shutdown>>

-----------------------------------------------------------------------------
(* One line.                                                               *)

Takes == count < MaxItems /\ count' = count + 1

\* One thread enriches a log against a database, unless it is to be skipped.
CountSource(w, log, skip) ==
    IF log = None \/ skip THEN UNCHANGED history
    ELSE history' = [history EXCEPT ![w] = AfterUpdate(@, log)]

Enriched(w, log, database, skip) ==
    IF log = None \/ skip THEN log
    ELSE enrich_and_analyze_log(log, database, history[w], geoip)

\* format_json_to_palo_alto_syslog, for a log that has something to tell.
Alert(log) ==
    IF log # None /\ "forwarder_enrichment" \in DOMAIN log
    THEN format_json_to_palo_alto_syslog(log) ELSE None

\* process_palo_alto_log_item; an enriched log that is skipped has no alert.
HandleDatagram(w, datagram, skip) ==
    LET log == parse_palo_alto_log_to_json(datagram.line)
        result == Enriched(w, log, intel, skip)
    IN  /\ mode = "udp" /\ phase = "up" /\ Takes
        /\ CountSource(w, log, skip)
        /\ latest' = [line |-> datagram.line, log |-> result, alert |-> Alert(result),
                      skipped |-> skip, listing |-> listing]
        /\ UNCHANGED <<start, phase, refreshed, judging, input, shutdown>>

\* The read of a line that is no UTF-8 fails and ends the receiver.  For a
\* line that is no JSON, the first 120 bytes are logged: if that cuts a
\* character, the receiver panics and run returns the error.
HandlePacket(w, ek, skip) ==
    LET log == IF ek.utf8 /\ ek.kind = "packet" THEN normalize_packet(ek.packet) ELSE None
    IN  /\ mode = "tshark" /\ phase = "up" /\ Takes
        /\ phase' = IF ~ek.utf8 THEN "deaf"
                    ELSE IF ek.kind = "junk" /\ ek.cut THEN "died" ELSE "up"
        /\ CountSource(w, log, skip)
        /\ latest' = IF ek.utf8 /\ ek.kind = "packet"
                     THEN [line |-> ek.packet, log |-> Enriched(w, log, intel, skip),
                           alert |-> None, skipped |-> skip, listing |-> listing]
                     ELSE Nothing
        /\ UNCHANGED <<start, refreshed, judging, input, shutdown>>

\* A failed read ends run_stdin with an error, and so does the log message
\* for a line that does not parse, if its byte 80 is inside a character.
HandleStdinLine(stdin) ==
    LET blank == stdin.line = <<<<>>>>
        log == IF blank \/ ~stdin.utf8 THEN None ELSE parse_palo_alto_log_to_json(stdin.line)
    IN  /\ mode = "stdin" /\ phase = "up" /\ input = "open" /\ Takes
        /\ phase' = IF ~stdin.utf8 \/ (~blank /\ log = None /\ stdin.cut) THEN "died" ELSE "up"
        /\ CountSource(StdinThread, log, FALSE)
        /\ latest' = IF blank \/ ~stdin.utf8 THEN Nothing
                     ELSE [line |-> stdin.line,
                           log |-> Enriched(StdinThread, log, snapshot, FALSE),
                           alert |-> None, skipped |-> FALSE, listing |-> basis]
        /\ UNCHANGED <<start, refreshed, judging, input, shutdown>>

-----------------------------------------------------------------------------
(* The end of --stdin.                                                     *)

CloseStdin ==
    /\ mode = "stdin" /\ input = "open"
    /\ input' = "closed"
    /\ UNCHANGED <<start, phase, refreshed, judging, work, shutdown>>

\* Seeded fault: the updater is not told.
EndOfStdin_TellsNobody ==
    /\ mode = "stdin" /\ phase = "up" /\ input = "closed"
    /\ phase' = "closing"
    /\ UNCHANGED <<start, refreshed, judging, work, input, shutdown>>

EndOfStdin ==
    /\ mode = "stdin" /\ phase = "up" /\ input = "closed"
    /\ shutdown' = TRUE
    /\ phase' = "closing"
    /\ UNCHANGED <<start, refreshed, judging, work, input>>

JoinUpdater ==
    /\ phase = "closing"
    /\ updater \in {"none", "done"}
    /\ phase' = "ended"
    /\ UNCHANGED <<start, refreshed, judging, work, input, shutdown>>

-----------------------------------------------------------------------------

UpdaterStep ==
    \/ StartRefresh \/ (\E answers \in FeedAnswers : Refresh(answers)) \/ SetReady
    \/ UpdaterWakes \/ UpdaterQuits
MainStep == MainReady \/ EndOfStdin \/ JoinUpdater

Next ==
    \/ \E invocation \in Invocations : Start(invocation)
    \/ MainStep \/ UpdaterStep \/ CloseStdin
    \/ \E w \in Workers, skip \in BOOLEAN :
          \/ \E datagram \in SyslogLines : HandleDatagram(w, datagram, skip)
          \/ \E ek \in EkLines : HandlePacket(w, ek, skip)
    \/ \E stdin \in SyslogLines : HandleStdinLine(stdin)

Spec == Init /\ [][Next]_vars /\ WF_vars(MainStep) /\ WF_vars(UpdaterStep)

-----------------------------------------------------------------------------
(* Properties.                                                             *)

TypeOK ==
    /\ mode \in {"none", "udp", "stdin", "tshark"}
    /\ phase \in {"off", "loading", "up", "closing", "deaf", "ended", "died", "refused"}
    /\ listing \in FeedAnswers \cup {None} /\ basis \in FeedAnswers \cup {None}
    /\ updater \in {"none", "top", "refreshing", "stored", "asleep", "done"}
    /\ input \in {"open", "closed"}
    /\ {ready, shutdown} \subseteq BOOLEAN
    /\ loads \in 0..MaxLoads /\ count \in 0..MaxItems

FromFirewall == mode \in {"udp", "stdin"} /\ latest # Nothing
FromTshark == mode = "tshark" /\ latest # Nothing

\* The columns of a line, behind whatever stands before the first of them.
Columns(line) == IF line[1] = <<>> THEN line ELSE [line EXCEPT ![1] = <<Last(@)>>]
TableOf(line) == COMMON_HEADERS \o extra_headers(line)
Filled(line) == {i \in DOMAIN line \cap DOMAIN TableOf(line) : Columns(line)[i] # <<>>}

\* A line with all common columns that begins with a syslog header that ends
\* with the name of a device, or that names no device and has the date in
\* its second column.
Recognisable(line) ==
    /\ Len(line) >= Len(COMMON_HEADERS) /\ line[1] # <<>>
    /\ \/ LET device == <<1, Len(line[1]) - 1>>
              named == PlacesOf(line, DeviceWords)
          IN  device \in named /\ FirstOf(named) = device
       \/ PlacesOf(line, DeviceWords) = {} /\ <<2, 1>> \in Stamps(line)

OwnKeys(log) == DOMAIN log \ {"forwarder_enrichment"}

(***************************************************************************)
(* A firewall line that can be told to be one becomes a record that has    *)
(* every filled column the tables know, each under a key of its own that   *)
(* no other column overwrites, and two keys more: whatever stands in front *)
(* of the columns, and whatever their texts hold                           *)
(* (parse_palo_alto_log_to_json and the tables of schema.rs).              *)
(***************************************************************************)
FieldsArrive ==
    FromFirewall /\ Recognisable(latest.line) =>
        LET line == latest.line
            log == latest.log
        IN  /\ log # None
            /\ \A i \in Filled(line) :
                  /\ TableOf(line)[i] \in DOMAIN log
                  /\ log[TableOf(line)[i]] \in {Str(Columns(line)[i]), Num(Columns(line)[i][1]), Num("0")}
            /\ Cardinality(OwnKeys(log)) = Cardinality(Filled(line)) + 2

\* The sender of a packet with one IP header; an array has no text.
SourceSent(layers) ==
    TextOf(IF IsObj(get(layers, "ip")) THEN get(get(layers, "ip"), "ip_ip_src")
           ELSE get(get(layers, "ipv6"), "ipv6_ipv6_src"))

\* The layers whose names neither the flow fields nor the findings take.
KeptLayers(layers) ==
    LET taken == DOMAIN FlowFields(layers, "") \cup {"forwarder_enrichment"}
    IN  [name \in DOMAIN layers.object \ taken |-> layers.object[name]]

(***************************************************************************)
(* A timed packet with one IP header becomes an event that says where it   *)
(* came from and that it is tshark's, whatever its layers are called, and  *)
(* that still has every layer whose name is not taken; a packet without an *)
(* IP header becomes none (normalize_packet).                              *)
(***************************************************************************)
FlowArrives ==
    FromTshark =>
        LET layers == get(latest.line, "layers")
            log == latest.log
        IN  /\ SourceSent(layers) # <<>> /\ WordOf(TextOf(get(latest.line, "timestamp"))) \in IntegerWords =>
                  /\ log # None
                  /\ log.source_address = Str(SourceSent(layers))
                  /\ log.log_type = Str(<<"tshark">>) /\ IsStr(log.protocols)
                  /\ \A name \in DOMAIN KeptLayers(layers) : log[name] = layers.object[name]
            /\ ~IsObj(get(layers, "ip")) /\ ~IsObj(get(layers, "ipv6")) => log = None

\* What stands in the known columns of a line, or in the kept layers of a packet.
Contents ==
    IF FromFirewall
    THEN UNION {Range(Columns(latest.line)[i]) : i \in Filled(latest.line)}
    ELSE WordsIn(KeptLayers(get(latest.line, "layers")))

\* No layer of the packet would be taken for findings.
Unmarked(packet) == "forwarder_enrichment" \notin DOMAIN get(packet, "layers").object

FoundIn(kind, words) == UNION {Found[kind][word] : word \in words \cap DOMAIN Found[kind]}

\* The feeds with a line that is the indicator and nothing else.
ListedBy(kind, i, answers) ==
    {feed \in DOMAIN answers \cap Sources[kind] : <<i>> \in answers[feed]}

ListedIn(kind, answers) ==
    {i \in FoundIn(kind, Contents) : ListedBy(kind, i, answers) # {}}

Reported(log, name) ==
    LET matches == get(get(Obj(log), "forwarder_enrichment"), "ioc_matches")
    IN  IF IsObj(matches) /\ name \in DOMAIN matches.object THEN matches.object[name] ELSE {}

(***************************************************************************)
(* Whatever refreshes happen meanwhile: an event reports an indicator      *)
(* exactly if it stands in what was received and is a line of a feed of    *)
(* the database in force, and, if it is an address, it is public and all   *)
(* of these feeds are named and no other.  The database in force is the    *)
(* last one loaded, for --stdin the one loaded first (extract_iocs,        *)
(* enrich_ioc_matches, refresh_threat_intel_once).                         *)
(***************************************************************************)
ListedIsReported ==
    latest # Nothing /\ latest.log # None /\ ~latest.skipped =>
        LET answers == IF latest.listing = None THEN <<>> ELSE latest.listing
            log == latest.log
        IN  (IF FromTshark THEN Unmarked(latest.line) ELSE Recognisable(latest.line)) =>
                /\ Reported(log, "malicious_ips")
                      = {[ip |-> i, sources |-> ListedBy("ip", i, answers)] :
                            i \in {j \in ListedIn("ip", answers) : is_public_ip(<<j>>)}}
                /\ Reported(log, "malicious_domains") = ListedIn("domain", answers)
                /\ Reported(log, "malicious_hashes") = ListedIn("hash", answers)
                /\ Reported(log, "malicious_urls") = ListedIn("url", answers)

(***************************************************************************)
(* Only the UDP service judges before the first load: in --stdin and in    *)
(* the tshark program every event is judged by a database that a refresh   *)
(* made, if the feeds are enabled (run_stdin and interface/tshark.rs wait  *)
(* for intel_ready, which the updater sets after it has put the database   *)
(* in place).                                                              *)
(***************************************************************************)
JudgedAfterLoad ==
    latest # Nothing /\ mode # "udp" /\ FeedsEnabled => latest.listing # None

(***************************************************************************)
(* Wazuh is alerted of a firewall log exactly if something was found in    *)
(* it, and the alert has each of the log's values once, under one label,   *)
(* and nothing of the findings but the age of the intelligence             *)
(* (process_palo_alto_log_item, format_json_to_palo_alto_syslog).          *)
(***************************************************************************)
AlertMatchesRecord ==
    mode = "udp" /\ latest # Nothing =>
        LET log == latest.log
            alert == latest.alert
            shown == OwnKeys(log) \ {"@timestamp", "log_source"}
        IN  /\ alert # None <=> log # None /\ OwnKeys(log) # DOMAIN log
            /\ alert # None =>
                  /\ \A key \in shown :
                        Cardinality({field \in alert.fields :
                                        field.label \in {key, Label(key)}}) = 1
                  /\ {field.value : field \in alert.fields}
                        = {format_syslog_value(log[key]) : key \in shown}
                  /\ {field.label : field \in alert.enrich} = {"intel_last_updated"}

(***************************************************************************)
(* Once its input is closed the --stdin mode ends, though its updater      *)
(* sleeps for a day between two refreshes and may be anywhere in its loop, *)
(* and though the input may be closed before the first line is asked for.  *)
(***************************************************************************)
StdinEnds == mode = "stdin" /\ input = "closed" ~> phase \in {"ended", "died"}
=============================================================================
