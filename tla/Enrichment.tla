----------------------------- MODULE Enrichment -----------------------------
(***************************************************************************)
(* domain/enrichment.rs, with the indicators it looks up                   *)
(* (domain/indicators.rs), the refresh that loads them                     *)
(* (application/threat_intel.rs, infrastructure/threat_feeds.rs), GeoIP    *)
(* (infrastructure/geoip.rs) and AlertHistory.                             *)
(*                                                                         *)
(* The tables of domain/rules.rs are constants: a phrase is a sequence of  *)
(* marks, and a constant tells which marks a word shows, upper and lower   *)
(* case alike.  Counts of one window are kept; BehavioralRun has the       *)
(* clock.  Arrays of findings are sets.                                    *)
(***************************************************************************)
EXTENDS LogRecord, AlertHistory, FiniteSets

CONSTANTS
    Sources,            \* IP_FEED_URLS, URL_FEED_URLS, .. : a set of feeds for each kind
    CommentWords,       \* words that begin with '#', ';' or '/'
    Address,            \* for each word that parses as an address, its version and range
    Found,              \* for each kind of indicator, what its regex finds in a word
    WordMarks,          \* the marks of a word that has any
    SuspiciousPatterns, \* for each pattern, the phrases that match it
    SuspiciousProcesses, CriticalAssets,    \* sequences of phrases
    CorrelationRules,   \* for each rule, the phrases that match it
    City                \* what the GeoIP database has on an address, in part or in full

Kinds == {"ip", "url", "hash", "domain"}

\* No indicator begins the way a comment does.
ASSUME EnrichmentAssumption ==
    \A kind \in Kinds : \A word \in DOMAIN Found[kind] : Found[kind][word] \cap CommentWords = {}

-----------------------------------------------------------------------------
(* Indicators.                                                             *)

Special == [v4 |-> {"private", "loopback", "unspecified", "multicast", "documentation"},
            v6 |-> {"loopback", "unspecified", "multicast", "link_local", "unique_local",
                    "documentation"}]

\* A link-local address of version 4 counts as public.
is_public_ip(text) ==
    LET word == WordOf(text)
    IN  word \in DOMAIN Address /\ Address[word].range \notin Special[Address[word].version]

NewIntel(time) == [ips |-> <<>>, indicators |-> [kind \in Kinds \ {"ip"} |-> {}],
                   last_updated |-> time]

\* A line is an item as a whole, whatever stands behind its first word.
FeedItems(lines) ==
    {line \in lines : line # <<>> /\ line[1] \notin CommentWords}

\* Seeded fault: an address remembers the last feed that lists it.
Listings_LastWins(answers) ==
    LET listed == {ip \in UNION {FeedItems(answers[feed]) :
                                    feed \in DOMAIN answers \cap Sources.ip} : is_public_ip(ip)}
    IN  [ip \in listed |->
            {CHOOSE feed \in DOMAIN answers \cap Sources.ip : ip \in FeedItems(answers[feed])}]

\* The public addresses, each with the feeds that list it, in any order.
Listings(answers) ==
    LET feeds == DOMAIN answers \cap Sources.ip
        listed == {ip \in UNION {FeedItems(answers[feed]) : feed \in feeds} : is_public_ip(ip)}
    IN  [ip \in listed |-> {feed \in feeds : ip \in FeedItems(answers[feed])}]

\* answers has the lines of each feed that could be had, from its server or
\* from its cache file; the others add nothing.
refresh_threat_intel_once(answers, time) ==
    [ips |-> Listings(answers),
     indicators |-> [kind \in Kinds \ {"ip"} |->
                        UNION {FeedItems(answers[feed]) :
                                  feed \in DOMAIN answers \cap Sources[kind]}],
     last_updated |-> time]

extract_iocs(log) ==
    [kind \in Kinds |-> UNION {Found[kind][word] : word \in WordsIn(log) \cap DOMAIN Found[kind]}]

\* What was found under its name; findings that are empty are left out.
Section(findings) ==
    Obj([name \in {n \in DOMAIN findings : findings[n] # {}} |-> findings[name]])

enrich_ioc_matches(log, intel) ==
    LET iocs == extract_iocs(log)
        Known(kind) == {i \in iocs[kind] : <<i>> \in intel.indicators[kind]}
    IN  Section([malicious_ips |-> {[ip |-> i, sources |-> intel.ips[<<i>>]] :
                                       i \in {j \in iocs.ip : <<j>> \in DOMAIN intel.ips}},
                 malicious_domains |-> Known("domain"),
                 malicious_hashes |-> Known("hash"),
                 malicious_urls |-> Known("url")])

-----------------------------------------------------------------------------
(* Threat hunting.                                                         *)

Marks(word) == IF word \in DOMAIN WordMarks THEN WordMarks[word] ELSE {}

Occurs(phrase, text) ==
    \E start \in 0..(Len(text) - Len(phrase)) :
        \A i \in DOMAIN phrase : phrase[i] \in Marks(text[start + i])

\* The first of the phrases that occurs, by the order of the table.
FirstPhrase(phrases, text) ==
    {phrases[i] : i \in {j \in DOMAIN phrases :
        /\ Occurs(phrases[j], text)
        /\ \A k \in 1..(j - 1) : ~Occurs(phrases[k], text)}}

\* Patterns are looked for in each string by itself, the rest in all strings
\* joined by spaces, where a phrase may begin in one field and end in the next.
enrich_threat_hunt(log) ==
    LET strings == collect_all_strings(log)
        combined == FlattenSeq(strings)
    IN  Section([suspicious_patterns |->
                    {name \in DOMAIN SuspiciousPatterns :
                        \E phrase \in SuspiciousPatterns[name], text \in Range(strings) :
                            Occurs(phrase, text)},
                 suspicious_process |-> FirstPhrase(SuspiciousProcesses, combined),
                 critical_asset_access |-> FirstPhrase(CriticalAssets, combined),
                 correlation_rules |->
                    {rule \in DOMAIN CorrelationRules :
                        \E phrase \in CorrelationRules[rule] : Occurs(phrase, combined)}])

-----------------------------------------------------------------------------
(* Behaviour and GeoIP.                                                    *)

\* The first of the keys the log has decides, and counts if it is a string.
SourceOf(log) ==
    LET keys == SelectSeq(<<"source_address", "srcip", "src">>, LAMBDA key : key \in DOMAIN log)
    IN  IF keys = <<>> THEN None ELSE log[keys[1]]

AfterUpdate(history, log) ==
    update(history, IF IsStr(SourceOf(log)) THEN SourceOf(log).string ELSE NoSource, history.last)

\* history has counted this log already.
enrich_behavioral(log, history) ==
    LET source == SourceOf(log)
        loud == IsStr(source) /\ is_suspicious_activity(history, source.string)
    IN  Section([high_frequency_ip |-> IF loud THEN {peek(history.entries, source.string)} ELSE {}])

\* What a database entry leaves out has a placeholder.
lookup(text) ==
    IF WordOf(text) \in DOMAIN City
    THEN City[text[1]] @@ [country_code |-> "XX", country_name |-> "Unknown", city |-> "Unknown",
                           location |-> "0.0,0.0"]
    ELSE None

enrich_geoip(log, geoip) ==
    LET Place(key) == LET text == IF key \in DOMAIN log THEN TextOf(log[key]) ELSE <<>>
                      IN  IF geoip /\ is_public_ip(text) THEN {lookup(text)} \ {None} ELSE {}
    IN  Section([src |-> Place("source_address"), dst |-> Place("destination_address")])

-----------------------------------------------------------------------------

\* The log with what was found, if anything was.
enrich_and_analyze_log(log, intel, history, geoip) ==
    LET sections == [ioc_matches |-> enrich_ioc_matches(log, intel),
                     threat_hunting |-> enrich_threat_hunt(log),
                     behavioral_anomalies |-> enrich_behavioral(log, AfterUpdate(history, log)),
                     geoip |-> enrich_geoip(log, geoip)]
        found == {name \in DOMAIN sections : DOMAIN sections[name].object # {}}
    IN  IF found = {} THEN log
        ELSE insert(log, "forwarder_enrichment",
                    Obj(insert([name \in found |-> sections[name]],
                               "intel_last_updated", Str(<<intel.last_updated>>))))
=============================================================================
