---------------------------- MODULE PaloAltoLog ----------------------------
(***************************************************************************)
(* domain/palo_alto.rs and its tables (domain/palo_alto/schema.rs): a      *)
(* syslog line of the firewall becomes a log, a log becomes the line that  *)
(* Wazuh gets.                                                             *)
(*                                                                         *)
(* A line is the sequence of its cells, with a comma between two of them;  *)
(* a cell is a text.  Cells hold no comma, quote or line break.  The       *)
(* tables give each header in the form it has as a key: lower case, '_'    *)
(* for ' ', '/' and '-', by which no two headers of a log become one.      *)
(***************************************************************************)
EXTENDS LogRecord

CONSTANTS
    DeviceWords,    \* words with "PA-" in them, taken to begin with it
    DateWords,      \* words that begin with \d{4}/
    AfterBracket,   \* for each word with a '>' in it, the text that follows
    FloatWords,     \* words that parse as f64
    NonFinite       \* those of them that are no JSON number: inf, NaN

COMMON_HEADERS == <<
    "log_number", "receive_time", "serial_number", "type", "threat_content_type", "config_version",
    "generated_time", "source_address", "destination_address", "nat_source_ip",
    "nat_destination_ip", "rule_name", "source_user", "destination_user", "application",
    "virtual_system", "source_zone", "destination_zone", "inbound_interface", "outbound_interface",
    "log_action", "time_logged", "session_id", "repeat_count", "source_port", "destination_port",
    "nat_source_port", "nat_destination_port", "flags", "ip_protocol", "action">>

TRAFFIC_EXTRA_HEADERS == <<
    "bytes", "bytes_sent", "bytes_received", "packets", "start_time", "elapsed_time_in_seconds",
    "category", "padding", "sequence_number", "action_flags", "source_location",
    "destination_location", "padding_2", "packets_sent", "packets_received", "session_end_reason",
    "device_group_hierarchy_level_1", "device_group_hierarchy_level_2",
    "device_group_hierarchy_level_3", "device_group_hierarchy_level_4", "virtual_system_name",
    "device_name", "action_source", "source_vm_uuid", "destination_vm_uuid", "tunnel_id_imsi",
    "monitor_tag_imei", "parent_session_id", "parent_start_time", "tunnel_type",
    "sctp_association_id", "sctp_chunks", "sctp_chunks_sent", "sctp_chunks_received",
    "uuid_for_rule", "http_2_connection", "application_level_link_changes", "policy_id",
    "link_switches", "sd_wan_cluster", "sd_wan_device_type", "sd_wan_cluster_type", "sd_wan_site",
    "dynamic_user_group_name", "x_forwarded_for_address", "source_device_category",
    "source_device_profile", "source_device_model", "source_device_vendor",
    "source_device_os_family", "source_device_os_version", "source_hostname", "source_mac_address",
    "destination_device_category", "destination_device_profile", "destination_device_model",
    "destination_device_vendor", "destination_device_os_family", "destination_device_os_version",
    "destination_hostname", "destination_mac_address", "container_id", "pod_namespace", "pod_name",
    "source_external_dynamic_list", "destination_external_dynamic_list", "host_id",
    "user_device_serial_number", "source_dynamic_address_group",
    "destination_dynamic_address_group", "session_owner", "high_resolution_timestamp",
    "a_slice_service_type", "a_slice_differentiator", "application_subcategory",
    "application_category", "application_technology", "application_risk",
    "application_characteristics", "application_container_name", "tunneled_application",
    "is_saas_app", "application_sanctioned_state", "offloaded">>

THREAT_EXTRA_HEADERS == <<
    "threat_name", "threat_id", "category", "severity", "direction", "sequence_number",
    "action_flags", "source_location", "destination_location", "padding", "content_type", "pcap_id",
    "file_digest", "cloud", "url_index", "user_agent", "file_type", "x_forwarded_for", "referer",
    "sender", "subject", "recipient", "report_id", "device_group_hierarchy_level_1",
    "device_group_hierarchy_level_2", "device_group_hierarchy_level_3",
    "device_group_hierarchy_level_4", "virtual_system_name", "device_name", "source_vm_uuid",
    "destination_vm_uuid", "http_2_connection", "high_resolution_timestamp", "sd_wan_cluster",
    "sd_wan_device_type", "sd_wan_cluster_type", "sd_wan_site", "application_subcategory",
    "application_category", "application_technology", "application_risk",
    "application_characteristics", "application_container_name", "tunneled_application",
    "is_saas_app", "application_sanctioned_state", "x_forwarded_for_address",
    "source_device_category", "source_device_profile", "nssai_sst", "nssai_sd", "partial_hash",
    "high_resolution_timestamp_2">>

INTEGER_FIELDS == {
    "log_number", "config_version", "session_id", "repeat_count", "source_port", "destination_port",
    "nat_source_port", "nat_destination_port", "bytes", "bytes_sent", "bytes_received", "packets",
    "elapsed_time_in_seconds", "sequence_number", "packets_sent", "packets_received", "policy_id",
    "link_switches", "application_risk", "pcap_id", "url_index", "report_id"}

FLOAT_FIELDS == {"high_resolution_timestamp", "high_resolution_timestamp_2"}

-----------------------------------------------------------------------------
(* parse_palo_alto_log_to_json.                                            *)

\* Places of words: <<cell, word>>, in the order of the line.
Places(line) == UNION {{c} \X DOMAIN line[c] : c \in DOMAIN line}
Before(p, q) == p[1] < q[1] \/ (p[1] = q[1] /\ p[2] < q[2])
FirstOf(places) == CHOOSE p \in places : \A q \in places \ {p} : Before(p, q)
LastOf(places) == CHOOSE p \in places : \A q \in places \ {p} : Before(q, p)

\* The line from a place on.
From(line, p) ==
    <<SubSeq(line[p[1]], p[2], Len(line[p[1]]))>> \o SubSeq(line, p[1] + 1, Len(line))

\* A space can be found in front of every word of a cell but the first.
AfterSpace(line) == {p \in Places(line) : p[2] > 1}
PlacesOf(line, words) == {p \in Places(line) : line[p[1]][p[2]] \in words}
\* Matches of CSV_TIMESTAMP_PATTERN, a comma followed by a date.
Stamps(line) == {p \in PlacesOf(line, DateWords) : p[1] > 1 /\ p[2] = 1}

\* Seeded fault: the last space after the device name instead of the first.
AfterDevice_LastSpace(line) ==
    LET device == FirstOf(PlacesOf(line, DeviceWords))
        later == {p \in AfterSpace(line) : Before(device, p)}
    IN  From(line, IF later = {} THEN device ELSE LastOf(later))

AfterDevice(line) ==
    LET device == FirstOf(PlacesOf(line, DeviceWords))
        later == {p \in AfterSpace(line) : Before(device, p)}
    IN  From(line, IF later = {} THEN device ELSE FirstOf(later))

BeforeStamp(line) ==
    LET earlier == {p \in AfterSpace(line) : Before(p, FirstOf(Stamps(line)))}
    IN  IF earlier = {} THEN line ELSE From(line, LastOf(earlier))

BehindBracket(line) ==
    LET place == FirstOf(PlacesOf(line, DOMAIN AfterBracket))
    IN  [From(line, place) EXCEPT ![1] = AfterBracket[Head(@)] \o Tail(@)]

CsvContent(line) ==
    CASE PlacesOf(line, DeviceWords) # {} -> AfterDevice(line)
      [] PlacesOf(line, DeviceWords) = {} /\ Stamps(line) # {} -> BeforeStamp(line)
      [] OTHER -> IF PlacesOf(line, DOMAIN AfterBracket) # {} THEN BehindBracket(line) ELSE line

extra_headers(record) ==
    IF record[4] = <<"THREAT">> THEN THREAT_EXTRA_HEADERS ELSE TRAFFIC_EXTRA_HEADERS

ParsedValue(header, text) ==
    LET word == WordOf(text)
    IN  IF header \in INTEGER_FIELDS /\ word \in IntegerWords THEN Num(word)
        ELSE IF header \in FLOAT_FIELDS /\ word \in FloatWords
        THEN Num(IF word \in NonFinite THEN "0" ELSE word)
        ELSE Str(text)

\* Empty cells are left out, and so are cells beyond the tables.
Fields(record) ==
    LET headers == COMMON_HEADERS \o extra_headers(record)
        filled == {i \in DOMAIN record \cap DOMAIN headers : record[i] # <<>>}
        cell == [header \in {headers[i] : i \in filled} |->
                    record[CHOOSE i \in filled : headers[i] = header]]
    IN  [header \in DOMAIN cell |-> ParsedValue(header, cell[header])]

Metadata == [header \in {"@timestamp", "log_source"} |->
                Str(<<IF header = "log_source" THEN "palo_alto" ELSE "now">>)]

parse_palo_alto_log_to_json(line) ==
    LET record == CsvContent(line)
    IN  IF Len(record) < Len(COMMON_HEADERS) THEN None ELSE extend(Fields(record), Metadata)

-----------------------------------------------------------------------------
(* format_json_to_palo_alto_syslog.                                        *)

\* These come first, some under another name.
Leading == {"device_name", "serial_number", "generated_time", "source_address",
            "destination_address", "source_port", "destination_port", "action",
            "application"}
Hidden == {"@timestamp", "palo_alto_raw_log", "log_source", "forwarder_enrichment"}

Label(key) ==
    CASE key = "source_address" -> "src_ip"
      [] key = "destination_address" -> "dst_ip"
      [] key = "source_port" -> "src_port"
      [] key = "destination_port" -> "dst_port"
      [] OTHER -> key

\* Quotes and escapes aside, what is between '=' and the next field.  Objects
\* come out empty, whatever they hold.
format_syslog_value(value) ==
    IF "number" \in DOMAIN value THEN <<value.number>>
    ELSE IF IsStr(value) THEN value.string ELSE FlattenSeq(Leaves(value))

\* Seeded fault: keys of the log keep their names and come out with the others.
format_json_to_palo_alto_syslog_Twice(log) ==
    [fields |-> {[label |-> Label(key), value |-> format_syslog_value(log[key])] :
                    key \in DOMAIN log \ Hidden}
                \cup {[label |-> key, value |-> format_syslog_value(log[key])] :
                         key \in DOMAIN log \cap Leading},
     enrich |-> {}]

\* The fields of the line, and those it prefixes with "enrich_".
format_json_to_palo_alto_syslog(log) ==
    LET shown == (DOMAIN log \cap Leading)
                    \cup {key \in DOMAIN log \ (Leading \cup Hidden) :
                             format_syslog_value(log[key]) # <<>>}
        enrichment == IF "forwarder_enrichment" \in DOMAIN log
                         /\ IsObj(log["forwarder_enrichment"])
                      THEN log["forwarder_enrichment"].object ELSE <<>>
    IN  [fields |-> {[label |-> Label(key), value |-> format_syslog_value(log[key])] :
                        key \in shown},
         enrich |-> {[label |-> key, value |-> format_syslog_value(enrichment[key])] :
                        key \in {k \in DOMAIN enrichment :
                                    format_syslog_value(enrichment[k]) # <<>>}}]
=============================================================================
