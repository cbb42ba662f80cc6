----------------------------- MODULE MCRecordRun -----------------------------
(* Model checking of RecordRun: lines of either firewall table, packets of  *)
(* every shape the normalisation tells apart, and feeds that disagree.  A   *)
(* word is chosen for what the regular expressions see in it.               *)
EXTENDS RecordRun

MCKeyOrder == <<
    "@timestamp", "Bytes", "Destination Port", "Source Port", "a_slice_differentiator",
    "a_slice_service_type", "action", "action_flags", "action_source", "application",
    "application_category", "application_characteristics", "application_container_name",
    "application_level_link_changes", "application_risk", "application_sanctioned_state",
    "application_subcategory", "application_technology", "arp", "arp_arp_opcode", "bytes",
    "bytes_received", "bytes_sent", "category", "cloud", "config_version", "container_id",
    "content_type", "destination_address", "destination_device_category",
    "destination_device_model", "destination_device_os_family", "destination_device_os_version",
    "destination_device_profile", "destination_device_vendor",
    "destination_dynamic_address_group", "destination_external_dynamic_list",
    "destination_hostname", "destination_location", "destination_mac_address",
    "destination_port", "destination_user", "destination_vm_uuid", "destination_zone",
    "device_group_hierarchy_level_1", "device_group_hierarchy_level_2",
    "device_group_hierarchy_level_3", "device_group_hierarchy_level_4", "device_name",
    "direction", "dns", "dns_dns_qry_name", "dynamic_user_group_name", "elapsed_time_in_seconds",
    "eth", "eth_src", "file_digest", "file_type", "flags", "frame", "frame_frame_len",
    "frame_frame_protocols", "frame_frame_time_utc", "generated_time",
    "high_resolution_timestamp", "high_resolution_timestamp_2", "host_id", "http_2_connection",
    "icmp", "inbound_interface", "ip", "ip_ip_dst", "ip_ip_dst_host", "ip_ip_src",
    "ip_ip_src_host", "ip_protocol", "ip_version", "ipv6", "ipv6_ipv6_dst", "ipv6_ipv6_src",
    "is_saas_app", "link_switches", "log_action", "log_number", "log_source",
    "log_type", "monitor_tag_imei", "nat_destination_ip", "nat_destination_port",
    "nat_source_ip", "nat_source_port", "nssai_sd", "nssai_sst", "offloaded",
    "outbound_interface", "packets", "packets_received", "packets_sent", "padding", "padding_2",
    "parent_session_id", "parent_start_time", "partial_hash", "pcap_id", "pod_name",
    "pod_namespace", "policy_id", "protocols", "receive_time", "recipient", "referer",
    "repeat_count", "report_id", "rule_name", "sctp_association_id", "sctp_chunks",
    "sctp_chunks_received", "sctp_chunks_sent", "sd_wan_cluster", "sd_wan_cluster_type",
    "sd_wan_device_type", "sd_wan_site", "sender", "sequence_number", "serial_number",
    "session_end_reason", "session_id", "session_owner", "severity", "source_address",
    "source_device_category", "source_device_model", "source_device_os_family",
    "source_device_os_version", "source_device_profile", "source_device_vendor",
    "source_dynamic_address_group", "source_external_dynamic_list", "source_hostname",
    "source_location", "source_mac_address", "source_port", "source_user", "source_vm_uuid",
    "source_zone", "start_time", "subject", "tcp", "tcp_tcp_dstport", "tcp_tcp_srcport",
    "threat_content_type", "threat_id", "threat_name", "time_logged", "time_utc", "timestamp_ms", "tunnel_id_imsi", "tunnel_type", "tunneled_application", "type", "udp",
    "udp_udp_dstport", "udp_udp_srcport", "url_index", "user_agent", "user_device_serial_number",
    "uuid_for_rule", "virtual_system", "virtual_system_name", "x_forwarded_for",
    "x_forwarded_for_address">>

-----------------------------------------------------------------------------
(* Words.                                                                  *)

Digits == {ToString(n) : n \in 0..130}
MCIntegerWords == Digits
MCFloatWords == Digits \cup {"nan"}
MCPortWords == Digits \cup {"443", "54321"}
MCLengthWords == Digits
MCAfterBracket ==
    [word \in {"<134>1", "<14>Jun"} |-> IF word = "<134>1" THEN <<"1">> ELSE <<"Jun">>]

V6 == "2804:1434:1de:2000:a34b:2c44:98ac:570c"
MD5 == "d41d8cd98f00b204e9800998ecf8427e"
V6Short == "2a04:4e42:3b::820"
MCAddress ==
    [word \in {"9.9.9.9", "8.8.8.8", "10.0.0.7", V6, V6Short} |->
        [version |-> IF word \in {V6, V6Short} THEN "v6" ELSE "v4",
         range |-> IF word = "10.0.0.7" THEN "private" ELSE "global"]]

\* Addresses are found in a range and a domain in a URL, but no address with
\* "::" in the middle.
Itself(words) == [word \in words |-> {word}]
MCFound ==
    [ip |-> [word \in {"9.9.9.9", "8.8.8.8", "10.0.0.7", "8.8.8.8-8.8.9.9", V6} |->
                IF word = "8.8.8.8-8.8.9.9" THEN {"8.8.8.8", "8.8.9.9"} ELSE {word}],
     domain |-> [word \in {"evil.example", "http://evil.example/x"} |-> {"evil.example"}],
     hash |-> Itself({MD5}),
     url |-> Itself({"http://evil.example/x"})]

MCWordMarks ==
    [word \in {"THREAT", "drop", "table-service", "ldap", "oracle", "psexec"} |->
        CASE word = "THREAT" -> {"threat"}
          [] word = "table-service" -> {"table"}
          [] OTHER -> {word}]
MCSuspiciousPatterns == [sql_injection |-> {<<"drop", "table">>}]
MCSuspiciousProcesses == << <<"psexec">> >>
MCCriticalAssets == << <<"ldap">>, <<"oracle">> >>
MCCorrelationRules ==
    [lateral_movement |-> {<<"psexec">>}, sql_injection_attempt |-> {<<"drop", "table">>},
     network_threat_detected |-> {<<"threat">>}]
MCCity == [word \in {"9.9.9.9", "10.0.0.7"} |->
              IF word = "9.9.9.9" THEN [country_code |-> "CH"] ELSE [city |-> "Intranet"]]

-----------------------------------------------------------------------------
(* Lines.  A cell that is not given holds its own number.                  *)

Line(n, cells) ==
    SubSeq([i \in 1..n |-> IF i \in DOMAIN cells THEN cells[i] ELSE <<ToString(i)>>], 1, n)
Text(line) == [line |-> line, utf8 |-> TRUE, cut |-> FALSE]

Dated == 2 :> <<"2026/06/02", "13:10:01">>
Plain31 == Dated @@ 8 :> <<"10.0.0.7">> @@ 9 :> <<"9.9.9.9">>

\* All columns of the traffic table and one more, two empty; column 53 is the
\* name of the device, which the header has as well.
Traffic == Line(116,
    1 :> <<"<14>Jun", "02", "13:10:01", "PA-VM-01", "1">> @@ Dated @@ 4 :> <<"TRAFFIC">> @@
    8 :> <<"9.9.9.9">> @@ 9 :> <<V6>> @@ 12 :> <<"allow", "all", "web">> @@ 13 :> <<>> @@
    42 :> <<"8.8.8.8-8.8.9.9">> @@ 44 :> <<>> @@ 53 :> <<"PA-VM-01">> @@ 103 :> <<"nan">> @@
    104 :> <<"oracle">>)

\* A device without "PA-" in its name.
Threat == Line(84,
    Plain31 @@ 1 :> <<"<14>Jun", "02", "13:10:12", "fw1", "1">> @@ 4 :> <<"THREAT">> @@
    32 :> <<"http://evil.example/x">> @@ 33 :> <<"evil.example">> @@ 44 :> <<MD5>>)

\* Nothing to report but the source's second appearance; no header.
Bare == Line(31, Dated @@ 8 :> <<"10.0.0.7">> @@ 9 :> <<"10.0.0.7">>)

\* The name of a rule is taken for that of a device.
Decoy == Line(60, Plain31 @@ 1 :> <<"<14>Jun", "02", "13:10:01", "fw1", "1">> @@
                  12 :> <<"to", "PA-lan", "all">>)

\* Nothing between the priority and the first column, and two fields that
\* together make a phrase.
Glued == Line(33, Dated @@ 1 :> <<"<134>1">> @@ 8 :> <<"8.8.8.8">> @@ 12 :> <<"drop">> @@
                  22 :> <<"table-service">> @@ 16 :> <<>> @@ 17 :> <<>> @@ 18 :> <<>>)

MCSyslogLines ==
    {Text(Traffic), Text(Threat), Text(Bare), Text(Decoy), Text(Glued), Text(<< <<>> >>),
     [line |-> << <<"<134>1", "not">>, <<"a", "log">> >>, utf8 |-> TRUE, cut |-> TRUE],
     [line |-> << <<"no", "utf8">> >>, utf8 |-> FALSE, cut |-> FALSE]}

-----------------------------------------------------------------------------
(* Packets.                                                                *)

S(word) == Str(<<word>>)
Packet(time, layers) ==
    [kind |-> "packet", utf8 |-> TRUE, cut |-> FALSE,
     packet |-> Obj([timestamp |-> S(time), layers |-> Obj(layers)])]
NoPacket(kind, utf8, cut) == [kind |-> kind, utf8 |-> utf8, cut |-> cut, packet |-> None]

Frame == Obj([frame_frame_len |-> S("60"), frame_frame_protocols |-> S("eth:ip"),
              frame_frame_time_utc |-> S("now")])
Ip(src, dst) == Obj([ip_ip_src |-> src, ip_ip_dst |-> dst])

MCEkLines ==
    {Packet("1",
        [frame |-> Frame, ip |-> Ip(S("9.9.9.9"), S("10.0.0.7")),
         tcp |-> Obj([tcp_tcp_srcport |-> S("443"), tcp_tcp_dstport |-> S("99999")]),
         dns |-> Obj([dns_dns_qry_name |-> S("evil.example")])]),
     Packet("2", [ipv6 |-> Obj([ipv6_ipv6_src |-> S(V6Short), ipv6_ipv6_dst |-> S(V6)]),
                  udp |-> Obj([udp_udp_srcport |-> S("54321")])]),
     \* Layers that have the names of flow fields.
     Packet("3", [ip |-> Ip(S("10.0.0.7"), S("8.8.8.8")), log_type |-> S("raw"),
                  protocols |-> Obj([eth_src |-> S("9.9.9.9")])]),
     \* An IP header within another, one by name only, no IP, no time.
     Packet("4", [ip |-> Ip(Arr(<< <<"9.9.9.9">>, <<"8.8.8.8">> >>),
                            Arr(<< <<"8.8.8.8">>, <<"9.9.9.9">> >>))]),
     Packet("5", [ip |-> Obj([ip_ip_src_host |-> S("8.8.8.8")])]),
     Packet("6", [arp |-> Obj([arp_arp_opcode |-> S("1")])]),
     Packet("soon", [ip |-> Ip(S("9.9.9.9"), S("8.8.8.8"))]),
     NoPacket("index", TRUE, FALSE), NoPacket("junk", TRUE, FALSE), NoPacket("junk", TRUE, TRUE),
     NoPacket("packet", FALSE, FALSE)}

-----------------------------------------------------------------------------
(* Feeds and configurations.                                               *)

MCSources == [ip |-> {"f1", "f2"}, url |-> {"u1"}, hash |-> {"h1"}, domain |-> {"d1"}]
MCFeedAnswers ==
    {[f1 |-> {<<"#", "list">>, <<>>, <<"9.9.9.9">>, <<"10.0.0.7">>, <<"8.8.8.8", "3">>},
      f2 |-> {<<"9.9.9.9">>, <<"8.8.8.0/24">>, <<V6Short>>},
      u1 |-> {<<"http://evil.example/x">>}, d1 |-> {<<"evil.example">>},
      h1 |-> {<<MD5>>}],
     [f2 |-> {<<"8.8.8.8">>, <<V6>>}],
     <<>>}

Config(feeds) == [ForwarderConfigDefault EXCEPT
                     !.enable_threat_intel_feeds = feeds,
                     !.database_path = "/var/lib/city.mmdb"]
NoGeoIp == [f \in DOMAIN ForwarderConfigDefault \ DOMAIN GeoIpConfigDefault |->
               ForwarderConfigDefault[f]]

MCInvocations ==
    {[mode |-> "udp", file |-> Config(TRUE)],
     [mode |-> "udp", file |-> [NoGeoIp EXCEPT !.elk_batch_size = 0]],
     [mode |-> "stdin", file |-> NoFile],
     [mode |-> "stdin", file |-> [Config(FALSE) EXCEPT !.forwarder_type = "fortigate"]],
     [mode |-> "tshark", file |-> NoGeoIp],
     [mode |-> "tshark", file |-> [Config(TRUE) EXCEPT !.enrichment_worker_count = 1000000000]]}
=============================================================================
