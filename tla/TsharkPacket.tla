---------------------------- MODULE TsharkPacket ----------------------------
(***************************************************************************)
(* domain/tshark.rs: a packet in tshark's EK format becomes a log.  A      *)
(* packet is an object with the members "timestamp" and "layers"; a layer  *)
(* is an object whose fields are strings, or arrays of strings where the   *)
(* packet has the field more than once.                                    *)
(***************************************************************************)
EXTENDS LogRecord

CONSTANTS
    PortWords,      \* words that parse as u16
    LengthWords     \* words that parse as u64

\* TextOf is as_str().unwrap_or(""): an array counts as absent.
FieldOr(layer, key, fallback) ==
    TextOf(IF get(layer, key) # None THEN get(layer, key) ELSE get(layer, fallback))

\* An "ip" layer without addresses does not make way for an "ipv6" layer.
extract_ip(layers) ==
    LET ip == get(layers, "ip")
        ip6 == get(layers, "ipv6")
        flow == IF IsObj(ip)
                THEN [src |-> FieldOr(ip, "ip_ip_src", "ip_ip_src_host"),
                      dst |-> FieldOr(ip, "ip_ip_dst", "ip_ip_dst_host"), version |-> "4"]
                ELSE [src |-> TextOf(get(ip6, "ipv6_ipv6_src")),
                      dst |-> TextOf(get(ip6, "ipv6_ipv6_dst")), version |-> "6"]
    IN  IF flow.src = <<>> /\ flow.dst = <<>> THEN None ELSE flow

parse_port(value) == IF WordOf(TextOf(value)) \in PortWords THEN TextOf(value)[1] ELSE "0"

extract_transport(layers) ==
    LET Ports(layer, src, dst, name) ==
            [sp |-> parse_port(get(layer, src)), dp |-> parse_port(get(layer, dst)), name |-> name]
        tcp == get(layers, "tcp")
        udp == get(layers, "udp")
    IN  CASE IsObj(tcp) -> Ports(tcp, "tcp_tcp_srcport", "tcp_tcp_dstport", "TCP")
          [] ~IsObj(tcp) /\ IsObj(udp) -> Ports(udp, "udp_udp_srcport", "udp_udp_dstport", "UDP")
          [] OTHER -> [sp |-> "0", dp |-> "0", name |-> "OTHER"]

\* Every field of a frame that is none is absent.
extract_frame(layers) ==
    LET frame == get(layers, "frame")
        len == TextOf(get(frame, "frame_frame_len"))
    IN  [len |-> IF WordOf(len) \in LengthWords THEN len[1] ELSE "0",
         protocols |-> TextOf(get(frame, "frame_frame_protocols")),
         time_utc |-> TextOf(get(frame, "frame_frame_time_utc"))]

FlowFields(layers, time) ==
    LET ip == extract_ip(layers)
        transport == extract_transport(layers)
        frame == extract_frame(layers)
        ports == [key \in {"Source Port", "Destination Port"} |->
                     Num(IF key = "Source Port" THEN transport.sp ELSE transport.dp)]
    IN  extend(ports,
            [source_address |-> Str(ip.src), destination_address |-> Str(ip.dst),
             ip_version |-> Num(ip.version), ip_protocol |-> Str(<<transport.name>>),
             Bytes |-> Num(frame.len), timestamp_ms |-> Num(time),
             time_utc |-> Str(frame.time_utc), protocols |-> Str(frame.protocols),
             log_type |-> Str(<<"tshark">>)])

\* Seeded fault: the raw layers are copied last.
normalize_packet_RawWins(packet) ==
    LET layers == get(packet, "layers")
        time == WordOf(TextOf(get(packet, "timestamp")))
    IN  IF layers = None \/ time \notin IntegerWords \/ extract_ip(layers) = None THEN None
        ELSE extend(FlowFields(layers, time), IF IsObj(layers) THEN layers.object ELSE <<>>)

\* The raw layers are copied first and give way to the flow fields.
normalize_packet(packet) ==
    LET layers == get(packet, "layers")
        time == WordOf(TextOf(get(packet, "timestamp")))
    IN  IF layers = None \/ time \notin IntegerWords \/ extract_ip(layers) = None THEN None
        ELSE extend(IF IsObj(layers) THEN layers.object ELSE <<>>, FlowFields(layers, time))
=============================================================================
