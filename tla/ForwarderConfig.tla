--------------------------- MODULE ForwarderConfig ---------------------------
(***************************************************************************)
(* infrastructure/config.rs with the constants of                          *)
(* infrastructure/defaults.rs and the use the two main functions make of   *)
(* it.  A configuration is the record of the settings that anything        *)
(* depends on; a file is NoFile when it is missing, is no TOML or lacks a  *)
(* section other than [geoip].                                             *)
(***************************************************************************)
EXTENDS Integers, TLC

CONSTANTS
    VarPaths,       \* paths that begin with "/var/"
    MaxUsize        \* usize::MAX

NoFile == [missing |-> TRUE]

Limits == {"syslog_port", "elk_port", "wazuh_port", "enrichment_worker_count",
           "max_receiver_queue_size", "max_enrichment_queue_size", "max_wazuh_queue_size",
           "elk_batch_size", "elk_batch_flush_interval_secs"}

GeoIpConfigDefault ==
    [geoip_enabled |-> TRUE, database_path |-> "run/geoip/dbip-city-lite.mmdb"]

ForwarderConfigDefault ==
    GeoIpConfigDefault @@
    [forwarder_type |-> "palo_alto",
     syslog_port |-> 514, elk_port |-> 5142, wazuh_port |-> 1514,
     enrichment_worker_count |-> 16, max_receiver_queue_size |-> 250000,
     max_enrichment_queue_size |-> 200000, max_wazuh_queue_size |-> 200000,
     elk_batch_size |-> 5000, elk_batch_flush_interval_secs |-> 2,
     log_file |-> "run/forwarder.log", state_file |-> "run/state.json",
     threat_intel_cache_dir |-> "run/threat_intel_cache",
     enable_threat_intel_feeds |-> TRUE]

load_from_file(file) == file @@ GeoIpConfigDefault

validate(config) ==
    /\ config.forwarder_type \in {"palo_alto", "tshark"}
    /\ \A limit \in Limits : config[limit] # 0

Resolved(path, local) == IF path \in VarPaths THEN local ELSE path

resolve_user_paths(config) ==
    [config EXCEPT
        !.log_file = Resolved(@, "run/forwarder.log"),
        !.state_file = Resolved(@, "run/state.json"),
        !.threat_intel_cache_dir = Resolved(@, "run/threat_intel_cache"),
        !.database_path = Resolved(@, "run/geoip/dbip-city-lite.mmdb")]

\* state_merger_queue_size succeeds: checked_mul(2).
MergerQueueFits(config) == config.enrichment_worker_count * 2 <= MaxUsize

\* Both programs go on with the defaults when the file is unusable.  The paths
\* stay as they are in the UDP mode only.
MainConfig(mode, file) ==
    LET config == IF file = NoFile THEN ForwarderConfigDefault ELSE load_from_file(file)
    IN  IF mode = "udp" THEN config ELSE resolve_user_paths(config)

\* main comes as far as run's threads; --stdin skips both checks.
Starts(mode, config) ==
    mode = "stdin" \/ (validate(config) /\ MergerQueueFits(config))
=============================================================================
