---------------------------- MODULE MCWazuhSender ----------------------------
(* Model checking of WazuhSender on small queues and thresholds.           *)
EXTENDS WazuhSender
=============================================================================
