----------------------------- MODULE MCElkSender -----------------------------
(* Model checking of ElkSender on small queues, batches and thresholds.    *)
EXTENDS ElkSender
=============================================================================
