--------------------------- MODULE MCBreakerCaller ---------------------------
(* Model checking of BreakerCaller with the thresholds of defaults.rs.     *)
EXTENDS BreakerCaller
=============================================================================
