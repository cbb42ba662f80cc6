--------------------------- MODULE MCBehavioralRun ---------------------------
(* Model checking of BehavioralRun with interchangeable sources and        *)
(* interchangeable workers.                                                *)
EXTENDS BehavioralRun, TLC

Symmetry == Permutations(Keys) \cup Permutations(Workers)
=============================================================================
