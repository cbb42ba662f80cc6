---------------------------- MODULE MCPaloAltoRun ----------------------------
(* Model checking of PaloAltoRun with two interchangeable workers.         *)
EXTENDS PaloAltoRun, TLC

CrewSymmetry == Permutations(Workers)
=============================================================================
