----------------------------- MODULE MCTsharkRun -----------------------------
(* Model checking of TsharkRun in every mode, with interchangeable workers. *)
EXTENDS TsharkRun, TLC

AllModes == [feeds : BOOLEAN, stdout : BOOLEAN]

CrewSymmetry == Permutations(Workers)
=============================================================================
