-------------------------- MODULE MCCloudExtraction --------------------------
(* Small instances of CloudExtraction for TLC.                              *)
EXTENDS CloudExtraction, TLC

Symmetry == Permutations(Runs)
=============================================================================
