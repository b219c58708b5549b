----------------------------- MODULE MCOutputs -----------------------------
EXTENDS Outputs, TLC

(* the requests that promote are interchangeable *)
Symmetry == Permutations(Promoters)
=============================================================================
