--------------------------- MODULE TwoRotationsMC ---------------------------
(* Two rotation runs over a few certificates. *)
EXTENDS TwoRotations, TLC

Symmetry == Permutations(Certs)
=============================================================================
