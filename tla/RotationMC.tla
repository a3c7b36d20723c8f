----------------------------- MODULE RotationMC -----------------------------
(* Rotation on a few certificates of its own and one key of another instance. *)
EXTENDS Rotation, TLC

Symmetry == Permutations(Certs)
=============================================================================
