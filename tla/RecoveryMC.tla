----------------------------- MODULE RecoveryMC -----------------------------
(* Recovery on a few certificates, with one reset and one death. *)
EXTENDS Recovery, TLC

Symmetry == Permutations(Certs)
=============================================================================
