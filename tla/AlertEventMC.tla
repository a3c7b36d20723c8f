---------------------------- MODULE AlertEventMC ----------------------------
(* Two callers, one alert category, a few references. *)
EXTENDS AlertEvent, TLC

Symmetry == Permutations(Callers) \cup Permutations(Refs)
=============================================================================
