------------------------------ MODULE WatchMC ------------------------------
(* Watch with short lives and two faults. *)
EXTENDS Watch
=============================================================================
