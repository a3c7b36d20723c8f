---------------------------- MODULE SupervisorMC ----------------------------
(* Instances of Supervisor for TLC. *)
EXTENDS Supervisor, TLC

\* Three roles in the script's order: one before Postfix, Postfix, one after.
MCOrder == <<"syslog", "postfix", "token">>

=============================================================================
