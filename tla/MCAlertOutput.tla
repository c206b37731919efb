---------------------------- MODULE MCAlertOutput ----------------------------
(* The scheduler's instance, with players for two processes; the file of one *)
(* recovery is missing.                                                      *)
EXTENDS AlertOutput, MCSchedulerClient

MCRecorded == Event \ {[code |-> "LOST", active |-> FALSE]}
=============================================================================
