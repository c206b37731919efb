--------------------------- MODULE MCTelemetryHub ---------------------------
(***************************************************************************)
(* The hub with a program that comes and goes and, after it, one that is   *)
(* always there.                                                           *)
(***************************************************************************)
EXTENDS TelemetryHub

CONSTANTS Away, There

MCDestinations == <<Away, There>>
MCPort == {Away, There}
MCSteady == {There}

=============================================================================
