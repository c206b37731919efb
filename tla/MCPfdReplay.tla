---------------------------- MODULE MCPfdReplay ----------------------------
(* An int of 12 bits and ticks of 1024 milliseconds, so that a gap of one    *)
(* tick fits and one of two or three ticks becomes negative.                 *)
EXTENDS PfdReplay, MCTelemetryReplay
=============================================================================
