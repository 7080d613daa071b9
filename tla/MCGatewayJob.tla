---------------------------- MODULE MCGatewayJob ----------------------------
(***************************************************************************)
(* GatewayJob for TLC: two calls of one job.                               *)
(***************************************************************************)
EXTENDS GatewayJob

CONSTANTS j1

MCJobOf == [c \in Calls |-> j1]

=============================================================================
