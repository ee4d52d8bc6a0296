-------------------------- MODULE MCScanConfigSync --------------------------
(* ScanConfigSync for TLC: two requests besides the start of the server.   *)
EXTENDS ScanConfigSync

CONSTANTS q1, q2

=============================================================================
