---------------------------- MODULE MCConnLoop ----------------------------
(* ConnLoop for TLC: two hosts and two requests on one connection.         *)
EXTENDS ConnLoop

CONSTANTS h1, h2

=============================================================================
