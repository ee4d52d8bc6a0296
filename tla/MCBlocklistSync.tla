-------------------------- MODULE MCBlocklistSync --------------------------
(* BlocklistSync for TLC: two requests that may be on the same domain.     *)
EXTENDS BlocklistSync

CONSTANTS d1, d2, q1, q2

=============================================================================
