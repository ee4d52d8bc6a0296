---------------------------- MODULE MCCertCache ----------------------------
(* CertCache for TLC: two handshakes at once, interchangeable names.       *)
EXTENDS CertCache, TLC

CONSTANTS d1, d2, d3, c1, c2

Symmetry == Permutations(Conns) \cup Permutations(Domains)

=============================================================================
