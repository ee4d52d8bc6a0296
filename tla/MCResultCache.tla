--------------------------- MODULE MCResultCache ---------------------------
(* ResultCache for TLC: two callers and the janitor, with lifetimes that   *)
(* differ between the two maps.                                            *)
EXTENDS ResultCache, TLC

CONSTANTS k1, p1, p2

MCTTL == [m \in {"url", "hash"} |-> IF m = "url" THEN 1 ELSE 2]

Symmetry == Permutations(Procs)

=============================================================================
