----------------------------- MODULE MCScanJob -----------------------------
(* ScanJob for TLC: every constant is a small set given in the .cfg files. *)
EXTENDS ScanJob

=============================================================================
