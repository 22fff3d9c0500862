----------------------------- MODULE MCBulkRows -----------------------------
(* BulkRows with a bound of two rows, and lists of up to three.            *)
EXTENDS BulkRows

MCBounds == {2}
=============================================================================
