--------------------------- MODULE MCVariantCache ---------------------------
(* Symmetries of VariantCache for TLC. *)
EXTENDS VariantCache, TLC

Symmetric == Permutations(Threads) \cup Permutations(Sources) \cup Permutations(Keys)
             \cup Permutations(Objects) \cup Permutations(Addresses)
=============================================================================
