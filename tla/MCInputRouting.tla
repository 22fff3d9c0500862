--------------------------- MODULE MCInputRouting ---------------------------
(* Two names, a and b, the serializer's fields in that order.              *)
EXTENDS InputRouting

CONSTANTS a, b

MCRank == [n \in Names |-> IF n = a THEN 1 ELSE 2]
=============================================================================
