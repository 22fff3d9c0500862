---------------------------- MODULE MCEdgeCall ----------------------------
(* Small declarations for TLC: which stages a call of each spec passes.    *)
EXTENDS EdgeCall, TLC

CONSTANTS create, update, bulk, read, find, list

Plain == [kind |-> "service", many |-> FALSE, lookup |-> FALSE,
          atomic |-> FALSE, validated |-> FALSE, seeded |-> FALSE,
          filters |-> FALSE, lists |-> FALSE, nullable |-> FALSE]

(* A create validates, an update finds its row and runs atomically, a bulk *)
(* service takes rows, a read is a selector, a find one with allow_none, a *)
(* list returns its own rows.                                              *)
MCDecl ==
    [s \in Specs |->
        CASE s = create -> [Plain EXCEPT !.validated = TRUE, !.seeded = TRUE]
          [] s = update -> [Plain EXCEPT !.validated = TRUE, !.lookup = TRUE, !.atomic = TRUE,
                                         !.filters = TRUE]
          [] s = bulk   -> [Plain EXCEPT !.many = TRUE, !.validated = TRUE, !.atomic = TRUE]
          [] s = read   -> [Plain EXCEPT !.kind = "selector"]
          [] s = find   -> [Plain EXCEPT !.kind = "selector", !.nullable = TRUE]
          [] s = list   -> [Plain EXCEPT !.lists = TRUE]]

Symmetric == Permutations(Calls) \cup Permutations(Tasks) \cup Permutations(Rows)
=============================================================================
