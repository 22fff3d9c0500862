---------------------------- MODULE CallPromise ----------------------------
(***************************************************************************)
(* What a call of a spec promises whoever makes it, with no context        *)
(* variable, task, token or open transaction in sight: calls form a tree;  *)
(* a call's row is settled once its guard was asked of it, once, and its   *)
(* service runs only then; what a call hears is its own, or its innermost  *)
(* enclosing edge call's; a write counts once every atomic service around  *)
(* it has returned; and a call is answered once, after all it made.        *)
(***************************************************************************)
EXTENDS Naturals

CONSTANTS Calls, Specs, Rows, None

VARIABLES
    made,     \* what each call is, once made
    open,     \* the calls made and not yet answered
    env,      \* the innermost edge call each is part of, itself included
    target,   \* the row each acts on
    asked,    \* how often its guard was asked, whose it was, on which row
    bound,    \* whose body it bound
    seat,     \* whose author values its service is handed
    filtered, \* whose filter_data its output is filtered by
    served,   \* whether its service returned
    durable,  \* the calls whose write is committed
    answer    \* how it was answered

vars == <<made, open, env, target, asked, bound, seat, filtered, served, durable, answer>>

Unmade == [route |-> "none", spec |-> None, parent |-> None, guarded |-> FALSE,
           service |-> FALSE, atomic |-> FALSE, nullable |-> FALSE, within |-> {}]
NotAsked == [times |-> 0, by |-> None, on |-> None]

Init ==
    /\ made = [c \in Calls |-> Unmade]
    /\ open = {}
    /\ env = [c \in Calls |-> None]
    /\ target = [c \in Calls |-> None]
    /\ asked = [c \in Calls |-> NotAsked]
    /\ bound = [c \in Calls |-> None]
    /\ seat = [c \in Calls |-> None]
    /\ filtered = [c \in Calls |-> None]
    /\ served = [c \in Calls |-> FALSE]
    /\ durable = {}
    /\ answer = [c \in Calls |-> "none"]

heard == <<bound, seat, filtered>>
acted == <<target, asked>>
store == <<served, durable>>

Edge(c) == made[c].route = "edge"

(* The guard of c, where it was given one, has let it by on its row. *)
LetBy(c) ==
    made[c].guarded => asked[c] = [times |-> 1, by |-> c, on |-> target[c]]

(* The atomic services a call made by p may be inside of. *)
Surroundings(p) ==
    IF p = None THEN {{}}
    ELSE {made[p].within}
         \cup (IF made[p].atomic /\ ~served[p] THEN {made[p].within \cup {p}} ELSE {})

Kinds(p) ==
    [route : {"edge", "kernel"}, spec : Specs, parent : {p}, guarded : BOOLEAN,
     service : BOOLEAN, atomic : BOOLEAN, nullable : BOOLEAN, within : Surroundings(p)]

(* c is made by p, a call under way, or (None) is a request.               *)
Make(c, p, kind) ==
    /\ made[c] = Unmade
    /\ p = None \/ kind.guarded => kind.route = "edge"
    /\ made' = [made EXCEPT ![c] = kind]
    /\ open' = open \cup {c}
    /\ env' = [env EXCEPT ![c] = IF kind.route = "edge" THEN c ELSE env[p]]
    /\ UNCHANGED <<acted, heard, store, answer>>

(* A row is found for c, while its guard has not spoken on one. *)
Find(c) ==
    /\ c \in open /\ asked[c] = NotAsked /\ ~served[c]
    /\ \E r \in Rows \cup {None} : target' = [target EXCEPT ![c] = r]
    /\ UNCHANGED <<made, open, env, asked, heard, store, answer>>

Ask(c) ==
    /\ c \in open /\ made[c].guarded /\ asked[c] = NotAsked /\ ~served[c]
    /\ asked' = [asked EXCEPT ![c] = [times |-> 1, by |-> c, on |-> target[c]]]
    /\ UNCHANGED <<made, open, env, target, heard, store, answer>>

(* c binds a body: its own, or in a kernel call the one of the edge call   *)
(* it was made in, where that dispatches the very same spec.               *)
Bind(c) ==
    /\ c \in open /\ LetBy(c) /\ bound[c] = None /\ ~served[c]
    /\ \E b \in Calls :
           /\ b = c \/ (b = env[c] /\ made[b].spec = made[c].spec)
           /\ bound' = [bound EXCEPT ![c] = b]
    /\ UNCHANGED <<made, open, env, acted, seat, filtered, store, answer>>

(* The service of an edge call is to be handed its own author values. *)
Seat(c) ==
    /\ c \in open /\ LetBy(c) /\ seat[c] = None /\ ~served[c]
    /\ Edge(c) /\ seat' = [seat EXCEPT ![c] = c]
    /\ UNCHANGED <<made, open, env, acted, bound, filtered, store, answer>>

(* Writes are committed, of services let by, once every atomic service     *)
(* around them has returned; none is ever taken back.                      *)
Around(w) == made[w].within \cup (IF made[w].atomic THEN {w} ELSE {})
Commit ==
    /\ durable \subseteq durable'
    /\ \A w \in durable' \ durable :
           made[w].service /\ LetBy(w) /\ \A b \in Around(w) : served'[b]

Write ==
    /\ Commit
    /\ UNCHANGED <<made, open, env, acted, heard, served, answer>>

(* The service of c returns, let by and handed what is its own. *)
Serve(c) ==
    /\ c \in open /\ LetBy(c) /\ made[c].service /\ ~served[c]
    /\ seat[c] = IF Edge(c) THEN c ELSE None
    /\ served' = [served EXCEPT ![c] = TRUE]
    /\ Commit
    /\ UNCHANGED <<made, open, env, acted, heard, answer>>

Filter(c) ==
    /\ c \in open /\ served[c] /\ filtered[c] = None
    /\ filtered' = [filtered EXCEPT ![c] = env[c]]
    /\ UNCHANGED <<made, open, env, acted, bound, seat, store, answer>>

(* c found no row and declares that it may (allow_none): its answer is     *)
(* None, and there is nothing to ask its guard of.                         *)
Nothing(c) ==
    made[c].nullable /\ ~made[c].service /\ target[c] = None /\ asked[c] = NotAsked

(* c is answered, with no call it made under way: ok only if its guard let *)
(* it by or it has no row to show, and its service, if it is one, has      *)
(* returned; not_found only if nothing of the author's ran on a row.       *)
Answer(c) ==
    /\ c \in open /\ \A d \in open : made[d].parent # c
    /\ \E a \in {"ok", "not_found", "raised"} :
           /\ a = "ok" => (LetBy(c) \/ Nothing(c)) /\ (made[c].service => served[c])
           /\ a = "not_found" => asked[c].on = None /\ bound[c] = None /\ ~served[c]
           /\ answer' = [answer EXCEPT ![c] = a]
    /\ open' = open \ {c}
    /\ UNCHANGED <<made, env, acted, heard, store>>

Next ==
    \/ \E c \in Calls :
           \/ made[c] = Unmade /\ \E p \in open \cup {None} : \E kind \in Kinds(p) : Make(c, p, kind)
           \/ Find(c) \/ Ask(c) \/ Bind(c) \/ Seat(c) \/ Serve(c) \/ Filter(c) \/ Answer(c)
    \/ Write

Spec == Init /\ [][Next]_vars
=============================================================================
