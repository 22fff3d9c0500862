------------------------------ MODULE SpecMemo ------------------------------
(***************************************************************************)
(* What a cache of compiled specs promises: while a source object lives,   *)
(* each variant of it is one object, compiled for it and no other, and     *)
(* whoever asks is handed that object (a Grant binds the compiled spec by  *)
(* identity, so the one minted for a variant covers it on the next call).  *)
(***************************************************************************)
CONSTANTS
    Threads, \* who asks
    Sources, \* declared specs, as objects
    Keys,    \* the variants of a source
    Objects, \* compiled specs, as objects
    None     \* none of these

VARIABLES
    alive, \* the sources there are
    made,  \* the compiled object of each variant of each source
    used,  \* the objects there have ever been
    got    \* what each thread was last handed

vars == <<alive, made, used, got>>

Nothing == [source |-> None, key |-> None, object |-> None]

Init ==
    /\ alive = {}
    /\ made = [s \in Sources |-> [k \in Keys |-> None]]
    /\ used = {}
    /\ got = [t \in Threads |-> Nothing]

(* An object is made, at some address, with nothing compiled for it. *)
Create(s) ==
    /\ s \notin alive
    /\ alive' = alive \cup {s}
    /\ UNCHANGED <<made, used, got>>

Compile(s, k) ==
    /\ s \in alive /\ made[s][k] = None
    /\ \E o \in Objects \ used :
           /\ made' = [made EXCEPT ![s][k] = o]
           /\ used' = used \cup {o}
    /\ UNCHANGED <<alive, got>>

Answer(t, s, k) ==
    /\ s \in alive /\ made[s][k] # None
    /\ got' = [got EXCEPT ![t] = [source |-> s, key |-> k, object |-> made[s][k]]]
    /\ UNCHANGED <<alive, made, used>>

(* A source goes, and its variants with it. *)
Forget(s) ==
    /\ s \in alive
    /\ alive' = alive \ {s}
    /\ made' = [made EXCEPT ![s] = [k \in Keys |-> None]]
    /\ UNCHANGED <<used, got>>

Next ==
    \E s \in Sources :
        \/ Create(s) \/ Forget(s)
        \/ \E k \in Keys : Compile(s, k) \/ \E t \in Threads : Answer(t, s, k)

Spec == Init /\ [][Next]_vars
=============================================================================
