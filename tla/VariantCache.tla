---------------------------- MODULE VariantCache ----------------------------
(***************************************************************************)
(* kernel_spec_variant's cache of compiled specs, shared by every thread   *)
(* of the process: a table keyed by id(source), read and written under a   *)
(* lock, whose entries a weak reference's callback pops without it.        *)
(* guarded_selector's and bundled_selector's tables are the same, with one *)
(* variant to a source.                                                    *)
(*                                                                         *)
(* An id is an address: one object's while it lives, and free for another  *)
(* once the object is gone, which is after its weak references' callbacks. *)
(* A callback runs in whichever thread let go of the object, between two   *)
(* steps of that thread, the ones it takes under the lock included.        *)
(***************************************************************************)
CONSTANTS
    Threads,
    Sources,   \* declared specs, as objects: each lives once
    Keys,      \* the combinations of keywords a variant is compiled for
    Objects,   \* compiled specs
    Addresses, \* what id() answers
    None

ASSUME CacheAssumption ==
    None \notin Threads /\ None \notin Sources /\ None \notin Objects

VARIABLES
    life,       \* each source: "unborn", "live", "dying" or "dead"
    addr,       \* where it is
    table,      \* _VARIANTS
    lock,       \* _LOCK: the thread holding it
    step,       \* where each thread is in kernel_spec_variant
    job,        \* what it was asked for
    collecting, \* the source whose callback it is running
    used,       \* the compiled objects there have ever been
    got         \* what each thread was last handed

vars == <<life, addr, table, lock, step, job, collecting, used, got>>
objects == <<life, addr, collecting>>

-----------------------------------------------------------------------------

NoVariants == [k \in Keys |-> None]
NoEntry == [source |-> None, variants |-> NoVariants]
Nothing == [source |-> None, key |-> None, object |-> None]

(* The source's memory is not free. *)
There(s) == life[s] \in {"live", "dying"}

(* Some thread's call holds a reference to s. *)
Asked(s) == \E t \in Threads : step[t] # "idle" /\ job[t].source = s

Running(t) == collecting[t] = None
Slot(t) == addr[job[t].source]
Goto(t, stage) == step' = [step EXCEPT ![t] = stage]

Init ==
    /\ life = [s \in Sources |-> "unborn"]
    /\ addr = [s \in Sources |-> None]
    /\ table = [a \in Addresses |-> NoEntry]
    /\ lock = None
    /\ step = [t \in Threads |-> "idle"]
    /\ job = [t \in Threads |-> [source |-> None, key |-> None]]
    /\ collecting = [t \in Threads |-> None]
    /\ used = {}
    /\ got = [t \in Threads |-> Nothing]

-----------------------------------------------------------------------------
(* A source is declared, and let go of.                                    *)

Create(s) ==
    /\ life[s] = "unborn"
    /\ \E a \in Addresses :
           /\ \A r \in Sources : There(r) => addr[r] # a
           /\ addr' = [addr EXCEPT ![s] = a]
    /\ life' = [life EXCEPT ![s] = "live"]
    /\ UNCHANGED <<table, lock, step, job, collecting, used, got>>

(* The last reference goes, or a collection run in t finds s unreachable. *)
Drop(t, s) ==
    /\ Running(t) /\ life[s] = "live" /\ ~Asked(s)
    /\ life' = [life EXCEPT ![s] = "dying"]
    /\ collecting' = [collecting EXCEPT ![t] = s]
    /\ UNCHANGED <<addr, table, lock, step, job, used, got>>

(* Mistakes: the callback keeps the entry; it waits for the lock. *)
CallbackKeeps(t) ==
    LET s == collecting[t] IN
    /\ s # None
    /\ table' = table
    /\ life' = [life EXCEPT ![s] = "dead"]
    /\ collecting' = [collecting EXCEPT ![t] = None]
    /\ UNCHANGED <<addr, lock, step, job, used, got>>
CallbackLocks(t) ==
    LET s == collecting[t] IN
    /\ s # None /\ lock = None
    /\ table' = [table EXCEPT ![addr[s]] = NoEntry]
    /\ life' = [life EXCEPT ![s] = "dead"]
    /\ collecting' = [collecting EXCEPT ![t] = None]
    /\ UNCHANGED <<addr, lock, step, job, used, got>>

(* lambda _dead: _VARIANTS.pop(source_id, None), where an entry's weak     *)
(* reference refers to s; then its memory is free.                         *)
Callback(t) ==
    LET s == collecting[t] IN
    /\ s # None
    /\ table' = IF table[addr[s]].source = s
                THEN [table EXCEPT ![addr[s]] = NoEntry] ELSE table
    /\ life' = [life EXCEPT ![s] = "dead"]
    /\ collecting' = [collecting EXCEPT ![t] = None]
    /\ UNCHANGED <<addr, lock, step, job, used, got>>

-----------------------------------------------------------------------------
(* kernel_spec_variant.                                                    *)

Request(t, s, k) ==
    /\ Running(t) /\ step[t] = "idle" /\ life[s] = "live"
    /\ job' = [job EXCEPT ![t] = [source |-> s, key |-> k]]
    /\ Goto(t, "wait")
    /\ UNCHANGED <<objects, table, lock, used, got>>

(* A mistake: the table is read without waiting for the lock. *)
AcquireAnyway(t) ==
    /\ Running(t) /\ step[t] = "wait"
    /\ lock' = t
    /\ Goto(t, "look")
    /\ UNCHANGED <<objects, table, job, used, got>>

Acquire(t) ==
    /\ Running(t) /\ step[t] = "wait" /\ lock = None
    /\ lock' = t
    /\ Goto(t, "look")
    /\ UNCHANGED <<objects, table, job, used, got>>

(* The entry at id(spec), a new one where there is none, and its variant.  *)
Look(t) ==
    /\ Running(t) /\ step[t] = "look"
    /\ table' = IF table[Slot(t)].source = None
                THEN [table EXCEPT ![Slot(t)] = [NoEntry EXCEPT !.source = job[t].source]]
                ELSE table
    /\ Goto(t, IF table[Slot(t)].variants[job[t].key] = None THEN "compile" ELSE "leave")
    /\ UNCHANGED <<objects, lock, job, used, got>>

Compile(t) ==
    /\ Running(t) /\ step[t] = "compile"
    /\ \E o \in Objects \ used :
           /\ table' = [table EXCEPT ![Slot(t)].variants[job[t].key] = o]
           /\ used' = used \cup {o}
    /\ Goto(t, "leave")
    /\ UNCHANGED <<objects, lock, job, got>>

(* A mistake: what raises keeps the lock. *)
RaisesLocked(t) ==
    /\ Running(t) /\ step[t] = "compile"
    /\ Goto(t, "idle")
    /\ UNCHANGED <<objects, table, lock, job, used, got>>

(* A misdeclared spec is refused as it is compiled: the lock is released,  *)
(* the entry stays, and the next call compiles again.                      *)
CompileRaises(t) ==
    /\ Running(t) /\ step[t] = "compile"
    /\ lock' = None
    /\ Goto(t, "idle")
    /\ UNCHANGED <<objects, table, job, used, got>>

(* A mistake: the thread is handed the entry, not the variant in it. *)
LeaveWithEntry(t) ==
    /\ Running(t) /\ step[t] = "leave"
    /\ lock' = None
    /\ got' = [got EXCEPT ![t] = [source |-> job[t].source, key |-> job[t].key,
                                  object |-> table[Slot(t)]]]
    /\ Goto(t, "idle")
    /\ UNCHANGED <<objects, table, job, used>>

(* return compiled, the lock released. *)
Leave(t) ==
    /\ Running(t) /\ step[t] = "leave"
    /\ lock' = None
    /\ got' = [got EXCEPT ![t] = [source |-> job[t].source, key |-> job[t].key,
                                  object |-> table[Slot(t)].variants[job[t].key]]]
    /\ Goto(t, "idle")
    /\ UNCHANGED <<objects, table, job, used>>

-----------------------------------------------------------------------------

(* What a thread holding the lock does next, the callback it may be in. *)
Work(t) == Look(t) \/ Compile(t) \/ CompileRaises(t) \/ Leave(t) \/ Callback(t)

Next ==
    \/ \E s \in Sources :
           \/ Create(s)
           \/ \E t \in Threads : Drop(t, s) \/ \E k \in Keys : Request(t, s, k)
    \/ \E t \in Threads : Acquire(t) \/ Work(t)

Spec == Init /\ [][Next]_vars
FairSpec == Spec /\ \A t \in Threads : WF_vars(Work(t))

-----------------------------------------------------------------------------
(* Properties.                                                             *)

Locked == {"look", "compile", "leave"}

TypeOK ==
    /\ life \in [Sources -> {"unborn", "live", "dying", "dead"}]
    /\ addr \in [Sources -> Addresses \cup {None}]
    /\ table \in [Addresses -> [source : Sources \cup {None},
                                variants : [Keys -> Objects \cup {None}]]]
    /\ lock \in Threads \cup {None}
    /\ step \in [Threads -> {"idle", "wait"} \cup Locked]
    /\ job \in [Threads -> [source : Sources \cup {None}, key : Keys \cup {None}]]
    /\ collecting \in [Threads -> Sources \cup {None}]
    /\ used \in SUBSET Objects
    /\ got \in [Threads -> [source : Sources \cup {None}, key : Keys \cup {None},
                            object : Objects \cup {None}]]

(* An entry is its source's, which is still there: nothing is left at an   *)
(* address another declaration may take (the weakref callbacks).           *)
EntryOfItsSource ==
    \A a \in Addresses : table[a].source # None =>
        There(table[a].source) /\ addr[table[a].source] = a

(* The table promises what SpecMemo does: while a spec lives each variant  *)
(* of it is one object, its own, whichever thread asks and whatever lived  *)
(* at its address before (kernel_spec_variant; a Grant binds by identity). *)
Alive == {s \in Sources : life[s] = "live"}
Made == [s \in Sources |-> IF s \in Alive THEN table[addr[s]].variants ELSE NoVariants]
Memo == INSTANCE SpecMemo WITH alive <- Alive, made <- Made
MemoSpec == Memo!Spec

(* No thread keeps the lock: what it runs under it ends, a collection that *)
(* calls back into the table included.                                     *)
LockIsReleased == \A t \in Threads : lock = t ~> lock # t
=============================================================================
