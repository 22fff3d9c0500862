------------------------ MODULE VariantCache_proofs ------------------------
(***************************************************************************)
(* The cache implements SpecMemo, for any number of threads, sources,      *)
(* variants and addresses.                                                 *)
(***************************************************************************)
EXTENDS VariantCache, TLAPS

(* Memory is one source's at a time. *)
Placed ==
    /\ \A s \in Sources : There(s) => addr[s] \in Addresses
    /\ \A s, r \in Sources : There(s) /\ There(r) /\ addr[s] = addr[r] => s = r

(* The lock is held by the one thread past it, whose source is alive. *)
Working ==
    \A t \in Threads :
        /\ step[t] \in Locked <=> lock = t
        /\ step[t] # "idle" => /\ job[t].source \in Sources /\ job[t].key \in Keys
                               /\ life[job[t].source] = "live"

(* Where it has looked, there is its source's entry. *)
Looked ==
    \A t \in Threads : step[t] \in {"compile", "leave"} =>
        /\ table[Slot(t)].source = job[t].source
        /\ step[t] = "compile" <=> table[Slot(t)].variants[job[t].key] = None

(* A source is let go of once, in one thread. *)
Collected ==
    /\ \A t \in Threads : collecting[t] # None => life[collecting[t]] = "dying"
    /\ \A t, u \in Threads : collecting[t] # None /\ collecting[t] = collecting[u] => t = u

Empty == \A a \in Addresses : table[a].source = None => table[a].variants = NoVariants

IInv == TypeOK /\ EntryOfItsSource /\ Placed /\ Working /\ Looked /\ Collected /\ Empty

(* The table, the memory and the threads are empty at first. *)
LEMMA InitIInv == Init => IInv
  BY CacheAssumption DEF Init, IInv, TypeOK, EntryOfItsSource, Placed, Working, Looked,
     Collected, Empty, There, NoEntry, NoVariants, Nothing, Locked

(* A source is made where there is no other. *)
LEMMA CreateIInv ==
  ASSUME IInv, NEW s \in Sources, Create(s) PROVE IInv'
<1> USE CacheAssumption DEF IInv, Create
<1>1. TypeOK'
  BY DEF TypeOK
<1>2. EntryOfItsSource'
  BY DEF EntryOfItsSource, TypeOK, There
<1>3. Placed'
  BY DEF Placed, TypeOK, There
<1>4. Working'
  BY DEF Working, TypeOK
<1>5. Looked'
  BY DEF Looked, Working, TypeOK, Slot
<1>6. Collected'
  BY DEF Collected, TypeOK
<1>7. Empty'
  BY DEF Empty
<1> QED BY <1>1, <1>2, <1>3, <1>4, <1>5, <1>6, <1>7

(* And let go of where nobody asks for it. *)
LEMMA DropIInv ==
  ASSUME IInv, NEW t \in Threads, NEW s \in Sources, Drop(t, s) PROVE IInv'
<1> USE CacheAssumption DEF IInv, Drop
<1>1. TypeOK'
  BY DEF TypeOK
<1>2. EntryOfItsSource'
  BY DEF EntryOfItsSource, TypeOK, There
<1>3. Placed'
  BY DEF Placed, TypeOK, There
<1>4. Working'
  BY DEF Working, TypeOK, Asked
<1>5. Looked'
  BY DEF Looked, Slot
<1>6. Collected'
  BY DEF Collected, TypeOK
<1>7. Empty'
  BY DEF Empty
<1> QED BY <1>1, <1>2, <1>3, <1>4, <1>5, <1>6, <1>7

(* Its callback leaves no entry of its own, and every other where it was. *)
LEMMA CallbackIInv ==
  ASSUME IInv, NEW t \in Threads, Callback(t) PROVE IInv'
<1> USE CacheAssumption DEF IInv, Callback
<1> DEFINE s == collecting[t]
<1>0. /\ s \in Sources /\ life[s] = "dying" /\ addr[s] \in Addresses
      /\ \A u \in Threads : step[u] # "idle" => job[u].source # s
  BY DEF Collected, TypeOK, Placed, There, Working
<1>1. TypeOK'
  <2>1. NoEntry \in [source : Sources \cup {None}, variants : [Keys -> Objects \cup {None}]]
    BY DEF NoEntry, NoVariants
  <2> QED BY <1>0, <2>1 DEF TypeOK
<1>2. EntryOfItsSource'
  <2> SUFFICES ASSUME NEW a \in Addresses, table'[a].source # None
               PROVE  (There(table[a].source))' /\ addr[table'[a].source] = a
    BY DEF EntryOfItsSource
  <2>1. table'[a] = table[a]
    BY <1>0 DEF TypeOK, NoEntry
  <2>2. There(table[a].source) /\ addr[table[a].source] = a /\ table[a].source \in Sources
    BY <2>1 DEF EntryOfItsSource, TypeOK
  <2>3. table[a].source # s
    <3>1. CASE table[addr[s]].source = s
      BY <1>0, <2>1, <2>2, <3>1 DEF TypeOK, NoEntry
    <3>2. CASE table[addr[s]].source # s
      BY <2>2, <3>2
    <3> QED BY <3>1, <3>2
  <2> QED BY <1>0, <2>1, <2>2, <2>3 DEF There, TypeOK
<1>3. Placed'
  BY <1>0 DEF Placed, TypeOK, There
<1>4. Working'
  BY <1>0 DEF Working, TypeOK
<1>5. Looked'
  <2> SUFFICES ASSUME NEW u \in Threads, step[u] \in {"compile", "leave"}
               PROVE  /\ table'[Slot(u)].source = job[u].source
                      /\ step[u] = "compile" <=> table'[Slot(u)].variants[job[u].key] = None
    BY DEF Looked, Slot
  <2>1. job[u].source \in Sources /\ There(job[u].source) /\ There(s) /\ job[u].source # s
    BY <1>0 DEF Working, There
  <2>2. Slot(u) # addr[s] /\ Slot(u) \in Addresses
    BY <1>0, <2>1 DEF Placed, Slot
  <2>3. table'[Slot(u)] = table[Slot(u)]
    BY <1>0, <2>2 DEF TypeOK
  <2> QED BY <2>3 DEF Looked
<1>6. Collected'
  <2>1. \A u \in Threads : collecting'[u] # None => u # t /\ collecting'[u] = collecting[u]
    BY DEF TypeOK
  <2>2. \A u \in Threads \ {t} : collecting[u] # s
    BY DEF Collected
  <2> QED BY <1>0, <2>1, <2>2 DEF Collected, TypeOK
<1>7. Empty'
  BY <1>0 DEF Empty, TypeOK, NoEntry
<1> QED BY <1>1, <1>2, <1>3, <1>4, <1>5, <1>6, <1>7

(* A compiled object put in an entry leaves an entry. *)
LEMMA TableEntry ==
  ASSUME NEW e \in [source : Sources \cup {None}, variants : [Keys -> Objects \cup {None}]],
         NEW k \in Keys, NEW o \in Objects
  PROVE  [e EXCEPT !.variants[k] = o]
           \in [source : Sources \cup {None}, variants : [Keys -> Objects \cup {None}]]
<1>1. [e.variants EXCEPT ![k] = o] \in [Keys -> Objects \cup {None}]
  OBVIOUS
<1>2. [e EXCEPT !.variants[k] = o] = [e EXCEPT !.variants = [e.variants EXCEPT ![k] = o]]
  OBVIOUS
<1> QED BY <1>1, <1>2

(* A thread's step under the lock, or to it, keeps the table in order. *)
LEMMA StepIInv ==
  ASSUME IInv, NEW t \in Threads,
         \/ \E s \in Sources, k \in Keys : Request(t, s, k)
         \/ Acquire(t) \/ Look(t) \/ Compile(t) \/ CompileRaises(t) \/ Leave(t)
  PROVE  IInv'
<1> USE CacheAssumption DEF IInv, objects, Goto
<1>1. CASE \E s \in Sources, k \in Keys : Request(t, s, k)
  <2>1. PICK s \in Sources, k \in Keys : Request(t, s, k)
    BY <1>1
  <2>2. TypeOK'
    BY <2>1 DEF Request, TypeOK
  <2>3. Working'
    BY <2>1 DEF Request, Working, TypeOK, Locked
  <2>4. Looked'
    BY <2>1 DEF Request, Looked, TypeOK, Slot
  <2> QED BY <2>1, <2>2, <2>3, <2>4 DEF Request, EntryOfItsSource, Placed, Collected, Empty, There
<1>2. CASE Acquire(t)
  <2>1. TypeOK'
    BY <1>2 DEF Acquire, TypeOK, Locked
  <2>2. Working'
    BY <1>2 DEF Acquire, Working, TypeOK, Locked
  <2>3. Looked'
    BY <1>2 DEF Acquire, Looked, TypeOK, Slot
  <2> QED BY <1>2, <2>1, <2>2, <2>3 DEF Acquire, EntryOfItsSource, Placed, Collected, Empty, There
<1>3. CASE CompileRaises(t) \/ Leave(t)
  <2>0. /\ step[t] \in Locked /\ lock = t /\ lock' = None /\ step' = [step EXCEPT ![t] = "idle"]
        /\ UNCHANGED <<life, addr, collecting, table, job, used>>
    BY <1>3 DEF CompileRaises, Leave, Locked, Working
  <2>1. got' \in [Threads -> [source : Sources \cup {None}, key : Keys \cup {None},
                            object : Objects \cup {None}]]
    <3>1. CASE CompileRaises(t)
      BY <3>1 DEF CompileRaises, TypeOK
    <3>2. CASE Leave(t)
      <4>1. job[t].source \in Sources /\ job[t].key \in Keys /\ Slot(t) \in Addresses
        BY <2>0 DEF Working, Placed, There, Locked, Slot
      <4> QED BY <3>2, <4>1 DEF Leave, TypeOK
    <3> QED BY <1>3, <3>1, <3>2
  <2>2. TypeOK'
    BY <2>0, <2>1 DEF TypeOK
  <2>3. Working'
    BY <2>0 DEF Working, TypeOK, Locked
  <2>4. Looked'
    BY <2>0 DEF Looked, TypeOK, Slot
  <2> QED BY <2>0, <2>2, <2>3, <2>4 DEF EntryOfItsSource, Placed, Collected, Empty, There
<1>4. CASE Look(t)
  <2>0. /\ step[t] = "look" /\ lock = t /\ job[t].source \in Sources /\ job[t].key \in Keys
        /\ Slot(t) \in Addresses /\ There(job[t].source) /\ addr[job[t].source] = Slot(t)
    BY <1>4 DEF Look, Working, Placed, There, Locked, Slot
  <2>1. TypeOK'
    <3>1. [NoEntry EXCEPT !.source = job[t].source]
            \in [source : Sources \cup {None}, variants : [Keys -> Objects \cup {None}]]
      BY <2>0 DEF NoEntry, NoVariants
    <3> QED BY <1>4, <3>1 DEF Look, TypeOK, Locked
  <2>2. \A a \in Addresses : /\ table'[a].variants = table[a].variants
                             /\ a # Slot(t) => table'[a] = table[a]
    BY <1>4, <2>0 DEF Look, TypeOK, Empty, NoEntry
  <2>3. table'[Slot(t)].source = job[t].source
    <3>1. CASE table[Slot(t)].source = None
      BY <1>4, <2>0, <3>1 DEF Look, TypeOK, NoEntry
    <3>2. CASE table[Slot(t)].source # None
      <4>1. table[Slot(t)].source \in Sources /\ There(table[Slot(t)].source)
            /\ addr[table[Slot(t)].source] = Slot(t)
        BY <2>0, <3>2 DEF TypeOK, EntryOfItsSource
      <4> QED BY <1>4, <2>0, <3>2, <4>1 DEF Look, Placed
    <3> QED BY <3>1, <3>2
  <2>4. EntryOfItsSource'
    BY <1>4, <2>0, <2>2, <2>3 DEF Look, EntryOfItsSource, There
  <2>5. Working'
    BY <1>4 DEF Look, Working, TypeOK, Locked
  <2>6. Looked'
    <3> SUFFICES ASSUME NEW u \in Threads, step'[u] \in {"compile", "leave"}
                 PROVE  /\ table'[Slot(u)].source = job[u].source
                        /\ step'[u] = "compile" <=> table'[Slot(u)].variants[job[u].key] = None
      BY <1>4 DEF Look, Looked, Slot
    <3>1. u = t
      BY <1>4, <2>0 DEF Look, Working, TypeOK, Locked
    <3> QED BY <1>4, <2>0, <2>2, <2>3, <3>1 DEF Look, TypeOK
  <2>7. Empty'
    BY <2>0, <2>2, <2>3, CacheAssumption DEF Empty
  <2> QED BY <1>4, <2>1, <2>4, <2>5, <2>6, <2>7 DEF Look, Placed, Collected, There
<1>5. CASE Compile(t)
  <2>0. /\ step[t] = "compile" /\ lock = t /\ job[t].source \in Sources /\ job[t].key \in Keys
        /\ Slot(t) \in Addresses /\ table[Slot(t)].source = job[t].source
    BY <1>5 DEF Compile, Working, Placed, There, Locked, Slot, Looked
  <2>1. PICK o \in Objects \ used :
            /\ table' = [table EXCEPT ![Slot(t)].variants[job[t].key] = o]
            /\ used' = used \cup {o}
    BY <1>5 DEF Compile
  <2>2. TypeOK'
    <3>1. [table[Slot(t)] EXCEPT !.variants[job[t].key] = o]
            \in [source : Sources \cup {None}, variants : [Keys -> Objects \cup {None}]]
      BY <2>0, TableEntry DEF TypeOK
    <3>2. table' \in [Addresses -> [source : Sources \cup {None},
                                  variants : [Keys -> Objects \cup {None}]]]
      BY <2>0, <2>1, <3>1 DEF TypeOK
    <3> QED BY <1>5, <2>1, <3>2 DEF Compile, TypeOK, Locked
  <2>3. /\ \A a \in Addresses : /\ table'[a].source = table[a].source
                                /\ a # Slot(t) => table'[a] = table[a]
        /\ table'[Slot(t)].variants[job[t].key] # None
    BY <2>0, <2>1 DEF TypeOK
  <2>4. EntryOfItsSource'
    BY <1>5, <2>3 DEF Compile, EntryOfItsSource, There
  <2>5. Working'
    BY <1>5 DEF Compile, Working, TypeOK, Locked
  <2>6. Looked'
    <3> SUFFICES ASSUME NEW u \in Threads, step'[u] \in {"compile", "leave"}
                 PROVE  /\ table'[Slot(u)].source = job[u].source
                        /\ step'[u] = "compile" <=> table'[Slot(u)].variants[job[u].key] = None
      BY <1>5 DEF Compile, Looked, Slot
    <3>1. u = t
      BY <1>5, <2>0 DEF Compile, Working, TypeOK, Locked
    <3> QED BY <1>5, <2>0, <2>3, <3>1 DEF Compile, TypeOK
  <2>7. Empty'
    BY <2>0, <2>3, CacheAssumption DEF Empty
  <2> QED BY <1>5, <2>2, <2>4, <2>5, <2>6, <2>7 DEF Compile, Placed, Collected, There
<1> QED BY <1>1, <1>2, <1>3, <1>4, <1>5

(* Every step keeps it. *)
LEMMA NextIInv == IInv /\ [Next]_vars => IInv'
<1>1. IInv /\ UNCHANGED vars => IInv'
  BY DEF IInv, TypeOK, EntryOfItsSource, Placed, Working, Looked, Collected, Empty, There,
     Slot, vars
<1> QED BY <1>1, CreateIInv, DropIInv, CallbackIInv, StepIInv DEF Next, Work

(* The table, the threads and the sources keep their types.                *)
THEOREM TypeCorrect == Spec => []TypeOK
<1>1. IInv => TypeOK
  BY DEF IInv
<1> QED BY <1>1, InitIInv, NextIInv, PTL DEF Spec

(* No entry is left where another declaration may go.                      *)
THEOREM CacheInvariant == Spec => []EntryOfItsSource
<1>1. IInv => EntryOfItsSource
  BY DEF IInv
<1> QED BY <1>1, InitIInv, NextIInv, PTL DEF Spec

(* Nothing lives at first. *)
LEMMA InitMemo == Init => Memo!Init
  BY DEF Init, Memo!Init, Alive, Made, NoVariants, Nothing, Memo!Nothing

(* A source is made with nothing compiled, at an address nobody left an    *)
(* entry at.                                                               *)
LEMMA CreateMemo ==
  ASSUME IInv, NEW s \in Sources, Create(s) PROVE Memo!Create(s)
<1> USE CacheAssumption DEF IInv, Create
<1>1. addr'[s] \in Addresses /\ \A r \in Sources \ {s} : addr'[r] = addr[r] /\ life'[r] = life[r]
  BY DEF TypeOK
<1>2. life'[s] = "live" /\ \A r \in Sources : There(r) => addr[r] # addr'[s]
  BY DEF TypeOK
<1>3. table[addr'[s]].variants = NoVariants
  BY <1>1, <1>2 DEF EntryOfItsSource, Empty, TypeOK
<1>4. s \notin Alive /\ Alive' = Alive \cup {s}
  BY <1>1, <1>2 DEF Alive
<1>5. \A r \in Sources : Made'[r] = Made[r]
  BY <1>1, <1>3, <1>4 DEF Made
<1>6. Made' = Made
  BY <1>5 DEF Made
<1> QED BY <1>4, <1>6 DEF Memo!Create

(* Its variants go with it, whenever the entry does. *)
LEMMA DropMemo ==
  ASSUME IInv, NEW t \in Threads, NEW s \in Sources, Drop(t, s) PROVE Memo!Forget(s)
<1> USE DEF IInv, Drop
<1>1. s \in Alive /\ Alive' = Alive \ {s}
  BY DEF Alive, TypeOK
<1>2. Made' = [Made EXCEPT ![s] = NoVariants]
  BY <1>1 DEF Made, NoVariants
<1> QED BY <1>1, <1>2 DEF Memo!Forget, NoVariants

(* A step that keeps what is compiled for the living sources. *)
LEMMA MadeKept ==
  ASSUME UNCHANGED addr, Alive' = Alive,
         \A s \in Alive : table'[addr[s]].variants = table[addr[s]].variants
  PROVE  Made' = Made
  BY DEF Made, NoVariants, Alive

(* The entry a callback pops is of a source nobody has. *)
LEMMA CallbackMemo ==
  ASSUME IInv, NEW t \in Threads, Callback(t) PROVE UNCHANGED Memo!vars
<1> USE CacheAssumption DEF IInv, Callback
<1> DEFINE s == collecting[t]
<1>1. s \in Sources /\ life[s] = "dying" /\ addr[s] \in Addresses /\ There(s)
  BY DEF Collected, TypeOK, Placed, There
<1>2. Alive' = Alive
  BY <1>1 DEF Alive, TypeOK
<1>3. ASSUME NEW r \in Alive PROVE table'[addr[r]].variants = table[addr[r]].variants
  <2>1. r \in Sources /\ r # s /\ There(r)
    BY <1>1 DEF Alive, There
  <2>2. addr[r] # addr[s] /\ addr[r] \in Addresses
    BY <1>1, <2>1 DEF Placed
  <2> QED BY <2>2 DEF TypeOK
<1>4. Made' = Made
  BY <1>2, <1>3, MadeKept
<1> QED BY <1>2, <1>4 DEF Memo!vars

(* Looking makes an entry where there was none, with nothing in it. *)
LEMMA LookMemo ==
  ASSUME IInv, NEW t \in Threads, Look(t) PROVE UNCHANGED Memo!vars
<1> USE CacheAssumption DEF IInv, Look, objects
<1>1. Slot(t) \in Addresses
  BY DEF Working, Placed, There, Slot
<1>2. \A a \in Addresses : table'[a].variants = table[a].variants
  BY <1>1 DEF TypeOK, Empty, NoEntry
<1>3. Alive' = Alive /\ \A r \in Alive : addr[r] \in Addresses
  BY DEF Alive, Placed, There
<1>4. Made' = Made
  BY <1>2, <1>3, MadeKept
<1> QED BY <1>3, <1>4 DEF Memo!vars

(* What it compiles is the first of its variant, and a new object. *)
LEMMA CompileMemo ==
  ASSUME IInv, NEW t \in Threads, Compile(t)
  PROVE  Memo!Compile(job[t].source, job[t].key)
<1> USE CacheAssumption DEF IInv, Compile, objects
<1> DEFINE s == job[t].source  k == job[t].key
<1>1. s \in Alive /\ k \in Keys /\ Slot(t) \in Addresses /\ Slot(t) = addr[s]
  BY DEF Working, Placed, There, Slot, Alive
<1>2. Made[s][k] = None
  <2>1. table[Slot(t)].variants[k] = None
    BY DEF Looked
  <2>2. Made[s] = table[addr[s]].variants
    BY <1>1 DEF Made, Alive
  <2> QED BY <1>1, <2>1, <2>2
<1>3. PICK o \in Objects \ used :
          /\ table' = [table EXCEPT ![Slot(t)].variants[k] = o]
          /\ used' = used \cup {o}
  OBVIOUS
<1>4. Alive' = Alive
  BY DEF Alive
<1>5. table'[addr[s]].variants = [table[addr[s]].variants EXCEPT ![k] = o]
  BY <1>1, <1>3 DEF TypeOK
<1>6. ASSUME NEW r \in Alive, r # s PROVE table'[addr[r]] = table[addr[r]]
  <2>1. addr[r] # addr[s]
    BY <1>1, <1>6 DEF Alive, There, Placed
  <2> QED BY <1>1, <1>3, <2>1 DEF TypeOK
<1>7. ASSUME NEW r \in Sources
      PROVE  Made'[r] = IF r = s THEN [Made[s] EXCEPT ![k] = o] ELSE Made[r]
  <2>1. CASE r = s
    BY <1>1, <1>4, <1>5, <2>1 DEF Made
  <2>2. CASE r # s
    BY <1>4, <1>6, <2>2 DEF Made
  <2> QED BY <2>1, <2>2
<1>8. Made' = [Made EXCEPT ![s][k] = o]
  <2>1. Made' = [r \in Sources |-> Made'[r]]
    BY DEF Made
  <2>2. [Made EXCEPT ![s][k] = o]
          = [r \in Sources |-> IF r = s THEN [Made[s] EXCEPT ![k] = o] ELSE Made[r]]
    BY <1>1 DEF Made, Alive
  <2> QED BY <1>7, <2>1, <2>2
<1> QED BY <1>1, <1>2, <1>3, <1>4, <1>8 DEF Memo!Compile

(* And what a thread is handed is its source's. *)
LEMMA LeaveMemo ==
  ASSUME IInv, NEW t \in Threads, Leave(t)
  PROVE  Memo!Answer(t, job[t].source, job[t].key)
<1> USE CacheAssumption DEF IInv, Leave, objects
<1>1. job[t].source \in Alive /\ job[t].key \in Keys /\ Slot(t) = addr[job[t].source]
  BY DEF Working, Slot, Alive
<1>2. Made[job[t].source] = table[Slot(t)].variants
  BY <1>1 DEF Made, Alive
<1>3. table[Slot(t)].variants[job[t].key] # None
  BY DEF Looked
<1>4. Alive' = Alive /\ Made' = Made
  BY DEF Alive, Made, NoVariants
<1> QED BY <1>1, <1>2, <1>3, <1>4 DEF Memo!Answer

(* Every step is one of SpecMemo's, or none of its business. *)
LEMMA NextMemo == IInv /\ [Next]_vars => [Memo!Next]_(Memo!vars)
<1> SUFFICES ASSUME IInv, [Next]_vars PROVE Memo!Next \/ UNCHANGED Memo!vars
  OBVIOUS
<1>1. ASSUME NEW s \in Sources, Create(s) PROVE Memo!Next
  BY <1>1, CreateMemo DEF Memo!Next
<1>2. ASSUME NEW t \in Threads, NEW s \in Sources, Drop(t, s) PROVE Memo!Next
  BY <1>2, DropMemo DEF Memo!Next
<1>3. ASSUME NEW t \in Threads, Compile(t) PROVE Memo!Next
  <2>1. job[t].source \in Sources /\ job[t].key \in Keys
    BY <1>3 DEF Compile, IInv, Working
  <2> QED BY <1>3, <2>1, CompileMemo DEF Memo!Next
<1>4. ASSUME NEW t \in Threads, Leave(t) PROVE Memo!Next
  <2>1. job[t].source \in Sources /\ job[t].key \in Keys
    BY <1>4 DEF Leave, IInv, Working
  <2> QED BY <1>4, <2>1, LeaveMemo DEF Memo!Next
<1>5. ASSUME NEW t \in Threads,
             Acquire(t) \/ CompileRaises(t) \/ \E s \in Sources, k \in Keys : Request(t, s, k)
      PROVE  UNCHANGED Memo!vars
  BY <1>5 DEF Acquire, CompileRaises, Request, objects, Alive, Made, NoVariants, Memo!vars
<1>6. UNCHANGED vars => UNCHANGED Memo!vars
  BY DEF vars, Alive, Made, NoVariants, Memo!vars
<1> QED BY <1>1, <1>2, <1>3, <1>4, <1>5, <1>6, CallbackMemo, LookMemo DEF Next, Work

(* The cache, whatever lives at which address and whoever collects it when *)
(* (a lock the callbacks never take, entries keyed by id(source)), is a    *)
(* memo: one object to a variant of a living source, handed to all.        *)
THEOREM CacheIsAMemo == Spec => MemoSpec
<1> QED BY InitIInv, NextIInv, InitMemo, NextMemo, PTL DEF Spec, MemoSpec, Memo!Spec
=============================================================================
