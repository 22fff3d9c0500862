--------------------------- MODULE InputAuthors_proofs ---------------------------
(***************************************************************************)
(* What the authors of a call said, for any names, declarations and        *)
(* speakers: kept, kept apart from the client's, and never one author's    *)
(* for another's.                                                          *)
(***************************************************************************)
EXTENDS InputRouting_proofs

(* The first of some names is one of them: their ranks have a minimum.     *)
LEMMA FirstIsOne ==
  ASSUME NEW set \in SUBSET Names, set # {} PROVE First(set) \in set
<1> DEFINE ranks == {Rank[n] : n \in set}
<1>1. \A n \in set : Rank[n] \in Nat
  BY RoutingAssumption, FS_CardinalityType
<1>2. ranks \subseteq Nat /\ ranks # {}
  BY <1>1
<1>3. PICK r \in ranks : \A q \in ranks : <<q, r>> \notin OpToRel(<, Nat)
  <2> HIDE DEF ranks
  <2> QED BY <1>2, WFMin, NatLessThanWellFounded
<1>4. \A q \in ranks : r <= q
  <2> HIDE DEF ranks
  <2> TAKE q \in ranks
  <2>1. q \in Nat /\ r \in Nat /\ <<q, r>> \in Nat \X Nat
    BY <1>2
  <2>2. ~ (<<q, r>>[1] < <<q, r>>[2])
    BY <1>3, <2>1 DEF OpToRel
  <2> QED BY <2>1, <2>2
<1>5. PICK n \in set : r = Rank[n]
  BY <1>3
<1>6. \A m \in set : Rank[n] <= Rank[m]
  BY <1>4, <1>5
<1> QED BY <1>6 DEF First

(* A source's wire name is a field of that source.                         *)
LEMMA WireIsAField ==
  ASSUME TypeOK, NEW s \in Renamed PROVE Wire(s) \in Fields /\ decl.source[Wire(s)] = s
<1>1. s \in Names /\ Sourced(s) # {}
  BY DEF Renamed
<1>2. Wire(s) \in Sourced(s)
  BY <1>1, SourcedType, FirstIsOne DEF Wire
<1> QED BY <1>2 DEF Sourced

(* How an author's keys become arguments: a key's own, or its source's.    *)
LEMMA KeyOfIs ==
  ASSUME TypeOK, NEW keys \in SUBSET Names, NEW a \in Names
  PROVE  /\ a \in Outright(keys) => KeyOf(keys)[a] = a
         /\ a \in Claimed(keys) \ Outright(keys) =>
               /\ a \in Fields /\ a \in CallerNames \ keys
               /\ KeyOf(keys)[a] = decl.source[a] /\ decl.source[a] \in BySource(keys)
               /\ Wire(decl.source[a]) = a
         /\ a \notin Claimed(keys) => KeyOf(keys)[a] = None
<1>1. a \in Outright(keys) => KeyOf(keys)[a] = a
  BY DEF KeyOf
<1>2. ASSUME a \in Claimed(keys) \ Outright(keys)
      PROVE  /\ a \in Fields /\ a \in CallerNames \ keys
             /\ KeyOf(keys)[a] = decl.source[a] /\ decl.source[a] \in BySource(keys)
             /\ Wire(decl.source[a]) = a
  <2> DEFINE s == CHOOSE s \in BySource(keys) : Wire(s) = a
  <2>1. \E k \in BySource(keys) : Wire(k) = a
    BY <1>2 DEF Claimed
  <2>2. s \in BySource(keys) /\ Wire(s) = a
    BY <2>1
  <2>3. KeyOf(keys)[a] = s
    BY <1>2 DEF KeyOf
  <2> HIDE DEF s
  <2>4. s \in Renamed /\ a \in CallerNames \ keys
    BY <2>2 DEF BySource
  <2>5. a \in Fields /\ decl.source[a] = s
    BY <2>2, <2>4, WireIsAField
  <2> QED BY <2>2, <2>3, <2>4, <2>5
<1>3. a \notin Claimed(keys) => KeyOf(keys)[a] = None
  BY DEF KeyOf, Claimed
<1> QED BY <1>1, <1>2, <1>3

(* A declaration's names stand for the whole call, by either name.         *)
LEMMA StandingToo ==
  ASSUME UNCHANGED call
  PROVE  /\ decl' = decl /\ arrival' = arrival /\ request' = request
         /\ \A role : Having(role)' = Having(role)
         /\ Fields' = Fields /\ Owned' = Owned /\ LookupReads' = LookupReads
         /\ Spreads' = Spreads /\ ServiceReads' = ServiceReads /\ CallerNames' = CallerNames
         /\ Renamed' = Renamed /\ \A k : Plain(k)' = Plain(k) /\ Sourced(k)' = Sourced(k)
<1>1. /\ decl' = decl /\ arrival' = arrival /\ request' = request
      /\ \A role : Having(role)' = Having(role)
      /\ Fields' = Fields /\ Owned' = Owned /\ LookupReads' = LookupReads
      /\ Spreads' = Spreads /\ ServiceReads' = ServiceReads /\ CallerNames' = CallerNames
  BY Standing DEF call
<1>2. \A k : Plain(k)' = Plain(k) /\ Sourced(k)' = Sourced(k)
  BY <1>1 DEF Plain, Sourced
<1>3. Renamed' = Renamed
  BY <1>2 DEF Renamed
<1> QED BY <1>1, <1>2, <1>3

-----------------------------------------------------------------------------
(* What each action does, name by name.                                    *)

LEMMA ArgumentsEffect ==
  ASSUME IInv, EdgeArguments
  PROVE  /\ stage = "arguments" /\ stage' = "author" /\ UNCHANGED call
         /\ \A n \in Names : sent'[n] = arguments'[n] /\ sent'[n] \in {"client", "route", "query", None}
         /\ UNCHANGED <<named, authored, extra, seeds, seat, held, body, data, values, pool>>
<1> USE DEF EdgeArguments
<1>1. \A n \in Names : FromBody[n] \in {"client", None}
  BY Somebody DEF FromBody
<1>2. \A n \in Names : Routed[n] \in {"client", "route", None}
  BY <1>1, Somebody DEF Routed
<1>3. \A n \in Names : Queried[n] \in {"client", "route", "query", None}
  BY <1>2, Somebody DEF Queried
<1>4. \A n \in Names : CallerArguments[n] \in {"client", "route", "query", None}
  BY <1>3, Somebody DEF CallerArguments
<1> QED BY <1>4 DEF validated

Routes(heard, provided) ==
    /\ heard \cap (Having("seed") \cup HookOwned) = {} /\ provided \cap Having("seed") = {}
    /\ stage = "author" /\ stage' = "seeds" /\ UNCHANGED call
    /\ named'.hook = heard /\ named'.provider = provided
    /\ \A n \in Names :
          /\ arguments'[n] = IF n \in Claimed(provided) THEN "provider"
                             ELSE IF n \in Claimed(heard) THEN "hook"
                             ELSE IF n \in Owned \ ValidatorFields THEN None ELSE arguments[n]
          /\ authored'[n] = IF KeyOf(provided)[n] # None THEN KeyOf(provided)[n]
                            ELSE KeyOf(heard)[n]
          /\ extra'[n] = IF n \in Rest(provided) THEN "provider"
                         ELSE IF n \in Rest(heard) THEN "hook" ELSE None
    /\ UNCHANGED <<sent, seeds, seat, held, body, data, values, pool>>

LEMMA RouteEffect ==
  ASSUME IInv, RouteAuthorValues
  PROVE  \E heard \in SUBSET Names, provided \in SUBSET Names : Routes(heard, provided)
<1>1. PICK hooks \in SUBSET Names, provided \in SUBSET Names : RouteAuthorValues!(hooks, provided)
  BY DEF RouteAuthorValues, Speaks, Answers, Owned, Having, In
<1> DEFINE heard == hooks \ (Having("seed") \cup HookOwned)
<1>2. named'.hook = heard /\ named'.provider = provided
  BY <1>1 DEF IInv, TypeOK
<1>3. /\ arguments' = Put(Put(Drop(arguments, Owned \ ValidatorFields), Claimed(heard), "hook"),
                          Claimed(provided), "provider")
      /\ authored' = Over(KeyOf(provided), KeyOf(heard))
      /\ extra' = Put(Put(Nothing, Rest(heard), "hook"), Rest(provided), "provider")
  BY <1>1
<1>4. /\ heard \in SUBSET Names /\ heard \cap (Having("seed") \cup HookOwned) = {}
      /\ provided \cap Having("seed") = {}
      /\ stage = "author" /\ stage' = "seeds" /\ UNCHANGED call
      /\ UNCHANGED <<sent, seeds, seat, held, body, data, values, pool>>
  BY <1>1 DEF validated
<1> HIDE DEF heard
<1>5. \A n \in Names :
         /\ arguments'[n] = IF n \in Claimed(provided) THEN "provider"
                            ELSE IF n \in Claimed(heard) THEN "hook"
                            ELSE IF n \in Owned \ ValidatorFields THEN None ELSE arguments[n]
         /\ authored'[n] = IF KeyOf(provided)[n] # None THEN KeyOf(provided)[n] ELSE KeyOf(heard)[n]
         /\ extra'[n] = IF n \in Rest(provided) THEN "provider"
                        ELSE IF n \in Rest(heard) THEN "hook" ELSE None
  BY <1>3, Somebody
<1> QED BY <1>2, <1>4, <1>5 DEF Routes

LEMMA SeedingEffect ==
  ASSUME IInv, SeedHiddenCaptures
  PROVE  /\ stage = "seeds" /\ stage' = "seat" /\ UNCHANGED call
         /\ \A n \in Names :
               /\ seeds'[n] = IF n \in Having("seed") THEN "seed"
                              ELSE IF n \notin Captured \ CallerNames THEN None
                              ELSE IF Has(extra, n) THEN extra[n] ELSE url.route[n]
               /\ extra'[n] = IF n \in Captured \ CallerNames THEN None ELSE extra[n]
         /\ UNCHANGED <<arguments, sent, named, authored, seat, held, body, data, values, pool>>
<1> USE DEF SeedHiddenCaptures, Seeding
<1>1. \A n \in Names : extra'[n] = IF n \in Captured \ CallerNames THEN None ELSE extra[n]
  <2>1. \A n \in Names : n \in Keys(extra) <=> extra[n] # None
    BY DEF Keys, Has
  <2> QED BY <2>1, Somebody
<1> QED BY <1>1 DEF validated, Keys, Has

LEMMA SeatEffect ==
  ASSUME IInv, SeatAuthorValues
  PROVE  /\ stage = "seat" /\ stage' = "lookup" /\ UNCHANGED call
         /\ \A n \in Names :
               /\ seat'[n] = IF LookupKeysSent[n] # None THEN LookupKeysSent[n] ELSE extra[n]
               /\ LookupKeysSent[n] = IF ~Spreads \/ n \notin LookupReads THEN None
                                      ELSE IF Has(authored, n) THEN arguments[n]
                                      ELSE IF n \in request.body THEN "client" ELSE None
               /\ extra'[n] = None
         /\ UNCHANGED <<arguments, sent, named, authored, seeds, held, body, data, values, pool>>
  BY Somebody DEF SeatAuthorValues, LookupKeysSent, validated

Inputs(given) ==
    /\ stage = "input" /\ UNCHANGED call
    /\ stage' = IF Fields = {} THEN "kernel" ELSE "validate"
    /\ named'.hook = named.hook /\ named'.provider = named.provider
    /\ \A n \in Names :
          /\ arguments'[n] = IF n \in given THEN "input" ELSE arguments[n]
          /\ held'[n] = IF Fields = {} \/ n \notin Keys(authored) \cup given THEN None
                        ELSE arguments'[n]
          /\ body'[n] = IF Fields = {} THEN None
                        ELSE IF n \in Fields /\ arguments'[n] # None /\ arguments'[n] # sent[n]
                             THEN arguments'[n]
                        ELSE IF n \in Fields \cap request.body THEN "client" ELSE None
    /\ UNCHANGED <<sent, authored, extra, seeds, seat, data, values, pool>>

LEMMA InputEffect ==
  ASSUME IInv, ServerInput PROVE \E given \in SUBSET Names : Inputs(given)
<1>1. PICK given \in SUBSET Names : ServerInput!(given)
  BY DEF ServerInput, Speaks
<1> DEFINE args == Put(arguments, given, "input")
<1>2. \A n \in Names : arguments'[n] = args[n] /\ args[n] = IF n \in given THEN "input" ELSE arguments[n]
  BY <1>1, Somebody
<1>3. /\ held' = IF Fields = {} THEN Nothing
                 ELSE [n \in Names |-> IF n \in Keys(authored) \cup given THEN args[n] ELSE None]
      /\ body' = IF Fields = {} THEN Nothing
                 ELSE [f \in Names |-> IF f \in Written(args) THEN args[f]
                                       ELSE IF f \in Fields \cap request.body
                                            THEN "client" ELSE None]
  BY <1>1
<1>4. \A n \in Names : n \in Written(args) <=> n \in Fields /\ args[n] # None /\ args[n] # sent[n]
  BY DEF Written, Has
<1>5. /\ stage = "input" /\ UNCHANGED call
      /\ stage' = IF Fields = {} THEN "kernel" ELSE "validate"
      /\ named'.hook = named.hook /\ named'.provider = named.provider
      /\ UNCHANGED <<sent, authored, extra, seeds, seat, data, values, pool>>
  BY <1>1 DEF IInv, TypeOK
<1> HIDE DEF args
<1>6. \A n \in Names :
         /\ held'[n] = IF Fields = {} \/ n \notin Keys(authored) \cup given THEN None ELSE arguments'[n]
         /\ body'[n] = IF Fields = {} THEN None
                       ELSE IF n \in Fields /\ arguments'[n] # None /\ arguments'[n] # sent[n]
                            THEN arguments'[n]
                       ELSE IF n \in Fields \cap request.body THEN "client" ELSE None
  BY <1>2, <1>3, <1>4, Somebody
<1> QED BY <1>2, <1>5, <1>6 DEF Inputs

LEMMA PoolEffect ==
  ASSUME IInv, FillPool
  PROVE  /\ stage = "kernel" /\ stage' = "served" /\ UNCHANGED call
         /\ \A n \in Names :
               pool'[n] = IF Has(seeds, n) THEN seeds[n]
                          ELSE IF Has(seat, n) THEN seat[n]
                          ELSE IF Has(values, n) THEN values[n]
                          ELSE IF n \in ServiceReads THEN arguments[n] ELSE None
         /\ UNCHANGED <<arguments, sent, named, authored, extra, seeds, seat, held, body, data, values>>
  BY DEF FillPool, validated

(* The lookup changes what it was handed alone, and a refused call nothing.*)
Quiet == ResolveTarget \/ RefuseSeedNamed \/ RefuseSeated \/ UNCHANGED vars

LEMMA QuietEffect ==
  ASSUME Quiet
  PROVE  /\ UNCHANGED call
         /\ (stage' = stage \/ (stage = "lookup" /\ stage' = "input") \/ stage' = "refused")
         /\ UNCHANGED <<arguments, sent, named, authored, extra, seeds, seat, held, body, data, values,
                        pool>>
<1>1. CASE ResolveTarget
  BY <1>1 DEF ResolveTarget, call, validated
<1>2. CASE RefuseSeedNamed
  BY <1>2 DEF RefuseSeedNamed, call, validated
<1>3. CASE RefuseSeated
  BY <1>3 DEF RefuseSeated, call, validated
<1>4. CASE UNCHANGED vars
  BY <1>4 DEF vars, call
<1> QED BY <1>1, <1>2, <1>3, <1>4 DEF Quiet

(* A value handed under a key is that of a field the server filled, known  *)
(* by the key as its source or as its author named it.                     *)
HandedAs(k) == {f \in Server : decl.source[f] = k \/ authored[f] = k}

LEMMA HandedIs ==
  ASSUME TypeOK, NEW k \in Names
  PROVE  /\ HandedAs(k) = {} => Handed[k] = None
         /\ HandedAs(k) # {} => \E f \in HandedAs(k) : Handed[k] = held[f]
<1>1. HandedAs(k) # {} => Last(HandedAs(k)) \in HandedAs(k)
  BY LastIsOne DEF HandedAs, Server, Fields, Having, In
<1>2. Handed[k] = IF HandedAs(k) = {} THEN None ELSE held[Last(HandedAs(k))]
  BY DEF Handed, HandedAs
<1> QED BY <1>1, <1>2

LEMMA ValidateEffect ==
  ASSUME IInv, Validate
  PROVE  /\ stage = "validate" /\ stage' = "kernel" /\ UNCHANGED call
         /\ UNCHANGED <<arguments, sent, named, authored, extra, seeds, seat, held, body, pool>>
         /\ \A s \in Names :
               \/ data'[s] = None
               \/ /\ data'[s] = "client" /\ (s \in ServiceReads => s \in Renamed)
                  /\ Sourced(s) \cap Server = {}
               \/ \E f \in Sourced(s) \cap Server : data'[s] = held[f]
               \/ Sourced(s) \cap Server = {} /\ \E f \in Sourced(s) : data'[s] = body[f]
         /\ \A k \in Names :
               values'[k] = IF Has(seeds, k) \/ (k \in Unowned /\ Handed[k] = None) THEN None
                            ELSE IF Handed[k] # None THEN Handed[k] ELSE data'[k]
<1>1. PICK change \in Rewritten : Validate!(change)
  BY DEF Validate
<1> DEFINE kept == Validated(change[1], change[2])
<1>2. \A s \in Names : s \in ServiceReads => s \notin change[1]
  BY DEF Rewritten
<1>3. \A s \in Names :
         \/ kept[s] = None
         \/ kept[s] = "client" /\ s \notin ServiceReads
         \/ \E f \in Sourced(s) : kept[s] = body[f]
  <2> TAKE s \in Names
  <2> DEFINE filled == {f \in Sourced(s) : Has(body, f)}
  <2>1. filled # {} => Last(filled) \in Sourced(s)
    BY SourcedType, LastIsOne DEF IInv
  <2>2. kept[s] = IF s \in change[2] THEN None ELSE IF s \in change[1] THEN "client"
                  ELSE IF filled = {} THEN None ELSE body[Last(filled)]
    BY DEF Validated
  <2> HIDE DEF filled, kept
  <2> QED BY <1>2, <2>1, <2>2
<1> HIDE DEF kept
<1>4. \A s \in Names :
         /\ Sourced(s) \cap Server # {} => Last(Sourced(s) \cap Server) \in Sourced(s) \cap Server
         /\ data'[s] = IF kept[s] # None /\ Sourced(s) \cap Server # {}
                       THEN held[Last(Sourced(s) \cap Server)] ELSE kept[s]
  <2>1. data' = LaidBack(kept)
    BY <1>1 DEF kept
  <2> QED BY <2>1, SourcedType, LastIsOne DEF IInv, LaidBack, Has
<1>5. \A s \in Names :
         \/ data'[s] = None
         \/ /\ data'[s] = "client" /\ (s \in ServiceReads => s \in Renamed)
            /\ Sourced(s) \cap Server = {}
         \/ \E f \in Sourced(s) \cap Server : data'[s] = held[f]
         \/ Sourced(s) \cap Server = {} /\ \E f \in Sourced(s) : data'[s] = body[f]
  BY <1>3, <1>4
<1>6. \A k \in Names : k \in Unowned <=> k \in Unowned /\ Handed[k] = None
  BY DEF Unowned, Keys, Has
<1>7. \A k \in Names :
         values'[k] = IF Has(seeds, k) \/ (k \in Unowned /\ Handed[k] = None) THEN None
                      ELSE IF Handed[k] # None THEN Handed[k] ELSE data'[k]
  <2>1. values' = Drop(Over(Handed, data'), Keys(seeds) \cup Unowned)
    BY <1>1
  <2>2. \A k \in Names : k \in Keys(seeds) <=> Has(seeds, k)
    BY DEF Keys
  <2> QED BY <1>6, <2>1, <2>2, Somebody
<1> QED BY <1>1, <1>5, <1>7

-----------------------------------------------------------------------------
(* What the authors' values rest on: the caller's arguments are no         *)
(* author's, an author's argument stays one's, and what remembers the key  *)
(* it was named by holds the argument's own name or its field's source.    *)
Early == {"arguments", "author"}
Callers == {"client", "route", "query", None}
Spoken == {"hook", "provider", "input"}

Kept ==
    /\ stage \in Early => \A n \in Names :
           ~Has(authored, n) /\ ~Has(extra, n) /\ arguments[n] \in Callers
    /\ stage = "author" => \A n \in Names : arguments[n] = sent[n]
    /\ stage \in Early \cup {"seeds"} => \A n \in Names : ~Has(seeds, n)
    /\ stage \in Early \cup {"seeds", "seat"} => \A n \in Names : ~Has(seat, n)
    /\ \A n \in Names : sent[n] \in Callers
    /\ \A n \in Names : Has(authored, n) =>
           /\ arguments[n] \in Spoken
           /\ authored[n] = n \/ (n \in Fields /\ authored[n] = decl.source[n])

LEMMA InitKept == Init => Kept
  BY Somebody DEF Init, Kept, Has, Early, Callers

LEMMA NextKept == ASSUME IInv, Kept, [Next]_vars PROVE Kept'
<1>1. CASE EdgeArguments
  <2>1. \A n \in Names : ~Has(authored, n) /\ ~Has(extra, n) /\ ~Has(seeds, n) /\ ~Has(seat, n)
    BY <1>1, ArgumentsEffect DEF Kept, Early
  <2> QED BY <1>1, <2>1, ArgumentsEffect DEF Kept, Early, Callers, Has
<1>2. CASE RouteAuthorValues
  <2>1. PICK heard \in SUBSET Names, provided \in SUBSET Names : Routes(heard, provided)
    BY <1>2, RouteEffect
  <2>2. \A keys \in SUBSET Names : \A n \in Names :
           /\ KeyOf(keys)[n] # None => n \in Claimed(keys)
           /\ KeyOf(keys)[n] # None =>
                 KeyOf(keys)[n] = n \/ (n \in Fields /\ KeyOf(keys)[n] = decl.source[n])
    BY KeyOfIs DEF IInv, Claimed
  <2>3. decl' = decl /\ Fields' = Fields
    BY <2>1, StandingToo DEF Routes
  <2>4. \A n \in Names : Has(authored', n) =>
           /\ arguments'[n] \in Spoken
           /\ authored'[n] = n \/ (n \in Fields /\ authored'[n] = decl.source[n])
    BY <2>1, <2>2 DEF Routes, Has, Spoken
  <2> QED BY <2>1, <2>3, <2>4 DEF Routes, Kept, Early, Has
<1>3. CASE SeedHiddenCaptures
  BY <1>3, SeedingEffect, StandingToo DEF Kept, Early, Has
<1>4. CASE SeatAuthorValues
  BY <1>4, SeatEffect, StandingToo DEF Kept, Early, Has
<1>5. CASE ServerInput
  <2>1. PICK given \in SUBSET Names : Inputs(given)
    BY <1>5, InputEffect
  <2>2. decl' = decl /\ Fields' = Fields
    BY <2>1, StandingToo DEF Inputs
  <2> QED BY <2>1, <2>2 DEF Inputs, Kept, Early, Has, Spoken
<1>6. CASE Validate
  BY <1>6, ValidateEffect, StandingToo DEF Kept, Early, Has
<1>7. CASE FillPool
  BY <1>7, PoolEffect, StandingToo DEF Kept, Early, Has
<1>8. CASE Quiet
  BY <1>8, QuietEffect, StandingToo DEF Kept, Early, Has
<1> QED BY <1>1, <1>2, <1>3, <1>4, <1>5, <1>6, <1>7, <1>8 DEF Next, Quiet

-----------------------------------------------------------------------------
(* A name stands in one of the kernel's channels: an author's value left   *)
(* over names no seed and no argument, a seed of the call's own is neither *)
(* an argument nor in the seat, and a seed's name is seated only where a   *)
(* spreading caller sent it.                                               *)
Apart ==
    /\ \A n \in Names : Has(extra, n) => n \notin Having("seed") \cup CallerNames
    /\ \A n \in Names : Has(authored, n) => n \in CallerNames
    /\ Spreads => \A n \in Names : Has(authored, n) => n \notin Having("seed")
    /\ \A n \in Names : Has(seeds, n) /\ n \notin Having("seed") =>
           n \notin CallerNames /\ ~Has(extra, n)
    /\ \A n \in Names : Has(seat, n) /\ Has(seeds, n) =>
           Spreads /\ n \in Having("seed") \cap LookupReads \cap request.body

LEMMA InitApart == Init => Apart
  BY Somebody DEF Init, Apart, Has

LEMMA NextApart == ASSUME IInv, Kept, Apart, [Next]_vars PROVE Apart'
<1>1. CASE EdgeArguments
  BY <1>1, ArgumentsEffect, StandingToo DEF Apart, Has
<1>2. CASE RouteAuthorValues
  <2>1. PICK heard \in SUBSET Names, provided \in SUBSET Names : Routes(heard, provided)
    BY <1>2, RouteEffect
  <2>2. UNCHANGED request /\ Spreads' = Spreads /\ CallerNames' = CallerNames /\ LookupReads' = LookupReads
        /\ Having("seed")' = Having("seed")
    BY <2>1, StandingToo DEF Routes
  <2>3. \A keys \in SUBSET Names : Rest(keys) \cap CallerNames = {}
    BY DEF Rest, Outright
  <2>4. Rest(heard) \subseteq heard /\ Rest(provided) \subseteq provided
    BY DEF Rest
  <2>5. \A keys \in SUBSET Names : \A n \in Names : KeyOf(keys)[n] # None =>
           n \in CallerNames /\ (Fields = {} => n \in keys)
    BY KeyOfIs DEF IInv, Outright
  <2>6. \A n \in Names : ~Has(seeds, n) /\ ~Has(seat, n)
    BY <2>1 DEF Routes, Kept, Early
  <2>7. \A n \in Names : Has(extra', n) => n \notin Having("seed") \cup CallerNames
    BY <2>1, <2>3, <2>4 DEF Routes, Has
  <2>8. \A n \in Names : Has(authored', n) => n \in CallerNames
    BY <2>1, <2>5 DEF Routes, Has
  <2>9. Spreads => \A n \in Names : Has(authored', n) => n \notin Having("seed")
    BY <2>1, <2>5 DEF Routes, Has, Spreads
  <2>10. \A n \in Names : ~Has(seeds', n) /\ ~Has(seat', n)
    BY <2>1, <2>6 DEF Routes, Has
  <2> QED BY <2>2, <2>7, <2>8, <2>9, <2>10 DEF Apart, Has
<1>3. CASE SeedHiddenCaptures
  <2>1. \A n \in Names : ~Has(seat', n)
    BY <1>3, SeedingEffect DEF Kept, Early, Has
  <2> QED BY <1>3, <2>1, SeedingEffect, StandingToo DEF Apart, Has
<1>4. CASE SeatAuthorValues
  <2>1. /\ \A n \in Names : seat'[n] = IF LookupKeysSent[n] # None THEN LookupKeysSent[n] ELSE extra[n]
        /\ \A n \in Names : LookupKeysSent[n] # None =>
               Spreads /\ n \in LookupReads /\ (Has(authored, n) \/ n \in request.body)
    BY <1>4, SeatEffect
  <2>2. LookupReads \subseteq CallerNames
    BY DEF CallerNames
  <2>3. \A n \in Names : Has(seat', n) /\ Has(seeds, n) =>
           Spreads /\ n \in Having("seed") \cap LookupReads \cap request.body
    BY <2>1, <2>2 DEF Apart, Has
  <2> QED BY <1>4, <2>3, SeatEffect, StandingToo DEF Apart, Has
<1>5. CASE ServerInput
  <2>1. PICK given \in SUBSET Names : Inputs(given)
    BY <1>5, InputEffect
  <2> QED BY <2>1, StandingToo DEF Inputs, Apart, Has
<1>6. CASE Validate
  BY <1>6, ValidateEffect, StandingToo DEF Apart, Has
<1>7. CASE FillPool
  BY <1>7, PoolEffect, StandingToo DEF Apart, Has
<1>8. CASE Quiet
  BY <1>8, QuietEffect, StandingToo DEF Apart, Has
<1> QED BY <1>1, <1>2, <1>3, <1>4, <1>5, <1>6, <1>7, <1>8 DEF Next, Quiet

(* The kernel never refuses the edge's own seat or seeds, but the value a  *)
(* spreading caller sent for a seed's name (_lookup_keys_sent).            *)
THEOREM KernelHolds == Spec => []KernelTakesIt
<1>1. ASSUME Apart PROVE KernelTakesIt
  BY <1>1 DEF Apart, KernelTakesIt, Keys
<1>2. Init => IInv /\ Kept /\ Apart
  BY InitIInv, InitKept, InitApart
<1>3. IInv /\ Kept /\ Apart /\ [Next]_vars => (IInv /\ Kept /\ Apart)'
  BY NextIInv, NextKept, NextApart
<1> QED BY <1>1, <1>2, <1>3, PTL DEF Spec

-----------------------------------------------------------------------------
(* A hook's value is under no name of a key the provider owns.             *)
KnownBy(f, n) == f = n \/ (f \in Fields /\ decl.source[f] = n)

Unhooked ==
    /\ \A n \in Owned, f \in Names : Plain(n) /\ KnownBy(f, n) =>
           arguments[f] # "hook" /\ held[f] # "hook" /\ body[f] # "hook"
    /\ \A n \in Owned : extra[n] # "hook" /\ seeds[n] # "hook" /\ seat[n] # "hook"
    /\ \A n \in Owned : Plain(n) => values[n] # "hook" /\ pool[n] # "hook"

LEMMA OwnedNames == ASSUME TypeOK PROVE Owned \subseteq Names /\ Owned \cap Captured = {}
  BY DeclarationType DEF Compiles, Owned, Having, In, Captured, HiddenCaptures

LEMMA SameKnown == ASSUME UNCHANGED call PROVE \A f, n : KnownBy(f, n)' = KnownBy(f, n)
  BY StandingToo DEF KnownBy

(* What a hook names, by either name, the provider does not own.           *)
LEMMA HookNamesNoOwned ==
  ASSUME TypeOK, NEW heard \in SUBSET Names, heard \cap HookOwned = {},
         NEW n \in Owned, NEW f \in Names, Plain(n), KnownBy(f, n)
  PROVE  f \notin Claimed(heard)
<1> SUFFICES ASSUME f \in Claimed(heard) PROVE FALSE
  OBVIOUS
<1>1. n \in Names /\ n \notin heard
  BY OwnedNames DEF HookOwned
<1>2. CASE f \in Outright(heard)
  <2>1. f \in heard
    BY <1>2 DEF Outright
  <2>2. f \in Fields /\ decl.source[f] = n
    BY <1>1, <2>1 DEF KnownBy
  <2>3. n \in Renamed
    BY <1>1, <2>2 DEF Renamed, Sourced
  <2>4. Wire(n) = f
    BY <2>2, <2>3, WireIsAField DEF Plain
  <2> QED BY <2>1, <2>3, <2>4 DEF HookOwned
<1>3. CASE f \notin Outright(heard)
  <2>1. f \in Fields /\ decl.source[f] \in BySource(heard) /\ Wire(decl.source[f]) = f
    BY <1>3, KeyOfIs
  <2>2. decl.source[f] \in heard /\ decl.source[f] \in Renamed
    BY <2>1 DEF BySource
  <2>3. f = n
    BY <1>1, <2>2 DEF KnownBy
  <2> QED BY <2>1, <2>2, <2>3 DEF HookOwned
<1> QED BY <1>2, <1>3

LEMMA InitUnhooked == Init => Unhooked
<1> SUFFICES ASSUME Init PROVE Unhooked
  OBVIOUS
<1>1. /\ Owned \subseteq Names /\ None # "hook"
      /\ \A n \in Names : /\ arguments[n] = None /\ held[n] = None /\ body[n] = None
                          /\ extra[n] = None /\ seeds[n] = None /\ seat[n] = None
                          /\ values[n] = None /\ pool[n] = None
  BY InitType, OwnedNames, Somebody, RoutingAssumption DEF Init
<1> QED BY <1>1 DEF Unhooked

LEMMA NextUnhooked == ASSUME IInv, Kept, Unhooked, [Next]_vars PROVE Unhooked'
<1> USE DEF IInv
<1>a. Owned \subseteq Names /\ Owned \cap Captured = {} /\ Owned \cap LookupReads = {} /\ None # "hook"
  BY OwnedNames, Compiled, RoutingAssumption
<1>b. UNCHANGED call =>
         /\ Owned' = Owned /\ \A n : Plain(n)' = Plain(n)
         /\ \A f, n : KnownBy(f, n)' = KnownBy(f, n)
  BY StandingToo, SameKnown
<1>1. CASE EdgeArguments
  <2>1. /\ UNCHANGED <<call, extra, seeds, seat, held, body, values, pool>>
        /\ \A n \in Names : arguments'[n] # "hook"
    BY <1>1, <1>a, ArgumentsEffect
  <2> QED BY <1>b, <2>1 DEF Unhooked
<1>2. CASE RouteAuthorValues
  <2>1. PICK heard \in SUBSET Names, provided \in SUBSET Names : Routes(heard, provided)
    BY <1>2, RouteEffect
  <2>2. \A n \in Names : arguments[n] # "hook"
    BY <1>a, <2>1 DEF Routes, Kept, Early, Callers
  <2>3. ASSUME NEW n \in Owned, NEW f \in Names, Plain(n), KnownBy(f, n) PROVE arguments'[f] # "hook"
    <3>1. f \notin Claimed(heard)
      BY <2>1, <2>3, HookNamesNoOwned DEF Routes
    <3> QED BY <1>a, <2>1, <2>2, <3>1 DEF Routes
  <2>4. \A n \in Owned : extra'[n] # "hook"
    <3>1. \A n \in Owned : n \notin Rest(heard)
      BY <2>1 DEF Routes, Rest, HookOwned
    <3> QED BY <1>a, <2>1, <3>1 DEF Routes
  <2>5. UNCHANGED <<call, seeds, seat, held, body, values, pool>>
    BY <2>1 DEF Routes
  <2> QED BY <1>b, <2>3, <2>4, <2>5 DEF Unhooked
<1>3. CASE SeedHiddenCaptures
  <2>1. UNCHANGED <<call, arguments, seat, held, body, values, pool>>
    BY <1>3, SeedingEffect
  <2>2. \A n \in Owned : extra'[n] # "hook" /\ seeds'[n] # "hook"
    BY <1>3, <1>a, SeedingEffect DEF Unhooked
  <2> QED BY <1>b, <2>1, <2>2 DEF Unhooked
<1>4. CASE SeatAuthorValues
  <2>1. UNCHANGED <<call, arguments, seeds, held, body, values, pool>>
    BY <1>4, SeatEffect
  <2>2. \A n \in Owned : extra'[n] # "hook" /\ seat'[n] # "hook"
    BY <1>4, <1>a, SeatEffect DEF Unhooked
  <2> QED BY <1>b, <2>1, <2>2 DEF Unhooked
<1>5. CASE ServerInput
  <2>1. PICK given \in SUBSET Names : Inputs(given)
    BY <1>5, InputEffect
  <2>2. UNCHANGED <<call, extra, seeds, seat, values, pool>>
    BY <2>1 DEF Inputs
  <2>3. ASSUME NEW n \in Owned, NEW f \in Names, Plain(n), KnownBy(f, n)
        PROVE  arguments'[f] # "hook" /\ held'[f] # "hook" /\ body'[f] # "hook"
    <3>1. arguments'[f] # "hook"
      BY <2>1, <2>3 DEF Unhooked, Inputs
    <3>2. held'[f] # "hook" /\ body'[f] # "hook"
      BY <1>a, <2>1, <3>1 DEF Inputs
    <3> QED BY <3>1, <3>2
  <2> QED BY <1>b, <2>2, <2>3 DEF Unhooked
<1>6. CASE Validate
  <2>1. UNCHANGED <<call, arguments, extra, seeds, seat, held, body, pool>>
    BY <1>6, ValidateEffect
  <2>2. ASSUME NEW n \in Owned, Plain(n) PROVE values'[n] # "hook"
    <3>1. n \in Names /\ n # None
      BY <1>a, RoutingAssumption
    <3>2. \A f \in Names : KnownBy(f, n) => held[f] # "hook" /\ body[f] # "hook"
      BY <2>2 DEF Unhooked
    <3>3. \A f \in HandedAs(n) : f \in Names /\ KnownBy(f, n)
      BY <3>1 DEF HandedAs, Server, KnownBy, Kept, Has, Fields, Having, In
    <3>4. Handed[n] # "hook"
      BY <1>a, <3>1, <3>2, <3>3, HandedIs
    <3>5. \A f \in Sourced(n) : f \in Names /\ KnownBy(f, n)
      BY <3>1, SourcedType DEF Sourced, KnownBy
    <3>6. data'[n] # "hook"
      BY <1>6, <1>a, <3>1, <3>2, <3>5, ValidateEffect
    <3> QED BY <1>6, <1>a, <3>1, <3>4, <3>6, ValidateEffect
  <2> QED BY <1>b, <2>1, <2>2 DEF Unhooked
<1>7. CASE FillPool
  <2>1. UNCHANGED <<call, arguments, extra, seeds, seat, held, body, values>>
    BY <1>7, PoolEffect
  <2>2. ASSUME NEW n \in Owned, Plain(n) PROVE pool'[n] # "hook"
    <3>1. n \in Names /\ KnownBy(n, n)
      BY <1>a DEF KnownBy
    <3>2. arguments[n] # "hook" /\ seeds[n] # "hook" /\ seat[n] # "hook" /\ values[n] # "hook"
      BY <2>2, <3>1 DEF Unhooked
    <3> QED BY <1>7, <1>a, <3>1, <3>2, PoolEffect
  <2> QED BY <1>b, <2>1, <2>2 DEF Unhooked
<1>8. CASE Quiet
  <2>1. UNCHANGED <<call, arguments, extra, seeds, seat, held, body, values, pool>>
    BY <1>8, QuietEffect
  <2> QED BY <1>b, <2>1 DEF Unhooked
<1> QED BY <1>1, <1>2, <1>3, <1>4, <1>5, <1>6, <1>7, <1>8 DEF Next, Quiet

(* A typed provider's key takes no hook's value, by whichever of its names *)
(* the hook gave it (_route_author_values).                                *)
THEOREM OwnedHolds == Spec => []OwnedIsTheProviders
<1>1. Unhooked => OwnedIsTheProviders
  BY DEF Unhooked, OwnedIsTheProviders
<1>2. Init => IInv /\ Kept /\ Unhooked
  BY InitIInv, InitKept, InitUnhooked
<1>3. IInv /\ Kept /\ Unhooked /\ [Next]_vars => (IInv /\ Kept /\ Unhooked)'
  BY NextIInv, NextKept, NextUnhooked
<1> QED BY <1>1, <1>2, <1>3, PTL DEF Spec

-----------------------------------------------------------------------------
(* A field the server put a value into is that value from the body on: the *)
(* value differs from the caller's own, so the edge writes it, and the     *)
(* serializer's pass is laid back over with it.                            *)
Bound == {"kernel", "served"}

ServersOwn ==
    /\ \A f \in Fields : Has(held, f) => body[f] = held[f]
    /\ \A f \in Fields : Has(held, f) /\ Plain(decl.source[f]) =>
           /\ stage \in Bound => data[decl.source[f]] \in {held[f], None}
           /\ stage \in Bound => values[decl.source[f]] = held[f] \/ Has(seeds, decl.source[f])
           /\ stage = "served" => \/ pool[decl.source[f]] = held[f]
                                  \/ Has(seat, decl.source[f]) \/ Has(seeds, decl.source[f])

LEMMA FieldNames == ASSUME TypeOK PROVE Fields \subseteq Names /\ \A f \in Fields : decl.source[f] \in Names
  BY DeclarationType DEF Fields, Having, In

LEMMA InitServersOwn == Init => ServersOwn
<1> SUFFICES ASSUME Init PROVE ServersOwn
  OBVIOUS
<1>1. \A f \in Fields : held[f] = None
  BY InitType, FieldNames, Somebody DEF Init
<1> QED BY <1>1 DEF ServersOwn, Has

LEMMA NextServersOwn == ASSUME IInv, Kept, ServersOwn, [Next]_vars PROVE ServersOwn'
<1> USE DEF IInv
<1>a. /\ Fields \subseteq Names /\ \A f \in Fields : decl.source[f] \in Names
      /\ None \notin Spoken /\ Callers \cap Spoken = {}
  BY FieldNames, RoutingAssumption DEF Spoken, Callers
<1>b. UNCHANGED call => decl' = decl /\ Fields' = Fields /\ \A n : Plain(n)' = Plain(n)
  BY StandingToo
<1>c. ASSUME UNCHANGED <<call, held, body, data, values>>, stage' \notin Bound PROVE ServersOwn'
  BY <1>b, <1>c DEF ServersOwn, Has, Bound
<1>1. CASE EdgeArguments
  BY <1>1, <1>c, ArgumentsEffect DEF Bound
<1>2. CASE RouteAuthorValues
  <2>1. PICK heard \in SUBSET Names, provided \in SUBSET Names : Routes(heard, provided)
    BY <1>2, RouteEffect
  <2> QED BY <1>c, <2>1 DEF Routes, Bound
<1>3. CASE SeedHiddenCaptures
  BY <1>3, <1>c, SeedingEffect DEF Bound
<1>4. CASE SeatAuthorValues
  BY <1>4, <1>c, SeatEffect DEF Bound
<1>5. CASE ServerInput
  <2>1. PICK given \in SUBSET Names : Inputs(given)
    BY <1>5, InputEffect
  <2>2. CASE Fields = {}
    <3>1. UNCHANGED call
      BY <2>1 DEF Inputs
    <3> QED BY <1>b, <2>2, <3>1 DEF ServersOwn
  <2>3. CASE Fields # {}
    <3>1. stage' \notin Bound /\ UNCHANGED call
      BY <2>1, <2>3 DEF Inputs, Bound
    <3>2. ASSUME NEW f \in Fields, Has(held', f) PROVE body'[f] = held'[f]
      <4>1. f \in Names /\ f \in Keys(authored) \cup given /\ held'[f] = arguments'[f]
        BY <1>a, <2>1, <2>3, <3>2 DEF Inputs, Has
      <4>2. arguments'[f] \in Spoken
        BY <2>1, <4>1 DEF Inputs, Kept, Keys, Spoken
      <4>3. arguments'[f] # None /\ arguments'[f] # sent[f]
        BY <1>a, <4>1, <4>2 DEF Kept
      <4> QED BY <2>1, <2>3, <4>1, <4>3 DEF Inputs
    <3> QED BY <1>b, <3>1, <3>2 DEF ServersOwn, Has, Bound
  <2> QED BY <2>2, <2>3
<1>6. CASE Validate
  <2>1. stage' = "kernel" /\ UNCHANGED <<call, held, body, seeds>>
    BY <1>6, ValidateEffect
  <2>2. ASSUME NEW f \in Fields, Has(held, f), Plain(decl.source[f])
        PROVE  /\ data'[decl.source[f]] \in {held[f], None}
               /\ values'[decl.source[f]] = held[f] \/ Has(seeds, decl.source[f])
    <3> DEFINE s == decl.source[f]
    <3>1. s \in Names /\ s # None /\ held[f] # None /\ f \in Names
      BY <1>a, <2>2, RoutingAssumption DEF Has
    <3>2. Sourced(s) = {f}
      BY <2>2, <3>1 DEF Sourced, Plain
    <3>3. Sourced(s) \cap Server = {f}
      BY <2>2, <3>2 DEF Server
    <3>4. HandedAs(s) = {f}
      <4>1. f \in HandedAs(s)
        BY <2>2 DEF HandedAs, Server
      <4>2. \A g \in HandedAs(s) : g \in Fields /\ (g = s \/ decl.source[g] = s)
        BY <1>a, <3>1 DEF HandedAs, Server, Kept, Has
      <4> QED BY <2>2, <4>1, <4>2 DEF Plain
    <3> HIDE DEF s
    <3>5. Handed[s] = held[f]
      BY <3>1, <3>4, HandedIs
    <3>6. values'[s] = held[f] \/ Has(seeds, s)
      BY <1>6, <3>1, <3>5, ValidateEffect
    <3>7. data'[s] \in {held[f], None}
      BY <1>6, <3>1, <3>3, ValidateEffect
    <3> QED BY <3>6, <3>7 DEF s
  <2> QED BY <1>b, <2>1, <2>2 DEF ServersOwn, Has, Bound
<1>7. CASE FillPool
  <2>1. stage = "kernel" /\ UNCHANGED <<call, held, body, data, values, seeds, seat>>
    BY <1>7, PoolEffect
  <2>2. ASSUME NEW f \in Fields, Has(held, f), Plain(decl.source[f])
        PROVE  \/ pool'[decl.source[f]] = held[f]
               \/ Has(seat, decl.source[f]) \/ Has(seeds, decl.source[f])
    <3>1. values[decl.source[f]] = held[f] \/ Has(seeds, decl.source[f])
      BY <2>1, <2>2 DEF ServersOwn, Bound
    <3> QED BY <1>7, <1>a, <2>2, <3>1, PoolEffect DEF Has
  <2> QED BY <1>b, <2>1, <2>2 DEF ServersOwn, Has, Bound
<1>8. CASE Quiet
  <2>1. UNCHANGED <<call, held, body, data, values, seeds, seat, pool>> /\ (stage' \notin Bound \/ stage' = stage)
    BY <1>8, QuietEffect DEF Bound
  <2> QED BY <1>b, <2>1 DEF ServersOwn, Has, Bound
<1> QED BY <1>1, <1>2, <1>3, <1>4, <1>5, <1>6, <1>7, <1>8 DEF Next, Quiet

(* A field's value the server gave is the field's in the body, in data and *)
(* in the parameter of its source (server_values, _lay_back, _handed).     *)
THEOREM ServerValueHolds == Spec => []ServerValueIsTheFields
<1>1. ASSUME ServersOwn PROVE ServerValueIsTheFields
  BY <1>1 DEF ServersOwn, ServerValueIsTheFields, Served, Bound
<1>2. Init => IInv /\ Kept /\ ServersOwn
  BY InitIInv, InitKept, InitServersOwn
<1>3. IInv /\ Kept /\ ServersOwn /\ [Next]_vars => (IInv /\ Kept /\ ServersOwn)'
  BY NextIInv, NextKept, NextServersOwn
<1> QED BY <1>1, <1>2, <1>3, PTL DEF Spec

-----------------------------------------------------------------------------
(* Every name an author gave is somewhere on its way to the service: an    *)
(* argument named by it, the field it is the source of, or what is left    *)
(* over for the seeds and the seat.                                        *)
Said(n) ==
    \/ n \in CallerNames /\ (authored[n] = n \/ Outranked(n))
    \/ n \notin CallerNames /\ \E f \in Fields : decl.source[f] = n /\ Has(authored, f)
    \/ n \notin CallerNames /\ (Has(extra, n) \/ Has(seeds, n) \/ Has(seat, n))

Seating == {"lookup", "input", "validate"} \cup Bound

Heeded ==
    /\ \A n \in named.hook \cup named.provider : Said(n)
    /\ stage \in Seating => \A n \in Names :
           ~Has(extra, n) /\ (Spreads /\ n \in LookupReads /\ Has(authored, n) => Has(seat, n))
    /\ \A n \in Names : seat[n] = "client" => ~Has(authored, n)
    /\ stage \in {"validate"} \cup Bound => \A f \in Fields : Has(authored, f) => Has(held, f)
    /\ stage \notin Bound \cup {"refused"} => \A n \in Names : values[n] = None
    /\ stage \in Bound =>
           /\ \A f \in Fields, k \in Names : Has(held, f) /\ (decl.source[f] = k \/ authored[f] = k) =>
                  Has(seeds, k) \/ (Has(values, k) /\ values[k] # "client")
           /\ \A n \in ServiceReads \ Renamed : values[n] # "client"
    /\ AuthorOutranksClient

LEMMA ReadNames == ASSUME TypeOK PROVE ServiceReads \cup LookupReads \cup CallerNames \subseteq Names
  BY Compiled DEF ServiceReads, CallerNames, ValidatorFields, Having, In

LEMMA InitHeeded == Init => Heeded
<1> SUFFICES ASSUME Init PROVE Heeded
  OBVIOUS
<1>1. /\ named.hook = {} /\ named.provider = {} /\ stage = "arguments"
      /\ \A n \in Names : seat[n] = None /\ values[n] = None
  BY Somebody DEF Init
<1> QED BY <1>1, RoutingAssumption DEF Heeded, Seating, Bound, Served, AuthorOutranksClient

(* A name stays said while nothing said is taken away.                     *)
LEMMA StillSaid ==
  ASSUME UNCHANGED call, named'.hook = named.hook, named'.provider = named.provider,
         \A n \in Names : authored'[n] = authored[n],
         \A n \in Names : Has(extra, n) => Has(extra', n) \/ Has(seeds', n) \/ Has(seat', n),
         \A n \in Names : Has(seeds, n) => Has(seeds', n),
         \A n \in Names : Has(seat, n) => Has(seat', n),
         TypeOK, \A n \in named.hook \cup named.provider : Said(n)
  PROVE  \A n \in named'.hook \cup named'.provider : Said(n)'
<1>1. decl' = decl /\ Fields' = Fields /\ CallerNames' = CallerNames
  BY StandingToo
<1>2. named.hook \cup named.provider \subseteq Names
  BY DEF TypeOK
<1>3. \A n : Outranked(n)' = Outranked(n)
  BY <1>1 DEF Outranked
<1> QED BY <1>1, <1>2, <1>3, FieldNames DEF Said, Has

LEMMA RouteHeeded == ASSUME IInv, Kept, Heeded, RouteAuthorValues PROVE Heeded'
<1> USE DEF IInv
<1>1. PICK heard \in SUBSET Names, provided \in SUBSET Names : Routes(heard, provided)
  BY RouteEffect
<1>2. /\ stage' = "seeds" /\ UNCHANGED <<call, seat, values>> /\ stage = "author"
      /\ named'.hook = heard /\ named'.provider = provided
  BY <1>1 DEF Routes
<1>3. decl' = decl /\ Fields' = Fields /\ CallerNames' = CallerNames
  BY <1>2, StandingToo
<1>4. \A keys \in SUBSET Names : \A n \in keys : n \notin CallerNames =>
         n \in Rest(keys) \/ (n \in Renamed /\ Wire(n) \in Claimed(keys))
  BY DEF Rest, Outright, BySource, Claimed
<1>5. \A keys \in SUBSET Names : \A f \in Names :
         f \in Claimed(keys) => KeyOf(keys)[f] # None
  <2> TAKE keys \in SUBSET Names
  <2> TAKE f \in Names
  <2>1. f \in Claimed(keys) \ Outright(keys) => KeyOf(keys)[f] \in Names
    BY KeyOfIs, FieldNames
  <2>2. f \in Outright(keys) => KeyOf(keys)[f] = f
    BY KeyOfIs
  <2> QED BY <2>1, <2>2, RoutingAssumption
<1>6. ASSUME NEW n \in heard \cup provided PROVE Said(n)'
  <2>0. n \in Names /\ n # None
    BY RoutingAssumption
  <2>1. CASE n \in CallerNames /\ n \in provided
    <3>1. KeyOf(provided)[n] = n
      BY <2>0, <2>1, KeyOfIs DEF Outright
    <3>2. authored'[n] = n
      BY <1>1, <2>0, <3>1 DEF Routes
    <3> QED BY <1>3, <2>1, <3>2 DEF Said
  <2>2. CASE n \in CallerNames /\ n \notin provided
    <3>1. KeyOf(heard)[n] = n
      BY <2>0, <2>2, KeyOfIs DEF Outright
    <3>2. CASE n \in Claimed(provided)
      <4>1. n \in Fields /\ decl.source[n] \in provided
        BY <2>0, <2>2, <3>2, KeyOfIs DEF Outright, BySource
      <4>2. Outranked(n)'
        BY <1>2, <1>3, <2>2, <4>1 DEF Outranked
      <4> QED BY <1>3, <2>2, <4>2 DEF Said
    <3>3. CASE n \notin Claimed(provided)
      <4>1. KeyOf(provided)[n] = None
        BY <2>0, <3>3, KeyOfIs
      <4>2. authored'[n] = n
        BY <1>1, <2>0, <3>1, <4>1 DEF Routes
      <4> QED BY <1>3, <2>2, <4>2 DEF Said
    <3> QED BY <3>2, <3>3
  <2>3. CASE n \notin CallerNames
    <3>1. PICK keys \in {heard, provided} : n \in keys
      OBVIOUS
    <3>2. CASE n \in Rest(keys)
      <4>1. Has(extra', n)
        BY <1>1, <2>0, <3>1, <3>2, RoutingAssumption DEF Routes, Has
      <4> QED BY <1>3, <2>3, <4>1 DEF Said
    <3>3. CASE n \in Renamed /\ Wire(n) \in Claimed(keys)
      <4>1. Wire(n) \in Fields /\ decl.source[Wire(n)] = n /\ Wire(n) \in Names
        BY <3>3, WireIsAField, FieldNames
      <4>2. KeyOf(keys)[Wire(n)] # None
        BY <1>5, <3>1, <3>3, <4>1
      <4>3. Has(authored', Wire(n))
        BY <1>1, <3>1, <4>1, <4>2 DEF Routes, Has
      <4>4. \E f \in Fields' : decl'.source[f] = n /\ Has(authored', f)
        BY <1>3, <4>1, <4>3
      <4> QED BY <1>3, <2>3, <4>4 DEF Said, Has
    <3> QED BY <1>4, <2>3, <3>1, <3>2, <3>3
  <2> QED BY <2>1, <2>2, <2>3
<1>7. \A n \in Names : ~Has(seat, n)
  BY <1>2 DEF Kept, Early
<1>8. \A n \in Names : seat'[n] # "client" /\ values'[n] = None
  BY <1>2, <1>7, RoutingAssumption DEF Has, Heeded, Bound
<1> QED BY <1>2, <1>6, <1>8 DEF Heeded, Seating, Bound, Served, AuthorOutranksClient

(* The stages between move what is left over into the seeds and the seat.  *)
LEMMA MovedHeeded ==
  ASSUME IInv, Kept, Heeded, EdgeArguments \/ SeedHiddenCaptures \/ SeatAuthorValues PROVE Heeded'
<1> USE DEF IInv
<1>1. CASE EdgeArguments
  <2>1. stage = "arguments" /\ stage' = "author" /\ UNCHANGED <<call, named, authored, extra, seeds, seat, values>>
    BY <1>1, ArgumentsEffect
  <2>2. \A n \in named'.hook \cup named'.provider : Said(n)'
    BY <2>1, StillSaid DEF Heeded, Has
  <2> QED BY <2>1, <2>2 DEF Heeded, Seating, Bound, Served, AuthorOutranksClient, Has
<1>2. CASE SeedHiddenCaptures
  <2>1. /\ stage = "seeds" /\ stage' = "seat" /\ UNCHANGED <<call, named, authored, seat, values>>
        /\ \A n \in Names : Has(extra, n) => Has(extra', n) \/ Has(seeds', n)
        /\ \A n \in Names : ~Has(seeds, n) /\ ~Has(seat, n)
    BY <1>2, SeedingEffect, RoutingAssumption DEF Kept, Early, Has
  <2>2. \A n \in named'.hook \cup named'.provider : Said(n)'
    BY <2>1, StillSaid DEF Heeded, Has
  <2> QED BY <2>1, <2>2 DEF Heeded, Seating, Bound, Served, AuthorOutranksClient, Has
<1>3. CASE SeatAuthorValues
  <2>1. /\ stage = "seat" /\ stage' = "lookup" /\ UNCHANGED <<call, named, authored, seeds, values>>
        /\ \A n \in Names :
              /\ seat'[n] = IF LookupKeysSent[n] # None THEN LookupKeysSent[n] ELSE extra[n]
              /\ LookupKeysSent[n] = IF ~Spreads \/ n \notin LookupReads THEN None
                                     ELSE IF Has(authored, n) THEN arguments[n]
                                     ELSE IF n \in request.body THEN "client" ELSE None
              /\ extra'[n] = None
        /\ \A n \in Names : ~Has(seat, n)
    BY <1>3, SeatEffect DEF Kept, Early
  <2>2. Spreads' = Spreads /\ LookupReads' = LookupReads
    BY <2>1, StandingToo
  <2>3. \A n \in Names : Has(extra, n) => Has(seat', n)
    BY <2>1 DEF Has
  <2>4. \A n \in named'.hook \cup named'.provider : Said(n)'
    BY <2>1, <2>3, StillSaid DEF Heeded, Has
  <2>5. \A n \in Names : Has(authored, n) => arguments[n] \in Spoken
    BY DEF Kept
  <2>6. \A n \in Names : extra[n] # "client"
    BY DEF Argued
  <2>7. ASSUME NEW n \in Names
        PROVE  /\ Spreads /\ n \in LookupReads /\ Has(authored, n) => Has(seat', n)
               /\ seat'[n] = "client" => ~Has(authored, n)
    BY <2>1, <2>5, <2>6, RoutingAssumption DEF Has, Spoken
  <2> QED BY <2>1, <2>2, <2>4, <2>7 DEF Heeded, Seating, Bound, Served, AuthorOutranksClient, Has
<1> QED BY <1>1, <1>2, <1>3

(* An author's field is held, so the Validator hands it on.                *)
LEMMA InputHeeded == ASSUME IInv, Kept, Heeded, ServerInput PROVE Heeded'
<1> USE DEF IInv
<1>1. PICK given \in SUBSET Names : Inputs(given)
  BY InputEffect
<1>2. /\ stage = "input" /\ stage' \in {"kernel", "validate"} /\ (stage' = "kernel" => Fields = {})
      /\ UNCHANGED <<call, authored, extra, seeds, seat, values>>
      /\ named'.hook = named.hook /\ named'.provider = named.provider
  BY <1>1 DEF Inputs
<1>3. /\ Fields' = Fields /\ Spreads' = Spreads /\ LookupReads' = LookupReads
      /\ ServiceReads' = ServiceReads /\ Renamed' = Renamed
  BY <1>2, StandingToo
<1>4. \A n \in named'.hook \cup named'.provider : Said(n)'
  BY <1>2, StillSaid DEF Heeded, Has
<1>5. \A n \in Names : /\ ~Has(extra, n) /\ (Spreads /\ n \in LookupReads /\ Has(authored, n) => Has(seat, n))
                       /\ (seat[n] = "client" => ~Has(authored, n)) /\ values[n] = None
  BY <1>2 DEF Heeded, Seating, Bound
<1>6. ASSUME NEW f \in Fields, Has(authored, f) PROVE Has(held', f)
  <2>1. f \in Names /\ f \in Keys(authored) /\ Fields # {}
    BY <1>6, FieldNames DEF Keys
  <2>2. arguments'[f] \in Spoken
    BY <1>1, <1>6, <2>1 DEF Inputs, Kept, Spoken
  <2>3. held'[f] = arguments'[f]
    BY <1>1, <2>1 DEF Inputs
  <2> QED BY <2>2, <2>3, RoutingAssumption DEF Has, Spoken
<1>7. ServiceReads \subseteq Names
  BY ReadNames
<1>8. \A n \in ServiceReads : values[n] # "client"
  BY <1>5, <1>7, RoutingAssumption
<1>9. ~Served' /\ stage' # "refused" /\ (stage' \in Bound => Fields = {})
      /\ (stage' \in {"validate"} \cup Bound)
  BY <1>2 DEF Served, Bound
<1> QED BY <1>2, <1>3, <1>4, <1>5, <1>6, <1>8, <1>9 DEF Heeded, AuthorOutranksClient, Has

LEMMA ValidateHeeded == ASSUME IInv, Kept, Heeded, Validate PROVE Heeded'
<1> USE DEF IInv
<1>1. /\ stage = "validate" /\ stage' = "kernel"
      /\ UNCHANGED <<call, named, authored, extra, seeds, seat, held>>
  BY ValidateEffect
<1>2. /\ Fields' = Fields /\ Spreads' = Spreads /\ LookupReads' = LookupReads /\ decl' = decl
      /\ ServiceReads' = ServiceReads /\ Renamed' = Renamed
  BY <1>1, StandingToo
<1>3. \A n \in named'.hook \cup named'.provider : Said(n)'
  BY <1>1, StillSaid DEF Heeded, Has
<1>4. /\ \A n \in Names : /\ ~Has(extra, n) /\ (Spreads /\ n \in LookupReads /\ Has(authored, n) => Has(seat, n))
                          /\ (seat[n] = "client" => ~Has(authored, n))
      /\ \A f \in Fields : Has(authored, f) => Has(held, f)
  BY <1>1 DEF Heeded, Seating, Bound
<1>5. \A k \in Names : Handed[k] # "client"
  <2>1. \A f \in Server : f \in Names /\ held[f] # "client"
    BY FieldNames DEF HeldIsTheServers, Server
  <2> QED BY <2>1, HandedIs, RoutingAssumption DEF HandedAs
<1>6. ASSUME NEW f \in Fields, NEW k \in Names, Has(held, f), decl.source[f] = k \/ authored[f] = k
      PROVE  Has(seeds, k) \/ (Has(values', k) /\ values'[k] # "client")
  <2>1. f \in HandedAs(k)
    BY <1>6 DEF HandedAs, Server
  <2>2. Handed[k] # None
    BY <2>1, HandedIs DEF HandedAs, Server, Has
  <2> QED BY <1>5, <2>2, ValidateEffect DEF Has
<1>7. ASSUME NEW n \in ServiceReads \ Renamed PROVE values'[n] # "client"
  <2>1. n \in Names /\ Sourced(n) = {}
    BY ReadNames DEF Renamed
  <2>2. data'[n] = None
    BY <1>7, <2>1, ValidateEffect
  <2> QED BY <1>5, <2>1, <2>2, ValidateEffect, RoutingAssumption
<1>8. ~Served' /\ stage' # "refused" /\ stage' \in Bound
  BY <1>1 DEF Served, Bound
<1> QED BY <1>1, <1>2, <1>3, <1>4, <1>6, <1>7, <1>8 DEF Heeded, AuthorOutranksClient, Has

LEMMA QuietHeeded == ASSUME IInv, Heeded, Quiet PROVE Heeded'
<1> USE DEF IInv
<1>1. /\ UNCHANGED <<call, arguments, named, authored, extra, seeds, seat, held, values, pool>>
      /\ (stage' = stage \/ (stage = "lookup" /\ stage' = "input") \/ stage' = "refused")
  BY QuietEffect
<1>2. /\ Fields' = Fields /\ Spreads' = Spreads /\ LookupReads' = LookupReads /\ decl' = decl
      /\ ServiceReads' = ServiceReads /\ Renamed' = Renamed
  BY <1>1, StandingToo
<1>3. \A n \in named'.hook \cup named'.provider : Said(n)'
  BY <1>1, StillSaid DEF Heeded, Has
<1>4. AuthorOutranksClient'
  BY <1>1, <1>2 DEF Heeded, AuthorOutranksClient, Outranked, Served, Has
<1> QED BY <1>1, <1>2, <1>3, <1>4 DEF Heeded, Seating, Bound, Has

LEMMA NoClientSeeds == ASSUME NoLookupUrlOffHttp, IInv PROVE \A n \in Names : seeds[n] # "client"
<1>1. arrival # "http" => Having("lookup_url") = {}
  BY DeclarationType DEF IInv, TypeOK, NoLookupUrlOffHttp, Having, In
<1> QED BY <1>1 DEF IInv, Seeded

(* The pool takes each name said from the first channel that holds it, and *)
(* none that does is the client's.                                         *)
LEMMA PoolHeeded == ASSUME NoLookupUrlOffHttp, IInv, Kept, Heeded, FillPool PROVE Heeded'
<1> USE DEF IInv
<1>1. /\ stage = "kernel" /\ stage' = "served"
      /\ UNCHANGED <<call, named, authored, extra, seeds, seat, held, values>>
  BY PoolEffect
<1>2. /\ Fields' = Fields /\ Spreads' = Spreads /\ LookupReads' = LookupReads /\ decl' = decl
      /\ ServiceReads' = ServiceReads /\ Renamed' = Renamed
  BY <1>1, StandingToo
<1>3. \A n \in named'.hook \cup named'.provider : Said(n)'
  BY <1>1, StillSaid DEF Heeded, Has
<1>4. /\ \A n \in Names : /\ ~Has(extra, n) /\ (Spreads /\ n \in LookupReads /\ Has(authored, n) => Has(seat, n))
                          /\ (seat[n] = "client" => ~Has(authored, n))
      /\ \A f \in Fields : Has(authored, f) => Has(held, f)
      /\ \A f \in Fields, k \in Names : Has(held, f) /\ (decl.source[f] = k \/ authored[f] = k) =>
             Has(seeds, k) \/ (Has(values, k) /\ values[k] # "client")
      /\ \A n \in ServiceReads \ Renamed : values[n] # "client"
  BY <1>1 DEF Heeded, Seating, Bound
<1>5. \A n \in Names :
         /\ seeds[n] # "client"
         /\ pool'[n] = IF seeds[n] # None THEN seeds[n] ELSE IF seat[n] # None THEN seat[n]
                       ELSE IF values[n] # None THEN values[n]
                       ELSE IF n \in ServiceReads THEN arguments[n] ELSE None
  BY NoClientSeeds, PoolEffect DEF Has
<1>6. ASSUME NEW n \in named.hook \cup named.provider, ~Outranked(n),
             ~ (n \in LookupReads /\ ~Spreads), n \notin ServiceReads \cap Renamed
      PROVE  pool'[n] # None /\ pool'[n] # "client"
  <2>0. n \in Names /\ n # None /\ Said(n)
    BY RoutingAssumption DEF TypeOK, Heeded
  <2>1. CASE n \in CallerNames
    <3>1. Has(authored, n) /\ authored[n] = n
      BY <1>6, <2>0, <2>1 DEF Said, Has
    <3>2. seat[n] # "client"
      BY <1>4, <2>0, <3>1
    <3>3. CASE n \in Fields
      <4>1. Has(seeds, n) \/ (Has(values, n) /\ values[n] # "client")
        BY <1>4, <2>0, <3>1, <3>3
      <4> QED BY <1>5, <2>0, <3>2, <4>1 DEF Has
    <3>4. CASE n \in LookupReads
      <4>1. Has(seat, n)
        BY <1>4, <1>6, <2>0, <3>1, <3>4
      <4> QED BY <1>5, <2>0, <3>2, <4>1 DEF Has
    <3>5. CASE n \notin Fields /\ n \notin LookupReads
      <4>1. n \in ServiceReads \ Renamed
        BY <1>6, <2>1, <3>5 DEF CallerNames, ValidatorFields
      <4>2. arguments[n] # None /\ arguments[n] # "client"
        BY <2>0, <3>1, RoutingAssumption DEF Kept, Spoken
      <4> QED BY <1>4, <1>5, <2>0, <3>2, <4>1, <4>2
    <3> QED BY <3>3, <3>4, <3>5
  <2>2. CASE n \notin CallerNames
    <3>1. seat[n] # "client"
      BY <2>0, <2>2 DEF Seated, CallerNames
    <3>2. CASE \E f \in Fields : decl.source[f] = n /\ Has(authored, f)
      <4>1. Has(seeds, n) \/ (Has(values, n) /\ values[n] # "client")
        BY <1>4, <2>0, <3>2
      <4> QED BY <1>5, <2>0, <3>1, <4>1 DEF Has
    <3>3. CASE Has(extra, n) \/ Has(seeds, n) \/ Has(seat, n)
      BY <1>4, <1>5, <2>0, <3>1, <3>3 DEF Has
    <3> QED BY <2>0, <2>2, <3>2, <3>3 DEF Said
  <2> QED BY <2>1, <2>2
<1>7. AuthorOutranksClient'
  BY <1>1, <1>2, <1>6 DEF AuthorOutranksClient, Outranked, Has
<1> QED BY <1>1, <1>2, <1>3, <1>4, <1>7 DEF Heeded, Seating, Bound, Has

(* What an author named is the author's when the service is called, where  *)
(* no lookup declares a UrlKwarg off HTTP (prepare_edge_call, _handed).    *)
THEOREM AuthorHolds ==
  ASSUME NoLookupUrlOffHttp PROVE Spec => []AuthorOutranksClient
<1>1. Heeded => AuthorOutranksClient
  BY DEF Heeded
<1>2. Init => IInv /\ Kept /\ Heeded
  BY InitIInv, InitKept, InitHeeded
<1>3. IInv /\ Kept /\ Heeded /\ [Next]_vars => (IInv /\ Kept /\ Heeded)'
  BY NextIInv, NextKept, RouteHeeded, MovedHeeded, InputHeeded, ValidateHeeded, PoolHeeded, QuietHeeded
  DEF Next, Quiet
<1> QED BY <1>1, <1>2, <1>3, PTL DEF Spec

=============================================================================
