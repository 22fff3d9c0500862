-------------------------- MODULE InputRouting_proofs --------------------------
(***************************************************************************)
(* Whose value it is, for any names, declarations and speakers.            *)
(***************************************************************************)
EXTENDS InputRouting, FiniteSetTheorems, WellFoundedInduction, TLAPS

(* The last of some names is one of them: their ranks have a maximum.      *)
LEMMA LastIsOne ==
  ASSUME NEW set \in SUBSET Names, set # {} PROVE Last(set) \in set
<1> DEFINE size == Cardinality(Names)
           ranks == {size - Rank[n] : n \in set}
<1>1. size \in Nat
  BY RoutingAssumption, FS_CardinalityType
<1>2. \A n \in set : Rank[n] \in Nat /\ Rank[n] <= size
  BY <1>1, RoutingAssumption
<1>3. ranks \subseteq Nat /\ ranks # {}
  BY <1>1, <1>2
<1>4. PICK r \in ranks : \A q \in ranks : <<q, r>> \notin OpToRel(<, Nat)
  <2> HIDE DEF ranks
  <2> QED BY <1>3, WFMin, NatLessThanWellFounded
<1>5. \A q \in ranks : r <= q
  <2> HIDE DEF ranks
  <2> TAKE q \in ranks
  <2>1. q \in Nat /\ r \in Nat /\ <<q, r>> \in Nat \X Nat
    BY <1>3
  <2>2. ~ (<<q, r>>[1] < <<q, r>>[2])
    BY <1>4, <2>1 DEF OpToRel
  <2> QED BY <2>1, <2>2
<1>6. PICK n \in set : r = size - Rank[n]
  BY <1>4
<1>7. \A m \in set : Rank[m] <= Rank[n]
  BY <1>1, <1>2, <1>5, <1>6
<1> QED BY <1>7 DEF Last

(* What the mappings' operators make of mappings.                          *)
LEMMA PutType ==
  ASSUME NEW map \in Maps, NEW set, NEW who \in Who \cup {None} PROVE Put(map, set, who) \in Maps
  BY DEF Maps, Put

LEMMA DropType == ASSUME NEW map \in Maps, NEW set PROVE Drop(map, set) \in Maps
  BY PutType DEF Drop

LEMMA OverType == ASSUME NEW map \in Maps, NEW top \in Maps PROVE Over(top, map) \in Maps
  BY DEF Maps, Over, Has

LEMMA NothingType == Nothing \in Maps
  BY DEF Nothing, Maps

(* What the type of a declaration says of its parts.                       *)
LEMMA DeclarationType ==
  ASSUME TypeOK
  PROVE  /\ decl.roles \in [Names -> SUBSET Roles]
         /\ decl.source \in [Names -> Names]
         /\ decl.spread \in BOOLEAN
         /\ Compiles(decl)
  BY RoutingAssumption DEF TypeOK, Declarations

(* What a declaration and a request say stands for the whole call.         *)
LEMMA Standing ==
  ASSUME UNCHANGED call
  PROVE  /\ \A role : Having(role)' = Having(role)
         /\ Fields' = Fields /\ Owned' = Owned /\ Hidden' = Hidden
         /\ Url' = Url /\ Query' = Query /\ LookupReads' = LookupReads
         /\ Spreads' = Spreads /\ ServiceReads' = ServiceReads
         /\ Excluded' = Excluded /\ CallerNames' = CallerNames
<1>1. decl' = decl /\ request' = request
  BY DEF call
<1>2. \A role : Having(role)' = Having(role)
  BY <1>1 DEF Having
<1>3. Fields' = Fields /\ Owned' = Owned /\ Hidden' = Hidden /\ Url' = Url /\ Query' = Query
  BY <1>2 DEF Fields, Owned, Hidden, Url, Query
<1>4. LookupReads' = LookupReads
  BY <1>1 DEF LookupReads
<1>5. Spreads' = Spreads
  BY <1>1, <1>3 DEF Spreads
<1>6. ServiceReads' = ServiceReads
  BY <1>2, <1>3, <1>4, <1>5 DEF ServiceReads
<1>7. Excluded' = Excluded
  BY <1>1, <1>2, <1>3, <1>4 DEF Excluded, HiddenCaptures
<1>8. CallerNames' = CallerNames
  BY <1>3, <1>4, <1>6, <1>7 DEF CallerNames, ValidatorFields
<1> QED BY <1>2, <1>3, <1>4, <1>5, <1>6, <1>7, <1>8

(* Nothing is known of a call at first but its declaration and request.    *)
LEMMA InitType == Init => TypeOK
<1> SUFFICES ASSUME Init PROVE TypeOK
  OBVIOUS
<1>1. Having("lookup_hides") \subseteq Names /\ Url \subseteq Names /\ Query \subseteq Names
      /\ LookupReads \subseteq Names
  BY DEF Having, In, Url, Query, LookupReads, ReadsOf
<1>2. request \in [body : SUBSET Names, route : SUBSET Names, query : SUBSET Names]
  BY <1>1 DEF Init
<1>3. url \in [route : Maps, query : Maps]
  BY NothingType, PutType DEF Init, Who
<1>4. Keys(authored) = {}
  BY DEF Init, Keys, Has, Nothing
<1>5. authored \in [Names -> Names \cup {None}]
  BY DEF Init, Nothing
<1> QED BY <1>2, <1>3, <1>4, <1>5, NothingType DEF Init, TypeOK

LEMMA EdgeArgumentsType == ASSUME TypeOK, EdgeArguments PROVE TypeOK'
<1>1. FromBody \in Maps /\ Routed \in Maps
  BY NothingType, PutType DEF FromBody, Routed, Who
<1>2. Queried \in Maps
  BY <1>1, DropType, PutType DEF Queried, Who
<1>3. CallerArguments \in Maps
  BY <1>2, DropType DEF CallerArguments
<1>4. url' \in [route : Maps, query : Maps]
  <2>1. url.route \in Maps /\ url.query \in Maps
    BY DEF TypeOK
  <2>2. /\ [n \in Names |-> IF n \in OntoRoute THEN Routed[n] ELSE None] \in Maps
        /\ [n \in Names |-> IF n \in Query THEN Queried[n] ELSE None] \in Maps
    BY <1>1, <1>2 DEF Maps
  <2> QED BY <2>1, <2>2, OverType DEF EdgeArguments
<1>5. Keys(authored)' = Keys(authored) /\ CallerNames' = CallerNames /\ Fields' = Fields
  BY Standing DEF EdgeArguments, Keys, Has
<1> QED BY <1>3, <1>4, <1>5 DEF EdgeArguments, TypeOK, call, validated

LEMMA RouteAuthorValuesType == ASSUME TypeOK, RouteAuthorValues PROVE TypeOK'
<1>1. PICK hooks \in SUBSET Names, provided \in SUBSET Names : RouteAuthorValues!(hooks, provided)
  BY DEF RouteAuthorValues, Speaks, Answers, Owned, Having, In
<1> DEFINE heard == hooks \ (Having("seed") \cup HookOwned)
<1>2. arguments' \in Maps /\ extra' \in Maps
  BY <1>1, NothingType, PutType, DropType DEF TypeOK, Who
<1>3. \A keys \in SUBSET Names :
         /\ KeyOf(keys) \in [Names -> Names \cup {None}]
         /\ \A n \in Names : KeyOf(keys)[n] # None => n \in CallerNames
  <2> SUFFICES ASSUME NEW keys \in SUBSET Names, NEW a \in Names
               PROVE  /\ KeyOf(keys)[a] \in Names \cup {None}
                      /\ KeyOf(keys)[a] # None => a \in CallerNames
    BY DEF KeyOf
  <2>1. CASE a \in Outright(keys)
    BY <2>1 DEF KeyOf, Outright
  <2>2. CASE a \notin Outright(keys) /\ a \in Claimed(keys)
    <3>1. \E s \in BySource(keys) : Wire(s) = a
      BY <2>2 DEF Claimed
    <3>2. (CHOOSE s \in BySource(keys) : Wire(s) = a) \in BySource(keys)
      BY <3>1
    <3> QED BY <2>2, <3>1, <3>2 DEF KeyOf, BySource
  <2>3. CASE a \notin Outright(keys) /\ a \notin Claimed(keys)
    BY <2>3 DEF KeyOf
  <2> QED BY <2>1, <2>2, <2>3
<1>4. /\ authored' \in [Names -> Names \cup {None}]
      /\ \A n \in Names : authored'[n] # None => n \in CallerNames
  <2>1. authored' = Over(KeyOf(provided), KeyOf(heard))
    BY <1>1
  <2> QED BY <1>3, <2>1 DEF Over, Has
<1>5. CallerNames' = CallerNames /\ Fields' = Fields
  BY <1>1, Standing
<1>6. Keys(authored)' \subseteq CallerNames'
  BY <1>4, <1>5 DEF Keys, Has
<1>7. named' \in [hook : SUBSET Names, provider : SUBSET Names, input : SUBSET Names]
  BY <1>1 DEF TypeOK
<1> QED BY <1>1, <1>2, <1>4, <1>5, <1>6, <1>7 DEF TypeOK, call, validated

(* The stages that move values one to one.                                 *)
LEMMA SeedHiddenCapturesType == ASSUME TypeOK, SeedHiddenCaptures PROVE TypeOK'
<1>1. seeds' \in Maps
  BY DEF SeedHiddenCaptures, Seeding, TypeOK, Maps, Who, Captured
<1>2. extra' \in Maps
  BY DropType DEF SeedHiddenCaptures, Seeding, TypeOK
<1>3. Keys(authored)' = Keys(authored) /\ CallerNames' = CallerNames /\ Fields' = Fields
  BY Standing DEF SeedHiddenCaptures, Seeding, Keys, Has
<1> QED BY <1>1, <1>2, <1>3 DEF SeedHiddenCaptures, Seeding, TypeOK, call, validated

LEMMA LookupKeysSentType == ASSUME TypeOK PROVE LookupKeysSent \in Maps
  BY DEF LookupKeysSent, TypeOK, Maps, Who

LEMMA SeatAuthorValuesType == ASSUME TypeOK, SeatAuthorValues PROVE TypeOK'
<1>1. seat' \in Maps
  BY LookupKeysSentType, OverType DEF SeatAuthorValues, TypeOK
<1>2. Keys(authored)' = Keys(authored) /\ CallerNames' = CallerNames /\ Fields' = Fields
  BY Standing DEF SeatAuthorValues, Keys, Has
<1> QED BY <1>1, <1>2, NothingType DEF SeatAuthorValues, TypeOK, call, validated

LEMMA ResolveTargetType == ASSUME TypeOK, ResolveTarget PROVE TypeOK'
<1>1. looked' \in Maps
  BY DEF ResolveTarget, TypeOK, Maps, Who
<1>2. Keys(authored)' = Keys(authored) /\ CallerNames' = CallerNames /\ Fields' = Fields
  BY Standing DEF ResolveTarget, Keys, Has
<1> QED BY <1>1, <1>2 DEF ResolveTarget, TypeOK, call, validated

LEMMA ServerInputType == ASSUME TypeOK, ServerInput PROVE TypeOK'
<1>1. PICK given \in SUBSET Names : ServerInput!(given)
  BY DEF ServerInput, Speaks
<1> DEFINE args == Put(arguments, given, "input")
<1>2. args \in Maps
  BY PutType DEF TypeOK, Who
<1>3. /\ arguments' = args /\ UNCHANGED call
      /\ body' = IF Fields = {} THEN Nothing
                 ELSE [f \in Names |-> IF f \in Written(args) THEN args[f]
                                       ELSE IF f \in Fields \cap request.body
                                            THEN "client" ELSE None]
      /\ held' = IF Fields = {} THEN Nothing
                 ELSE [n \in Names |-> IF n \in Keys(authored) \cup given THEN args[n] ELSE None]
  BY <1>1
<1>4. body' \in Maps /\ held' \in Maps
  <2> HIDE DEF args
  <2> QED BY <1>2, <1>3, NothingType DEF Maps, Who
<1>5. Keys(authored)' = Keys(authored) /\ CallerNames' = CallerNames /\ Fields' = Fields
  BY <1>1, Standing DEF Keys, Has
<1>6. named' \in [hook : SUBSET Names, provider : SUBSET Names, input : SUBSET Names]
  BY <1>1 DEF TypeOK
<1>7. Fields' = {} => stage' # "validate" /\ held' = Nothing' /\ body' = Nothing'
  BY <1>1, <1>3, <1>5 DEF Nothing
<1>8. data' = data /\ (Fields' = {} => data' = Nothing')
  BY <1>1, <1>5 DEF TypeOK, Nothing
<1> QED BY <1>1, <1>2, <1>3, <1>4, <1>5, <1>6, <1>7, <1>8 DEF TypeOK, call

(* A field has a source among the names, and a serializer's value is one   *)
(* of its body's or of the server's.                                       *)
LEMMA SourcedType == ASSUME TypeOK, NEW s \in Names PROVE Sourced(s) \subseteq Names
  BY DEF Sourced, Fields, Having, In

LEMMA ValidatedType == ASSUME TypeOK, NEW added, NEW dropped PROVE Validated(added, dropped) \in Maps
<1> SUFFICES ASSUME NEW s \in Names PROVE Validated(added, dropped)[s] \in Who \cup {None}
  BY DEF Validated, Maps
<1> DEFINE filled == {f \in Sourced(s) : Has(body, f)}
<1>1. filled # {} => Last(filled) \in Names
  BY SourcedType, LastIsOne
<1>2. body \in Maps
  BY DEF TypeOK
<1> QED BY <1>1, <1>2 DEF Validated, Maps, Who

LEMMA LaidBackType ==
  ASSUME TypeOK, NEW validated_data \in Maps PROVE LaidBack(validated_data) \in Maps
<1> SUFFICES ASSUME NEW s \in Names PROVE LaidBack(validated_data)[s] \in Who \cup {None}
  BY DEF LaidBack, Maps
<1>1. Sourced(s) \cap Server # {} => Last(Sourced(s) \cap Server) \in Names
  BY SourcedType, LastIsOne
<1> QED BY <1>1 DEF LaidBack, Maps, TypeOK

LEMMA HandedType == ASSUME TypeOK PROVE Handed \in Maps
<1> SUFFICES ASSUME NEW k \in Names PROVE Handed[k] \in Who \cup {None}
  BY DEF Handed, Maps
<1> DEFINE by == {f \in Server : decl.source[f] = k \/ authored[f] = k}
<1>1. by # {} => Last(by) \in Names
  BY LastIsOne DEF Server, Fields, Having, In
<1> QED BY <1>1 DEF Handed, Maps, TypeOK

LEMMA ValidateType == ASSUME TypeOK, Validate PROVE TypeOK'
<1>1. PICK change \in Rewritten : Validate!(change)
  BY DEF Validate
<1>2. data' \in Maps
  BY <1>1, ValidatedType, LaidBackType
<1>3. values' \in Maps
  BY <1>1, <1>2, HandedType, OverType, DropType
<1>4. Keys(authored)' = Keys(authored) /\ CallerNames' = CallerNames /\ Fields' = Fields
  BY <1>1, Standing DEF Keys, Has
<1>5. Fields' # {}
  BY <1>1, <1>4 DEF TypeOK
<1> QED BY <1>1, <1>2, <1>3, <1>4, <1>5 DEF TypeOK, call

LEMMA FillPoolType == ASSUME TypeOK, FillPool PROVE TypeOK'
<1>1. pool' \in Maps
  BY DEF FillPool, TypeOK, Maps
<1>2. Keys(authored)' = Keys(authored) /\ CallerNames' = CallerNames /\ Fields' = Fields
  BY Standing DEF FillPool, Keys, Has
<1> QED BY <1>1, <1>2 DEF FillPool, TypeOK, call, validated

LEMMA RefuseType == ASSUME TypeOK, RefuseSeedNamed \/ RefuseSeated PROVE TypeOK'
<1>1. /\ stage' = "refused"
      /\ UNCHANGED <<call, url, arguments, sent, named, authored, extra, seeds, seat, looked,
                     validated, pool>>
  BY DEF RefuseSeedNamed, RefuseSeated
<1>2. Keys(authored)' = Keys(authored) /\ CallerNames' = CallerNames /\ Fields' = Fields
  BY <1>1, Standing DEF Keys, Has
<1> QED BY <1>1, <1>2 DEF TypeOK, call, validated

LEMMA StutterType == ASSUME TypeOK, UNCHANGED vars PROVE TypeOK'
<1>1. Keys(authored)' = Keys(authored) /\ CallerNames' = CallerNames /\ Fields' = Fields
  BY Standing DEF vars, call, Keys, Has
<1> QED BY <1>1 DEF vars, TypeOK, call, validated

LEMMA NextType == ASSUME TypeOK, [Next]_vars PROVE TypeOK'
  BY EdgeArgumentsType, RouteAuthorValuesType, RefuseType, SeedHiddenCapturesType,
     SeatAuthorValuesType, ResolveTargetType, ServerInputType, ValidateType, FillPoolType,
     StutterType DEF Next

(* Every mapping has its type throughout the call.                         *)
THEOREM TypeCorrect == Spec => []TypeOK
  BY InitType, NextType, PTL DEF Spec

-----------------------------------------------------------------------------
(* The URL holds what the request's did, and off HTTP what a declared      *)
(* UrlKwarg that is no field was sent.                                     *)
Located ==
    /\ request.query \subseteq Query
    /\ \A n \in request.route : url.route[n] = "route"
    /\ \A n \in Names \ request.route :
           url.route[n] # None => arrival # "http" /\ n \in Url \ Fields
    /\ arrival = "http" => Keys(url.query) = request.query

Heard == stage \notin {"arguments", "author", "refused"}

(* The client's value is left no argument that is the URL's or, once the   *)
(* authors were heard, the spec's provider's, and none that a lookup reads *)
(* under a field's name; no author's value is the client's.                *)
Argued ==
    /\ arrival = "http" => \A n \in Url \cup Query : arguments[n] # "client"
    /\ Heard => \A n \in Owned \ ValidatorFields : arguments[n] # "client"
    /\ stage # "arguments" => \A n \in Fields \cap LookupReads : arguments[n] # "client"
    /\ stage = "arguments" => \A n \in Names : ~Has(authored, n)
    /\ \A n \in Names : Has(authored, n) => arguments[n] # "client"
    /\ \A n \in Names : extra[n] # "client"

(* A seed is the client's only through a lookup's own UrlKwarg.            *)
Seeded ==
    \A n \in Names : seeds[n] = "client" =>
        /\ arrival # "http" /\ n \notin CallerNames
        /\ n \in Having("lookup_url") \cap Having("lookup_hides")

Seated == \A n \in Names : seat[n] = "client" => Spreads /\ n \in LookupReads

HeldIsTheServers == \A n \in Names : held[n] # "client"

(* The Validator's values hold no client's under a key the server owns.    *)
Valued ==
    \A n \in Hidden \cup Owned :
        /\ values[n] # "client"
        /\ n \in Fields => values[decl.source[n]] # "client"

(* What the lookup was handed under the names the client may not scope.    *)
LookedUp ==
    /\ arrival = "http" => \A n \in Url \cup Query : looked[n] # "client"
    /\ \A n \in Fields \cap LookupReads : looked[n] # "client"
    /\ \A n \in Having("lookup_hides") :
           looked[n] = "client" => arrival # "http" /\ n \in Having("lookup_url")

(* The service's parameters of the names the server owns.                  *)
Pooled ==
    /\ stage # "served" => \A n \in Names : pool[n] # "client"
    /\ \A n \in (Hidden \ ServiceReads) \cup Owned :
           /\ pool[n] = "client" => seeds[n] = "client"
           /\ n \in Fields /\ decl.source[n] \notin ServiceReads /\ pool[decl.source[n]] = "client"
                 => seeds[decl.source[n]] = "client"

IInv == /\ TypeOK /\ Located /\ Argued /\ Seeded /\ Seated /\ HeldIsTheServers /\ Valued
        /\ LookedUp /\ Pooled

(* None is nobody, and the declared reads' overlaps are refused.           *)
LEMMA Compiled ==
  ASSUME TypeOK
  PROVE  /\ Owned \cap LookupReads = {}
         /\ Hidden \cap LookupReads = {}
         /\ Query \cap Fields = {}
         /\ Url \cap Fields \subseteq LookupReads
         /\ Having("lookup_url") \subseteq Having("lookup") \cup Having("lookup_hides")
         /\ Having("lookup") \cap Having("lookup_hides") = {}
         /\ ServiceReads \cap Fields = {}
         /\ Fields \cup Owned \cup Hidden \cup Url \cup Query \cup LookupReads \subseteq Names
<1>1. Compiles(decl)
  BY DeclarationType
<1>2. /\ Owned \cap LookupReads = {} /\ Hidden \cap LookupReads = {} /\ Query \cap Fields = {}
      /\ Url \cap Fields \subseteq LookupReads
      /\ Having("lookup_url") \subseteq Having("lookup") \cup Having("lookup_hides")
      /\ Having("lookup") \cap Having("lookup_hides") = {}
  BY <1>1 DEF Compiles, Having, Owned, LookupReads, ReadsOf, Hidden, Query, Fields, Url
<1>3. ServiceReads \cap Fields = {}
  BY <1>2 DEF ServiceReads, Spreads, Url
<1>4. Fields \cup Owned \cup Hidden \cup Url \cup Query \cup LookupReads \subseteq Names
  BY DEF Having, In, Owned, LookupReads, ReadsOf, Hidden, Query, Fields, Url
<1> QED BY <1>2, <1>3, <1>4

LEMMA Somebody ==
  /\ None \notin Who
  /\ \A n \in Names : Nothing[n] = None /\ Nothing[n] # "client"
  /\ \A map, set, who : \A n \in Names :
        Put(map, set, who)[n] = IF n \in set THEN who ELSE map[n]
  /\ \A map, set : \A n \in Names : Drop(map, set)[n] = IF n \in set THEN None ELSE map[n]
  /\ \A top, map : \A n \in Names : Over(top, map)[n] = IF top[n] # None THEN top[n] ELSE map[n]
  BY RoutingAssumption DEF Who, Nothing, Put, Drop, Over, Has

LEMMA InitIInv == Init => IInv
<1> SUFFICES ASSUME Init PROVE IInv
  OBVIOUS
<1>1. TypeOK
  BY InitType
<1>2. Located
  <2>1. /\ \A n \in request.route : n \in Names /\ url.route[n] = "route"
        /\ \A n \in Names \ request.route : url.route[n] = None
        /\ \A n \in Names : url.query[n] = IF n \in request.query THEN "query" ELSE None
    BY <1>1, Somebody DEF Init, TypeOK
  <2>2. Keys(url.query) = request.query
    BY <1>1, <2>1, RoutingAssumption DEF Keys, Has, TypeOK
  <2>3. request.query \subseteq Query
    BY DEF Init
  <2> QED BY <2>1, <2>2, <2>3 DEF Located
<1>3. Argued /\ Seeded /\ Seated /\ HeldIsTheServers
  BY <1>1, Somebody, Compiled
  DEF Init, Argued, Heard, Seeded, Seated, HeldIsTheServers, Has
<1>4. /\ \A n \in Names : values[n] # "client" /\ looked[n] # "client" /\ pool[n] # "client"
      /\ \A n \in Fields : decl.source[n] \in Names
  BY <1>1, Somebody, Compiled, DeclarationType DEF Init
<1>5. Valued /\ LookedUp /\ Pooled
  <2>1. /\ Hidden \cup Owned \cup Url \cup Query \cup (Fields \cap LookupReads) \subseteq Names
        /\ Having("lookup_hides") \subseteq Names
    BY <1>1, Compiled DEF Hidden
  <2>2. Valued
    BY <1>4, <2>1 DEF Valued
  <2>3. LookedUp
    BY <1>4, <2>1 DEF LookedUp
  <2>4. Pooled
    BY <1>4, <2>1 DEF Pooled
  <2> QED BY <2>2, <2>3, <2>4
<1> QED BY <1>1, <1>2, <1>3, <1>5 DEF IInv

(* The arguments leave the caller what no one else may say.                *)
LEMMA EdgeArgumentsIInv == ASSUME IInv, EdgeArguments PROVE IInv'
<1> USE DEF EdgeArguments
<1>1. TypeOK'
  BY EdgeArgumentsType DEF IInv
<1>2. /\ decl' = decl /\ arrival' = arrival /\ request' = request
      /\ url.route \in Maps /\ url.query \in Maps /\ Compiles(decl)
  BY DeclarationType DEF IInv, TypeOK, call
<1>3. /\ \A role : Having(role)' = Having(role)
      /\ Fields' = Fields /\ Owned' = Owned /\ Hidden' = Hidden
      /\ Url' = Url /\ Query' = Query /\ LookupReads' = LookupReads
      /\ Spreads' = Spreads /\ ServiceReads' = ServiceReads /\ CallerNames' = CallerNames
  BY Standing
<1>4. Located'
  <2>1. \A n \in Names :
           /\ url'.route[n] = IF url.route[n] # None THEN url.route[n]
                              ELSE IF n \in OntoRoute THEN Routed[n] ELSE None
           /\ url'.query[n] = IF url.query[n] # None THEN url.query[n]
                              ELSE IF n \in Query THEN Queried[n] ELSE None
    <3> DEFINE onto == [n \in Names |-> IF n \in OntoRoute THEN Routed[n] ELSE None]
               asked == [n \in Names |-> IF n \in Query THEN Queried[n] ELSE None]
    <3>1. url' = [route |-> Over(url.route, onto), query |-> Over(url.query, asked)]
      BY DEF EdgeArguments
    <3>2. \A n \in Names :
             /\ onto[n] = IF n \in OntoRoute THEN Routed[n] ELSE None
             /\ asked[n] = IF n \in Query THEN Queried[n] ELSE None
      OBVIOUS
    <3> HIDE DEF onto, asked
    <3> QED BY <3>1, <3>2, Somebody
  <2>2. OntoRoute = {} \/ (arrival # "http" /\ OntoRoute \subseteq (Url \ request.route) \ Fields)
    BY DEF OntoRoute
  <2>3. arrival = "http" => Keys(url'.query) = request.query
    <3> SUFFICES ASSUME arrival = "http", NEW n \in Names
                 PROVE url'.query[n] # None <=> n \in request.query
      BY <1>1, <1>2 DEF Keys, Has, IInv, Located
    <3>1. url.query[n] # None <=> n \in request.query
      BY <1>2 DEF IInv, Located, Keys, Has
    <3>2. n \in Query => (Queried[n] # None => n \in request.query)
      BY Somebody DEF Queried
    <3> QED BY <2>1, <3>1, <3>2
  <2>4. \A n \in request.route : url'.route[n] = "route"
    BY <1>1, <1>2, <2>1, <2>2 DEF IInv, Located, TypeOK
  <2>5. \A n \in Names \ request.route : url'.route[n] # None => arrival # "http" /\ n \in Url \ Fields
    BY <2>1, <2>2 DEF IInv, Located
  <2> QED BY <1>2, <1>3, <2>3, <2>4, <2>5 DEF IInv, Located, Keys, Has
<1>5. Argued'
  <2>1. \A n \in Names :
           /\ FromBody[n] = IF n \in request.body \ (IF arrival = "http" THEN Url ELSE {})
                           THEN "client" ELSE None
           /\ Routed[n] = IF n \in (Url \cup LookupReads) \cap request.route
                         THEN "route" ELSE FromBody[n]
    BY Somebody DEF FromBody, Routed
  <2>2. \A n \in Names : Queried[n] = "client" =>
           Routed[n] = "client" /\ (arrival = "http" => n \notin Query)
    BY Somebody, RoutingAssumption DEF Queried
  <2>3. \A n \in Names : CallerArguments[n] = "client" =>
           /\ Queried[n] = "client"
           /\ n \notin Excluded \ ((request.route \cup OntoRoute) \cap LookupReads)
    BY Somebody, RoutingAssumption DEF CallerArguments
  <2>4. arrival = "http" => \A n \in Url \cup Query : CallerArguments[n] # "client"
    BY <2>1, <2>2, <2>3, Compiled, RoutingAssumption DEF IInv
  <2>5. \A n \in Fields \cap LookupReads : CallerArguments[n] # "client"
    <3> SUFFICES ASSUME NEW n \in Fields \cap LookupReads, CallerArguments[n] = "client"
                 PROVE FALSE
      OBVIOUS
    <3>1. n \in Names /\ n \in Excluded
      BY Compiled DEF IInv, Excluded
    <3>2. n \in request.route
      BY <2>3, <3>1 DEF OntoRoute
    <3> QED BY <2>1, <2>2, <2>3, <3>1, <3>2
  <2>6. stage' = "author" /\ arguments' = CallerArguments /\ authored' = authored /\ extra' = extra
    OBVIOUS
  <2>7. \A n \in Names : ~Has(authored, n) /\ extra[n] # "client"
    BY DEF IInv, Argued
  <2> QED BY <1>2, <1>3, <2>4, <2>5, <2>6, <2>7 DEF Argued, Heard, Has
<1>6. (Seeded /\ Seated /\ HeldIsTheServers /\ Valued /\ LookedUp)'
  BY <1>2, <1>3 DEF IInv, Seeded, Seated, HeldIsTheServers, Valued, LookedUp, validated
<1>7. Pooled'
  BY <1>2, <1>3 DEF IInv, Pooled
<1> QED BY <1>1, <1>4, <1>5, <1>6, <1>7 DEF IInv

(* The authors speak over the client, the provider's keys first.           *)
LEMMA RouteAuthorValuesIInv == ASSUME IInv, RouteAuthorValues PROVE IInv'
<1>1. PICK hooks \in SUBSET Names, provided \in SUBSET Names : RouteAuthorValues!(hooks, provided)
  BY DEF RouteAuthorValues, Speaks, Answers, Owned, Having, In
<1> DEFINE heard == hooks \ (Having("seed") \cup HookOwned)
<1>2. decl' = decl /\ arrival' = arrival /\ request' = request
  BY <1>1 DEF call
<1>3. /\ \A role : Having(role)' = Having(role)
      /\ Fields' = Fields /\ Owned' = Owned /\ Hidden' = Hidden
      /\ Url' = Url /\ Query' = Query /\ LookupReads' = LookupReads
      /\ Spreads' = Spreads /\ ServiceReads' = ServiceReads /\ CallerNames' = CallerNames
      /\ ValidatorFields' = ValidatorFields
  BY <1>1, Standing DEF ValidatorFields
<1>4. TypeOK'
  BY RouteAuthorValuesType DEF IInv
<1>5. Located'
  BY <1>1, <1>2, <1>3 DEF IInv, Located, Keys, Has
<1>6. Argued'
  <2>1. \A n \in Names :
           /\ arguments'[n] = IF n \in Claimed(provided) THEN "provider"
                              ELSE IF n \in Claimed(heard) THEN "hook"
                              ELSE IF n \in Owned \ ValidatorFields THEN None ELSE arguments[n]
           /\ extra'[n] # "client"
    BY <1>1, Somebody, RoutingAssumption
  <2>2. \A n \in Names : authored'[n] # None => n \in Claimed(provided) \cup Claimed(heard)
    <3>1. authored' = Over(KeyOf(provided), KeyOf(heard))
      BY <1>1
    <3>2. \A keys : \A n \in Names : KeyOf(keys)[n] # None => n \in Claimed(keys)
      BY DEF KeyOf, Claimed
    <3> QED BY <3>1, <3>2, Somebody
  <2>3. stage = "author" /\ stage' = "seeds"
    BY <1>1
  <2> QED BY <1>2, <1>3, <2>1, <2>2, <2>3, Compiled, RoutingAssumption
      DEF IInv, Argued, Heard, Has
<1>7. (Seeded /\ Seated /\ HeldIsTheServers /\ Valued /\ LookedUp)'
  BY <1>1, <1>2, <1>3 DEF IInv, Seeded, Seated, HeldIsTheServers, Valued, LookedUp, validated
<1>8. Pooled'
  BY <1>1, <1>2, <1>3 DEF IInv, Pooled
<1> QED BY <1>4, <1>5, <1>6, <1>7, <1>8 DEF IInv

LEMMA RefuseIInv == ASSUME IInv, RefuseSeedNamed \/ RefuseSeated PROVE IInv'
<1>1. /\ stage \in {"author", "kernel"} /\ stage' = "refused"
      /\ UNCHANGED <<call, url, arguments, sent, named, authored, extra, seeds, seat, looked,
                     validated, pool>>
  BY DEF RefuseSeedNamed, RefuseSeated
<1>2. decl' = decl /\ arrival' = arrival /\ request' = request
  BY <1>1 DEF call
<1>3. /\ \A role : Having(role)' = Having(role)
      /\ Fields' = Fields /\ Owned' = Owned /\ Hidden' = Hidden
      /\ Url' = Url /\ Query' = Query /\ LookupReads' = LookupReads
      /\ Spreads' = Spreads /\ ServiceReads' = ServiceReads /\ CallerNames' = CallerNames
      /\ ValidatorFields' = ValidatorFields
  BY <1>1, Standing DEF ValidatorFields
<1>4. TypeOK'
  BY RefuseType DEF IInv
<1>5. Located'
  BY <1>1, <1>2, <1>3 DEF IInv, Located, Keys, Has
<1>6. Argued'
  BY <1>1, <1>2, <1>3 DEF IInv, Argued, Heard, Has
<1>7. (Seeded /\ Seated /\ HeldIsTheServers /\ Valued /\ LookedUp)'
  BY <1>1, <1>2, <1>3 DEF IInv, Seeded, Seated, HeldIsTheServers, Valued, LookedUp, validated
<1>8. Pooled'
  <2>1. /\ \A n \in Names : pool'[n] # "client"
        /\ \A n \in (Hidden \ ServiceReads) \cup Owned :
               n \in Names /\ (n \in Fields => decl.source[n] \in Names)
    BY <1>1, Compiled, DeclarationType DEF IInv, Pooled
  <2> QED BY <1>2, <1>3, <2>1 DEF Pooled
<1> QED BY <1>4, <1>5, <1>6, <1>7, <1>8 DEF IInv

(* A capture is seeded where no one else may fill the name: the route's    *)
(* own, or off HTTP what was sent for the lookup's UrlKwarg.               *)
LEMMA SeedHiddenCapturesIInv == ASSUME IInv, SeedHiddenCaptures PROVE IInv'
<1> USE DEF SeedHiddenCaptures, Seeding
<1>2. decl' = decl /\ arrival' = arrival /\ request' = request
  BY DEF call
<1>3. /\ \A role : Having(role)' = Having(role)
      /\ Fields' = Fields /\ Owned' = Owned /\ Hidden' = Hidden
      /\ Url' = Url /\ Query' = Query /\ LookupReads' = LookupReads
      /\ Spreads' = Spreads /\ ServiceReads' = ServiceReads /\ CallerNames' = CallerNames
      /\ ValidatorFields' = ValidatorFields
  BY Standing DEF ValidatorFields
<1>4. TypeOK'
  BY SeedHiddenCapturesType DEF IInv
<1>5. Located'
  BY <1>2, <1>3 DEF IInv, Located, Keys, Has
<1>6. Argued'
  <2>1. \A n \in Names : extra'[n] # "client"
    BY Somebody, RoutingAssumption DEF IInv, Argued
  <2> QED BY <1>2, <1>3, <2>1 DEF IInv, Argued, Heard, Has
<1>7. Seeded'
  <2> SUFFICES ASSUME NEW n \in Names, seeds'[n] = "client"
               PROVE  /\ arrival # "http" /\ n \notin CallerNames
                      /\ n \in Having("lookup_url") \cap Having("lookup_hides")
    BY <1>2, <1>3 DEF Seeded
  <2>1. n \in Captured \ CallerNames /\ url.route[n] = "client"
    BY RoutingAssumption DEF IInv, Argued, Keys
  <2>2. arrival # "http" /\ n \in Url
    BY <2>1, RoutingAssumption DEF IInv, Located
  <2>3. n \in Having("lookup_hides") /\ n \notin LookupReads
    BY <2>1, Compiled DEF IInv, Captured, HiddenCaptures, Hidden
  <2>4. n \notin Having("url")
    BY <2>1, <2>3 DEF CallerNames, ServiceReads
  <2> QED BY <2>1, <2>2, <2>3, <2>4 DEF Url
<1>8. (Seated /\ HeldIsTheServers /\ Valued /\ LookedUp)'
  BY <1>2, <1>3 DEF IInv, Seated, HeldIsTheServers, Valued, LookedUp, validated
<1>9. Pooled'
  <2>1. \A n \in Names : pool'[n] # "client"
    BY DEF IInv, Pooled
  <2>2. \A n \in (Hidden \ ServiceReads) \cup Owned :
           n \in Names /\ (n \in Fields => decl.source[n] \in Names)
    BY Compiled, DeclarationType DEF IInv
  <2> QED BY <1>2, <1>3, <2>1, <2>2 DEF Pooled
<1> QED BY <1>4, <1>5, <1>6, <1>7, <1>8, <1>9 DEF IInv

(* The seat takes the client's value of a lookup's read alone.             *)
LEMMA SeatAuthorValuesIInv == ASSUME IInv, SeatAuthorValues PROVE IInv'
<1> USE DEF SeatAuthorValues
<1>2. decl' = decl /\ arrival' = arrival /\ request' = request
  BY DEF call
<1>3. /\ \A role : Having(role)' = Having(role)
      /\ Fields' = Fields /\ Owned' = Owned /\ Hidden' = Hidden
      /\ Url' = Url /\ Query' = Query /\ LookupReads' = LookupReads
      /\ Spreads' = Spreads /\ ServiceReads' = ServiceReads /\ CallerNames' = CallerNames
      /\ ValidatorFields' = ValidatorFields
  BY Standing DEF ValidatorFields
<1>4. TypeOK'
  BY SeatAuthorValuesType DEF IInv
<1>5. Located'
  BY <1>2, <1>3 DEF IInv, Located, Keys, Has
<1>6. Argued'
  BY <1>2, <1>3, Somebody DEF IInv, Argued, Heard, Has
<1>7. Seated'
  <2>1. \A n \in Names : LookupKeysSent[n] = "client" => Spreads /\ n \in LookupReads
    BY RoutingAssumption DEF LookupKeysSent
  <2>2. \A n \in Names : extra[n] # "client"
    BY DEF IInv, Argued
  <2> QED BY <1>3, <2>1, <2>2, Somebody DEF Seated
<1>8. (Seeded /\ HeldIsTheServers /\ Valued /\ LookedUp)'
  BY <1>2, <1>3 DEF IInv, Seeded, HeldIsTheServers, Valued, LookedUp, validated
<1>9. Pooled'
  BY <1>2, <1>3 DEF IInv, Pooled
<1> QED BY <1>4, <1>5, <1>6, <1>7, <1>8, <1>9 DEF IInv

(* The lookup is handed a seed, its provider's value or an argument.       *)
LEMMA ResolveTargetIInv == ASSUME IInv, ResolveTarget PROVE IInv'
<1> USE DEF ResolveTarget
<1>2. decl' = decl /\ arrival' = arrival /\ request' = request
  BY DEF call
<1>3. /\ \A role : Having(role)' = Having(role)
      /\ Fields' = Fields /\ Owned' = Owned /\ Hidden' = Hidden
      /\ Url' = Url /\ Query' = Query /\ LookupReads' = LookupReads
      /\ Spreads' = Spreads /\ ServiceReads' = ServiceReads /\ CallerNames' = CallerNames
      /\ ValidatorFields' = ValidatorFields
  BY Standing DEF ValidatorFields
<1>4. TypeOK'
  BY ResolveTargetType DEF IInv
<1>5. Located'
  BY <1>2, <1>3 DEF IInv, Located, Keys, Has
<1>6. Argued'
  BY <1>2, <1>3 DEF IInv, Argued, Heard, Has
<1>7. LookedUp'
  <2>1. \A n \in Names : looked'[n] = "client" =>
           seeds[n] = "client" \/ (n \in LookupReads /\ arguments[n] = "client")
    <3>1. PICK declined \in SUBSET Having("lookup_owned") : ResolveTarget!(declined)
      OBVIOUS
    <3>2. \A n \in Names : looked'[n] =
             IF n \notin Having("lookup") \cup Having("lookup_hides") THEN None
             ELSE IF Has(seeds, n) THEN seeds[n]
             ELSE IF n \in Having("lookup_owned") THEN IF n \in declined THEN None ELSE "lookup"
             ELSE IF n \in LookupReads THEN arguments[n] ELSE None
      BY <3>1
    <3> QED BY <3>2, RoutingAssumption
  <2>2. \A n \in Names : seeds[n] = "client" =>
           /\ arrival # "http" /\ n \in Having("lookup_url") \cap Having("lookup_hides")
           /\ n \notin LookupReads
    BY Compiled DEF IInv, Seeded, Hidden
  <2>3. /\ arrival = "http" => \A n \in Url \cup Query : arguments[n] # "client"
        /\ \A n \in Fields \cap LookupReads : arguments[n] # "client"
    BY DEF IInv, Argued
  <2>4. /\ \A n \in Having("lookup_hides") : n \notin LookupReads
        /\ Having("lookup_hides") \cup Url \cup Query \cup Fields \subseteq Names
    BY Compiled DEF IInv, Hidden
  <2> QED BY <1>2, <1>3, <2>1, <2>2, <2>3, <2>4 DEF LookedUp
<1>8. (Seeded /\ Seated /\ HeldIsTheServers /\ Valued)'
  BY <1>2, <1>3 DEF IInv, Seeded, Seated, HeldIsTheServers, Valued, validated
<1>9. Pooled'
  BY <1>2, <1>3 DEF IInv, Pooled
<1> QED BY <1>4, <1>5, <1>6, <1>7, <1>8, <1>9 DEF IInv

(* What the edge put into a field is an author's or input_data's.          *)
LEMMA ServerInputIInv == ASSUME IInv, ServerInput PROVE IInv'
<1>1. PICK given \in SUBSET Names : ServerInput!(given)
  BY DEF ServerInput, Speaks
<1>2. decl' = decl /\ arrival' = arrival /\ request' = request
  BY <1>1 DEF call
<1>3. /\ \A role : Having(role)' = Having(role)
      /\ Fields' = Fields /\ Owned' = Owned /\ Hidden' = Hidden
      /\ Url' = Url /\ Query' = Query /\ LookupReads' = LookupReads
      /\ Spreads' = Spreads /\ ServiceReads' = ServiceReads /\ CallerNames' = CallerNames
      /\ ValidatorFields' = ValidatorFields
  BY <1>1, Standing DEF ValidatorFields
<1>4. TypeOK'
  BY ServerInputType DEF IInv
<1>5. Located'
  BY <1>1, <1>2, <1>3 DEF IInv, Located, Keys, Has
<1>6. \A n \in Names : arguments'[n] = IF n \in given THEN "input" ELSE arguments[n]
  BY <1>1, Somebody
<1>7. stage = "input" /\ stage' \in {"kernel", "validate"} /\ authored' = authored /\ extra' = extra
  BY <1>1
<1>8. Argued'
  BY <1>2, <1>3, <1>6, <1>7, Compiled DEF IInv, Argued, Heard, Has
<1>9. HeldIsTheServers'
  <2>1. \A n \in Names : held'[n] # None => n \in Keys(authored) \cup given /\ held'[n] = arguments'[n]
    BY <1>1, Somebody
  <2> QED BY <1>6, <2>1, RoutingAssumption DEF IInv, Argued, Keys, Has, HeldIsTheServers
<1>10. (Seeded /\ Seated /\ Valued /\ LookedUp)'
  BY <1>1, <1>2, <1>3 DEF IInv, Seeded, Seated, Valued, LookedUp
<1>11. Pooled'
  BY <1>1, <1>2, <1>3, <1>7 DEF IInv, Pooled
<1> QED BY <1>4, <1>5, <1>8, <1>9, <1>10, <1>11 DEF IInv

(* An owned key's value is the server's, or none.                          *)
LEMMA ValidateIInv == ASSUME IInv, Validate PROVE IInv'
<1>1. PICK change \in Rewritten : Validate!(change)
  BY DEF Validate
<1>2. decl' = decl /\ arrival' = arrival /\ request' = request
  BY <1>1 DEF call
<1>3. /\ \A role : Having(role)' = Having(role)
      /\ Fields' = Fields /\ Owned' = Owned /\ Hidden' = Hidden
      /\ Url' = Url /\ Query' = Query /\ LookupReads' = LookupReads
      /\ Spreads' = Spreads /\ ServiceReads' = ServiceReads /\ CallerNames' = CallerNames
      /\ ValidatorFields' = ValidatorFields
  BY <1>1, Standing DEF ValidatorFields
<1>4. TypeOK'
  BY ValidateType DEF IInv
<1>5. Located'
  BY <1>1, <1>2, <1>3 DEF IInv, Located, Keys, Has
<1>6. Argued'
  BY <1>1, <1>2, <1>3 DEF IInv, Argued, Heard, Has
<1>7. Valued'
  <2>1. \A k \in Names : Handed[k] # "client"
    <3> TAKE k \in Names
    <3> DEFINE by == {f \in Server : decl.source[f] = k \/ authored[f] = k}
    <3>1. by # {} => Last(by) \in Names
      BY LastIsOne DEF Server, Fields, Having, In
    <3> QED BY <3>1, RoutingAssumption DEF Handed, IInv, HeldIsTheServers
  <2>2. \A k \in Names : k \in Unowned \/ Handed[k] # None => values'[k] # "client"
    BY <1>1, <2>1, Somebody, RoutingAssumption
  <2>3. \A n \in Hidden \cup Owned :
           /\ n \in Names
           /\ n \in Unowned \/ Handed[n] # None
           /\ n \in Fields => /\ decl.source[n] \in Names
                              /\ decl.source[n] \in Unowned \/ Handed[decl.source[n]] # None
    BY Compiled, DeclarationType DEF IInv, Unowned, Keys, Has
  <2>4. \A n \in Hidden \cup Owned :
           values'[n] # "client" /\ (n \in Fields => values'[decl.source[n]] # "client")
    <3> TAKE n \in Hidden \cup Owned
    <3>1. values'[n] # "client"
      BY <2>2, <2>3
    <3>2. ASSUME n \in Fields PROVE values'[decl.source[n]] # "client"
      <4>1. decl.source[n] \in Names
        BY <2>3, <3>2
      <4>2. decl.source[n] \in Unowned \/ Handed[decl.source[n]] # None
        BY <2>3, <3>2
      <4> QED BY <2>2, <4>1, <4>2
    <3> QED BY <3>1, <3>2
  <2> QED BY <1>2, <1>3, <2>4 DEF Valued
<1>8. (Seeded /\ Seated /\ HeldIsTheServers /\ LookedUp)'
  BY <1>1, <1>2, <1>3 DEF IInv, Seeded, Seated, HeldIsTheServers, LookedUp
<1>9. Pooled'
  BY <1>1, <1>2, <1>3 DEF IInv, Pooled
<1> QED BY <1>4, <1>5, <1>6, <1>7, <1>8, <1>9 DEF IInv

(* The pool takes an owned key from no channel of the client's.            *)
LEMMA FillPoolIInv == ASSUME IInv, FillPool PROVE IInv'
<1> USE DEF FillPool
<1>2. decl' = decl /\ arrival' = arrival /\ request' = request
  BY DEF call
<1>3. /\ \A role : Having(role)' = Having(role)
      /\ Fields' = Fields /\ Owned' = Owned /\ Hidden' = Hidden
      /\ Url' = Url /\ Query' = Query /\ LookupReads' = LookupReads
      /\ Spreads' = Spreads /\ ServiceReads' = ServiceReads /\ CallerNames' = CallerNames
      /\ ValidatorFields' = ValidatorFields
  BY Standing DEF ValidatorFields
<1>4. TypeOK'
  BY FillPoolType DEF IInv
<1>5. Located'
  BY <1>2, <1>3 DEF IInv, Located, Keys, Has
<1>6. Argued'
  BY <1>2, <1>3 DEF IInv, Argued, Heard, Has
<1>7. Pooled'
  <2>1. \A n \in Names : pool'[n] = "client" =>
           \/ seeds[n] = "client" \/ seat[n] = "client" \/ values[n] = "client"
           \/ n \in ServiceReads /\ arguments[n] = "client"
    BY RoutingAssumption DEF Has
  <2>2. ASSUME NEW n \in (Hidden \ ServiceReads) \cup Owned, pool'[n] = "client"
        PROVE  seeds[n] = "client"
    <3>1. n \in Names /\ n \notin LookupReads
      BY Compiled DEF IInv
    <3>2. seat[n] # "client" /\ values[n] # "client"
      BY <3>1 DEF IInv, Seated, Valued
    <3>3. n \in ServiceReads => arguments[n] # "client"
      BY <2>2, Compiled DEF IInv, Argued, Heard, ValidatorFields
    <3> QED BY <2>1, <2>2, <3>1, <3>2, <3>3
  <2>3. ASSUME NEW n \in (Hidden \ ServiceReads) \cup Owned, n \in Fields,
               decl.source[n] \notin ServiceReads, pool'[decl.source[n]] = "client"
        PROVE  seeds[decl.source[n]] = "client"
    <3>1. decl.source[n] \in Names
      BY <2>3, Compiled, DeclarationType DEF IInv
    <3>2. seat[decl.source[n]] # "client" /\ values[decl.source[n]] # "client"
      BY <2>3, <3>1 DEF IInv, Seated, Spreads, Valued
    <3> QED BY <2>1, <2>3, <3>1, <3>2
  <2> QED BY <1>2, <1>3, <2>2, <2>3 DEF Pooled
<1>8. (Seeded /\ Seated /\ HeldIsTheServers /\ Valued /\ LookedUp)'
  BY <1>2, <1>3 DEF IInv, Seeded, Seated, HeldIsTheServers, Valued, LookedUp, validated
<1> QED BY <1>4, <1>5, <1>6, <1>7, <1>8 DEF IInv

LEMMA StutterIInv == ASSUME IInv, UNCHANGED vars PROVE IInv'
<1> USE DEF vars, validated
<1>1. UNCHANGED call
  BY DEF call
<1>2. /\ \A role : Having(role)' = Having(role)
      /\ Fields' = Fields /\ Owned' = Owned /\ Hidden' = Hidden
      /\ Url' = Url /\ Query' = Query /\ LookupReads' = LookupReads
      /\ Spreads' = Spreads /\ ServiceReads' = ServiceReads /\ CallerNames' = CallerNames
      /\ ValidatorFields' = ValidatorFields
  BY <1>1, Standing DEF ValidatorFields
<1>3. TypeOK'
  BY StutterType DEF IInv
<1>4. (Located /\ Argued)'
  BY <1>2 DEF IInv, Located, Argued, Heard, Keys, Has
<1>5. (Seeded /\ Seated /\ HeldIsTheServers /\ Valued /\ LookedUp)'
  BY <1>2 DEF IInv, Seeded, Seated, HeldIsTheServers, Valued, LookedUp
<1>6. Pooled'
  BY <1>2 DEF IInv, Pooled
<1> QED BY <1>3, <1>4, <1>5, <1>6 DEF IInv

LEMMA NextIInv == ASSUME IInv, [Next]_vars PROVE IInv'
  BY EdgeArgumentsIInv, RouteAuthorValuesIInv, RefuseIInv, SeedHiddenCapturesIInv,
     SeatAuthorValuesIInv, ResolveTargetIInv, ServerInputIInv, ValidateIInv, FillPoolIInv,
     StutterIInv DEF Next

THEOREM RoutingInvariant == Spec => []IInv
  BY InitIInv, NextIInv, PTL DEF Spec

-----------------------------------------------------------------------------
(* Over HTTP what the URL declares is the URL's, and off it a value sent   *)
(* fills only what the route left open.                                    *)
THEOREM UrlHolds == Spec => []UrlIsTheUrls
<1>1. ASSUME IInv PROVE UrlIsTheUrls
  <2>1. request.route \subseteq Names /\ url.route \in Maps
    BY <1>1 DEF IInv, TypeOK
  <2>2. \A n \in request.route : url.route[n] = "route"
    BY <1>1 DEF IInv, Located
  <2>3. arrival = "http" => Keys(url.route) = request.route
    BY <1>1, <2>1, <2>2, RoutingAssumption DEF IInv, Located, Keys, Has
  <2> QED BY <1>1, <2>2, <2>3 DEF IInv, Located, Argued, LookedUp, UrlIsTheUrls
<1> QED BY <1>1, RoutingInvariant, PTL

(* A field's client value never scopes the lookup that reads its name.     *)
THEOREM FieldHolds == Spec => []FieldScopesNoLookup
<1>1. IInv => FieldScopesNoLookup
  BY DEF IInv, LookedUp, FieldScopesNoLookup
<1> QED BY <1>1, RoutingInvariant, PTL

(* Where every call arrives over HTTP, or no lookup's own spec declares a  *)
(* UrlKwarg: the case the run input_routing_mark shows is needed.          *)
NoLookupUrlOffHttp == Arrivals \subseteq {"http"} \/ "lookup_url" \notin Roles

(* Then a hidden lookup key is never the client's.                         *)
THEOREM HiddenLookupKeyHolds ==
  ASSUME NoLookupUrlOffHttp PROVE Spec => []HiddenLookupKeyIsTheServers
<1>1. ASSUME IInv PROVE HiddenLookupKeyIsTheServers
  <2>1. arrival # "http" => Having("lookup_url") = {}
    BY <1>1, DeclarationType DEF IInv, TypeOK, NoLookupUrlOffHttp, Having, In
  <2> QED BY <1>1, <2>1 DEF IInv, LookedUp, HiddenLookupKeyIsTheServers
<1> QED BY <1>1, RoutingInvariant, PTL

(* And no key the server owns reaches a service parameter as the client's. *)
THEOREM NeverTheClientsHolds ==
  ASSUME NoLookupUrlOffHttp PROVE Spec => []NeverTheClients
<1>1. ASSUME IInv PROVE NeverTheClients
  <2>1. arrival # "http" => Having("lookup_url") = {}
    BY <1>1, DeclarationType DEF IInv, TypeOK, NoLookupUrlOffHttp, Having, In
  <2>2. \A n \in Names : seeds[n] # "client"
    BY <1>1, <2>1 DEF IInv, Seeded
  <2>3. \A n \in (Hidden \ ServiceReads) \cup Owned :
           n \in Names /\ (n \in Fields => decl.source[n] \in Names)
    BY <1>1, Compiled, DeclarationType DEF IInv
  <2> QED BY <1>1, <2>2, <2>3 DEF IInv, Pooled, NeverTheClients
<1> QED BY <1>1, RoutingInvariant, PTL

-----------------------------------------------------------------------------
(* Which channel scopes the target lookup.                                 *)

(* A value that may come of the query string: a declared parameter it      *)
(* held, and off HTTP no name the lookup reads from the route.             *)
FromQuery(n) ==
    /\ n \in Query \cap request.query
    /\ arrival # "http" => n \notin request.route \cap LookupReads

(* Nothing but an argument ever comes of the query string, and what the    *)
(* route captured for the lookup is no argument of the body's.             *)
Scoped ==
    /\ \A n \in Names : url.route[n] # "query" /\ extra[n] # "query" /\ seeds[n] # "query"
    /\ \A n \in Names : arguments[n] = "query" => FromQuery(n)
    /\ \A n \in request.route \cap LookupReads : arguments[n] # "client" /\ looked[n] # "client"
    /\ \A n \in Names : looked[n] = "query" => FromQuery(n)

(* At first nobody has given anything but the route its own. *)
LEMMA InitScoped == Init => Scoped
<1> SUFFICES ASSUME Init PROVE Scoped
  OBVIOUS
<1>1. request.route \subseteq Names /\ \A n \in Names : url.route[n] # "query"
  BY InitType, Somebody, RoutingAssumption DEF Init, TypeOK
<1>2. \A n \in Names : /\ arguments[n] = None /\ extra[n] = None /\ seeds[n] = None
                       /\ looked[n] = None
  BY Somebody DEF Init
<1> QED BY <1>1, <1>2, RoutingAssumption DEF Scoped

(* The arguments take the query string's value where the route holds none, *)
(* but over HTTP where it does too.                                        *)
LEMMA EdgeArgumentsScoped == ASSUME IInv, Scoped, EdgeArguments PROVE Scoped'
<1> USE DEF EdgeArguments
<1>1. /\ decl' = decl /\ arrival' = arrival /\ request' = request /\ request.route \subseteq Names
  BY DEF IInv, TypeOK, call
<1>2. LookupReads' = LookupReads /\ Query' = Query
  BY Standing
<1>3. \A n \in Names :
         /\ Routed[n] = IF n \in (Url \cup LookupReads) \cap request.route THEN "route"
                        ELSE FromBody[n]
         /\ FromBody[n] \in {"client", None}
  BY Somebody DEF FromBody, Routed
<1>4. \A n \in Names : Routed[n] # "query"
  BY <1>3, RoutingAssumption
<1>5. \A n \in Names : CallerArguments[n] \in {Queried[n], None}
  BY Somebody DEF CallerArguments
<1>6. \A n \in Names : Queried[n] = "query" => FromQuery(n)
  <2> SUFFICES ASSUME NEW n \in Names, Queried[n] = "query" PROVE FromQuery(n)
    OBVIOUS
  <2>1. n \in Query \cap request.query
    BY <1>4, Somebody, RoutingAssumption DEF Queried
  <2>2. CASE arrival # "http" /\ n \in request.route \cap LookupReads
    <3>1. Drop(Routed, {})[n] = "route"
      BY <1>3, <2>2, Somebody
    <3>2. n \in Keys(Drop(Routed, {}))
      BY <3>1, RoutingAssumption DEF Keys, Has
    <3>3. Queried[n] = "route"
      BY <2>2, <3>1, <3>2, Somebody DEF Queried
    <3> QED BY <3>3
  <2> QED BY <2>1, <2>2 DEF FromQuery
<1>7. \A n \in request.route \cap LookupReads : Queried[n] # "client"
  <2> SUFFICES ASSUME NEW n \in request.route \cap LookupReads PROVE Queried[n] # "client"
    OBVIOUS
  <2>1. n \in Names /\ Routed[n] = "route"
    BY <1>1, <1>3
  <2> QED BY <2>1, Somebody, RoutingAssumption DEF Queried
<1>8. \A n \in Names : url'.route[n] \in {url.route[n], Routed[n], None}
  <2> DEFINE onto == [n \in Names |-> IF n \in OntoRoute THEN Routed[n] ELSE None]
  <2>1. url'.route = Over(url.route, onto)
    OBVIOUS
  <2>2. \A n \in Names : onto[n] \in {Routed[n], None}
    OBVIOUS
  <2> HIDE DEF onto
  <2> QED BY <2>1, <2>2, Somebody
<1>9. \A n \in Names : FromQuery(n)' = FromQuery(n)
  BY <1>1, <1>2 DEF FromQuery
<1>10. \A n \in Names : url'.route[n] # "query"
  BY <1>4, <1>8, RoutingAssumption DEF Scoped
<1>11. \A n \in Names : arguments'[n] = "query" => FromQuery(n)
  BY <1>5, <1>6, RoutingAssumption
<1>12. \A n \in request.route \cap LookupReads : arguments'[n] # "client"
  BY <1>1, <1>5, <1>7, RoutingAssumption
<1> QED BY <1>1, <1>2, <1>9, <1>10, <1>11, <1>12 DEF Scoped

(* The authors' values are theirs. *)
LEMMA RouteAuthorValuesScoped == ASSUME IInv, Scoped, RouteAuthorValues PROVE Scoped'
<1>1. PICK hooks \in SUBSET Names, provided \in SUBSET Names : RouteAuthorValues!(hooks, provided)
  BY DEF RouteAuthorValues, Speaks, Answers, Owned, Having, In
<1>2. /\ decl' = decl /\ arrival' = arrival /\ request' = request /\ request.route \subseteq Names
  BY <1>1 DEF IInv, TypeOK, call
<1>3. LookupReads' = LookupReads /\ Query' = Query
  BY <1>1, Standing
<1>4. \A n \in Names : /\ arguments'[n] \in {arguments[n], "hook", "provider", None}
                       /\ extra'[n] \in {"hook", "provider", None}
  BY <1>1, Somebody
<1>5. \A n \in Names : FromQuery(n)' = FromQuery(n)
  BY <1>2, <1>3 DEF FromQuery
<1>6. \A n \in Names : extra'[n] # "query" /\ (arguments'[n] = "query" => FromQuery(n))
  BY <1>4, RoutingAssumption DEF Scoped
<1>7. \A n \in request.route \cap LookupReads : arguments'[n] # "client"
  BY <1>2, <1>4, RoutingAssumption DEF Scoped
<1> QED BY <1>1, <1>2, <1>3, <1>5, <1>6, <1>7 DEF Scoped

(* A capture's seed is the route's or an author's. *)
LEMMA SeedHiddenCapturesScoped == ASSUME IInv, Scoped, SeedHiddenCaptures PROVE Scoped'
<1> USE DEF SeedHiddenCaptures, Seeding
<1>1. /\ decl' = decl /\ arrival' = arrival /\ request' = request /\ request.route \subseteq Names
  BY DEF IInv, TypeOK, call
<1>2. LookupReads' = LookupReads /\ Query' = Query
  BY Standing
<1>3. \A n \in Names : /\ seeds'[n] \in {"seed", None, extra[n], url.route[n]}
                       /\ extra'[n] \in {extra[n], None}
  BY Somebody
<1>4. \A n \in Names : seeds'[n] # "query" /\ extra'[n] # "query"
  BY <1>3, RoutingAssumption DEF Scoped
<1>5. \A n \in Names : FromQuery(n)' = FromQuery(n)
  BY <1>1, <1>2 DEF FromQuery
<1> QED BY <1>1, <1>2, <1>4, <1>5 DEF Scoped

(* The lookup is handed a seed, its provider's value or the argument. *)
LEMMA ResolveTargetScoped == ASSUME IInv, Scoped, ResolveTarget PROVE Scoped'
<1>1. PICK declined \in SUBSET Having("lookup_owned") : ResolveTarget!(declined)
  BY DEF ResolveTarget
<1>2. /\ decl' = decl /\ arrival' = arrival /\ request' = request /\ request.route \subseteq Names
  BY <1>1 DEF IInv, TypeOK, call
<1>3. LookupReads' = LookupReads /\ Query' = Query
  BY <1>1, Standing
<1>4. \A n \in Names : looked'[n] \in {None, "lookup", seeds[n], arguments[n]}
  BY <1>1
<1>5. \A n \in Names : FromQuery(n)' = FromQuery(n)
  BY <1>2, <1>3 DEF FromQuery
<1>6. \A n \in Names : looked'[n] = "query" => FromQuery(n)
  BY <1>4, RoutingAssumption DEF Scoped
<1>7. \A n \in request.route \cap LookupReads : looked'[n] # "client"
  <2> SUFFICES ASSUME NEW n \in request.route \cap LookupReads PROVE looked'[n] # "client"
    OBVIOUS
  <2>1. n \in Names /\ n \notin Having("lookup_hides")
    BY <1>2, Compiled DEF IInv, Hidden
  <2>2. seeds[n] # "client"
    BY <2>1 DEF IInv, Seeded
  <2> QED BY <1>4, <2>1, <2>2, RoutingAssumption DEF Scoped
<1> QED BY <1>1, <1>2, <1>3, <1>5, <1>6, <1>7 DEF Scoped

(* input_data is an author's, and nothing else is read again. *)
LEMMA LaterScoped ==
  ASSUME IInv, Scoped,
         \/ SeatAuthorValues \/ ServerInput \/ Validate \/ FillPool
         \/ RefuseSeedNamed \/ RefuseSeated \/ UNCHANGED vars
  PROVE  Scoped'
<1>1. /\ decl' = decl /\ arrival' = arrival /\ request' = request /\ request.route \subseteq Names
      /\ UNCHANGED <<url, seeds, looked>>
  BY DEF IInv, TypeOK, call, vars, SeatAuthorValues, ServerInput, Validate, FillPool,
         RefuseSeedNamed, RefuseSeated
<1>2. LookupReads' = LookupReads /\ Query' = Query
  BY <1>1, Standing DEF call
<1>3. \A n \in Names : arguments'[n] \in {arguments[n], "input"} /\ extra'[n] \in {extra[n], None}
  BY Somebody DEF vars, SeatAuthorValues, ServerInput, Validate, FillPool, RefuseSeedNamed,
                  RefuseSeated
<1>4. \A n \in Names : FromQuery(n)' = FromQuery(n)
  BY <1>1, <1>2 DEF FromQuery
<1>5. \A n \in Names : extra'[n] # "query" /\ (arguments'[n] = "query" => FromQuery(n))
  BY <1>3, RoutingAssumption DEF Scoped
<1>6. \A n \in request.route \cap LookupReads : arguments'[n] # "client"
  BY <1>1, <1>3, RoutingAssumption DEF Scoped
<1> QED BY <1>1, <1>2, <1>4, <1>5, <1>6 DEF Scoped

LEMMA ScopedAlways == Spec => []Scoped
<1>1. ASSUME IInv, Scoped, [Next]_vars PROVE Scoped'
  BY <1>1, EdgeArgumentsScoped, RouteAuthorValuesScoped, SeedHiddenCapturesScoped,
     ResolveTargetScoped, LaterScoped DEF Next
<1> QED BY <1>1, InitScoped, RoutingInvariant, PTL DEF Spec

(* Off HTTP, and where no QueryParam is declared, the route scopes the     *)
(* lookup: edge_arguments' comment holds there, and input_routing_query    *)
(* shows it does not of a live view's QueryParam the lookup also reads.    *)
THEOREM RouteScopesOffHTTP ==
  ASSUME "http" \notin Arrivals \/ "query" \notin Roles PROVE Spec => []RouteScopesTheLookup
<1>1. ASSUME IInv, Scoped PROVE RouteScopesTheLookup
  <2> SUFFICES ASSUME NEW n \in request.route \cap LookupReads, looked[n] = "query" PROVE FALSE
    BY DEF RouteScopesTheLookup
  <2>1. FromQuery(n) /\ n \in Names
    BY <1>1 DEF Scoped, IInv, TypeOK
  <2>2. "query" \in Roles
    BY <1>1, <2>1, DeclarationType DEF IInv, FromQuery, Query, Having, In
  <2>3. arrival = "http" /\ arrival \in Arrivals
    BY <1>1, <2>1 DEF FromQuery, IInv, TypeOK
  <2> QED BY <2>2, <2>3
<1> QED BY <1>1, RoutingInvariant, ScopedAlways, PTL

(* No lookup parameter the route captured is ever scoped by the body, and  *)
(* the query string scopes none but a QueryParam it held.                  *)
RouteNeverTheBodys ==
    /\ \A n \in request.route \cap LookupReads : looked[n] # "client"
    /\ \A n \in Names : looked[n] = "query" => n \in Query \cap request.query

(* However the call arrived, whatever its authors said.                    *)
THEOREM RouteNeverTheBodysHolds == Spec => []RouteNeverTheBodys
<1>1. Scoped => RouteNeverTheBodys
  BY DEF Scoped, FromQuery, RouteNeverTheBodys
<1> QED BY <1>1, ScopedAlways, PTL

=============================================================================
