----------------------- MODULE SelectorRouting_proofs -----------------------
(***************************************************************************)
(* Whose value a filter and its callables read, for any names, any         *)
(* declaration and any request.                                            *)
(***************************************************************************)
EXTENDS SelectorRouting, TLAPS

Before == {"arguments", "beside"}
Authoring == {"filter", "author", "route"}
Handing == {"select", "selecting", "shape", "gate", "served"}

(* Only a declared UrlKwarg goes onto view.kwargs. *)
RouteKept ==
    \A n \in Names :
        /\ route[n] \in {"client", "route", None}
        /\ route[n] = "client" => n \in In(decl, "url")
        /\ route[n] = "route" <=> n \in request.route

(* A hook answers no owned key, and no author declines a marked filter's. *)
NamedKept ==
    /\ \A n \in Names :
          /\ named.hook[n] \in {"hook", "declined", None}
          /\ named.provider[n] \in {"provider", "declined", None}
          /\ n \in Shadowed => named.hook[n] # "declined" /\ named.provider[n] # "declined"
    /\ \A n \in Owned : named.hook[n] = None

(* What an argument holds once the caller's are gathered, and until the    *)
(* authors' are put over them.                                             *)
ArgumentKept(n) ==
    /\ arguments[n] = "filter" => n \in Filters
    /\ OverHTTP /\ arguments[n] = "query" => n \in Filters \cup In(decl, "query")
    /\ arguments[n] = "hook" => n \notin Filters
    /\ stage # "arguments" /\ request.bundled /\ arguments[n] = "client" =>
          n \in Declared \cup Filters \cup Hidden
    /\ stage \notin Handing => arguments[n] \notin {"hook", "provider"}
    /\ stage \in Before => arguments[n] # "filter"
    /\ stage \in Before /\ OverHTTP /\ arguments[n] = "query" => n \in In(decl, "query")
    /\ stage \notin Before \cup {"filter"} /\ request.filters /\ n \in Shadowed =>
          arguments[n] \in {"filter", None}
    /\ stage \in Handing => arguments[n] # "declined"

(* What the caller sends to a filter stays its own under BUNDLE.           *)
SentKept(n) ==
    (/\ stage # "arguments" /\ request.bundled /\ ~request.filters
     /\ n \in (request.sent \cap Filters) \ (request.route \cup Owned)
     /\ stage \in Handing => n \notin Given(named.provider))
      => arguments[n] = "client"

(* What is put aside under a filter's name.                                *)
BesideKept(n) ==
    /\ beside[n] \notin {"filter", "inner"}
    /\ OverHTTP /\ beside[n] = "query" => n \in In(decl, "query")
    /\ request.bundled /\ beside[n] = "client" => n \in Declared

(* Once the authors have answered, theirs are over every other value.      *)
AuthorsFirst ==
    stage \in Handing =>
        /\ extra = Extras
        /\ \A n \in Beside : Answered[n] # None => beside[n] = Answered[n]
        /\ \A n \in Names :
              /\ n \in Given(named.provider) /\ n \in Reads \ Shadowed => arguments[n] = "provider"
              /\ n \in Given(named.hook) \ Given(named.provider) /\ n \in Reads \ Filters =>
                    arguments[n] = "hook"
              /\ n \in Owned => arguments[n] \in {"provider", None}

(* What has been handed over.                                              *)
HandedOver ==
    /\ seen = IF stage \in Handing \ {"select"} THEN Handed(Pool) ELSE Nothing
    /\ gated = IF stage = "served" THEN Handed(Pool) ELSE Nothing
    /\ filtered = IF stage \in {"gate", "served"} THEN Only(arguments, Filters) ELSE Nothing
    /\ inner.dispatched = "another" =>
          \A n \in Names : inner.handed[n] \in {"inner", "provider", None}
    /\ \A n \in Hidden : inner.handed[n] \in {"provider", None}

IInv ==
    /\ TypeOK
    /\ RouteKept
    /\ NamedKept
    /\ \A n \in Names : ArgumentKept(n) /\ SentKept(n) /\ BesideKept(n)
    /\ AuthorsFirst
    /\ HandedOver

-----------------------------------------------------------------------------
(* The declaration.                                                        *)

(* One channel to a read, and a marked name is none.                       *)
LEMMA Declares ==
    ASSUME TypeOK
    PROVE  /\ decl \in [Names -> SUBSET Roles]
           /\ \A n \in Names : ~("url" \in decl[n] /\ "query" \in decl[n])
           /\ \A n \in Names : "hides" \in decl[n] => "url" \notin decl[n] /\ "query" \notin decl[n]
BY DEF TypeOK, Declarations, Compiles, In

(* How a request may arrive.                                               *)
LEMMA Requested ==
    ASSUME TypeOK
    PROVE  /\ request.sent \subseteq Names /\ request.route \subseteq Names
           /\ request.query \subseteq Names /\ request.filter \subseteq Names
           /\ request.bundled \in BOOLEAN /\ request.filters \in BOOLEAN
           /\ request.arrival = "http" => request.bundled /\ request.sent = {} /\ request.filters
BY DEF TypeOK, Requests

-----------------------------------------------------------------------------
(* The initial state.                                                      *)

LEMMA Initially == Init => IInv
<1>1. SUFFICES ASSUME Init PROVE IInv
  OBVIOUS
<1>2. TypeOK
  BY <1>1 DEF None, Init, TypeOK, Maps, Sent, ServerMaps, Who, Put, Nothing
<1>3. RouteKept
  BY <1>1 DEF None, Init, RouteKept, Put, Nothing, Who
<1>4. NamedKept
  BY <1>1 DEF None, Init, NamedKept, Nothing, Owned, In, Who
<1>5. ASSUME NEW n \in Names PROVE ArgumentKept(n) /\ SentKept(n) /\ BesideKept(n)
  BY <1>1
     DEF None, Init, ArgumentKept, SentKept, BesideKept, Nothing, Who, Handing, Before
<1>6. AuthorsFirst
  BY <1>1 DEF Init, AuthorsFirst, Handing
<1>7. HandedOver
  BY <1>1 DEF Init, HandedOver, Handing, Nothing, Hidden, In
<1>8. QED
  BY <1>2, <1>3, <1>4, <1>5, <1>6, <1>7 DEF IInv

-----------------------------------------------------------------------------
(* The steps that gather the arguments.                                    *)

(* A step leaves the declaration and the request as they were.             *)
LEMMA CallStays ==
    ASSUME UNCHANGED call
    PROVE  /\ decl' = decl /\ request' = request
           /\ Filters' = Filters /\ Hidden' = Hidden /\ Declared' = Declared /\ Shadowed' = Shadowed
           /\ Beside' = Beside /\ Reads' = Reads /\ Owned' = Owned /\ OverHTTP' = OverHTTP
           /\ In(decl, "url")' = In(decl, "url") /\ In(decl, "query")' = In(decl, "query")
BY DEF call, Filters, Hidden, Declared, Shadowed, Beside, Reads, Owned, OverHTTP, In

LEMMA EdgeArgumentsKeeps == IInv /\ EdgeArguments => IInv'
<1>1. SUFFICES ASSUME IInv, EdgeArguments PROVE IInv'
  OBVIOUS
<1>2. /\ TypeOK /\ stage = "arguments" /\ stage' = "beside" /\ UNCHANGED call
      /\ UNCHANGED <<named, beside, extra, seen, gated, inner, filtered>>
  BY <1>1 DEF IInv, EdgeArguments, handed
<1>3. /\ decl \in [Names -> SUBSET Roles]
      /\ \A n \in Names : ~("url" \in decl[n] /\ "query" \in decl[n])
      /\ \A n \in Names : "hides" \in decl[n] => "url" \notin decl[n] /\ "query" \notin decl[n]
  BY <1>2, Declares
<1>4. /\ request.sent \subseteq Names /\ request.route \subseteq Names
      /\ request.query \subseteq Names /\ request.filter \subseteq Names
      /\ request.arrival = "http" => request.bundled /\ request.sent = {} /\ request.filters
  BY <1>2, Requested
<1>5. /\ Filters' = Filters /\ Hidden' = Hidden /\ Declared' = Declared /\ Shadowed' = Shadowed
      /\ Beside' = Beside /\ Reads' = Reads /\ Owned' = Owned /\ OverHTTP' = OverHTTP
      /\ In(decl, "url")' = In(decl, "url") /\ In(decl, "query")' = In(decl, "query")
      /\ decl' = decl /\ request' = request
  BY <1>2, CallStays
<1>6. /\ route' \in Maps
      /\ \A n \in Names : route'[n] \in {"client", "route", None}
      /\ \A n \in Names : route'[n] = "client" => n \in In(decl, "url")
      /\ \A n \in Names : route'[n] = "route" <=> n \in request.route
  BY <1>1, <1>2, <1>5
     DEF None, IInv, RouteKept, EdgeArguments, OntoRoute, Put, Maps, TypeOK, Who
<1>7. ASSUME NEW n \in Names
      PROVE  /\ Queried[n] \in {"client", "route", "query", None}
             /\ Queried[n] = "client" => n \notin Reads \cap request.route
             /\ OverHTTP /\ Queried[n] = "query" => n \in In(decl, "query")
             /\ n \in request.sent \ request.route /\ ~OverHTTP => Queried[n] = "client"
  <2>1. /\ Routed[n] = IF n \in Reads \cap request.route THEN "route"
                       ELSE IF n \in request.sent \ (IF OverHTTP THEN In(decl, "url") ELSE {})
                       THEN "client" ELSE None
        /\ \A m \in Names : Routed[m] \in {"route", "client", None}
    BY DEF Routed, Put, Nothing
  <2> DEFINE kept == Drop(Routed, IF OverHTTP THEN In(decl, "query") ELSE {})
  <2>2. kept[n] = IF OverHTTP /\ n \in In(decl, "query") THEN None ELSE Routed[n]
    BY DEF Drop, Put
  <2>3. Queried[n] = IF n \in (In(decl, "query") \cap request.query) \ Keys(kept)
                     THEN "query" ELSE kept[n]
    BY DEF Queried, Put
  <2>4. kept[n] # None => n \in Keys(kept)
    BY DEF Keys
  <2> HIDE DEF kept
  <2>5. None \notin {"client", "route", "query"}
    BY DEF None, Who
  <2>6. QED
    BY <2>1, <2>2, <2>3, <2>4, <2>5
<1>8. /\ arguments' \in Sent
      /\ \A n \in Names :
            /\ arguments'[n] \in {Queried[n], None}
            /\ n \in Filters => arguments'[n] = Queried[n]
            /\ request.bundled /\ arguments'[n] = "client" => n \in Declared \cup Filters \cup Hidden
  <2>1. ASSUME NEW n \in Names
        PROVE  arguments'[n] = IF request.bundled /\ n \in CallerNames \ Keys(route')
                               THEN None ELSE Queried[n]
    BY <1>1 DEF EdgeArguments, Drop, Put
  <2>2. arguments' = [n \in Names |-> arguments'[n]]
    BY <1>1 DEF EdgeArguments, Drop, Put
  <2>3. None \notin {"client", "route", "query"}
    BY DEF None, Who
  <2>4. ASSUME NEW n \in Names, request.bundled, arguments'[n] = "client"
        PROVE  n \in Declared \cup Filters \cup Hidden
    BY <1>6, <1>7, <2>1, <2>3, <2>4 DEF CallerNames, Keys, Reads, Declared
  <2>5. arguments' \in Sent
    <3>1. \A n \in Names : arguments'[n] \in {"client", "route", "query", None}
      BY <1>7, <2>1
    <3>2. QED
      BY <2>2, <3>1 DEF Sent
  <2>6. QED
    BY <2>1, <2>4, <2>5 DEF CallerNames
<1>9. TypeOK'
  BY <1>2, <1>5, <1>6, <1>8 DEF TypeOK, Maps
<1>10. RouteKept'
  BY <1>5, <1>6 DEF RouteKept
<1>11. NamedKept'
  BY <1>1, <1>2, <1>5 DEF IInv, NamedKept
<1>12. ASSUME NEW n \in Names PROVE ArgumentKept(n)'
  BY <1>2, <1>5, <1>7, <1>8 DEF None, ArgumentKept, Before, Handing, Who
<1>13. ASSUME NEW n \in Names PROVE SentKept(n)'
  BY <1>2, <1>4, <1>5, <1>7, <1>8 DEF SentKept, OverHTTP
<1>14. ASSUME NEW n \in Names PROVE BesideKept(n)'
  BY <1>1, <1>2, <1>5 DEF IInv, BesideKept
<1>15. AuthorsFirst' /\ HandedOver'
  BY <1>1, <1>2, <1>5 DEF IInv, AuthorsFirst, HandedOver, Handing, Nothing
<1>16. QED
  BY <1>9, <1>10, <1>11, <1>12, <1>13, <1>14, <1>15 DEF IInv

LEMMA PutBesideKeeps == IInv /\ PutBeside => IInv'
<1>1. SUFFICES ASSUME IInv, PutBeside PROVE IInv'
  OBVIOUS
<1>2. /\ TypeOK /\ stage = "beside" /\ stage' = "filter" /\ UNCHANGED call
      /\ UNCHANGED <<route, arguments, named, extra, seen, gated, inner, filtered>>
  BY <1>1 DEF IInv, PutBeside, handed
<1>3. /\ Filters' = Filters /\ Hidden' = Hidden /\ Declared' = Declared /\ Shadowed' = Shadowed
      /\ Beside' = Beside /\ Reads' = Reads /\ Owned' = Owned /\ OverHTTP' = OverHTTP
      /\ In(decl, "url")' = In(decl, "url") /\ In(decl, "query")' = In(decl, "query")
      /\ decl' = decl /\ request' = request
  BY <1>2, CallStays
<1>4. ASSUME NEW n \in Names
      PROVE  /\ beside'[n] \in {route[n], arguments[n], None}
             /\ n \in Declared \/ ~request.bundled \/ beside'[n] \in {route[n], None}
  BY <1>1 DEF PutBeside, BesideFilter, CapturedFilters, Over, Only
<1>5. /\ route \in Maps /\ arguments \in Sent
      /\ \A n \in Names : /\ route[n] \in {"client", "route", None}
                          /\ route[n] = "client" => n \in Declared
  BY <1>1 DEF IInv, TypeOK, RouteKept, Declared
<1>6. beside' \in Maps
  BY <1>1, <1>4, <1>5 DEF PutBeside, BesideFilter, Over, Maps, Sent, Who
<1>7. TypeOK'
  BY <1>2, <1>3, <1>6 DEF TypeOK, Maps, Sent, ServerMaps
<1>8. RouteKept' /\ NamedKept'
  BY <1>1, <1>2, <1>3 DEF IInv, RouteKept, NamedKept
<1>9. ASSUME NEW n \in Names PROVE ArgumentKept(n)' /\ SentKept(n)'
  BY <1>1, <1>2, <1>3 DEF IInv, ArgumentKept, SentKept, Before, Handing
<1>10. ASSUME NEW n \in Names PROVE BesideKept(n)'
  <2>1. ArgumentKept(n)
    BY <1>1 DEF IInv
  <2>2. arguments[n] # "inner"
    BY <1>5 DEF None, Sent, Who
  <2>3. QED
    BY <1>2, <1>3, <1>4, <1>5, <2>1, <2>2
       DEF None, ArgumentKept, BesideKept, Before, Who
<1>11. AuthorsFirst' /\ HandedOver'
  BY <1>1, <1>2, <1>3 DEF IInv, AuthorsFirst, HandedOver, Handing, Nothing
<1>12. QED
  BY <1>7, <1>8, <1>9, <1>10, <1>11 DEF IInv

LEMMA RouteFilterDataKeeps == IInv /\ RouteFilterData => IInv'
<1>1. SUFFICES ASSUME IInv, RouteFilterData PROVE IInv'
  OBVIOUS
<1>2. /\ TypeOK /\ stage = "filter" /\ stage' = "author" /\ UNCHANGED call
      /\ arguments' = FilterData
      /\ UNCHANGED <<route, named, beside, extra, seen, gated, inner, filtered>>
  BY <1>1 DEF IInv, RouteFilterData, handed
<1>3. /\ Filters' = Filters /\ Hidden' = Hidden /\ Declared' = Declared /\ Shadowed' = Shadowed
      /\ Beside' = Beside /\ Reads' = Reads /\ Owned' = Owned /\ OverHTTP' = OverHTTP
      /\ In(decl, "url")' = In(decl, "url") /\ In(decl, "query")' = In(decl, "query")
      /\ decl' = decl /\ request' = request
  BY <1>2, CallStays
<1>4. /\ arguments' \in Sent
      /\ ~request.filters => arguments' = arguments
      /\ \A n \in Names :
            /\ n \notin Filters => arguments'[n] = arguments[n]
            /\ request.filters /\ n \in Filters => arguments'[n] \in {"filter", None}
  BY <1>2 DEF FilterData, Put, Drop, TypeOK, Sent
<1>5. TypeOK'
  BY <1>2, <1>3, <1>4 DEF TypeOK, Maps, ServerMaps
<1>6. RouteKept' /\ NamedKept'
  BY <1>1, <1>2, <1>3 DEF IInv, RouteKept, NamedKept
<1>7. ASSUME NEW n \in Names PROVE ArgumentKept(n)' /\ SentKept(n)' /\ BesideKept(n)'
  BY <1>1, <1>2, <1>3, <1>4
     DEF None, IInv, ArgumentKept, SentKept, BesideKept, Before, Handing, Shadowed, Who
<1>8. AuthorsFirst' /\ HandedOver'
  BY <1>1, <1>2, <1>3 DEF IInv, AuthorsFirst, HandedOver, Handing, Nothing
<1>9. QED
  BY <1>5, <1>6, <1>7, <1>8 DEF IInv

-----------------------------------------------------------------------------
(* The steps that put the authors' values over them.                       *)

LEMMA AnswerKeeps == IInv /\ Answer => IInv'
<1>1. SUFFICES ASSUME IInv, Answer PROVE IInv'
  OBVIOUS
<1>2. /\ TypeOK /\ stage = "author" /\ stage' = "route" /\ UNCHANGED call
      /\ UNCHANGED <<route, arguments, beside, extra, seen, gated, inner, filtered>>
  BY <1>1 DEF IInv, Answer, handed
<1>3. /\ Filters' = Filters /\ Hidden' = Hidden /\ Declared' = Declared /\ Shadowed' = Shadowed
      /\ Beside' = Beside /\ Reads' = Reads /\ Owned' = Owned /\ OverHTTP' = OverHTTP
      /\ In(decl, "url")' = In(decl, "url") /\ In(decl, "query")' = In(decl, "query")
      /\ decl' = decl /\ request' = request
  BY <1>2, CallStays
<1>4. PICK hooks \in Answers("hook"), provided \in Answers("provider") :
        named' = [hook |-> Drop(hooks, Owned), provider |-> provided]
  BY <1>1 DEF Answer
<1>5. /\ hooks \in [Names -> {"hook", "declined", None}]
      /\ provided \in [Names -> {"provider", "declined", None}]
      /\ \A n \in Names : n \in Shadowed => hooks[n] # "declined" /\ provided[n] # "declined"
  BY <1>4 DEF Answers
<1>6. /\ named'.hook = [n \in Names |-> IF n \in Owned THEN None ELSE hooks[n]]
      /\ named'.provider = provided
  BY <1>4 DEF Drop, Put
<1>7. named' \in [hook : Maps, provider : Maps]
  <2>1. Drop(hooks, Owned) \in Maps /\ provided \in Maps
    BY <1>5 DEF Drop, Put, Maps, Who
  <2>2. QED
    BY <1>4, <2>1
<1>8. TypeOK'
  BY <1>2, <1>3, <1>7 DEF TypeOK, Maps, Sent, ServerMaps
<1>9. NamedKept'
  <2>1. Owned \subseteq Names
    BY DEF Owned, In
  <2>2. QED
    BY <1>3, <1>5, <1>6, <2>1 DEF None, NamedKept, Who
<1>10. RouteKept'
  BY <1>1, <1>2, <1>3 DEF IInv, RouteKept
<1>11. ASSUME NEW n \in Names PROVE ArgumentKept(n)' /\ SentKept(n)' /\ BesideKept(n)'
  BY <1>1, <1>2, <1>3
     DEF IInv, ArgumentKept, SentKept, BesideKept, Before, Handing
<1>12. AuthorsFirst' /\ HandedOver'
  BY <1>1, <1>2, <1>3 DEF IInv, AuthorsFirst, HandedOver, Handing, Nothing
<1>13. QED
  BY <1>8, <1>9, <1>10, <1>11, <1>12 DEF IInv

LEMMA RouteAuthorValuesKeeps == IInv /\ RouteAuthorValues => IInv'
<1>1. SUFFICES ASSUME IInv, RouteAuthorValues PROVE IInv'
  OBVIOUS
<1>2. /\ TypeOK /\ stage = "route" /\ stage' = "select" /\ UNCHANGED call
      /\ arguments' = AuthoredArguments /\ beside' = Over(BesideAnswers, beside) /\ extra' = Extras
      /\ UNCHANGED <<route, named, seen, gated, inner, filtered>>
  BY <1>1 DEF IInv, RouteAuthorValues, handed
<1>3. /\ Filters' = Filters /\ Hidden' = Hidden /\ Declared' = Declared /\ Shadowed' = Shadowed
      /\ Beside' = Beside /\ Reads' = Reads /\ Owned' = Owned /\ OverHTTP' = OverHTTP
      /\ In(decl, "url")' = In(decl, "url") /\ In(decl, "query")' = In(decl, "query")
      /\ decl' = decl /\ request' = request
  BY <1>2, CallStays
<1>4. None \notin Who /\ "declined" \in Who /\ "hook" \in Who /\ "provider" \in Who
  BY DEF None, Who
<1>5. ASSUME NEW n \in Names
      PROVE  /\ n \in Given(named.hook) => named.hook[n] = "hook"
             /\ n \in Given(named.provider) => named.provider[n] = "provider"
             /\ n \in Owned => n \notin Given(named.hook)
  BY <1>1 DEF IInv, NamedKept, Given
<1>6. ASSUME NEW n \in Names
      PROVE  arguments'[n] = IF n \in Given(named.provider) \cap (Reads \ Shadowed) THEN "provider"
                             ELSE IF n \in Given(named.hook) \cap (Reads \ Filters) THEN "hook"
                             ELSE IF n \in Owned THEN None ELSE arguments[n]
  <2>1. Only(Valued(named.provider), Reads \ Shadowed)[n]
          = IF n \in Given(named.provider) \cap (Reads \ Shadowed) THEN "provider" ELSE None
    BY <1>5 DEF Only, Valued
  <2>2. Only(Valued(named.hook), Reads \ Filters)[n]
          = IF n \in Given(named.hook) \cap (Reads \ Filters) THEN "hook" ELSE None
    BY <1>5 DEF Only, Valued
  <2>3. Drop(arguments, Owned)[n] = IF n \in Owned THEN None ELSE arguments[n]
    BY DEF Drop, Put
  <2>4. QED
    BY <1>2, <1>4, <2>1, <2>2, <2>3 DEF AuthoredArguments, Over
<1>7. ASSUME NEW n \in Names
      PROVE  beside'[n] = IF n \in Beside /\ Answered[n] # None THEN Answered[n] ELSE beside[n]
  BY <1>2 DEF BesideAnswers, Only, Over
<1>8. ASSUME NEW n \in Names
      PROVE  Answered[n] \in {"hook", "provider", "declined", None}
  BY <1>1 DEF IInv, NamedKept, Answered, Over
<1>9. arguments' \in Sent
  <2>1. arguments' = [n \in Names |-> arguments'[n]]
    BY <1>2 DEF AuthoredArguments, Over
  <2>2. \A n \in Names : arguments[n] \in {"client", "route", "query", "filter", "hook", "provider", None}
    BY <1>2 DEF TypeOK, Sent
  <2>3. \A n \in Names : arguments'[n] \in {"client", "route", "query", "filter", "hook", "provider", None}
    BY <1>6, <2>2
  <2>4. QED
    BY <2>1, <2>3 DEF Sent
<1>10. beside' \in Maps
  <2>1. beside' = [n \in Names |-> beside'[n]]
    BY <1>2 DEF Over
  <2>2. \A n \in Names : beside[n] \in Who \cup {None}
    BY <1>2 DEF TypeOK, Maps
  <2>3. \A n \in Names : beside'[n] \in Who \cup {None}
    BY <1>4, <1>7, <1>8, <2>2
  <2>4. QED
    BY <2>1, <2>3 DEF Maps
<1>11. extra' \in ServerMaps
  <2>1. extra' = [n \in Names |-> extra'[n]]
    BY <1>2 DEF Extras, Over
  <2>2. ASSUME NEW n \in Names PROVE Authored[n] \in {"hook", "provider", None}
    BY <1>5 DEF Authored, Valued, Only, Over
  <2>3. ASSUME NEW n \in Names, n \in Hidden PROVE route[n] \in {"route", None}
    <3>1. n \notin In(decl, "url")
      BY <1>2, <2>3, Declares DEF Hidden, In
    <3>2. QED
      BY <1>1, <3>1 DEF IInv, RouteKept
  <2>4. ASSUME NEW n \in Names PROVE extra'[n] \in {"route", "hook", "provider", None}
    BY <1>2, <2>2, <2>3 DEF Extras, Only, Over
  <2>5. QED
    BY <2>1, <2>4 DEF ServerMaps
<1>12. TypeOK'
  BY <1>2, <1>3, <1>9, <1>10, <1>11 DEF TypeOK, Maps, Sent
<1>13. RouteKept' /\ NamedKept'
  BY <1>1, <1>2, <1>3 DEF IInv, RouteKept, NamedKept
<1>14. ASSUME NEW n \in Names PROVE ArgumentKept(n)'
  <2>1. ArgumentKept(n) /\ arguments[n] # "declined"
    BY <1>1, <1>4 DEF IInv, TypeOK, Sent
  <2>2. Reads \subseteq Names /\ Shadowed \subseteq Filters
    BY DEF Reads, Shadowed, Filters, In
  <2>3. None \notin {"filter", "query", "hook", "client", "declined"}
    BY DEF None, Who
  <2>4. QED
    BY <1>2, <1>3, <1>6, <2>1, <2>2, <2>3 DEF ArgumentKept, Before, Handing
<1>15. ASSUME NEW n \in Names PROVE SentKept(n)'
  <2>1. SentKept(n)
    BY <1>1 DEF IInv
  <2>2. Given(named.provider)' = Given(named.provider)
    BY <1>2 DEF Given
  <2>3. QED
    BY <1>2, <1>3, <1>6, <2>1, <2>2 DEF SentKept, Handing
<1>16. ASSUME NEW n \in Names PROVE BesideKept(n)'
  <2>1. BesideKept(n)
    BY <1>1 DEF IInv
  <2>2. QED
    BY <1>3, <1>4, <1>7, <1>8, <2>1 DEF None, BesideKept, Who
<1>17. AuthorsFirst'
  <2>1. Extras' = Extras /\ Answered' = Answered
    BY <1>2, <1>3 DEF Extras, Authored, Answered, Valued, Only, Over, Given
  <2>2. Given(named.provider)' = Given(named.provider) /\ Given(named.hook)' = Given(named.hook)
    BY <1>2 DEF Given
  <2>3. Beside \subseteq Names /\ Shadowed \subseteq Filters /\ Owned \cap Shadowed = {}
    BY DEF Beside, Shadowed, Filters, Owned, In
  <2>4. ASSUME NEW n \in Names
        PROVE  /\ n \in Given(named.provider) /\ n \in Reads \ Shadowed => arguments'[n] = "provider"
               /\ n \in Given(named.hook) \ Given(named.provider) /\ n \in Reads \ Filters =>
                     arguments'[n] = "hook"
               /\ n \in Owned => arguments'[n] \in {"provider", None}
    BY <1>5, <1>6
  <2>5. QED
    BY <1>2, <1>3, <1>7, <2>1, <2>2, <2>3, <2>4 DEF AuthorsFirst
<1>18. HandedOver'
  BY <1>1, <1>2, <1>3 DEF IInv, HandedOver, Handing, Nothing
<1>19. QED
  BY <1>12, <1>13, <1>14, <1>15, <1>16, <1>17, <1>18 DEF IInv

-----------------------------------------------------------------------------
(* The steps of the dispatch.                                              *)

(* What the dispatch hands on stays as the edge left it.                   *)
Settled == UNCHANGED <<decl, request, route, arguments, named, beside, extra>>

LEMMA SettledKeeps ==
    ASSUME IInv, Settled, stage \in Handing, stage' \in Handing
    PROVE  /\ RouteKept' /\ NamedKept' /\ AuthorsFirst'
           /\ \A n \in Names : ArgumentKept(n)' /\ SentKept(n)' /\ BesideKept(n)'
           /\ Handed(Pool)' = Handed(Pool) /\ Only(arguments, Filters)' = Only(arguments, Filters)
           /\ Hidden' = Hidden
<1>1. /\ Filters' = Filters /\ Hidden' = Hidden /\ Declared' = Declared /\ Shadowed' = Shadowed
      /\ Beside' = Beside /\ Reads' = Reads /\ Owned' = Owned /\ OverHTTP' = OverHTTP
      /\ In(decl, "url")' = In(decl, "url") /\ In(decl, "query")' = In(decl, "query")
      /\ decl' = decl /\ request' = request
  BY CallStays DEF Settled, call
<1>2. /\ Given(named.provider)' = Given(named.provider) /\ Given(named.hook)' = Given(named.hook)
      /\ Answered' = Answered /\ Extras' = Extras
  BY <1>1 DEF Settled, Given, Answered, Extras, Authored, Valued, Only, Over
<1>3. RouteKept' /\ NamedKept' /\ AuthorsFirst'
  BY <1>1, <1>2 DEF IInv, RouteKept, NamedKept, AuthorsFirst, Settled
<1>4. ASSUME NEW n \in Names PROVE ArgumentKept(n)' /\ SentKept(n)' /\ BesideKept(n)'
  BY <1>1, <1>2 DEF IInv, ArgumentKept, SentKept, BesideKept, Settled, Handing, Before
<1>5. Handed(Pool)' = Handed(Pool) /\ Only(arguments, Filters)' = Only(arguments, Filters)
  BY <1>1 DEF Handed, Pool, Only, Settled
<1>6. QED
  BY <1>1, <1>3, <1>4, <1>5

(* What a callable is handed is someone's, or nothing.                     *)
LEMMA HandedTyped ==
    ASSUME IInv
    PROVE  Handed(Pool) \in Maps /\ Only(arguments, Filters) \in Sent
BY DEF IInv, TypeOK, Maps, Sent, ServerMaps, Handed, Pool, Only, Who

LEMMA SelectKeeps == IInv /\ Select => IInv'
<1>1. SUFFICES ASSUME IInv, Select PROVE IInv'
  OBVIOUS
<1>2. /\ TypeOK /\ Settled /\ stage = "select" /\ stage' = "selecting" /\ seen' = Handed(Pool)
      /\ UNCHANGED <<gated, inner, filtered>>
  BY <1>1 DEF IInv, Select, Settled, call
<1>3. stage \in Handing /\ stage' \in Handing
  BY <1>2 DEF Handing
<1>4. TypeOK'
  BY <1>1, <1>2, HandedTyped DEF TypeOK, Settled, Maps, Sent, ServerMaps
<1>5. HandedOver'
  BY <1>1, <1>2, <1>3, SettledKeeps DEF IInv, HandedOver, Handing, Nothing
<1>6. QED
  BY <1>1, <1>2, <1>3, <1>4, <1>5, SettledKeeps DEF IInv

LEMMA KernelCallKeeps == IInv /\ KernelCall => IInv'
<1>1. SUFFICES ASSUME IInv, KernelCall PROVE IInv'
  OBVIOUS
<1>2. /\ TypeOK /\ Settled /\ stage = "selecting" /\ stage' = "shape"
      /\ UNCHANGED <<seen, gated, filtered>>
  BY <1>1 DEF IInv, KernelCall, Settled, call
<1>3. stage \in Handing /\ stage' \in Handing
  BY <1>2 DEF Handing
<1>4. PICK spec \in {"same", "another"}, sent \in SUBSET Names :
        inner' = [dispatched |-> spec,
                  handed |-> IF PutAsideFor(spec) THEN Handed(KernelPool(sent))
                             ELSE KernelPool(sent)]
  BY <1>1 DEF KernelCall
<1>5. /\ KernelPool(sent) = [n \in Names |-> KernelPool(sent)[n]]
      /\ \A n \in Names : KernelPool(sent)[n] \in {"inner", "provider", None}
      /\ \A n \in Hidden : KernelPool(sent)[n] \in {"provider", None}
  BY DEF KernelPool, Hidden, In
<1>6. KernelPool(sent) \in Maps /\ Handed(KernelPool(sent)) \in Maps
  <2>1. KernelPool(sent) \in Maps
    BY <1>5 DEF Maps, Who
  <2>2. QED
    BY <1>2, <2>1 DEF TypeOK, Handed, Maps
<1>7. ASSUME NEW n \in Hidden PROVE Handed(KernelPool(sent))[n] \in {"provider", None}
  <2>1. n \in Names /\ n \notin Beside
    BY DEF Hidden, Beside, Shadowed, In
  <2>2. QED
    BY <1>5, <2>1 DEF Handed
<1>8. TypeOK'
  BY <1>2, <1>4, <1>6 DEF TypeOK, Settled, Maps, Sent, ServerMaps
<1>9. HandedOver'
  <2>1. inner'.dispatched = "another" =>
          \A n \in Names : inner'.handed[n] \in {"inner", "provider", None}
    BY <1>4, <1>5 DEF PutAsideFor
  <2>2. \A n \in Hidden : inner'.handed[n] \in {"provider", None}
    BY <1>4, <1>5, <1>7
  <2>3. QED
    BY <1>1, <1>2, <1>3, <2>1, <2>2, SettledKeeps DEF IInv, HandedOver, Handing, Nothing
<1>10. QED
  BY <1>1, <1>2, <1>3, <1>8, <1>9, SettledKeeps DEF IInv

LEMMA SelectorReturnsKeeps == IInv /\ SelectorReturns => IInv'
<1>1. SUFFICES ASSUME IInv, SelectorReturns PROVE IInv'
  OBVIOUS
<1>2. /\ TypeOK /\ Settled /\ stage = "selecting" /\ stage' = "shape"
      /\ UNCHANGED <<seen, gated, inner, filtered>>
  BY <1>1 DEF IInv, SelectorReturns, Settled, call, handed
<1>3. stage \in Handing /\ stage' \in Handing
  BY <1>2 DEF Handing
<1>4. TypeOK'
  BY <1>2 DEF TypeOK, Settled, Maps, Sent, ServerMaps
<1>5. HandedOver'
  BY <1>1, <1>2, <1>3, SettledKeeps DEF IInv, HandedOver, Handing, Nothing
<1>6. QED
  BY <1>1, <1>2, <1>3, <1>4, <1>5, SettledKeeps DEF IInv

LEMMA ShapeKeeps == IInv /\ Shape => IInv'
<1>1. SUFFICES ASSUME IInv, Shape PROVE IInv'
  OBVIOUS
<1>2. /\ TypeOK /\ Settled /\ stage = "shape" /\ stage' = "gate"
      /\ filtered' = Only(arguments, Filters) /\ UNCHANGED <<seen, gated, inner>>
  BY <1>1 DEF IInv, Shape, Settled, call
<1>3. stage \in Handing /\ stage' \in Handing
  BY <1>2 DEF Handing
<1>4. TypeOK'
  BY <1>1, <1>2, HandedTyped DEF TypeOK, Settled, Maps, Sent, ServerMaps
<1>5. HandedOver'
  BY <1>1, <1>2, <1>3, SettledKeeps DEF IInv, HandedOver, Handing, Nothing
<1>6. QED
  BY <1>1, <1>2, <1>3, <1>4, <1>5, SettledKeeps DEF IInv

LEMMA RunPreconditionsKeeps == IInv /\ RunPreconditions => IInv'
<1>1. SUFFICES ASSUME IInv, RunPreconditions PROVE IInv'
  OBVIOUS
<1>2. /\ TypeOK /\ Settled /\ stage = "gate" /\ stage' = "served" /\ gated' = Handed(Pool)
      /\ UNCHANGED <<seen, inner, filtered>>
  BY <1>1 DEF IInv, RunPreconditions, Settled, call
<1>3. stage \in Handing /\ stage' \in Handing
  BY <1>2 DEF Handing
<1>4. TypeOK'
  BY <1>1, <1>2, HandedTyped DEF TypeOK, Settled, Maps, Sent, ServerMaps
<1>5. HandedOver'
  BY <1>1, <1>2, <1>3, SettledKeeps DEF IInv, HandedOver, Handing, Nothing
<1>6. QED
  BY <1>1, <1>2, <1>3, <1>4, <1>5, SettledKeeps DEF IInv

LEMMA StepKeeps == IInv /\ [Next]_vars => IInv'
<1>1. ASSUME IInv, UNCHANGED vars PROVE IInv'
  BY <1>1 DEF IInv, vars, TypeOK, RouteKept, NamedKept, ArgumentKept, SentKept, BesideKept,
     AuthorsFirst, HandedOver, Handed, Pool, Only, Extras, Authored, Answered, Valued, Over, Given,
     Filters, Hidden, Declared, Shadowed, Beside, Reads, Owned, OverHTTP, In
<1>2. QED
  BY <1>1, EdgeArgumentsKeeps, PutBesideKeeps, RouteFilterDataKeeps, AnswerKeeps,
     RouteAuthorValuesKeeps, SelectKeeps, KernelCallKeeps, SelectorReturnsKeeps, ShapeKeeps,
     RunPreconditionsKeeps DEF Next

LEMMA Inductive == Spec => []IInv
BY Initially, StepKeeps, PTL DEF Spec

-----------------------------------------------------------------------------
(* What a callable is handed for a name: a filter's, what was put aside; a *)
(* marked one, its channel's; any other, the argument.                     *)
LEMMA HandedFor ==
    ASSUME IInv, NEW n \in Names
    PROVE  /\ Handed(Pool)[n] = IF n \in Beside THEN beside[n]
                                ELSE IF n \in Hidden THEN extra[n] ELSE arguments[n]
           /\ \A who \in To(n) \ {None} : stage \in Handing /\ who = Handed(Pool)[n]
           /\ stage = "served" => To(n) = {Handed(Pool)[n]}
           /\ filtered[n] # None => stage \in Handing /\ n \in Filters /\ filtered[n] = arguments[n]
           /\ stage = "served" /\ n \in Filters => filtered[n] = arguments[n]
<1>1. Handed(Pool)[n] = IF n \in Beside THEN beside[n]
                        ELSE IF n \in Hidden THEN extra[n] ELSE arguments[n]
  BY DEF Handed, Pool
<1>2. /\ seen[n] = IF stage \in Handing \ {"select"} THEN Handed(Pool)[n] ELSE None
      /\ gated[n] = IF stage = "served" THEN Handed(Pool)[n] ELSE None
      /\ filtered[n] = IF stage \in {"gate", "served"} THEN Only(arguments, Filters)[n] ELSE None
  BY DEF IInv, HandedOver, Nothing
<1>3. Only(arguments, Filters)[n] = IF n \in Filters THEN arguments[n] ELSE None
  BY DEF Only
<1>4. stage \in {"gate", "served"} => stage \in Handing \ {"select"}
  BY DEF Handing
<1>5. QED
  BY <1>1, <1>2, <1>3, <1>4 DEF To

(* Every channel and every callable holds only what it may.                *)
THEOREM TypeCorrect == Spec => []TypeOK
<1>1. IInv => TypeOK
  BY DEF IInv
<1>2. QED
  BY <1>1, Inductive, PTL

(* filter_data feeds the filter alone, whatever the declaration.           *)
THEOREM FilterDataHolds == Spec => []FilterDataFeedsTheFilter
<1>1. ASSUME IInv PROVE FilterDataFeedsTheFilter
  <2>1. SUFFICES ASSUME NEW n \in Names
                 PROVE  /\ "filter" \notin To(n)
                        /\ OverHTTP /\ "query" \in To(n) => n \in In(decl, "query")
    BY DEF FilterDataFeedsTheFilter
  <2>2. None # "filter" /\ None # "query"
    BY DEF None, Who
  <2>3. ArgumentKept(n) /\ BesideKept(n)
    BY <1>1 DEF IInv
  <2>4. extra[n] \notin {"filter", "query"}
    BY <1>1, <2>2 DEF IInv, TypeOK, ServerMaps
  <2>5. Filters \subseteq Beside \cup Hidden
    BY DEF Beside, Shadowed
  <2>6. QED
    BY <1>1, <2>2, <2>3, <2>4, <2>5, HandedFor DEF ArgumentKept, BesideKept
<1>2. QED
  BY <1>1, Inductive, PTL

(* A marked parameter takes only the server's, in every call.              *)
THEOREM MarkedHolds == Spec => []MarkedParameterIsTheServers
<1>1. ASSUME IInv PROVE MarkedParameterIsTheServers
  <2>1. SUFFICES ASSUME NEW n \in Hidden
                 PROVE  To(n) \cup {inner.handed[n]} \subseteq {"route", "hook", "provider", None}
    BY DEF MarkedParameterIsTheServers
  <2>2. n \in Names /\ n \notin Beside
    BY DEF Hidden, Beside, Shadowed, In
  <2>3. extra[n] \in {"route", "hook", "provider", None}
    BY <1>1, <2>2 DEF IInv, TypeOK, ServerMaps
  <2>4. inner.handed[n] \in {"provider", None}
    BY <1>1 DEF IInv, HandedOver
  <2>5. QED
    BY <1>1, <2>2, <2>3, <2>4, HandedFor
<1>2. QED
  BY <1>1, Inductive, PTL

(* No hook filters, and filter_data alone reads a marked filter's value.   *)
THEOREM FilterHolds == Spec => []FilterReadsNoHook
<1>1. ASSUME IInv PROVE FilterReadsNoHook
  <2>1. SUFFICES ASSUME NEW n \in Names
                 PROVE  /\ filtered[n] # "hook"
                        /\ n \in Shadowed /\ request.filters => filtered[n] \in {"filter", None}
    BY DEF FilterReadsNoHook
  <2>2. ArgumentKept(n)
    BY <1>1 DEF IInv
  <2>3. stage \in Handing => stage \notin Before \cup {"filter"}
    BY DEF Handing, Before
  <2>4. None # "hook"
    BY DEF None, Who
  <2>5. QED
    BY <1>1, <2>2, <2>3, <2>4, HandedFor DEF ArgumentKept
<1>2. QED
  BY <1>1, Inductive, PTL

(* BUNDLE hands no callable what the caller sent, and the filter all of it. *)
THEOREM BundleHolds == Spec => []BundleSpreadsNothing
<1>1. ASSUME IInv PROVE BundleSpreadsNothing
  <2>1. SUFFICES ASSUME request.bundled, NEW n \in Names
                 PROVE  /\ "client" \in To(n) => n \in Declared
                        /\ (stage = "served" /\ ~request.filters
                             /\ n \in (request.sent \cap Filters) \ (request.route \cup Owned)
                             /\ n \notin Given(named.provider))
                               => filtered[n] = "client"
    BY DEF BundleSpreadsNothing
  <2>2. ArgumentKept(n) /\ BesideKept(n) /\ SentKept(n)
    BY <1>1 DEF IInv
  <2>3. None # "client" /\ extra[n] # "client"
    BY <1>1 DEF None, IInv, TypeOK, ServerMaps, Who
  <2>4. stage \in Handing => stage # "arguments"
    BY DEF Handing
  <2>5. Filters \subseteq Beside \cup Hidden
    BY DEF Beside, Shadowed
  <2>6. "client" \in To(n) => n \in Declared
    BY <1>1, <2>1, <2>2, <2>3, <2>4, <2>5, HandedFor DEF ArgumentKept, BesideKept
  <2>7. QED
    BY <1>1, <2>1, <2>2, <2>6, HandedFor DEF SentKept
<1>2. QED
  BY <1>1, Inductive, PTL

(* An author's value reaches every callable, and the provider's filters.   *)
THEOREM AuthorHolds == Spec => []AuthorOutranksAll
<1>1. ASSUME IInv PROVE AuthorOutranksAll
  <2>1. SUFFICES ASSUME stage = "served", NEW n \in Names
                 PROVE  /\ n \in Given(named.provider) => To(n) = {"provider"}
                        /\ n \in Given(named.hook) \ Given(named.provider) =>
                              To(n) = {IF n \in Beside \cap Keys(named.provider)
                                       THEN "declined" ELSE "hook"}
                        /\ n \in Given(named.provider) \cap Beside => filtered[n] = "provider"
    BY DEF AuthorOutranksAll
  <2>2. /\ To(n) = {Handed(Pool)[n]}
        /\ Handed(Pool)[n] = IF n \in Beside THEN beside[n]
                             ELSE IF n \in Hidden THEN extra[n] ELSE arguments[n]
        /\ n \in Filters => filtered[n] = arguments[n]
    BY <1>1, <2>1, HandedFor
  <2>3. /\ named.hook[n] \in {"hook", "declined", None}
        /\ named.provider[n] \in {"provider", "declined", None}
    BY <1>1 DEF IInv, NamedKept
  <2>4. /\ n \in Given(named.provider) <=> named.provider[n] = "provider"
        /\ n \in Given(named.hook) <=> named.hook[n] = "hook"
        /\ n \in Keys(named.provider) <=> named.provider[n] # None
    BY <2>3 DEF None, Given, Keys, Who
  <2>5. Answered[n] = IF named.provider[n] # None THEN named.provider[n] ELSE named.hook[n]
    BY DEF Answered, Over
  <2>6. Authored[n] = IF named.provider[n] = "provider" THEN "provider"
                      ELSE IF named.hook[n] = "hook" THEN "hook" ELSE None
    BY <2>3, <2>4 DEF None, Authored, Valued, Only, Over, Who
  <2>7. n \in Hidden => extra[n] = IF Authored[n] # None THEN Authored[n] ELSE route[n]
    BY <1>1, <2>1 DEF IInv, AuthorsFirst, Handing, Extras, Only, Over
  <2>8. /\ n \in Beside /\ Answered[n] # None => beside[n] = Answered[n]
        /\ n \in Given(named.provider) /\ n \in Reads \ Shadowed => arguments[n] = "provider"
        /\ n \in Given(named.hook) \ Given(named.provider) /\ n \in Reads \ Filters =>
              arguments[n] = "hook"
    BY <1>1, <2>1 DEF IInv, AuthorsFirst, Handing
  <2>9. /\ n \in Beside => n \in Filters /\ n \in Reads \ Shadowed
        /\ n \notin Beside \cup Hidden => n \in Reads \ Filters /\ n \in Reads \ Shadowed
    BY DEF Beside, Shadowed, Reads
  <2>10. None \notin {"provider", "hook", "declined"}
    BY DEF None, Who
  <2>11. QED
    BY <2>2, <2>3, <2>4, <2>5, <2>6, <2>7, <2>8, <2>9, <2>10
<1>2. QED
  BY <1>1, Inductive, PTL

(* What the typed provider owns is the provider's, or the route's.         *)
THEOREM OwnedHolds == Spec => []OwnedIsTheProviders
<1>1. ASSUME IInv PROVE OwnedIsTheProviders
  <2>1. SUFFICES ASSUME NEW n \in Owned
                 PROVE  /\ n \notin Filters => To(n) \subseteq {"provider", "route", None}
                        /\ n \in Filters => filtered[n] \in {"provider", None}
    BY DEF OwnedIsTheProviders
  <2>2. n \in Names /\ (n \notin Filters => n \notin Beside)
    BY DEF Owned, Beside, In
  <2>3. stage \in Handing => arguments[n] \in {"provider", None}
    BY <1>1, <2>2 DEF IInv, AuthorsFirst
  <2>4. stage \in Handing /\ n \in Hidden => extra[n] \in {"provider", "route", None}
    <3>1. SUFFICES ASSUME stage \in Handing, n \in Hidden PROVE extra[n] \in {"provider", "route", None}
      OBVIOUS
    <3>2. named.hook[n] = None
      BY <1>1 DEF IInv, NamedKept
    <3>3. extra[n] \in {named.provider[n], named.hook[n], route[n], None}
      BY <1>1, <2>2, <3>1 DEF IInv, AuthorsFirst, Extras, Authored, Valued, Only, Over
    <3>4. named.provider[n] \in {"provider", "declined", None} /\ route[n] \in {"route", "client", None}
      BY <1>1, <2>2 DEF IInv, NamedKept, RouteKept
    <3>5. extra[n] \in {"route", "hook", "provider", None}
      BY <1>1, <2>2 DEF IInv, TypeOK, ServerMaps
    <3>6. QED
      BY <3>2, <3>3, <3>4, <3>5 DEF None, Who
  <2>5. QED
    BY <1>1, <2>2, <2>3, <2>4, HandedFor
<1>2. QED
  BY <1>1, Inductive, PTL

(* A call of another spec made inside reads its own pool.                  *)
THEOREM AnotherSpecHolds == Spec => []AnotherSpecReadsItsPool
<1>1. IInv => AnotherSpecReadsItsPool
  BY DEF IInv, HandedOver, AnotherSpecReadsItsPool
<1>2. QED
  BY <1>1, Inductive, PTL
=============================================================================
