---------------------------- MODULE InputRouting ----------------------------
(***************************************************************************)
(* Whose value it is: how one service call of the DRF edge decides, for    *)
(* every name, which of the parties that may give a value for it is heard. *)
(*                                                                         *)
(* A name may be given a value by the client (its body), by the route and  *)
(* the query string of the URL, by the view's hooks, the spec's kwargs     *)
(* provider and its input_data, and by a registered seed; it may be a      *)
(* field of the input serializer, a declared read, a parameter of the      *)
(* target lookup, and be marked NotClientInput.  prepare_edge_call and the *)
(* SerializerValidator move these values through the arguments, the        *)
(* overlay, the seeds of the call, the seat and the body.  Every mapping   *)
(* here therefore holds, for each name, only WHO gave the value.           *)
(*                                                                         *)
(* The service, and its target lookup where a name has a lookup role, are  *)
(* taken to name every parameter: what a callable does not name is only    *)
(* not looked at.                                                          *)
(***************************************************************************)
EXTENDS Integers, FiniteSets

CONSTANTS
    Names,     \* keys: of arguments, fields, parameters, seeds
    Rank,      \* the serializer's field order
    Roles,     \* the roles a spec may give a name
    Bindings,  \* whether the call's binding spreads: a set of BOOLEANs
    Arrivals,  \* "http": a live DRF view; "offline": any other caller
    Authors,   \* which authors speak: "hook", "provider", "input"
    Rewrites,  \* whether a validate() may add or drop a key
    None       \* no value

AllRoles == {"field",        \* a writable field of the input serializer
             "url",          \* a UrlKwarg the spec declares
             "lookup_url",   \* a UrlKwarg the target lookup's spec declares
             "query",        \* a QueryParam the spec declares
             "lookup",       \* a parameter of the lookup's selector
             "lookup_hides", \* one it marks NotClientInput
             "hides",        \* a parameter the service marks NotClientInput
             "owned",        \* a key the spec's typed kwargs provider fills
             "lookup_owned", \* a key the lookup's typed provider fills
             "seed"}         \* a seed the project registered

ASSUME RoutingAssumption ==
    /\ IsFiniteSet(Names) /\ None \notin Names
    /\ Rank \in [Names -> 1..Cardinality(Names)]
    /\ \A m, n \in Names : Rank[m] = Rank[n] => m = n
    /\ Roles \subseteq AllRoles
    /\ Bindings \subseteq BOOLEAN
    /\ Arrivals \subseteq {"http", "offline"}
    /\ Authors \subseteq {"hook", "provider", "input"}
    /\ Rewrites \in BOOLEAN
    /\ None \notin {"client", "route", "query", "hook", "provider", "input", "seed", "lookup"}

VARIABLES
    stage,      \* how far the call has come
    decl,       \* the declaration: [roles, source, spread]
    arrival,    \* how the call arrived
    request,    \* the names the client's body, the route and the query hold
    url,        \* view.kwargs and request.query_params, as they now stand
    arguments,  \* the kernel's arguments
    sent,       \* arguments before any author's value
    named,      \* the names the hooks, the provider and input_data gave
    authored,   \* argument -> the key an author named it by
    extra,      \* author values that are no argument
    seeds,      \* the call's seeds
    seat,       \* EdgeCallState.author_values
    looked,     \* what the lookup was handed
    held,       \* EdgeCallState.server_values
    body,       \* what the Validator binds
    data,       \* validated_data
    values,     \* the Validator's values, by name
    pool        \* what the service is handed

vars == <<stage, decl, arrival, request, url, arguments, sent, named, authored,
          extra, seeds, seat, looked, held, body, data, values, pool>>

Who == {"client", "route", "query", "hook", "provider", "input", "seed", "lookup"}
Nothing == [n \in Names |-> None]
Has(map, n) == map[n] # None
Keys(map) == {n \in Names : Has(map, n)}
Put(map, set, who) == [n \in Names |-> IF n \in set THEN who ELSE map[n]]
Drop(map, set) == Put(map, set, None)
Over(top, map) == [n \in Names |-> IF Has(top, n) THEN top[n] ELSE map[n]]

-----------------------------------------------------------------------------
(* The declaration, as it compiles.                                        *)

In(d, role) == {n \in Names : role \in d.roles[n]}
Having(role) == In(decl, role)

Fields == Having("field")
Owned == Having("owned")
Hidden == Having("hides") \cup Having("lookup_hides")
Url == Having("url") \cup Having("lookup_url")
Query == Having("query")

(* The lookup's reads: hidden for one callable is hidden for all.          *)
ReadsOf(d) == In(d, "lookup") \ (In(d, "hides") \cup In(d, "lookup_hides"))
LookupReads == ReadsOf(decl)

(* The spec's own reads: declared ones the lookup does not take, and under *)
(* a spreading binding with no input serializer the service's parameters.  *)
Spreads == decl.spread /\ Fields = {}
ServiceReads ==
    ((Having("url") \cup Query) \ LookupReads)
        \cup (IF Spreads THEN Names \ (Hidden \cup LookupReads) ELSE {})

(* A declaration no compile refuses: one channel a name, but that a read   *)
(* of the spec's stands for its lookup's; no mark on a declared read of a  *)
(* callable it is handed to; no read named like a field but a UrlKwarg the *)
(* lookup reads; no typed provider filling what the lookup reads, and no   *)
(* declared read named like a seed.                                        *)
Compiles(d) ==
    /\ In(d, "url") \cap In(d, "query") = {}
    /\ (In(d, "url") \cup In(d, "query")) \cap In(d, "hides") = {}
    /\ In(d, "query") \cap In(d, "field") = {}
    /\ (In(d, "url") \cup In(d, "lookup_url")) \cap In(d, "field") \subseteq ReadsOf(d)
    /\ In(d, "lookup") \cap In(d, "lookup_hides") = {}
    /\ In(d, "lookup_owned") \cup In(d, "lookup_url")
            \subseteq In(d, "lookup") \cup In(d, "lookup_hides")
    /\ In(d, "owned") \cap (In(d, "lookup") \cup In(d, "lookup_hides")) = {}
    /\ (In(d, "url") \cup In(d, "lookup_url") \cup In(d, "query")) \cap In(d, "seed") = {}
    /\ \A n \in Names \ In(d, "field") : d.source[n] = n

Declarations ==
    {d \in [roles : [Names -> SUBSET Roles], source : [Names -> Names], spread : Bindings] :
        Compiles(d)}

First(set) == CHOOSE n \in set : \A m \in set : Rank[n] <= Rank[m]
Last(set) == CHOOSE n \in set : \A m \in set : Rank[m] <= Rank[n]

(* _source_to_wire: the first field whose source a name is.                *)
Sourced(s) == {f \in Fields : decl.source[f] = s}
Wire(s) == First(Sourced(s))
Renamed == {s \in Names : Sourced(s) # {}}

(* hidden_lookup_captures: what a route holding keys seeds.                *)
HiddenCaptures(keys) ==
    (Having("lookup_hides") \ (Having("seed") \cup Having("lookup_owned"))) \cap keys

(* The fields compiled out of the Validator (excluded), and those left.    *)
Excluded ==
    Fields \cap (Having("seed") \cup HiddenCaptures(request.route) \cup LookupReads)
ValidatorFields == Fields \ Excluded
CallerNames == ServiceReads \cup LookupReads \cup ValidatorFields

-----------------------------------------------------------------------------
Init ==
    /\ stage = "arguments"
    /\ decl \in Declarations
    /\ arrival \in Arrivals
    /\ request \in [body : SUBSET Names,
                    route : SUBSET (Url \cup LookupReads \cup Having("lookup_hides")),
                    query : SUBSET Query]
    /\ url = [route |-> Put(Nothing, request.route, "route"),
              query |-> Put(Nothing, request.query, "query")]
    /\ named = [hook |-> {}, provider |-> {}, input |-> {}]
    /\ arguments = Nothing /\ sent = Nothing /\ authored = Nothing
    /\ extra = Nothing /\ seeds = Nothing /\ seat = Nothing /\ looked = Nothing
    /\ held = Nothing /\ body = Nothing /\ data = Nothing /\ values = Nothing
    /\ pool = Nothing

call == <<decl, arrival, request>>
validated == <<held, body, data, values>>

(* A mistake: a live view's declared UrlKwarg taken from the body too. *)
BodyBesideUrl == Put(Nothing, request.body, "client")

(* The body as arguments, a live view's declared UrlKwargs less the body's.*)
FromBody ==
    Put(Nothing, request.body \ (IF arrival = "http" THEN Url ELSE {}), "client")

Routed ==
    Put(FromBody, (Url \cup LookupReads) \cap request.route, "route")

(* Off HTTP a sent UrlKwarg stands in for the route, unless it is a field. *)
OntoRoute ==
    IF arrival = "http" THEN {}
    ELSE (Url \ (request.route \cup Fields)) \cap Keys(Routed)

(* A QueryParam is read from the query string alone over HTTP, and from it *)
(* where the caller sent none off it.                                      *)
Queried ==
    LET kept == Drop(Routed, IF arrival = "http" THEN Query ELSE {})
    IN Put(kept, (Query \cap request.query) \ Keys(kept), "query")

(* A mistake: the field a lookup reads keeps the client's argument. *)
KeepExcluded == Drop(Queried, Having("seed"))

(* What is left for the caller to have said: no seed's name, and of the    *)
(* fields compiled out only a lookup's read the route captured.            *)
CallerArguments ==
    LET captured == (request.route \cup OntoRoute) \cap LookupReads
    IN Drop(Queried, Having("seed") \cup (Excluded \ captured))

EdgeArguments ==
    /\ stage = "arguments"
    /\ url' = [route |-> Over(url.route, [n \in Names |->
                             IF n \in OntoRoute THEN Routed[n] ELSE None]),
               query |-> Over(url.query, [n \in Names |->
                             IF n \in Query THEN Queried[n] ELSE None])]
    /\ arguments' = CallerArguments
    /\ sent' = CallerArguments
    /\ stage' = "author"
    /\ UNCHANGED <<call, named, authored, extra, seeds, seat, looked, validated, pool>>

-----------------------------------------------------------------------------
(* _route_author_values.                                                   *)

(* A mistake: a hook naming an owned value by its other name is heard. *)
OwnedByKey == Owned

(* The names a hook is not heard on: the owned keys, by either name.       *)
HookOwned ==
    Owned \cup {Wire(n) : n \in Owned \cap Renamed}
          \cup {s \in Renamed : Wire(s) \in Owned}

(* _split_author_values: a key names an argument outright, or as the       *)
(* source of a field that no other key of the same author names.           *)
Outright(keys) == keys \cap CallerNames
BySource(keys) ==
    {s \in (keys \ CallerNames) \cap Renamed : Wire(s) \in CallerNames \ keys}
Claimed(keys) == Outright(keys) \cup {Wire(s) : s \in BySource(keys)}

(* A mistake: the two ends of each pair swapped. *)
KeyOfSwapped(keys) ==
    [k \in Names |-> IF k \in Outright(keys) THEN k
                     ELSE IF k \in BySource(keys) THEN Wire(k) ELSE None]

KeyOf(keys) ==
    [a \in Names |->
        IF a \in Outright(keys) THEN a
        ELSE IF a \in Claimed(keys) THEN CHOOSE s \in BySource(keys) : Wire(s) = a
        ELSE None]

Rest(keys) == keys \ (Outright(keys) \cup BySource(keys))

(* The keys a provider may answer: what it is annotated to fill, or any.   *)
Answers == IF Owned = {} THEN Names ELSE Owned
Speaks(who, keys) == IF who \in Authors THEN SUBSET keys ELSE {{}}

RouteAuthorValues ==
    \E hooks \in Speaks("hook", Names), provided \in Speaks("provider", Answers) :
        LET heard == hooks \ (Having("seed") \cup HookOwned)
            client == Drop(arguments, Owned \ ValidatorFields)
        IN
        /\ stage = "author"
        /\ provided \cap Having("seed") = {}
        /\ named' = [named EXCEPT !.hook = heard, !.provider = provided]
        /\ arguments' = Put(Put(client, Claimed(heard), "hook"), Claimed(provided), "provider")
        /\ authored' = Over(KeyOf(provided), KeyOf(heard))
        /\ extra' = Put(Put(Nothing, Rest(heard), "hook"), Rest(provided), "provider")
        /\ stage' = "seeds"
        /\ UNCHANGED <<call, url, sent, seeds, seat, looked, validated, pool>>

(* A provider naming a seed is the author's error.                         *)
RefuseSeedNamed ==
    /\ stage = "author"
    /\ Speaks("provider", Answers \cap Having("seed")) # {{}}
    /\ stage' = "refused"
    /\ UNCHANGED <<call, url, arguments, sent, named, authored, extra, seeds, seat,
                   looked, validated, pool>>

(* _hidden_lookup_seeds: a capture the lookup hides, or an author's value  *)
(* in its place, becomes a seed of the call and no overlay.                *)
Seeding(captured, instead) ==
    /\ stage = "seeds"
    /\ seeds' = [n \in Names |->
                    IF n \in Having("seed") THEN "seed"
                    ELSE IF n \notin captured THEN None
                    ELSE IF n \in instead THEN extra[n] ELSE url.route[n]]
    /\ extra' = Drop(extra, captured \cap instead)
    /\ stage' = "seat"
    /\ UNCHANGED <<call, url, arguments, sent, named, authored, seat, looked,
                   validated, pool>>

Captured == HiddenCaptures(Keys(url.route))

(* A mistake: a capture seeded whatever an author said. *)
SeedCapturesAlone == Seeding(Captured \ CallerNames, {})

(* A mistake: a capture of a declared read is seeded as well. *)
SeedDeclaredToo == Seeding(Captured, Keys(extra))

SeedHiddenCaptures == Seeding(Captured \ CallerNames, Keys(extra))

(* _lookup_keys_sent: a lookup's read a spreading service names is handed  *)
(* the client's own value, or an author's over it.                         *)
LookupKeysSent ==
    [n \in Names |->
        IF ~Spreads \/ n \notin LookupReads THEN None
        ELSE IF Has(authored, n) THEN arguments[n]
        ELSE IF n \in request.body THEN "client" ELSE None]

(* _seat_author_values: the rest of the author's values are handed back    *)
(* over the Validator's.                                                   *)
SeatAuthorValues ==
    /\ stage = "seat"
    /\ seat' = Over(LookupKeysSent, extra)
    /\ extra' = Nothing
    /\ stage' = "lookup"
    /\ UNCHANGED <<call, url, arguments, sent, named, authored, seeds, looked,
                   validated, pool>>

(* The kernel's resolve_target: seeds, then the lookup's own provider, then*)
(* the arguments it reads.                                                 *)
ResolveTarget ==
    \E declined \in SUBSET Having("lookup_owned") :
        /\ stage = "lookup"
        /\ looked' =
               [n \in Names |->
                   IF n \notin Having("lookup") \cup Having("lookup_hides") THEN None
                   ELSE IF Has(seeds, n) THEN seeds[n]
                   ELSE IF n \in Having("lookup_owned")
                        THEN IF n \in declined THEN None ELSE "lookup"
                   ELSE IF n \in LookupReads THEN arguments[n] ELSE None]
        /\ stage' = "input"
        /\ UNCHANGED <<call, url, arguments, sent, named, authored, extra, seeds,
                       seat, validated, pool>>

-----------------------------------------------------------------------------
(* server_input and _validator_body: input_data goes over every argument,  *)
(* and each field the edge put a value into goes over the client's body.   *)

(* A mistake: only a value for a field the client left out is written. *)
WrittenIfAbsent(args) == {f \in Fields : Has(args, f) /\ ~Has(sent, f)}

Written(args) ==
    {f \in Fields : Has(args, f) /\ args[f] # sent[f]}

ServerInput ==
    \E given \in Speaks("input", IF Fields = {} THEN {} ELSE Names) :
        LET args == Put(arguments, given, "input") IN
        /\ stage = "input"
        /\ named' = [named EXCEPT !.input = given]
        /\ arguments' = args
        /\ body' = IF Fields = {} THEN Nothing
                   ELSE [f \in Names |-> IF f \in Written(args) THEN args[f]
                                         ELSE IF f \in Fields \cap request.body
                                              THEN "client" ELSE None]
        /\ held' = IF Fields = {} THEN Nothing
                   ELSE [n \in Names |-> IF n \in Keys(authored) \cup given
                                         THEN args[n] ELSE None]
        /\ stage' = IF Fields = {} THEN "kernel" ELSE "validate"
        /\ UNCHANGED <<call, url, sent, authored, extra, seeds, seat, looked, data,
                       values, pool>>

(* The serializer's pass: each field under its source, a later field over  *)
(* an earlier one, and what a validate() added or dropped.                 *)
Validated(added, dropped) ==
    [s \in Names |->
        LET filled == {f \in Sourced(s) : Has(body, f)} IN
        IF s \in dropped THEN None
        ELSE IF s \in added THEN "client"
        ELSE IF filled = {} THEN None ELSE body[Last(filled)]]

(* The fields holding the server's value: _server_values.                  *)
Server == {f \in Fields : Has(held, f)}

(* _lay_back: over its source in data, where that key still is.            *)
LaidBack(validated_data) ==
    [s \in Names |->
        IF Has(validated_data, s) /\ Sourced(s) \cap Server # {}
        THEN held[Last(Sourced(s) \cap Server)] ELSE validated_data[s]]

(* A mistake: a value handed under the field's source alone. *)
HandedBySource ==
    [k \in Names |->
        LET by == {f \in Server : decl.source[f] = k}
        IN IF by = {} THEN None ELSE held[Last(by)]]

(* _handed: under the field's source, and under the key its author used.   *)
Handed ==
    [k \in Names |->
        LET by == {f \in Server : decl.source[f] = k \/ authored[f] = k}
        IN IF by = {} THEN None ELSE held[Last(by)]]

(* A mistake: an owned name owns no more than itself. *)
UnownedByName == (Hidden \cup Owned) \ Keys(Handed)

(* _unowned: the keys no client's value becomes - the server's, by either  *)
(* name - less those that hold the server's value.                         *)
Unowned ==
    LET owned == Hidden \cup Owned
    IN (owned \cup {decl.source[f] : f \in owned \cap Fields}) \ Keys(Handed)

(* What a validate() may do to one key; a declared read is not one it      *)
(* derives, which the kernel would have from two sources.                  *)
Rewritten ==
    {<<{}, {}>>} \cup
        (IF Rewrites THEN {<<{n}, {}>> : n \in Names \ ServiceReads} \cup {<<{}, {n}>> : n \in Names}
         ELSE {})

Validate ==
    \E change \in Rewritten :
        /\ stage = "validate"
        /\ data' = LaidBack(Validated(change[1], change[2]))
        /\ values' = Drop(Over(Handed, data'), Keys(seeds) \cup Unowned)
        /\ stage' = "kernel"
        /\ UNCHANGED <<call, url, arguments, sent, named, authored, extra, seeds, seat,
                       looked, held, body, pool>>

(* The kernel's pool: a seed, the kwargs seat, the Validator's value, a    *)
(* read's argument.                                                        *)
FillPool ==
    /\ stage = "kernel" /\ Keys(seat) \cap Keys(seeds) = {}
    /\ pool' = [n \in Names |->
                   IF Has(seeds, n) THEN seeds[n]
                   ELSE IF Has(seat, n) THEN seat[n]
                   ELSE IF Has(values, n) THEN values[n]
                   ELSE IF n \in ServiceReads THEN arguments[n] ELSE None]
    /\ stage' = "served"
    /\ UNCHANGED <<call, url, arguments, sent, named, authored, extra, seeds, seat,
                   looked, validated>>

(* The kernel refuses a kwargs provider that names a seed, the edge's own  *)
(* seat too.                                                               *)
RefuseSeated ==
    /\ stage = "kernel" /\ Keys(seat) \cap Keys(seeds) # {}
    /\ stage' = "refused"
    /\ UNCHANGED <<call, url, arguments, sent, named, authored, extra, seeds, seat,
                   looked, validated, pool>>

Next ==
    \/ EdgeArguments \/ RouteAuthorValues \/ RefuseSeedNamed \/ SeedHiddenCaptures
    \/ SeatAuthorValues \/ ResolveTarget \/ ServerInput \/ Validate
    \/ FillPool \/ RefuseSeated

Spec == Init /\ [][Next]_vars

-----------------------------------------------------------------------------
(* Whose value reached whom.                                               *)

Maps == [Names -> Who \cup {None}]

(* Each mapping says who gave each name's value, what remembers an         *)
(* author's key is an argument, and the serializer's mappings are empty    *)
(* where the spec declares none.                                           *)
TypeOK ==
    /\ stage \in {"arguments", "author", "seeds", "seat", "lookup", "input",
                  "validate", "kernel", "served", "refused"}
    /\ decl \in Declarations /\ arrival \in Arrivals
    /\ request \in [body : SUBSET Names, route : SUBSET Names, query : SUBSET Names]
    /\ url \in [route : Maps, query : Maps]
    /\ named \in [hook : SUBSET Names, provider : SUBSET Names, input : SUBSET Names]
    /\ arguments \in Maps /\ sent \in Maps /\ extra \in Maps /\ seeds \in Maps
    /\ seat \in Maps /\ looked \in Maps /\ pool \in Maps
    /\ held \in Maps /\ body \in Maps /\ data \in Maps /\ values \in Maps
    /\ authored \in [Names -> Names \cup {None}] /\ Keys(authored) \subseteq CallerNames
    /\ Fields = {} => stage # "validate" /\ held = Nothing /\ body = Nothing /\ data = Nothing

Served == stage = "served"

(* A key the server owns - marked NotClientInput by any callable of the    *)
(* call, or filled by the spec's typed provider - never reaches a service  *)
(* parameter with the client's value, whichever field, source, route or    *)
(* validate() the value came through.  What the spec declares as a read is *)
(* the service's argument, as a name only the lookup hides may be.         *)
NeverTheClients ==
    Served => \A n \in (Hidden \ ServiceReads) \cup Owned :
                 /\ pool[n] # "client"
                 /\ n \in Fields /\ decl.source[n] \notin ServiceReads
                        => pool[decl.source[n]] # "client"

(* A lookup's parameter marked NotClientInput is handed no client's value. *)
HiddenLookupKeyIsTheServers ==
    \A n \in Having("lookup_hides") : looked[n] # "client"

(* Exactly one field is known by k, as its name or its source.             *)
Plain(k) ==
    \A f, g \in Fields : k \in {f, decl.source[f]} /\ k \in {g, decl.source[g]} => f = g

(* A hook's name for a field the provider named by its source.             *)
Outranked(n) ==
    n \in Fields /\ n \notin named.provider /\ decl.source[n] \in named.provider

(* What a hook or the provider named reaches the parameter of that name as *)
(* an author's - never the client's, and never lost - but where the        *)
(* provider names the same field otherwise, the lookup alone reads it, or  *)
(* the name is a read's and a field's source, one name of two values.      *)
AuthorOutranksClient ==
    Served => \A n \in named.hook \cup named.provider :
        \/ Outranked(n)
        \/ n \in LookupReads /\ ~Spreads
        \/ n \in ServiceReads \cap Renamed
        \/ Has(pool, n) /\ pool[n] # "client"

(* A typed provider's key is its own: no hook's value fills it, under the  *)
(* key, the source or the wire name.                                       *)
OwnedIsTheProviders ==
    Served => \A n \in Owned : Plain(n) => pool[n] # "hook"

(* A field the server put a value into is that value everywhere: in the    *)
(* body the Validator binds, in data where its source still is, and in the *)
(* parameter of that source, unless an author named that key apart or a    *)
(* seed holds it.                                                          *)
ServerValueIsTheFields ==
    Served => \A f \in Fields :
        LET s == decl.source[f] IN
        Has(held, f) =>
            /\ body[f] = held[f]
            /\ Plain(s) /\ Plain(f) =>
                  /\ data[s] \in {held[f], None}
                  /\ pool[s] = held[f] \/ Has(seat, s) \/ Has(seeds, s)

(* Over HTTP what the URL declares is the URL's: no value of the body is   *)
(* the argument, none reaches the lookup through it or is written onto     *)
(* view.kwargs or the query string; off HTTP a value sent only fills what  *)
(* the route left open.                                                    *)
UrlIsTheUrls ==
    /\ \A n \in request.route : url.route[n] = "route"
    /\ arrival = "http" =>
          /\ Keys(url.route) = request.route /\ Keys(url.query) = request.query
          /\ \A n \in Url \cup Query : arguments[n] # "client" /\ looked[n] # "client"

(* The client's value is the field's alone where the lookup reads a key of *)
(* that name: the lookup is scoped by the route, an author or nothing.     *)
FieldScopesNoLookup ==
    \A n \in Fields \cap LookupReads : looked[n] # "client"

(* What the edge hands the kernel is not refused as the edge's own: the    *)
(* kwargs seat names no seed but one a spreading service and its lookup    *)
(* both ask for and the caller sent, and a seed the edge adds for a        *)
(* capture names no parameter.                                             *)
KernelTakesIt ==
    stage \in {"lookup", "input", "validate", "kernel"} =>
        /\ Keys(seat) \cap Keys(seeds) \subseteq
               IF Spreads THEN Having("seed") \cap LookupReads \cap request.body ELSE {}
        /\ (Keys(seeds) \ Having("seed")) \cap CallerNames = {}

(* A value on view.kwargs is the argument of a name the lookup reads       *)
(* (edge_arguments), unless an author gave one.                            *)
RouteScopesTheLookup ==
    Served => \A n \in request.route \cap LookupReads :
                 looked[n] # "query"
=============================================================================
