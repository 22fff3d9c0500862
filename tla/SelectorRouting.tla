--------------------------- MODULE SelectorRouting ---------------------------
(***************************************************************************)
(* A read whose filter shares names with its callables: one edge call of a *)
(* selector spec that declares a filter_set, and a dispatch of the spec    *)
(* through the kernel made inside its selector.                            *)
(*                                                                         *)
(* The kernel has one argument to a name and hands it to the filter and to *)
(* every callable taking that name.  The edge keeps the two apart: what a  *)
(* callable is handed under a filter's name is put aside before the        *)
(* filter's own value replaces it (beside_filter), and a parameter marked  *)
(* NotClientInput takes its value on a channel no client can name.  Every  *)
(* mapping holds, for each name, only WHO gave the value.                  *)
(*                                                                         *)
(* The selector and a precondition are taken to name every parameter, each *)
(* with a default.                                                         *)
(***************************************************************************)
CONSTANT Names \* keys: of arguments, filters, parameters

(* The roles a spec may give a name. *)
Roles == {"filter", \* a filter of the filter_set
          "url",    \* a UrlKwarg the spec declares
          "query",  \* a QueryParam the spec declares
          "hides",  \* a parameter a callable marks NotClientInput
          "owned"}  \* a key the spec's typed kwargs provider fills

(* How a call arrives: over a live DRF view, or from any other caller. *)
Arrivals == {"http", "offline"}

(* Who gives a value: "declined" is UNSET, which an author may answer, and *)
(* "inner" what a call made inside the selector sends.                     *)
Who == {"client", "route", "query", "filter", "hook", "provider", "declined", "inner"}
None == "nobody"

VARIABLES
    stage,     \* how far the call has come
    decl,      \* the roles of each name
    request,   \* how the call arrived and what its params, URL and filter_data hold
    route,     \* view.kwargs
    arguments, \* the kernel's arguments
    named,     \* what the view's hooks and the spec's provider answered
    beside,    \* EdgeCallState.beside_filter
    extra,     \* extra_kwargs, a marked filter's name standing for its channel
    seen,      \* what the selector was handed
    gated,     \* what the preconditions were handed
    inner,     \* a call made inside the selector, through the kernel
    filtered   \* what the filter read

vars == <<stage, decl, request, route, arguments, named, beside, extra, seen, gated,
          inner, filtered>>
call == <<decl, request>>
handed == <<seen, gated, inner, filtered>>

Maps == [Names -> Who \cup {None}]
Nothing == [n \in Names |-> None]
Keys(map) == {n \in Names : map[n] # None}
Put(map, set, who) == [n \in Names |-> IF n \in set THEN who ELSE map[n]]
Drop(map, set) == Put(map, set, None)
Only(map, set) == [n \in Names |-> IF n \in set THEN map[n] ELSE None]
Over(top, map) == [n \in Names |-> IF top[n] # None THEN top[n] ELSE map[n]]
Given(map) == {n \in Names : map[n] \notin {None, "declined"}}

-----------------------------------------------------------------------------
(* The declaration, as it compiles.                                        *)

In(d, role) == {n \in Names : role \in d[n]}
Filters == In(decl, "filter")
Hidden == In(decl, "hides")
Declared == In(decl, "url") \cup In(decl, "query")

(* _shadowed: the names a filter reads and a callable hides.               *)
Shadowed == Hidden \cap Filters
Beside == Filters \ Shadowed

(* The compiled reads: the parameters no callable hides, and the filters.  *)
Reads == (Names \ Hidden) \cup Filters

(* A typed provider's keys; one a filter reads and a callable hides is     *)
(* answered on its channel and owns no argument.                           *)
Owned == In(decl, "owned") \ Shadowed

(* One channel to a declared read, which no callable hides.                *)
Compiles(d) ==
    /\ In(d, "url") \cap In(d, "query") = {}
    /\ (In(d, "url") \cup In(d, "query")) \cap In(d, "hides") = {}

Declarations == {d \in [Names -> SUBSET Roles] : Compiles(d)}

(* A selector view sends no params, bundles, and hands the query string on *)
(* as filter_data; any other caller may send, bind and filter as it likes. *)
Requests ==
    {r \in [arrival : Arrivals, bundled : BOOLEAN, sent : SUBSET Names, route : SUBSET Names,
            query : SUBSET Names, filters : BOOLEAN, filter : SUBSET Names] :
        /\ r.arrival = "http" => r.bundled /\ r.sent = {} /\ r.filters /\ r.filter = r.query
        /\ ~r.filters => r.filter = {}}

OverHTTP == request.arrival = "http"

Init ==
    /\ stage = "arguments"
    /\ decl \in Declarations
    /\ request \in Requests
    /\ route = Put(Nothing, request.route, "route")
    /\ named = [hook |-> Nothing, provider |-> Nothing]
    /\ arguments = Nothing /\ beside = Nothing /\ extra = Nothing
    /\ seen = Nothing /\ gated = Nothing /\ filtered = Nothing
    /\ inner = [dispatched |-> "nothing", handed |-> Nothing]

-----------------------------------------------------------------------------
(* edge_arguments: the route's captures over what was sent, a UrlKwarg     *)
(* sent off HTTP onto the view's kwargs, a QueryParam from the query       *)
(* string, alone over HTTP and where none was sent off it.                 *)
Routed ==
    Put(Put(Nothing, request.sent \ (IF OverHTTP THEN In(decl, "url") ELSE {}), "client"),
        Reads \cap request.route, "route")

OntoRoute == IF OverHTTP THEN {} ELSE (In(decl, "url") \ request.route) \cap Keys(Routed)

Queried ==
    LET kept == Drop(Routed, IF OverHTTP THEN In(decl, "query") ELSE {})
    IN Put(kept, (In(decl, "query") \cap request.query) \ Keys(kept), "query")

(* Under BUNDLE a parameter that is no declared read takes nothing of the  *)
(* caller's (bundled_selector).                                            *)
CallerNames == Reads \ (Declared \cup Filters)

EdgeArguments ==
    /\ stage = "arguments"
    /\ route' = Put(route, OntoRoute, "client")
    /\ arguments' = Drop(Queried, IF request.bundled THEN CallerNames \ Keys(route') ELSE {})
    /\ stage' = "beside"
    /\ UNCHANGED <<call, named, beside, extra, handed>>

(* _beside_filter: what was sent, or captured, under a filter's name; under*)
(* BUNDLE a declared read's alone, and what is captured.                   *)
CapturedFilters == Only(route, Beside)

BesideFilter ==
    Over(CapturedFilters, Only(arguments, Beside \cap (IF request.bundled THEN Declared ELSE Names)))

(* With filter_data a filter is read from it alone. *)
FilterData == IF request.filters
              THEN Put(Drop(arguments, Filters), Filters \cap request.filter, "filter")
              ELSE arguments

PutBeside ==
    /\ stage = "beside"
    /\ beside' = BesideFilter
    /\ stage' = "filter"
    /\ UNCHANGED <<call, route, arguments, named, extra, handed>>

(* _route_filter_data. *)
RouteFilterData ==
    /\ stage = "filter"
    /\ arguments' = FilterData
    /\ stage' = "author"
    /\ UNCHANGED <<call, route, named, beside, extra, handed>>

-----------------------------------------------------------------------------
(* _route_author_values, of a selector spec.                               *)

(* What an author may answer; a live view's hooks drop what they decline,  *)
(* and nothing is declined of a name that goes by its channel.             *)
Answers(who) ==
    {m \in [Names -> {who, "declined", None}] :
        \A n \in Names : m[n] = "declined" => n \notin Shadowed /\ (who = "hook" => ~OverHTTP)}

(* The provider is heard over the hooks, its declining as well.            *)
Answered == Over(named.provider, named.hook)

(* _split_author_values: a declined key supplies nothing. *)
Valued(map) == Only(map, Given(map))
Authored == Over(Valued(named.provider), Valued(named.hook))

(* What is answered under a filter's name is the callables'.               *)
BesideAnswers == Only(Answered, Beside)

(* What goes on as an extra: a marked name's capture, or an author's value *)
(* for it (_hidden_captures, _on_the_server_s_channel).                    *)
Extras == Over(Only(Authored, Hidden), Only(route, Hidden))

(* What goes into the arguments, over the caller's: the provider's values, *)
(* a filter's too, and a hook's for a read that no filter shares; nothing  *)
(* of the caller's stays under a key the provider owns.                    *)
AuthoredArguments ==
    Over(Only(Valued(named.provider), Reads \ Shadowed),
         Over(Only(Valued(named.hook), Reads \ Filters), Drop(arguments, Owned)))

Answer ==
    /\ stage = "author"
    /\ \E hooks \in Answers("hook"), provided \in Answers("provider") :
           named' = [hook |-> Drop(hooks, Owned), provider |-> provided]
    /\ stage' = "route"
    /\ UNCHANGED <<call, route, arguments, beside, extra, handed>>

RouteAuthorValues ==
    /\ stage = "route"
    /\ arguments' = AuthoredArguments
    /\ beside' = Over(BesideAnswers, beside)
    /\ extra' = Extras
    /\ stage' = "select"
    /\ UNCHANGED <<call, route, named, handed>>

-----------------------------------------------------------------------------
(* The kernel's dispatch.                                                  *)

(* What it has for a callable's parameters: a marked name's extra, by its  *)
(* channel, the argument of any other.                                     *)
Pool == [n \in Names |-> IF n \in Hidden THEN extra[n] ELSE arguments[n]]

(* _beside_its_filter: a pool as handed to a callable of the spec, within  *)
(* a call that put values aside for it.                                    *)
Handed(pool) == [n \in Names |-> IF n \in Beside THEN beside[n] ELSE pool[n]]

Select ==
    /\ stage = "select"
    /\ seen' = Handed(Pool)
    /\ stage' = "selecting"
    /\ UNCHANGED <<call, route, arguments, named, beside, extra, gated, inner, filtered>>

(* values_beside_filter: the values an edge call put aside, for a callable *)
(* of the spec it put them aside for.                                      *)
PutAsideFor(spec) == spec = "same"

(* A dispatch through the kernel from inside the selector, of this spec or *)
(* of another that declares as much: its own arguments and, over them, its *)
(* provider's values; a marked or an owned name is no caller's.            *)
KernelPool(sent) ==
    [n \in Names |-> IF n \in Given(named.provider) THEN "provider"
                     ELSE IF n \in sent \ (Hidden \cup Owned) THEN "inner" ELSE None]

KernelCall ==
    /\ stage = "selecting"
    /\ \E spec \in {"same", "another"}, sent \in SUBSET Names :
           inner' = [dispatched |-> spec,
                     handed |-> IF PutAsideFor(spec) THEN Handed(KernelPool(sent))
                                ELSE KernelPool(sent)]
    /\ stage' = "shape"
    /\ UNCHANGED <<call, route, arguments, named, beside, extra, seen, gated, filtered>>

SelectorReturns ==
    /\ stage = "selecting"
    /\ stage' = "shape"
    /\ UNCHANGED <<call, route, arguments, named, beside, extra, handed>>

Shape ==
    /\ stage = "shape"
    /\ filtered' = Only(arguments, Filters)
    /\ stage' = "gate"
    /\ UNCHANGED <<call, route, arguments, named, beside, extra, seen, gated, inner>>

RunPreconditions ==
    /\ stage = "gate"
    /\ gated' = Handed(Pool)
    /\ stage' = "served"
    /\ UNCHANGED <<call, route, arguments, named, beside, extra, seen, inner, filtered>>

Next ==
    \/ EdgeArguments \/ PutBeside \/ RouteFilterData \/ Answer \/ RouteAuthorValues
    \/ Select \/ KernelCall \/ SelectorReturns \/ Shape \/ RunPreconditions

Spec == Init /\ [][Next]_vars

-----------------------------------------------------------------------------
(* Whose value reached whom.                                               *)

Sent == [Names -> {"client", "route", "query", "filter", "hook", "provider", None}]
ServerMaps == [Names -> {"route", "hook", "provider", None}]

(* No argument, and nothing the filter reads, is a declined key, and an    *)
(* extra is the server's (_split_author_values, _hidden_captures).         *)
TypeOK ==
    /\ stage \in {"arguments", "beside", "filter", "author", "route", "select", "selecting",
                  "shape", "gate", "served"}
    /\ decl \in Declarations /\ request \in Requests
    /\ named \in [hook : Maps, provider : Maps]
    /\ route \in Maps /\ arguments \in Sent /\ filtered \in Sent /\ extra \in ServerMaps
    /\ beside \in Maps /\ seen \in Maps /\ gated \in Maps
    /\ inner \in [dispatched : {"nothing", "same", "another"}, handed : Maps]

(* What a callable of the call was handed for n. *)
To(n) == {seen[n], gated[n]}

(* filter_data, and the query string a live view's filter reads, feed the  *)
(* filter alone: no selector and no precondition takes them, unless a      *)
(* declared QueryParam names the filter (docs/reference/dispatch.md).      *)
FilterDataFeedsTheFilter ==
    \A n \in Names :
        /\ "filter" \notin To(n)
        /\ OverHTTP /\ "query" \in To(n) => n \in In(decl, "query")

(* A parameter any callable marks NotClientInput is the server's, though a *)
(* filter of its name takes the client's, in this call and in one made     *)
(* inside it (_on_the_server_s_channel).                                   *)
MarkedParameterIsTheServers ==
    \A n \in Hidden : To(n) \cup {inner.handed[n]} \subseteq {"route", "hook", "provider", None}

(* A view hook's value is no filter's, and with filter_data a marked       *)
(* filter reads that alone (docs/recipes/off-http-inputs.md).              *)
FilterReadsNoHook ==
    \A n \in Names :
        /\ filtered[n] # "hook"
        /\ n \in Shadowed /\ request.filters => filtered[n] \in {"filter", None}

(* Under BUNDLE nothing the caller sends is a callable's but a declared    *)
(* read, whether a filter takes it or not, and the filter still reads what *)
(* the caller sent (bundled_selector).                                     *)
BundleSpreadsNothing ==
    request.bundled => \A n \in Names :
        /\ "client" \in To(n) => n \in Declared
        /\ (stage = "served" /\ ~request.filters
             /\ n \in (request.sent \cap Filters) \ (request.route \cup Owned)
             /\ n \notin Given(named.provider))
               => filtered[n] = "client"

(* An author's value reaches every callable, over the caller's, the        *)
(* route's and filter_data's, the provider's over a hook's, which a name   *)
(* of the filter's loses even to one the provider declines; and the        *)
(* provider's filters too, where no callable marks the name.               *)
AuthorOutranksAll ==
    stage = "served" => \A n \in Names :
        /\ n \in Given(named.provider) => To(n) = {"provider"}
        /\ n \in Given(named.hook) \ Given(named.provider) =>
              To(n) = {IF n \in Beside \cap Keys(named.provider) THEN "declined" ELSE "hook"}
        /\ n \in Given(named.provider) \cap Beside => filtered[n] = "provider"

(* A key the typed provider owns is nobody else's: no parameter that no    *)
(* filter shares, and no filter, takes the caller's or a hook's value.     *)
OwnedIsTheProviders ==
    \A n \in Owned :
        /\ n \notin Filters => To(n) \subseteq {"provider", "route", None}
        /\ n \in Filters => filtered[n] \in {"provider", None}

(* What the edge put aside is for its own spec's callables: a call of      *)
(* another spec made inside reads its own pool (values_beside_filter).     *)
AnotherSpecReadsItsPool ==
    inner.dispatched = "another" =>
        \A n \in Names : inner.handed[n] \in {"inner", "provider", None}
==============================================================================
