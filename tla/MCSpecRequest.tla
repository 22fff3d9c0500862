--------------------------- MODULE MCSpecRequest ---------------------------
(***************************************************************************)
(* The calls TLC makes, in families: each varies one question of a         *)
(* declaration over every mount it can be asked at, and leaves the rest    *)
(* plain.                                                                  *)
(***************************************************************************)
EXTENDS SpecRequest, TLC

CONSTANTS own, other, f, g

Fn(requires) == [requires |-> requires, names |-> {}, spreads |-> FALSE,
                 misplaced |-> FALSE, hides |-> {}, code |-> 200]
Status(code) == [Fn({}) EXCEPT !.code = code]
F0 == Fn({})

Selector(kind) ==
    [is |-> "selector", kind |-> kind, selector |-> F0, permission_classes |-> None,
     preconditions |-> None, affordances |-> None, metadata |-> None, reads |-> <<>>,
     shaped |-> FALSE, annotations |-> None, filter_set |-> None, output_serializer |-> None,
     field_audiences |-> FALSE, allow_none |-> FALSE, progress_reporter |-> FALSE]

Service ==
    [is |-> "service", service |-> F0, input_serializer |-> None, permission_classes |-> None,
     preconditions |-> None, affordances |-> None, metadata |-> None, reads |-> <<>>,
     many |-> FALSE, many_argument |-> "items", instance_selector_spec |-> None,
     collection_selector_spec |-> None, output_selector_spec |-> None, success_status |-> None,
     response_finalizer |-> None, kwargs |-> None, field_audiences |-> FALSE,
     partial |-> FALSE, whole |-> FALSE, readable |-> TRUE]

Poly(specs, strategy) == [is |-> "polymorphic", specs |-> specs, permission_strategy |-> strategy]

View0 ==
    [base |-> "viewset", spec |-> None, stamped |-> None, action_specs |-> [x \in {} |-> None],
     serves |-> "create", permission_classes |-> <<>>, feeds |-> None, backend |-> FALSE,
     queryset |-> TRUE, serializer_class |-> TRUE, resolves_serializers |-> FALSE,
     detail |-> TRUE, lookup |-> TRUE]

Call(view, surface, action) ==
    [view |-> view, surface |-> surface, action |-> action, describes |-> None,
     given |-> [request |-> "none", view |-> FALSE], raises |-> {}]

(* The mounts a spec has over HTTP: a standalone view, a ServiceViewSet's  *)
(* action, a decorated method there and on a plain viewset.                *)
Standalone(declared, action) ==
    Call([View0 EXCEPT !.base = "standalone", !.serves = action, !.spec = declared], "http", action)
Keyed(specs, action) == Call([View0 EXCEPT !.action_specs = specs], "http", action)
Decorates(declared, base, detail) ==
    Call([View0 EXCEPT !.base = base, !.stamped = declared, !.detail = detail], "http", "custom")

MutationMounts(declared) ==
    {Standalone(declared, action) : action \in {"create", "update", "destroy"}}
        \cup {Keyed(action :> declared, action) : action \in {"create", "update", "destroy"}}
        \cup {Decorates(declared, base, detail) : base \in {"viewset", "plain"}, detail \in BOOLEAN}

ReadMounts(declared) ==
    {Standalone(declared, declared.kind), Keyed(declared.kind :> declared, declared.kind)}
        \cup {Decorates(declared, base, declared.kind = "retrieve") : base \in {"viewset", "plain"}}

Offline(declared, surface) ==
    Call([View0 EXCEPT !.base = "standalone", !.spec = declared], surface, "custom")

(* A list payload, of rows with one field.                                 *)
Rows == [Service EXCEPT !.many = TRUE, !.input_serializer = {f}]

(* What a spec may act on.                                                 *)
Acting ==
    {Service,
     [Service EXCEPT !.instance_selector_spec = Selector("retrieve")],
     [Service EXCEPT !.collection_selector_spec = Selector("list")],
     Rows}

OwnClassLists == {None, <<>>, <<own>>}

-----------------------------------------------------------------------------
(* Who guards: PUT and PATCH, a variant, a decorated method, a read.       *)
Guards ==
    LET classed(declared, classes) == [declared EXCEPT !.permission_classes = classes]
        viewed(calls) == {[made EXCEPT !.view.permission_classes = <<other>>] : made \in calls}
        puts == {classed(s, c) : s \in Acting, c \in OwnClassLists}
        patched == {Keyed(("update" :> put) @@ ("partial_update" :> classed(Service, <<own>>)), action) :
                       put \in puts, action \in {"update", "partial_update"}}
        fallback == {Keyed("update" :> put, action) :
                       put \in puts, action \in {"create", "update", "partial_update"}}
        rows == {Keyed(("update" :> put) @@ (kind :> classed(Selector(kind), <<own>>)), action) :
                    put \in {classed(Service, c) : c \in OwnClassLists},
                    kind \in {"retrieve", "list"}, action \in {"update", "partial_update"}}
        polys == {Poly(<<classed(Service, c), classed(Service, d)>>, strategy) :
                     c \in {None, <<own>>}, d \in {None, <<own>>, <<other>>},
                     strategy \in {"union", "discriminate", "require_identical"}}
        variants == {Keyed(action :> p, action) : p \in polys, action \in {"create", "update"}}
                        \cup {Decorates(p, base, TRUE) : p \in polys, base \in {"viewset", "plain"}}
        reads == UNION {ReadMounts(classed([Selector(kind) EXCEPT !.selector = selects], c)) :
                           kind \in {"list", "retrieve"}, selects \in {None, F0},
                           c \in OwnClassLists}
    IN viewed(patched \cup fallback \cup rows \cup variants \cup reads
                \cup UNION {MutationMounts(put) : put \in puts})

(* What a callable requires, at every stage that binds one.                *)
Binding ==
    LET needs == {{}, {"instance"}, {"data"}, {"collection"}, {"odd"}}
        fed == {None, "kwargs"}
        shapes == {[s EXCEPT !.input_serializer = input, !.kwargs = k] :
                      s \in Acting, input \in {None, {f}}, k \in fed}
        services == {[s EXCEPT !.service = Fn(n)] : s \in shapes, n \in needs}
        guarded == {[s EXCEPT !.preconditions = <<Fn(n)>>] : s \in shapes, n \in needs}
        output == {[s EXCEPT !.output_selector_spec =
                        [Selector("retrieve") EXCEPT !.selector = Fn(n \cup {"result"})]] :
                      s \in shapes, n \in needs}
        looked == {[s EXCEPT !.instance_selector_spec =
                        [Selector("retrieve") EXCEPT !.selector = Fn(n)]] :
                      s \in shapes, n \in {{"instance"}, {"odd"}, {f}}}
        reads == {[Selector(kind) EXCEPT !.selector = Fn(n), !.preconditions = <<Fn(m)>>] :
                     kind \in {"list", "retrieve"}, n \in SUBSET {"odd", f},
                     m \in needs}
        missing == {Keyed(("update" :> s) @@ ("retrieve" :> [Selector("retrieve") EXCEPT !.allow_none = b]),
                          "update") : s \in services, b \in BOOLEAN}
        feeding == {[made EXCEPT !.view.feeds = "kwargs"] :
                       made \in UNION {MutationMounts([Service EXCEPT !.service = Fn(n)]) : n \in needs}}
    IN UNION {MutationMounts(s) : s \in services \cup guarded \cup output \cup looked}
          \cup UNION {ReadMounts(s) : s \in reads} \cup missing \cup feeding

(* What is answered, with which status.                                    *)
Rendering ==
    LET outputs == {None} \cup
            {[Selector(kind) EXCEPT !.selector = selects, !.output_serializer = renders,
                                    !.affordances = answers] :
                kind \in {"list", "retrieve"}, selects \in {None, F0},
                renders \in {None, "model"},
                answers \in {None, <<[name |-> <<f>>, of |-> Service]>>}}
        status == {None, Status(200), Status(204), Status(201), Fn({"instance"})}
        finals == {None, Fn({"response", "instance"}), Fn({"data"})}
        specs == {[s EXCEPT !.output_selector_spec = o, !.success_status = code] :
                     s \in Acting, o \in outputs, code \in status}
        finalized == {[s EXCEPT !.response_finalizer = final, !.input_serializer = input] :
                         s \in Acting, final \in finals, input \in {None, {f}}}
        reads == {[Selector(kind) EXCEPT !.selector = selects, !.allow_none = none,
                                         !.output_serializer = renders, !.affordances = answers] :
                     kind \in {"list", "retrieve"}, selects \in {None, F0}, none \in BOOLEAN,
                     renders \in {None, "model"},
                     answers \in {None, <<[name |-> <<f>>, of |-> Service]>>}}
        bare == {[made EXCEPT !.view.serializer_class = serializer, !.view.queryset = rows] :
                    made \in UNION {ReadMounts(s) : s \in reads}
                                \cup {Standalone(None, "list"), Standalone(None, "retrieve"),
                                      Standalone(None, "create"), Keyed([x \in {} |-> None], "retrieve")},
                    serializer \in BOOLEAN, rows \in BOOLEAN}
        rowless == {[made EXCEPT !.view.queryset = FALSE] :
                       made \in MutationMounts(Service) \cup MutationMounts(Rows)}
    IN UNION {MutationMounts(s) : s \in specs \cup finalized} \cup bare \cup rowless
          \cup {Offline(s, surface) : s \in specs \cup reads, surface \in {"edge"}}

(* What is raised.                                                         *)
Teapot(class) == [Raised(class) EXCEPT !.status = 418]
Refused ==
    {Raised(class) : class \in ServiceErrors \cup Kernel \cup {"ValidationError", "NotAuthenticated",
        "PermissionDenied", "NotFound", "Throttled", "NotPermitted", "crash"}}
        \cup {Teapot(class) : class \in {"ValidationError", "PermissionDenied", "NotAuthenticated"}}

Raising ==
    LET guards == {[s EXCEPT !.input_serializer = input, !.preconditions = <<F0>>,
                             !.output_selector_spec = Selector("retrieve"),
                             !.permission_classes = <<own>>] :
                      s \in Acting, input \in {None, {f}}}
        reads == {[Selector(kind) EXCEPT !.preconditions = <<F0>>, !.permission_classes = <<own>>] :
                     kind \in {"list", "retrieve"}}
        poly == Poly(<<Service, Service>>, "discriminate")
        http == UNION {MutationMounts(s) : s \in guards} \cup UNION {ReadMounts(s) : s \in reads}
                  \cup {Keyed(("update" :> Service) @@ ("retrieve" :> s), "update") : s \in reads}
                  \cup {Keyed("create" :> poly, "create"), Decorates(poly, "plain", TRUE)}
        off == {Offline(s, surface) : s \in guards \cup reads, surface \in {"edge", "kernel"}}
    IN {[made EXCEPT !.raises = {refusal}] : made \in http \cup off, refusal \in Refused}

(* What OPTIONS describes before the request.                              *)
Describing ==
    LET entries == Acting \cup {Poly(<<Service, [Service EXCEPT !.input_serializer = {f}]>>, "union"),
                                 Poly(<<Service, Service>>, "union")}
        keyed == {[Keyed(specs, action[1]) EXCEPT !.describes = action[2]] :
                     specs \in {[x \in {} |-> None]} \cup {"create" :> e : e \in entries}
                                  \cup {"update" :> e : e \in entries}
                                  \cup {("update" :> e) @@ ("retrieve" :> Selector("retrieve")) : e \in Acting},
                     action \in {<<"create", "POST">>, <<"update", "PUT">>}}
        custom == {[Decorates(e, "viewset", detail) EXCEPT !.describes = method] :
                      e \in entries \cup {Selector("list")}, detail \in BOOLEAN, method \in {"POST", "PUT"}}
    IN {[made EXCEPT !.view.queryset = rows, !.view.serializer_class = serializer,
                     !.view.lookup = lookup] :
           made \in keyed \cup custom, rows \in BOOLEAN, serializer \in BOOLEAN, lookup \in BOOLEAN}

(* Off HTTP: what the made carries, what the compile refuses.              *)
Carrying ==
    LET carried == {[request |-> request, view |-> view] :
                       request \in {"none", "plain", "drf"}, view \in BOOLEAN}
        reads == {<<>>, <<[name |-> f, channel |-> "url"]>>, <<[name |-> f, channel |-> "query"]>>,
                  <<[name |-> "user", channel |-> "query"]>>,
                  <<[name |-> f, channel |-> "url"], [name |-> f, channel |-> "query"]>>}
        lookup(read, takes, hides) ==
            [Selector("retrieve") EXCEPT !.reads = read,
                !.selector = [F0 EXCEPT !.names = takes, !.hides = hides]]
        specs == {[Service EXCEPT !.permission_classes = c, !.reads = r, !.input_serializer = {f},
                                  !.field_audiences = a] :
                     c \in OwnClassLists, r \in reads, a \in BOOLEAN}
                   \cup {[Service EXCEPT !.permission_classes = c, !.input_serializer = {f},
                            !.instance_selector_spec = lookup(r, t, h)] :
                            c \in OwnClassLists, r \in reads, t \in SUBSET {f}, h \in SUBSET {f}}
                   \cup {[lookup(r, t, h) EXCEPT !.permission_classes = c] :
                            c \in OwnClassLists, r \in reads, t \in SUBSET {f}, h \in SUBSET {f}}
                   \cup {[Selector(kind) EXCEPT !.permission_classes = c, !.reads = r,
                                                !.field_audiences = a] :
                            kind \in {"list", "retrieve"}, c \in OwnClassLists, r \in reads, a \in BOOLEAN}
        http == UNION {IF s.is = "service" THEN MutationMounts(s) ELSE ReadMounts(s) : s \in specs}
                  \cup {Keyed(("update" :> Service) @@ (s.kind :> s), action) :
                           s \in {x \in specs : x.is = "selector"}, action \in {"update", "retrieve"}}
    IN http \cup {[Offline(s, surface) EXCEPT !.given = given] :
                     s \in specs, surface \in {"edge", "kernel"}, given \in carried}

(* What an input may be, and what else may name its field: a read, a       *)
(* lookup's read or its filter.                                            *)
Compiling ==
    LET inputs(s) == {[s EXCEPT !.input_serializer = input, !.partial = part, !.whole = whole,
                                !.readable = known, !.permission_classes = <<>>] :
                         input \in {None, {f}}, part \in BOOLEAN, whole \in BOOLEAN,
                         known \in BOOLEAN}
        read(channel) == <<[name |-> f, channel |-> channel]>>
        reads == {read(channel) : channel \in {"url", "query"}}
        finding(kind) == {[Selector(kind) EXCEPT !.filter_set = {f}]}
                            \cup {[Selector(kind) EXCEPT !.reads = r, !.selector.names = takes] :
                                      r \in reads, takes \in SUBSET {f}}
        naming == {[s EXCEPT !.reads = r] : s \in Acting, r \in reads}
                     \cup {[Service EXCEPT !.instance_selector_spec = s] : s \in finding("retrieve")}
                     \cup {[Service EXCEPT !.collection_selector_spec = s] : s \in finding("list")}
                     \cup {[Service EXCEPT !.instance_selector_spec =
                               [Selector("retrieve") EXCEPT !.reads = r, !.selector = None]] : r \in reads}
        specs == UNION {inputs(s) : s \in Acting \cup naming}
    IN UNION {MutationMounts(s) : s \in specs}
          \cup {Offline(s, surface) : s \in specs, surface \in {"edge", "kernel"}}

(* What a declaration may not say.                                         *)
Refusing ==
    LET cond(row) == [code |-> <<f>>, row |-> row, misplaced |-> FALSE]
        bad(fn) == [fn EXCEPT !.misplaced = TRUE]
        specs == {[s EXCEPT !.affordances = <<cond(row)>>] : s \in Acting, row \in BOOLEAN}
                   \cup {[s EXCEPT !.service = bad(F0)] : s \in Acting}
                   \cup {[s EXCEPT !.metadata = Wrong] : s \in Acting}
                   \cup {[s EXCEPT !.input_serializer = {f}, !.instance_selector_spec =
                            [Selector("retrieve") EXCEPT !.filter_set = names]] :
                            s \in Acting, names \in {{f}, {g}}}
        asks(name, code) ==
            [name |-> name, of |-> [Service EXCEPT !.affordances = <<[cond(TRUE) EXCEPT !.code = code]>>]]
        ignored == {[Selector("retrieve") EXCEPT !.preconditions = <<F0>>],
                  [Selector("retrieve") EXCEPT !.permission_classes = <<own>>],
                  [Selector("retrieve") EXCEPT !.progress_reporter = TRUE]}
        nested == {[Service EXCEPT !.instance_selector_spec = s] : s \in ignored}
                     \cup {[Service EXCEPT !.output_selector_spec = s] : s \in ignored}
        reads == {[Selector("list") EXCEPT !.filter_set = {f}],
                  [Selector("list") EXCEPT !.annotations = {<<f, f>>}, !.affordances = <<asks(<<f>>, <<f>>)>>],
                  [Selector("list") EXCEPT !.affordances = <<asks(<<f>>, <<f, g>>), asks(<<f, f>>, <<g>>)>>],
                  [Selector("list") EXCEPT !.affordances = <<asks(<<f>>, <<g>>), asks(<<f>>, <<f, g>>)>>]}
    IN UNION {MutationMounts(s) : s \in specs \cup nested}
          \cup {[made EXCEPT !.view.backend = b] : made \in UNION {ReadMounts(s) : s \in reads}, b \in BOOLEAN}

MCFamilies == {Guards, Binding, Rendering, Raising, Describing, Carrying, Compiling, Refusing}
=============================================================================
