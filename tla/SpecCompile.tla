---------------------------- MODULE SpecCompile ----------------------------
(***************************************************************************)
(* What as_kernel_spec makes of a spec: which it refuses, which callables  *)
(* the kernel will run, who it will ask, and where each declared read      *)
(* goes.  Every call compiles the spec it dispatches, over HTTP too, so    *)
(* what as_view accepts and the compile refuses is a call's own failure.   *)
(***************************************************************************)
EXTENDS SpecDeclaration

(* The names dispatch fills itself.                                        *)
_NOT_ARGUMENTS == Parameters \ {"response", "odd"}

Names(reads) == {read.name : read \in Elements(reads)}
_owned_keys(callables) == UNION {fn.hides : fn \in callables}
Preconditions(spec) == Each(spec.preconditions)

_declared(reads) == Names(reads) \cap _NOT_ARGUMENTS = {}

(* A read is handed to the callable that says the client does not send it. *)
_refuse_hidden_reads(reads, receivers) == Names(reads) \cap _owned_keys(receivers) = {}

_refuse_nested_runs(nested) == nested.preconditions = None /\ ~nested.progress_reporter

(* Whether a presenter can be built: audiences layer over a serializer.    *)
_presenter(serializer, audiences) == serializer = None => ~audiences

_audiences(output, outer) == output.field_audiences \/ outer

Lookups(spec) == {spec.instance_selector_spec, spec.collection_selector_spec} \ {None}

(* The lookups the kernel runs: an instance lookup without a selector is   *)
(* the view's own.                                                         *)
_lookup_selectors(spec) == {nested \in Lookups(spec) : nested.selector # None}

Target(spec) ==
    IF _lookup_selectors(spec) = {} THEN None ELSE CHOOSE x \in _lookup_selectors(spec) : TRUE

Takes(fn) == fn.requires \cup fn.names
Receivers(spec) == {spec.service} \cup Preconditions(spec)

(* The lookup's reads: its selector's parameters, and what it declares of  *)
(* them, but what any callable of the spec hides.                          *)
Taken(spec) ==
    IF Target(spec) = None THEN {}
    ELSE (Takes(Target(spec).selector) \cap Fields)
             \ _owned_keys(Receivers(spec) \cup {Target(spec).selector})

(* A selector of its own reads its parameters, but what is hidden.         *)
SelectorReads(spec) ==
    (Takes(spec.selector) \cap Fields) \ _owned_keys({spec.selector} \cup Preconditions(spec))

(* A route's key may also be a field, of the row it finds.                 *)
_refuse_reads_named_like_fields(spec) ==
    \A read \in UNION {Elements(declared.reads) : declared \in {spec} \cup Lookups(spec)} :
        read.name \in _compiled_input_names(spec)
            => read.name \in Taken(spec) /\ read.channel = "url"

compiled_partial(spec) == spec.partial /\ spec.input_serializer # None

(* The kernel reads each row with a Validator, and takes no partial call   *)
(* over an input built whole.                                              *)
KernelServiceSpec(spec) ==
    /\ spec.many => spec.input_serializer # None
    /\ compiled_partial(spec) => ~spec.whole

(* A call starts by reading its variant's parameters, request at hand: no  *)
(* name is a field and a filter, or a field and a read not the lookup's.   *)
parameters(spec) ==
    LET filters == IF Target(spec) = None \/ Target(spec).filter_set = None THEN {}
                   ELSE Target(spec).filter_set
    IN writable_input_names(spec) \cap (filters \cup (Names(spec.reads) \ Taken(spec))) = {}

-----------------------------------------------------------------------------

(* role None is a spec of its own.                                         *)
_selector(spec, role, audiences) ==
    /\ role # None => _refuse_nested_runs(spec)
    /\ spec.selector # None
    /\ role = None =>
          /\ _declared(spec.reads)
          /\ _refuse_hidden_reads(spec.reads, {spec.selector} \cup Preconditions(spec))
          /\ _presenter(spec.output_serializer, spec.field_audiences)
    /\ role = "output" => _presenter(spec.output_serializer, audiences)

(* A nested instance lookup without a selector is left out, checks and all.*)
_nested(spec) ==
    /\ \A nested \in _lookup_selectors(spec) : _selector(nested, "lookup", FALSE)
    /\ spec.collection_selector_spec # None => spec.collection_selector_spec.selector # None

(* The output's selector, which a list payload's rows are not read with.   *)
Rereads(spec) ==
    /\ spec.output_selector_spec # None
    /\ spec.output_selector_spec.selector # None /\ ~spec.many

_output(spec) ==
    LET output == spec.output_selector_spec IN
    IF output = None THEN _presenter(None, spec.field_audiences)
    ELSE LET audiences == _audiences(output, spec.field_audiences) IN
         IF Rereads(spec) THEN _selector(output, "output", audiences)
         ELSE /\ _refuse_nested_runs(output)
              /\ _presenter(output.output_serializer, audiences)

_service(spec) ==
    /\ _declared(spec.reads) /\ _refuse_hidden_reads(spec.reads, Receivers(spec))
    /\ _nested(spec) /\ _refuse_reads_named_like_fields(spec) /\ _output(spec)
    /\ KernelServiceSpec(spec)

as_kernel_spec(spec) ==
    IF spec.is = "service" THEN _service(spec) ELSE _selector(spec, None, FALSE)

-----------------------------------------------------------------------------
(* The kernel spec's flags.                                                *)

(* The service's own return is the list presented.                         *)
_returns_many(spec) ==
    /\ spec.output_selector_spec # None /\ spec.output_selector_spec.kind = "list"
    /\ spec.output_selector_spec.selector = None /\ ~spec.many

(* A row's key is what a route captures; a set's filters are not.          *)
_route_reads(spec) ==
    CASE spec.is = "service" -> Taken(spec)
      [] spec.is = "selector" /\ spec.kind = "retrieve" -> SelectorReads(spec)
      [] OTHER -> {}

Routed(reads, channel) == {read.name : read \in {r \in Elements(reads) : r.channel = channel}}

(* Nothing declared is nothing checked, and the kernel dispatches no such  *)
(* spec unless it is told to; an empty list lets everyone in.  A declared  *)
(* QueryParam is the query string's, wherever the lookup reads it.         *)
_permissions(spec) ==
    IF spec.permission_classes = None THEN None
    ELSE [classes |-> Elements(spec.permission_classes),
          url_kwargs |-> Routed(spec.reads, "url"),
          query_params |-> Routed(spec.reads, "query"),
          route_reads |-> _route_reads(spec) \ Routed(spec.reads, "query")]
=============================================================================
