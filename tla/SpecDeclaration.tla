-------------------------- MODULE SpecDeclaration --------------------------
(***************************************************************************)
(* What a declaration may say.  A ServiceSpec or a SelectorSpec is refused *)
(* where it is built (its __post_init__) or where it is mounted (as_view,  *)
(* @service_action, @selector_action); what is accepted is what dispatch   *)
(* then takes for granted.                                                 *)
(*                                                                         *)
(* A callable is the parameters it requires, whether it takes any keyword  *)
(* and whether it marks one where no marker is read.  Wrong stands for any *)
(* value of a type the field does not take.                                *)
(***************************************************************************)
EXTENDS Naturals, Sequences, FiniteSets

CONSTANTS
    Classes,  \* permission classes
    Fields,   \* names of serializer fields, filters and reads
    None,     \* a field left unset
    Wrong     \* a value no field takes

ASSUME DeclarationAssumption ==
    /\ None # Wrong /\ Wrong \notin Classes /\ None \notin Classes

(* The names a stage may hand a callable, and "odd", which only an author's*)
(* kwargs do.                                                              *)
FrameworkKeys == {"data", "serializer", "instance", "result"}
Parameters ==
    FrameworkKeys \cup {"request", "user", "view", "response", "collection", "odd"}

IsSet(value) == value \notin {None, Wrong}
Elements(seq) == {seq[i] : i \in DOMAIN seq}
Each(value) == IF IsSet(value) THEN Elements(value) ELSE {}
Unique(seq, Key(_)) == \A i, j \in DOMAIN seq : Key(seq[i]) = Key(seq[j]) => i = j

-----------------------------------------------------------------------------
(* Where a spec is built.                                                  *)

validate_metadata(spec) == spec.metadata # Wrong

validate_reads(spec) ==
    spec.reads # Wrong /\ Unique(spec.reads, LAMBDA read : read.name)

validate_many_argument(spec) ==
    spec.many_argument # Wrong /\ (spec.many_argument # "items" => spec.many)

(* No lookup dispatch would never call.                                    *)
validate_target_lookups(spec) ==
    /\ spec.instance_selector_spec = None \/ spec.collection_selector_spec = None
    /\ spec.many => spec.instance_selector_spec = None /\ spec.collection_selector_spec = None

OnASet(spec) == spec.many \/ spec.collection_selector_spec # None

(* An affordance is its code, whether it is a condition on the row, and    *)
(* whether its callable misplaces a marker.                                *)
validate_service_affordances(spec) ==
    IsSet(spec.affordances) =>
        /\ Wrong \notin Elements(spec.affordances)
        /\ Unique(spec.affordances, LAMBDA affordance : affordance.code)
        /\ OnASet(spec) => \A affordance \in Elements(spec.affordances) : ~affordance.row

ServiceSpecBuilt(spec) ==
    /\ validate_metadata(spec) /\ validate_reads(spec)
    /\ validate_many_argument(spec) /\ validate_target_lookups(spec)
    /\ spec.affordances # Wrong /\ validate_service_affordances(spec)

(* A name and a code are sequences of parts: joined, two pairs may meet.   *)
affordance_alias(name, code) == name \o code

(* The answers a selector adds to its rows: an entry's name, and a code of *)
(* the spec whose affordances it asks.                                     *)
Answers(spec) ==
    UNION {{<<entry.name, affordance.code>> : affordance \in Each(entry.of.affordances)} :
              entry \in Each(spec.affordances)}

Aliases(spec) == IF spec.annotations = None THEN {} ELSE spec.annotations

validate_selector_affordances(spec) ==
    /\ spec.affordances # Wrong
    /\ \A entry \in Each(spec.affordances) :
          entry # Wrong /\ entry.name # <<>> /\ entry.of.is = "service"
    /\ \A x, y \in Answers(spec) :
          affordance_alias(x[1], x[2]) = affordance_alias(y[1], y[2]) => x = y
    /\ \A x \in Answers(spec) : affordance_alias(x[1], x[2]) \notin Aliases(spec)

SelectorSpecBuilt(spec) ==
    validate_metadata(spec) /\ validate_reads(spec) /\ validate_selector_affordances(spec)

Nested(spec) ==
    {spec.instance_selector_spec, spec.collection_selector_spec, spec.output_selector_spec} \ {None}

(* A nested spec is built before the one that holds it; a wrapper checks   *)
(* nothing of its own.                                                     *)
Built(spec) ==
    CASE spec.is = "service" ->
            /\ ServiceSpecBuilt(spec)
            /\ \A nested \in Nested(spec) : SelectorSpecBuilt(nested)
      [] spec.is = "selector" -> SelectorSpecBuilt(spec)
      [] OTHER -> \A i \in DOMAIN spec.specs :
                     spec.specs[i].is = "service" => ServiceSpecBuilt(spec.specs[i])

-----------------------------------------------------------------------------
(* Where it is mounted.                                                    *)

(* A site: the framework's keys there, whether an author's kwargs that     *)
(* nothing reads may feed the callable, and the names it seeds besides.    *)
Site(keys, fed, seeds) == [keys |-> keys, fed |-> fed, seeds |-> seeds]

(* A mistake: whatever the framework lacks, an author may feed. *)
SignatureFed(fn, site) ==
    \/ fn.spreads \/ site.fed
    \/ fn.requires \subseteq {"request", "user"} \cup site.keys \cup site.seeds

(* A required framework key absent here is fatal, however it is fed.       *)
validate_callable_signature(fn, site) ==
    \/ fn.spreads
    \/ /\ fn.requires \cap FrameworkKeys \subseteq site.keys
       /\ site.fed \/ fn.requires \subseteq {"request", "user"} \cup site.keys \cup site.seeds

(* A mistake: affordances shape nothing. *)
ShapesTheQuery(spec) == spec.shaped \/ spec.annotations # None \/ spec.filter_set # None

_has_any_shaping(spec) ==
    spec.shaped \/ spec.annotations # None \/ spec.filter_set # None \/ spec.affordances # None

_validate_selector_shaping(spec) == _has_any_shaping(spec) => spec.selector # None

(* django-filter's own backend would filter a list once more.              *)
validate_filter_set_no_backend_conflict(spec, backend) ==
    spec.filter_set # None => ~backend

_validate_permission_classes(spec) ==
    spec.permission_classes # Wrong /\ Each(spec.permission_classes) \subseteq Classes

_validate_input_serializer(spec) == spec.input_serializer # Wrong

_validate_preconditions(spec, site) ==
    /\ spec.preconditions # Wrong
    /\ \A fn \in Each(spec.preconditions) : fn # Wrong /\ validate_callable_signature(fn, site)

_validate_row_affordances(spec, has_instance) ==
    has_instance \/ \A affordance \in Each(spec.affordances) : ~affordance.row

(* What only the spec being dispatched is asked.                           *)
_reject_ignored_nested_fields(nested) ==
    nested.preconditions = None /\ ~nested.progress_reporter /\ nested.permission_classes = None

_reject_unrendered_affordances(nested) == nested.affordances = None

Body(spec) == IF spec.input_serializer = None THEN {} ELSE {"data", "serializer"}
Row(has_instance) == IF has_instance THEN {"instance"} ELSE {}

SelectorTakes(nested, site) ==
    /\ _validate_selector_shaping(nested)
    /\ nested.selector # None => validate_callable_signature(nested.selector, site)

(* The output selector takes the service's own result and kwargs.          *)
_validate_output_selector_spec(spec, has_instance, permissive) ==
    LET output == spec.output_selector_spec IN
    output # None =>
        /\ _reject_ignored_nested_fields(output)
        /\ output.kind = "list" => spec.collection_selector_spec # None
        /\ SelectorTakes(output, Site(Body(spec) \cup Row(has_instance) \cup {"result"},
                                      permissive \/ spec.kwargs # None, {}))

_validate_instance_selector_spec(spec, has_instance) ==
    LET lookup == spec.instance_selector_spec IN
    lookup # None =>
        /\ _reject_ignored_nested_fields(lookup) /\ _reject_unrendered_affordances(lookup)
        /\ has_instance /\ lookup.kind = "retrieve"
        /\ SelectorTakes(lookup, Site({}, TRUE, {}))

_validate_collection_selector_spec(spec) ==
    LET lookup == spec.collection_selector_spec IN
    lookup # None =>
        /\ _reject_ignored_nested_fields(lookup) /\ _reject_unrendered_affordances(lookup)
        /\ lookup.kind = "list" /\ lookup.selector # None
        /\ SelectorTakes(lookup, Site({}, TRUE, {}))

(* A status, an int or a callable; a finalizer is only ever a callable.    *)
_validate_success_status(spec) ==
    LET status == spec.success_status IN
    /\ status # Wrong
    /\ status # None => status.spreads \/ status.requires \subseteq
                            {"result", "instance", "request", "view"}

_validate_response_finalizer(spec) ==
    LET finalizer == spec.response_finalizer IN
    /\ finalizer # Wrong
    /\ finalizer # None => finalizer.spreads \/ finalizer.requires \subseteq
                               {"response", "result", "request", "view", "instance", "data"}

(* A condition on the row is compiled into the query and never called.     *)
_callable_conditions(spec) == {affordance \in Each(spec.affordances) : ~affordance.row}

SelectorCallables(spec) ==
    ({spec.selector} \ {None}) \cup Each(spec.preconditions)
        \cup UNION {_callable_conditions(entry.of) : entry \in Each(spec.affordances)}

(* Every callable dispatch binds through the marker read.                  *)
_marker_reading_callables(spec) ==
    IF spec.is = "selector" THEN SelectorCallables(spec)
    ELSE {spec.service} \cup Each(spec.preconditions) \cup _callable_conditions(spec)
            \cup UNION {SelectorCallables(nested) : nested \in Nested(spec)}

_refuse_misplaced_schema_markers(spec) ==
    \A fn \in _marker_reading_callables(spec) : ~fn.misplaced

(* The fields the body writes; a list payload's are each row's.            *)
writable_input_names(spec) ==
    IF spec.input_serializer = None \/ spec.many THEN {} ELSE spec.input_serializer

(* What can be read of them with no call: of a serializer that needs the   *)
(* request, or the database, to describe its fields, nothing.              *)
_compiled_input_names(spec) == IF spec.readable THEN writable_input_names(spec) ELSE {}

(* A mistake: only a set's filters are looked at. *)
FiltersOfASetAlone(spec) ==
    spec.collection_selector_spec # None /\ spec.collection_selector_spec.filter_set # None
        => spec.collection_selector_spec.filter_set \cap _compiled_input_names(spec) = {}

(* A filter's value comes off the query string and a field's off the body, *)
(* so no name is both.                                                     *)
_refuse_filters_named_like_fields(spec) ==
    LET target == IF spec.collection_selector_spec # None THEN spec.collection_selector_spec
                  ELSE spec.instance_selector_spec
    IN target # None /\ target.filter_set # None
          => target.filter_set \cap _compiled_input_names(spec) = {}

validate_service_spec(spec, has_instance, permissive) ==
    LET site == Site(Body(spec) \cup Row(has_instance), permissive \/ spec.kwargs # None,
                     IF spec.collection_selector_spec # None THEN {"collection"} ELSE {})
    IN
    /\ _validate_success_status(spec) /\ _validate_response_finalizer(spec)
    /\ _validate_input_serializer(spec) /\ _validate_permission_classes(spec)
    /\ validate_callable_signature(spec.service, site)
    /\ _validate_preconditions(spec, site)
    /\ _validate_row_affordances(spec, has_instance)
    /\ _validate_collection_selector_spec(spec)
    /\ _validate_instance_selector_spec(spec, has_instance)
    /\ _validate_output_selector_spec(spec, has_instance, permissive)
    /\ _refuse_filters_named_like_fields(spec) /\ _refuse_misplaced_schema_markers(spec)

validate_polymorphic_service_spec(poly, has_instance, permissive) ==
    /\ poly.specs # <<>>
    /\ \A variant \in Elements(poly.specs) :
          variant.is = "service" /\ validate_service_spec(variant, has_instance, permissive)
    /\ poly.permission_strategy = "require_identical" =>
          Cardinality({variant.permission_classes : variant \in Elements(poly.specs)}) = 1

(* No author's kwargs are read; the target seeds one name or the other.    *)
validate_selector_spec(spec, expected_kind) ==
    /\ _validate_permission_classes(spec) /\ _validate_selector_shaping(spec)
    /\ expected_kind # None => spec.kind = expected_kind
    /\ _validate_preconditions(spec, Site(Row(spec.kind = "retrieve"), TRUE,
                                          IF spec.kind = "list" THEN {"collection"} ELSE {}))
    /\ _refuse_misplaced_schema_markers(spec)
    /\ spec.selector # None => validate_callable_signature(spec.selector, Site({}, TRUE, {}))
=============================================================================
