----------------------------- MODULE SpecMount -----------------------------
(***************************************************************************)
(* What a view makes of the specs mounted on it: which it accepts, which   *)
(* spec an action runs, which permission classes guard it, where a         *)
(* mutation's row comes from, and what OPTIONS says of it.                 *)
(*                                                                         *)
(* A view is one of drfs' five standalone views (base "standalone"), a     *)
(* ServiceViewSet ("viewset"), or a DRF viewset that carries nothing of    *)
(* drfs but a decorated method ("plain"), wired by a DRF router.  The      *)
(* action "custom" is the decorated one; its spec is stamped on the        *)
(* handler.                                                                *)
(***************************************************************************)
EXTENDS SpecDeclaration

Mutations == {"create", "update", "partial_update", "destroy"}
Actions == Mutations \cup {"list", "retrieve", "custom"}

has_instance(action) == action \in {"update", "partial_update", "destroy"}
_SELECTOR_ACTION_KIND == [list |-> "list", retrieve |-> "retrieve"]
_ACTION_SPEC_FALLBACKS == [partial_update |-> "update"]

Get(specs, action) == IF action \in DOMAIN specs THEN specs[action] ELSE None

resolve_action_spec_entry(view, action) ==
    IF Get(view.action_specs, action) = None /\ action \in DOMAIN _ACTION_SPEC_FALLBACKS
    THEN Get(view.action_specs, _ACTION_SPEC_FALLBACKS[action])
    ELSE Get(view.action_specs, action)

(* A mistake: a PATCH is guarded by the entry of its own name alone. *)
OwnEntry(view, action) ==
    LET entry == Get(view.action_specs, action) IN
    IF entry = None /\ action = "custom" THEN view.stamped ELSE entry

(* Keyed in action_specs, else stamped by a decorator.                     *)
resolve_action_spec(view, action) ==
    LET entry == resolve_action_spec_entry(view, action) IN
    IF entry = None /\ action = "custom" THEN view.stamped ELSE entry

-----------------------------------------------------------------------------
(* What as_view and the decorators accept.                                 *)

_mutation_extras_are_permissive(view) == view.feeds # None

_validate_mutation_action_spec(view, action, spec) ==
    CASE spec.is = "polymorphic" ->
            validate_polymorphic_service_spec(spec, has_instance(action),
                                              _mutation_extras_are_permissive(view))
      [] spec.is = "service" ->
            validate_service_spec(spec, has_instance(action),
                                  _mutation_extras_are_permissive(view))
      [] OTHER -> FALSE

_validate_selector_action_spec(view, action, spec) ==
    /\ spec.is = "selector"
    /\ validate_selector_spec(spec, _SELECTOR_ACTION_KIND[action])
    /\ action = "list" => validate_filter_set_no_backend_conflict(spec, view.backend)

(* What the key cannot say, whether the action has a row, is granted.      *)
_validate_custom_action_spec(view, spec) ==
    CASE spec.is = "polymorphic" ->
            validate_polymorphic_service_spec(spec, TRUE, _mutation_extras_are_permissive(view))
      [] spec.is = "service" ->
            validate_service_spec(spec, TRUE, _mutation_extras_are_permissive(view))
      [] OTHER -> validate_selector_spec(spec, None)

_validate_action_spec(view, action, spec) ==
    CASE action \in Mutations -> _validate_mutation_action_spec(view, action, spec)
      [] action \in DOMAIN _SELECTOR_ACTION_KIND ->
            _validate_selector_action_spec(view, action, spec)
      [] OTHER -> _validate_custom_action_spec(view, spec)

validate_mutation_view_spec(view) ==
    validate_service_spec(view.spec, has_instance(view.serves), view.feeds # None)

validate_selector_view_spec(view) == _validate_selector_action_spec(view, view.serves, view.spec)

service_action(view) ==
    IF view.stamped.is = "polymorphic"
    THEN validate_polymorphic_service_spec(view.stamped, view.detail, TRUE)
    ELSE validate_service_spec(view.stamped, view.detail, TRUE)

selector_action(view) == validate_selector_spec(view.stamped, None)

Decorated(view) ==
    view.stamped # None =>
        IF view.stamped.is = "selector" THEN selector_action(view) ELSE service_action(view)

as_view(view) ==
    /\ Decorated(view)
    /\ view.base = "viewset" => \A action \in DOMAIN view.action_specs :
          _validate_action_spec(view, action, view.action_specs[action])
    /\ view.base = "standalone" /\ view.spec # None =>
          IF view.serves \in Mutations THEN validate_mutation_view_spec(view)
          ELSE validate_selector_view_spec(view)

Declared(view) ==
    {view.action_specs[action] : action \in DOMAIN view.action_specs}
        \cup ({view.spec, view.stamped} \ {None})

(* A spec is built, then its module decorates, then the URL conf wires.    *)
Mountable(view) == (\A spec \in Declared(view) : Built(spec)) /\ as_view(view)

-----------------------------------------------------------------------------
(* Who guards an action.                                                   *)

Inherit(view, classes) == IF classes = None THEN Elements(view.permission_classes)
                          ELSE Elements(classes)

_polymorphic_permissions(view, poly, chosen) ==
    IF poly.permission_strategy = "discriminate"
    THEN Inherit(view, chosen.permission_classes)
    ELSE UNION {Inherit(view, variant.permission_classes) : variant \in Elements(poly.specs)}

(* The classes DRF asks before it hands an action the request.  chosen is  *)
(* the polymorphic variant the discriminator answered.                     *)
get_permissions(view, action, chosen) ==
    LET spec == CASE view.base = "standalone" -> view.spec
                  [] view.base = "viewset" -> resolve_action_spec(view, action)
                  [] OTHER -> view.stamped
    IN
    CASE spec = None -> Elements(view.permission_classes)
      [] spec # None /\ spec.is = "polymorphic" ->
            IF view.base = "viewset" THEN _polymorphic_permissions(view, spec, chosen)
            ELSE Elements(view.permission_classes)
      [] OTHER -> Inherit(view, spec.permission_classes)

(* Whether those are only known once the discriminator is asked.           *)
Discriminates(view, action) ==
    LET spec == resolve_action_spec(view, action) IN
    /\ view.base = "viewset" /\ spec # None
    /\ spec.is = "polymorphic" /\ spec.permission_strategy = "discriminate"

(* A plain viewset asks no variant's classes, so one that declares some is *)
(* refused when called.                                                    *)
needs_action_specs_mixin(view) ==
    /\ view.base = "plain" /\ view.stamped.is = "polymorphic"
    /\ \E variant \in Elements(view.stamped.specs) : variant.permission_classes # None

-----------------------------------------------------------------------------
(* Which spec an action runs, and on what.                                 *)

(* A selector spec with no selector is left to DRF.                        *)
resolve_action_selector_spec(view, action) ==
    LET entry == Get(view.action_specs, action) IN
    IF entry # None /\ entry.selector # None THEN entry ELSE None

mutation_target_source(spec) ==
    IF OnASet(spec) THEN "bulk"
    ELSE IF spec.instance_selector_spec # None /\ spec.instance_selector_spec.selector # None
    THEN "instance_selector" ELSE "get_object"

(* The view's own lookup: a retrieve selector, else the rows of a list     *)
(* selector or of the view's queryset, by DRF's get_object().              *)
RowSource(view) ==
    LET reads(action) ==
            view.base = "viewset" /\ resolve_action_selector_spec(view, action) # None
    IN IF reads("retrieve") THEN "retrieve" ELSE IF reads("list") THEN "list"
       ELSE IF view.queryset THEN "queryset" ELSE "none"

-----------------------------------------------------------------------------
(* What OPTIONS describes.  It answers under the action "metadata", with   *)
(* the method it describes swapped in; action is what that routes to.      *)

polymorphic_inputs_disagree(poly) ==
    Cardinality({variant.input_serializer : variant \in Elements(poly.specs)}) > 1

dispatches_action_specs == {"create", "update"}

(* A mistake: a method no spec serves is described. *)
OnlyTheAmbiguous(view, action) ==
    LET spec == resolve_action_spec(view, action) IN
    /\ spec # None /\ spec.is = "polymorphic" /\ polymorphic_inputs_disagree(spec)
    /\ ~view.serializer_class /\ ~view.resolves_serializers

check_permissions_leaves_out(view, action) ==
    LET spec == resolve_action_spec(view, action) IN
    \/ spec = None /\ action \in dispatches_action_specs
    \/ /\ spec # None /\ spec.is = "polymorphic" /\ polymorphic_inputs_disagree(spec)
       /\ ~view.serializer_class /\ ~view.resolves_serializers

(* A mistake: every described PUT is probed. *)
AlwaysProbed(view, action) == FALSE

_metadata_probe_has_no_row(view, action) ==
    LET spec == resolve_action_spec(view, action) IN
    /\ ~view.lookup
    /\ \/ action = "custom" /\ ~view.detail
       \/ spec # None /\ spec.is = "service" /\ mutation_target_source(spec) = "bulk"

(* get_queryset() with nothing to read rows from.                          *)
get_queryset_without_one(view, action) ==
    LET spec == resolve_action_spec(view, action) IN
    IF spec # None /\ spec.is = "service" /\ mutation_target_source(spec) # "get_object"
    THEN {"left out"} ELSE {"crash"}

(* What get_object() may make of the probe of a PUT.  Without the capture  *)
(* it reads, DRF's lookup asserts and a selector's may raise anything.     *)
ProbeAnswers(view, action) ==
    IF _metadata_probe_has_no_row(view, action) THEN {"described"}
    ELSE IF RowSource(view) = "none" THEN get_queryset_without_one(view, action)
    ELSE IF view.lookup THEN {"described", "left out"}
    ELSE IF RowSource(view) = "retrieve" THEN {"left out", "crash"} ELSE {"crash"}

(* Whether get_serializer() has a class to describe the body with: the     *)
(* view's own, or the spec's _body_serializer.                             *)
_body_serializer(view, action) ==
    LET spec == resolve_action_spec(view, action) IN
    spec # None /\ (spec.is = "polymorphic" => ~polymorphic_inputs_disagree(spec))

Describable(view, action) ==
    view.serializer_class \/ view.resolves_serializers \/ _body_serializer(view, action)

determine_actions(view, method, action) ==
    IF check_permissions_leaves_out(view, action) THEN {"left out"}
    ELSE {IF answer = "described" /\ ~Describable(view, action) THEN "crash" ELSE answer :
             answer \in IF method = "PUT" THEN ProbeAnswers(view, action) ELSE {"described"}}
=============================================================================
