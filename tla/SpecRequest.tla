---------------------------- MODULE SpecRequest ----------------------------
(***************************************************************************)
(* One call of a declared spec, from its declaration to its answer: over   *)
(* HTTP through a view drfs mounts ("http"), off HTTP through a transport  *)
(* that guards it with enforce_permissions and dispatches it on the edge   *)
(* ("edge"), and through the kernel's own dispatch of the compiled spec    *)
(* ("kernel").  What dispatch hands a callable is its pool of names; what  *)
(* the values under those names are is InputRouting's.                     *)
(***************************************************************************)
EXTENDS Integers, SpecMount, SpecCompile

INSTANCE Refusals

CONSTANT Families  \* sets of calls to make, each call with the declaration it is made of

(* A call is routed to what serves it.  A standalone view carries a spec   *)
(* of its own kind; a method decorated on a viewset is not keyed in its    *)
(* action_specs too, where the entry would guard what the decorator's spec *)
(* runs; OPTIONS describes what POST and PUT route to.  Off HTTP a         *)
(* transport dispatches a spec, never a polymorphic wrapper.               *)
WellRouted(made) ==
    LET view == made.view IN
    /\ made.action \in Actions /\ made.surface \in {"http", "edge", "kernel"}
    /\ made.surface # "http" => view.spec # None /\ view.spec.is \in {"service", "selector"}
    /\ made.describes # None => made.action \in {"create", "update", "custom"}
    /\ CASE view.base = "standalone" ->
              made.surface = "http" =>
                  /\ made.action = view.serves
                  /\ view.spec # None =>
                        view.spec.is = IF view.serves \in Mutations THEN "service" ELSE "selector"
         [] view.base = "viewset" -> "custom" \notin DOMAIN view.action_specs
         [] OTHER -> view.base = "plain" /\ made.action = "custom"

(* A view's own classes are DRF's, as are those of a spec dispatched off   *)
(* HTTP, where only a mount's validation would read them.                  *)
WellClassed(made) ==
    /\ Elements(made.view.permission_classes) \subseteq Classes
    /\ made.surface # "http" => _validate_permission_classes(made.view.spec)

(* A callable requires what a stage or an author's kwargs may give; a      *)
(* lookup besides the reads no callable of its call hides.                 *)
Given(fns) == \A fn \in fns : fn.requires \subseteq Parameters
Reads(fn, hiding) ==
    fn.requires \subseteq Parameters \cup (Fields \ _owned_keys(hiding \cup {fn}))

SignedService(declared) ==
    LET output == declared.output_selector_spec IN
    /\ IsSet(declared.success_status) => declared.success_status.code \in 200..599
    /\ Given(Receivers(declared))
    /\ output # None => Given({output.selector} \ {None})
    /\ Target(declared) # None => Reads(Target(declared).selector, Receivers(declared))

SignedRead(declared) ==
    /\ Given(Preconditions(declared))
    /\ declared.selector # None => Reads(declared.selector, Preconditions(declared))

Signed(declared) ==
    CASE declared.is = "service" -> SignedService(declared)
      [] declared.is = "selector" -> SignedRead(declared)
      [] OTHER -> \A variant \in Elements(declared.specs) :
                     variant.is = "service" => SignedService(variant)

(* A refusal as it is raised, and as it may leave; a failure and an answer.*)
Misuse == {"TypeError", "ImproperlyConfigured", "AssertionError", "NotImplementedError"}
RefusalClasses ==
    Kernel \cup DOMAIN DRF \cup DOMAIN Twins \cup ServiceErrors \cup Misuse \cup {"crash"}
Original == [class : RefusalClasses, status : 400..599, from : {None}]
Refusal == [class : RefusalClasses, status : 400..599, from : {None} \cup Original]
Places ==
    {"options", "discriminator", "permission", "handler", "get_object", "compile", "lookup",
     "input", "affordance", "precondition", "service", "output", "status", "render", "finalizer"}
Failure == [at : Places, raised : Original, as : Refusal]
Bodies ==
    {"value", "answers", "none", "null", "not_found", "raised", "error", "stringified", "schema"}
Response == [status : {None} \cup 200..599, body : Bodies]

(* No author raises what the code's own misuse does: "crash" stands for    *)
(* whatever else one may.  What translate_drf_refusals makes is its own, a *)
(* service's validation error with no status but DRF's.                    *)
RaisedByAuthors(made) ==
    \A refusal \in made.raises :
        /\ refusal \in Original /\ refusal.class \notin Misuse
        /\ refusal.class = "DRFServiceValidationError" =>
              refusal.status = Raised("DRFServiceValidationError").status

ASSUME CallsAssumption ==
    \A family \in Families : \A made \in family :
        /\ WellRouted(made) /\ WellClassed(made) /\ RaisedByAuthors(made)
        /\ \A declared \in Declared(made.view) : Signed(declared)
ASSUME NoneAssumption ==
    /\ None \notin {"described", "lookup", "output"} \cup RefusalClasses
    /\ None \notin Original /\ None \notin Failure /\ None \notin Response

VARIABLES
    call,      \* the call
    stage,     \* what it does next
    described, \* what OPTIONS, asked first, said of the action
    chosen,    \* the variant resolve_polymorphic_service_spec holds, or 0
    spec,      \* the spec dispatched
    target,    \* "none", "unset", a "row" (a Model), a "record" or a "set"
    asked,     \* the permission classes asked, at which level, with what
    ran,       \* how often the service ran
    value,     \* what there is to render
    failure,   \* what was raised, where, and as what it left
    response   \* the answer

vars == <<call, stage, described, chosen, spec, target, asked, ran, value, failure, response>>
found == <<spec, target>>
served == <<ran, value, response>>

Over(surface) == call.surface = surface
View == call.view
IsService == spec.is = "service"
Goto(next) == stage' = next /\ UNCHANGED failure

(* Whether the action's handler reads a row for the service to act on.     *)
HasRow == has_instance(call.action) \/ (call.action = "custom" /\ View.detail)
Bulk == IsService /\ OnASet(spec)

-----------------------------------------------------------------------------
(* Raising.                                                                *)

Fail(at, raised, as) ==
    /\ failure' = [at |-> at, raised |-> raised, as |-> as]
    /\ stage' = "failed"

(* What the code itself raises: the author's declaration is at fault.      *)
Crash(at, class) == Fail(at, Raised(class), Raised(class))

Named == IsService /\ spec.input_serializer # None

(* Out of dispatch: the kernel's route, the edge, and over HTTP the except *)
(* ServiceError of the mutation views.                                     *)
Leaves(refusal) ==
    LET edge == edge_errors(refusal, Named) IN
    CASE Over("kernel") -> refusal
      [] Over("http") /\ IsService -> Mapped(edge)
      [] OTHER -> edge

(* An author's callable raises in dispatch, inside the translation.        *)
Raises(at) == \E refusal \in call.raises :
                  Fail(at, refusal, Leaves(translate_drf_refusals(refusal)))

(* The kernel refuses.                                                     *)
Refuses(at, class) == Fail(at, Raised(class), Leaves(Raised(class)))

-----------------------------------------------------------------------------
(* The pools.                                                              *)

Binds(fn, pool) == fn.spreads \/ fn.requires \subseteq pool

(* An author's kwargs may give what no stage does, and here they do: the   *)
(* hooks of the view, a custom action's of its own, beneath the spec's.    *)
resolve_view_hooks == View.feeds # None \/ call.action = "custom"
resolve_extra_kwargs ==
    ~IsService \/ spec.kwargs # None \/ (Over("http") /\ resolve_view_hooks)
Feedable == Parameters \ FrameworkKeys
Ambient == {"request", "user", "view"}
RowKey == IF target \in {"row", "record"} THEN {"instance"} ELSE {}
SetKey == IF target = "set" THEN {"collection"} ELSE {}

LookupPool ==
    Feedable \cup (IF IsService THEN Taken(spec) ELSE SelectorReads(spec))
CallPool ==
    Ambient \cup RowKey \cup SetKey
        \cup (IF IsService THEN Body(spec) \cup Taken(spec) ELSE SelectorReads(spec))
        \cup (IF resolve_extra_kwargs THEN Feedable ELSE {})
OutputPool == CallPool \cup {"result"}
StatusPool == {"request", "view", "result"} \cup (IF Bulk THEN {} ELSE RowKey)
FinalizerPool ==
    StatusPool \cup {"response"}
        \cup (IF Bulk \/ spec.input_serializer = None THEN {} ELSE {"data"})

-----------------------------------------------------------------------------
(* Before the call.                                                        *)

Init ==
    /\ \E family \in Families : call \in family
    /\ stage = "declared" /\ described = None /\ chosen = 0
    /\ spec = None /\ target = "none" /\ asked = {}
    /\ ran = 0 /\ value = None /\ failure = None /\ response = None

(* The kernel's registry compiles a spec, and refuses one that declares no *)
(* permissions; on the edge nothing checks a spec but its building.        *)
Registered(declared) ==
    Built(declared) /\ (Over("kernel") => as_kernel_spec(declared) /\ _permissions(declared) # None)

Mount ==
    /\ stage = "declared"
    /\ IF Over("http")
       THEN Goto(IF ~Mountable(View) THEN "refused"
                 ELSE IF call.describes = None THEN "mounted" ELSE "options")
            /\ UNCHANGED spec
       ELSE Goto(IF Registered(View.spec) THEN "mounted" ELSE "refused") /\ spec' = View.spec
    /\ UNCHANGED <<call, described, chosen, target, asked, served>>

(* A view's OPTIONS, before the request it describes.  The caller is one  *)
(* the view's own classes admit.                                           *)
Options ==
    /\ stage = "options"
    /\ \E answer \in determine_actions(View, call.describes, call.action) :
          \/ answer = "crash" /\ Crash("options", "crash") /\ UNCHANGED described
          \/ answer # "crash" /\ described' = answer /\ Goto("mounted")
    /\ UNCHANGED <<call, chosen, found, asked, served>>

-----------------------------------------------------------------------------
(* Who may call.                                                           *)

Polymorphic == CASE View.base = "viewset" -> resolve_action_spec(View, call.action)
                 [] View.base = "plain" -> View.stamped
                 [] OTHER -> View.spec

(* Asked once a request; ServiceError is mapped, a DRF refusal left.       *)
resolve_polymorphic_service_spec ==
    \/ \E i \in DOMAIN Polymorphic.specs : chosen' = i /\ UNCHANGED <<stage, failure>>
    \/ /\ \/ \E refusal \in call.raises : Fail("discriminator", refusal, Mapped(refusal))
          \/ Crash("discriminator", "ImproperlyConfigured")
       /\ UNCHANGED chosen

(* The view's memo: the handler runs the variant the permissions asked for.*)
Cached == chosen

Discriminate ==
    /\ stage = "mounted" /\ Over("http") /\ Discriminates(View, call.action) /\ chosen = 0
    /\ resolve_polymorphic_service_spec
    /\ UNCHANGED <<call, described, found, asked, served>>

Variant == IF chosen = 0 THEN None ELSE Polymorphic.specs[chosen]
ViewClasses == get_permissions(View, call.action, Variant)

(* The request carried, where DRF has not wrapped it, is copied: the call  *)
(* never writes to its caller's.                                           *)
_copy_request == "copied"
_synthesize_request == "synthesized"

(* A request, a view, and the names filled on the view's kwargs and in the *)
(* request's query string.                                                 *)
build_offline_context(plain, kwargs, query_params) ==
    [request |-> IF plain THEN _copy_request ELSE _synthesize_request,
     view |-> "offline", kwargs |-> kwargs, query |-> query_params]

(* The call sends every argument its spec declares.                        *)
_context ==
    LET check == _permissions(spec) IN
    build_offline_context(call.given.request = "plain",
                          check.route_reads \cup check.url_kwargs, check.query_params)

(* A mistake: any request carried is handed on as it is. *)
AsCarried ==
    LET given == call.given IN
    [_context EXCEPT !.request = IF given.request = "none" THEN @ ELSE given.request,
                     !.view = IF given.view THEN "given" ELSE @]

(* The kernel's DRFPermissionCheck completes what the call carries.        *)
_pair ==
    LET given == call.given IN
    [_context EXCEPT !.request = IF given.request = "drf" THEN "drf" ELSE @,
                     !.view = IF given.view THEN "given" ELSE @]

(* What a class is handed.  On the edge a transport hands the offline pair *)
(* to enforce_permissions, its routes its own.                             *)
Pair == CASE Over("http") -> [request |-> "drf", view |-> "given", kwargs |-> {}, query |-> {}]
          [] Over("edge") -> build_offline_context(call.given.request = "plain", {}, {})
          [] OTHER -> _pair

OwnClasses == CASE Over("http") -> ViewClasses
                [] Over("edge") -> Each(spec.permission_classes)
                [] OTHER -> _permissions(spec).classes

(* Each class admits, or one denies or raises.                             *)
Ask(level, next) ==
    /\ asked' = asked \cup {[class |-> class, level |-> level, pair |-> Pair] :
                               class \in OwnClasses}
    /\ \/ Goto(next)
       \/ OwnClasses # {} /\ \E refusal \in {Raised("NotAuthenticated"), Raised("PermissionDenied")}
                                  \cup {r \in call.raises : APIException(r)} :
             Fail("permission", refusal,
                  IF Over("kernel") THEN translate_drf_refusals(refusal) ELSE refusal)

CheckPermissions ==
    /\ stage = "mounted"
    /\ Over("http") /\ Discriminates(View, call.action) => chosen # 0
    /\ Ask("view", IF Over("http") THEN "handler" ELSE "compile")
    /\ target' = IF Over("http") THEN target ELSE "unset"
    /\ UNCHANGED <<call, described, chosen, spec, served>>

-----------------------------------------------------------------------------
(* Which spec runs.                                                        *)

Entry == CASE View.base = "standalone" -> View.spec
           [] View.base = "viewset" /\ call.action # "custom" ->
                 resolve_action_spec_entry(View, call.action)
           [] OTHER -> View.stamped

(* A mutation no entry serves, one a plain viewset cannot guard, and a     *)
(* decorated read that selects nothing.                                    *)
Unserved ==
    /\ stage = "handler"
    /\ \/ /\ call.action \in Mutations /\ Entry = None
          /\ IF View.base = "viewset"
             THEN LET r == Raised("MethodNotAllowed") IN Fail("handler", r, r)
             ELSE Crash("handler", "NotImplementedError")
       \/ /\ call.action = "custom" /\ Entry.is = "polymorphic" /\ needs_action_specs_mixin(View)
          /\ Crash("handler", "ImproperlyConfigured")
       \/ /\ call.action = "custom" /\ Entry.is = "selector" /\ Entry.selector = None
          /\ Crash("handler", "AssertionError")
    /\ UNCHANGED <<call, described, chosen, found, asked, served>>

ResolveVariant ==
    /\ stage = "handler" /\ Entry # None /\ Entry.is = "polymorphic" /\ spec = None
    /\ ~needs_action_specs_mixin(View)
    /\ IF Cached = 0 THEN resolve_polymorphic_service_spec ELSE UNCHANGED <<stage, chosen, failure>>
    /\ spec' = IF chosen' = 0 THEN None ELSE Polymorphic.specs[chosen']
    /\ UNCHANGED <<call, described, target, asked, served>>

(* A read whose spec selects nothing is DRF's own.                         *)
Selects(entry) == entry # None /\ entry.is = "selector" /\ entry.selector # None

ServeSpec ==
    /\ stage = "handler"
    /\ \/ spec # None /\ UNCHANGED spec
       \/ Entry # None /\ Entry.is = "service" /\ spec' = Entry
       \/ Selects(Entry) /\ spec' = Entry
    /\ LET asService == spec'.is = "service"
           readsRow == asService /\ HasRow /\ mutation_target_source(spec') = "get_object"
       IN /\ target' = IF ~asService \/ (HasRow /\ ~OnASet(spec')) THEN "unset" ELSE "none"
          /\ Goto(IF readsRow THEN "get_object" ELSE "compile")
    /\ UNCHANGED <<call, described, chosen, asked, served>>

-----------------------------------------------------------------------------
(* The row, where the view's own lookup reads it.                          *)

RowSpec == CASE RowSource(View) = "retrieve" -> View.action_specs["retrieve"]
             [] RowSource(View) = "list" -> View.action_specs["list"]
             [] OTHER -> None

(* What a view's selector and its preconditions raise is no part of the    *)
(* mutation's dispatch: nothing maps it.                                   *)
RowRaises == \E refusal \in call.raises :
                 Fail("get_object", refusal, edge_errors(translate_drf_refusals(refusal), FALSE))

RowBinds ==
    /\ Binds(RowSpec.selector, Feedable \cup SelectorReads(RowSpec))
    /\ \A fn \in Preconditions(RowSpec) :
          Binds(fn, Feedable \cup (IF RowSpec.kind = "list" THEN {"collection"} ELSE {"instance"}))

(* A row a retrieve selector may lack is no row, and no refusal.           *)
MissingRow ==
    /\ target' = "none"
    /\ IF RowSource(View) = "retrieve" /\ RowSpec.allow_none THEN Goto("compile")
       ELSE Fail("get_object", Raised("NotFound"), Raised("NotFound"))

get_object ==
    /\ stage = "get_object"
    /\ \/ /\ UNCHANGED target
          /\ \/ RowSource(View) = "none" /\ Crash("get_object", "AssertionError")
             \/ RowSpec # None /\ ~as_kernel_spec(RowSpec) /\ Crash("compile", "ImproperlyConfigured")
             \/ /\ RowSpec # None /\ as_kernel_spec(RowSpec)
                /\ IF RowBinds THEN RowRaises ELSE Crash("get_object", "TypeError")
       \/ /\ RowSource(View) # "none" /\ (RowSpec # None => as_kernel_spec(RowSpec) /\ RowBinds)
          /\ \/ MissingRow
             \/ /\ target' \in {"row"} \cup (IF RowSource(View) = "retrieve" THEN {"record"} ELSE {})
                /\ Goto("object")
    /\ UNCHANGED <<call, described, chosen, spec, asked, served>>

(* DRF's lookup, and the edge guard of a retrieve selector, ask of the row.*)
CheckRow ==
    LET next == IF spec = None THEN "render" ELSE "compile" IN
    /\ stage = "object"
    /\ IF target = "row" THEN Ask("object", next) ELSE Goto(next) /\ UNCHANGED asked
    /\ UNCHANGED <<call, described, chosen, found, served>>

-----------------------------------------------------------------------------
(* dispatch_spec: target, guard, input, affordances, preconditions.        *)

(* Off HTTP the transport hands a service no row of its own.               *)
Compile ==
    /\ stage = "compile"
    /\ IF ~as_kernel_spec(spec) \/ (IsService /\ ~parameters(spec))
       THEN Crash("compile", "ImproperlyConfigured")
       ELSE Goto(IF ~IsService \/ (target = "unset" /\ Target(spec) # None)
                     \/ spec.collection_selector_spec # None
                 THEN "lookup" ELSE "guard")
    /\ target' = IF IsService /\ target = "unset" /\ Target(spec) = None THEN "none" ELSE target
    /\ UNCHANGED <<call, described, chosen, spec, asked, served>>

Lookup == IF IsService THEN Target(spec) ELSE spec
Sets == Lookup.kind = "list"
LookupBinds == Binds(Lookup.selector, LookupPool)

(* A mistake: a lookup that finds nothing leaves the call without a row. *)
MissIsNoRow ==
    /\ stage = "lookup" /\ LookupBinds /\ ~Sets
    /\ target' = "none" /\ Goto("guard")
    /\ UNCHANGED <<call, described, chosen, spec, asked, served>>

(* A missing row is the answer, which a transport gives; a read may answer *)
(* with none.                                                              *)
Miss ==
    /\ stage = "lookup" /\ LookupBinds /\ ~Sets
    /\ target' = "none"
    /\ CASE ~IsService /\ spec.allow_none -> Goto("render") /\ UNCHANGED response
         [] Over("http") /\ (IsService \/ ~spec.allow_none) ->
               Fail("lookup", Raised("NotFound"), Raised("NotFound")) /\ UNCHANGED response
         [] OTHER -> Goto("answered") /\ response' = [status |-> None, body |-> "not_found"]
    /\ UNCHANGED <<call, described, chosen, spec, asked, ran, value>>

resolve_target ==
    /\ stage = "lookup"
    /\ IF ~LookupBinds THEN Crash("lookup", "TypeError") /\ UNCHANGED target
       ELSE \/ Raises("lookup") /\ UNCHANGED target
            \/ target' \in (IF Sets THEN {"set"} ELSE {"row", "record"}) /\ Goto("guard")
    /\ UNCHANGED <<call, described, chosen, spec, asked, served>>

(* check_view_object_permissions, enforce_permissions, or the kernel's     *)
(* has_object_permission: of a Model alone.                                *)
Guard ==
    LET next == IF IsService THEN "input" ELSE "preconditions" IN
    /\ stage = "guard"
    /\ IF target = "row" THEN Ask("object", next) ELSE Goto(next) /\ UNCHANGED asked
    /\ UNCHANGED <<call, described, chosen, found, served>>

(* Validation, then the affordances: a body refused, a condition unmet.    *)
Admit ==
    /\ stage = "input"
    /\ \/ Goto("preconditions")
       \/ spec.input_serializer # None /\ Refuses("input", "KernelInvalidArguments")
       \/ Each(spec.affordances) # {} /\ Refuses("affordance", "ActionUnavailable")
    /\ UNCHANGED <<call, described, chosen, found, asked, served>>

RunPreconditions ==
    /\ stage = "preconditions"
    /\ IF \E fn \in Preconditions(spec) : ~Binds(fn, CallPool)
       THEN Crash("precondition", "TypeError")
       ELSE \/ Goto(IF IsService THEN "service" ELSE "render")
            \/ Preconditions(spec) # {} /\ Raises("precondition")
    /\ UNCHANGED <<call, described, chosen, found, asked, served>>

-----------------------------------------------------------------------------
(* The service and its output.                                             *)

Run ==
    /\ stage = "service"
    /\ IF ~Binds(spec.service, CallPool)
       THEN Crash("service", "TypeError") /\ UNCHANGED <<ran, value>>
       ELSE \/ Raises("service") /\ UNCHANGED <<ran, value>>
            \/ ran' = ran + 1 /\ value' \in {None, "returned"} /\ Goto("output")
    /\ UNCHANGED <<call, described, chosen, found, asked, response>>

(* The output is read again, or the service's own return is presented.     *)
Output ==
    /\ stage = "output"
    /\ IF ~Rereads(spec)
       THEN /\ UNCHANGED value
            /\ IF _returns_many(spec) /\ value = None
               THEN Crash("output", "ImproperlyConfigured") ELSE Goto("status")
       ELSE IF ~Binds(spec.output_selector_spec.selector, OutputPool)
       THEN Crash("output", "TypeError") /\ UNCHANGED value
       ELSE \/ Raises("output") /\ UNCHANGED value
            \/ value' \in {None, "selected"} /\ Goto("status")
    /\ UNCHANGED <<call, described, chosen, found, asked, ran, response>>

ResolveStatus ==
    /\ stage = "status"
    /\ IF Over("http") /\ spec.success_status # None /\ ~Binds(spec.success_status, StatusPool)
       THEN Crash("status", "TypeError") ELSE Goto("render")
    /\ UNCHANGED <<call, described, chosen, found, asked, served>>

-----------------------------------------------------------------------------
(* The answer.                                                             *)

DefaultStatus == CASE call.action = "create" -> 201
                   [] call.action = "destroy" -> 204
                   [] OTHER -> 200

(* A mistake: the mount's own status is forgotten. *)
NoDefault == IF spec.success_status = None THEN None ELSE spec.success_status.code

resolve_success_status == IF spec.success_status = None THEN DefaultStatus
                          ELSE spec.success_status.code

(* A mistake: a body is answered with the status resolved. *)
StatusAsResolved(status) == status

status_for_a_body(status) == IF status = 204 THEN 200 ELSE status

Presented == IF IsService THEN spec.output_selector_spec ELSE spec
Serializer == Presented # None /\ Presented.output_serializer # None
rendered_affordances == IF Presented = None THEN None ELSE Presented.affordances

(* A row carries the answers of the selector that declares them alone.     *)
_flag == ~IsService \/ value = "selected"

(* Answers are put in an object, which only a serializer renders.          *)
_with_answers(serialized) == serialized /\ _flag

Answered(status, body) ==
    response' = [status |-> status, body |-> body] /\ Goto("finalize")

add_affordances(status, serialized) ==
    CASE rendered_affordances = None -> Answered(status, "value")
      [] rendered_affordances # None /\ _with_answers(serialized) -> Answered(status, "answers")
      [] OTHER -> Crash("render", "ImproperlyConfigured") /\ UNCHANGED response

(* The body of a value.                                                    *)
render_spec_output(status) == add_affordances(status, Serializer)

_dispatch_bulk_via_spec ==
    IF value = None THEN Answered(resolve_success_status, "none")
    ELSE render_spec_output(status_for_a_body(resolve_success_status))

(* The row stands in for a service that returned nothing, where the action *)
(* renders rows and nothing was read again.                                *)
RendersRow ==
    /\ value = None /\ target \in {"row", "record"} /\ ~Rereads(spec) /\ Serializer
    /\ call.action \in {"update", "partial_update", "custom"}

render_mutation_response ==
    LET status == status_for_a_body(resolve_success_status) IN
    CASE value = None /\ ~RendersRow ->
            Answered(IF Rereads(spec) \/ spec.success_status = None THEN 204
                     ELSE resolve_success_status, "none")
      [] value # None /\ ~Serializer -> Answered(status, "value")
      [] OTHER -> render_spec_output(status)

RenderMutation ==
    /\ stage = "render" /\ spec # None /\ IsService
    /\ CASE Over("http") /\ Bulk -> _dispatch_bulk_via_spec
         [] Over("http") /\ ~Bulk -> render_mutation_response
         [] ~Over("http") /\ value = None
               /\ (rendered_affordances = None \/ (Serializer /\ ~spec.many)) ->
               Answered(None, "none")
         [] OTHER -> render_spec_output(None)
    /\ UNCHANGED <<call, described, chosen, found, asked, ran, value>>

(* A row a read lacks is the JSON null, for a DRF renderer writes nothing  *)
(* of None.                                                                *)
_JsonNullResponse == Answered(200, "null")

(* Over HTTP a read is rendered by get_serializer(), off it by the spec.   *)
list_with_affordances ==
    IF Serializer \/ View.serializer_class THEN add_affordances(200, TRUE)
    ELSE Crash("render", "AssertionError") /\ UNCHANGED response

RenderRead ==
    /\ stage = "render" /\ spec # None /\ ~IsService
    /\ CASE target = "none" /\ Over("http") -> _JsonNullResponse
         [] target # "none" /\ Over("http") -> list_with_affordances
         [] target = "none" /\ ~Over("http") -> Answered(None, "null")
         [] OTHER -> render_spec_output(None)
    /\ UNCHANGED <<call, described, chosen, found, asked, ran, value>>

Finalize ==
    /\ stage = "finalize"
    /\ IF Over("http") /\ spec # None /\ IsService /\ spec.response_finalizer # None
             /\ ~Binds(spec.response_finalizer, FinalizerPool)
       THEN Crash("finalizer", "TypeError") ELSE Goto("answered")
    /\ UNCHANGED <<call, described, chosen, found, asked, served>>

(* DRF's own read, of the rows the view names.                             *)
DRFRead ==
    /\ stage = "handler" /\ call.action \in {"list", "retrieve"} /\ ~Selects(Entry)
    /\ CASE call.action = "retrieve" -> Goto("get_object")
         [] call.action = "list" /\ View.queryset -> Goto("render")
         [] OTHER -> Crash("get_object", "AssertionError")
    /\ UNCHANGED <<call, described, chosen, found, asked, served>>

DRFRender ==
    /\ stage = "render" /\ spec = None
    /\ IF View.serializer_class \/ (Entry # None /\ Entry.output_serializer # None)
       THEN Answered(200, "value")
       ELSE Crash("render", "AssertionError") /\ UNCHANGED response
    /\ UNCHANGED <<call, described, chosen, found, asked, ran, value>>

(* handle_exception puts the schema back where drfs' own is in the bases.  *)
_ServesRaisedSchema == View.base # "plain"

(* A mistake: the decorator leaves the handler as it is. *)
OnlyOnItsBases == FALSE

(* Elsewhere the decorated method wraps the exception handler.             *)
_restore_schema_when_handled == call.action = "custom"

AnswerFailure ==
    LET body == exception_handler(failure.as) IN
    /\ stage = "failed"
    /\ response' = IF ~Over("http") THEN [status |-> None, body |-> "raised"]
                   ELSE [status |-> failure.as.status,
                         body |-> IF _ServesRaisedSchema \/ _restore_schema_when_handled
                                  THEN restore_raised_schema(failure.as, body) ELSE body]
    /\ stage' = "answered"
    /\ UNCHANGED <<call, described, chosen, found, asked, ran, value, failure>>

Done == stage \in {"refused", "answered"} /\ UNCHANGED vars

Next ==
    \/ Mount \/ Options \/ Discriminate \/ CheckPermissions
    \/ Unserved \/ ResolveVariant \/ ServeSpec \/ DRFRead
    \/ get_object \/ CheckRow \/ Compile \/ resolve_target \/ Miss \/ Guard \/ Admit
    \/ RunPreconditions \/ Run \/ Output \/ ResolveStatus
    \/ RenderMutation \/ RenderRead \/ DRFRender \/ Finalize \/ AnswerFailure \/ Done

Spec == Init /\ [][Next]_vars

-----------------------------------------------------------------------------
(* What holds of every call.                                               *)

Stages ==
    {"declared", "options", "mounted", "handler", "get_object", "object", "compile", "lookup",
     "guard", "input", "preconditions", "service", "output", "status", "render", "finalize",
     "failed", "answered", "refused"}

(* The state of a call has its type: an answer exists once rendering or a  *)
(* failure made one, a failure keeps what was raised beside what it left   *)
(* as, and the service runs at most once.                                  *)
TypeOK ==
    /\ stage \in Stages /\ described \in {None, "described", "left out"}
    /\ chosen = 0 \/ chosen \in DOMAIN Polymorphic.specs
    /\ spec = None \/ spec.is \in {"service", "selector"}
    /\ target \in {"none", "unset", "row", "record", "set"}
    /\ \A ask \in asked : ask.class \in Classes /\ ask.level \in {"view", "object"}
    /\ ran \in {0, 1} /\ value \in {None, "returned", "selected"}
    /\ failure \in {None} \cup Failure /\ response \in {None} \cup Response
    /\ stage = "failed" => failure # None
    /\ stage \in {"finalize", "answered"} => response # None
    /\ response # None => response.status \in IF Over("http") THEN 200..599 ELSE {None}

Mounted == stage \notin {"declared", "refused"}

(* The classes the spec dispatched declares, or the entry left to DRF's    *)
(* own read, else, over HTTP, the view's.                                  *)
Declaring == IF spec = None /\ Over("http") THEN Entry ELSE spec
Declares ==
    IF Declaring # None /\ Declaring.permission_classes # None
    THEN Each(Declaring.permission_classes)
    ELSE IF Over("http") THEN Elements(View.permission_classes) ELSE {}

AskedAt(level) == {ask.class : ask \in {x \in asked : x.level = level}}

(* No service runs, and no read is rendered, but every permission class of *)
(* the spec that runs was asked first, and asked again of the Model it     *)
(* acts on: through PATCH's fallback to "update", a variant the            *)
(* discriminator chose, a row the view's get_object() read or one a lookup *)
(* of the spec's found, over HTTP and off it.                              *)
GuardedByItsOwn ==
    ran > 0 \/ stage \in {"render", "finalize"} =>
        /\ Declares \subseteq AskedAt("view")
        /\ target = "row" => Declares \subseteq AskedAt("object")

(* What the lookup of the spec dispatched is scoped by.                    *)
Scopes == IF IsService THEN Taken(spec)
          ELSE IF spec.kind = "retrieve" THEN SelectorReads(spec) ELSE {}

(* Every permission class is handed the call it guards: a DRF request, for *)
(* it reads request.auth and request.data, the call's own headers and      *)
(* session where it carries a request; and, where the view is the kernel   *)
(* route's own, each name the row's lookup is scoped by, as a capture or,  *)
(* declared a QueryParam, in the query string, and never as both.          *)
PermissionSeesTheCall ==
    \A pair \in {ask.pair : ask \in asked} :
        /\ pair.request \in {"drf", "copied", "synthesized"}
        /\ call.given.request = "plain" => pair.request # "synthesized"
        /\ Over("kernel") /\ pair.view = "offline" =>
              /\ Scopes \subseteq pair.kwargs \cup Routed(spec.reads, "query")
              /\ pair.request # "drf" => Scopes \subseteq pair.kwargs \cup pair.query
              /\ pair.kwargs \cap pair.query = {}

CrashedWith(classes) == failure # None /\ failure.raised.class \in classes

(* What as_view accepted, no call of it fails to bind: validate_           *)
(* callable_signature refuses a callable a stage cannot feed before the    *)
(* first request.  Three declarations it admits are the exception: a row   *)
(* that is a set, a row allow_none leaves out, and a status or a finalizer *)
(* naming the instance or the data the call has none of.                   *)
AcceptedBinds ==
    Over("http") /\ CrashedWith({"TypeError"}) =>
        CASE failure.at \in {"service", "precondition", "output"} ->
                HasRow /\ target \in {"none", "set"}
          [] failure.at = "status" -> "instance" \in spec.success_status.requires
          [] failure.at = "finalizer" ->
                spec.response_finalizer.requires \cap {"instance", "data"} # {}
          [] OTHER -> FALSE

(* What as_view accepts and no call can compile: a read that names an      *)
(* argument or a parameter its own callable hides, one of the spec's or of *)
(* its lookup's that names a field, audiences over no serializer, rows     *)
(* without one, a partial call over an input built whole, and a filter     *)
(* that names a field of a serializer only a request can describe.         *)
CompiledInVain(declared) ==
    LET output == IF declared.is = "service" THEN declared.output_selector_spec ELSE declared
        owners == IF declared.is = "service" THEN Receivers(declared)
                  ELSE {declared.selector} \cup Preconditions(declared)
        named == UNION {Names(spoken.reads) : spoken \in {declared} \cup Lookups(declared)}
        filters == UNION {lookup.filter_set : lookup \in
                             {x \in Lookups(declared) : x.filter_set # None}}
    IN
    \/ Names(declared.reads) \cap (_NOT_ARGUMENTS \cup _owned_keys(owners)) # {}
    \/ /\ output = None \/ output.output_serializer = None
       /\ declared.field_audiences \/ (output # None /\ output.field_audiences)
    \/ /\ declared.is = "service"
       /\ \/ writable_input_names(declared) \cap named # {}
          \/ declared.many /\ declared.input_serializer = None
          \/ compiled_partial(declared) /\ declared.whole
          \/ ~declared.readable /\ writable_input_names(declared) \cap filters # {}

(* What as_view accepted compiles, but for those declarations alone.       *)
AcceptedCompiles ==
    Over("http") /\ failure # None /\ failure.at = "compile" =>
        \E declared \in IF spec = None THEN {RowSpec}
                        ELSE IF target = "unset" /\ HasRow /\ IsService /\ RowSpec # None
                        THEN {spec, RowSpec} ELSE {spec} : CompiledInVain(declared)

(* What as_view accepted answers, but for what only a call can tell: a     *)
(* list output whose service returned nothing, affordances on an output    *)
(* without a serializer or on a list payload's, which nothing read again,  *)
(* a view without rows or serializer, and a variant only a ServiceViewSet  *)
(* would guard.                                                            *)
AcceptedAnswers ==
    Over("http") /\ CrashedWith({"ImproperlyConfigured", "AssertionError"}) =>
        CASE failure.at = "output" -> value = None
          [] failure.at = "render" ->
                IF spec # None /\ IsService THEN spec.many \/ ~Serializer
                ELSE ~View.serializer_class
          [] failure.at = "get_object" -> ~View.queryset
          [] failure.at = "handler" -> call.action = "custom"
          [] OTHER -> failure.at \in {"compile", "discriminator"}

(* A service whose action has a row, and whose spec acts on one, never     *)
(* runs without it: a lookup that finds nothing ends the call.  A retrieve *)
(* selector with allow_none is the exception the code makes.               *)
MissIsNeverARow ==
    Over("http") /\ ran > 0 /\ HasRow /\ ~OnASet(spec) =>
        target \in {"row", "record"} \/ (RowSource(View) = "retrieve" /\ RowSpec.allow_none)

(* A 204 carries no body, whatever status the spec declares, and an answer *)
(* without one is a 204 unless the spec declares a status or takes rows.   *)
BodyAgreesWithStatus ==
    Over("http") /\ stage \in {"finalize", "answered"} /\ failure = None =>
        /\ response.status = 204 => response.body = "none"
        /\ response.body = "none" =>
              response.status = 204 \/ Bulk \/ spec.success_status # None

(* A validation error of a spec with an input serializer, which is built   *)
(* anew under the wire's names.                                            *)
Renamed(refusal) ==
    /\ spec # None /\ Named /\ ~Over("kernel")
    /\ IsA(refusal, {"ValidationError", "ServiceValidationError"})

(* A refusal is answered with the status its author gave it.  A DRF        *)
(* exception, a project's subclass of one included, crosses the kernel as  *)
(* a twin of its status the kernel's routes read, and leaves the edge as   *)
(* itself; a ServiceError of a mutation or of a discriminator has the      *)
(* status of its class, 500 never.                                         *)
RefusalKeepsItsStatus ==
    failure # None =>
        /\ APIException(failure.raised) /\ ~Renamed(failure.raised) =>
              failure.as.status = failure.raised.status
        /\ Over("kernel") /\ IsA(failure.raised, {"ValidationError", "NotAuthenticated", "PermissionDenied"})
              => DispatchError(failure.as) \/ ServiceError(failure.as)
        /\ Over("http") /\ ServiceError(failure.raised)
              /\ (failure.at = "discriminator" \/ (spec # None /\ IsService /\ failure.at # "get_object")) =>
              failure.as.status =
                  CASE IsA(failure.raised, {"ServiceValidationError"}) -> 400
                    [] failure.raised.class = "ServiceNotFound" -> 404
                    [] failure.raised.class \in {"ServiceConflict", "ActionUnavailable"} -> 409
                    [] OTHER -> 422

(* The schema an author raises for a further answer reaches the client as  *)
(* it was raised, on every view, whatever builds the answer: DRF's handler *)
(* turns its leaves into strings.                                          *)
SchemaServedAsRaised ==
    stage = "answered" /\ Over("http") /\ failure # None
        /\ failure.as.class = "_AdditionalInputAPIException" => response.body = "schema"

(* What OPTIONS describes is served: no method it lists a body for answers *)
(* that it is not allowed.                                                 *)
DescribedIsServed ==
    described = "described" => ~(failure # None /\ failure.at = "handler"
                                    /\ failure.as.class = "MethodNotAllowed")

(* OPTIONS ends in an error for no PUT whose own call reads no row through *)
(* get_object(): one of a set, or, on a view that has no rows at all, one  *)
(* whose row a lookup of its spec finds.                                   *)
OptionsProbesNoStranger ==
    failure # None /\ failure.at = "options" /\ Describable(View, call.action) =>
        LET declared == resolve_action_spec(View, call.action) IN
        call.describes = "PUT" /\ (declared # None /\ declared.is = "service" =>
            CASE mutation_target_source(declared) = "bulk" -> FALSE
              [] mutation_target_source(declared) = "instance_selector" -> RowSource(View) # "none"
              [] OTHER -> TRUE)
=============================================================================
