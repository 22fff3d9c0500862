# A verification of djangorestframework-services

TLA+ models of the service and selector layer in
`src/rest_framework_services`, model-checked with TLC and proved about with
TLAPS. Paths below are relative to `src/rest_framework_services` unless they
begin with `src/`.

## 1. The system

A `ServiceSpec` or `SelectorSpec` declares an operation: its callable, input
serializer, target lookup, permissions, kwargs provider, output. The package
compiles each declaration into the declaration of another package,
django-service-specs (*the kernel*), whose `dispatch` runs it, and wraps that
`dispatch` in an *edge* that behaves as Django REST Framework does. Over HTTP,
views and viewsets call the edge; off HTTP, tasks, agents and other programs call
the edge (`dispatch_spec`, `adispatch_spec`) or the kernel directly. A service may
itself call either.

### Components

| Component (files) | State it keeps | Operations | Correct when |
|---|---|---|---|
| **Edge call** (`dispatch/dispatch_spec.py`, `adispatch_spec.py`, `dispatch/utils.py`) | the context variable `EDGE_CALL`; one `EdgeCallState` a call (guard, filter data, author values, server values, the Validator's identity) | set up, route author values, look the target up, guard, read input, hand to the kernel, answer, put `EDGE_CALL` back | each call's compiled pieces find that call's own state; the guard is asked once, on the row acted on, before anything runs; a missing row runs nothing |
| **Input routing** (`dispatch/utils.py`, `service_specs/utils.py`) | the arguments, the overlay, the seeds, the seat, the body, `view.kwargs` | merge URL and body, split author values, seed, seat, look up, read `input_data`, validate, pool | a name the server owns is never the client's; the URL's is the URL's; an author outranks the client |
| **Compiled variants** (`service_specs/kernel_spec_variant.py`) | `_VARIANTS` by `id(source)`, `_LOCK`, weak references | look up, compile, forget | one variant per source and keyword set; none outlives its source |
| **Compile to the kernel** (`service_specs/as_kernel_spec.py`) | none | translate reads, marks, shapes, filters; refuse overlaps | what the compile accepts, the dispatch serves |
| **Serializer validator** (`service_specs/serializer_validator.py`) | a compiled field map | bind, validate, lay server values back | server values survive `validate()`; an excluded key never comes back |
| **Guarded and bundled twins** (`dispatch/utils.py`) | `_GUARDED` and `_BUNDLED` by `id(variant)`, each under its lock | build a twin, ask the call's guard | one twin a spec; the guard asked is the call's |
| **Bulk rows** (`dispatch/utils.py`, `serializer_validator.py`) | row errors | validate every row, keep or refuse, name rows | every bad row is named by its place in what was sent |
| **Selector spec calls** (`dispatch/utils.py`, `service_specs/as_kernel_spec.py`) | what the call puts aside under a filter's names (`EdgeCallState.beside_filter`) | put aside, route `filter_data`, shadow, read | the filter reads the client's, a marked parameter the server's, and neither the other's |
| **HTTP mutation flow** (`views/mutation`) | the row or the set, the result, the response | find the row, dispatch, resolve the status, render, finalize, map a `ServiceError` | a service whose action has a row never runs without one; a status says what happened |
| **HTTP reads** (`views/query`) | none | list, retrieve, DRF's own where the spec selects nothing | a missing row is `null` or a 404, as declared |
| **Viewsets and actions** (`viewsets`) | the chosen polymorphic variant, kept for the request | choose a spec, choose permissions, describe (`OPTIONS`) | what runs is what was guarded; what is described is what is served |
| **Spec validation** (`views/spec_validation.py`) | none | refuse a declaration | no accepted declaration fails at call time for its shape |
| **Spec declarations** (`types`) | frozen specs | `__post_init__` refusals | - |
| **Refusals and errors** (`service_specs/translate_*.py`, `views/mutation/map_service_error.py`) | the refusal a refusal was translated from | translate DRF's errors to the kernel's and back, map a service's | a refusal is answered with the status its author gave it |
| **Permissions off HTTP** (`service_specs/drf_permission_check.py`, `dispatch/enforce_permissions.py`) | none | `DRFPermissionCheck`, `enforce_permissions` | off HTTP is no laxer; a class is handed the call it guards |
| **Affordances** (`audience`, `dispatch/enforce_affordances.py`) | none | answer per row, explain a refusal | an offered action is one the call would let by |
| **Rendering**, **offline context** | none | render a value; stand in for a request and a view | answers only on the rows that carry them; the caller's request is copied, never written to |
| **Callable invocation** | none | call | - |
| **Schemas**, **registry**, **scaffolding**, **example project** | none | documents, listings, templates | - |

`PROJECT.json` lists the source files of each.

### How they interact

```
 view / viewset action          task, agent, program
        |  prepare                      |
        v                               v
  dispatch_mutation_for_spec      dispatch_spec / adispatch_spec
        \______________  ______________/
                       \/
        edge call: EDGE_CALL.set(state) ............ context variable
          prepare_edge_call:  edge_arguments  -> author values -> seeds
                              -> target lookup -> guard -> input_data
                       |
          kernel_spec_variant(spec, ...) ........... table under _LOCK
                       |  compiled spec
                       v
        kernel.dispatch: select | validate -> preconditions -> service -> output
             |              |          |                           |
             |   SerializerValidator   guarded twin's check        filter of the
             |   reads the edge's body asks the edge's guard       output re-read
             |   through EDGE_CALL     through EDGE_CALL           through EDGE_CALL
             +--> the service may call the edge or the kernel again
```

The kernel is not in the repository. It is modelled from what `src/` hands it and
how it reads the answer, and those definitions are marked `external` in
`PROJECT.json`.

### What is hard

- **Calls inside calls.** Compiled pieces are shared by every call of a spec and
  find their call's data through `EDGE_CALL`. A service, a serializer or a guard
  may dispatch again, in its task or in one spawned with a copy of the context.
- **Many speakers for one name.** Client, route, query string, hooks, provider,
  `input_data`, seeds and the lookup may all give a value for one key, under two
  names (a field's own and its `source`), and the values pass through seven
  mappings in a fixed order.
- **Addresses as keys.** The compiled variants are kept by `id()`, forgotten by a
  weak reference's callback that runs without the lock, in whatever thread
  collects, while that thread may hold it.
- **Partial failure.** Services nest in atomic blocks; an output may be refused
  after the write.
- **Ordering of refusals.** A missing row, a denied guard and an invalid body may
  all be true of one call, and which is said first is a promise.
- **Rows judged twice.** A many call's rows are checked by the kernel and again by
  one DRF list serializer, which counts positions in the list it was handed, not in
  the one the caller sent, and holds that list to bounds meant for all of it.
- **Declared once, read at many sites.** A spec is judged where it is built, where it
  is mounted and where it is compiled, and each predicts what a later stage will
  bind, ask and render, of eight mounts and three ways in.
- **One refusal, three families of classes.** An author may raise DRF's exceptions
  or the kernel's; each crosses two boundaries that know one family each.

Nothing in the package retries, times out or persists state of its own, so there
are no hazards of those kinds.

## 2. The modules

| Module | What it is |
|---|---|
| `EdgeCall` | calls of the edge and of the kernel, nested and side by side |
| `CallPromise` | the abstract promise of a call to whoever makes it: a tree of calls, no context variable |
| `EdgeCall_proofs` | its theorems, and that it implements `CallPromise` |
| `InputRouting` | whose value fills each name of one service call |
| `InputRouting_proofs` | who scopes the lookup and whose name the pool's is |
| `InputAuthors_proofs` | whose value an author's stays |
| `SpecMemo` | the abstract promise of the variants' cache: a memo of living sources |
| `VariantCache` | the cache: table, lock, callbacks, addresses |
| `VariantCache_proofs` | its invariant, and that it implements `SpecMemo` |
| `BulkRows` | the rows of one many call, checked twice and answered once |
| `BulkRows_proofs` | its theorems |
| `SpecDeclaration` | what a declaration may say, where it is built and where it is mounted |
| `SpecMount` | what a view makes of its specs: which it accepts, runs, guards with, describes |
| `SpecCompile` | what `as_kernel_spec` makes of one: refused or not, its target, its checks |
| `Refusals` | what a refusal becomes at each boundary |
| `SpecRequest` | one call, from its declaration to its answer, over the four above |
| `SpecRequest_proofs` | its theorems |
| `SpecAccepted_proofs` | what a mount accepts binds, compiles and answers, for any declarations |
| `SelectorRouting` | whose value a filter and its callables read in one call of a read |
| `SelectorRouting_proofs` | its theorems |
| `MCEdgeCall`, `MCInputRouting`, `MCVariantCache`, `MCBulkRows`, `MCSpecRequest` | values and symmetry for TLC |

A definition whose comment begins "A mistake" is no part of a specification: it is
a way the definition after it could be wrong, which the properties are shown to
tell from the code (`mutants` in `PROJECT.json`).

### EdgeCall

State, beside the code:

| Variable | Code |
|---|---|
| `edgeCall[t]` | `EDGE_CALL` in the context of task `t` |
| `token[c]` | the token `edge_call` resets with |
| `state[c]` | the `EdgeCallState` of the call |
| `call[c]` | what the call is: edge or kernel, its spec, origin, whether it carries a guard, its caller, its task, the atomic blocks open around it |
| `target[c]`, `asked[c]` | the row acted on; when, whose and on which row the guard was asked |
| `bound[c]`, `seat[c]`, `filtered[c]` | whose body the Validator bound, whose author values the service was handed, whose data filtered the re-read |
| `served`, `pending`, `durable` | whether the service returned; writes held by an open block; writes committed |

A call *is* its data: its body, its author values and its guard are named by it, so
"a call got another's body" is `bound[c] = d`. `Begin` makes a call (from outside,
or from a callable of a running call, in the caller's task or in a further one);
`Progress(c)` is the disjunction of its stages, one action each:
`RouteAuthorValues`, `ResolveTarget`, `TargetMissing`, `AskGuard`, `ReadInput`,
`CheckArguments`, `NoTarget`, `Select`, and so on to `Leave` (the reset of
`EDGE_CALL` in a `finally`) and `Answer`; `Write` is a service writing to the store,
at any time while it runs, and need not happen. A selector that finds no row ends in
`SelectMissing`, or in `SelectNothing` where it declares `allow_none`: it is then answered
ok with `None`, and a guarded twin's guard is asked of nothing, for the kernel runs no
precondition without a row. Every stage in which the author's code
runs may raise. The caller waits while a call it made runs; other tasks go on.

`CallPromise` is what a caller relies on, with no context variable, token, task or
block. Calls are made by calls (`Make`); a call finds its row and has its guard asked
of it, once; binds, is seated and is served (`Find`, `Ask`, `Bind`, `Seat`, `Serve`)
only where the guard let it by, and is answered ok only then or where it may lack its
row and found none (`Nothing`); writes are committed (`Commit`, in `Write` or as a
service returns) once every atomic service around them returned; a call is answered
after all it made. `EdgeCall!Promise` maps `made` to the call's record without its
task and origin, `open` to the live calls, `env` to the innermost edge call a call is
part of (`Env`), `answer` to the outcome once the call is done, and the rest to the
variables of the same name. Two freedoms are the code's: a kernel call may bind the
body of the edge call it was made in where both dispatch one spec, and its re-read is
filtered by that call's data (section 5). Setting and resetting `EDGE_CALL`, stages
and raises on their way are stutters.

### InputRouting

One call of a service whose names have *roles* (field, url, query, lookup, marked,
owned, seed, ...). A mapping holds for each name only **who** gave its value. The
stages follow `prepare_edge_call` and the Validator: `edge_arguments`, the author
values (`_split_author_values`), the seeds (`edge_seeds`,
`_hidden_lookup_seeds`), the kwargs seat, the lookup, `input_data`, `validate()`,
the pool the service is called with. The kernel refuses a value seated under a name
it seeds (`RefuseSeated`) after the lookup has run. `Init` takes every declaration
that no compile refuses and every combination of speakers.

### SelectorRouting

One call of a selector spec whose filters share names with its callables. A name has
roles (filter, url, query, hides, owned) and every mapping holds for it who gave its
value; a marked name that a filter reads is two things, its argument and its server
channel.

| Variable | Code |
|---|---|
| `route`, `arguments` | `view.kwargs`; the kernel's arguments |
| `named` | what the view's hooks and the spec's provider answered, `UNSET` included |
| `beside` | the values of `EdgeCallState.beside_filter` |
| `extra` | `extra_kwargs`: a marked name's value, on its server channel where a filter reads the name |
| `seen`, `gated`, `filtered` | what the selector, the preconditions and the filter were handed |
| `inner` | a dispatch through the kernel from inside the selector, of this spec or of another, and what its callables were handed |

`EdgeArguments` is `edge_arguments` and what `BUNDLE` takes out of it, `PutBeside`
`_beside_filter`, `RouteFilterData` and `RouteAuthorValues` the functions of those
names; then the kernel: `Select`, a call inside or none, `Shape` (the filter) and
`RunPreconditions`. No stage mixes two names, so what holds of one holds of each.

### VariantCache

`kernel_spec_variant` step by step: read the table, take `_LOCK`, read again,
compile, insert, release. `Collect` and the callback's pop may happen between any
two steps of the thread that let go, also inside the lock. A dead source's address
is free for the next. `SpecMemo` says what callers rely on: a request for a
variant of a living source is answered the one object made for that variant.

### BulkRows

One call of a `many` spec. A row is the kind of row it is (right, refused by a
field, of another type, with an undeclared key, with a field named like a seed, no
object); a refusal is its reason beside the row.

| Variable | Code |
|---|---|
| `call` | the way in (`dispatch_spec` over a live view or off HTTP, or the kernel's own dispatch), `many_as_argument`, the policy on undeclared arguments, whether `input_data` speaks, the list serializer's bounds |
| `sent`, `arguments` | the rows as sent; as the kernel checks them, less the seeds' names |
| `state` | of `EdgeCallState`: `validator_input`'s body, `body_rows`, `beside_rows`, `row_errors` |
| `refused`, `passed` | the kernel's refusals; the indices `validated_many` is handed |
| `read`, `judged` | the rows the serializer read; those its own `validate()` was run over |
| `detail`, `answer` | the kernel's refusal; what `edge_errors` makes of it |

`PrepareRows` is the many branch of `prepare_edge_call`; `RefuseArguments` and
`CheckRows` are the kernel's check; `ValidateList` is
`SerializerValidator.validated_many` of a list it is given whole or has no body of
the edge's for, `ValidateLeft` its `_rows_past_a_refusal`; `Answer` is
`edge_errors`. A row has its *faults* (`Wrongs`), said of the row as it was sent and
with no reference to either check, and the properties relate the answer to them.

### SpecDeclaration, SpecMount, SpecCompile, Refusals

Pure operators, named as the functions they translate. A callable is the parameters
it requires, those it may take, those it hides and whether it takes any keyword; a
serializer is its field names; a permission class is a model value; `Wrong` stands
for any value of a type a field does not take. A view is one of the five standalone
views, a `ServiceViewSet`, or a plain DRF viewset with a decorated method.

- `Built(spec)` is `__post_init__`; `as_view(view)`, `service_action` and
  `selector_action` are the mounts' refusals, each a conjunction of the
  `_validate_*` functions.
- `get_permissions`, `resolve_action_spec`, `mutation_target_source`,
  `determine_actions` (of `OPTIONS`) are the view's own choices.
- `as_kernel_spec(spec)` is whether the compile accepts, the kernel's own refusals of
  what it is handed (`KernelServiceSpec`) included; `parameters` is what a call refuses
  as it first reads its variant's parameters, request at hand. `Target`, `Taken`,
  `_permissions` are what the compile makes.
- Of an input serializer there are its writable field names, and of the spec three
  flags: `partial`; `whole`, an input built from every field, as a dataclass is; and
  `readable`, whether its fields can be described with no request.
- A refusal is `[class, status, from]`: `translate_drf_refusals` on the way into the
  kernel, `edge_errors` out of it, `Mapped` and `exception_handler` out of the view.
  `from` is the author's own exception, put back on the edge.

### SpecRequest

| Variable | Code |
|---|---|
| `call` | the view, the surface (`http`, `edge`, `kernel`), the action, the method `OPTIONS` describes first, the request and view the call carries, what an author's callable may raise |
| `stage` | what the call does next; `refused` where the declaration was |
| `described` | what `OPTIONS` said of the action |
| `chosen` | the view's memo of the discriminator's answer |
| `spec`, `target` | the spec dispatched; the row (a model instance), record (any other), set or nothing it acts on |
| `asked` | the permission classes asked, at the view's level or of the object, and with which request and view |
| `ran`, `value` | how often the service ran; what there is to render |
| `failure` | where something was raised, what, and as what it left |
| `response` | the status and the kind of body |

The stages are those of a request: `Mount`, `Options`, `Discriminate`,
`CheckPermissions`, then the handler (`ServeSpec`, `DRFRead`, or `Unserved`), the
view's own row (`get_object`, `CheckRow`), the compile, the spec's own lookup
(`resolve_target`, `Miss`), the guard, the input (`Admit`), preconditions, service,
output, status, rendering, finalizer; or a failure and `AnswerFailure`. At each
stage a callable is bound against the *pool* of names the code hands it there
(`LookupPool`, `CallPool`, `StatusPool`, `FinalizerPool`), so a declaration the mount
misjudged ends in a `TypeError`. Whose values stand under those names is
`InputRouting`'s question; what calls made inside a callable see is `EdgeCall`'s.

## 3. What the runs check

Every run is exhaustive over its instance. "pass" runs end without error; a
"violation" run ends in the counterexample a finding describes.

| Run | Instance | Checks |
|---|---|---|
| `edge_call_pair` | 2 calls, 2 tasks, 2 rows; an update, a bulk service, a read and one with `allow_none`; HTTP and offline | `TypeOK`, `GuardedOnItsOwnTarget`, `NotFoundRanNothing`, `EdgeCallIsInnermost`, `IdleTaskIsClean`, `PromiseSpec` |
| `edge_call_nested` | 3 calls in 1 task, an atomic update over HTTP | `OwnBody`, `CommittedWhenAllReturned` |
| `edge_call_answered` | 2 calls, 2 tasks, a list output and a read, fair | `EveryCallAnswered` |
| `edge_call_same_spec` (violation) | as nested, offline | `OwnBody` |
| `edge_call_output_filter` (violation) | a filtered output | `OwnFilterData` |
| `variant_cache` | 2 threads, 2 sources, 1 address, 2 keyword sets, 4 objects, fair | `TypeOK`, `EntryOfItsSource`, `MemoSpec`, `LockIsReleased` |
| `input_routing_fields` | 2 names; field, mark, owned, seed and lookup roles; three authors; both bindings; `validate()` adding or dropping keys | `TypeOK`, `NeverTheClients`, `AuthorOutranksClient`, `OwnedIsTheProviders`, `ServerValueIsTheFields` |
| `input_routing_lookup` | 2 names; field, URL, query and lookup roles; both arrivals and bindings | `UrlIsTheUrls`, `FieldScopesNoLookup`, `HiddenLookupKeyIsTheServers`, `KernelTakesIt` |
| `input_routing_query` (violation) | a `QueryParam` the lookup reads | `RouteScopesTheLookup` |
| `input_routing_mark` (violation) | a `UrlKwarg` the lookup's spec declares and its selector marks | `HiddenLookupKeyIsTheServers` |
| `bulk_rows` | lists of 0 to 3 rows of 6 kinds, every way in, policy and beside-argument, bounds none or two | `TypeOK`, `NamesOnlyWrongRows`, `NamesEveryWrongRow`, `ServedWhereAllIsRight`, `ListJudgedAsSent`, `RefusedRowsStayUnread` |
| `spec_request` | one call of each of eight families of declarations: who guards (`Guards`), what callables require (`Binding`), outputs and statuses (`Rendering`), 21 refusals at every stage that raises (`Raising`), `OPTIONS` (`Describing`), reads and what a call carries off HTTP (`Carrying`), what an input may be and what else may name its field (`Compiling`), what a declaration may not say (`Refusing`); on every mount that takes them | `TypeOK`, `GuardedByItsOwn`, `PermissionSeesTheCall`, `AcceptedBinds`, `AcceptedCompiles`, `AcceptedAnswers`, `MissIsNeverARow`, `BodyAgreesWithStatus`, `RefusalKeepsItsStatus`, `SchemaServedAsRaised`, `DescribedIsServed`, `OptionsProbesNoStranger` |

**Why the bounds are enough.** Two calls show every relation between a call and
one other (nested, sibling, in a spawned task); three in one task show a call whose
caller is itself nested, and two siblings under one caller, which is what
restoring `EDGE_CALL` must survive. The stack, the guard, the author values, the
commit order and `PromiseSpec` are proved for any number. `OwnAuthorValues` has no run
of its own: `CallPromise` holds it in `Serve`, and it is proved. Two rows are the least for which "the
row acted on" can be wrong. In `InputRouting` a field has two names, so two names
hold a field and its source, one field's source that is another field's name, and
a name in two roles; the proofs have no bound. In `VariantCache` one address for
two sources makes the address be reused; four objects are a compile for each
source and keyword set, `Objects` being what the heap can hold. In `BulkRows` three
rows hold one kept out before, between and after two others, so a position and an
index differ; with a bound of two there is a list below it, at it and above it, and
one that falls below it only once a row is kept out. The proofs have no bound. In
`SpecRequest` a declaration is a record of a dozen fields, and no family varies them
all: each varies together the fields its stage reads (the callables' parameters
with what feeds them; the output with the status and the finalizer; the reads with
the marks, the classes and what the call carries) and every mount those can have,
and leaves the rest unset. Two permission classes tell the spec's from the view's,
two field names tell a name that meets another from one that does not.

**Bounds on the model** are only the constants: no counter is cut off.

**Symmetry** is used in the safety runs of `EdgeCall` (calls, tasks and rows have
no order; `PromiseSpec` is a property of steps) and in no run with a liveness property.

**Deadlock** is checked in the `EdgeCall` runs (all calls done is a stuttering step
of `Next`) and in `spec_request` (an answered or refused call is): a stage of a call
that no action takes further is an error there. It is off for `InputRouting`
and `BulkRows`, where a served or refused call has nothing left to do, and for
`VariantCache`, where threads may stay idle once every source is gone; there
`LockIsReleased` says that the lock is never kept.

### Fairness

`EdgeCall!FairSpec` has weak fairness of each call's `Progress`: a running call is
Python code on a thread or an event loop, which takes its next step when nothing
stands in its way; the author's code is taken to return or raise. `Begin` has no
fairness: nobody must call. `VariantCache!FairSpec` has weak fairness of each
thread's `Work` (what it does holding the lock, and the callback it is in), none of
asking, of taking the lock or of letting go of a source: no order among waiting
threads is assumed of `threading.Lock`. No strong fairness is used.

## 4. What is proved

TLAPS checks each theorem for every value of the constants under the `ASSUME`s of
the module (`CallAssumption`, `RoutingAssumption`, `CacheAssumption`, `BulkAssumption`,
`DeclarationAssumption`, that `None`, `Wrong` and the classes
differ; `CallsAssumption`, of the calls a family makes (`WellRouted`,
`WellClassed`, `Signed` and `RaisedByAuthors`, section 6); and `NoneAssumption`), which the runs evaluate.

**EdgeCall.** The strengthening is built in layers, each proved inductive over the
one before:

1. `Typed` = `TypeOK` and `Registered` (a call is what it is before it steps; its
   caller began before it) - lemma `TypedAlways`, theorem `TypeCorrect`.
2. `Stacked` - in each task the live calls form a chain with one on top, and
   `EDGE_CALL` holds the top's edge. `EdgeCallIsInnermost` alone is not inductive:
   when the top leaves, what its token restores must be the next one's state, so
   every call's token must be known, not only the top's. Theorems
   `StackDiscipline` and `IdleHolds`.
3. `Own` - per stage, what a call has been asked, seated and handed is its own -
   `GuardHolds` and `AuthorValuesHold`.
4. `Missing` - a call answered `not_found` ended before anything ran -
   `NotFoundHolds`.
5. `AllHeard` - where a call stands says what it finds in `EDGE_CALL`, whose body it
   bound and whose data filtered its re-read - for every origin. `HeardWithinHolds`:
   what a call hears is its own or that of the innermost edge call it was made in.
   `BorrowedHolds`: it binds a body not its own only as a kernel call of the very spec
   of an offline edge call whose variant leaves no seeded field out; so the flaw
   `edge_call_same_spec` shows is the only one, and over HTTP there is none
   (`OwnBodyOverHTTP`).
6. `Blocked` - a write rests in a block only if all blocks within have closed -
   `CommitHolds`.
7. `Courses` - a call binds, is seated and filters once, re-reads only what its service
   returned, and ends ok only if its guard let it by or it has no row to show - and `Writers`: a call whose write
   stands or waits in a block is a service its guard let by. `Known` is all of these.

`CallsKeepThePromise` is the refinement: under those layers `Init` is `CallPromise`'s,
and each action of `EdgeCall` is one of its actions or a stutter. `CallPromise`'s guards
are what the layers give: `Ask` and `Serve` need `Own`, `Bind` `AllHeard`, `Commit`
`Blocked` with `Writers`, and `Answer` `Stacked` (no call made is under way when its
maker ends) with `Courses`.

**InputRouting.** `IInv` is the conjunction of `TypeOK` and, one per mapping, what
may stand in it at each stage (`Located`, `Argued`, `Seeded`, `Seated`,
`HeldIsTheServers`, `Valued`, `LookedUp`, `Pooled`). The properties speak of the
lookup and of the pool, both ends of the flow, so each needs every mapping between.
Theorems `TypeCorrect`, `UrlHolds`, `FieldHolds`, and, assuming no lookup declares
a `UrlKwarg` off HTTP (`NoLookupUrlOffHttp`; the run `input_routing_mark` shows
why), `HiddenLookupKeyHolds` and `NeverTheClientsHolds`.

`Scoped`, over `IInv`, follows a name the route captured from `view.kwargs` to the
lookup: on the way no stage puts the body's value under it, and the query string's only
where `edge_arguments` merged one over HTTP. `RouteNeverTheBodysHolds` needs no
assumption; `RouteScopesOffHTTP` assumes that no call arrives over HTTP or that no
`QueryParam` is declared, and the run `input_routing_query` shows one of the two is
needed.

`InputAuthors_proofs` follows a value of an author's from where it is given to where
it is read. `Kept` says what the caller's arguments were when the authors spoke, and
`Apart` that no name stands in two of the kernel's channels (`KernelHolds`).
`Unhooked` keeps hooks off what the provider owns, in either of a field's names
(`OwnedHolds`); `ServersOwn` says the body's server values are the fields' after
`validate()` (`ServerValueHolds`). `Heeded` is that every name an author gave is
*somewhere* on its way, in the arguments, the overlay, the seeds, the seat or the
body: none of these alone is inductive, as a stage moves it from one to the next.
`AuthorHolds` follows, under `NoLookupUrlOffHttp`.

**SelectorRouting.** Every property the module states, for any names and with no
assumption. No run checks them: the module is there for its proofs, which are of
every instance. `IInv` says, of each
name, what an argument may hold at each stage (`ArgumentKept`), that what was sent to
a filter under `BUNDLE` is still there (`SentKept`), what is put aside (`BesideKept`),
and, once the authors have spoken, which of the three channels holds their value
(`AuthorsFirst`); `HandedOver` fixes what each callable was handed as a function of
those. That the values put aside never hold `filter_data`'s depends on the *stage* at
which they were taken, which the properties do not speak of.

**SpecRequest.** The properties relate an answer to a declaration judged stages
before. `IInv` says the call is one of the families', was accepted (`Accepted`), runs
a spec its view chose (`Chosen`, `Served`), at a stage its surface has (`Staged`,
`LeftToDRF`), and which classes were asked of the view and of the row by then
(`ViewAsked`, `RowAsked`): `GuardHolds`. On it rest `RowInv` (what stands for the row
between the lookup and the service: `RowHolds`), `BodyInv` (the status agrees with the
value at each stage from the service to the answer: `BodyHolds`), `SeesInv` (what a class is handed: `PairHolds`), `SaysInv` (what
`OPTIONS` says: `DescribedHolds`, `ProbeHolds`) and `HandledInv` (what the exception
handler keeps: `SchemaHolds`).

`RefusalHolds` follows a refusal from where it is raised. `RefusalKeepsItsStatus` is a
statement about a failure wherever it arose; `SoundInv` says that every failure is
`Sound` - raised at a stage there is, of a known class and an error status, and left as
what keeps it (`Kept`) - and each raising stage is shown to make one. The work is in the
lemmas about `Refusals`: `translate_drf_refusals` turns a refusal into a twin that
carries the original, `edge_errors` puts the original back, and `Mapped` gives a
`ServiceError` its class's status.

`SpecAccepted_proofs` shows that the mounts' predictions are right for *every*
declaration, of any names and callables. `ReadyInv` says which target and value a call
has by the time a callable is bound; the lemma `SiteBinds` that a callable the site
accepts binds against any pool holding the site's names; `CheckedService` and
`CheckedRead` that each mount checked each callable at its site. `Explains` is then
kept by every step: a failure with `TypeError`, `ImproperlyConfigured` or
`AssertionError` of the code's own has one of the causes the properties except.
For the compile those causes are declarations, `CompiledInVain`, and the lemmas
`ReadCompiles` and `ServiceCompiles` say that every other declaration compiles: a filter
named like a field can reach the compile only where the mount could not describe the
serializer (`FiltersAreNoFields`), and every other clash of names is one the list names.
`TypeHolds` is proved there too, for an answer's type is no local matter: its status is
the one `as_view()` checked of the declaration, the one a refusal was raised with
(`SoundInv`), or DRF's own; the classes asked are those the mount checked or the call
was given. `TypeInv` says which, stage by stage.

**VariantCache.** `CacheInvariant` (entries, threads at work and what they looked
up agree with which sources live) and `CacheIsAMemo`: each step is a step or a
stutter of `SpecMemo` under the refinement mapping in the module.

**BulkRows.** Every property of the run, for lists of any length and any bounds.
The answer's properties say nothing before there is one, so the invariant `Inv`
carries them back: `Refusing` says that what `edge_errors` *would* tell of the
present refusal (`Told`) is `Just`; `Checked` and `Prepared` say what the two checks
are given at `validate`. The arithmetic is in `OrderIsOnto` and `OrderOfAll`: the
kernel hands on the rows it passed in order, none left out, and all of them only at
their own places; from there `RowsGiven` and `RefusedByIndex` show that a refusal by
DRF's positions, read back through the indices, is each row's own.

**Only model-checked**: the two liveness properties (`EveryCallAnswered`,
`LockIsReleased`), which need fairness and `ENABLED`. Every other property of a passing
run is a theorem. `OwnFilterData`, of a run that expects a violation, is false;
`HeardWithinHolds` is what is true of it.

## 5. What was found

Each has a run and an entry under `findings`:

- Off HTTP, a kernel call of the spec being served, made inside its service, binds
  the *outer* call's body: the edge's variant shares the kernel's very Validator
  (`edge_call_same_spec`).
- A kernel call inside a service filters its re-read by the outer call's
  `filter_data` (`edge_call_output_filter`).
- A `QueryParam` on a name the lookup reads outranks the route's capture
  (`input_routing_query`).
- Off HTTP a value sent for a `UrlKwarg` the lookup's spec declares reaches a
  lookup parameter marked `NotClientInput` (`input_routing_mark`).

Seen while modelling, described here and modelled as the code is, with no run of
their own:

- A kernel call of the spec being served, made inside its selector, is handed what the
  edge call put aside: `values_beside_filter` (`service_specs/utils.py:751`) compares
  specs, not calls, where its docstring (743-745) answers `None` to a dispatch through
  the kernel's own `dispatch`. `AnotherSpecReadsItsPool` speaks of other specs.
- A key declined with `UNSET` under a filter's name reaches the selector as `UNSET`,
  over the caller's value and a hook's (`dispatch/utils.py:1327`), where the docstring
  (1250-1251) and `src/docs/recipes/extra-kwargs.md:225-227` let the caller's stand
  (`AuthorOutranksAll` says what is handed).
- With no `filter_data`, a route capture of a marked filter's name filters
  (`edge_arguments`, `dispatch/utils.py:1166`), where
  `src/docs/recipes/off-http-inputs.md:313-317` has the filter read the caller's value.
  `FilterReadsNoHook` speaks of a call with `filter_data`.
- Under a filter's name, a selector is handed the client's value for a key the typed
  provider owns and leaves out: it is put aside (`dispatch/utils.py:317`) before the
  owned keys go, against `src/CHANGELOG.md:734-735`. `OwnedIsTheProviders` speaks of
  names no filter shares, and of the filter.
- `_split_author_values` (`dispatch/utils.py:1405`): a hook naming one field by its
  own name and by its source leaves the source's value seated over the provider's,
  against the docstring at 1237. `AuthorOutranksClient` excepts it (`Outranked`).
- `_hidden_lookup_seeds` (`dispatch/utils.py:1567`): an author's value that went
  into a field whose *source* is the hidden key is not seen, against the docstring
  at 1544 and `src/docs` (off-http-inputs).
- `_lookup_keys_sent` (`dispatch/utils.py:712`): a spreading service is handed the
  body's value for a `UrlKwarg` its lookup reads over HTTP, against the docstring
  of `edge_arguments` (1128). `AuthorOutranksClient` and `NeverTheClients` speak of
  other names. `AuthorOutranksClient` also excepts a declared read named as another
  field's source.
- A value a spreading caller sends for a registered seed's name that the service and
  the lookup both read is an `ImproperlyConfigured`, which
  `src/tests/dispatch/test_a_reflected_read_meets_a_registered_seed.py:252` pins;
  `KernelTakesIt` excepts it.
- A `ServiceError` a *read's* precondition raises is answered 500 over HTTP:
  `dispatch_selector_for_spec` (`selectors/utils.py:171-224`) has no
  `except ServiceError`, against `src/docs/recipes/preconditions.md:48` and
  `src/tests/test_transport_parity.py:634`, which call it the error every transport
  maps. `RefusalKeepsItsStatus` speaks of mutations and discriminators.
- A read whose selector is unset is left to DRF, and its preconditions never run,
  against the comment in `views/spec_validation.py` that "those still run".
- A mount whose action has a row accepts a spec that acts on a set with a callable that
  requires `instance`, and a create accepts a status or finalizer that does: a
  `TypeError` when called (the exceptions of `AcceptedBinds`).
- A mutation whose row is read by a retrieve selector with `allow_none` runs its
  service without one (the exception of `MissIsNeverARow`), where the comment in
  `dispatch_mutation_for_spec` says a missing row is always a 404.
- `wire_named_error` builds a renamed refusal anew from its base class, so a project
  subclass loses its own status (`Renamed`), where its docstring says the class is
  preserved.
- A list payload (`many=True`) with an output selector and affordances is accepted, its
  selector is never read, and rendering it raises `ImproperlyConfigured`; so does a
  collection's output with affordances and no serializer (`AcceptedAnswers`).
- `as_view()` accepts declarations that every request then refuses with an
  `ImproperlyConfigured`, several of them pinned by tests, against the stated aim of
  `views/spec_validation.py` to fail where the view is wired (`CompiledInVain`, the
  exception of `AcceptedCompiles`): rows (`many=True`) with no `input_serializer`
  (`src/tests/dispatch/test_dispatch_bulk.py:101`); `partial=True` over a dataclass;
  audiences over no serializer; a read named like an argument of dispatch, a parameter
  its own callable hides, or a field of the input, unless it is the `UrlKwarg` the lookup
  reads; and a filter naming a field of a serializer that only a request can describe
  (`views/spec_validation.py:676-677`, 689-692).
- `_permissions` (`service_specs/as_kernel_spec.py:1070`) looks at the spec's own
  `reads` alone: a `QueryParam` a target *lookup* declares goes onto the offline view's
  kwargs and not onto `request.query_params`, against the docstring of
  `DRFPermissionCheck`. `PermissionSeesTheCall` asks for the name in one of the two.

## 6. Abstractions and assumptions

- Data is provenance: a value is who gave it, a body is whose it is.
- The service, and the lookup, name every parameter; what a callable does not name
  is not looked at, so this is the widest case.
- A collection is a row: whether a selector answers one row or many changes no
  stage that is modelled.
- A compile is one step under the lock. What an author's serializer does while it is
  compiled (a dispatch from its `__init__` would wait for its own thread on `_LOCK`)
  is listed as a hazard with no property.
- A kernel call in `EdgeCall` carries no guard: guarded twins are made and dispatched by
  the edge alone, so the refusal of one met outside its call
  (`dispatch/utils.py:1846-1851`) is never reached.
- In `InputRouting` a lookup declares only reads its selector takes. Any other is
  dropped by the code, and changes no other name's way.
- A callable of the author's may raise, call again or return; it never runs for
  ever.
- Dotted and flattened sources and the `VALIDATOR_BOUND` overlay of a handed target
  are not modelled.
- In `BulkRows` wording and the list or mapping DRF lays errors out in are left out;
  so are the reads declared beside the rows, the author's values of the call (they
  are those of `InputRouting`) and the kernel's own cap on a list. What the kernel
  says of the rows where it refuses the arguments beside them as well is left open:
  all of its refusals or none. A field's fault is one the serializer always finds.
- In `SpecRequest` an author's keyword arguments, where there are any, give whatever
  no stage does; a response finalizer returns the response it is given; a selector
  that shapes its query returns a queryset or rows of one; a list rendered has at
  least one row, so a missing answer always shows; whoever asks `OPTIONS` passes the
  view's own classes; off HTTP a call sends every argument its spec declares, and an
  edge transport hands the offline pair its own routes. `AdditionalInputRequired`
  carries a schema. Left out: a custom action both decorated and keyed in
  `action_specs`, a polymorphic spec on a standalone view, mixins listed after
  `GenericViewSet`, and a selector that requires the framework's `collection` or
  `response`.
- Also in `SpecRequest`: a decorated method is not keyed in `action_specs` too
  (`src/docs/recipes/permissions.md:102` says the keyed entry wins); a standalone view
  carries a spec of its kind; a plain viewset has only decorated methods; `OPTIONS`
  describes create, update or a custom action; off HTTP only service and selector
  specs are called; a callable requires only names its stage or its author gives (a
  lookup, unhidden reads besides); and no author raises a `TypeError`,
  `ImproperlyConfigured`, `AssertionError` or `NotImplementedError` of its own: `crash`
  stands for whatever else an author raises.
- In `SpecRequest` too: a permission class refuses with one of DRF's exceptions
  (a `ServiceError`, or a crash, of a class's own is left out); `partial` is the spec's own,
  and a PATCH, which the code does not hold to an input built whole, adds nothing.
- What the theorems about `SpecRequest` assume of the calls made, and the runs evaluate
  of theirs: a refusal an author raises is of a known class, with an error status and
  no `TRANSLATED_FROM` yet, and one of the class `translate_drf_refusals` itself makes
  has that class's own status; a set `success_status` is a status code; a view's own
  permission classes are DRF's, and off HTTP, where no mount checks them, so are the
  spec's (`WellClassed`); a call off HTTP names a spec; and `None` is none of the
  records and classes it stands beside.
- In `SelectorRouting` the selector and a precondition name every parameter, each with
  a default; no author declines a name its filter and a marked parameter share; seeds
  and the policy on undeclared arguments are `InputRouting`'s; a spec called inside
  declares as much as the outer one, and its provider answers the same keys. What a
  filter makes of a value is left out, and so is a target lookup's own filter
  (`_recording_beside_its_filter`).
- The threads of `sync_to_async` carry the task's context and are part of its task.

## 7. Plan

In order; names are of modules to come.

1. A target lookup's own filter in **SelectorRouting**: what its provider answers is
   recorded as it runs (`_recording_beside_its_filter`).
2. `SpecRequest` over two specs at once: an `OPTIONS` of a polymorphic action with its
   own discriminator, and the bulk call's rows (`BulkRows`) in place of `Admit`.
3. An abstract promise of `SpecRequest`, as `CallPromise` is of `EdgeCall`: a request is
   refused at its declaration, refused by a guard, or answered, with nothing run before
   the guard.
4. What an author's serializer does while a variant is compiled under `_LOCK`.

Not planned: the schemas, the registry's listings, the scaffolding command and the
example project, which are documents or I/O, and callable invocation, which is one
call of the kernel with no state of the package between two steps.
