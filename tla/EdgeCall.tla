------------------------------ MODULE EdgeCall ------------------------------
(***************************************************************************)
(* One call of the DRF edge, dispatch_spec / adispatch_spec, and the calls *)
(* made inside it.                                                         *)
(*                                                                         *)
(* An edge call sets the context variable EDGE_CALL to a fresh             *)
(* EdgeCallState, prepares itself (prepare_edge_call: author values,       *)
(* target lookup, guard, input_data), hands itself to the kernel, and      *)
(* resets EDGE_CALL on every way out.  The pieces compiled into the        *)
(* kernel's spec - the guarded selector's precondition, the kwargs seat,   *)
(* the SerializerValidator, the output re-read's filter - find the state   *)
(* of their call through EDGE_CALL, and a callable may itself make a       *)
(* further edge call or a kernel call, in its own task or in a task it     *)
(* spawns and awaits, whose context is a copy.  So what they find is the   *)
(* question.                                                               *)
(*                                                                         *)
(* A call stands for its own data: the body it was sent, the filter_data   *)
(* it was passed, the author values it routed and the guard it was given   *)
(* are all named by the call.                                              *)
(***************************************************************************)
EXTENDS Naturals

CONSTANTS
    Calls,    \* the calls that may be made
    Tasks,    \* threads or asyncio tasks: one context each
    Specs,    \* the declared specs
    Decl,     \* what each spec declares
    Rows,     \* rows a lookup may find
    Origins,  \* how an edge call may arrive: "http", "offline", "patch"
    None      \* no call, no row, no spec

(* What of a ServiceSpec / SelectorSpec decides the path of a call. *)
Declarations ==
    [kind      : {"service", "selector"},
     many      : BOOLEAN,   \* a bulk service: takes rows, and no target
     lookup    : BOOLEAN,   \* declares instance_selector_spec
     atomic    : BOOLEAN,
     validated : BOOLEAN,   \* declares input_serializer
     seeded    : BOOLEAN,   \* a field is named like a seed: excluded # {}
     filters   : BOOLEAN,   \* output_selector_spec.filter_set, from the call
     lists     : BOOLEAN,   \* output is a LIST with no selector
     nullable  : BOOLEAN]   \* a RETRIEVE selector with allow_none

ASSUME CallAssumption ==
    /\ None \notin Calls
    /\ None \notin Rows
    /\ Decl \in [Specs -> Declarations]
    /\ \A s \in Specs : Decl[s].many => Decl[s].kind = "service" /\ ~Decl[s].lookup
    /\ \A s \in Specs : Decl[s].nullable => Decl[s].kind = "selector"
    /\ Origins \subseteq {"http", "offline", "patch"}

VARIABLES
    pc,       \* where each call is
    call,     \* what each call is: [route, spec, origin, guarded, ...]
    edgeCall, \* EDGE_CALL in each task's context: the call whose state it holds
    token,    \* what EDGE_CALL held where the call began
    state,    \* the EdgeCallState of each edge call
    target,   \* the row each call acts on
    asked,    \* the guard asked in each call: how often, whose, on which row
    bound,    \* whose body the call's Validator bound
    seat,     \* whose author values the call's kwargs seat handed back
    filtered, \* whose filter_data the call's output re-read was bound to
    outcome,  \* how each call ended
    served,   \* whether the call's service ran to its end
    pending,  \* writes held by the call's open atomic block
    durable   \* writes committed

vars == <<pc, call, edgeCall, token, state, target, asked, bound, seat,
          filtered, outcome, served, pending, durable>>

heard == <<bound, seat, filtered>>
store == <<served, pending, durable>>
context == <<call, edgeCall, token>>

-----------------------------------------------------------------------------

Stages == {"unborn", "author", "lookup", "guard", "input", "kernel",
           "select", "guard_row", "validate", "preconditions", "service",
           "reread", "leave", "answer", "done"}

(* The stages at which a callable of the author's runs and may call again: *)
(* a provider, a lookup, a guard, a serializer, a precondition, a service. *)
UserCode == {"author", "lookup", "guard", "input", "select", "guard_row",
             "validate", "preconditions", "service", "reread"}

NoCall == [route |-> "none", spec |-> None, origin |-> "none",
           guarded |-> FALSE, parent |-> None, task |-> None,
           block |-> None, blocks |-> {}]

Validators ==
    [of : {"none", "kernel_spec", "variant"}, spec : Specs \cup {None},
     origin : Origins \cup {"none", "offline"}]
NoValidator == [of |-> "none", spec |-> None, origin |-> "none"]
EmptyState == [guard |-> FALSE, validator |-> NoValidator, filter |-> FALSE]
NotAsked == [times |-> 0, by |-> None, on |-> None]

Spec_(c) == Decl[call[c].spec]
Task(c) == call[c].task
IsEdge(c) == call[c].route = "edge"
Live(c) == pc[c] \notin {"unborn", "done"}

(* No call made inside c is still running: c's own code may go on. *)
InControl(c) == \A d \in Calls : call[d].parent = c => ~Live(d)

(* None of those in c's own task is: c has control of its task. *)
OnTop(c) == \A d \in Calls : call[d].parent = c /\ Task(d) = Task(c) => ~Live(d)

Idle(t) == \A d \in Calls : Task(d) = t => ~Live(d)

(* A mistake: the Validator known by its spec, not by its identity. *)
ValidatorBySpec(c) == call[c].spec

(* The Validator the spec c dispatches carries.  The edge's variant is     *)
(* dataclasses.replace of kernel_spec(spec), which keeps its Validator,    *)
(* unless it is lenient (over HTTP), excludes a seed's field, or is        *)
(* compiled afresh for a partial call.                                     *)
ValidatorOf(c) ==
    IF /\ IsEdge(c)
       /\ \/ call[c].origin \in {"http", "patch"}
          \/ Spec_(c).seeded /\ ~Spec_(c).many
    THEN [of |-> "variant", spec |-> call[c].spec, origin |-> call[c].origin]
    ELSE [of |-> "kernel_spec", spec |-> call[c].spec, origin |-> "none"]

Init ==
    /\ pc = [c \in Calls |-> "unborn"]
    /\ call = [c \in Calls |-> NoCall]
    /\ edgeCall = [t \in Tasks |-> None]
    /\ token = [c \in Calls |-> None]
    /\ state = [c \in Calls |-> EmptyState]
    /\ target = [c \in Calls |-> None]
    /\ asked = [c \in Calls |-> NotAsked]
    /\ bound = [c \in Calls |-> None]
    /\ seat = [c \in Calls |-> None]
    /\ filtered = [c \in Calls |-> None]
    /\ outcome = [c \in Calls |-> "none"]
    /\ served = [c \in Calls |-> FALSE]
    /\ pending = [c \in Calls |-> {}]
    /\ durable = {}

Goto(c, stage) == pc' = [pc EXCEPT ![c] = stage]

-----------------------------------------------------------------------------
(* Beginning a call.                                                       *)

(* The innermost atomic block a call made by p writes into, and all of     *)
(* them: p's own where its service is running in one.                      *)
Opened(p) == pc[p] = "service" /\ Spec_(p).atomic
BlockFor(p) == IF p = None THEN None ELSE IF Opened(p) THEN p ELSE call[p].block
BlocksFor(p) ==
    IF p = None THEN {}
    ELSE call[p].blocks \cup (IF Opened(p) THEN {p} ELSE {})

(* c may be made by p (None: a request) in task t: a request takes an idle *)
(* task, a call inside another runs in its caller's task or in an idle one *)
(* spawned for it, whose context copies the caller's.  p awaits every call *)
(* it made before its own stage ends (InControl), not before the next call *)
(* (asyncio.gather).                                                       *)
MayCall(c, p, t) ==
    /\ pc[c] = "unborn"
    /\ p # None => pc[p] \in UserCode /\ OnTop(p)
    /\ p = None \/ Task(p) # t => Idle(t)

Inherited(p, t) == edgeCall[IF p = None THEN t ELSE Task(p)]

(* The first stage of prepare_edge_call after the state is filled with the *)
(* call's hooks and filter_data: a bulk call reads input_data first.       *)
FirstStage(s) ==
    IF Decl[s].kind = "service" /\ Decl[s].many THEN "input" ELSE "author"

EdgeState(s, guarded) ==
    [EmptyState EXCEPT !.filter = TRUE,
                       !.guard = guarded /\ Decl[s].kind = "selector"]

BeginEdge(c, p, t, s, origin, guarded) ==
    /\ MayCall(c, p, t)
    /\ call' = [call EXCEPT ![c] =
                    [route |-> "edge", spec |-> s, origin |-> origin,
                     guarded |-> guarded, parent |-> p, task |-> t,
                     block |-> BlockFor(p), blocks |-> BlocksFor(p)]]
    /\ token' = [token EXCEPT ![c] = Inherited(p, t)]
    /\ edgeCall' = [edgeCall EXCEPT ![t] = c]
    /\ state' = [state EXCEPT ![c] = EdgeState(s, guarded)]
    /\ Goto(c, FirstStage(s))
    /\ UNCHANGED <<target, asked, heard, outcome, store>>

(* dispatch(kernel_spec(spec), ...) made inside a callable: no edge state. *)
BeginKernel(c, p, s) ==
    /\ MayCall(c, p, Task(p))
    /\ call' = [call EXCEPT ![c] =
                    [route |-> "kernel", spec |-> s, origin |-> "offline",
                     guarded |-> FALSE, parent |-> p, task |-> Task(p),
                     block |-> BlockFor(p), blocks |-> BlocksFor(p)]]
    /\ token' = [token EXCEPT ![c] = edgeCall[Task(p)]]
    /\ Goto(c, "kernel")
    /\ UNCHANGED <<edgeCall, state, target, asked, heard, outcome, store>>

-----------------------------------------------------------------------------
(* prepare_edge_call.                                                      *)

(* _route_author_values: before a single service's lookup, last but the    *)
(* guard on a bulk call, last on a selector's.                             *)
RouteAuthorValues(c) ==
    /\ pc[c] = "author" /\ InControl(c)
    /\ Goto(c, IF Spec_(c).kind = "selector" THEN "kernel"
               ELSE IF Spec_(c).many THEN "guard" ELSE "lookup")
    /\ UNCHANGED <<context, state, target, asked, heard, outcome, store>>

(* The row handed in or found by resolve_target; None where there is no    *)
(* lookup and no row, and where the caller hands in instance=None.         *)
ResolveTarget(c) ==
    /\ pc[c] = "lookup" /\ InControl(c)
    /\ \E r \in Rows \cup {None} : target' = [target EXCEPT ![c] = r]
    /\ Goto(c, "guard")
    /\ UNCHANGED <<context, state, asked, heard, outcome, store>>

(* A mistake: the answer of a missed lookup taken for the row it found. *)
AnswerTakenForRow(c) ==
    /\ pc[c] = "lookup" /\ InControl(c) /\ Spec_(c).lookup
    /\ outcome' = [outcome EXCEPT ![c] = "not_found"]
    /\ \E r \in Rows : target' = [target EXCEPT ![c] = r]
    /\ Goto(c, "guard")
    /\ UNCHANGED <<context, state, asked, heard, store>>

(* A missing row is the call's answer: no guard, no input_data, no kernel. *)
TargetMissing(c) ==
    /\ pc[c] = "lookup" /\ InControl(c) /\ Spec_(c).lookup
    /\ outcome' = [outcome EXCEPT ![c] = "not_found"]
    /\ Goto(c, "leave")
    /\ UNCHANGED <<context, state, target, asked, heard, store>>

Asking(c, owner) ==
    asked' = [asked EXCEPT ![c] =
                 [times |-> asked[c].times + 1, by |-> owner, on |-> target[c]]]

(* A guard lets the call on to the next stage, or refuses it.              *)
Verdict(c, next) ==
    \/ Goto(c, next) /\ UNCHANGED outcome
    \/ Goto(c, "leave") /\ outcome' = [outcome EXCEPT ![c] = "raised"]

(* A mistake: the guard of a call that acts on no row is not asked. *)
AskGuardOfRowsOnly(c) ==
    LET next == IF Spec_(c).many THEN "kernel" ELSE "input" IN
    /\ pc[c] = "guard" /\ InControl(c)
    /\ IF call[c].guarded /\ target[c] # None
       THEN Asking(c, c) /\ Verdict(c, next)
       ELSE Goto(c, next) /\ UNCHANGED <<asked, outcome>>
    /\ UNCHANGED <<context, state, target, heard, store>>

(* on_target_resolved, asked by the edge on a service call's own target.   *)
AskGuard(c) ==
    LET next == IF Spec_(c).many THEN "kernel" ELSE "input" IN
    /\ pc[c] = "guard" /\ InControl(c)
    /\ IF call[c].guarded
       THEN Asking(c, c) /\ Verdict(c, next)
       ELSE Goto(c, next) /\ UNCHANGED <<asked, outcome>>
    /\ UNCHANGED <<context, state, target, heard, store>>

(* server_input, then the body and the Validator it is for.                *)
ReadInput(c) ==
    /\ pc[c] = "input" /\ InControl(c)
    /\ state' = IF Spec_(c).validated
                THEN [state EXCEPT ![c].validator = ValidatorOf(c)]
                ELSE state
    /\ Goto(c, IF Spec_(c).many THEN "author" ELSE "kernel")
    /\ UNCHANGED <<context, target, asked, heard, outcome, store>>

-----------------------------------------------------------------------------
(* The kernel's dispatch, as the edge relies on it: check the arguments,   *)
(* then a selector selects and its preconditions run, or a service's       *)
(* Validator, preconditions and service run and its output is read again.  *)

(* The kernel looks a kernel call's target up itself; an edge call hands   *)
(* it the target it resolved.                                              *)
LooksUp(c) == Spec_(c).kind = "service" /\ Spec_(c).lookup

(* A mistake: it looks an edge call's target up again, past the guard. *)
LooksAgain(c) ==
    /\ pc[c] = "kernel"
    /\ IF LooksUp(c) THEN \E r \in Rows : target' = [target EXCEPT ![c] = r] ELSE UNCHANGED target
    /\ Goto(c, IF Spec_(c).kind = "selector" THEN "select"
               ELSE IF Spec_(c).validated THEN "validate"
               ELSE "preconditions")
    /\ UNCHANGED <<context, state, asked, heard, outcome, store>>

CheckArguments(c) ==
    /\ pc[c] = "kernel"
    /\ IF LooksUp(c) /\ ~IsEdge(c)
       THEN \E r \in Rows : target' = [target EXCEPT ![c] = r]
       ELSE (LooksUp(c) => target[c] # None) /\ UNCHANGED target
    /\ Goto(c, IF Spec_(c).kind = "selector" THEN "select"
               ELSE IF Spec_(c).validated THEN "validate"
               ELSE "preconditions")
    /\ UNCHANGED <<context, state, asked, heard, outcome, store>>

(* No row where the spec declares a lookup: a kernel call's finds none, or *)
(* an edge call was handed instance=None.                                  *)
NoTarget(c) ==
    /\ pc[c] = "kernel" /\ LooksUp(c)
    /\ IsEdge(c) => target[c] = None
    /\ outcome' = [outcome EXCEPT ![c] = "not_found"]
    /\ Goto(c, "leave")
    /\ UNCHANGED <<context, state, target, asked, heard, store>>

(* A guarded twin's first precondition is the guard.                       *)
Select(c) ==
    /\ pc[c] = "select" /\ InControl(c)
    /\ \E r \in Rows : target' = [target EXCEPT ![c] = r]
    /\ Goto(c, IF call[c].guarded THEN "guard_row" ELSE "preconditions")
    /\ UNCHANGED <<context, state, asked, heard, outcome, store>>

(* A selector whose allow_none answers a miss with None: no row for its    *)
(* preconditions, a twin's guard the first of them, to run on.             *)
SelectNothing(c) ==
    /\ pc[c] = "select" /\ InControl(c) /\ Spec_(c).nullable
    /\ outcome' = [outcome EXCEPT ![c] = "ok"]
    /\ Goto(c, "leave")
    /\ UNCHANGED <<context, state, target, asked, heard, store>>

SelectMissing(c) ==
    /\ pc[c] = "select" /\ InControl(c) /\ ~Spec_(c).nullable
    /\ outcome' = [outcome EXCEPT ![c] = "not_found"]
    /\ Goto(c, "leave")
    /\ UNCHANGED <<context, state, target, asked, heard, store>>

(* _call_guard: the guard of the edge call in progress, found through      *)
(* EDGE_CALL; a twin that finds none there is refused, never let by.       *)
CallGuard(c) ==
    LET owner == edgeCall[Task(c)]
        found == owner # None /\ state[owner].guard
    IN
    /\ pc[c] = "guard_row" /\ InControl(c)
    /\ IF found THEN Asking(c, owner) ELSE UNCHANGED asked
    /\ \/ found /\ Goto(c, "preconditions") /\ UNCHANGED outcome
       \/ Goto(c, "leave") /\ outcome' = [outcome EXCEPT ![c] = "raised"]
    /\ UNCHANGED <<context, state, target, heard, store>>

(* A mistake: any body the edge holds is bound, whatever its Validator. *)
AnyBody(c) ==
    LET owner == edgeCall[Task(c)] IN
    IF owner # None /\ state[owner].validator # NoValidator THEN owner ELSE c

(* SerializerValidator: the edge's body where EDGE_CALL's state names this *)
(* very Validator (validator_input), else the arguments of the call.       *)
BodyFor(c) ==
    LET owner == edgeCall[Task(c)] IN
    IF owner # None /\ state[owner].validator = ValidatorOf(c)
    THEN owner ELSE c

Validate(c) ==
    /\ pc[c] = "validate" /\ InControl(c)
    /\ bound' = [bound EXCEPT ![c] = BodyFor(c)]
    /\ Goto(c, "preconditions")
    /\ UNCHANGED <<context, state, target, asked, seat, filtered, outcome, store>>

(* The pool is filled, an edge variant's kwargs seat handing back the      *)
(* author values EDGE_CALL's state holds, and the preconditions run.       *)
Preconditions(c) ==
    /\ pc[c] = "preconditions" /\ InControl(c)
    /\ seat' = [seat EXCEPT ![c] = IF IsEdge(c) /\ Spec_(c).kind = "service"
                                   THEN edgeCall[Task(c)] ELSE None]
    /\ Goto(c, IF Spec_(c).kind = "service" THEN "service" ELSE "leave")
    /\ outcome' = IF Spec_(c).kind = "service" THEN outcome
                  ELSE [outcome EXCEPT ![c] = "ok"]
    /\ UNCHANGED <<context, state, target, asked, bound, filtered, store>>

(* ws reach the store: into block b where one is open, else for good.      *)
Deposit(b, ws, held) ==
    IF b = None
    THEN durable' = durable \cup ws /\ pending' = held
    ELSE pending' = [held EXCEPT ![b] = @ \cup ws] /\ UNCHANGED durable

Write(c) ==
    /\ pc[c] = "service" /\ InControl(c)
    /\ Deposit(IF Spec_(c).atomic THEN c ELSE call[c].block, {c}, pending)
    /\ UNCHANGED <<pc, context, state, target, asked, heard, outcome, served>>

(* A mistake: the end of an inner block commits. *)
ReturnCommits(c) ==
    /\ pc[c] = "service" /\ InControl(c)
    /\ served' = [served EXCEPT ![c] = TRUE]
    /\ Deposit(None, pending[c], [pending EXCEPT ![c] = {}])
    /\ Goto(c, "reread")
    /\ UNCHANGED <<context, state, target, asked, heard, outcome>>

(* The service returns; its atomic block, where it has one, closes.        *)
Return(c) ==
    /\ pc[c] = "service" /\ InControl(c)
    /\ served' = [served EXCEPT ![c] = TRUE]
    /\ Deposit(call[c].block, pending[c], [pending EXCEPT ![c] = {}])
    /\ Goto(c, "reread")
    /\ UNCHANGED <<context, state, target, asked, heard, outcome>>

(* The output re-read, after the block, and its filter (as_kernel_spec's   *)
(* _filtering_from_the_call), bound to EDGE_CALL's filter_data.            *)
FilterFor(c) ==
    LET owner == edgeCall[Task(c)] IN
    IF owner # None /\ state[owner].filter THEN owner ELSE None

Reread(c) ==
    /\ pc[c] = "reread" /\ InControl(c)
    /\ filtered' = IF Spec_(c).filters
                   THEN [filtered EXCEPT ![c] = FilterFor(c)] ELSE filtered
    /\ outcome' = [outcome EXCEPT ![c] = "ok"]
    /\ Goto(c, "leave")
    /\ UNCHANGED <<context, state, target, asked, bound, seat, store>>

-----------------------------------------------------------------------------
(* The ways out.                                                           *)

(* A mistake: what raised is tried again, for ever. *)
RaiseRetries(c) ==
    /\ pc[c] \notin {"unborn", "guard", "guard_row", "leave", "answer", "done"}
    /\ InControl(c)
    /\ pending' = [pending EXCEPT ![c] = {}]
    /\ Goto(c, IF IsEdge(c) THEN FirstStage(call[c].spec) ELSE "kernel")
    /\ UNCHANGED <<context, state, target, asked, heard, outcome, served, durable>>

(* A stage other than the guard refuses or raises: arguments, provider,    *)
(* lookup, input, Validator, precondition, service or re-read.  An open    *)
(* atomic block is rolled back with all that was written in it.            *)
Raise(c) ==
    /\ pc[c] \notin {"unborn", "guard", "guard_row", "leave", "answer", "done"}
    /\ InControl(c)
    /\ outcome' = [outcome EXCEPT ![c] = "raised"]
    /\ pending' = [pending EXCEPT ![c] = {}]
    /\ Goto(c, "leave")
    /\ UNCHANGED <<context, state, target, asked, heard, served, durable>>

(* Mistakes: EDGE_CALL cleared, not reset; reset only where nothing raised. *)
LeaveClears(c) ==
    /\ pc[c] = "leave"
    /\ edgeCall' = IF IsEdge(c) THEN [edgeCall EXCEPT ![Task(c)] = None] ELSE edgeCall
    /\ Goto(c, "answer")
    /\ UNCHANGED <<call, token, state, target, asked, heard, outcome, store>>
LeaveOnSuccess(c) ==
    /\ pc[c] = "leave"
    /\ edgeCall' = IF IsEdge(c) /\ outcome[c] = "ok"
                   THEN [edgeCall EXCEPT ![Task(c)] = token[c]] ELSE edgeCall
    /\ Goto(c, "answer")
    /\ UNCHANGED <<call, token, state, target, asked, heard, outcome, store>>

(* edge_call's finally: EDGE_CALL is what it was when the call began.  A   *)
(* kernel call set nothing.                                                *)
Leave(c) ==
    /\ pc[c] = "leave"
    /\ edgeCall' = IF IsEdge(c) THEN [edgeCall EXCEPT ![Task(c)] = token[c]]
                   ELSE edgeCall
    /\ Goto(c, "answer")
    /\ UNCHANGED <<call, token, state, target, asked, heard, outcome, store>>

(* A task spawned for the call is over, and its context with it.           *)
Spawned(c) == call[c].parent # None /\ Task(call[c].parent) # Task(c)

Closed(c) ==
    edgeCall' = IF Spawned(c) THEN [edgeCall EXCEPT ![Task(c)] = None] ELSE edgeCall

(* with_output_layers and listed_output, once both context managers are    *)
(* left: a return that is not a set of rows is refused there.              *)
Answer(c) ==
    /\ pc[c] = "answer"
    /\ \/ UNCHANGED outcome
       \/ /\ IsEdge(c) /\ Spec_(c).lists /\ outcome[c] = "ok"
          /\ outcome' = [outcome EXCEPT ![c] = "raised"]
    /\ Closed(c)
    /\ Goto(c, "done")
    /\ UNCHANGED <<call, token, state, target, asked, heard, store>>

-----------------------------------------------------------------------------

Begin ==
    \E c \in Calls, p \in Calls \cup {None}, s \in Specs :
        \/ \E t \in Tasks, o \in Origins, g \in BOOLEAN : BeginEdge(c, p, t, s, o, g)
        \/ p # None /\ BeginKernel(c, p, s)

Progress(c) ==
    \/ RouteAuthorValues(c) \/ ResolveTarget(c) \/ TargetMissing(c)
    \/ AskGuard(c) \/ ReadInput(c)
    \/ CheckArguments(c) \/ NoTarget(c) \/ Select(c) \/ SelectNothing(c)
    \/ SelectMissing(c) \/ CallGuard(c)
    \/ Validate(c) \/ Preconditions(c) \/ Return(c) \/ Reread(c)
    \/ Raise(c) \/ Leave(c) \/ Answer(c)

(* Every call the bound allows has been made and answered. *)
Finished == (\A c \in Calls : pc[c] = "done") /\ UNCHANGED vars

Next == Begin \/ (\E c \in Calls : Progress(c) \/ Write(c)) \/ Finished

Spec == Init /\ [][Next]_vars
FairSpec == Spec /\ \A c \in Calls : WF_vars(Progress(c))

-----------------------------------------------------------------------------
(* Properties.                                                             *)

TypeOK ==
    /\ pc \in [Calls -> Stages]
    /\ call \in [Calls ->
                   [route : {"none", "edge", "kernel"}, spec : Specs \cup {None},
                    origin : Origins \cup {"none", "offline"}, guarded : BOOLEAN,
                    parent : Calls \cup {None}, task : Tasks \cup {None},
                    block : Calls \cup {None}, blocks : SUBSET Calls]]
    /\ edgeCall \in [Tasks -> Calls \cup {None}]
    /\ token \in [Calls -> Calls \cup {None}]
    /\ state \in [Calls ->
                    [guard : BOOLEAN, filter : BOOLEAN, validator : Validators]]
    /\ target \in [Calls -> Rows \cup {None}]
    /\ asked \in [Calls -> [times : Nat, by : Calls \cup {None}, on : Rows \cup {None}]]
    /\ bound \in [Calls -> Calls \cup {None}]
    /\ seat \in [Calls -> Calls \cup {None}]
    /\ filtered \in [Calls -> Calls \cup {None}]
    /\ outcome \in [Calls -> {"none", "ok", "not_found", "raised"}]
    /\ served \in [Calls -> BOOLEAN]
    /\ pending \in [Calls -> SUBSET Calls]
    /\ durable \in SUBSET Calls

(* The stages a guard stands before: everything a refused call must not    *)
(* reach.                                                                  *)
PastGuard(c) ==
    \/ pc[c] \in {"validate", "preconditions", "service", "reread"}
    \/ served[c]

(* A call with a guard reaches its Validator, its preconditions and its    *)
(* service only once that very call's guard was asked, once, on the very   *)
(* row the call acts on - whatever calls its lookup or its selector made   *)
(* in between (prepare_edge_call, guarded_selector, _call_guard).          *)
GuardedOnItsOwnTarget ==
    \A c \in Calls : call[c].guarded /\ PastGuard(c) =>
        asked[c] = [times |-> 1, by |-> c, on |-> target[c]]

(* A call answered not_found ran nothing of the author's past its lookup:  *)
(* its guard was asked about no row, no body was bound, nothing was served *)
(* (the early return of prepare_edge_call; the guard a twin's precondition *)
(* rather than the edge's for a selector).                                 *)
NotFoundRanNothing ==
    \A c \in Calls : outcome[c] = "not_found" =>
        asked[c].on = None /\ bound[c] = None /\ ~served[c]

(* Whose state code running in c finds in EDGE_CALL: c's own in an edge    *)
(* call, else that of the call c was made in.                              *)
Env(c) == IF IsEdge(c) THEN c ELSE token[c]

(* While c's own code runs, EDGE_CALL holds the innermost edge call c is   *)
(* part of, whichever calls it made and however they ended (edge_call).    *)
EdgeCallIsInnermost ==
    \A c \in Calls : Live(c) /\ pc[c] # "answer" /\ OnTop(c) =>
        edgeCall[Task(c)] = Env(c)

(* A task no call runs in carries no edge state into the next request.     *)
IdleTaskIsClean == \A t \in Tasks : Idle(t) => edgeCall[t] = None

(* The kwargs seat of a compiled variant hands a service the author values *)
(* of its own call (author_values, read through EDGE_CALL unchecked), and  *)
(* a kernel call has no seat.                                              *)
OwnAuthorValues ==
    \A c \in Calls : pc[c] = "service" \/ served[c] =>
        seat[c] = IF IsEdge(c) THEN c ELSE None

(* A Validator binds the body of its own call: the edge's for the call the *)
(* edge prepared, the kernel's arguments for a kernel call made inside it  *)
(* (validator_input, which compares the Validator by identity).            *)
OwnBody == \A c \in Calls : bound[c] \in {None, c}

(* A service's output is filtered by its own call's filter_data, and by an *)
(* empty mapping where the call passed none, as a kernel call does.        *)
OwnFilterData ==
    \A c \in Calls : filtered[c] \in {None} \cup (IF IsEdge(c) THEN {c} ELSE {})

(* A write is committed only once every atomic service it was made in has  *)
(* returned: a refusal of any of them takes it back.                       *)
CommittedWhenAllReturned ==
    \A w \in durable :
        /\ Spec_(w).atomic => served[w]
        /\ \A b \in call[w].blocks : served[b]

(* What CallPromise sees of it: what each call is to whoever made it, the  *)
(* calls under way, whose state each finds, how each was answered.         *)
Made(c) ==
    IF pc[c] = "unborn"
    THEN [route |-> "none", spec |-> None, parent |-> None, guarded |-> FALSE,
          service |-> FALSE, atomic |-> FALSE, nullable |-> FALSE, within |-> {}]
    ELSE [route |-> call[c].route, spec |-> call[c].spec, parent |-> call[c].parent,
          guarded |-> call[c].guarded, service |-> Spec_(c).kind = "service",
          atomic |-> Spec_(c).atomic, nullable |-> Spec_(c).nullable,
          within |-> call[c].blocks]

MadeCalls == [c \in Calls |-> Made(c)]
OpenCalls == {c \in Calls : Live(c)}
Envs == [c \in Calls |-> Env(c)]
Answers == [c \in Calls |-> IF pc[c] = "done" THEN outcome[c] ELSE "none"]

Promise == INSTANCE CallPromise
    WITH made <- MadeCalls, open <- OpenCalls, env <- Envs, answer <- Answers

(* The context variable, its tokens and the edge's states, over whatever   *)
(* tasks the calls share, do what CallPromise says without them.           *)
PromiseSpec == Promise!Spec

(* Every call made is answered.                                            *)
EveryCallAnswered == \A c \in Calls : pc[c] # "unborn" ~> pc[c] = "done"
=============================================================================
