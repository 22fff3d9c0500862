-------------------------- MODULE EdgeCall_proofs --------------------------
(***************************************************************************)
(* Theorems of EdgeCall, for any number of calls, tasks, specs and rows.   *)
(***************************************************************************)
EXTENDS EdgeCall, TLAPS

-----------------------------------------------------------------------------
(* Types.                                                                  *)

(* What a call is, from the moment it is made. *)
Registered ==
    \A c \in Calls :
        /\ pc[c] = "unborn" => call[c] = NoCall /\ state[c] = EmptyState
        /\ pc[c] # "unborn" =>
              /\ call[c].route \in {"edge", "kernel"}
              /\ call[c].spec \in Specs
              /\ call[c].task \in Tasks
              /\ call[c].parent # None =>
                    pc[call[c].parent] # "unborn" /\ call[c].parent # c
              /\ call[c].parent = None \/ call[c].guarded => call[c].route = "edge"

Typed == TypeOK /\ Registered

(* They hold of the initial state. *)
LEMMA InitTyped == Init => Typed
  BY DEF Init, Typed, TypeOK, Registered, NoCall, EmptyState, NoValidator,
         Validators, NotAsked, Stages

(* Making a call registers it. *)
LEMMA BeginTyped == Typed /\ Begin => Typed'
<1> SUFFICES ASSUME Typed, Begin PROVE Typed'
  OBVIOUS
<1> USE CallAssumption DEF Typed, TypeOK, Goto, context, heard, store
<1>1. ASSUME NEW c \in Calls, NEW p \in Calls \cup {None}, NEW s \in Specs,
             NEW t \in Tasks, NEW o \in Origins, NEW g \in BOOLEAN,
             BeginEdge(c, p, t, s, o, g)
      PROVE  Typed'
  <2>1. BlockFor(p) \in Calls \cup {None} /\ BlocksFor(p) \in SUBSET Calls
    BY DEF BlockFor, BlocksFor
  <2>2. p # None => pc[p] # "unborn" /\ p # c /\ Task(p) \in Tasks
    BY <1>1 DEF BeginEdge, MayCall, UserCode, Registered, Task
  <2>3. Inherited(p, t) \in Calls \cup {None}
    BY <2>2 DEF Inherited
  <2>4. FirstStage(s) \in Stages \ {"unborn"}
    BY DEF FirstStage, Stages
  <2>5. EdgeState(s, g) \in [guard : BOOLEAN, filter : BOOLEAN, validator : Validators]
    BY DEF EdgeState, EmptyState, NoValidator, Validators, Declarations
  <2>6. TypeOK'
    BY <1>1, <2>1, <2>3, <2>4, <2>5 DEF BeginEdge
  <2>7. Registered'
    BY <1>1, <2>2, <2>4 DEF BeginEdge, Registered, MayCall
  <2> QED BY <2>6, <2>7
<1>2. ASSUME NEW c \in Calls, NEW p \in Calls, NEW s \in Specs, BeginKernel(c, p, s)
      PROVE  Typed'
  <2>1. BlockFor(p) \in Calls \cup {None} /\ BlocksFor(p) \in SUBSET Calls
    BY DEF BlockFor, BlocksFor
  <2>2. pc[p] # "unborn" /\ p # c /\ Task(p) \in Tasks /\ p # None
    BY <1>2 DEF BeginKernel, MayCall, UserCode, Registered, Task
  <2>3. TypeOK'
    BY <1>2, <2>1, <2>2 DEF BeginKernel, Stages
  <2>4. Registered'
    BY <1>2, <2>2 DEF BeginKernel, Registered, MayCall
  <2> QED BY <2>3, <2>4
<1> QED BY <1>1, <1>2 DEF Begin

(* A step of a call leaves what the calls are alone. *)
LEMMA StillRegistered ==
  ASSUME Typed, NEW c \in Calls, pc[c] # "unborn", UNCHANGED call,
         \A d \in Calls : pc'[d] = "unborn" <=> pc[d] = "unborn",
         \A d \in Calls \ {c} : state'[d] = state[d]
  PROVE  Registered'
<1> SUFFICES ASSUME NEW d \in Calls
             PROVE  /\ pc'[d] = "unborn" => call[d] = NoCall /\ state'[d] = EmptyState
                    /\ pc'[d] # "unborn" =>
                          /\ call[d].route \in {"edge", "kernel"}
                          /\ call[d].spec \in Specs
                          /\ call[d].task \in Tasks
                          /\ call[d].parent # None =>
                                pc'[call[d].parent] # "unborn" /\ call[d].parent # d
                          /\ call[d].parent = None \/ call[d].guarded => call[d].route = "edge"
  BY DEF Registered
<1>1. call[d].parent \in Calls \cup {None}
  BY DEF Typed, TypeOK
<1>2. pc[d] = "unborn" => d # c
  OBVIOUS
<1> QED BY <1>1, <1>2 DEF Typed, Registered

(* What a guard was asked keeps its type. *)
LEMMA AskingTyped ==
  ASSUME NEW c \in Calls, NEW owner \in Calls, TypeOK, Asking(c, owner)
  PROVE  asked' \in [Calls -> [times : Nat, by : Calls \cup {None}, on : Rows \cup {None}]]
<1>1. /\ asked \in [Calls -> [times : Nat, by : Calls \cup {None}, on : Rows \cup {None}]]
      /\ target[c] \in Rows \cup {None}
  BY DEF TypeOK
<1>2. asked[c].times + 1 \in Nat
  BY <1>1
<1>3. [times |-> asked[c].times + 1, by |-> owner, on |-> target[c]]
        \in [times : Nat, by : Calls \cup {None}, on : Rows \cup {None}]
  BY <1>1, <1>2
<1> QED BY <1>1, <1>3 DEF Asking

(* And the writes held and committed stay sets of calls. *)
LEMMA DepositTyped ==
  ASSUME NEW b \in Calls \cup {None}, NEW ws \in SUBSET Calls,
         NEW held \in [Calls -> SUBSET Calls], durable \in SUBSET Calls,
         Deposit(b, ws, held)
  PROVE  pending' \in [Calls -> SUBSET Calls] /\ durable' \in SUBSET Calls
<1>1. CASE b = None
  BY <1>1 DEF Deposit
<1>2. CASE b # None
  <2>1. b \in Calls /\ pending' = [held EXCEPT ![b] = held[b] \cup ws] /\ durable' = durable
    BY <1>2 DEF Deposit
  <2>2. held[b] \cup ws \in SUBSET Calls
    BY <2>1
  <2> QED BY <2>1, <2>2
<1> QED BY <1>1, <1>2

(* A verdict moves a call to a stage, with an outcome. *)
LEMMA VerdictTyped ==
  ASSUME NEW c \in Calls, NEW next \in Stages, Verdict(c, next),
         pc \in [Calls -> Stages],
         outcome \in [Calls -> {"none", "ok", "not_found", "raised"}]
  PROVE  /\ pc' \in [Calls -> Stages]
         /\ outcome' \in [Calls -> {"none", "ok", "not_found", "raised"}]
<1>1. "leave" \in Stages
  BY DEF Stages
<1> QED BY <1>1 DEF Verdict, Goto

(* Recording a Validator keeps the edge states typed. *)
LEMMA ReadTyped ==
  ASSUME NEW c \in Calls, NEW v \in Validators,
         state \in [Calls -> [guard : BOOLEAN, filter : BOOLEAN, validator : Validators]],
         state' = [state EXCEPT ![c].validator = v]
  PROVE  state' \in [Calls -> [guard : BOOLEAN, filter : BOOLEAN, validator : Validators]]
  OBVIOUS

(* A step of a call keeps the types. *)
LEMMA ProgressTyped ==
  ASSUME NEW c \in Calls, Typed, Progress(c) \/ Write(c) PROVE Typed'
<1> USE CallAssumption DEF Typed, TypeOK, Goto, context, heard, store, Stages
<1>0. ASSUME pc[c] # "unborn", UNCHANGED call, TypeOK',
             \A d \in Calls : pc'[d] = "unborn" <=> pc[d] = "unborn",
             \A d \in Calls \ {c} : state'[d] = state[d]
      PROVE  Typed'
  BY <1>0, StillRegistered
<1>1. CASE RouteAuthorValues(c)
  <2>1. TypeOK'
    BY <1>1 DEF RouteAuthorValues
  <2>2. pc[c] # "unborn" /\ UNCHANGED call
        /\ (\A d \in Calls : pc'[d] = "unborn" <=> pc[d] = "unborn")
        /\ (\A d \in Calls \ {c} : state'[d] = state[d])
    BY <1>1 DEF RouteAuthorValues
  <2> QED BY <1>0, <2>1, <2>2
<1>2. CASE ResolveTarget(c)
  <2>1. TypeOK'
    BY <1>2 DEF ResolveTarget
  <2>2. pc[c] # "unborn" /\ UNCHANGED call
        /\ (\A d \in Calls : pc'[d] = "unborn" <=> pc[d] = "unborn")
        /\ (\A d \in Calls \ {c} : state'[d] = state[d])
    BY <1>2 DEF ResolveTarget
  <2> QED BY <1>0, <2>1, <2>2
<1>3. CASE TargetMissing(c)
  <2>1. TypeOK'
    BY <1>3 DEF TargetMissing
  <2>2. pc[c] # "unborn" /\ UNCHANGED call
        /\ (\A d \in Calls : pc'[d] = "unborn" <=> pc[d] = "unborn")
        /\ (\A d \in Calls \ {c} : state'[d] = state[d])
    BY <1>3 DEF TargetMissing
  <2> QED BY <1>0, <2>1, <2>2
<1>4. CASE AskGuard(c)
  <2>1. TypeOK'
    <3>1. asked' \in [Calls -> [times : Nat, by : Calls \cup {None}, on : Rows \cup {None}]]
      BY <1>4, AskingTyped DEF AskGuard
    <3>2. pc' \in [Calls -> Stages] /\ outcome' \in [Calls -> {"none", "ok", "not_found", "raised"}]
      <4>1. CASE call[c].guarded
        <5>1. PICK next \in {"kernel", "input"} : Verdict(c, next)
          BY <1>4, <4>1 DEF AskGuard
        <5>2. next \in Stages
          BY <5>1
        <5> QED BY <5>1, <5>2, VerdictTyped
      <4>2. CASE ~call[c].guarded
        BY <1>4, <4>2 DEF AskGuard
      <4> QED BY <4>1, <4>2
    <3> QED BY <1>4, <3>1, <3>2 DEF AskGuard
  <2>2. pc[c] # "unborn" /\ UNCHANGED call
        /\ (\A d \in Calls : pc'[d] = "unborn" <=> pc[d] = "unborn")
        /\ (\A d \in Calls \ {c} : state'[d] = state[d])
    BY <1>4 DEF AskGuard, Asking, Verdict
  <2> QED BY <1>0, <2>1, <2>2
<1>5. CASE ReadInput(c)
  <2>1. ValidatorOf(c) \in Validators
    BY DEF ValidatorOf, Validators
  <2>2. TypeOK'
    <3>1. state' \in [Calls -> [guard : BOOLEAN, filter : BOOLEAN, validator : Validators]]
      <4>1. CASE state' = state
        BY <4>1
      <4>2. CASE state' = [state EXCEPT ![c].validator = ValidatorOf(c)]
        BY <4>2, <2>1, ReadTyped
      <4> QED BY <1>5, <4>1, <4>2 DEF ReadInput
    <3> QED BY <1>5, <3>1 DEF ReadInput
  <2>3. pc[c] # "unborn" /\ UNCHANGED call
        /\ (\A d \in Calls : pc'[d] = "unborn" <=> pc[d] = "unborn")
        /\ (\A d \in Calls \ {c} : state'[d] = state[d])
    BY <1>5 DEF ReadInput
  <2> QED BY <1>0, <2>2, <2>3
<1>6. CASE CheckArguments(c)
  <2>1. TypeOK'
    <3>1. target' \in [Calls -> Rows \cup {None}]
      BY <1>6 DEF CheckArguments
    <3>2. pc' \in [Calls -> Stages]
      BY <1>6 DEF CheckArguments
    <3> QED BY <1>6, <3>1, <3>2 DEF CheckArguments
  <2>2. pc[c] # "unborn" /\ UNCHANGED call
        /\ (\A d \in Calls : pc'[d] = "unborn" <=> pc[d] = "unborn")
        /\ (\A d \in Calls \ {c} : state'[d] = state[d])
    BY <1>6 DEF CheckArguments
  <2> QED BY <1>0, <2>1, <2>2
<1>7. CASE NoTarget(c)
  <2>1. TypeOK'
    BY <1>7 DEF NoTarget
  <2>2. pc[c] # "unborn" /\ UNCHANGED call
        /\ (\A d \in Calls : pc'[d] = "unborn" <=> pc[d] = "unborn")
        /\ (\A d \in Calls \ {c} : state'[d] = state[d])
    BY <1>7 DEF NoTarget
  <2> QED BY <1>0, <2>1, <2>2
<1>8. CASE Select(c)
  <2>1. TypeOK'
    BY <1>8 DEF Select
  <2>2. pc[c] # "unborn" /\ UNCHANGED call
        /\ (\A d \in Calls : pc'[d] = "unborn" <=> pc[d] = "unborn")
        /\ (\A d \in Calls \ {c} : state'[d] = state[d])
    BY <1>8 DEF Select
  <2> QED BY <1>0, <2>1, <2>2
<1>9. CASE SelectMissing(c)
  <2>1. TypeOK'
    BY <1>9 DEF SelectMissing
  <2>2. pc[c] # "unborn" /\ UNCHANGED call
        /\ (\A d \in Calls : pc'[d] = "unborn" <=> pc[d] = "unborn")
        /\ (\A d \in Calls \ {c} : state'[d] = state[d])
    BY <1>9 DEF SelectMissing
  <2> QED BY <1>0, <2>1, <2>2
<1>9a. CASE SelectNothing(c)
  <2>1. TypeOK'
    BY <1>9a DEF SelectNothing
  <2>2. pc[c] # "unborn" /\ UNCHANGED call
        /\ (\A d \in Calls : pc'[d] = "unborn" <=> pc[d] = "unborn")
        /\ (\A d \in Calls \ {c} : state'[d] = state[d])
    BY <1>9a DEF SelectNothing
  <2> QED BY <1>0, <2>1, <2>2
<1>10. CASE CallGuard(c)
  <2>1. Task(c) \in Tasks
    BY <1>10 DEF CallGuard, Registered, Task
  <2>2. TypeOK'
    <3>1. asked' \in [Calls -> [times : Nat, by : Calls \cup {None}, on : Rows \cup {None}]]
      <4>1. edgeCall[Task(c)] \in Calls \cup {None}
        BY <2>1
      <4>2. CASE edgeCall[Task(c)] # None /\ Asking(c, edgeCall[Task(c)])
        BY <4>1, <4>2, AskingTyped
      <4> QED BY <1>10, <4>2 DEF CallGuard
    <3>2. pc' \in [Calls -> Stages] /\ outcome' \in [Calls -> {"none", "ok", "not_found", "raised"}]
      BY <1>10 DEF CallGuard
    <3> QED BY <1>10, <3>1, <3>2 DEF CallGuard
  <2>3. pc[c] # "unborn" /\ UNCHANGED call
        /\ (\A d \in Calls : pc'[d] = "unborn" <=> pc[d] = "unborn")
        /\ (\A d \in Calls \ {c} : state'[d] = state[d])
    BY <1>10 DEF CallGuard, Asking
  <2> QED BY <1>0, <2>2, <2>3
<1>11. CASE Validate(c)
  <2>1. BodyFor(c) \in Calls
    BY <1>11 DEF Validate, BodyFor, Registered, Task
  <2>2. TypeOK'
    BY <1>11, <2>1 DEF Validate
  <2>3. pc[c] # "unborn" /\ UNCHANGED call
        /\ (\A d \in Calls : pc'[d] = "unborn" <=> pc[d] = "unborn")
        /\ (\A d \in Calls \ {c} : state'[d] = state[d])
    BY <1>11 DEF Validate
  <2> QED BY <1>0, <2>2, <2>3
<1>12. CASE Preconditions(c)
  <2>1. Task(c) \in Tasks
    BY <1>12 DEF Preconditions, Registered, Task
  <2>2. TypeOK'
    BY <1>12, <2>1 DEF Preconditions
  <2>3. pc[c] # "unborn" /\ UNCHANGED call
        /\ (\A d \in Calls : pc'[d] = "unborn" <=> pc[d] = "unborn")
        /\ (\A d \in Calls \ {c} : state'[d] = state[d])
    BY <1>12 DEF Preconditions
  <2> QED BY <1>0, <2>2, <2>3
<1>13. CASE Return(c)
  <2>1. TypeOK'
    <3>1. pending' \in [Calls -> SUBSET Calls] /\ durable' \in SUBSET Calls
      <4>1. /\ Deposit(call[c].block, pending[c], [pending EXCEPT ![c] = {}])
            /\ [pending EXCEPT ![c] = {}] \in [Calls -> SUBSET Calls]
            /\ pending[c] \in SUBSET Calls
        BY <1>13 DEF Return
      <4> QED BY <4>1, DepositTyped
    <3> QED BY <1>13, <3>1 DEF Return
  <2>2. pc[c] # "unborn" /\ UNCHANGED call
        /\ (\A d \in Calls : pc'[d] = "unborn" <=> pc[d] = "unborn")
        /\ (\A d \in Calls \ {c} : state'[d] = state[d])
    BY <1>13 DEF Return, Deposit
  <2> QED BY <1>0, <2>1, <2>2
<1>14. CASE Reread(c)
  <2>1. FilterFor(c) \in Calls \cup {None}
    BY <1>14 DEF Reread, FilterFor, Registered, Task
  <2>2. TypeOK'
    BY <1>14, <2>1 DEF Reread
  <2>3. pc[c] # "unborn" /\ UNCHANGED call
        /\ (\A d \in Calls : pc'[d] = "unborn" <=> pc[d] = "unborn")
        /\ (\A d \in Calls \ {c} : state'[d] = state[d])
    BY <1>14 DEF Reread
  <2> QED BY <1>0, <2>2, <2>3
<1>15. CASE Raise(c)
  <2>1. TypeOK'
    BY <1>15 DEF Raise
  <2>2. pc[c] # "unborn" /\ UNCHANGED call
        /\ (\A d \in Calls : pc'[d] = "unborn" <=> pc[d] = "unborn")
        /\ (\A d \in Calls \ {c} : state'[d] = state[d])
    BY <1>15 DEF Raise
  <2> QED BY <1>0, <2>1, <2>2
<1>16. CASE Leave(c)
  <2>1. TypeOK'
    BY <1>16 DEF Leave
  <2>2. pc[c] # "unborn" /\ UNCHANGED call
        /\ (\A d \in Calls : pc'[d] = "unborn" <=> pc[d] = "unborn")
        /\ (\A d \in Calls \ {c} : state'[d] = state[d])
    BY <1>16 DEF Leave
  <2> QED BY <1>0, <2>1, <2>2
<1>17. CASE Answer(c)
  <2>1. TypeOK'
    <3>1. edgeCall' \in [Tasks -> Calls \cup {None}]
      BY <1>17 DEF Answer, Closed
    <3>2. outcome' \in [Calls -> {"none", "ok", "not_found", "raised"}]
      BY <1>17 DEF Answer
    <3> QED BY <1>17, <3>1, <3>2 DEF Answer
  <2>2. pc[c] # "unborn" /\ UNCHANGED call
        /\ (\A d \in Calls : pc'[d] = "unborn" <=> pc[d] = "unborn")
        /\ (\A d \in Calls \ {c} : state'[d] = state[d])
    BY <1>17 DEF Answer, Closed
  <2> QED BY <1>0, <2>1, <2>2
<1>18. CASE Write(c)
  <2>1. TypeOK'
    <3>1. pending' \in [Calls -> SUBSET Calls] /\ durable' \in SUBSET Calls
      <4>1. Deposit(IF Spec_(c).atomic THEN c ELSE call[c].block, {c}, pending)
        BY <1>18 DEF Write
      <4> HIDE DEF Spec_
      <4> QED BY <4>1, DepositTyped
    <3> QED BY <1>18, <3>1 DEF Write
  <2>2. pc[c] # "unborn" /\ UNCHANGED call
        /\ (\A d \in Calls : pc'[d] = "unborn" <=> pc[d] = "unborn")
        /\ (\A d \in Calls \ {c} : state'[d] = state[d])
    BY <1>18 DEF Write, Deposit
  <2> QED BY <1>0, <2>1, <2>2
<1> QED BY <1>1, <1>2, <1>3, <1>4, <1>5, <1>6, <1>7, <1>8, <1>9, <1>9a, <1>10, <1>11, <1>12, <1>13, <1>14, <1>15, <1>16, <1>17, <1>18 DEF Progress

(* So does a step that changes nothing. *)
LEMMA StutterTyped == Typed /\ UNCHANGED vars => Typed'
  BY DEF Typed, TypeOK, Registered, vars

(* A call is registered as what it is before it takes a step. *)
LEMMA TypedAlways == Spec => []Typed
<1>1. Typed /\ [Next]_vars => Typed'
  BY BeginTyped, ProgressTyped, StutterTyped DEF Next, Finished
<1> QED BY <1>1, InitTyped, PTL DEF Spec

(* EdgeCall's variables keep their types. *)
THEOREM TypeCorrect == Spec => []TypeOK
<1>1. Typed => TypeOK
  BY DEF Typed
<1> QED BY <1>1, TypedAlways, PTL

-----------------------------------------------------------------------------
(* EDGE_CALL is a stack.                                                   *)

(* A call runs inside a callable of its caller's, and began where its      *)
(* caller's state was found.                                               *)
Nested ==
    \A c \in Calls : Live(c) =>
        IF call[c].parent = None THEN token[c] = None
        ELSE pc[call[c].parent] \in UserCode /\ token[c] = Env(call[c].parent)

(* One call at a time has control of a task. *)
OneOnTop ==
    \A c, d \in Calls :
        Live(c) /\ Live(d) /\ OnTop(c) /\ OnTop(d) /\ Task(c) = Task(d) => c = d

(* And EDGE_CALL there is its own, or what it was once it has left. *)
TopHolds ==
    \A c \in Calls : Live(c) /\ OnTop(c) =>
        edgeCall[Task(c)] = IF pc[c] = "answer" THEN token[c] ELSE Env(c)

Stacked == Nested /\ OneOnTop /\ TopHolds /\ IdleTaskIsClean

(* A step of c that neither enters nor leaves its edge state: c stays      *)
(* live, and goes on from a callable of the author's only in control.      *)
LocalStep(c) ==
    /\ UNCHANGED context
    /\ \A d \in Calls \ {c} : pc'[d] = pc[d]
    /\ pc[c] \notin {"unborn", "leave", "answer", "done"}
    /\ pc'[c] \notin {"unborn", "answer", "done"}
    /\ pc[c] \in UserCode => pc'[c] = pc[c] \/ InControl(c)

(* Every step of a call but its last two is local. *)
LEMMA StepsAreLocal ==
  ASSUME NEW c \in Calls, Typed, Progress(c) \/ Write(c), ~Leave(c), ~Answer(c)
  PROVE  LocalStep(c)
<1>0. pc \in [Calls -> Stages]
  BY DEF Typed, TypeOK
<1> USE <1>0 DEF LocalStep, UserCode, Goto, context
<1>1. CASE RouteAuthorValues(c)
  BY <1>1 DEF RouteAuthorValues
<1>2. CASE ResolveTarget(c)
  BY <1>2 DEF ResolveTarget
<1>3. CASE TargetMissing(c)
  BY <1>3 DEF TargetMissing
<1>4. CASE AskGuard(c)
  BY <1>4 DEF AskGuard, Verdict
<1>5. CASE ReadInput(c)
  BY <1>5 DEF ReadInput
<1>6. CASE CheckArguments(c)
  BY <1>6 DEF CheckArguments
<1>7. CASE NoTarget(c)
  BY <1>7 DEF NoTarget
<1>8. CASE Select(c)
  BY <1>8 DEF Select
<1>9. CASE SelectMissing(c)
  BY <1>9 DEF SelectMissing
<1>9a. CASE SelectNothing(c)
  BY <1>9a DEF SelectNothing
<1>10. CASE CallGuard(c)
  BY <1>10 DEF CallGuard
<1>11. CASE Validate(c)
  BY <1>11 DEF Validate
<1>12. CASE Preconditions(c)
  BY <1>12 DEF Preconditions
<1>13. CASE Return(c)
  BY <1>13 DEF Return
<1>14. CASE Reread(c)
  BY <1>14 DEF Reread
<1>15. CASE Raise(c)
  BY <1>15 DEF Raise
<1>16. CASE Write(c)
  BY <1>16 DEF Write
<1> QED BY <1>1, <1>2, <1>3, <1>4, <1>5, <1>6, <1>7, <1>8, <1>9, <1>9a, <1>10, <1>11, <1>12, <1>13, <1>14, <1>15, <1>16 DEF Progress

(* c has control of its task where it is not inside a callable's own code. *)
LEMMA OnTopOutsideUserCode ==
  ASSUME Stacked, NEW c \in Calls, c # None, pc[c] \notin UserCode
  PROVE  OnTop(c) /\ InControl(c)
  BY DEF Stacked, Nested, OnTop, InControl

(* A local step keeps the stack. *)
LEMMA LocalStacked ==
  ASSUME Typed, Stacked, NEW c \in Calls, LocalStep(c) PROVE Stacked'
<1> USE CallAssumption
<1>1. \A d \in Calls : (Live(d))' <=> Live(d)
  BY DEF LocalStep, Live
<1>2. \A d \in Calls : (OnTop(d))' <=> OnTop(d)
  BY <1>1 DEF LocalStep, OnTop, Task, context
<1>3. Nested'
  <2> SUFFICES ASSUME NEW d \in Calls, Live(d)
               PROVE  IF call[d].parent = None THEN token[d] = None
                      ELSE pc'[call[d].parent] \in UserCode /\ token[d] = Env(call[d].parent)
    BY <1>1 DEF Nested, Env, IsEdge, LocalStep, context
  <2>1. CASE call[d].parent = None
    BY <2>1 DEF Stacked, Nested
  <2>2. CASE call[d].parent # None /\ call[d].parent # c
    <3>1. call[d].parent \in Calls
      BY <2>2 DEF Typed, TypeOK
    <3> QED BY <2>2, <3>1 DEF Stacked, Nested, LocalStep
  <2>3. CASE call[d].parent # None /\ call[d].parent = c
    BY <2>3 DEF Stacked, Nested, LocalStep, InControl
  <2> QED BY <2>1, <2>2, <2>3
<1>4. OneOnTop'
  BY <1>1, <1>2 DEF Stacked, OneOnTop, LocalStep, context, Task
<1>5. TopHolds'
  <2>1. \A d \in Calls : Live(d) => (pc'[d] = "answer" <=> pc[d] = "answer")
    BY DEF LocalStep
  <2> QED BY <1>1, <1>2, <2>1 DEF Stacked, TopHolds, LocalStep, context, Task, Env, IsEdge
<1>6. IdleTaskIsClean'
  BY <1>1 DEF Stacked, IdleTaskIsClean, Idle, LocalStep, context, Task
<1> QED BY <1>3, <1>4, <1>5, <1>6 DEF Stacked

(* Leaving puts back what EDGE_CALL was, in a task no other call controls. *)
LEMMA LeaveStacked ==
  ASSUME Typed, Stacked, NEW c \in Calls, Leave(c) PROVE Stacked'
<1> USE CallAssumption
<1>0. /\ pc[c] = "leave" /\ pc' = [pc EXCEPT ![c] = "answer"]
      /\ UNCHANGED <<call, token>> /\ pc \in [Calls -> Stages]
      /\ edgeCall \in [Tasks -> Calls \cup {None}] /\ Task(c) \in Tasks
  BY DEF Leave, Goto, Typed, TypeOK, Registered, Task
<1>1. \A d \in Calls : (Live(d))' <=> Live(d)
  BY <1>0 DEF Live
<1>2. \A d \in Calls : (OnTop(d))' <=> OnTop(d)
  BY <1>0, <1>1 DEF OnTop, Task
<1>3. Nested'
  <2> SUFFICES ASSUME NEW d \in Calls, Live(d)
               PROVE  IF call[d].parent = None THEN token[d] = None
                      ELSE pc'[call[d].parent] \in UserCode /\ token[d] = Env(call[d].parent)
    BY <1>0, <1>1 DEF Nested, Env, IsEdge
  <2>1. call[d].parent # c
    BY <1>0 DEF Stacked, Nested, UserCode
  <2> QED BY <1>0, <2>1 DEF Stacked, Nested, Typed, TypeOK
<1>4. OneOnTop'
  BY <1>0, <1>1, <1>2 DEF Stacked, OneOnTop, Task
<1>5. OnTop(c) /\ Live(c)
  BY <1>0, OnTopOutsideUserCode DEF UserCode, Live
<1>6. TopHolds'
  <2> SUFFICES ASSUME NEW d \in Calls, Live(d), OnTop(d)
               PROVE  edgeCall'[Task(d)] = IF pc'[d] = "answer" THEN token[d] ELSE Env(d)
    BY <1>0, <1>1, <1>2 DEF TopHolds, Env, IsEdge, Task
  <2>1. CASE d = c
    <3>1. edgeCall[Task(c)] = Env(c)
      BY <1>0, <1>5 DEF Stacked, TopHolds
    <3> QED BY <1>0, <2>1, <3>1 DEF Leave, Env
  <2>2. CASE d # c
    <3>1. Task(d) # Task(c)
      BY <2>2, <1>5 DEF Stacked, OneOnTop
    <3>2. edgeCall'[Task(d)] = edgeCall[Task(d)]
      BY <3>1, <1>0 DEF Leave, Typed, Registered, Task, Live
    <3>3. edgeCall[Task(d)] = IF pc[d] = "answer" THEN token[d] ELSE Env(d)
      BY DEF Stacked, TopHolds
    <3> QED BY <1>0, <2>2, <3>2, <3>3
  <2> QED BY <2>1, <2>2
<1>7. IdleTaskIsClean'
  <2> SUFFICES ASSUME NEW t \in Tasks, Idle(t) PROVE edgeCall'[t] = None
    BY <1>0, <1>1 DEF IdleTaskIsClean, Idle, Task
  <2>1. t # Task(c)
    BY <1>5 DEF Idle
  <2> QED BY <2>1, <1>0 DEF Leave, Stacked, IdleTaskIsClean
<1> QED BY <1>3, <1>4, <1>6, <1>7 DEF Stacked

(* A call that is over gives its task back to its caller, or leaves it     *)
(* clean.                                                                  *)
LEMMA AnswerStacked ==
  ASSUME Typed, Stacked, NEW c \in Calls, Answer(c) PROVE Stacked'
<1> USE CallAssumption
<1>0. /\ pc[c] = "answer" /\ pc' = [pc EXCEPT ![c] = "done"]
      /\ UNCHANGED <<call, token>> /\ pc \in [Calls -> Stages]
      /\ edgeCall \in [Tasks -> Calls \cup {None}] /\ Task(c) \in Tasks
      /\ call[c].parent \in Calls \cup {None}
  BY DEF Answer, Goto, Typed, TypeOK, Registered, Task
<1>1. \A d \in Calls : (Live(d))' <=> Live(d) /\ d # c
  BY <1>0 DEF Live
<1>2. OnTop(c) /\ Live(c)
  BY <1>0, OnTopOutsideUserCode DEF UserCode, Live
<1>3. edgeCall[Task(c)] = token[c]
  BY <1>0, <1>2 DEF Stacked, TopHolds
<1>4. \A d \in Calls : (OnTop(d))' =>
          OnTop(d) \/ (call[c].parent = d /\ Task(c) = Task(d))
  BY <1>0, <1>1 DEF OnTop, Task
<1>5. Nested'
  <2> SUFFICES ASSUME NEW d \in Calls, Live(d), d # c
               PROVE  IF call[d].parent = None THEN token[d] = None
                      ELSE pc'[call[d].parent] \in UserCode /\ token[d] = Env(call[d].parent)
    BY <1>0, <1>1 DEF Nested, Env, IsEdge
  <2>1. call[d].parent # c
    BY <1>0 DEF Stacked, Nested, UserCode
  <2> QED BY <1>0, <2>1 DEF Stacked, Nested, Typed, TypeOK
<1>6. OneOnTop'
  <2> SUFFICES ASSUME NEW d \in Calls, NEW e \in Calls, Live(d), Live(e), d # c, e # c,
                      (OnTop(d))', (OnTop(e))', Task(d) = Task(e)
               PROVE  d = e
    BY <1>0, <1>1 DEF OneOnTop, Task
  <2>1. Task(d) = Task(c) => call[c].parent = d
    BY <1>2, <1>4 DEF Stacked, OneOnTop
  <2>2. Task(e) = Task(c) => call[c].parent = e
    BY <1>2, <1>4 DEF Stacked, OneOnTop
  <2> QED BY <1>4, <2>1, <2>2 DEF Stacked, OneOnTop
<1>7. TopHolds'
  <2> SUFFICES ASSUME NEW d \in Calls, Live(d), d # c, (OnTop(d))'
               PROVE  edgeCall'[Task(d)] = IF pc[d] = "answer" THEN token[d] ELSE Env(d)
    BY <1>0, <1>1 DEF TopHolds, Env, IsEdge, Task
  <2>1. CASE Task(d) # Task(c)
    <3>1. OnTop(d)
      BY <1>4, <2>1
    <3>2. edgeCall'[Task(d)] = edgeCall[Task(d)]
      BY <2>1, <1>0 DEF Answer, Closed, Typed, Registered, Task, Live
    <3> QED BY <3>1, <3>2 DEF Stacked, TopHolds
  <2>2. CASE Task(d) = Task(c)
    <3>1. call[c].parent = d /\ d # None
      BY <1>2, <1>4, <2>2 DEF Stacked, OneOnTop
    <3>2. pc[d] \in UserCode /\ token[c] = Env(d)
      BY <1>2, <3>1 DEF Stacked, Nested
    <3>3. edgeCall' = edgeCall
      BY <3>1, <2>2 DEF Answer, Closed, Spawned
    <3> QED BY <1>3, <2>2, <3>2, <3>3 DEF UserCode
  <2> QED BY <2>1, <2>2
<1>8. IdleTaskIsClean'
  <2> SUFFICES ASSUME NEW t \in Tasks, \A d \in Calls : Task(d) = t /\ Live(d) => d = c
               PROVE  edgeCall'[t] = None
    BY <1>0, <1>1 DEF IdleTaskIsClean, Idle, Task
  <2>1. CASE t # Task(c)
    BY <2>1, <1>0 DEF Answer, Closed, Stacked, IdleTaskIsClean, Idle
  <2>2. CASE t = Task(c) /\ call[c].parent = None
    <3>1. token[c] = None
      BY <1>2, <2>2 DEF Stacked, Nested
    <3>2. edgeCall' = edgeCall
      BY <2>2 DEF Answer, Closed, Spawned
    <3> QED BY <1>3, <2>2, <3>1, <3>2
  <2>3. CASE t = Task(c) /\ call[c].parent # None
    <3>1. call[c].parent \in Calls /\ Live(call[c].parent) /\ call[c].parent # c
      BY <1>0, <1>2, <2>3 DEF Stacked, Nested, UserCode, Live
    <3>2. Spawned(c)
      BY <3>1, <2>3 DEF Spawned
    <3> QED BY <1>0, <2>3, <3>2 DEF Answer, Closed
  <2> QED BY <2>1, <2>2, <2>3
<1> QED BY <1>5, <1>6, <1>7, <1>8 DEF Stacked

(* What beginning any call does to the stack: c begins in task t, made by  *)
(* p, where p and nobody else had control of it, or nobody.                *)
Began(c, p, t) ==
    /\ MayCall(c, p, t)
    /\ pc' = [pc EXCEPT ![c] = pc'[c]] /\ pc'[c] \notin {"unborn", "answer", "done"}
    /\ \A d \in Calls \ {c} : call'[d] = call[d] /\ token'[d] = token[d]
    /\ call'[c].parent = p /\ call'[c].task = t
    /\ token'[c] = Inherited(p, t)
    /\ \A u \in Tasks \ {t} : edgeCall'[u] = edgeCall[u]
    /\ edgeCall'[t] = IF call'[c].route = "edge" THEN c ELSE token'[c]
    /\ Inherited(p, t) = IF p = None THEN None ELSE Env(p)

(* An edge call begins so. *)
LEMMA BeginEdgeBegan ==
  ASSUME Typed, Stacked, NEW c \in Calls, NEW p \in Calls \cup {None}, NEW s \in Specs,
         NEW t \in Tasks, NEW o \in Origins, NEW g \in BOOLEAN, BeginEdge(c, p, t, s, o, g)
  PROVE  Began(c, p, t)
<1> USE CallAssumption
<1>1. Inherited(p, t) = IF p = None THEN None ELSE Env(p)
  <2>1. CASE p = None
    <3>1. Idle(t)
      BY <2>1 DEF BeginEdge, MayCall
    <3> QED BY <2>1, <3>1 DEF Inherited, Stacked, IdleTaskIsClean
  <2>2. CASE p # None
    <3>1. Live(p) /\ OnTop(p) /\ pc[p] # "answer"
      BY <2>2 DEF BeginEdge, MayCall, UserCode, Live
    <3> QED BY <2>2, <3>1 DEF Inherited, Stacked, TopHolds
  <2> QED BY <2>1, <2>2
<1>2. /\ pc \in [Calls -> Stages] /\ edgeCall \in [Tasks -> Calls \cup {None}]
      /\ call \in [Calls -> [route : {"none", "edge", "kernel"},
                              spec : Specs \cup {None},
                              origin : Origins \cup {"none", "offline"}, guarded : BOOLEAN,
                              parent : Calls \cup {None}, task : Tasks \cup {None},
                              block : Calls \cup {None}, blocks : SUBSET Calls]]
      /\ token \in [Calls -> Calls \cup {None}]
  BY DEF Typed, TypeOK
<1> QED BY <1>1, <1>2 DEF BeginEdge, Began, Goto, FirstStage

(* And a kernel call, in its caller's task. *)
LEMMA BeginKernelBegan ==
  ASSUME Typed, Stacked, NEW c \in Calls, NEW p \in Calls, NEW s \in Specs, BeginKernel(c, p, s)
  PROVE  Began(c, p, Task(p)) /\ Task(p) \in Tasks
<1> USE CallAssumption
<1>0. Live(p) /\ OnTop(p) /\ pc[p] # "answer" /\ p # None
  BY DEF BeginKernel, MayCall, UserCode, Live
<1>1. edgeCall[Task(p)] = Env(p) /\ Task(p) \in Tasks
  BY <1>0 DEF Stacked, TopHolds, Typed, Registered, Task, Live
<1>2. Inherited(p, Task(p)) = IF p = None THEN None ELSE Env(p)
  BY <1>0, <1>1 DEF Inherited
<1>3. /\ pc \in [Calls -> Stages] /\ edgeCall \in [Tasks -> Calls \cup {None}]
      /\ call \in [Calls -> [route : {"none", "edge", "kernel"},
                              spec : Specs \cup {None},
                              origin : Origins \cup {"none", "offline"}, guarded : BOOLEAN,
                              parent : Calls \cup {None}, task : Tasks \cup {None},
                              block : Calls \cup {None}, blocks : SUBSET Calls]]
      /\ token \in [Calls -> Calls \cup {None}]
  BY DEF Typed, TypeOK
<1> QED BY <1>0, <1>1, <1>2, <1>3 DEF BeginKernel, Began, Goto, Inherited

(* A call that begins so keeps the stack. *)
LEMMA BeganStacked ==
  ASSUME Typed, Stacked, NEW c \in Calls, NEW p \in Calls \cup {None}, NEW t \in Tasks,
         Began(c, p, t)
  PROVE  Stacked'
<1> USE CallAssumption
<1>0. /\ pc[c] = "unborn" /\ pc \in [Calls -> Stages] /\ p # c
      /\ p # None => pc[p] \in UserCode /\ OnTop(p) /\ Live(p)
      /\ p = None \/ Task(p) # t => Idle(t)
      /\ \A d \in Calls \ {c} : pc'[d] = pc[d]
  BY DEF Began, MayCall, Typed, TypeOK, UserCode, Live
<1>1. \A d \in Calls : (Live(d))' <=> Live(d) \/ d = c
  BY <1>0 DEF Began, Live
<1>2. \A d \in Calls : Live(d) =>
          /\ d # c /\ call[d].parent # c /\ Task(d) \in Tasks
          /\ call[d].parent \in Calls \cup {None}
  BY <1>0 DEF Live, Typed, TypeOK, Registered, Task
<1>3. \A d \in Calls : (Task(d))' = (IF d = c THEN t ELSE Task(d))
                        /\ (Env(d))' = (IF d = c THEN (Env(c))' ELSE Env(d))
  BY DEF Began, Task, Env, IsEdge
<1>4. \A d \in Calls \ {c} : (OnTop(d))' <=> OnTop(d) /\ ~(d = p /\ Task(p) = t)
  <2> SUFFICES ASSUME NEW d \in Calls \ {c}
               PROVE  (OnTop(d))' <=> OnTop(d) /\ ~(d = p /\ Task(p) = t)
    OBVIOUS
  <2>1. (OnTop(d))' <=> \A e \in Calls :
            call'[e].parent = d /\ call'[e].task = call[d].task => ~(Live(e))'
    BY DEF OnTop, Task, Began
  <2>2. OnTop(d) <=> \A e \in Calls \ {c} :
            call[e].parent = d /\ call[e].task = call[d].task => ~Live(e)
    BY <1>0 DEF OnTop, Task, Live
  <2> QED BY <2>1, <2>2, <1>1 DEF Began, Task
<1>5. \A d \in Calls : Live(d) /\ (OnTop(d))' => Task(d) # t
  BY <1>0, <1>2, <1>4 DEF Stacked, OneOnTop, Idle
<1>6. Nested'
  <2> DEFINE After(q) == IF call'[q].route = "edge" THEN q ELSE token'[q]
  <2> SUFFICES ASSUME NEW d \in Calls, Live(d) \/ d = c
               PROVE  IF call'[d].parent = None THEN token'[d] = None
                      ELSE pc'[call'[d].parent] \in UserCode
                           /\ token'[d] = After(call'[d].parent)
    BY <1>1 DEF Nested, Env, IsEdge
  <2>0. \A q \in Calls \ {c} : After(q) = Env(q)
    BY DEF Began, Env, IsEdge
  <2>1. CASE d = c
    BY <2>0, <2>1, <1>0 DEF Began
  <2>2. CASE d # c
    <3>1. call'[d] = call[d] /\ token'[d] = token[d] /\ Live(d)
      BY <2>2 DEF Began
    <3>2. CASE call[d].parent = None
      BY <3>1, <3>2 DEF Stacked, Nested
    <3>3. CASE call[d].parent # None
      <4>1. call[d].parent \in Calls \ {c}
        BY <3>1, <3>3, <1>2
      <4> QED BY <2>0, <3>1, <3>3, <4>1, <1>0 DEF Stacked, Nested
    <3> QED BY <3>2, <3>3
  <2> QED BY <2>1, <2>2
<1>7. OneOnTop'
  <2> SUFFICES ASSUME NEW d \in Calls, NEW e \in Calls, (Live(d))', (Live(e))',
                      (OnTop(d))', (OnTop(e))', (Task(d))' = (Task(e))'
               PROVE  d = e
    BY DEF OneOnTop
  <2> QED BY <1>1, <1>3, <1>4, <1>5 DEF Stacked, OneOnTop
<1>8. TopHolds'
  <2> SUFFICES ASSUME NEW d \in Calls, (Live(d))', (OnTop(d))'
               PROVE  edgeCall'[(Task(d))'] = IF pc'[d] = "answer" THEN token'[d] ELSE (Env(d))'
    BY DEF TopHolds
  <2>1. CASE d = c
    BY <2>1, <1>3 DEF Began, Env, IsEdge
  <2>2. CASE d # c
    <3>1. Live(d) /\ OnTop(d) /\ Task(d) \in Tasks \ {t}
      BY <2>2, <1>1, <1>2, <1>4, <1>5
    <3>2. edgeCall[Task(d)] = IF pc[d] = "answer" THEN token[d] ELSE Env(d)
      BY <3>1 DEF Stacked, TopHolds
    <3> QED BY <2>2, <3>1, <3>2, <1>0, <1>3 DEF Began
  <2> QED BY <2>1, <2>2
<1>9. IdleTaskIsClean'
  <2> SUFFICES ASSUME NEW u \in Tasks, (Idle(u))' PROVE edgeCall'[u] = None
    BY DEF IdleTaskIsClean
  <2>1. u # t
    BY <1>1, <1>3 DEF Idle
  <2>2. Idle(u)
    BY <1>1, <1>2, <1>3 DEF Idle
  <2> QED BY <2>1, <2>2 DEF Began, Stacked, IdleTaskIsClean
<1> QED BY <1>6, <1>7, <1>8, <1>9 DEF Stacked

(* The stack is empty at first. *)
LEMMA InitStacked == Init => Stacked
  BY DEF Init, Stacked, Nested, OneOnTop, TopHolds, IdleTaskIsClean, Live

(* A step that changes nothing keeps it. *)
LEMMA StutterStacked == Stacked /\ UNCHANGED vars => Stacked'
  BY DEF Stacked, Nested, OneOnTop, TopHolds, IdleTaskIsClean, Live, OnTop, Idle,
         Task, Env, IsEdge, vars

(* Every step keeps it. *)
LEMMA NextStacked == Typed /\ Stacked /\ [Next]_vars => Stacked'
<1> SUFFICES ASSUME Typed, Stacked, [Next]_vars PROVE Stacked'
  OBVIOUS
<1>1. CASE Begin
  BY <1>1, BeginEdgeBegan, BeginKernelBegan, BeganStacked DEF Begin
<1>2. ASSUME NEW c \in Calls, Progress(c) \/ Write(c) PROVE Stacked'
  BY <1>2, StepsAreLocal, LocalStacked, LeaveStacked, AnswerStacked
<1> QED BY <1>1, <1>2, StutterStacked DEF Next, Finished

LEMMA StackedAlways == Spec => []Stacked
  BY InitStacked, NextStacked, TypedAlways, PTL DEF Spec

(* While a call's own code runs, EDGE_CALL holds the innermost edge call   *)
(* it is part of, whichever calls it made and however they ended.          *)
THEOREM StackDiscipline == Spec => []EdgeCallIsInnermost
<1>1. Stacked => EdgeCallIsInnermost
  BY DEF Stacked, TopHolds, EdgeCallIsInnermost
<1> QED BY <1>1, StackedAlways, PTL

(* A task no call runs in carries nothing into the next request            *)
(* (edge_call's finally).                                                  *)
THEOREM IdleHolds == Spec => []IdleTaskIsClean
<1>1. Stacked => IdleTaskIsClean
  BY DEF Stacked
<1> QED BY <1>1, StackedAlways, PTL

-----------------------------------------------------------------------------
(* What a call finds in EDGE_CALL is its own.                              *)

(* The stages a call of each kind passes. *)
Path(c) ==
    IF Spec_(c).kind = "selector"
    THEN {"author", "kernel", "select", "guard_row", "preconditions",
          "leave", "answer", "done"}
    ELSE Stages \ ({"unborn", "select", "guard_row"}
                    \cup (IF Spec_(c).many THEN {"lookup"} ELSE {}))

(* The stages up to the one that asks its guard. *)
Awaiting(c) ==
    pc[c] \in IF Spec_(c).kind = "selector"
              THEN {"author", "kernel", "select", "guard_row"}
              ELSE IF Spec_(c).many THEN {"input", "author", "guard"}
              ELSE {"author", "lookup", "guard"}

Ended == {"leave", "answer", "done"}

(* What each call made has been asked, seated and handed. *)
OwnState(c) ==
    IF pc[c] = "unborn" THEN asked[c] = NotAsked /\ ~served[c]
    ELSE /\ pc[c] \in Path(c)
         /\ pc[c] = "guard_row" => call[c].guarded
         /\ state[c].guard = (call[c].guarded /\ Spec_(c).kind = "selector")
         /\ call[c].guarded =>
               /\ Awaiting(c) => asked[c] = NotAsked
               /\ (~Awaiting(c) /\ pc[c] \notin Ended) \/ served[c] =>
                      asked[c] = [times |-> 1, by |-> c, on |-> target[c]]
         /\ served[c] => pc[c] \in {"reread"} \cup Ended
         /\ pc[c] \in {"service", "reread"} \/ served[c] =>
               seat[c] = IF IsEdge(c) THEN c ELSE None

Own == \A c \in Calls : OwnState(c)

(* A step of c moves nothing of another call's but EDGE_CALL and a block. *)
LEMMA OthersUntouched ==
  ASSUME NEW c \in Calls, Typed, Progress(c) \/ Write(c)
  PROVE  /\ UNCHANGED call /\ UNCHANGED token
         /\ \A d \in Calls \ {c} :
               /\ pc'[d] = pc[d] /\ state'[d] = state[d] /\ asked'[d] = asked[d]
               /\ target'[d] = target[d] /\ served'[d] = served[d] /\ seat'[d] = seat[d]
               /\ bound'[d] = bound[d] /\ filtered'[d] = filtered[d]
<1>0. /\ pc \in [Calls -> Stages] /\ served \in [Calls -> BOOLEAN]
      /\ DOMAIN state = Calls /\ DOMAIN asked = Calls /\ DOMAIN target = Calls
      /\ DOMAIN seat = Calls /\ DOMAIN bound = Calls /\ DOMAIN filtered = Calls
  BY DEF Typed, TypeOK
<1> USE <1>0 DEF Goto, context, store, heard
<1>1. CASE RouteAuthorValues(c)
  BY <1>1 DEF RouteAuthorValues
<1>2. CASE ResolveTarget(c)
  BY <1>2 DEF ResolveTarget
<1>3. CASE TargetMissing(c)
  BY <1>3 DEF TargetMissing
<1>4. CASE AskGuard(c)
  BY <1>4 DEF AskGuard, Verdict, Asking
<1>5. CASE ReadInput(c)
  BY <1>5 DEF ReadInput
<1>6. CASE CheckArguments(c)
  BY <1>6 DEF CheckArguments
<1>7. CASE NoTarget(c)
  BY <1>7 DEF NoTarget
<1>8. CASE Select(c)
  BY <1>8 DEF Select
<1>9. CASE SelectMissing(c)
  BY <1>9 DEF SelectMissing
<1>9a. CASE SelectNothing(c)
  BY <1>9a, CallAssumption DEF SelectNothing, OwnState, Awaiting
<1>10. CASE CallGuard(c)
  BY <1>10 DEF CallGuard, Asking
<1>11. CASE Validate(c)
  BY <1>11 DEF Validate
<1>12. CASE Preconditions(c)
  BY <1>12 DEF Preconditions
<1>13. CASE Return(c)
  BY <1>13 DEF Return
<1>14. CASE Reread(c)
  BY <1>14 DEF Reread
<1>15. CASE Raise(c)
  BY <1>15 DEF Raise
<1>16. CASE Leave(c)
  BY <1>16 DEF Leave
<1>17. CASE Answer(c)
  BY <1>17 DEF Answer
<1>18. CASE Write(c)
  BY <1>18 DEF Write
<1> QED BY <1>1, <1>2, <1>3, <1>4, <1>5, <1>6, <1>7, <1>8, <1>9, <1>9a, <1>10, <1>11, <1>12, <1>13, <1>14, <1>15, <1>16, <1>17, <1>18 DEF Progress

(* Where c has control of its task, what it finds in EDGE_CALL is its Env. *)
LEMMA FindsItsOwn ==
  ASSUME Stacked, NEW c \in Calls, InControl(c), pc[c] \notin {"unborn", "answer", "done"}
  PROVE  edgeCall[Task(c)] = Env(c)
<1>1. OnTop(c)
  BY DEF OnTop, InControl
<1> QED BY <1>1 DEF Stacked, TopHolds, Live

(* Each step of c keeps what it has been asked, seated and handed its own. *)
LEMMA OwnKept ==
  ASSUME Typed, Stacked, Own, NEW c \in Calls, Progress(c) \/ Write(c) PROVE OwnState(c)'
<1>0. /\ pc \in [Calls -> Stages] /\ served \in [Calls -> BOOLEAN]
      /\ DOMAIN state = Calls /\ DOMAIN asked = Calls /\ DOMAIN target = Calls
      /\ DOMAIN seat = Calls /\ call[c].guarded \in BOOLEAN
      /\ asked[c] = NotAsked => asked[c].times = 0
      /\ state[c] \in [guard : BOOLEAN, filter : BOOLEAN, validator : Validators]
  BY DEF Typed, TypeOK, NotAsked
<1>a. OwnState(c) /\ UNCHANGED call
  BY OthersUntouched DEF Own
<1>b. pc[c] # "unborn" => Spec_(c).kind \in {"service", "selector"} /\ Spec_(c).many \in BOOLEAN
  BY CallAssumption DEF Typed, Registered, Spec_, Declarations
<1>c. pc[c] # "unborn" => (call[c].guarded => IsEdge(c))
  BY DEF Typed, Registered, IsEdge
<1> USE <1>0, <1>a, <1>b, <1>c DEF Goto, context, store, heard, OwnState, Path, Awaiting, Ended,
        Stages, Spec_, IsEdge
<1>1. CASE RouteAuthorValues(c)
  BY <1>1 DEF RouteAuthorValues
<1>2. CASE ResolveTarget(c)
  BY <1>2 DEF ResolveTarget
<1>3. CASE TargetMissing(c)
  BY <1>3 DEF TargetMissing
<1>4. CASE AskGuard(c)
  BY <1>4 DEF AskGuard, Verdict, Asking
<1>5. CASE ReadInput(c)
  BY <1>5 DEF ReadInput
<1>6. CASE CheckArguments(c)
  BY <1>6 DEF CheckArguments
<1>7. CASE NoTarget(c)
  BY <1>7 DEF NoTarget
<1>8. CASE Select(c)
  BY <1>8 DEF Select
<1>9. CASE SelectMissing(c)
  BY <1>9 DEF SelectMissing
<1>9a. CASE SelectNothing(c)
  BY <1>9a DEF SelectNothing
<1>10. CASE CallGuard(c)
  <2>1. edgeCall[Task(c)] = Env(c)
    BY <1>10, FindsItsOwn DEF CallGuard
  <2> QED BY <1>10, <2>1 DEF CallGuard, Asking, Env
<1>11. CASE Validate(c)
  BY <1>11 DEF Validate
<1>12. CASE Preconditions(c)
  <2>1. edgeCall[Task(c)] = Env(c)
    BY <1>12, FindsItsOwn DEF Preconditions
  <2> QED BY <1>12, <2>1 DEF Preconditions, Env
<1>13. CASE Return(c)
  BY <1>13 DEF Return
<1>14. CASE Reread(c)
  BY <1>14 DEF Reread
<1>15. CASE Raise(c)
  BY <1>15 DEF Raise
<1>16. CASE Leave(c)
  BY <1>16 DEF Leave
<1>17. CASE Answer(c)
  BY <1>17 DEF Answer
<1>18. CASE Write(c)
  BY <1>18 DEF Write
<1> QED BY <1>1, <1>2, <1>3, <1>4, <1>5, <1>6, <1>7, <1>8, <1>9, <1>9a, <1>10, <1>11, <1>12, <1>13, <1>14, <1>15, <1>16, <1>17, <1>18 DEF Progress

(* A call just made has been asked nothing. *)
LEMMA OwnBegan ==
  ASSUME Typed, Own, Begin PROVE Own'
<1> USE DEF Goto, store, heard
<1>0. /\ pc \in [Calls -> Stages] /\ served \in [Calls -> BOOLEAN]
      /\ DOMAIN state = Calls /\ DOMAIN call = Calls /\ CallAssumption
  BY CallAssumption DEF Typed, TypeOK
<1>1. PICK c \in Calls, p \in Calls \cup {None}, s \in Specs :
          \/ \E t \in Tasks, o \in Origins, g \in BOOLEAN : BeginEdge(c, p, t, s, o, g)
          \/ p # None /\ BeginKernel(c, p, s)
  BY DEF Begin
<1>2. /\ pc[c] = "unborn"
      /\ \A d \in Calls \ {c} : pc'[d] = pc[d] /\ state'[d] = state[d] /\ call'[d] = call[d]
      /\ UNCHANGED <<asked, target, served, seat>>
  BY <1>0, <1>1 DEF BeginEdge, BeginKernel, MayCall
<1>3. ASSUME NEW d \in Calls \ {c} PROVE OwnState(d)'
  BY <1>2 DEF Own, OwnState, Path, Awaiting, Spec_, IsEdge
<1>4. OwnState(c)'
  <2>1. asked[c] = NotAsked /\ ~served[c] /\ state[c] = EmptyState
    BY <1>2 DEF Own, OwnState, Typed, Registered
  <2>2. CASE \E t \in Tasks, o \in Origins, g \in BOOLEAN : BeginEdge(c, p, t, s, o, g)
    <3>1. PICK t \in Tasks, o \in Origins, g \in BOOLEAN : BeginEdge(c, p, t, s, o, g)
      BY <2>2
    <3>2. call'[c].spec = s /\ call'[c].guarded = g /\ pc'[c] = FirstStage(s)
      BY <1>0, <3>1 DEF BeginEdge
    <3>3. state'[c].guard = (g /\ Decl[s].kind = "selector")
      BY <1>0, <3>1 DEF BeginEdge, EdgeState, EmptyState
    <3>4. Decl[s].kind \in {"service", "selector"} /\ Decl[s].many \in BOOLEAN
      BY <1>0 DEF CallAssumption, Declarations
    <3>5. (Spec_(c))' = Decl[s] /\ asked'[c] = NotAsked /\ ~served'[c]
      BY <1>2, <2>1, <3>2 DEF Spec_
    <3>6. (Awaiting(c))' /\ pc'[c] \in (Path(c))' /\ pc'[c] \in {"input", "author"}
      BY <3>2, <3>4, <3>5 DEF Path, Awaiting, FirstStage, Stages
    <3> QED BY <3>2, <3>3, <3>5, <3>6 DEF OwnState, Ended
  <2>3. CASE p # None /\ BeginKernel(c, p, s)
    <3>1. call'[c].spec = s /\ call'[c].guarded = FALSE /\ pc'[c] = "kernel"
          /\ state'[c] = EmptyState
      BY <1>0, <2>1, <2>3 DEF BeginKernel
    <3>2. asked'[c] = NotAsked /\ ~served'[c] /\ pc'[c] \in (Path(c))'
      BY <1>2, <2>1, <3>1 DEF Path, Stages
    <3>3. state'[c].guard = FALSE
      BY <3>1 DEF EmptyState
    <3>4. state'[c].guard = (call'[c].guarded /\ (Spec_(c))'.kind = "selector")
      BY <3>1, <3>3
    <3> QED BY <3>1, <3>2, <3>4 DEF OwnState, Ended
  <2> QED BY <1>1, <2>2, <2>3
<1> QED BY <1>3, <1>4 DEF Own

(* Every step keeps it. *)
LEMMA NextOwn == Typed /\ Stacked /\ Own /\ [Next]_vars => Own'
<1> SUFFICES ASSUME Typed, Stacked, Own, [Next]_vars PROVE Own'
  OBVIOUS
<1>1. ASSUME NEW c \in Calls, Progress(c) \/ Write(c) PROVE Own'
  <2>1. ASSUME NEW d \in Calls \ {c} PROVE OwnState(d)'
    <3>1. /\ pc'[d] = pc[d] /\ state'[d] = state[d] /\ asked'[d] = asked[d]
          /\ target'[d] = target[d] /\ served'[d] = served[d] /\ seat'[d] = seat[d]
          /\ call' = call /\ OwnState(d)
      BY <1>1, OthersUntouched DEF Own
    <3> QED BY <3>1 DEF OwnState, Path, Awaiting, Spec_, IsEdge
  <2> QED BY <1>1, <2>1, OwnKept DEF Own
<1>2. CASE UNCHANGED vars
  BY <1>2 DEF Own, OwnState, Path, Awaiting, Spec_, IsEdge, vars
<1> QED BY <1>1, <1>2, OwnBegan DEF Next, Finished

(* No call has been asked anything at first. *)
LEMMA InitOwn == Init => Own
  BY DEF Init, Own, OwnState

(* So it always holds, with the stack. *)
LEMMA OwnAlways == Spec => [](Typed /\ Stacked /\ Own)
  BY InitStacked, NextStacked, InitOwn, NextOwn, TypedAlways, PTL DEF Spec

(* A guarded call is past its guard only once that very call's guard was   *)
(* asked, once, on the very row the call acts on, whatever its lookup or   *)
(* its selector called in between (prepare_edge_call, _call_guard).        *)
THEOREM GuardHolds == Spec => []GuardedOnItsOwnTarget
<1>1. Typed /\ Own => GuardedOnItsOwnTarget
  <2> SUFFICES ASSUME Typed, Own, NEW c \in Calls, call[c].guarded, PastGuard(c)
               PROVE  asked[c] = [times |-> 1, by |-> c, on |-> target[c]]
    BY DEF GuardedOnItsOwnTarget
  <2>1. OwnState(c) /\ pc[c] # "unborn"
    BY DEF Own, OwnState, PastGuard
  <2> QED BY <2>1 DEF PastGuard, OwnState, Awaiting, Ended, Path
<1> QED BY <1>1, OwnAlways, PTL

(* The service of a call is handed the author values of that very call,    *)
(* whatever the calls made since routed (author_values).                   *)
THEOREM AuthorValuesHold == Spec => []OwnAuthorValues
<1>1. Own => OwnAuthorValues
  BY DEF Own, OwnState, OwnAuthorValues
<1> QED BY <1>1, OwnAlways, PTL

-----------------------------------------------------------------------------
(* A call answered not_found.                                              *)

Early == {"unborn", "author", "lookup", "guard", "input", "kernel", "select", "guard_row"}

MissingState(c) ==
    /\ ~call[c].guarded => asked[c] = NotAsked
    /\ pc[c] \in Early => bound[c] = None /\ ~served[c] /\ outcome[c] = "none"
    /\ outcome[c] = "not_found" =>
          pc[c] \in Ended /\ asked[c].on = None /\ bound[c] = None /\ ~served[c]
    /\ pc[c] \in {"validate", "preconditions", "service", "reread"} => outcome[c] = "none"

Missing == \A c \in Calls : MissingState(c)

(* An answer is one call's own. *)
LEMMA OutcomeUntouched ==
  ASSUME NEW c \in Calls, Typed, Progress(c) \/ Write(c)
  PROVE  \A d \in Calls \ {c} : outcome'[d] = outcome[d]
<1>0. DOMAIN outcome = Calls
  BY DEF Typed, TypeOK
<1> USE <1>0
<1>1. CASE RouteAuthorValues(c)
  BY <1>1 DEF RouteAuthorValues
<1>2. CASE ResolveTarget(c)
  BY <1>2 DEF ResolveTarget
<1>3. CASE TargetMissing(c)
  BY <1>3 DEF TargetMissing
<1>4. CASE AskGuard(c)
  BY <1>4 DEF AskGuard, Verdict
<1>5. CASE ReadInput(c)
  BY <1>5 DEF ReadInput
<1>6. CASE CheckArguments(c)
  BY <1>6 DEF CheckArguments
<1>7. CASE NoTarget(c)
  BY <1>7 DEF NoTarget
<1>8. CASE Select(c)
  BY <1>8 DEF Select
<1>9. CASE SelectMissing(c)
  BY <1>9 DEF SelectMissing
<1>9a. CASE SelectNothing(c)
  BY <1>9a DEF SelectNothing
<1>10. CASE CallGuard(c)
  BY <1>10 DEF CallGuard
<1>11. CASE Validate(c)
  BY <1>11 DEF Validate
<1>12. CASE Preconditions(c)
  BY <1>12 DEF Preconditions
<1>13. CASE Return(c)
  BY <1>13 DEF Return
<1>14. CASE Reread(c)
  BY <1>14 DEF Reread
<1>15. CASE Raise(c)
  BY <1>15 DEF Raise
<1>16. CASE Leave(c)
  BY <1>16 DEF Leave
<1>17. CASE Answer(c)
  BY <1>17 DEF Answer
<1>18. CASE Write(c)
  BY <1>18 DEF Write
<1> QED BY <1>1, <1>2, <1>3, <1>4, <1>5, <1>6, <1>7, <1>8, <1>9, <1>9a, <1>10, <1>11, <1>12, <1>13, <1>14, <1>15, <1>16, <1>17, <1>18 DEF Progress

(* Each step of c keeps that nothing ran where it was answered not_found. *)
LEMMA MissingKept ==
  ASSUME Typed, Own, Missing, NEW c \in Calls, Progress(c) \/ Write(c) PROVE MissingState(c)'
<1>0. /\ pc \in [Calls -> Stages] /\ served \in [Calls -> BOOLEAN]
      /\ DOMAIN outcome = Calls /\ DOMAIN asked = Calls /\ DOMAIN target = Calls
      /\ DOMAIN bound = Calls /\ call[c].guarded \in BOOLEAN /\ NotAsked.on = None
  BY DEF Typed, TypeOK, NotAsked
<1>a. MissingState(c) /\ OwnState(c) /\ UNCHANGED call
  BY OthersUntouched DEF Missing, Own
<1>b. pc[c] # "unborn" => Spec_(c).kind \in {"service", "selector"}
  BY CallAssumption DEF Typed, Registered, Spec_, Declarations
<1>c. pc[c] # "unborn" => (call[c].guarded => IsEdge(c))
  BY DEF Typed, Registered, IsEdge
<1> USE <1>0, <1>a, <1>b, <1>c DEF Goto, context, store, heard, MissingState, Early, Ended
<1>1. CASE RouteAuthorValues(c)
  BY <1>1 DEF RouteAuthorValues
<1>2. CASE ResolveTarget(c)
  BY <1>2 DEF ResolveTarget
<1>3. CASE TargetMissing(c)
  BY <1>3 DEF TargetMissing, OwnState, Awaiting, Path
<1>4. CASE AskGuard(c)
  BY <1>4 DEF AskGuard, Verdict, Asking
<1>5. CASE ReadInput(c)
  BY <1>5 DEF ReadInput
<1>6. CASE CheckArguments(c)
  BY <1>6 DEF CheckArguments
<1>7. CASE NoTarget(c)
  BY <1>7 DEF NoTarget, LooksUp, OwnState, Awaiting
<1>8. CASE Select(c)
  BY <1>8 DEF Select
<1>9. CASE SelectMissing(c)
  BY <1>9 DEF SelectMissing, OwnState, Awaiting, Path
<1>9a. CASE SelectNothing(c)
  BY <1>9a DEF SelectNothing, OwnState, Awaiting, Path
<1>10. CASE CallGuard(c)
  BY <1>10 DEF CallGuard, OwnState, Asking
<1>11. CASE Validate(c)
  BY <1>11 DEF Validate
<1>12. CASE Preconditions(c)
  BY <1>12 DEF Preconditions
<1>13. CASE Return(c)
  BY <1>13 DEF Return
<1>14. CASE Reread(c)
  BY <1>14 DEF Reread
<1>15. CASE Raise(c)
  BY <1>15 DEF Raise
<1>16. CASE Leave(c)
  BY <1>16 DEF Leave
<1>17. CASE Answer(c)
  BY <1>17 DEF Answer
<1>18. CASE Write(c)
  BY <1>18 DEF Write
<1> QED BY <1>1, <1>2, <1>3, <1>4, <1>5, <1>6, <1>7, <1>8, <1>9, <1>9a, <1>10, <1>11, <1>12, <1>13, <1>14, <1>15, <1>16, <1>17, <1>18 DEF Progress

(* Every step keeps it. *)
LEMMA NextMissing == Typed /\ Own /\ Missing /\ [Next]_vars => Missing'
<1> SUFFICES ASSUME Typed, Own, Missing, [Next]_vars PROVE Missing'
  OBVIOUS
<1>1. ASSUME NEW c \in Calls, Progress(c) \/ Write(c) PROVE Missing'
  <2>1. ASSUME NEW d \in Calls \ {c} PROVE MissingState(d)'
    <3>1. /\ pc'[d] = pc[d] /\ asked'[d] = asked[d] /\ served'[d] = served[d]
          /\ bound'[d] = bound[d] /\ outcome'[d] = outcome[d] /\ call' = call
          /\ MissingState(d)
      BY <1>1, OthersUntouched, OutcomeUntouched DEF Missing
    <3> QED BY <3>1 DEF MissingState
  <2> QED BY <1>1, <2>1, MissingKept DEF Missing
<1>2. CASE UNCHANGED vars
  BY <1>2 DEF Missing, MissingState, vars
<1>3. CASE Begin
  <2>0. /\ pc \in [Calls -> Stages] /\ DOMAIN call = Calls
    BY DEF Typed, TypeOK
  <2>a. PICK c \in Calls, p \in Calls \cup {None}, s \in Specs :
            \/ \E t \in Tasks, o \in Origins, g \in BOOLEAN : BeginEdge(c, p, t, s, o, g)
            \/ p # None /\ BeginKernel(c, p, s)
    BY <1>3 DEF Begin
  <2>1. /\ pc[c] = "unborn" /\ pc'[c] \in {"kernel", "input", "author"}
        /\ \A d \in Calls \ {c} : pc'[d] = pc[d] /\ call'[d] = call[d]
        /\ UNCHANGED <<asked, served, bound, outcome>>
    <3>1. FirstStage(s) \in {"input", "author"}
      BY DEF FirstStage
    <3>2. CASE p # None /\ BeginKernel(c, p, s)
      BY <2>0, <3>2 DEF BeginKernel, MayCall, Goto, heard, store
    <3>3. CASE \E t \in Tasks, o \in Origins, g \in BOOLEAN : BeginEdge(c, p, t, s, o, g)
      BY <2>0, <3>1, <3>3 DEF BeginEdge, MayCall, Goto, heard, store
    <3> QED BY <2>a, <3>2, <3>3
  <2>2. ASSUME NEW d \in Calls \ {c} PROVE MissingState(d)'
    BY <2>1 DEF Missing, MissingState
  <2>3. asked[c] = NotAsked /\ MissingState(c)
    BY <2>1 DEF Own, OwnState, Missing
  <2>4. MissingState(c)'
    <3>1. /\ asked'[c] = NotAsked /\ pc'[c] \in {"kernel", "input", "author"}
          /\ bound'[c] = None /\ ~served'[c] /\ outcome'[c] = "none"
      BY <2>1, <2>3 DEF MissingState, Early
    <3> QED BY <3>1 DEF MissingState, Early
  <2> QED BY <2>2, <2>4 DEF Missing
<1> QED BY <1>1, <1>2, <1>3 DEF Next, Finished

(* A call answered not_found asked its guard of no row, bound no body and  *)
(* served nothing (the early return of prepare_edge_call).                 *)
THEOREM NotFoundHolds == Spec => []NotFoundRanNothing
<1>1. Init => Missing
  <2> SUFFICES ASSUME Init, NEW c \in Calls PROVE MissingState(c)
    BY DEF Missing
  <2>1. /\ pc[c] = "unborn" /\ asked[c] = NotAsked /\ bound[c] = None
        /\ served[c] = FALSE /\ outcome[c] = "none"
    BY DEF Init
  <2> QED BY <2>1 DEF MissingState
<1>2. Missing => NotFoundRanNothing
  BY DEF Missing, MissingState, NotFoundRanNothing
<1> QED BY <1>1, <1>2, NextMissing, OwnAlways, PTL DEF Spec

-----------------------------------------------------------------------------
(* Whose body a call binds, and whose filter_data its output is filtered   *)
(* by.                                                                     *)

Preparing == {"author", "lookup", "guard", "input"}

(* A kernel call that takes the body of the edge call it was made in: the  *)
(* two carry the very same Validator.                                      *)
Borrows(c) ==
    /\ ~IsEdge(c) /\ token[c] # None /\ bound[c] = token[c]
    /\ IsEdge(token[c]) /\ ValidatorOf(token[c]) = ValidatorOf(c)

(* Only the edge prepares a call, an edge state names no Validator but its *)
(* own call's, and what a call heard is its own or that of the edge call   *)
(* it was made in.                                                         *)
HeardState(c) ==
    /\ pc[c] = "unborn" => bound[c] = None /\ filtered[c] = None
    /\ pc[c] \in Preparing => IsEdge(c)
    /\ IsEdge(c) => call[c].origin \in Origins
    /\ token[c] # None => pc[token[c]] # "unborn" /\ IsEdge(token[c])
    /\ state[c].filter = IsEdge(c)
    /\ state[c].validator # NoValidator =>
          IsEdge(c) /\ state[c].validator = ValidatorOf(c)
    /\ bound[c] \in {None, c} \/ Borrows(c)
    /\ filtered[c] \in {None, Env(c)}

AllHeard == \A c \in Calls : HeardState(c)

(* A step of a call is of one that was made, and unmakes none. *)
LEMMA StillBorn ==
  ASSUME Typed, NEW c \in Calls, Progress(c) \/ Write(c)
  PROVE  /\ pc[c] # "unborn" /\ pc'[c] # "unborn"
         /\ \A d \in Calls : pc[d] # "unborn" => pc'[d] # "unborn"
<1>0. pc \in [Calls -> Stages]
  BY DEF Typed, TypeOK
<1> USE <1>0 DEF Goto
<1>1. CASE RouteAuthorValues(c)
  BY <1>1 DEF RouteAuthorValues
<1>2. CASE ResolveTarget(c)
  BY <1>2 DEF ResolveTarget
<1>3. CASE TargetMissing(c)
  BY <1>3 DEF TargetMissing
<1>4. CASE AskGuard(c)
  BY <1>4 DEF AskGuard, Verdict
<1>5. CASE ReadInput(c)
  BY <1>5 DEF ReadInput
<1>6. CASE CheckArguments(c)
  BY <1>6 DEF CheckArguments
<1>7. CASE NoTarget(c)
  BY <1>7 DEF NoTarget
<1>8. CASE Select(c)
  BY <1>8 DEF Select
<1>9. CASE SelectMissing(c)
  BY <1>9 DEF SelectMissing
<1>9a. CASE SelectNothing(c)
  BY <1>9a DEF SelectNothing
<1>10. CASE CallGuard(c)
  BY <1>10 DEF CallGuard
<1>11. CASE Validate(c)
  BY <1>11 DEF Validate
<1>12. CASE Preconditions(c)
  BY <1>12 DEF Preconditions
<1>13. CASE Return(c)
  BY <1>13 DEF Return
<1>14. CASE Reread(c)
  BY <1>14 DEF Reread
<1>15. CASE Raise(c)
  BY <1>15 DEF Raise
<1>16. CASE Leave(c)
  BY <1>16 DEF Leave
<1>17. CASE Answer(c)
  BY <1>17 DEF Answer
<1>18. CASE Write(c)
  BY <1>18 DEF Write
<1> QED BY <1>1, <1>2, <1>3, <1>4, <1>5, <1>6, <1>7, <1>8, <1>9, <1>9a, <1>10, <1>11, <1>12, <1>13, <1>14, <1>15, <1>16, <1>17, <1>18 DEF Progress

(* Only reading the input names a Validator, only validating binds a body, *)
(* only the re-read is filtered.                                           *)
LEMMA HeardSteps ==
  ASSUME Typed, NEW c \in Calls, pc[c] \in Preparing => IsEdge(c), Progress(c) \/ Write(c)
  PROVE  \/ UNCHANGED <<state, bound, filtered>>
         \/ state' = [state EXCEPT ![c].validator = ValidatorOf(c)] /\ IsEdge(c)
            /\ UNCHANGED <<bound, filtered>>
         \/ bound' = [bound EXCEPT ![c] = BodyFor(c)] /\ pc[c] = "validate" /\ InControl(c)
            /\ UNCHANGED <<state, filtered>>
         \/ filtered' = [filtered EXCEPT ![c] = FilterFor(c)] /\ pc[c] = "reread"
            /\ InControl(c) /\ UNCHANGED <<state, bound>>
<1> USE DEF context, heard, store, Preparing
<1>1. CASE RouteAuthorValues(c)
  BY <1>1 DEF RouteAuthorValues
<1>2. CASE ResolveTarget(c)
  BY <1>2 DEF ResolveTarget
<1>3. CASE TargetMissing(c)
  BY <1>3 DEF TargetMissing
<1>4. CASE AskGuard(c)
  BY <1>4 DEF AskGuard, Verdict
<1>5. CASE ReadInput(c)
  BY <1>5 DEF ReadInput
<1>6. CASE CheckArguments(c)
  BY <1>6 DEF CheckArguments
<1>7. CASE NoTarget(c)
  BY <1>7 DEF NoTarget
<1>8. CASE Select(c)
  BY <1>8 DEF Select
<1>9. CASE SelectMissing(c)
  BY <1>9 DEF SelectMissing
<1>9a. CASE SelectNothing(c)
  BY <1>9a DEF SelectNothing
<1>10. CASE CallGuard(c)
  BY <1>10 DEF CallGuard
<1>11. CASE Validate(c)
  BY <1>11 DEF Validate
<1>12. CASE Preconditions(c)
  BY <1>12 DEF Preconditions
<1>13. CASE Return(c)
  BY <1>13 DEF Return
<1>14. CASE Reread(c)
  BY <1>14 DEF Reread
<1>15. CASE Raise(c)
  BY <1>15 DEF Raise
<1>16. CASE Leave(c)
  BY <1>16 DEF Leave
<1>17. CASE Answer(c)
  BY <1>17 DEF Answer
<1>18. CASE Write(c)
  BY <1>18 DEF Write
<1> QED BY <1>1, <1>2, <1>3, <1>4, <1>5, <1>6, <1>7, <1>8, <1>9, <1>9a, <1>10, <1>11, <1>12, <1>13, <1>14, <1>15, <1>16, <1>17, <1>18 DEF Progress

(* And only a step of preparing leads to one. *)
LEMMA PreparedByEdge ==
  ASSUME Typed, NEW c \in Calls, pc[c] \in Preparing => IsEdge(c), Progress(c) \/ Write(c)
  PROVE  pc'[c] \in Preparing => IsEdge(c)
<1>0. pc \in [Calls -> Stages]
  BY DEF Typed, TypeOK
<1> USE <1>0 DEF Goto, Preparing, Stages
<1>1. CASE RouteAuthorValues(c)
  BY <1>1 DEF RouteAuthorValues
<1>2. CASE ResolveTarget(c)
  BY <1>2 DEF ResolveTarget
<1>3. CASE TargetMissing(c)
  BY <1>3 DEF TargetMissing
<1>4. CASE AskGuard(c)
  BY <1>4 DEF AskGuard, Verdict
<1>5. CASE ReadInput(c)
  BY <1>5 DEF ReadInput
<1>6. CASE CheckArguments(c)
  BY <1>6 DEF CheckArguments
<1>7. CASE NoTarget(c)
  BY <1>7 DEF NoTarget
<1>8. CASE Select(c)
  BY <1>8 DEF Select
<1>9. CASE SelectMissing(c)
  BY <1>9 DEF SelectMissing
<1>9a. CASE SelectNothing(c)
  BY <1>9a DEF SelectNothing
<1>10. CASE CallGuard(c)
  BY <1>10 DEF CallGuard
<1>11. CASE Validate(c)
  BY <1>11 DEF Validate
<1>12. CASE Preconditions(c)
  BY <1>12 DEF Preconditions
<1>13. CASE Return(c)
  BY <1>13 DEF Return
<1>14. CASE Reread(c)
  BY <1>14 DEF Reread
<1>15. CASE Raise(c)
  BY <1>15 DEF Raise
<1>16. CASE Leave(c)
  BY <1>16 DEF Leave
<1>17. CASE Answer(c)
  BY <1>17 DEF Answer
<1>18. CASE Write(c)
  BY <1>18 DEF Write
<1> QED BY <1>1, <1>2, <1>3, <1>4, <1>5, <1>6, <1>7, <1>8, <1>9, <1>9a, <1>10, <1>11, <1>12, <1>13, <1>14, <1>15, <1>16, <1>17, <1>18 DEF Progress

(* A Validator is one some spec compiled. *)
LEMMA SomeValidator == ASSUME NEW c PROVE ValidatorOf(c) # NoValidator
  BY DEF ValidatorOf, NoValidator

(* What a Validator binds is its call's, or borrowed. *)
LEMMA FindsItsBody ==
  ASSUME Typed, Stacked, AllHeard, NEW c \in Calls, pc[c] = "validate", InControl(c)
  PROVE  \/ BodyFor(c) = c
         \/ /\ ~IsEdge(c) /\ token[c] # None /\ BodyFor(c) = token[c]
            /\ IsEdge(token[c]) /\ ValidatorOf(token[c]) = ValidatorOf(c)
<1>1. edgeCall[Task(c)] = Env(c) /\ edgeCall[Task(c)] \in Calls \cup {None}
  BY FindsItsOwn DEF Typed, TypeOK, Registered, Task
<1>2. CASE IsEdge(c)
  BY <1>1, <1>2 DEF BodyFor, Env
<1>3. CASE ~IsEdge(c) /\ BodyFor(c) # c
  <2>1. /\ BodyFor(c) = token[c] /\ token[c] \in Calls /\ token[c] # None
        /\ state[token[c]].validator = ValidatorOf(c)
    BY <1>1, <1>3 DEF BodyFor, Env
  <2> QED BY <1>3, <2>1, SomeValidator DEF AllHeard, HeardState
<1> QED BY <1>2, <1>3

(* Each step of c keeps it so. *)
LEMMA HeardKept ==
  ASSUME Typed, Stacked, AllHeard, NEW c \in Calls, Progress(c) \/ Write(c)
  PROVE  HeardState(c)'
<1>0. /\ DOMAIN bound = Calls /\ DOMAIN filtered = Calls /\ pc \in [Calls -> Stages]
      /\ state \in [Calls -> [guard : BOOLEAN, filter : BOOLEAN, validator : Validators]]
      /\ token \in [Calls -> Calls \cup {None}]
      /\ UNCHANGED call /\ UNCHANGED token /\ HeardState(c)
  BY OthersUntouched DEF Typed, TypeOK, AllHeard
<1>a. /\ IsEdge(c)' = IsEdge(c) /\ Env(c)' = Env(c) /\ ValidatorOf(c)' = ValidatorOf(c)
      /\ IsEdge(token[c])' = IsEdge(token[c]) /\ ValidatorOf(token[c])' = ValidatorOf(token[c])
  BY <1>0 DEF IsEdge, Env, ValidatorOf, Spec_
<1>b. /\ pc[c] # "unborn" /\ pc'[c] # "unborn"
      /\ token[c] # None => pc'[token[c]] # "unborn" /\ IsEdge(token[c])
  BY <1>0, OthersUntouched, StillBorn DEF HeardState
<1>c. \/ UNCHANGED <<state, bound, filtered>>
      \/ state' = [state EXCEPT ![c].validator = ValidatorOf(c)] /\ IsEdge(c)
         /\ UNCHANGED <<bound, filtered>>
      \/ bound' = [bound EXCEPT ![c] = BodyFor(c)] /\ pc[c] = "validate" /\ InControl(c)
         /\ UNCHANGED <<state, filtered>>
      \/ filtered' = [filtered EXCEPT ![c] = FilterFor(c)] /\ pc[c] = "reread" /\ InControl(c)
         /\ UNCHANGED <<state, bound>>
  BY <1>0, HeardSteps DEF HeardState
<1>d. pc'[c] \in Preparing => IsEdge(c)
  BY <1>0, PreparedByEdge DEF HeardState
<1> USE <1>0, <1>a, <1>b, <1>d DEF HeardState, Borrows
<1>1. CASE UNCHANGED <<state, bound, filtered>>
  BY <1>1
<1>2. CASE /\ state' = [state EXCEPT ![c].validator = ValidatorOf(c)] /\ IsEdge(c)
           /\ UNCHANGED <<bound, filtered>>
  BY <1>2
<1>3. CASE /\ bound' = [bound EXCEPT ![c] = BodyFor(c)] /\ pc[c] = "validate" /\ InControl(c)
           /\ UNCHANGED <<state, filtered>>
  BY <1>3, FindsItsBody
<1>4. CASE /\ filtered' = [filtered EXCEPT ![c] = FilterFor(c)] /\ pc[c] = "reread"
           /\ InControl(c) /\ UNCHANGED <<state, bound>>
  <2>1. FilterFor(c) \in {None, Env(c)}
    BY <1>4, FindsItsOwn DEF FilterFor
  <2> QED BY <1>4, <2>1
<1> QED BY <1>c, <1>1, <1>2, <1>3, <1>4

(* A call just made has heard nothing. *)
LEMMA HeardBegan ==
  ASSUME Typed, Stacked, AllHeard, Begin PROVE AllHeard'
<1>0. /\ pc \in [Calls -> Stages] /\ DOMAIN call = Calls /\ DOMAIN state = Calls
      /\ token \in [Calls -> Calls \cup {None}] /\ edgeCall \in [Tasks -> Calls \cup {None}]
  BY DEF Typed, TypeOK
<1>1. PICK c \in Calls, p \in Calls \cup {None}, s \in Specs :
          \/ \E t \in Tasks, o \in Origins, g \in BOOLEAN : BeginEdge(c, p, t, s, o, g)
          \/ p # None /\ BeginKernel(c, p, s)
  BY DEF Begin
<1>2. /\ pc[c] = "unborn" /\ pc'[c] # "unborn"
      /\ \A d \in Calls \ {c} : /\ pc'[d] = pc[d] /\ call'[d] = call[d]
                                /\ state'[d] = state[d] /\ token'[d] = token[d]
      /\ UNCHANGED <<bound, filtered>>
  <2>1. FirstStage(s) # "unborn"
    BY DEF FirstStage
  <2> QED BY <1>0, <1>1, <2>1 DEF BeginEdge, BeginKernel, MayCall, Goto, heard
<1>3. \A d \in Calls : HeardState(d)
  BY DEF AllHeard
<1>4. ASSUME NEW d \in Calls \ {c} PROVE HeardState(d)'
  <2>1. token[d] \in Calls \cup {None} /\ (token[d] # None => token[d] \in Calls \ {c})
    BY <1>0, <1>2, <1>3 DEF HeardState
  <2>2. IsEdge(d)' = IsEdge(d) /\ Env(d)' = Env(d) /\ ValidatorOf(d)' = ValidatorOf(d)
    BY <1>2 DEF IsEdge, Env, ValidatorOf, Spec_
  <2>3. token[d] # None => /\ IsEdge(token[d])' = IsEdge(token[d])
                           /\ ValidatorOf(token[d])' = ValidatorOf(token[d])
                           /\ pc'[token[d]] = pc[token[d]]
    BY <1>2, <2>1 DEF IsEdge, ValidatorOf, Spec_
  <2>4. Borrows(d) => Borrows(d)'
    BY <1>2, <2>2, <2>3 DEF Borrows
  <2>5. IsEdge(d) => call'[d].origin = call[d].origin
    BY <1>2
  <2> QED BY <1>2, <1>3, <2>2, <2>3, <2>4, <2>5 DEF HeardState
<1>5. /\ bound'[c] = None /\ filtered'[c] = None
      /\ state[c].validator = NoValidator /\ state[c].filter = FALSE
  BY <1>2, <1>3 DEF HeardState, Typed, Registered, EmptyState
<1>6. ASSUME NEW t \in Tasks, p = None \/ t = Task(p), MayCall(c, p, t)
      PROVE  edgeCall[t] # None => pc[edgeCall[t]] # "unborn" /\ IsEdge(edgeCall[t])
  <2>1. CASE p = None
    BY <1>6, <2>1 DEF MayCall, Stacked, IdleTaskIsClean
  <2>2. CASE p # None
    <3>1. p \in Calls /\ pc[p] \in UserCode /\ OnTop(p)
      BY <1>6, <2>2 DEF MayCall
    <3>2. edgeCall[Task(p)] = Env(p)
      BY <3>1 DEF Stacked, TopHolds, Live, UserCode
    <3> QED BY <1>3, <1>6, <2>2, <3>1, <3>2 DEF Env, HeardState, UserCode
  <2> QED BY <2>1, <2>2
<1>7. CASE p # None /\ BeginKernel(c, p, s)
  <2>1. /\ pc'[c] = "kernel" /\ call'[c].route = "kernel" /\ state' = state
        /\ token'[c] = edgeCall[Task(p)] /\ MayCall(c, p, Task(p)) /\ p \in Calls
    BY <1>0, <1>7 DEF BeginKernel, Goto
  <2>2. Task(p) \in Tasks
    BY <1>7, <2>1 DEF MayCall, UserCode, Typed, Registered, Task
  <2>3. token'[c] # None => /\ token'[c] \in Calls \ {c} /\ pc'[token'[c]] # "unborn"
                            /\ IsEdge(token[c])'
    BY <1>0, <1>2, <1>6, <2>1, <2>2 DEF IsEdge
  <2>4. HeardState(c)'
    BY <1>2, <1>5, <2>1, <2>3 DEF HeardState, IsEdge, Preparing
  <2> QED BY <1>4, <2>4 DEF AllHeard
<1>8. CASE \E t \in Tasks, o \in Origins, g \in BOOLEAN : BeginEdge(c, p, t, s, o, g)
  <2>1. PICK t \in Tasks, o \in Origins, g \in BOOLEAN : BeginEdge(c, p, t, s, o, g)
    BY <1>8
  <2>2. /\ call'[c].route = "edge" /\ call'[c].origin = o
        /\ token'[c] = Inherited(p, t) /\ MayCall(c, p, t)
    BY <1>0, <2>1 DEF BeginEdge
  <2>3. state'[c].validator = NoValidator /\ state'[c].filter = TRUE
    BY <1>0, <2>1 DEF BeginEdge, EdgeState, EmptyState
  <2>4. Inherited(p, t) # None =>
            /\ Inherited(p, t) \in Calls /\ pc[Inherited(p, t)] # "unborn"
            /\ IsEdge(Inherited(p, t))
    <3>1. CASE p = None
      BY <1>0, <1>6, <2>2, <3>1 DEF Inherited
    <3>2. CASE p # None
      <4>1. /\ p \in Calls /\ pc[p] \in UserCode /\ OnTop(p) /\ Task(p) \in Tasks
        BY <2>2, <3>2 DEF MayCall, UserCode, Typed, Registered, Task
      <4>2. edgeCall[Task(p)] = Env(p)
        BY <4>1 DEF Stacked, TopHolds, Live, UserCode
      <4> QED BY <1>0, <1>3, <3>2, <4>1, <4>2 DEF Inherited, Env, HeardState, UserCode
    <3> QED BY <3>1, <3>2
  <2>5. token'[c] # None => pc'[token'[c]] # "unborn" /\ IsEdge(token[c])'
    BY <1>2, <2>2, <2>4 DEF IsEdge
  <2>6. HeardState(c)'
    BY <1>2, <1>5, <2>2, <2>3, <2>5 DEF HeardState, IsEdge
  <2> QED BY <1>4, <2>6 DEF AllHeard
<1> QED BY <1>1, <1>7, <1>8

(* So every step of the system keeps it. *)
LEMMA NextHeard ==
  ASSUME Typed, Stacked, AllHeard, [Next]_vars PROVE AllHeard'
<1>1. ASSUME NEW c \in Calls, Progress(c) \/ Write(c) PROVE AllHeard'
  <2>1. ASSUME NEW d \in Calls \ {c} PROVE HeardState(d)'
    <3>1. /\ pc'[d] = pc[d] /\ state'[d] = state[d] /\ bound'[d] = bound[d]
          /\ filtered'[d] = filtered[d] /\ call' = call /\ token' = token
          /\ HeardState(d) /\ token[d] \in Calls \cup {None}
      BY <1>1, OthersUntouched DEF AllHeard, Typed, TypeOK
    <3>2. token[d] # None => pc'[token[d]] # "unborn" /\ IsEdge(token[d])' = IsEdge(token[d])
      BY <1>1, <3>1, StillBorn DEF HeardState, IsEdge
    <3>3. /\ IsEdge(d)' = IsEdge(d) /\ Env(d)' = Env(d) /\ ValidatorOf(d)' = ValidatorOf(d)
          /\ Borrows(d)' = Borrows(d)
      BY <3>1 DEF IsEdge, Env, ValidatorOf, Spec_, Borrows
    <3> QED BY <3>1, <3>2, <3>3 DEF HeardState
  <2> QED BY <1>1, <2>1, HeardKept DEF AllHeard
<1>2. CASE UNCHANGED vars
  BY <1>2 DEF AllHeard, HeardState, Borrows, IsEdge, Env, ValidatorOf, Spec_, vars
<1> QED BY <1>1, <1>2, HeardBegan DEF Next, Finished

(* And it always holds. *)
LEMMA HeardAlways == Spec => []AllHeard
<1>1. Init => AllHeard
  <2> SUFFICES ASSUME Init, NEW c \in Calls PROVE HeardState(c)
    BY DEF AllHeard
  <2>1. /\ pc[c] = "unborn" /\ ~IsEdge(c)
        /\ state[c].validator = NoValidator /\ state[c].filter = FALSE
        /\ token[c] = None /\ bound[c] = None /\ filtered[c] = None
    BY DEF Init, IsEdge, NoCall, EmptyState
  <2> QED BY <2>1 DEF HeardState, Preparing, IsEdge
<1>2. Typed /\ Stacked /\ AllHeard /\ [Next]_vars => AllHeard'
  BY NextHeard
<1> QED BY <1>1, <1>2, OwnAlways, PTL DEF Spec

(* What code of a call finds is never a stranger's: an edge call binds its *)
(* own body and filters by its own filter_data, a kernel call at most      *)
(* those of the innermost edge call it was made in.                        *)
HeardWithin ==
    \A c \in Calls :
        /\ filtered[c] \in {None, Env(c)}
        /\ bound[c] \in {None, c, Env(c)}

(* However calls arrive, nest and interleave, no body and no filter_data   *)
(* crosses from one edge call to another: the leaks edge_call_same_spec    *)
(* and edge_call_output_filter show reach a kernel call from the call that *)
(* made it, and no further.                                                *)
THEOREM HeardWithinHolds == Spec => []HeardWithin
<1>1. AllHeard => HeardWithin
  BY DEF AllHeard, HeardState, HeardWithin, Borrows, Env
<1> QED BY <1>1, HeardAlways, PTL

(* A body bound by a call that is not its own is an edge call's that       *)
(* dispatches the very same spec, arrived off HTTP and compiled no field   *)
(* out of its Validator.                                                   *)
BorrowedOffHTTP ==
    \A c \in Calls : bound[c] \notin {None, c} =>
        /\ ~IsEdge(c) /\ IsEdge(bound[c])
        /\ call[bound[c]].spec = call[c].spec
        /\ call[bound[c]].origin = "offline"
        /\ Spec_(c).seeded => Spec_(c).many

(* That is the only way a Validator binds another call's body:             *)
(* validator_input compares Validators by identity, and a variant keeps    *)
(* kernel_spec's own unless it is lenient, partial or leaves a field out.  *)
THEOREM BorrowedHolds == Spec => []BorrowedOffHTTP
<1>1. ASSUME AllHeard, Typed PROVE BorrowedOffHTTP
  <2> SUFFICES ASSUME NEW c \in Calls, bound[c] \notin {None, c}
               PROVE  /\ ~IsEdge(c) /\ IsEdge(bound[c])
                      /\ call[bound[c]].spec = call[c].spec
                      /\ call[bound[c]].origin = "offline"
                      /\ Spec_(c).seeded => Spec_(c).many
    BY DEF BorrowedOffHTTP
  <2>1. Borrows(c) /\ bound[c] \in Calls
    BY <1>1 DEF AllHeard, HeardState, Typed, TypeOK
  <2>2. /\ ~IsEdge(c) /\ IsEdge(bound[c]) /\ ValidatorOf(bound[c]) = ValidatorOf(c)
    BY <2>1 DEF Borrows
  <2>3. ValidatorOf(c) = [of |-> "kernel_spec", spec |-> call[c].spec, origin |-> "none"]
    BY <2>2 DEF ValidatorOf
  <2>4. /\ call[bound[c]].spec = call[c].spec
        /\ call[bound[c]].origin \notin {"http", "patch"}
        /\ ~(Spec_(bound[c]).seeded /\ ~Spec_(bound[c]).many)
    BY <2>2, <2>3 DEF ValidatorOf
  <2>5. call[bound[c]].origin \in {"http", "offline", "patch"}
    BY <1>1, <2>1, <2>2, CallAssumption DEF AllHeard, HeardState
  <2>6. Decl[call[c].spec] = Spec_(bound[c])
    BY <2>4 DEF Spec_
  <2> QED BY <2>2, <2>4, <2>5, <2>6 DEF Spec_
<1> QED BY <1>1, HeardAlways, TypedAlways, PTL

(* Over HTTP every edge call compiles a Validator of its own, and then a   *)
(* call binds its own body, a kernel call of the same spec made inside its *)
(* service included (validator_input, kernel_spec_variant's lenient).      *)
THEOREM OwnBodyOverHTTP ==
  ASSUME Origins \subseteq {"http", "patch"} PROVE Spec => []OwnBody
<1>1. ASSUME BorrowedOffHTTP, AllHeard, Typed PROVE OwnBody
  <2>1. \A c \in Calls : bound[c] \in Calls \cup {None}
    BY <1>1 DEF Typed, TypeOK
  <2> QED BY <1>1, <2>1 DEF BorrowedOffHTTP, AllHeard, HeardState, OwnBody
<1> QED BY <1>1, BorrowedHolds, HeardAlways, TypedAlways, PTL

-----------------------------------------------------------------------------
(* Atomic blocks.                                                          *)

(* The blocks a write of w's was made in, its own service's included. *)
AllAround(w) == call[w].blocks \cup (IF Spec_(w).atomic THEN {w} ELSE {})

(* A call's block is the innermost of its blocks. *)
Chained ==
    \A c \in Calls :
        IF call[c].block = None THEN call[c].blocks = {}
        ELSE /\ pc[call[c].block] # "unborn"
             /\ call[c].blocks = call[call[c].block].blocks \cup {call[c].block}

(* A write rests in b only if every block around it has closed but b and   *)
(* those around b, and is committed once all have.                         *)
Held ==
    \A b \in Calls : \A w \in pending[b] :
        /\ pc[w] # "unborn" /\ pc[b] # "unborn"
        /\ \A x \in AllAround(w) : served[x] \/ x = b \/ x \in call[b].blocks

Kept == \A w \in durable : pc[w] # "unborn" /\ \A x \in AllAround(w) : served[x]

Blocked == Chained /\ Held /\ Kept

(* Writes that reach the store keep it so. *)
LEMMA DepositKeeps ==
  ASSUME Typed, Blocked, UNCHANGED call, NEW c \in Calls, pc[c] # "unborn",
         \A d \in Calls : pc'[d] = "unborn" <=> pc[d] = "unborn",
         NEW b \in Calls \cup {None}, b # None => pc[b] # "unborn",
         NEW ws \in SUBSET Calls, NEW held \in [Calls -> SUBSET Calls],
         \A d \in Calls : held[d] \subseteq pending[d],
         Deposit(b, ws, held),
         \A d \in Calls : served[d] => served'[d],
         \A w \in ws : /\ pc[w] # "unborn"
                       /\ \A x \in AllAround(w) :
                             served'[x] \/ (b # None /\ (x = b \/ x \in call[b].blocks))
  PROVE  Blocked'
<1>0. \A w \in Calls : (AllAround(w))' = AllAround(w) /\ AllAround(w) \subseteq Calls
  BY DEF AllAround, Spec_, Typed, TypeOK
<1>1. Chained'
  <2> SUFFICES ASSUME NEW d \in Calls
               PROVE  IF call[d].block = None THEN call[d].blocks = {}
                      ELSE /\ pc'[call[d].block] # "unborn"
                           /\ call[d].blocks = call[call[d].block].blocks \cup {call[d].block}
    BY DEF Chained
  <2>1. call[d].block \in Calls \cup {None}
    BY DEF Typed, TypeOK
  <2> QED BY <2>1 DEF Blocked, Chained
<1>2. \A d \in Calls : pending'[d] \subseteq held[d] \cup (IF d = b THEN ws ELSE {})
  BY DEF Deposit
<1>3. durable' \subseteq durable \cup (IF b = None THEN ws ELSE {})
  BY DEF Deposit
<1>4. Held'
  <2> SUFFICES ASSUME NEW d \in Calls, NEW w \in pending'[d]
               PROVE  /\ pc'[w] # "unborn" /\ pc'[d] # "unborn"
                      /\ \A x \in (AllAround(w))' : served'[x] \/ x = d \/ x \in call[d].blocks
    BY DEF Held
  <2>1. CASE w \in pending[d]
    <3>1. w \in Calls
      BY <2>1 DEF Typed, TypeOK
    <3> QED BY <1>0, <2>1, <3>1 DEF Blocked, Held
  <2>2. CASE w \notin pending[d]
    <3>1. d = b /\ w \in ws /\ b # None
      BY <1>2, <2>2, CallAssumption
    <3> QED BY <1>0, <3>1
  <2> QED BY <2>1, <2>2
<1>5. Kept'
  <2> SUFFICES ASSUME NEW w \in durable'
               PROVE  pc'[w] # "unborn" /\ \A x \in (AllAround(w))' : served'[x]
    BY DEF Kept
  <2>1. CASE w \in durable
    <3>1. w \in Calls
      BY <2>1 DEF Typed, TypeOK
    <3> QED BY <1>0, <2>1, <3>1 DEF Blocked, Kept
  <2>2. CASE w \notin durable
    BY <1>0, <1>3, <2>2
  <2> QED BY <2>1, <2>2
<1> QED BY <1>1, <1>4, <1>5 DEF Blocked

(* So does a step that writes nothing, or rolls a block back. *)
LEMMA RollbackKeeps ==
  ASSUME Typed, Blocked, UNCHANGED <<call, served, durable>>,
         \A d \in Calls : pc'[d] = "unborn" <=> pc[d] = "unborn",
         \A d \in Calls : pending'[d] \subseteq pending[d]
  PROVE  Blocked'
<1>0. /\ \A w \in Calls : (AllAround(w))' = AllAround(w)
      /\ \A d \in Calls : pending[d] \subseteq Calls /\ call[d].block \in Calls \cup {None}
      /\ durable \subseteq Calls
  BY DEF AllAround, Spec_, Typed, TypeOK
<1>1. Chained'
  BY <1>0 DEF Blocked, Chained
<1>2. Held'
  <2> SUFFICES ASSUME NEW d \in Calls, NEW w \in pending'[d]
               PROVE  /\ pc'[w] # "unborn" /\ pc'[d] # "unborn"
                      /\ \A x \in (AllAround(w))' : served[x] \/ x = d \/ x \in call[d].blocks
    BY DEF Held
  <2>1. w \in pending[d] /\ w \in Calls
    BY <1>0
  <2> QED BY <1>0, <2>1 DEF Blocked, Held
<1>3. Kept'
  BY <1>0 DEF Blocked, Kept
<1> QED BY <1>1, <1>2, <1>3 DEF Blocked

(* Each step of a call keeps it so. *)
LEMMA BlockedKept ==
  ASSUME Typed, Stacked, Own, Blocked, NEW c \in Calls, Progress(c) \/ Write(c) PROVE Blocked'
<1>0. /\ UNCHANGED call
      /\ \A d \in Calls : pc'[d] = "unborn" <=> pc[d] = "unborn"
      /\ pc[c] # "unborn"
  <2>0. /\ UNCHANGED call /\ \A d \in Calls \ {c} : pc'[d] = pc[d]
    BY OthersUntouched
  <2>1. pc[c] # "unborn" /\ pc'[c] # "unborn"
    <3>0. pc \in [Calls -> Stages]
      BY DEF Typed, TypeOK
    <3>1. CASE Leave(c)
      BY <3>0, <3>1 DEF Leave, Goto
    <3>2. CASE Answer(c)
      BY <3>0, <3>2 DEF Answer, Goto
    <3> QED BY <3>1, <3>2, StepsAreLocal DEF LocalStep
  <2> QED BY <2>0, <2>1
<1>t. /\ pending \in [Calls -> SUBSET Calls] /\ served \in [Calls -> BOOLEAN]
      /\ call[c].block \in Calls \cup {None}
  BY DEF Typed, TypeOK
<1>1. CASE UNCHANGED store
  <2>1. UNCHANGED <<served, durable>> /\ \A d \in Calls : pending'[d] \subseteq pending[d]
    BY <1>1 DEF store
  <2> QED BY <1>0, <2>1, RollbackKeeps
<1>2. CASE Raise(c)
  <2>1. UNCHANGED <<served, durable>> /\ \A d \in Calls : pending'[d] \subseteq pending[d]
    BY <1>2, <1>t DEF Raise
  <2> QED BY <1>0, <2>1, RollbackKeeps
<1>3. CASE Write(c)
  <2> DEFINE b == IF Spec_(c).atomic THEN c ELSE call[c].block
  <2>1. Deposit(b, {c}, pending) /\ served' = served
    BY <1>3 DEF Write
  <2>2. b \in Calls \cup {None} /\ (b # None => pc[b] # "unborn")
    BY <1>0, <1>t DEF Blocked, Chained
  <2>3. \A x \in AllAround(c) : b # None /\ (x = b \/ x \in call[b].blocks)
    BY CallAssumption DEF AllAround, Blocked, Chained
  <2> HIDE DEF b
  <2> QED BY <1>0, <1>t, <2>1, <2>2, <2>3, DepositKeeps
<1>4. CASE Return(c)
  <2> DEFINE b == call[c].block
             held == [pending EXCEPT ![c] = {}]
  <2>1. Deposit(b, pending[c], held) /\ served' = [served EXCEPT ![c] = TRUE]
    BY <1>4 DEF Return
  <2>2. b \in Calls \cup {None} /\ (b # None => pc[b] # "unborn")
    BY <1>0, <1>t DEF Blocked, Chained
  <2>3. /\ held \in [Calls -> SUBSET Calls] /\ \A d \in Calls : held[d] \subseteq pending[d]
        /\ pending[c] \in SUBSET Calls /\ \A d \in Calls : served[d] => served'[d]
    BY <1>t, <2>1
  <2>4. ASSUME NEW w \in pending[c]
        PROVE  /\ pc[w] # "unborn"
               /\ \A x \in AllAround(w) :
                     served'[x] \/ (b # None /\ (x = b \/ x \in call[b].blocks))
    <3>1. /\ pc[w] # "unborn"
          /\ \A x \in AllAround(w) : served[x] \/ x = c \/ x \in call[c].blocks
      BY DEF Blocked, Held
    <3>2. AllAround(w) \subseteq Calls
      BY DEF AllAround, Spec_, Typed, TypeOK
    <3>3. \A x \in call[c].blocks : b # None /\ (x = b \/ x \in call[b].blocks)
      BY DEF Blocked, Chained
    <3> QED BY <1>t, <2>1, <3>1, <3>2, <3>3
  <2> HIDE DEF b, held
  <2> QED BY <1>0, <2>1, <2>2, <2>3, <2>4, DepositKeeps
<1>5. UNCHANGED store \/ Raise(c) \/ Return(c) \/ Write(c)
  BY DEF Progress, RouteAuthorValues, ResolveTarget, TargetMissing, AskGuard, ReadInput, CheckArguments, NoTarget, Select, SelectNothing, SelectMissing, CallGuard, Validate, Preconditions, Reread, Leave, Answer
<1> QED BY <1>1, <1>2, <1>3, <1>4, <1>5

(* A call just made writes into the blocks open around it. *)
LEMMA BlockedBegan ==
  ASSUME Typed, Stacked, Own, Blocked, Begin PROVE Blocked'
<1>0. /\ pc \in [Calls -> Stages] /\ DOMAIN call = Calls
      /\ \A d \in Calls : /\ pending[d] \subseteq Calls /\ call[d].block \in Calls \cup {None}
                          /\ call[d].blocks \subseteq Calls
      /\ durable \subseteq Calls
  BY DEF Typed, TypeOK
<1>1. PICK c \in Calls, p \in Calls \cup {None}, s \in Specs :
          \/ \E t \in Tasks, o \in Origins, g \in BOOLEAN : BeginEdge(c, p, t, s, o, g)
          \/ p # None /\ BeginKernel(c, p, s)
  BY DEF Begin
<1>2. /\ pc[c] = "unborn" /\ pc'[c] # "unborn"
      /\ \A d \in Calls \ {c} : pc'[d] = pc[d] /\ call'[d] = call[d]
      /\ UNCHANGED <<served, pending, durable>>
      /\ p # None => pc[p] # "unborn" /\ p # c
  BY <1>0, <1>1 DEF BeginEdge, BeginKernel, MayCall, Goto, store, FirstStage, UserCode
<1>3. call'[c].block = BlockFor(p) /\ call'[c].blocks = BlocksFor(p)
  BY <1>0, <1>1 DEF BeginEdge, BeginKernel
<1>4. IF BlockFor(p) = None THEN BlocksFor(p) = {}
      ELSE /\ BlockFor(p) \in Calls \ {c} /\ pc[BlockFor(p)] # "unborn"
           /\ BlocksFor(p) = call[BlockFor(p)].blocks \cup {BlockFor(p)}
  <2>1. CASE p = None
    BY <2>1 DEF BlockFor, BlocksFor
  <2>2. CASE p # None /\ Opened(p)
    BY <1>2, <2>2, CallAssumption DEF BlockFor, BlocksFor
  <2>3. CASE p # None /\ ~Opened(p)
    BY <1>0, <1>2, <2>3 DEF BlockFor, BlocksFor, Blocked, Chained
  <2> QED BY <2>1, <2>2, <2>3
<1>5. Chained'
  <2> SUFFICES ASSUME NEW d \in Calls
               PROVE  IF call'[d].block = None THEN call'[d].blocks = {}
                      ELSE /\ pc'[call'[d].block] # "unborn"
                           /\ call'[d].blocks = call'[call'[d].block].blocks \cup {call'[d].block}
    BY DEF Chained
  <2>1. CASE d = c
    BY <1>2, <1>3, <1>4, <2>1
  <2>2. CASE d # c
    BY <1>0, <1>2, <2>2 DEF Blocked, Chained
  <2> QED BY <2>1, <2>2
<1>6. \A w \in Calls \ {c} : (AllAround(w))' = AllAround(w)
  BY <1>2 DEF AllAround, Spec_
<1>7. Held'
  <2> SUFFICES ASSUME NEW d \in Calls, NEW w \in pending[d]
               PROVE  /\ pc'[w] # "unborn" /\ pc'[d] # "unborn"
                      /\ \A x \in (AllAround(w))' : served[x] \/ x = d \/ x \in call'[d].blocks
    BY <1>2 DEF Held
  <2>1. /\ pc[w] # "unborn" /\ pc[d] # "unborn" /\ w \in Calls
        /\ \A x \in AllAround(w) : served[x] \/ x = d \/ x \in call[d].blocks
    BY <1>0 DEF Blocked, Held
  <2> QED BY <1>2, <1>6, <2>1
<1>8. Kept'
  BY <1>0, <1>2, <1>6 DEF Blocked, Kept
<1> QED BY <1>5, <1>7, <1>8 DEF Blocked

(* Every step keeps it. *)
LEMMA NextBlocked == Typed /\ Stacked /\ Own /\ Blocked /\ [Next]_vars => Blocked'
<1> SUFFICES ASSUME Typed, Stacked, Own, Blocked, [Next]_vars PROVE Blocked'
  OBVIOUS
<1>1. CASE UNCHANGED vars
  BY <1>1, RollbackKeeps DEF vars, Typed, TypeOK
<1> QED BY <1>1, BlockedKept, BlockedBegan DEF Next, Finished

(* A write is committed only once every atomic service it was made in has  *)
(* returned: a refusal of any of them takes it back.                       *)
THEOREM CommitHolds == Spec => []CommittedWhenAllReturned
<1>1. Init => Blocked
  BY DEF Init, Blocked, Chained, Held, Kept, NoCall
<1>2. Typed /\ Blocked => CommittedWhenAllReturned
  BY DEF Blocked, Kept, AllAround, CommittedWhenAllReturned, Typed, TypeOK
<1> QED BY <1>1, <1>2, NextBlocked, OwnAlways, PTL DEF Spec

-----------------------------------------------------------------------------
(* How far a call has come.                                                *)

LetBy(c) == call[c].guarded => asked[c] = [times |-> 1, by |-> c, on |-> target[c]]

(* A call hears of each thing once, re-reads what its service returned,    *)
(* and ends ok only if its guard let it by, or there was nothing to show,  *)
(* and its service ran.  Until it selects, a selector's call has no row.   *)
Nothing(c) ==
    /\ Spec_(c).nullable /\ Spec_(c).kind = "selector"
    /\ target[c] = None /\ asked[c] = NotAsked

Course(c) ==
    /\ pc[c] = "unborn" => target[c] = None
    /\ pc[c] \in {"author", "kernel", "select"} /\ Spec_(c).kind = "selector" => target[c] = None
    /\ pc[c] \in Early \cup {"validate"} => bound[c] = None
    /\ pc[c] \in Early \cup {"validate", "preconditions"} => seat[c] = None
    /\ pc[c] = "reread" => served[c]
    /\ ~served[c] \/ pc[c] = "reread" => filtered[c] = None
    /\ outcome[c] = "ok" =>
          pc[c] \in Ended /\ (LetBy(c) \/ Nothing(c)) /\ (Spec_(c).kind = "service" => served[c])
    /\ pc[c] \in Ended => outcome[c] # "none"

Courses == \A c \in Calls : Course(c)

(* Each step of c keeps its course. *)
LEMMA CourseKept ==
  ASSUME Typed, Own, Missing, Courses, NEW c \in Calls, Progress(c) \/ Write(c)
  PROVE  Course(c)'
<1>0. /\ pc \in [Calls -> Stages] /\ served \in [Calls -> BOOLEAN]
      /\ DOMAIN outcome = Calls /\ DOMAIN asked = Calls /\ DOMAIN target = Calls
      /\ DOMAIN bound = Calls /\ DOMAIN seat = Calls /\ DOMAIN filtered = Calls
      /\ call[c].guarded \in BOOLEAN
  BY DEF Typed, TypeOK
<1>a. Course(c) /\ MissingState(c) /\ OwnState(c) /\ UNCHANGED call
  BY OthersUntouched DEF Courses, Missing, Own
<1>b. pc[c] # "unborn" => Spec_(c).kind \in {"service", "selector"} /\ Spec_(c).many \in BOOLEAN
  BY CallAssumption DEF Typed, Registered, Spec_, Declarations
<1>c. (Spec_(c))' = Spec_(c) /\ (pc[c] # "unborn" => pc[c] \in Path(c))
  BY <1>a DEF Spec_, OwnState
<1>d. pc[c] \in {"preconditions", "service", "reread"} => LetBy(c)
  BY <1>a DEF OwnState, Awaiting, Ended, LetBy
<1>e. pc[c] \in Early \cup {"validate", "preconditions", "service"} => ~served[c]
  BY <1>a DEF OwnState, Early, Ended
<1> USE <1>0, <1>a, <1>b, <1>c, <1>d, <1>e
        DEF Goto, context, store, heard, Course, Early, Ended, Path, Stages, LetBy, Nothing
<1>1. CASE RouteAuthorValues(c)
  BY <1>1 DEF RouteAuthorValues
<1>2. CASE ResolveTarget(c)
  BY <1>2 DEF ResolveTarget
<1>3. CASE TargetMissing(c)
  BY <1>3 DEF TargetMissing
<1>4. CASE AskGuard(c)
  BY <1>4 DEF AskGuard, Verdict, Asking
<1>5. CASE ReadInput(c)
  BY <1>5 DEF ReadInput
<1>6. CASE CheckArguments(c)
  BY <1>6 DEF CheckArguments, LooksUp
<1>7. CASE NoTarget(c)
  BY <1>7 DEF NoTarget
<1>8. CASE Select(c)
  BY <1>8 DEF Select
<1>9. CASE SelectMissing(c)
  BY <1>9 DEF SelectMissing
<1>9a. CASE SelectNothing(c)
  BY <1>9a, CallAssumption DEF SelectNothing, OwnState, Awaiting
<1>10. CASE CallGuard(c)
  BY <1>10 DEF CallGuard, Asking
<1>11. CASE Validate(c)
  BY <1>11 DEF Validate
<1>12. CASE Preconditions(c)
  BY <1>12 DEF Preconditions
<1>13. CASE Return(c)
  BY <1>13 DEF Return
<1>14. CASE Reread(c)
  BY <1>14 DEF Reread
<1>15. CASE Raise(c)
  BY <1>15 DEF Raise
<1>16. CASE Leave(c)
  BY <1>16 DEF Leave
<1>17. CASE Answer(c)
  BY <1>17 DEF Answer
<1>18. CASE Write(c)
  BY <1>18 DEF Write
<1> QED BY <1>1, <1>2, <1>3, <1>4, <1>5, <1>6, <1>7, <1>8, <1>9, <1>9a, <1>10, <1>11, <1>12, <1>13, <1>14, <1>15, <1>16, <1>17, <1>18 DEF Progress

(* And every step of the system. *)
LEMMA NextCourses == Typed /\ Own /\ Missing /\ Courses /\ [Next]_vars => Courses'
<1> SUFFICES ASSUME Typed, Own, Missing, Courses, [Next]_vars PROVE Courses'
  OBVIOUS
<1>1. ASSUME NEW c \in Calls, Progress(c) \/ Write(c) PROVE Courses'
  <2>1. ASSUME NEW d \in Calls \ {c} PROVE Course(d)'
    <3>1. /\ pc'[d] = pc[d] /\ asked'[d] = asked[d] /\ served'[d] = served[d]
          /\ target'[d] = target[d] /\ bound'[d] = bound[d] /\ seat'[d] = seat[d]
          /\ filtered'[d] = filtered[d] /\ outcome'[d] = outcome[d] /\ call' = call
      BY <1>1, OthersUntouched, OutcomeUntouched
    <3> QED BY <3>1 DEF Courses, Course, LetBy, Nothing, Spec_
  <2> QED BY <1>1, <2>1, CourseKept DEF Courses
<1>2. CASE UNCHANGED vars
  BY <1>2 DEF Courses, Course, LetBy, Nothing, Spec_, vars
<1>3. CASE Begin
  <2>0. pc \in [Calls -> Stages] /\ DOMAIN call = Calls
    BY DEF Typed, TypeOK
  <2>1. PICK c \in Calls, p \in Calls \cup {None}, s \in Specs :
            \/ \E t \in Tasks, o \in Origins, g \in BOOLEAN : BeginEdge(c, p, t, s, o, g)
            \/ p # None /\ BeginKernel(c, p, s)
    BY <1>3 DEF Begin
  <2>2. /\ pc[c] = "unborn" /\ pc'[c] \in {"kernel", "input", "author"}
        /\ \A d \in Calls \ {c} : pc'[d] = pc[d] /\ call'[d] = call[d]
        /\ UNCHANGED <<asked, served, bound, seat, filtered, outcome, target>>
    BY <2>0, <2>1 DEF BeginEdge, BeginKernel, MayCall, Goto, heard, store, FirstStage
  <2>3. ASSUME NEW d \in Calls \ {c} PROVE Course(d)'
    BY <2>2 DEF Courses, Course, LetBy, Nothing, Spec_
  <2>4. Course(c) /\ MissingState(c) /\ OwnState(c)
    BY DEF Courses, Missing, Own
  <2>5. /\ bound[c] = None /\ seat[c] = None /\ ~served[c] /\ filtered[c] = None
        /\ outcome[c] = "none"
    BY <2>2, <2>4 DEF Course, MissingState, OwnState, Early
  <2>6. Course(c)'
    BY <2>2, <2>4, <2>5 DEF Course, Early, Ended
  <2> QED BY <2>3, <2>6 DEF Courses
<1> QED BY <1>1, <1>2, <1>3 DEF Next, Finished

-----------------------------------------------------------------------------
(* Whose writes there are.                                                 *)

HasWritten(w) == w \in durable \/ \E b \in Calls : w \in pending[b]

(* Only a service writes, and only one its guard let by. *)
Writer(w) ==
    /\ Spec_(w).kind = "service" /\ LetBy(w)
    /\ pc[w] \in {"service", "reread"} \cup Ended

Writers == \A w \in Calls : HasWritten(w) => Writer(w)

(* A step adds no write but that of the service it is a step of. *)
LEMMA StepWrites ==
  ASSUME Typed, NEW c \in Calls, Progress(c) \/ Write(c), NEW w \in Calls, HasWritten(w)'
  PROVE  HasWritten(w) \/ (w = c /\ pc[c] = "service")
<1>0. /\ pending \in [Calls -> SUBSET Calls] /\ call[c].block \in Calls \cup {None}
  BY DEF Typed, TypeOK
<1>1. CASE UNCHANGED store
  BY <1>1 DEF store, HasWritten
<1>2. CASE Raise(c)
  <2>1. UNCHANGED durable /\ \A d \in Calls : pending'[d] \subseteq pending[d]
    BY <1>0, <1>2 DEF Raise
  <2> QED BY <2>1 DEF HasWritten
<1>3. CASE Write(c)
  <2> DEFINE b == IF Spec_(c).atomic THEN c ELSE call[c].block
  <2>1. Deposit(b, {c}, pending) /\ pc[c] = "service" /\ b \in Calls \cup {None}
    BY <1>0, <1>3 DEF Write
  <2> HIDE DEF b
  <2>2. /\ durable' \subseteq durable \cup {c}
        /\ \A d \in Calls : pending'[d] \subseteq pending[d] \cup {c}
    BY <1>0, <2>1 DEF Deposit
  <2> QED BY <2>1, <2>2 DEF HasWritten
<1>4. CASE Return(c)
  <2> DEFINE held == [pending EXCEPT ![c] = {}]
  <2>1. Deposit(call[c].block, pending[c], held)
    BY <1>4 DEF Return
  <2>2. held \in [Calls -> SUBSET Calls] /\ \A d \in Calls : held[d] \subseteq pending[d]
    BY <1>0
  <2> HIDE DEF held
  <2>3. /\ durable' \subseteq durable \cup pending[c]
        /\ \A d \in Calls : pending'[d] \subseteq pending[d] \cup pending[c]
    BY <1>0, <2>1, <2>2 DEF Deposit
  <2> QED BY <2>3 DEF HasWritten
<1>5. UNCHANGED store \/ Raise(c) \/ Return(c) \/ Write(c)
  BY DEF Progress, RouteAuthorValues, ResolveTarget, TargetMissing, AskGuard, ReadInput, CheckArguments, NoTarget, Select, SelectNothing, SelectMissing, CallGuard, Validate, Preconditions, Reread, Leave, Answer
<1> QED BY <1>1, <1>2, <1>3, <1>4, <1>5

(* And what has written does not look for another row or ask again. *)
LEMMA WriterStays ==
  ASSUME Typed, NEW c \in Calls, Progress(c) \/ Write(c), Writer(c)
  PROVE  Writer(c)'
<1>0. pc \in [Calls -> Stages] /\ UNCHANGED call /\ Writer(c)
  BY OthersUntouched DEF Typed, TypeOK
<1>1. (Spec_(c))' = Spec_(c)
  BY <1>0 DEF Spec_
<1>2. UNCHANGED <<asked, target>> /\ pc'[c] \in {"service", "reread"} \cup Ended
  BY <1>0 DEF Writer, Ended, Goto, Progress, RouteAuthorValues, ResolveTarget, TargetMissing,
     AskGuard, ReadInput, CheckArguments, NoTarget, Select, SelectNothing, SelectMissing, CallGuard, Validate,
     Preconditions, Return, Reread, Raise, Leave, Answer, Write
<1> QED BY <1>0, <1>1, <1>2 DEF Writer, LetBy

(* So every step keeps the writers let by. *)
LEMMA NextWriters == Typed /\ Own /\ Writers /\ [Next]_vars => Writers'
<1> SUFFICES ASSUME Typed, Own, Writers, [Next]_vars, NEW w \in Calls, HasWritten(w)'
             PROVE  Writer(w)'
  BY DEF Writers
<1>1. ASSUME NEW c \in Calls, Progress(c) \/ Write(c) PROVE Writer(w)'
  <2>1. CASE w = c
    <3>1. OwnState(c) /\ (pc[c] = "service" => pc[c] \in Path(c))
      BY DEF Own, OwnState
    <3>2. pc[c] = "service" => Writer(c)
      <4>1. Spec_(c).kind \in {"service", "selector"} \/ pc[c] = "unborn"
        BY CallAssumption DEF Typed, Registered, Spec_, Declarations
      <4> QED BY <3>1, <4>1 DEF Writer, OwnState, Awaiting, Ended, LetBy, Path
    <3> QED BY <1>1, <2>1, <3>2, StepWrites, WriterStays DEF Writers
  <2>2. CASE w # c
    <3>1. /\ HasWritten(w) /\ pc'[w] = pc[w] /\ asked'[w] = asked[w] /\ target'[w] = target[w]
          /\ call' = call
      BY <1>1, <2>2, StepWrites, OthersUntouched
    <3> QED BY <3>1 DEF Writers, Writer, LetBy, Spec_
  <2> QED BY <2>1, <2>2
<1>2. CASE UNCHANGED vars
  BY <1>2 DEF Writers, Writer, HasWritten, LetBy, Spec_, vars
<1>3. CASE Begin
  <2>0. pc \in [Calls -> Stages] /\ DOMAIN call = Calls
    BY DEF Typed, TypeOK
  <2>1. PICK c \in Calls, p \in Calls \cup {None}, s \in Specs :
            \/ \E t \in Tasks, o \in Origins, g \in BOOLEAN : BeginEdge(c, p, t, s, o, g)
            \/ p # None /\ BeginKernel(c, p, s)
    BY <1>3 DEF Begin
  <2>2. /\ pc[c] = "unborn"
        /\ \A d \in Calls \ {c} : pc'[d] = pc[d] /\ call'[d] = call[d]
        /\ UNCHANGED <<asked, target, pending, durable>>
    BY <2>0, <2>1 DEF BeginEdge, BeginKernel, MayCall, Goto, store
  <2>3. HasWritten(w) /\ Writer(w) /\ w # c
    BY <2>2 DEF HasWritten, Writers, Writer, Ended
  <2> QED BY <2>2, <2>3 DEF Writer, LetBy, Spec_
<1> QED BY <1>1, <1>2, <1>3 DEF Next, Finished

-----------------------------------------------------------------------------
(* EdgeCall does what CallPromise says.                                    *)

(* All that is known of a reachable state. *)
Known == /\ Typed /\ Stacked /\ Own /\ Missing /\ AllHeard /\ Blocked /\ Courses /\ Writers

LEMMA KnownAlways == Spec => []Known
<1>1. Init => Missing /\ Blocked /\ Courses /\ Writers
  <2> SUFFICES ASSUME Init PROVE Missing /\ Blocked /\ Courses /\ Writers
    OBVIOUS
  <2>1. \A c \in Calls : /\ pc[c] = "unborn" /\ asked[c] = NotAsked /\ bound[c] = None
                         /\ seat[c] = None /\ filtered[c] = None /\ served[c] = FALSE
                         /\ outcome[c] = "none" /\ pending[c] = {} /\ target[c] = None
    BY DEF Init
  <2>2. Missing
    BY <2>1 DEF Missing, MissingState
  <2>3. Courses
    BY <2>1 DEF Courses, Course, Ended
  <2>4. Writers
    BY <2>1 DEF Init, Writers, HasWritten
  <2>5. Blocked
    BY DEF Init, Blocked, Chained, Held, Kept, NoCall
  <2> QED BY <2>2, <2>3, <2>4, <2>5
<1> QED BY <1>1, NextMissing, NextBlocked, NextCourses, NextWriters, OwnAlways, HeardAlways, PTL
        DEF Spec, Known

(* What CallPromise sees of a call that was made. *)
LEMMA MadeIs ==
  ASSUME NEW c \in Calls, pc[c] # "unborn"
  PROVE  /\ MadeCalls[c].route = call[c].route /\ MadeCalls[c].spec = call[c].spec
         /\ MadeCalls[c].parent = call[c].parent /\ MadeCalls[c].guarded = call[c].guarded
         /\ MadeCalls[c].service = (Spec_(c).kind = "service")
         /\ MadeCalls[c].nullable = Spec_(c).nullable
         /\ Promise!Edge(c) = IsEdge(c) /\ Promise!LetBy(c) = LetBy(c)
         /\ Promise!Around(c) = AllAround(c)
         /\ Envs[c] = Env(c)
         /\ pc[c] # "done" => c \in OpenCalls
  BY DEF MadeCalls, Made, Promise!Edge, IsEdge, Promise!LetBy, LetBy, Promise!Around, AllAround,
         Envs, OpenCalls, Live

(* A step of a call that is not its answer changes nothing of the tree. *)
LEMMA SameTree ==
  ASSUME Typed, NEW c \in Calls, Progress(c) \/ Write(c), ~Answer(c)
  PROVE  UNCHANGED <<MadeCalls, OpenCalls, Envs, Answers>>
<1>1. UNCHANGED call /\ UNCHANGED token /\ \A d \in Calls \ {c} : pc'[d] = pc[d]
  BY OthersUntouched
<1>2. pc[c] \notin {"unborn", "done"} /\ pc'[c] \notin {"unborn", "done"}
  <2>1. pc \in [Calls -> Stages]
    BY DEF Typed, TypeOK
  <2>2. CASE Leave(c)
    BY <2>1, <2>2 DEF Leave, Goto
  <2> QED BY <2>1, <2>2, StepsAreLocal DEF LocalStep, Live
<1>3. \A d \in Calls : /\ Made(d)' = Made(d) /\ Env(d)' = Env(d) /\ Live(d)' = Live(d)
  BY <1>1, <1>2 DEF Made, Env, IsEdge, Live, Spec_
<1>4. \A d \in Calls : (IF pc'[d] = "done" THEN outcome'[d] ELSE "none")
                         = IF pc[d] = "done" THEN outcome[d] ELSE "none"
  BY <1>1, <1>2, OutcomeUntouched
<1> QED BY <1>3, <1>4 DEF MadeCalls, OpenCalls, Envs, Answers

(* The steps CallPromise knows nothing of. *)
LEMMA SilentSteps ==
  ASSUME Known, NEW c \in Calls,
         \/ RouteAuthorValues(c) \/ TargetMissing(c) \/ ReadInput(c) \/ NoTarget(c)
         \/ SelectNothing(c) \/ SelectMissing(c) \/ Raise(c) \/ Leave(c)
  PROVE  UNCHANGED Promise!vars
<1>1. ~Answer(c) /\ Progress(c)
  BY DEF Progress, RouteAuthorValues, TargetMissing, ReadInput, NoTarget, SelectNothing,
         SelectMissing, Raise, Leave, Answer
<1>2. UNCHANGED <<MadeCalls, OpenCalls, Envs, Answers>>
  BY <1>1, SameTree DEF Known
<1>3. UNCHANGED <<target, asked, bound, seat, filtered, served, durable>>
  BY DEF RouteAuthorValues, TargetMissing, ReadInput, NoTarget, SelectNothing, SelectMissing,
         Raise, Leave, heard, store
<1> QED BY <1>2, <1>3 DEF Promise!vars

(* A row is found while the guard has not been asked of one. *)
LEMMA FindStep ==
  ASSUME Known, NEW c \in Calls, ResolveTarget(c) \/ CheckArguments(c) \/ Select(c)
  PROVE  Promise!Find(c) \/ UNCHANGED Promise!vars
<1>1. ~Answer(c) /\ Progress(c) /\ pc[c] \in {"lookup", "kernel", "select"}
  BY DEF Progress, ResolveTarget, CheckArguments, Select, Answer
<1>2. UNCHANGED <<MadeCalls, OpenCalls, Envs, Answers>>
  BY <1>1, SameTree DEF Known
<1>3. UNCHANGED <<asked, bound, seat, filtered, served, durable>>
  BY DEF ResolveTarget, CheckArguments, Select, heard, store
<1>4. CASE UNCHANGED target
  BY <1>2, <1>3, <1>4 DEF Promise!vars
<1>5. CASE /\ pc[c] = "kernel" => ~IsEdge(c)
           /\ \E r \in Rows \cup {None} : target' = [target EXCEPT ![c] = r]
  <2>1. c \in OpenCalls
    BY <1>1 DEF OpenCalls, Live
  <2>2. MissingState(c) /\ OwnState(c) /\ ~served[c]
    BY <1>1 DEF Known, Missing, MissingState, Own, Early
  <2>3. Spec_(c).kind \in {"service", "selector"} /\ (call[c].guarded => IsEdge(c))
    BY <1>1, CallAssumption DEF Known, Typed, Registered, Spec_, Declarations, IsEdge
  <2>4. call[c].guarded => Awaiting(c)
    BY <1>1, <1>5, <2>2, <2>3 DEF Awaiting, OwnState, Path
  <2>5. asked[c] = NotAsked
    BY <1>1, <2>2, <2>4 DEF OwnState, MissingState
  <2> QED BY <1>2, <1>3, <1>5, <2>1, <2>2, <2>5
          DEF Promise!Find, Promise!NotAsked, NotAsked, Promise!heard, Promise!store
<1>6. \/ UNCHANGED target
      \/ /\ pc[c] = "kernel" => ~IsEdge(c)
         /\ \E r \in Rows \cup {None} : target' = [target EXCEPT ![c] = r]
  BY DEF ResolveTarget, CheckArguments, Select
<1> QED BY <1>4, <1>5, <1>6

(* The guard is asked once, by its own call. *)
LEMMA AskStep ==
  ASSUME Known, NEW c \in Calls, AskGuard(c) \/ CallGuard(c)
  PROVE  Promise!Ask(c) \/ UNCHANGED Promise!vars
<1>1. ~Answer(c) /\ Progress(c) /\ pc[c] \in {"guard", "guard_row"}
  BY DEF Progress, AskGuard, CallGuard, Answer
<1>2. UNCHANGED <<MadeCalls, OpenCalls, Envs, Answers>>
  BY <1>1, SameTree DEF Known
<1>3. UNCHANGED <<target, bound, seat, filtered, served, durable>>
  BY DEF AskGuard, CallGuard, heard, store
<1>4. CASE UNCHANGED asked
  BY <1>2, <1>3, <1>4 DEF Promise!vars
<1>5. CASE call[c].guarded /\ Asking(c, c)
  <2>1. c \in OpenCalls /\ MadeCalls[c].guarded
    BY <1>1, <1>5, MadeIs
  <2>2. MissingState(c) /\ OwnState(c) /\ ~served[c]
    BY <1>1 DEF Known, Missing, MissingState, Own, Early
  <2>3. asked[c] = NotAsked
    BY <1>1, <1>5, <2>2 DEF OwnState, Awaiting, Path
  <2>4. asked' = [asked EXCEPT ![c] = [times |-> 1, by |-> c, on |-> target[c]]]
    <3>1. asked[c].times + 1 = 1
      BY <2>3 DEF NotAsked
    <3> QED BY <1>5, <3>1 DEF Asking
  <2> QED BY <1>2, <1>3, <2>1, <2>2, <2>3, <2>4
          DEF Promise!Ask, Promise!NotAsked, NotAsked, Promise!heard, Promise!store
<1>6. CASE AskGuard(c)
  BY <1>4, <1>5, <1>6 DEF AskGuard
<1>7. CASE CallGuard(c)
  <2>1. call[c].guarded /\ IsEdge(c)
    BY <1>7 DEF CallGuard, Known, Own, OwnState, Typed, Registered, IsEdge
  <2>2. edgeCall[Task(c)] = c
    BY <1>7, <2>1, FindsItsOwn DEF CallGuard, Known, Env
  <2> QED BY <1>4, <1>5, <1>7, <2>1, <2>2 DEF CallGuard
<1> QED BY <1>6, <1>7

(* The body bound is the call's, or its edge call's of the same spec. *)
LEMMA BindStep == ASSUME Known, NEW c \in Calls, Validate(c) PROVE Promise!Bind(c)
<1>1. ~Answer(c) /\ Progress(c) /\ pc[c] = "validate" /\ InControl(c)
  BY DEF Progress, Validate, Answer
<1>2. UNCHANGED <<MadeCalls, OpenCalls, Envs, Answers>>
  BY <1>1, SameTree DEF Known
<1>3. /\ UNCHANGED <<target, asked, seat, filtered, served, durable>>
      /\ bound' = [bound EXCEPT ![c] = BodyFor(c)]
  BY DEF Validate, store
<1>4. OwnState(c) /\ Course(c)
  BY DEF Known, Own, Courses
<1>5. LetBy(c) /\ ~served[c] /\ bound[c] = None
  BY <1>1, <1>4 DEF OwnState, Awaiting, Ended, LetBy, Course
<1>6. \/ BodyFor(c) = c
      \/ /\ BodyFor(c) = Envs[c] /\ BodyFor(c) \in Calls
         /\ MadeCalls[BodyFor(c)].spec = MadeCalls[c].spec
  <2>1. CASE BodyFor(c) # c
    <3>1. /\ ~IsEdge(c) /\ token[c] # None /\ BodyFor(c) = token[c]
          /\ IsEdge(token[c]) /\ ValidatorOf(token[c]) = ValidatorOf(c)
      BY <1>1, <2>1, FindsItsBody DEF Known
    <3>2. token[c] \in Calls /\ pc[token[c]] # "unborn"
      BY <3>1 DEF Known, Typed, TypeOK, AllHeard, HeardState
    <3>3. call[token[c]].spec = call[c].spec
      BY <3>1 DEF ValidatorOf
    <3>4. MadeCalls[token[c]].spec = MadeCalls[c].spec
      BY <1>1, <3>2, <3>3, MadeIs
    <3> QED BY <3>1, <3>2, <3>4 DEF Envs, Env
  <2> QED BY <2>1
<1>7. c \in OpenCalls /\ Promise!LetBy(c)
  BY <1>1, <1>5, MadeIs
<1> QED BY <1>2, <1>3, <1>5, <1>6, <1>7 DEF Promise!Bind, Promise!acted, Promise!store

(* The author values seated are the call's own. *)
LEMMA SeatStep ==
  ASSUME Known, NEW c \in Calls, Preconditions(c)
  PROVE  Promise!Seat(c) \/ UNCHANGED Promise!vars
<1>1. ~Answer(c) /\ Progress(c) /\ pc[c] = "preconditions" /\ InControl(c)
  BY DEF Progress, Preconditions, Answer
<1>2. UNCHANGED <<MadeCalls, OpenCalls, Envs, Answers>>
  BY <1>1, SameTree DEF Known
<1>3. UNCHANGED <<target, asked, bound, filtered, served, durable>>
  BY DEF Preconditions, store
<1>4. OwnState(c) /\ Course(c) /\ seat \in [Calls -> Calls \cup {None}]
  BY DEF Known, Own, Courses, Typed, TypeOK
<1>5. LetBy(c) /\ ~served[c] /\ seat[c] = None
  BY <1>1, <1>4 DEF OwnState, Awaiting, Ended, LetBy, Course
<1>6. CASE IsEdge(c) /\ Spec_(c).kind = "service"
  <2>1. edgeCall[Task(c)] = c
    BY <1>1, <1>6, FindsItsOwn DEF Known, Env
  <2>2. seat' = [seat EXCEPT ![c] = c]
    BY <1>6, <2>1 DEF Preconditions
  <2>3. c \in OpenCalls /\ Promise!LetBy(c) /\ Promise!Edge(c)
    BY <1>1, <1>5, <1>6, MadeIs
  <2> QED BY <1>2, <1>3, <1>5, <2>2, <2>3 DEF Promise!Seat, Promise!acted, Promise!store
<1>7. CASE ~(IsEdge(c) /\ Spec_(c).kind = "service")
  <2>1. seat' = [seat EXCEPT ![c] = None]
    BY <1>7 DEF Preconditions
  <2>2. seat' = seat
    BY <1>4, <1>5, <2>1
  <2> QED BY <1>2, <1>3, <2>2 DEF Promise!vars
<1> QED BY <1>6, <1>7

(* The output is filtered by what the call was passed, or its edge call. *)
LEMMA FilterStep ==
  ASSUME Known, NEW c \in Calls, Reread(c)
  PROVE  Promise!Filter(c) \/ UNCHANGED Promise!vars
<1>1. ~Answer(c) /\ Progress(c) /\ pc[c] = "reread" /\ InControl(c)
  BY DEF Progress, Reread, Answer
<1>2. UNCHANGED <<MadeCalls, OpenCalls, Envs, Answers>>
  BY <1>1, SameTree DEF Known
<1>3. UNCHANGED <<target, asked, bound, seat, served, durable>>
  BY DEF Reread, store
<1>4. CASE UNCHANGED filtered
  BY <1>2, <1>3, <1>4 DEF Promise!vars
<1>5. CASE filtered' = [filtered EXCEPT ![c] = FilterFor(c)]
  <2>1. edgeCall[Task(c)] = Env(c) /\ Env(c) \in Calls \cup {None}
    BY <1>1, FindsItsOwn DEF Known, Env, Typed, TypeOK
  <2>2. Env(c) # None => state[Env(c)].filter
    BY <2>1 DEF Known, AllHeard, HeardState, Env
  <2>3. FilterFor(c) = Envs[c]
    BY <2>1, <2>2 DEF FilterFor, Envs
  <2>4. served[c] /\ filtered[c] = None /\ c \in OpenCalls
    BY <1>1, MadeIs DEF Known, Courses, Course
  <2> QED BY <1>2, <1>3, <1>5, <2>3, <2>4 DEF Promise!Filter, Promise!acted, Promise!store
<1> QED BY <1>4, <1>5 DEF Reread

(* What a step commits was written by services let by, and every atomic    *)
(* service around it has returned.                                         *)
LEMMA CommitStep ==
  ASSUME Known, NEW c \in Calls, Write(c) \/ Return(c) PROVE Promise!Commit
<1>0. /\ pending \in [Calls -> SUBSET Calls] /\ durable \subseteq Calls
      /\ Progress(c) \/ Write(c)
      /\ [Next]_vars
  BY DEF Known, Typed, TypeOK, Progress, Next
<1>1. Blocked' /\ Writers' /\ Typed'
  <2>1. Typed'
    BY <1>0, ProgressTyped, StutterTyped, BeginTyped DEF Known
  <2> QED BY <1>0, <2>1, NextBlocked, NextWriters DEF Known
<1>2. durable \subseteq durable' /\ UNCHANGED <<asked, target>>
  BY DEF Write, Return, Deposit
<1>3. UNCHANGED call /\ \A d \in Calls : pc[d] = "unborn" => pc'[d] = "unborn"
  BY <1>0, OthersUntouched, StillBorn DEF Known
<1>4. ASSUME NEW w \in durable' \ durable
      PROVE  /\ MadeCalls[w].service /\ Promise!LetBy(w)
             /\ \A b \in Promise!Around(w) : served'[b]
  <2>1. w \in Calls /\ pc'[w] # "unborn" /\ pc[w] # "unborn"
    BY <1>1, <1>3 DEF Blocked, Kept, Typed, TypeOK
  <2>2. Writer(w)'
    BY <1>1, <2>1 DEF Writers, HasWritten
  <2>3. Spec_(w).kind = "service" /\ LetBy(w)
    BY <1>2, <1>3, <2>2 DEF Writer, LetBy, Spec_
  <2>4. \A x \in AllAround(w) : served'[x]
    <3>1. AllAround(w)' = AllAround(w)
      BY <1>3 DEF AllAround, Spec_
    <3> QED BY <1>1, <3>1 DEF Blocked, Kept
  <2> QED BY <2>1, <2>3, <2>4, MadeIs
<1> QED BY <1>2, <1>4 DEF Promise!Commit

LEMMA WriteStep == ASSUME Known, NEW c \in Calls, Write(c) PROVE Promise!Write
<1>1. ~Answer(c)
  BY DEF Write, Answer
<1>2. UNCHANGED <<MadeCalls, OpenCalls, Envs, Answers>>
  BY <1>1, SameTree DEF Known
<1>3. UNCHANGED <<target, asked, bound, seat, filtered, served>>
  BY DEF Write, heard
<1> QED BY <1>2, <1>3, CommitStep DEF Promise!Write, Promise!acted, Promise!heard

(* A service that returns was let by and handed its own. *)
LEMMA ServeStep == ASSUME Known, NEW c \in Calls, Return(c) PROVE Promise!Serve(c)
<1>1. ~Answer(c) /\ Progress(c) /\ pc[c] = "service"
  BY DEF Progress, Return, Answer
<1>2. UNCHANGED <<MadeCalls, OpenCalls, Envs, Answers>>
  BY <1>1, SameTree DEF Known
<1>3. /\ UNCHANGED <<target, asked, bound, seat, filtered>>
      /\ served' = [served EXCEPT ![c] = TRUE]
  BY DEF Return, heard
<1>4. OwnState(c)
  BY DEF Known, Own
<1>5. LetBy(c) /\ ~served[c] /\ seat[c] = (IF IsEdge(c) THEN c ELSE None)
  BY <1>1, <1>4 DEF OwnState, Awaiting, Ended, LetBy
<1>6. Spec_(c).kind = "service"
  <2>1. Spec_(c).kind \in {"service", "selector"}
    BY <1>1, CallAssumption DEF Known, Typed, Registered, Spec_, Declarations
  <2> QED BY <1>1, <1>4, <2>1 DEF OwnState, Path
<1>7. /\ c \in OpenCalls /\ Promise!LetBy(c) /\ MadeCalls[c].service
      /\ Promise!Edge(c) = IsEdge(c)
  BY <1>1, <1>5, <1>6, MadeIs
<1> QED BY <1>2, <1>3, <1>5, <1>7, CommitStep DEF Promise!Serve, Promise!acted, Promise!heard

(* A call is answered after those it made, and as it went. *)
LEMMA AnswerStep == ASSUME Known, NEW c \in Calls, Answer(c) PROVE Promise!Answer(c)
<1>0. /\ pc \in [Calls -> Stages] /\ outcome \in [Calls -> {"none", "ok", "not_found", "raised"}]
      /\ pc[c] = "answer" /\ pc' = [pc EXCEPT ![c] = "done"]
      /\ \A d \in Calls : call[d].parent \in Calls \cup {None}
  BY DEF Known, Typed, TypeOK, Answer, Goto
<1>1. /\ UNCHANGED <<call, token, target, asked, bound, seat, filtered, served, durable>>
  BY DEF Answer, heard, store
<1>2. /\ \A d \in Calls : Made(d)' = Made(d) /\ Env(d)' = Env(d)
      /\ \A d \in Calls : Live(d)' <=> Live(d) /\ d # c
  BY <1>0, <1>1 DEF Made, Env, IsEdge, Live, Spec_
<1>3. MadeCalls' = MadeCalls /\ Envs' = Envs /\ OpenCalls' = OpenCalls \ {c}
  BY <1>2 DEF MadeCalls, Envs, OpenCalls
<1>4. \A d \in OpenCalls : MadeCalls[d].parent # c
  <2> SUFFICES ASSUME NEW d \in Calls, Live(d), MadeCalls[d].parent = c PROVE FALSE
    BY DEF OpenCalls
  <2>1. call[d].parent = c
    BY MadeIs DEF Live
  <2>2. pc[c] \in UserCode
    BY <2>1, CallAssumption DEF Known, Stacked, Nested
  <2> QED BY <1>0, <2>2 DEF UserCode
<1>5. outcome'[c] = outcome[c] \/ outcome'[c] = "raised"
  BY <1>0 DEF Answer
<1>6. Answers' = [Answers EXCEPT ![c] = outcome'[c]]
  <2>1. \A d \in Calls \ {c} : outcome'[d] = outcome[d]
    BY OutcomeUntouched DEF Known, Progress
  <2> QED BY <1>0, <2>1 DEF Answers
<1>7. /\ outcome'[c] \in {"ok", "not_found", "raised"}
      /\ outcome'[c] = "ok" => (LetBy(c) \/ Nothing(c)) /\ (Spec_(c).kind = "service" => served[c])
      /\ outcome'[c] = "not_found" => asked[c].on = None /\ bound[c] = None /\ ~served[c]
  <2>1. Course(c) /\ MissingState(c)
    BY DEF Known, Courses, Missing
  <2> QED BY <1>0, <1>5, <2>1 DEF Course, MissingState, Ended
<1>8. /\ c \in OpenCalls /\ Promise!LetBy(c) = LetBy(c)
      /\ MadeCalls[c].service = (Spec_(c).kind = "service")
      /\ MadeCalls[c].nullable = Spec_(c).nullable
  BY <1>0, MadeIs
<1>9. Nothing(c) => Promise!Nothing(c)
  BY <1>8 DEF Nothing, Promise!Nothing, NotAsked, Promise!NotAsked
<1> QED BY <1>1, <1>3, <1>4, <1>6, <1>7, <1>8, <1>9
        DEF Promise!Answer, Promise!acted, Promise!heard, Promise!store

(* A call is made inside one under way, and finds what that call finds. *)
LEMMA MakeStep == ASSUME Known, Begin PROVE Promise!Next
<1>0. /\ pc \in [Calls -> Stages] /\ DOMAIN call = Calls /\ DOMAIN token = Calls
      /\ \A d \in Calls : call[d].blocks \subseteq Calls
  BY DEF Known, Typed, TypeOK
<1>1. PICK c \in Calls, p \in Calls \cup {None}, s \in Specs :
          \/ \E t \in Tasks, o \in Origins, g \in BOOLEAN : BeginEdge(c, p, t, s, o, g)
          \/ p # None /\ BeginKernel(c, p, s)
  BY DEF Begin
<1>2. /\ pc[c] = "unborn" /\ pc'[c] \in {"kernel", "input", "author"}
      /\ \A d \in Calls \ {c} : pc'[d] = pc[d] /\ call'[d] = call[d] /\ token'[d] = token[d]
      /\ UNCHANGED <<target, asked, bound, seat, filtered, outcome, served, durable>>
      /\ p # None => pc[p] \in UserCode /\ OnTop(p) /\ p # c /\ p \in Calls
  BY <1>0, <1>1 DEF BeginEdge, BeginKernel, MayCall, Goto, heard, store, FirstStage, UserCode
<1>3. /\ call'[c].spec = s /\ call'[c].parent = p /\ call'[c].blocks = BlocksFor(p)
      /\ call'[c].route \in {"edge", "kernel"} /\ call'[c].guarded \in BOOLEAN
      /\ p = None \/ call'[c].guarded => call'[c].route = "edge"
      /\ call'[c].route = "kernel" => p # None /\ token'[c] = edgeCall[Task(p)]
  <2>1. CASE p # None /\ BeginKernel(c, p, s)
    BY <1>0, <2>1 DEF BeginKernel
  <2>2. ASSUME NEW t \in Tasks, NEW o \in Origins, NEW g \in BOOLEAN, BeginEdge(c, p, t, s, o, g)
        PROVE  /\ call'[c].spec = s /\ call'[c].parent = p /\ call'[c].blocks = BlocksFor(p)
               /\ call'[c].route = "edge" /\ call'[c].guarded = g
    BY <1>0, <2>2 DEF BeginEdge
  <2> QED BY <1>1, <2>1, <2>2
<1>4. p # None => edgeCall[Task(p)] = Env(p)
  BY <1>2 DEF Known, Stacked, TopHolds, Live, UserCode
<1> DEFINE kind == Made(c)'
<1>5. kind = [route |-> call'[c].route, spec |-> s, parent |-> p, guarded |-> call'[c].guarded,
              service |-> Decl[s].kind = "service", atomic |-> Decl[s].atomic,
              nullable |-> Decl[s].nullable, within |-> BlocksFor(p)]
  BY <1>2, <1>3 DEF Made, Spec_
<1>6. BlocksFor(p) \in Promise!Surroundings(p)
  <2>1. CASE p = None
    BY <2>1 DEF BlocksFor, Promise!Surroundings
  <2>2. CASE p # None
    <3>1. MadeCalls[p].within = call[p].blocks /\ MadeCalls[p].atomic = Spec_(p).atomic
      BY <1>2, <2>2 DEF MadeCalls, Made, UserCode
    <3>2. Opened(p) => Spec_(p).atomic /\ ~served[p]
      BY <1>2, <2>2 DEF Opened, Known, Own, OwnState, Ended
    <3> QED BY <2>2, <3>1, <3>2 DEF BlocksFor, Promise!Surroundings
  <2> QED BY <2>1, <2>2
<1>7. kind \in Promise!Kinds(p)
  <2>1. Decl[s].atomic \in BOOLEAN /\ Decl[s].nullable \in BOOLEAN
    BY CallAssumption DEF Declarations
  <2> QED BY <1>3, <1>5, <1>6, <2>1 DEF Promise!Kinds
<1>8. MadeCalls[c] = Promise!Unmade /\ MadeCalls' = [MadeCalls EXCEPT ![c] = kind]
  <2>1. \A d \in Calls \ {c} : Made(d)' = Made(d)
    BY <1>2 DEF Made, Spec_
  <2>2. Made(c) = Promise!Unmade
    BY <1>2 DEF Made, Promise!Unmade
  <2> HIDE DEF kind
  <2>3. MadeCalls' = [d \in Calls |-> Made(d)']
    BY DEF MadeCalls
  <2> QED BY <2>1, <2>2, <2>3 DEF MadeCalls, kind
<1>9. OpenCalls' = OpenCalls \cup {c} /\ p \in OpenCalls \cup {None}
  <2>1. \A d \in Calls : Live(d)' <=> Live(d) \/ d = c
    BY <1>2 DEF Live
  <2>2. p # None => Live(p) /\ p \in Calls
    BY <1>2 DEF Live, UserCode
  <2> QED BY <2>1, <2>2 DEF OpenCalls
<1>10. Envs' = [Envs EXCEPT ![c] = IF kind.route = "edge" THEN c ELSE Envs[p]]
  <2>1. \A d \in Calls \ {c} : Env(d)' = Env(d)
    BY <1>2 DEF Env, IsEdge
  <2>2. Env(c)' = IF kind.route = "edge" THEN c ELSE Envs[p]
    BY <1>2, <1>3, <1>4, <1>5 DEF Env, IsEdge, Envs
  <2> HIDE DEF kind
  <2> QED BY <2>1, <2>2 DEF Envs
<1>11. Answers' = Answers
  <2>1. \A d \in Calls : (IF pc'[d] = "done" THEN outcome'[d] ELSE "none")
                           = IF pc[d] = "done" THEN outcome[d] ELSE "none"
    BY <1>2
  <2> QED BY <2>1 DEF Answers
<1>12. p = None \/ kind.guarded => kind.route = "edge"
  BY <1>3, <1>5
<1> HIDE DEF kind
<1>13. Promise!Make(c, p, kind)
  BY <1>2, <1>8, <1>9, <1>10, <1>11, <1>12
     DEF Promise!Make, Promise!acted, Promise!heard, Promise!store
<1> QED BY <1>7, <1>8, <1>9, <1>13 DEF Promise!Next

(* Every step is one of CallPromise's, or none of its business. *)
LEMMA NextPromise == Known /\ [Next]_vars => [Promise!Next]_(Promise!vars)
<1> SUFFICES ASSUME Known, [Next]_vars PROVE Promise!Next \/ UNCHANGED Promise!vars
  OBVIOUS
<1>1. ASSUME NEW c \in Calls, Progress(c) PROVE Promise!Next \/ UNCHANGED Promise!vars
  BY <1>1, SilentSteps, FindStep, AskStep, BindStep, SeatStep, FilterStep, ServeStep, AnswerStep
     DEF Progress, Promise!Next
<1>2. ASSUME NEW c \in Calls, Write(c) PROVE Promise!Next
  BY <1>2, WriteStep DEF Promise!Next
<1>3. UNCHANGED vars => UNCHANGED Promise!vars
  BY DEF vars, Promise!vars, MadeCalls, Made, OpenCalls, Envs, Env, Answers, Live, IsEdge, Spec_
<1> QED BY <1>1, <1>2, <1>3, MakeStep DEF Next, Finished

LEMMA InitPromise == Init => Promise!Init
<1> SUFFICES ASSUME Init PROVE Promise!Init
  OBVIOUS
<1>1. \A c \in Calls : /\ Made(c) = Promise!Unmade /\ Env(c) = None /\ ~Live(c)
                       /\ pc[c] # "done"
  BY DEF Init, Made, Promise!Unmade, Env, IsEdge, NoCall, Live
<1> QED BY <1>1 DEF Init, Promise!Init, MadeCalls, OpenCalls, Envs, Answers, NotAsked,
                    Promise!NotAsked

(* One context variable to a task, set and reset by whichever calls share  *)
(* the task, each finding its own state, guard, body and block through it  *)
(* (edge_call, prepare_edge_call, the pieces compiled into the kernel's    *)
(* spec), does what CallPromise says of each call by itself.               *)
THEOREM CallsKeepThePromise == Spec => PromiseSpec
<1> QED BY KnownAlways, InitPromise, NextPromise, PTL DEF Spec, PromiseSpec, Promise!Spec

=============================================================================
