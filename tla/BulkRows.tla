------------------------------ MODULE BulkRows ------------------------------
(***************************************************************************)
(* One call of a many spec: the rows it is sent, checked twice - by the    *)
(* kernel, row by row, and by the one list serializer SerializerValidator  *)
(* binds to them - and answered once, by each row's place in what the      *)
(* caller sent.                                                            *)
(*                                                                         *)
(* The rows may be the arguments themselves, an HTTP list body, or sit     *)
(* under many_argument; the call may come over a live view, off HTTP, or   *)
(* past the edge by the kernel's own dispatch.  What each of the two reads *)
(* of a row, and which of them answers, differs with that.                 *)
(*                                                                         *)
(* A row is the kind of row it is.  A refusal is the reason, beside the    *)
(* row; its wording, and the list or mapping DRF's version lays it out in, *)
(* are left out.                                                           *)
(***************************************************************************)
EXTENDS Integers, Sequences, FiniteSets

CONSTANTS
    MaxRows,  \* how many rows a call may send
    Bounds,   \* lengths a list serializer may be bounded by
    None      \* no bound, no refusal, no body

Kinds == {"good",
          "blank",       \* well typed, and refused by the serializer
          "mistyped",    \* of another type than a field declares
          "undeclared",  \* with a key no field declares
          "seeded",      \* its required field is named like a seed
          "scalar"}      \* no object

Calls ==
    [edge   : BOOLEAN,              \* through dispatch_spec
     live   : BOOLEAN,              \* over a live DRF view
     keyed  : BOOLEAN,              \* many_as_argument
     form   : {"list", "no list", "no object"},
     beside : BOOLEAN,              \* an undeclared argument beside the rows
     reject : BOOLEAN,              \* UnknownArguments.REJECT
     server : BOOLEAN,              \* input_data mends what a client may send
     least  : Bounds \cup {None},   \* ListSerializer.min_length
     most   : Bounds \cup {None},   \* max_length
     empty  : BOOLEAN,              \* allow_empty
     built  : BOOLEAN]              \* built without a call, so read as compiled

Why == {"object", "undeclared", "shape", "field"}

(* None is none of the things it stands for the absence of.                *)
ASSUME BulkAssumption ==
    /\ MaxRows \in Nat /\ Bounds \subseteq Nat
    /\ None \notin Nat \cup Why \cup Kinds
    /\ None \notin {"bound", "check", "no list", "no object"}
    /\ \A n \in 0..MaxRows :
          /\ None \notin [1..n -> Kinds]
          /\ None \notin [rows : [1..n -> Why \cup {None}], list : {None, "bound", "check"}]

(* A live view's call goes through the edge, and the kernel's own dispatch *)
(* takes its rows under the argument.                                      *)
Possible ==
    {c \in Calls :
        /\ c.live => c.edge
        /\ ~c.edge => c.keyed /\ ~c.server /\ c.form = "list"
        /\ c.beside \/ c.form = "no object" => c.keyed
        /\ c.beside => c.form # "no object"}

VARIABLES
    stage,     \* how far the call has come
    call,      \* how it was made, and of what spec
    sent,      \* the rows sent
    arguments, \* the rows the kernel checks
    state,     \* EdgeCallState: [body, whole, beside, rowErrors]
    refused,   \* row -> why the kernel refused it
    passed,    \* the indices of the rows it hands the Validator
    read,      \* the rows the serializer read
    judged,    \* the rows the list's own validate() was run over
    detail,    \* what the kernel refuses the call with
    handed,    \* the rows the service was handed, by their indices
    answer     \* what the caller is told

vars == <<stage, call, sent, arguments, state, refused, passed, read, judged,
          detail, handed, answer>>

Index == DOMAIN sent
Everything == [i \in Index |-> i]
NoRow == [i \in Index |-> None]
Nothing == [rows |-> NoRow, list |-> None, beside |-> FALSE]
EmptyState == [body |-> None, whole |-> FALSE, beside |-> FALSE, rowErrors |-> None]

Init ==
    /\ stage = "prepare"
    /\ call \in Possible
    /\ sent \in UNION {[1..n -> Kinds] : n \in 0..MaxRows}
    /\ arguments = NoRow
    /\ state = EmptyState
    /\ refused = NoRow
    /\ passed = <<>> /\ read = {} /\ judged = {}
    /\ detail = Nothing
    /\ handed = <<>>
    /\ answer = Nothing

-----------------------------------------------------------------------------
(* The rows each side reads.                                               *)

(* {**row, **server} where the row is an object.                           *)
Mended(kind) == IF call.server /\ kind \in {"blank", "mistyped"} THEN "good" ELSE kind

(* What is left of a row less its seed's name: it lacks a field.           *)
Seedless(kind) == IF kind = "seeded" THEN "seedless" ELSE kind

(* without_seed_names, which the kernel's own dispatch does not ask.       *)
Argument(kind) == IF call.edge THEN Seedless(Mended(kind)) ELSE kind

Body == [i \in Index |-> Mended(sent[i])]

(* A mistake: the body bound is the arguments, less the seeds' names. *)
PrepareArguments ==
    /\ stage = "prepare"
    /\ stage' = "check"
    /\ arguments' = [i \in Index |-> Argument(sent[i])]
    /\ state' =
         IF call.edge /\ call.form = "list"
         THEN [EmptyState EXCEPT !.body = [i \in Index |-> Argument(sent[i])],
                                 !.whole = call.live /\ ~call.keyed,
                                 !.beside = call.beside]
         ELSE [EmptyState EXCEPT !.beside = call.edge /\ call.beside]
    /\ UNCHANGED <<call, sent, refused, passed, read, judged, detail, handed, answer>>

(* prepare_edge_call for a many spec: the kernel's rows less the seeds'    *)
(* names, the body as it was sent, the server's keys over each.            *)
PrepareRows ==
    /\ stage = "prepare"
    /\ stage' = "check"
    /\ arguments' = [i \in Index |-> Argument(sent[i])]
    /\ state' =
         IF call.edge /\ call.form = "list"
         THEN [EmptyState EXCEPT !.body = Body,
                                 !.whole = call.live /\ ~call.keyed,
                                 !.beside = call.beside]
         ELSE [EmptyState EXCEPT !.beside = call.edge /\ call.beside]
    /\ UNCHANGED <<call, sent, refused, passed, read, judged, detail, handed, answer>>

-----------------------------------------------------------------------------
(* The kernel's check of the arguments.                                    *)

(* _list_bounds, which a live view's variant lifts.                        *)
KernelBounds == ~call.live /\ call.built

Below(n) == call.least # None /\ n < call.least
Above(n) == call.most # None /\ n > call.most
OutOfBounds(n) == Above(n) \/ Below(n) \/ (n = 0 /\ ~call.empty)

(* Why the kernel refuses a row; a lenient Validator's fields are of any   *)
(* type, and a seed's name is declared by none.                            *)
Unfit(kind) ==
    CASE kind = "scalar" -> "object"
      [] kind \in {"undeclared", "seeded"} /\ call.reject -> "undeclared"
      [] kind = "mistyped" /\ ~call.live -> "shape"
      [] OTHER -> None

(* The arguments are refused as a whole, their rows unread.                *)
Unreadable ==
    IF call.form # "list" THEN call.form
    ELSE IF KernelBounds /\ OutOfBounds(Len(sent)) THEN "bound" ELSE None

RefuseArguments ==
    /\ stage = "check"
    /\ Unreadable # None \/ (call.beside /\ call.reject)
    /\ \E rows \in {NoRow} \cup (IF Unreadable = None THEN {[i \in Index |-> Unfit(arguments[i])]}
                                ELSE {}) :
           detail' = [rows |-> rows, list |-> Unreadable,
                      beside |-> call.beside /\ call.reject]
    /\ stage' = "refused"
    /\ UNCHANGED <<call, sent, arguments, state, refused, passed, read, judged,
                   handed, answer>>

(* The sequences that list a set of indices in order.                      *)
Orders(set) ==
    {order \in [1..Cardinality(set) -> set] :
        \A p, q \in 1..Cardinality(set) : p < q => order[p] < order[q]}

CheckRows ==
    /\ stage = "check"
    /\ Unreadable = None /\ ~(call.beside /\ call.reject)
    /\ refused' = [i \in Index |-> Unfit(arguments[i])]
    /\ passed' \in Orders({i \in Index : Unfit(arguments[i]) = None})
    /\ stage' = "validate"
    /\ UNCHANGED <<call, sent, arguments, state, read, judged, detail, handed, answer>>

-----------------------------------------------------------------------------
(* SerializerValidator.validated_many.                                     *)

(* A mistake: a live view's rows are bound whole under an argument too. *)
IndicesOverHTTP == IF call.live THEN Everything ELSE passed

Indices == IF state.whole THEN Everything ELSE passed

EveryRow == state.body # None /\ Indices = Everything

(* The rows bound, each by its place in the list: the edge's, else what    *)
(* the kernel hands on, the keys no field declares dropped.                *)
Bound ==
    IF EveryRow THEN state.body
    ELSE [p \in DOMAIN passed |->
            IF state.body # None THEN state.body[passed[p]]
            ELSE Seedless(arguments[passed[p]])]

(* Why the serializer refuses a row it reads.                              *)
Fault(kind) ==
    CASE kind = "scalar" -> "object"
      [] kind \in {"blank", "mistyped", "seedless"} -> "field"
      [] OTHER -> None

Errors == [p \in DOMAIN Bound |-> Fault(Bound[p])]
AnyError == \E p \in DOMAIN Bound : Errors[p] # None

(* A mistake: DRF's position is taken for the caller's index. *)
ByPosition(errors, indices) ==
    [i \in Index |-> IF i \in DOMAIN errors THEN errors[i] ELSE None]

(* _by_row: the errors of a list's positions, by the caller's own indices. *)
ByRow(errors, indices) ==
    [i \in Index |->
        IF \E p \in DOMAIN indices : indices[p] = i
        THEN errors[CHOOSE p \in DOMAIN indices : indices[p] = i]
        ELSE None]

(* The kernel joins what the Validator refuses to the rows it refused.     *)
Joined(rows) == [i \in Index |-> IF refused[i] # None THEN refused[i] ELSE rows[i]]

Refuse(rows, list, rowErrors) ==
    /\ detail' = [Nothing EXCEPT !.rows = Joined(rows), !.list = list]
    /\ state' = [state EXCEPT !.rowErrors = rowErrors]
    /\ stage' = "refused"
    /\ UNCHANGED handed

Whole(rows, list) == IF state.whole THEN [rows |-> rows, list |-> list] ELSE None

(* The service is handed the rows where the kernel refused none of them.   *)
Proceed ==
    /\ UNCHANGED state
    /\ IF \A i \in Index : refused[i] = None
       THEN stage' = "served" /\ handed' = Indices /\ UNCHANGED detail
       ELSE /\ stage' = "refused" /\ UNCHANGED handed
            /\ detail' = [Nothing EXCEPT !.rows = refused]

ReadsAll == read' = {Indices[p] : p \in DOMAIN Indices}
JudgesAll == judged' = {Indices[p] : p \in DOMAIN Indices}

(* A list serializer's is_valid(): its bounds, then its rows, then its own *)
(* validate(); then what was sent beside the rows.                         *)
ValidateList ==
    /\ stage = "validate"
    /\ state.body = None \/ EveryRow
    /\ \/ /\ OutOfBounds(Len(Bound))
          /\ Refuse(NoRow, "bound", Whole(NoRow, "bound"))
          /\ UNCHANGED <<read, judged>>
       \/ /\ ~OutOfBounds(Len(Bound)) /\ AnyError
          /\ LET rows == ByRow(Errors, Indices) IN Refuse(rows, None, Whole(rows, None))
          /\ ReadsAll /\ UNCHANGED judged
       \/ /\ ~OutOfBounds(Len(Bound)) /\ ~AnyError
          /\ ReadsAll /\ JudgesAll
          /\ \/ Refuse(NoRow, "check", Whole(NoRow, "check"))
             \/ /\ EveryRow /\ state.beside
                /\ detail' = [Nothing EXCEPT !.beside = TRUE]
                /\ stage' = "refused" /\ UNCHANGED <<state, handed>>
             \/ ~(EveryRow /\ state.beside) /\ Proceed
    /\ UNCHANGED <<call, sent, arguments, refused, passed, answer>>

(* A mistake: the rows left are held to the list's bounds, not the rows sent. *)
ValidateLeftByTheLeft ==
    /\ stage = "validate"
    /\ state.body # None /\ ~EveryRow
    /\ \/ /\ Above(Len(Bound)) \/ Below(Len(Bound))
          /\ Refuse(NoRow, "bound", [rows |-> NoRow, list |-> "bound"])
          /\ UNCHANGED <<read, judged>>
       \/ /\ ~(Above(Len(Bound)) \/ Below(Len(Bound))) /\ AnyError
          /\ Refuse(ByRow(Errors, Indices), None, None)
          /\ ReadsAll /\ UNCHANGED judged
       \/ /\ ~(Above(Len(Bound)) \/ Below(Len(Bound))) /\ ~AnyError
          /\ ReadsAll /\ UNCHANGED judged /\ Proceed
    /\ UNCHANGED <<call, sent, arguments, refused, passed, answer>>

(* A mistake: what the kernel refused is the answer, the rest unread. *)
ValidateLeftUnread ==
    /\ stage = "validate"
    /\ state.body # None /\ ~EveryRow
    /\ Refuse(NoRow, None, None)
    /\ UNCHANGED <<call, sent, arguments, refused, passed, read, judged, answer>>

(* _rows_past_a_refusal: the bounds hold the list as sent, and the rows    *)
(* left are read, never counted and never judged as a list.                *)
ValidateLeft ==
    /\ stage = "validate"
    /\ state.body # None /\ ~EveryRow
    /\ \/ /\ Above(Len(sent)) \/ Below(Len(sent))
          /\ Refuse(NoRow, "bound", [rows |-> NoRow, list |-> "bound"])
          /\ UNCHANGED <<read, judged>>
       \/ /\ ~(Above(Len(sent)) \/ Below(Len(sent))) /\ AnyError
          /\ Refuse(ByRow(Errors, Indices), None, None)
          /\ ReadsAll /\ UNCHANGED judged
       \/ /\ ~(Above(Len(sent)) \/ Below(Len(sent))) /\ ~AnyError
          /\ ReadsAll /\ UNCHANGED judged /\ Proceed
    /\ UNCHANGED <<call, sent, arguments, refused, passed, answer>>

-----------------------------------------------------------------------------
(* edge_errors.                                                            *)

(* _rows_as_drf: a row that is no object is told so, whatever refused it.  *)
RowsAsDrf(rows) ==
    [i \in Index |-> IF rows[i] # None /\ sent[i] = "scalar" THEN "object" ELSE rows[i]]

(* The kernel's refusal, or the list serializer's in place of its rows'.   *)
Answer ==
    /\ stage = "refused"
    /\ answer' =
         IF ~call.edge THEN detail
         ELSE IF state.rowErrors # None
         THEN [detail EXCEPT !.rows = state.rowErrors.rows, !.list = state.rowErrors.list]
         ELSE [detail EXCEPT !.rows = RowsAsDrf(detail.rows)]
    /\ stage' = "answered"
    /\ UNCHANGED <<call, sent, arguments, state, refused, passed, read, judged,
                   detail, handed>>

-----------------------------------------------------------------------------

Next ==
    \/ PrepareRows \/ RefuseArguments \/ CheckRows
    \/ ValidateList \/ ValidateLeft \/ Answer

Spec == Init /\ [][Next]_vars

-----------------------------------------------------------------------------
(* Properties.                                                             *)

RowErrors == [Index -> Why \cup {None}]
Details == [rows : RowErrors, list : {None, "bound", "check", "no list", "no object"},
            beside : BOOLEAN]

TypeOK ==
    /\ stage \in {"prepare", "check", "validate", "refused", "served", "answered"}
    /\ call \in Possible
    /\ sent \in UNION {[1..n -> Kinds] : n \in 0..MaxRows}
    /\ arguments \in [Index -> Kinds \cup {"seedless", None}]
    /\ state \in [body      : [Index -> Kinds] \cup {None},
                  whole     : BOOLEAN,
                  beside    : BOOLEAN,
                  rowErrors : [rows : RowErrors, list : {None, "bound", "check"}] \cup {None}]
    /\ refused \in RowErrors
    /\ \A p \in DOMAIN passed : passed[p] \in Index
    /\ read \subseteq Index /\ judged \subseteq Index
    /\ detail \in Details /\ answer \in Details
    /\ handed \in {<<>>, Everything}

(* What is wrong with a row as it was sent and mended.                     *)
Wrongs(i) ==
    CASE sent[i] = "scalar" -> {"object"}
      [] sent[i] = "undeclared" /\ call.reject -> {"undeclared"}
      [] sent[i] = "blank" /\ ~call.server -> {"field"}
      [] sent[i] = "mistyped" /\ ~call.server -> {"shape", "field"}
      [] sent[i] = "seeded" /\ ~call.edge -> {IF call.reject THEN "undeclared" ELSE "field"}
      [] OTHER -> {}

AllIsRight ==
    /\ call.form = "list" /\ ~OutOfBounds(Len(sent))
    /\ \A i \in Index : Wrongs(i) = {}
    /\ ~(call.beside /\ (call.edge \/ call.reject))

(* A refusal names no row that is right, and no row for another's fault:   *)
(* each index is the row's in what the caller sent, although the kernel    *)
(* may have kept rows before it from the serializer (_by_row).             *)
NamesOnlyWrongRows ==
    stage = "answered" => \A i \in Index : answer.rows[i] \in Wrongs(i) \cup {None}

(* A refusal of rows names every wrong row - those the kernel kept from    *)
(* the serializer and those the serializer refused together - but that a   *)
(* list serializer's answer to an HTTP list body stands before an          *)
(* undeclared key (_bare_rows_error).                                      *)
NamesEveryWrongRow ==
    stage = "answered" /\ answer.list = None /\ ~answer.beside =>
        \A i \in Index : Wrongs(i) # {} /\ answer.rows[i] = None =>
            /\ call.live /\ ~call.keyed /\ sent[i] = "undeclared"
            /\ \E j \in Index : answer.rows[j] \in {"object", "field"}

(* The service runs exactly where nothing is wrong with what was sent, and *)
(* is handed every row in its order; no row is dropped to serve the rest,  *)
(* and no argument sent beside them goes unsaid.                           *)
ServedWhereAllIsRight ==
    /\ stage = "served" => AllIsRight /\ handed = Everything /\ judged = Index
    /\ stage = "answered" => ~AllIsRight \/ answer.list = "check"

(* The edge judges a list as it was sent: a list out of its bounds is told *)
(* that alone, and its validate() sees all of the rows or none             *)
(* (_rows_past_a_refusal).                                                 *)
ListJudgedAsSent ==
    call.edge =>
        /\ judged \in {{}, Index}
        /\ stage = "answered" /\ call.form = "list" =>
              /\ answer.list = "bound" => OutOfBounds(Len(sent)) /\ answer.rows = NoRow
              /\ OutOfBounds(Len(sent)) => answer.list = "bound" \/ answer.beside

(* A row the kernel refused is not read by the serializer as well, but for *)
(* an HTTP list body, which is bound whole (body_rows).                    *)
RefusedRowsStayUnread ==
    \A i \in read : refused[i] = None \/ (call.live /\ ~call.keyed)
=============================================================================
