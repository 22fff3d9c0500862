-------------------------- MODULE BulkRows_proofs --------------------------
(***************************************************************************)
(* What a many call answers and serves, for lists of any length and any    *)
(* bounds.                                                                 *)
(***************************************************************************)
EXTENDS BulkRows, FiniteSetTheorems, TLAPS

-----------------------------------------------------------------------------
(* A set of indices listed in order.                                       *)

(* A listing in order leaves none of the set out, which is what makes the  *)
(* rows handed to the serializer exactly the ones the kernel passed.       *)
LEMMA OrderIsOnto ==
    ASSUME NEW n \in Nat, NEW S \in SUBSET (1..n), NEW f \in Orders(S)
    PROVE  /\ Cardinality(S) \in Nat
           /\ f \in [1..Cardinality(S) -> S]
           /\ \A i \in S : \E p \in 1..Cardinality(S) : f[p] = i
<1>1. IsFiniteSet(S) /\ Cardinality(S) \in Nat
  <2>1. IsFiniteSet(1..n)
    BY FS_Interval
  <2>2. IsFiniteSet(S)
    BY <2>1, FS_Subset
  <2> QED BY <2>2, FS_CardinalityType
<1>2. /\ f \in [1..Cardinality(S) -> S]
      /\ \A p, q \in 1..Cardinality(S) : p < q => f[p] < f[q]
  BY DEF Orders
<1>3. \A p, q \in 1..Cardinality(S) : f[p] = f[q] => p = q
  <2> SUFFICES ASSUME NEW p \in 1..Cardinality(S), NEW q \in 1..Cardinality(S), f[p] = f[q]
               PROVE  p = q
    OBVIOUS
  <2>1. f[p] \in S /\ f[q] \in S /\ S \subseteq 1..n
    BY <1>2
  <2>2. f[p] \in 1..n /\ f[q] \in 1..n
    BY <2>1
  <2>3. ~(p < q) /\ ~(q < p)
    BY <2>2, <1>2
  <2> QED BY <2>3, <1>1
<1>4. f \in Injection(1..Cardinality(S), S)
  BY <1>2, <1>3 DEF Injection, IsInjective
<1>5. Cardinality(1..Cardinality(S)) = Cardinality(S)
  BY <1>1, FS_Interval
<1>6. f \in Surjection(1..Cardinality(S), S)
  BY <1>1, <1>4, <1>5, FS_Injection
<1> QED BY <1>1, <1>2, <1>6 DEF Surjection

(* Numbers listed in order from one stand each at its own place.           *)
LEMMA OrderOfAll ==
    ASSUME NEW n \in Nat, NEW f \in Orders(1..n)
    PROVE  f = [i \in 1..n |-> i]
<1>1. Cardinality(1..n) = n
  BY FS_Interval
<1>2. f \in [1..n -> 1..n] /\ \A p, q \in 1..n : p < q => f[p] < f[q]
  BY <1>1 DEF Orders
<1>3. ASSUME NEW p \in 1..n PROVE f[p] = p
  <2>0. f[p] \in 1..n /\ p \in Int /\ f[p] \in Int
    BY <1>2
  <2>1. p <= f[p]
    <3> DEFINE g == [q \in 1..p |-> f[q]]
    <3>1. \A q \in 1..p : q \in 1..n /\ f[q] \in 1..f[p]
      BY <1>2
    <3>2. \A q, r \in 1..p : g[q] = g[r] => q = r
      BY <3>1, <1>2
    <3>3. g \in Injection(1..p, 1..f[p])
      BY <3>1, <3>2 DEF Injection, IsInjective
    <3>4. Cardinality(1..p) <= Cardinality(1..f[p])
      BY <3>3, <2>0, FS_Interval, FS_Injection
    <3> QED BY <3>4, <2>0, FS_Interval
  <2>2. f[p] <= p
    <3> DEFINE g == [q \in p..n |-> f[q]]
    <3>1. \A q \in p..n : q \in 1..n /\ f[q] \in f[p]..n
      BY <1>2
    <3>2. \A q, r \in p..n : g[q] = g[r] => q = r
      BY <3>1, <1>2
    <3>3. g \in Injection(p..n, f[p]..n)
      BY <3>1, <3>2 DEF Injection, IsInjective
    <3>4. Cardinality(p..n) <= Cardinality(f[p]..n)
      BY <3>3, <2>0, FS_Interval, FS_Injection
    <3> QED BY <3>4, <2>0, FS_Interval
  <2> QED BY <2>0, <2>1, <2>2
<1> QED BY <1>2, <1>3

-----------------------------------------------------------------------------
(* What is wrong with a row, and who tells it.                             *)

(* The rows the kernel passes.                                             *)
Fits == {i \in Index : Unfit(Argument(sent[i])) = None}

(* A row as the serializer reads it.                                       *)
Row(i) == IF call.edge THEN Mended(sent[i]) ELSE Seedless(sent[i])

WholeBody == call.edge /\ call.form = "list" /\ call.live /\ ~call.keyed

(* The rows the serializer is given.                                       *)
Given == IF WholeBody THEN Index ELSE Fits

(* A list sent is a list of rows, as long as its indices are many.         *)
LEMMA SentIsAList ==
    ASSUME TypeOK
    PROVE  \E n \in 0..MaxRows :
              n \in Nat /\ Index = 1..n /\ Len(sent) = n /\ sent \in [1..n -> Kinds]
<1>1. PICK n \in 0..MaxRows : sent \in [1..n -> Kinds]
  BY DEF TypeOK
<1>2. n \in Nat
  <2>1. MaxRows \in Nat
    BY BulkAssumption
  <2> QED BY <2>1
<1>3. sent \in Seq(Kinds)
  BY <1>1, <1>2
<1>4. Len(sent) \in Nat /\ 1..Len(sent) = 1..n
  BY <1>1, <1>2, <1>3
<1>5. Len(sent) = n
  BY <1>2, <1>4
<1> QED BY <1>1, <1>2, <1>5 DEF Index

(* What the kernel refuses a row for is wrong with it.                     *)
LEMMA UnfitIsWrong ==
    ASSUME TypeOK, NEW i \in Index
    PROVE  Unfit(Argument(sent[i])) \in Wrongs(i) \cup {None}
<1>1. sent[i] \in Kinds /\ call \in Possible
  BY SentIsAList DEF TypeOK
<1> QED BY <1>1, BulkAssumption DEF Kinds, Possible, Calls, Unfit, Argument, Seedless, Mended, Wrongs

(* What the serializer refuses a row for is wrong with it, where the       *)
(* kernel passed it or the edge binds it as it was sent.                   *)
LEMMA FaultIsWrong ==
    ASSUME TypeOK, NEW i \in Index, call.edge \/ i \in Fits
    PROVE  Fault(Row(i)) \in Wrongs(i) \cup {None}
<1>1. sent[i] \in Kinds /\ call \in Possible
  BY SentIsAList DEF TypeOK
<1> QED BY <1>1, BulkAssumption
        DEF Fits, Kinds, Possible, Calls, Unfit, Argument, Seedless, Mended, Wrongs, Fault, Row

(* A wrong row is refused by one of the two; the serializer passes one     *)
(* over the edge for an undeclared key alone.                              *)
LEMMA WrongIsRefused ==
    ASSUME TypeOK, NEW i \in Index, Wrongs(i) # {}
    PROVE  /\ i \notin Fits \/ Fault(Row(i)) # None
           /\ call.edge /\ Fault(Row(i)) = None => sent[i] = "undeclared"
<1>1. sent[i] \in Kinds /\ call \in Possible
  BY SentIsAList DEF TypeOK
<1> QED BY <1>1, BulkAssumption
        DEF Why, Fits, Kinds, Possible, Calls, Unfit, Argument, Seedless, Mended, Wrongs, Fault, Row

(* Either gives no reason but the ones there are.                          *)
LEMMA ReasonsAreTyped ==
    ASSUME NEW kind
    PROVE  Unfit(kind) \in Why \cup {None} /\ Fault(kind) \in Why \cup {None}
BY DEF Unfit, Fault, Why

-----------------------------------------------------------------------------
(* The invariant.                                                          *)

Prepared ==
    stage # "prepare" =>
        /\ arguments = [i \in Index |-> Argument(sent[i])]
        /\ state.body = IF call.edge /\ call.form = "list" THEN Body ELSE None
        /\ state.whole = WholeBody
        /\ state.beside = (call.edge /\ call.beside)

Unvalidated ==
    stage \in {"prepare", "check", "validate"} =>
        /\ state.rowErrors = None /\ detail = Nothing
        /\ read = {} /\ judged = {} /\ handed = <<>>

Checked ==
    stage = "validate" =>
        /\ call.form = "list" /\ ~(call.beside /\ call.reject)
        /\ refused = [i \in Index |-> Unfit(Argument(sent[i]))]
        /\ passed \in Orders(Fits)

(* An answer the properties allow.                                         *)
Just(a) ==
    /\ \A i \in Index : a.rows[i] \in Wrongs(i) \cup {None}
    /\ a.list = None /\ ~a.beside =>
          \A i \in Index : Wrongs(i) # {} /\ a.rows[i] = None =>
              /\ call.live /\ ~call.keyed /\ sent[i] = "undeclared"
              /\ \E j \in Index : a.rows[j] \in {"object", "field"}
    /\ ~AllIsRight \/ a.list = "check"
    /\ call.edge /\ call.form = "list" =>
          /\ a.list = "bound" => OutOfBounds(Len(sent)) /\ a.rows = NoRow
          /\ OutOfBounds(Len(sent)) => a.list = "bound" \/ a.beside

(* What edge_errors makes of a refusal.                                    *)
Told(d, rowErrors) ==
    IF ~call.edge THEN d
    ELSE IF rowErrors # None THEN [d EXCEPT !.rows = rowErrors.rows, !.list = rowErrors.list]
    ELSE [d EXCEPT !.rows = RowsAsDrf(d.rows)]

Refusing == stage = "refused" => Just(Told(detail, state.rowErrors))
Answered == stage = "answered" => Just(answer)
Serving == stage = "served" => AllIsRight /\ handed = Everything /\ judged = Index
Judging == call.edge => judged \in {{}, Index}

Inv ==
    /\ TypeOK /\ Prepared /\ Unvalidated /\ Checked
    /\ Refusing /\ Answered /\ Serving /\ Judging /\ RefusedRowsStayUnread

-----------------------------------------------------------------------------
(* What the serializer is given.                                           *)

(* The indices the rows are bound under are those of the rows given, each  *)
(* position's row the row of its index, and all of them only as they were  *)
(* sent.                                                                   *)
LEMMA RowsGiven ==
    ASSUME Inv, stage = "validate"
    PROVE  /\ Given \subseteq Index
           /\ \A p \in DOMAIN Indices : Indices[p] \in Given
           /\ \A i \in Given : \E p \in DOMAIN Indices : Indices[p] = i
           /\ Given = Index => Indices = Everything
           /\ EveryRow <=> call.edge /\ Given = Index
           /\ state.body # None <=> call.edge
           /\ DOMAIN Bound = DOMAIN Indices
           /\ \A p \in DOMAIN Indices : Bound[p] = Row(Indices[p])
           /\ Given = Index => Len(Bound) = Len(sent)
<1>1. PICK n \in 0..MaxRows :
         n \in Nat /\ Index = 1..n /\ Len(sent) = n /\ sent \in [1..n -> Kinds]
  BY SentIsAList DEF Inv
<1>2. Fits \in SUBSET (1..n) /\ passed \in Orders(Fits)
  BY <1>1 DEF Inv, Checked, Fits
<1>3. /\ passed \in [1..Cardinality(Fits) -> Fits]
      /\ \A i \in Fits : \E p \in 1..Cardinality(Fits) : passed[p] = i
  BY <1>1, <1>2, OrderIsOnto
<1>4. Fits = Index => passed = Everything
  BY <1>1, <1>2, OrderOfAll DEF Everything
<1>5. /\ state.whole = WholeBody /\ call.form = "list"
      /\ state.body = IF call.edge THEN Body ELSE None
      /\ arguments = [i \in Index |-> Argument(sent[i])]
  BY DEF Inv, Prepared, Checked
<1>6. Given \subseteq Index
  BY <1>1, <1>2 DEF Given
<1>7. /\ \A p \in DOMAIN Indices : Indices[p] \in Given
      /\ \A i \in Given : \E p \in DOMAIN Indices : Indices[p] = i
  BY <1>3, <1>5 DEF Indices, Given, Everything
<1>8. Given = Index => Indices = Everything
  BY <1>4, <1>5 DEF Indices, Given
<1>9. Body \in [1..n -> Kinds]
  BY <1>1 DEF Body, Mended, Kinds
<1>10. state.body # None <=> call.edge
  BY <1>1, <1>5, <1>9, BulkAssumption
<1>11. EveryRow <=> call.edge /\ Given = Index
  <2>1. Indices = Everything => Given = Index
    BY <1>6, <1>7 DEF Everything
  <2> QED BY <2>1, <1>8, <1>10 DEF EveryRow
<1>12. /\ DOMAIN Bound = DOMAIN Indices
       /\ \A p \in DOMAIN Indices : Bound[p] = Row(Indices[p])
  <2>1. CASE EveryRow
    <3>1. Bound = Body /\ call.edge /\ Indices = Everything
      BY <2>1, <1>5, <1>10 DEF Bound, EveryRow
    <3> QED BY <3>1 DEF Body, Everything, Row
  <2>2. CASE ~EveryRow
    <3>1. Indices = passed
      BY <2>2, <1>5, <1>10 DEF EveryRow, Indices, WholeBody
    <3>2. \A p \in DOMAIN passed : passed[p] \in Index
      BY <1>3, <1>2, <1>1
    <3>3. CASE call.edge
      <4>1. Bound = [p \in DOMAIN passed |-> Body[passed[p]]]
        BY <2>2, <3>3, <1>5, <1>10 DEF Bound
      <4> QED BY <4>1, <3>1, <3>2, <3>3 DEF Body, Row
    <3>4. CASE ~call.edge
      <4>1. Bound = [p \in DOMAIN passed |-> Seedless(arguments[passed[p]])]
        BY <2>2, <3>4, <1>5, <1>10 DEF Bound
      <4> QED BY <4>1, <3>1, <3>2, <3>4, <1>5 DEF Argument, Row
    <3> QED BY <3>3, <3>4
  <2> QED BY <2>1, <2>2
<1>13. Given = Index => Len(Bound) = Len(sent)
  <2> SUFFICES ASSUME Given = Index PROVE Len(Bound) = n
    BY <1>1
  <2>1. DOMAIN Bound = 1..n
    BY <1>1, <1>8, <1>12 DEF Everything
  <2>2. Bound = [p \in 1..n |-> Bound[p]]
    <3>1. CASE EveryRow
      <4>1. Bound = Body
        BY <3>1, <1>5, <1>11 DEF Bound
      <4> QED BY <4>1, <1>9
    <3>2. CASE ~EveryRow
      <4>1. Bound = [p \in DOMAIN passed |-> IF state.body # None THEN state.body[passed[p]]
                                             ELSE Seedless(arguments[passed[p]])]
        BY <3>2 DEF Bound
      <4> QED BY <4>1, <2>1
    <3> QED BY <3>1, <3>2
  <2>3. Bound \in Seq({Bound[p] : p \in 1..n})
    BY <2>2, <1>1
  <2> QED BY <2>1, <2>3, <1>1
<1> QED BY <1>6, <1>7, <1>8, <1>10, <1>11, <1>12, <1>13

(* A refusal by DRF's positions is one by the caller's own indices.        *)
LEMMA RefusedByIndex ==
    ASSUME Inv, stage = "validate"
    PROVE  /\ ByRow(Errors, Indices) =
                [i \in Index |-> IF i \in Given THEN Fault(Row(i)) ELSE None]
           /\ AnyError <=> \E i \in Given : Fault(Row(i)) # None
           /\ {Indices[p] : p \in DOMAIN Indices} = Given
<1>1. \A p \in DOMAIN Indices : Errors[p] = Fault(Row(Indices[p]))
  BY RowsGiven DEF Errors
<1>2. ASSUME NEW i \in Index
      PROVE ByRow(Errors, Indices)[i] = IF i \in Given THEN Fault(Row(i)) ELSE None
  <2>1. CASE i \in Given
    <3> DEFINE q == CHOOSE p \in DOMAIN Indices : Indices[p] = i
    <3>1. \E p \in DOMAIN Indices : Indices[p] = i
      BY <2>1, RowsGiven
    <3>2. q \in DOMAIN Indices /\ Indices[q] = i
      BY <3>1
    <3>3. ByRow(Errors, Indices)[i] = Errors[q]
      BY <3>1 DEF ByRow
    <3> QED BY <1>1, <2>1, <3>2, <3>3
  <2>2. CASE i \notin Given
    <3>1. ~ \E p \in DOMAIN Indices : Indices[p] = i
      BY <2>2, RowsGiven
    <3> QED BY <2>2, <3>1 DEF ByRow
  <2> QED BY <2>1, <2>2
<1>3. ByRow(Errors, Indices) = [i \in Index |-> IF i \in Given THEN Fault(Row(i)) ELSE None]
  BY <1>2 DEF ByRow
<1>4. AnyError <=> \E i \in Given : Fault(Row(i)) # None
  BY <1>1, RowsGiven DEF AnyError
<1>5. {Indices[p] : p \in DOMAIN Indices} = Given
  BY RowsGiven
<1> QED BY <1>3, <1>4, <1>5

-----------------------------------------------------------------------------
(* What edge_errors tells of a refusal.                                    *)

(* Rewording a refusal keeps the rows it names, and calls a row wrong only *)
(* for what it is.                                                         *)
LEMMA ToldAsRefused ==
    ASSUME NEW d \in Details
    PROVE  /\ Told(d, None) \in Details
           /\ Told(d, None).list = d.list /\ Told(d, None).beside = d.beside
           /\ \A i \in Index :
                 /\ Told(d, None).rows[i] = None <=> d.rows[i] = None
                 /\ d.rows[i] \in Wrongs(i) \cup {None} =>
                       Told(d, None).rows[i] \in Wrongs(i) \cup {None}
           /\ d.rows = NoRow => Told(d, None).rows = NoRow
<1>1. d.rows \in RowErrors
  BY DEF Details
<1>2. \A i \in Index : d.rows[i] \in Why \cup {None}
  BY <1>1 DEF RowErrors
<1>3. "object" \in Why /\ None \notin Why
  BY BulkAssumption DEF Why
<1>4. /\ RowsAsDrf(d.rows) \in RowErrors
      /\ \A i \in Index :
            /\ RowsAsDrf(d.rows)[i] = None <=> d.rows[i] = None
            /\ d.rows[i] \in Wrongs(i) \cup {None} =>
                  RowsAsDrf(d.rows)[i] \in Wrongs(i) \cup {None}
      /\ d.rows = NoRow => RowsAsDrf(d.rows) = NoRow
  BY <1>2, <1>3 DEF RowsAsDrf, RowErrors, NoRow, Wrongs
<1>5. Told(d, None) = IF call.edge THEN [d EXCEPT !.rows = RowsAsDrf(d.rows)] ELSE d
  BY DEF Told
<1> QED BY <1>4, <1>5 DEF Details

(* The list serializer's own errors are told over the edge as they are.    *)
LEMMA ToldByTheList ==
    ASSUME TypeOK, call.edge, NEW d \in Details,
           NEW r \in [rows : RowErrors, list : {None, "bound", "check"}]
    PROVE  /\ Told(d, r) \in Details
           /\ Told(d, r).rows = r.rows /\ Told(d, r).list = r.list
           /\ Told(d, r).beside = d.beside
<1>1. PICK n \in 0..MaxRows : Index = 1..n
  BY SentIsAList
<1>2. r # None
  BY <1>1, BulkAssumption DEF RowErrors
<1> QED BY <1>2 DEF Told, Details

(* What the properties say of a call's answer stays as it is.              *)
LEMMA CallKept ==
    ASSUME UNCHANGED <<call, sent>>
    PROVE  /\ Index' = Index /\ NoRow' = NoRow
           /\ OutOfBounds(Len(sent))' = OutOfBounds(Len(sent))
           /\ \A i : Wrongs(i)' = Wrongs(i)
           /\ AllIsRight' = AllIsRight
           /\ RowErrors' = RowErrors /\ Details' = Details /\ Everything' = Everything
           /\ WholeBody' = WholeBody /\ Body' = Body
           /\ [i \in Index |-> Argument(sent[i])]' = [i \in Index |-> Argument(sent[i])]
<1>1. Index' = Index /\ NoRow' = NoRow /\ OutOfBounds(Len(sent))' = OutOfBounds(Len(sent))
  BY DEF Index, NoRow, OutOfBounds, Above, Below
<1>2. \A i : Wrongs(i)' = Wrongs(i)
  BY DEF Wrongs
<1>3. AllIsRight' = AllIsRight
  BY <1>1, <1>2 DEF AllIsRight
<1>4. RowErrors' = RowErrors /\ Details' = Details /\ Everything' = Everything
  BY <1>1 DEF RowErrors, Details, Everything
<1>5. /\ WholeBody' = WholeBody /\ Body' = Body
      /\ [i \in Index |-> Argument(sent[i])]' = [i \in Index |-> Argument(sent[i])]
  BY <1>1 DEF WholeBody, Body, Mended, Argument, Seedless
<1> QED BY <1>1, <1>2, <1>3, <1>4, <1>5

(* A refusal the properties allow the answer of is a step the invariant    *)
(* takes.                                                                  *)
LEMMA RefusingKept ==
    ASSUME UNCHANGED <<call, sent>>, NEW r, state'.rowErrors = r, Just(Told(detail', r))
    PROVE  Refusing'
<1>1. Told(detail, state.rowErrors)' = Told(detail', r)
  BY CallKept DEF Told, RowsAsDrf
<1> QED BY <1>1, CallKept DEF Refusing, Just

(* The type of a call past its preparation is kept, and the invariant with *)
(* it, by a step that refuses the call with what the properties allow.     *)
LEMMA Refused ==
    ASSUME Inv, stage = "validate", stage' = "refused",
           UNCHANGED <<call, sent, arguments, refused, passed, handed, answer>>,
           NEW r \in [rows : RowErrors, list : {None, "bound", "check"}] \cup {None},
           state' = [state EXCEPT !.rowErrors = r],
           detail' \in Details,
           Just(Told(detail', r)),
           read' \in {{}, Given}, judged' \in {{}, Given},
           call.edge => judged' \in {{}, Index}
    PROVE  Inv'
<1>1. state' = [body |-> state.body, whole |-> state.whole, beside |-> state.beside,
                rowErrors |-> r]
  BY DEF Inv, TypeOK
<1>2. Given \subseteq Index
  BY RowsGiven
<1>3. TypeOK'
  BY <1>1, <1>2 DEF Inv, TypeOK, Details, RowErrors, Index, Everything
<1>4. Prepared'
  BY <1>1 DEF Inv, Prepared, WholeBody, Body, Mended, Argument, Seedless, Index
<1>5. Unvalidated' /\ Checked' /\ Serving' /\ Answered'
  BY DEF Inv, Unvalidated, Checked, Serving, Answered
<1>6. Refusing'
  BY <1>1, RefusingKept
<1>7. Judging'
  BY DEF Judging, Index
<1>8. RefusedRowsStayUnread'
  <2>1. \A i \in Given : refused[i] = None \/ (call.live /\ ~call.keyed)
    BY <1>2 DEF Inv, Checked, Given, WholeBody, Fits
  <2> QED BY <2>1 DEF RefusedRowsStayUnread
<1> QED BY <1>3, <1>4, <1>5, <1>6, <1>7, <1>8 DEF Inv

(* What the kernel refused is told of the rows it is wrong with, beside    *)
(* what the serializer refuses of the others.                              *)
LEMMA JoinedRows ==
    ASSUME Inv, stage = "validate", NEW rows \in RowErrors,
           \A i \in Index : rows[i] \in Wrongs(i) \cup {None}
    PROVE  /\ Joined(rows) \in RowErrors
           /\ refused \in RowErrors /\ NoRow \in RowErrors
           /\ Joined(NoRow) = refused
           /\ \A i \in Index :
                 /\ Joined(rows)[i] \in Wrongs(i) \cup {None}
                 /\ refused[i] \in Wrongs(i) \cup {None}
                 /\ refused[i] = None <=> i \in Fits
                 /\ Joined(rows)[i] = None <=> i \in Fits /\ rows[i] = None
           /\ Fits = Index => refused = NoRow
<1>1. refused = [i \in Index |-> Unfit(Argument(sent[i]))]
  BY DEF Inv, Checked
<1>2. refused \in RowErrors /\ NoRow \in RowErrors
  BY DEF Inv, TypeOK, NoRow, RowErrors
<1>3. \A i \in Index : /\ refused[i] \in Wrongs(i) \cup {None}
                       /\ refused[i] = None <=> i \in Fits
  BY <1>1, UnfitIsWrong DEF Inv, Fits
<1>4. Joined(rows) \in RowErrors
  BY <1>2 DEF Joined, RowErrors
<1>5. Joined(NoRow) = refused
  BY <1>1 DEF Joined, NoRow
<1>6. \A i \in Index : /\ Joined(rows)[i] \in Wrongs(i) \cup {None}
                       /\ Joined(rows)[i] = None <=> i \in Fits /\ rows[i] = None
  BY <1>3 DEF Joined
<1>7. Fits = Index => refused = NoRow
  BY <1>1, <1>3 DEF NoRow
<1> QED BY <1>2, <1>3, <1>4, <1>5, <1>6, <1>7

(* Where a row given is refused by neither, it is right.                   *)
LEMMA FaultlessIsRight ==
    ASSUME Inv, stage = "validate", \A i \in Given : Fault(Row(i)) = None
    PROVE  \A i \in Fits : Wrongs(i) = {}
BY RowsGiven, WrongIsRefused DEF Inv, Given, Fits

(* A call whose rows given are all right is served where the kernel passed *)
(* them all, and otherwise refused by the rest.                            *)
LEMMA ProceedStep ==
    ASSUME Inv, stage = "validate", Proceed,
           UNCHANGED <<call, sent, arguments, refused, passed, answer>>,
           \A i \in Given : Fault(Row(i)) = None,
           call.edge => ~OutOfBounds(Len(sent)),
           Given = Index =>
               ~OutOfBounds(Len(sent)) /\ ~(call.edge /\ call.beside) /\ judged' = Index,
           read' = Given, judged' \in {{}, Given},
           call.edge => judged' \in {{}, Index}
    PROVE  Inv'
<1>1. \A i \in Fits : Wrongs(i) = {}
  BY FaultlessIsRight
<1>2. /\ refused \in RowErrors /\ NoRow \in RowErrors
      /\ \A i \in Index : /\ refused[i] \in Wrongs(i) \cup {None}
                          /\ refused[i] = None <=> i \in Fits
  <2>1. NoRow \in RowErrors /\ \A i \in Index : NoRow[i] \in Wrongs(i) \cup {None}
    BY DEF NoRow, RowErrors
  <2> QED BY <2>1, JoinedRows
<1>3. call.form = "list" /\ ~(call.beside /\ call.reject) /\ state.rowErrors = None
      /\ detail = Nothing
  BY DEF Inv, Checked, Unvalidated
<1>4. CASE \A i \in Index : refused[i] = None
  <2>1. Fits = Index /\ Given = Index
    BY <1>2, <1>4, RowsGiven DEF Given, Fits
  <2>2. handed' = Everything /\ stage' = "served" /\ UNCHANGED <<detail, state>>
    BY <1>4, <2>1, RowsGiven DEF Proceed
  <2>3. AllIsRight
    BY <1>1, <1>3, <2>1 DEF AllIsRight
  <2>4. Index' = Index /\ Everything' = Everything /\ AllIsRight' = AllIsRight
    BY DEF Index, Everything, AllIsRight, Wrongs, OutOfBounds, Above, Below
  <2>5. TypeOK'
    <3>1. read' \subseteq Index' /\ judged' \subseteq Index' /\ handed' \in {<<>>, Everything}'
      BY <2>1, <2>2, <2>4
    <3>2. RowErrors' = RowErrors /\ Details' = Details /\ Index' = Index
      BY DEF Details, RowErrors, Index
    <3>3. UNCHANGED <<detail, state, arguments, refused, passed, answer, call, sent>>
      BY <2>2
    <3> QED BY <2>2, <3>1, <3>2, <3>3 DEF Inv, TypeOK
  <2>6. Prepared'
    BY <2>2 DEF Inv, Prepared, WholeBody, Body, Mended, Argument, Seedless, Index
  <2>7. Unvalidated' /\ Checked' /\ Refusing' /\ Answered'
    BY <2>2 DEF Unvalidated, Checked, Refusing, Answered
  <2>8. Serving' /\ Judging'
    BY <2>1, <2>2, <2>3, <2>4 DEF Serving, Judging
  <2>9. RefusedRowsStayUnread'
    BY <1>4, <2>1 DEF RefusedRowsStayUnread
  <2> QED BY <2>5, <2>6, <2>7, <2>8, <2>9 DEF Inv
<1>5. CASE ~ \A i \in Index : refused[i] = None
  <2> DEFINE d == [Nothing EXCEPT !.rows = refused]
  <2>1. stage' = "refused" /\ detail' = d /\ UNCHANGED <<handed, state>>
    BY <1>5 DEF Proceed
  <2>2. d \in Details /\ d.rows = refused /\ d.list = None /\ ~d.beside
    BY <1>2 DEF Nothing, Details
  <2>3. state' = [state EXCEPT !.rowErrors = None]
    BY <1>3, <2>1 DEF Inv, TypeOK
  <2>4. ~AllIsRight
    BY <1>2, <1>5 DEF AllIsRight
  <2>5. \A i \in Index : Wrongs(i) # {} => refused[i] # None
    BY <1>1, <1>2
  <2>6. None # "bound"
    BY BulkAssumption
  <2>7. Just(Told(d, None))
    <3> DEFINE t == Told(d, None)
    <3>1. /\ t.list = None /\ ~t.beside
          /\ \A i \in Index : /\ t.rows[i] = None <=> refused[i] = None
                              /\ t.rows[i] \in Wrongs(i) \cup {None}
      BY <1>2, <2>2, ToldAsRefused
    <3>2. ~(call.edge /\ OutOfBounds(Len(sent)))
      OBVIOUS
    <3> HIDE DEF t, d
    <3>3. Just(t)
      BY <2>4, <2>5, <2>6, <3>1, <3>2 DEF Just
    <3> QED BY <3>3 DEF t
  <2> QED BY <2>1, <2>2, <2>3, <2>7, Refused
<1> QED BY <1>4, <1>5

(* The rows the serializer refuses are wrong, by their own indices.        *)
LEMMA ErrorsByIndex ==
    ASSUME Inv, stage = "validate"
    PROVE  /\ ByRow(Errors, Indices) \in RowErrors
           /\ \A i \in Index :
                 /\ ByRow(Errors, Indices)[i] \in Wrongs(i) \cup {None}
                 /\ ByRow(Errors, Indices)[i] = None <=> i \notin Given \/ Fault(Row(i)) = None
                 /\ ByRow(Errors, Indices)[i] \in {"object", "field", None}
<1>1. ByRow(Errors, Indices) = [i \in Index |-> IF i \in Given THEN Fault(Row(i)) ELSE None]
  BY RefusedByIndex
<1>2. \A i \in Given : call.edge \/ i \in Fits
  BY DEF Given, WholeBody
<1>3. \A i \in Index : i \in Given => Fault(Row(i)) \in Wrongs(i) \cup {None}
  BY <1>2, FaultIsWrong DEF Inv
<1>4. ByRow(Errors, Indices) \in RowErrors
  BY <1>1, ReasonsAreTyped DEF RowErrors
<1>5. \A i \in Index : Fault(Row(i)) \in {"object", "field", None}
  BY DEF Fault
<1> QED BY <1>1, <1>3, <1>4, <1>5

(* The list's errors, joined to the kernel's, are told of every wrong row. *)
LEMMA ErrorsAreJust ==
    ASSUME Inv, stage = "validate", AnyError,
           ~(call.edge /\ OutOfBounds(Len(sent))),
           NEW rows, rows = ByRow(Errors, Indices)
    PROVE  /\ [Nothing EXCEPT !.rows = Joined(rows)] \in Details
           /\ ~state.whole => Just(Told([Nothing EXCEPT !.rows = Joined(rows)], None))
           /\ state.whole => Just(Told([Nothing EXCEPT !.rows = Joined(rows)],
                                       [rows |-> rows, list |-> None]))
<1> DEFINE d == [Nothing EXCEPT !.rows = Joined(rows)]
<1>1. /\ rows \in RowErrors
      /\ \A i \in Index : /\ rows[i] \in Wrongs(i) \cup {None}
                          /\ rows[i] = None <=> i \notin Given \/ Fault(Row(i)) = None
                          /\ rows[i] \in {"object", "field", None}
  BY ErrorsByIndex
<1>2. /\ Joined(rows) \in RowErrors
      /\ \A i \in Index : /\ Joined(rows)[i] \in Wrongs(i) \cup {None}
                          /\ Joined(rows)[i] = None <=> i \in Fits /\ rows[i] = None
  BY <1>1, JoinedRows
<1>3. d \in Details /\ d.rows = Joined(rows) /\ d.list = None /\ ~d.beside
  BY <1>2 DEF Nothing, Details
<1> HIDE DEF d
<1>4. None # "bound"
  BY BulkAssumption
<1>5. PICK j \in Index : rows[j] # None
  BY <1>1, RefusedByIndex, RowsGiven
<1>6. ~AllIsRight
  BY <1>1, <1>5 DEF AllIsRight
<1>7. state.whole = WholeBody /\ TypeOK
  BY DEF Inv, Prepared
<1>8. ASSUME ~state.whole PROVE Just(Told(d, None))
  <2> DEFINE t == Told(d, None)
  <2>1. /\ t.list = None /\ ~t.beside
        /\ \A i \in Index : /\ t.rows[i] = None <=> Joined(rows)[i] = None
                            /\ t.rows[i] \in Wrongs(i) \cup {None}
    BY <1>2, <1>3, ToldAsRefused
  <2>2. \A i \in Index : Wrongs(i) # {} => Joined(rows)[i] # None
    BY <1>1, <1>2, <1>7, <1>8, WrongIsRefused DEF Given
  <2> HIDE DEF t
  <2>3. Just(t)
    BY <1>2, <1>4, <1>6, <2>1, <2>2 DEF Just
  <2> QED BY <2>3 DEF t
<1>9. ASSUME state.whole PROVE Just(Told(d, [rows |-> rows, list |-> None]))
  <2> DEFINE r == [rows |-> rows, list |-> None]
             t == Told(d, r)
  <2>1. call.edge /\ call.live /\ ~call.keyed /\ Given = Index
    BY <1>7, <1>9 DEF WholeBody, Given
  <2>2. r \in [rows : RowErrors, list : {None, "bound", "check"}]
    BY <1>1
  <2>3. t.rows = rows /\ t.list = None /\ ~t.beside
    BY <1>3, <1>7, <2>1, <2>2, ToldByTheList
  <2>4. \A i \in Index : Wrongs(i) # {} /\ rows[i] = None => sent[i] = "undeclared"
    BY <1>1, <1>7, <2>1, WrongIsRefused
  <2>5. \E i \in Index : rows[i] \in {"object", "field"}
    BY <1>1, <1>5
  <2> HIDE DEF t
  <2>6. Just(t)
    BY <1>1, <1>4, <1>6, <2>1, <2>3, <2>4, <2>5 DEF Just
  <2> QED BY <2>6 DEF t
<1> QED BY <1>3, <1>8, <1>9 DEF d

(* The list's own refusal is told of the list, beside the rows the kernel  *)
(* refused only where the serializer was not given them.                   *)
LEMMA ListIsJust ==
    ASSUME Inv, stage = "validate", NEW list \in {"bound", "check"},
           Given = Index \/ ~call.edge,
           list = "bound" => OutOfBounds(Len(Bound)),
           list = "check" => ~OutOfBounds(Len(Bound))
    PROVE  /\ [Nothing EXCEPT !.rows = Joined(NoRow), !.list = list] \in Details
           /\ Whole(NoRow, list) \in [rows : RowErrors, list : {None, "bound", "check"}] \cup {None}
           /\ Just(Told([Nothing EXCEPT !.rows = Joined(NoRow), !.list = list],
                        Whole(NoRow, list)))
<1> DEFINE d == [Nothing EXCEPT !.rows = Joined(NoRow), !.list = list]
           t == Told(d, Whole(NoRow, list))
<1>1. NoRow \in RowErrors /\ \A i \in Index : NoRow[i] = None
  BY DEF NoRow, RowErrors
<1>2. /\ Joined(NoRow) = refused /\ refused \in RowErrors
      /\ \A i \in Index : /\ refused[i] \in Wrongs(i) \cup {None}
                          /\ refused[i] = None <=> i \in Fits
      /\ Fits = Index => refused = NoRow
  BY <1>1, JoinedRows
<1>3. d \in Details /\ d.rows = refused /\ d.list = list /\ ~d.beside
  BY <1>2 DEF Nothing, Details
<1>4. Whole(NoRow, list) = IF WholeBody THEN [rows |-> NoRow, list |-> list] ELSE None
  BY DEF Whole, Inv, Prepared
<1>5. Whole(NoRow, list) \in [rows : RowErrors, list : {None, "bound", "check"}] \cup {None}
  BY <1>1, <1>4
<1>6. list # None /\ "bound" # "check"
  BY BulkAssumption
<1>7. Given = Index => Len(Bound) = Len(sent)
  BY RowsGiven
<1>8. /\ t.list = list
      /\ \A i \in Index : t.rows[i] \in Wrongs(i) \cup {None}
      /\ call.edge => t.rows = NoRow
  <2>1. CASE WholeBody
    <3>1. t.rows = NoRow /\ t.list = list
      BY <1>1, <1>3, <1>4, <2>1, ToldByTheList DEF WholeBody, Inv
    <3> QED BY <1>1, <3>1
  <2>2. CASE ~WholeBody
    <3>1. call.edge => refused = NoRow
      BY <1>2, <2>2 DEF Given
    <3> QED BY <1>2, <1>3, <1>4, <2>2, <3>1, ToldAsRefused
  <2> QED BY <2>1, <2>2
<1>9. list = "bound" => ~AllIsRight
  <2>1. CASE Given = Index
    BY <1>7, <2>1 DEF AllIsRight
  <2>2. CASE Given # Index
    <3>1. PICK i \in Index : i \notin Fits
      BY <2>2 DEF Given, Fits
    <3>2. Wrongs(i) # {}
      BY <1>2, <3>1
    <3> QED BY <3>2 DEF AllIsRight
  <2> QED BY <2>1, <2>2
<1> HIDE DEF t, d
<1>10. Just(t)
  BY <1>6, <1>7, <1>8, <1>9 DEF Just
<1> QED BY <1>3, <1>5, <1>10 DEF t, d

-----------------------------------------------------------------------------
(* The steps.                                                              *)

(* A call about to be prepared has been told and has read nothing.         *)
LEMMA InitHolds == Init => Inv
<1> SUFFICES ASSUME Init PROVE Inv
  OBVIOUS
<1>1. TypeOK
  BY DEF Init, TypeOK, NoRow, Nothing, EmptyState, RowErrors, Details, Index
<1>2. Prepared /\ Unvalidated /\ Checked /\ Refusing /\ Answered /\ Serving
  BY DEF Init, Prepared, Unvalidated, Checked, Refusing, Answered, Serving, EmptyState
<1>3. Judging /\ RefusedRowsStayUnread
  BY DEF Init, Judging, RefusedRowsStayUnread
<1> QED BY <1>1, <1>2, <1>3 DEF Inv

(* prepare_edge_call holds the rows twice, and reads none of them.         *)
LEMMA PrepareStep ==
    ASSUME Inv, PrepareRows
    PROVE  Inv'
<1>1. /\ state.rowErrors = None /\ detail = Nothing
      /\ read = {} /\ judged = {} /\ handed = <<>>
  BY DEF Inv, Unvalidated, PrepareRows
<1>2. \A i \in Index : sent[i] \in Kinds
  BY SentIsAList DEF Inv
<1>3. state' \in [body      : [Index -> Kinds] \cup {None},
                  whole     : BOOLEAN,
                  beside    : BOOLEAN,
                  rowErrors : [rows : RowErrors, list : {None, "bound", "check"}] \cup {None}]
  BY <1>2 DEF PrepareRows, EmptyState, Body, Mended, Kinds, Inv, TypeOK, Possible, Calls
<1>4. arguments' \in [Index -> Kinds \cup {"seedless", None}]
  BY <1>2 DEF PrepareRows, Argument, Seedless, Mended, Kinds
<1>5. Index' = Index /\ RowErrors' = RowErrors /\ Details' = Details /\ Everything' = Everything
  BY DEF PrepareRows, Index, RowErrors, Details, Everything
<1>6. stage' = "check"
      /\ UNCHANGED <<call, sent, refused, passed, read, judged, detail, handed, answer>>
  BY DEF PrepareRows
<1>7. TypeOK'
  BY <1>3, <1>4, <1>5, <1>6 DEF Inv, TypeOK
<1>8. Prepared'
  <2>1. /\ state'.body = IF call.edge /\ call.form = "list" THEN Body ELSE None
        /\ state'.whole = WholeBody
        /\ state'.beside = (call.edge /\ call.beside)
        /\ arguments' = [i \in Index |-> Argument(sent[i])]
    BY DEF PrepareRows, EmptyState, WholeBody, Inv, TypeOK, Possible, Calls
  <2>2. Body' = Body /\ WholeBody' = WholeBody
        /\ [i \in Index |-> Argument(sent[i])]' = [i \in Index |-> Argument(sent[i])]
    BY <1>6 DEF Body, WholeBody, Mended, Argument, Seedless, Index
  <2> QED BY <1>6, <2>1, <2>2 DEF Prepared
<1>9. Unvalidated'
  <2>1. state'.rowErrors = None
    BY DEF PrepareRows, EmptyState
  <2> QED BY <1>1, <1>6, <2>1 DEF Unvalidated, Nothing, NoRow, Index
<1>10. Checked' /\ Refusing' /\ Answered' /\ Serving'
  BY <1>6 DEF Checked, Refusing, Answered, Serving
<1>11. Judging' /\ RefusedRowsStayUnread'
  BY <1>1, <1>6 DEF Judging, RefusedRowsStayUnread
<1> QED BY <1>7, <1>8, <1>9, <1>10, <1>11 DEF Inv

(* The kernel hands on, in order, the rows it refuses nothing in.          *)
LEMMA CheckStep ==
    ASSUME Inv, CheckRows
    PROVE  Inv'
<1>1. /\ stage = "check" /\ stage' = "validate"
      /\ UNCHANGED <<call, sent, arguments, state, read, judged, detail, handed, answer>>
      /\ refused' = [i \in Index |-> Unfit(arguments[i])]
      /\ passed' \in Orders({i \in Index : Unfit(arguments[i]) = None})
      /\ Unreadable = None /\ ~(call.beside /\ call.reject)
  BY DEF CheckRows
<1>2. /\ arguments = [i \in Index |-> Argument(sent[i])]
      /\ state.rowErrors = None /\ detail = Nothing
      /\ read = {} /\ judged = {} /\ handed = <<>>
  BY <1>1 DEF Inv, Prepared, Unvalidated
<1>3. refused' = [i \in Index |-> Unfit(Argument(sent[i]))] /\ passed' \in Orders(Fits)
  <2>1. {i \in Index : Unfit(arguments[i]) = None} = Fits
    BY <1>2 DEF Fits
  <2> QED BY <1>1, <1>2, <2>1
<1>4. call.form = "list"
  BY <1>1, BulkAssumption DEF Unreadable, Inv, TypeOK, Possible, Calls
<1>5. Index' = Index /\ RowErrors' = RowErrors /\ Details' = Details /\ Everything' = Everything
  BY <1>1 DEF Index, RowErrors, Details, Everything
<1>6. refused' \in RowErrors
  BY <1>3, ReasonsAreTyped DEF RowErrors
<1>7. \A p \in DOMAIN passed' : passed'[p] \in Index
  <2>1. PICK n \in 0..MaxRows : n \in Nat /\ Index = 1..n
    BY SentIsAList DEF Inv
  <2>2. Fits \in SUBSET (1..n) /\ Fits \subseteq Index
    BY <2>1 DEF Fits
  <2>3. passed' \in [1..Cardinality(Fits) -> Fits]
    BY <1>3, <2>1, <2>2, OrderIsOnto
  <2> QED BY <2>2, <2>3
<1>8. TypeOK'
  BY <1>1, <1>5, <1>6, <1>7 DEF Inv, TypeOK
<1>9. Prepared' /\ Unvalidated'
  BY <1>1, <1>2 DEF Inv, Prepared, Unvalidated, WholeBody, Body, Mended, Argument, Seedless,
                    Index, Nothing, NoRow
<1>10. Checked'
  <2>1. Fits' = Fits
    BY <1>1 DEF Fits, Index, Unfit, Argument, Seedless, Mended
  <2>2. [i \in Index |-> Unfit(Argument(sent[i]))]' = [i \in Index |-> Unfit(Argument(sent[i]))]
    BY <1>1 DEF Index, Unfit, Argument, Seedless, Mended
  <2>3. Orders(Fits)' = Orders(Fits)
    BY <2>1 DEF Orders
  <2> QED BY <1>1, <1>3, <1>4, <2>2, <2>3 DEF Checked
<1>11. Refusing' /\ Answered' /\ Serving'
  BY <1>1 DEF Refusing, Answered, Serving
<1>12. Judging' /\ RefusedRowsStayUnread'
  BY <1>1, <1>2 DEF Judging, RefusedRowsStayUnread
<1> QED BY <1>8, <1>9, <1>10, <1>11, <1>12 DEF Inv

(* Arguments the kernel refuses as a whole are not right, and no row of    *)
(* theirs is named but one it refused.                                     *)
LEMMA RefuseArgumentsStep ==
    ASSUME Inv, RefuseArguments
    PROVE  Inv'
<1>1. /\ stage = "check" /\ stage' = "refused"
      /\ UNCHANGED <<call, sent, arguments, state, refused, passed, read, judged, handed, answer>>
      /\ Unreadable # None \/ (call.beside /\ call.reject)
  BY DEF RefuseArguments
<1>2. /\ arguments = [i \in Index |-> Argument(sent[i])]
      /\ state.rowErrors = None
      /\ read = {} /\ judged = {} /\ handed = <<>>
  BY <1>1 DEF Inv, Prepared, Unvalidated
<1>3. PICK rows \in {NoRow} \cup (IF Unreadable = None THEN {[i \in Index |-> Unfit(arguments[i])]}
                                  ELSE {}) :
         detail' = [rows |-> rows, list |-> Unreadable, beside |-> call.beside /\ call.reject]
  BY DEF RefuseArguments
<1>4. /\ rows \in RowErrors
      /\ \A i \in Index : rows[i] \in Wrongs(i) \cup {None}
      /\ Unreadable # None => rows = NoRow
  <2>1. CASE rows = NoRow
    BY <2>1 DEF NoRow, RowErrors
  <2>2. CASE Unreadable = None /\ rows = [i \in Index |-> Unfit(arguments[i])]
    <3>1. rows = [i \in Index |-> Unfit(Argument(sent[i]))]
      BY <1>2, <2>2
    <3> QED BY <2>2, <3>1, UnfitIsWrong, ReasonsAreTyped DEF RowErrors, Inv
  <2> QED BY <1>3, <2>1, <2>2
<1>5. Unreadable \in {None, "bound", "no list", "no object"} /\ call \in Possible
  BY DEF Unreadable, Inv, TypeOK, Possible, Calls
<1>6. detail' \in Details
  BY <1>3, <1>4, <1>5 DEF Details, Possible, Calls
<1>7. Just(Told(detail', None))
  <2> DEFINE t == Told(detail', None)
  <2>1. /\ t.list = Unreadable /\ t.beside = (call.beside /\ call.reject)
        /\ \A i \in Index : t.rows[i] \in Wrongs(i) \cup {None}
        /\ Unreadable # None => t.rows = NoRow
    <3> HIDE DEF t
    <3>1. detail'.rows = rows /\ detail'.list = Unreadable
          /\ detail'.beside = (call.beside /\ call.reject)
      BY <1>3
    <3> QED BY <1>4, <1>6, <3>1, ToldAsRefused DEF t
  <2>2. ~AllIsRight
    BY <1>1 DEF AllIsRight, Unreadable
  <2>3. "bound" # None
    BY BulkAssumption
  <2>4. Unreadable = "bound" => OutOfBounds(Len(sent))
    BY <1>5, <2>3 DEF Unreadable, Possible, Calls
  <2>5. call.form = "list" => Unreadable \in {None, "bound"}
    BY DEF Unreadable
  <2> HIDE DEF t
  <2>6. Just(t)
    BY <1>1, <2>1, <2>2, <2>3, <2>4, <2>5 DEF Just
  <2> QED BY <2>6 DEF t
<1>8. TypeOK'
  BY <1>1, <1>6, CallKept DEF Inv, TypeOK
<1>9. Prepared'
  BY <1>1, CallKept DEF Inv, Prepared
<1>10. Unvalidated' /\ Checked' /\ Answered' /\ Serving'
  BY <1>1 DEF Unvalidated, Checked, Answered, Serving
<1>11. Refusing'
  BY <1>1, <1>2, <1>7, RefusingKept
<1>12. Judging' /\ RefusedRowsStayUnread'
  BY <1>1, <1>2 DEF Judging, RefusedRowsStayUnread
<1> QED BY <1>8, <1>9, <1>10, <1>11, <1>12 DEF Inv

(* A refusal of no list is one of rows alone.                              *)
LEMMA NoRefusalOfTheList ==
    ASSUME NEW rows
    PROVE  [Nothing EXCEPT !.rows = rows, !.list = None] = [Nothing EXCEPT !.rows = rows]
<1>1. Nothing \in [rows : {NoRow}, list : {None}, beside : {FALSE}]
  BY DEF Nothing
<1>2. [Nothing EXCEPT !.rows = rows, !.list = None]
         \in [rows : {rows}, list : {None}, beside : {FALSE}]
  BY <1>1
<1>3. [Nothing EXCEPT !.rows = rows] \in [rows : {rows}, list : {None}, beside : {FALSE}]
  BY <1>1
<1> QED BY <1>2, <1>3

(* validated_many, of a whole list or of a call past the edge.             *)
LEMMA ListStep ==
    ASSUME Inv, ValidateList
    PROVE  Inv'
<1>1. /\ stage = "validate" /\ (state.body = None \/ EveryRow)
      /\ UNCHANGED <<call, sent, arguments, refused, passed, answer>>
  BY DEF ValidateList
<1>2. /\ Given = Index \/ ~call.edge
      /\ Given = Index => Len(Bound) = Len(sent)
      /\ EveryRow <=> call.edge
      /\ Given \subseteq Index
  BY <1>1, RowsGiven
<1>3. /\ state.rowErrors = None /\ detail = Nothing /\ read = {} /\ judged = {}
      /\ state.beside = (call.edge /\ call.beside) /\ state.whole = WholeBody
      /\ state = [state EXCEPT !.rowErrors = None]
  BY <1>1 DEF Inv, Unvalidated, Prepared, TypeOK
<1>4. ReadsAll => read' = Given
  BY <1>1, RefusedByIndex DEF ReadsAll
<1>5. JudgesAll => judged' = Given
  BY <1>1, RefusedByIndex DEF JudgesAll
<1>6. CASE OutOfBounds(Len(Bound)) /\ Refuse(NoRow, "bound", Whole(NoRow, "bound"))
           /\ UNCHANGED <<read, judged>>
  BY <1>1, <1>2, <1>3, <1>6, ListIsJust, Refused DEF Refuse
<1>7. CASE /\ ~OutOfBounds(Len(Bound)) /\ AnyError
           /\ LET rows == ByRow(Errors, Indices) IN Refuse(rows, None, Whole(rows, None))
           /\ ReadsAll /\ UNCHANGED judged
  <2> DEFINE rows == ByRow(Errors, Indices)
             d == [Nothing EXCEPT !.rows = Joined(rows)]
             r == Whole(rows, None)
  <2>1. rows \in RowErrors
    BY <1>1, ErrorsByIndex
  <2>2. r \in [rows : RowErrors, list : {None, "bound", "check"}] \cup {None}
    BY <2>1 DEF Whole
  <2>3. detail' = d /\ state' = [state EXCEPT !.rowErrors = r] /\ stage' = "refused"
        /\ UNCHANGED handed
    <3>1. [Nothing EXCEPT !.rows = Joined(rows), !.list = None] = d
      BY NoRefusalOfTheList
    <3>2. Refuse(rows, None, r)
      BY <1>7
    <3> QED BY <3>1, <3>2 DEF Refuse
  <2>4. d \in Details /\ Just(Told(d, r))
    <3>1. ~(call.edge /\ OutOfBounds(Len(sent)))
      BY <1>2, <1>7
    <3>2. /\ d \in Details
          /\ ~state.whole => Just(Told(d, None))
          /\ state.whole => Just(Told(d, [rows |-> rows, list |-> None]))
      BY <1>1, <1>7, <3>1, ErrorsAreJust
    <3>3. r = IF state.whole THEN [rows |-> rows, list |-> None] ELSE None
      BY DEF Whole
    <3> HIDE DEF d, r, rows
    <3> QED BY <3>2, <3>3
  <2> HIDE DEF d, r, rows
  <2> QED BY <1>1, <1>3, <1>4, <1>7, <2>2, <2>3, <2>4, Refused
<1>8. CASE ~OutOfBounds(Len(Bound)) /\ ReadsAll /\ JudgesAll
           /\ Refuse(NoRow, "check", Whole(NoRow, "check"))
  BY <1>1, <1>2, <1>4, <1>5, <1>8, ListIsJust, Refused DEF Refuse
<1>9. CASE /\ ReadsAll /\ JudgesAll /\ ~OutOfBounds(Len(Bound))
           /\ EveryRow /\ state.beside
           /\ detail' = [Nothing EXCEPT !.beside = TRUE]
           /\ stage' = "refused" /\ UNCHANGED <<state, handed>>
  <2> DEFINE d == [Nothing EXCEPT !.beside = TRUE]
  <2>1. d \in Details /\ d.rows = NoRow /\ d.list = None /\ d.beside
    BY DEF Nothing, Details, NoRow, RowErrors
  <2>2. \A i \in Index : NoRow[i] = None
    BY DEF NoRow
  <2>3. ~AllIsRight /\ ~OutOfBounds(Len(sent))
    BY <1>2, <1>3, <1>9 DEF AllIsRight
  <2>4. None # "bound"
    BY BulkAssumption
  <2> HIDE DEF d
  <2>5. Told(d, None).list = None /\ Told(d, None).beside /\ Told(d, None).rows = NoRow
    BY <2>1, ToldAsRefused
  <2>6. Just(Told(d, None))
    BY <2>2, <2>3, <2>4, <2>5 DEF Just
  <2> QED BY <1>1, <1>2, <1>3, <1>4, <1>5, <1>9, <2>1, <2>6, Refused DEF d
<1>10. CASE /\ ~OutOfBounds(Len(Bound)) /\ ~AnyError /\ ReadsAll /\ JudgesAll
            /\ ~(EveryRow /\ state.beside) /\ Proceed
  <2>1. \A i \in Given : Fault(Row(i)) = None
    BY <1>1, <1>10, RefusedByIndex
  <2> QED BY <1>1, <1>2, <1>3, <1>4, <1>5, <1>10, <2>1, ProceedStep
<1> QED BY <1>6, <1>7, <1>8, <1>9, <1>10 DEF ValidateList

(* _rows_past_a_refusal, of a list the kernel refused a row of.            *)
LEMMA LeftStep ==
    ASSUME Inv, ValidateLeft
    PROVE  Inv'
<1>1. /\ stage = "validate" /\ state.body # None /\ ~EveryRow
      /\ UNCHANGED <<call, sent, arguments, refused, passed, answer>>
  BY DEF ValidateLeft
<1>2. call.edge /\ Given # Index /\ ~WholeBody /\ Given \subseteq Index
  BY <1>1, RowsGiven DEF Given
<1>3. /\ state.rowErrors = None /\ detail = Nothing /\ read = {} /\ judged = {}
      /\ state.whole = WholeBody
  BY <1>1 DEF Inv, Unvalidated, Prepared
<1>4. ReadsAll => read' = Given
  BY <1>1, RefusedByIndex DEF ReadsAll
<1>5. ~(Above(Len(sent)) \/ Below(Len(sent))) => ~OutOfBounds(Len(sent))
  <2>1. PICK n \in 0..MaxRows : n \in Nat /\ Index = 1..n /\ Len(sent) = n
    BY SentIsAList DEF Inv
  <2>2. n # 0
    <3>1. Index # {}
      BY <1>2
    <3>2. 1..0 = {}
      OBVIOUS
    <3> QED BY <2>1, <3>1, <3>2
  <2> QED BY <2>1, <2>2 DEF OutOfBounds
<1>6. CASE /\ Above(Len(sent)) \/ Below(Len(sent))
           /\ Refuse(NoRow, "bound", [rows |-> NoRow, list |-> "bound"])
           /\ UNCHANGED <<read, judged>>
  <2> DEFINE d == [Nothing EXCEPT !.rows = Joined(NoRow), !.list = "bound"]
             r == [rows |-> NoRow, list |-> "bound"]
  <2>1. NoRow \in RowErrors /\ \A i \in Index : NoRow[i] = None
    BY DEF NoRow, RowErrors
  <2>2. d \in Details /\ ~d.beside
    BY <1>1, <2>1, JoinedRows DEF Nothing, Details
  <2>3. r \in [rows : RowErrors, list : {None, "bound", "check"}]
    BY <2>1
  <2>4. detail' = d /\ state' = [state EXCEPT !.rowErrors = r] /\ stage' = "refused"
        /\ UNCHANGED handed
    BY <1>6 DEF Refuse
  <2>5. OutOfBounds(Len(sent)) /\ ~AllIsRight
    BY <1>6 DEF OutOfBounds, AllIsRight
  <2>6. "bound" # None
    BY BulkAssumption
  <2> HIDE DEF d
  <2>7. r.rows = NoRow /\ r.list = "bound"
    OBVIOUS
  <2> HIDE DEF r
  <2>8. Told(d, r).rows = NoRow /\ Told(d, r).list = "bound" /\ ~Told(d, r).beside
    BY <1>2, <2>2, <2>3, <2>7, ToldByTheList DEF Inv
  <2>9. Just(Told(d, r))
    BY <2>1, <2>5, <2>6, <2>8 DEF Just
  <2> QED BY <1>1, <1>3, <1>6, <2>2, <2>3, <2>4, <2>9, Refused
<1>7. CASE /\ ~(Above(Len(sent)) \/ Below(Len(sent))) /\ AnyError
           /\ Refuse(ByRow(Errors, Indices), None, None)
           /\ ReadsAll /\ UNCHANGED judged
  <2> DEFINE rows == ByRow(Errors, Indices)
             d == [Nothing EXCEPT !.rows = Joined(rows)]
  <2>1. detail' = d /\ state' = [state EXCEPT !.rowErrors = None] /\ stage' = "refused"
        /\ UNCHANGED handed
    <3>1. [Nothing EXCEPT !.rows = Joined(rows), !.list = None] = d
      BY NoRefusalOfTheList
    <3> QED BY <1>7, <3>1 DEF Refuse
  <2>2. d \in Details /\ Just(Told(d, None))
    <3>1. ~state.whole /\ ~(call.edge /\ OutOfBounds(Len(sent)))
      BY <1>2, <1>3, <1>5, <1>7
    <3> QED BY <1>1, <1>7, <3>1, ErrorsAreJust
  <2> HIDE DEF d
  <2> QED BY <1>1, <1>3, <1>4, <1>7, <2>1, <2>2, Refused
<1>8. CASE /\ ~(Above(Len(sent)) \/ Below(Len(sent))) /\ ~AnyError
           /\ ReadsAll /\ UNCHANGED judged /\ Proceed
  <2>1. \A i \in Given : Fault(Row(i)) = None
    BY <1>1, <1>8, RefusedByIndex
  <2> QED BY <1>1, <1>2, <1>3, <1>4, <1>5, <1>8, <2>1, ProceedStep
<1> QED BY <1>6, <1>7, <1>8 DEF ValidateLeft

(* edge_errors tells what the step that refused the call left it to tell.  *)
LEMMA AnswerStep ==
    ASSUME Inv, Answer
    PROVE  Inv'
<1>1. /\ stage = "refused" /\ stage' = "answered"
      /\ UNCHANGED <<call, sent, arguments, state, refused, passed, read, judged, detail, handed>>
  BY DEF Answer
<1>2. answer' = Told(detail, state.rowErrors) /\ Just(Told(detail, state.rowErrors))
  BY <1>1 DEF Answer, Told, Inv, Refusing
<1>3. Told(detail, state.rowErrors) \in Details
  <2>1. detail \in Details
        /\ state.rowErrors \in [rows : RowErrors, list : {None, "bound", "check"}] \cup {None}
    BY DEF Inv, TypeOK
  <2>2. CASE ~call.edge
    BY <2>1, <2>2 DEF Told
  <2>3. CASE state.rowErrors = None
    BY <2>1, <2>3, ToldAsRefused
  <2>4. CASE call.edge /\ state.rowErrors # None
    BY <2>1, <2>4, ToldByTheList DEF Inv
  <2> QED BY <2>2, <2>3, <2>4
<1>4. TypeOK'
  BY <1>1, <1>2, <1>3, CallKept DEF Inv, TypeOK
<1>5. Prepared'
  BY <1>1, CallKept DEF Inv, Prepared
<1>6. Unvalidated' /\ Checked' /\ Refusing' /\ Serving'
  BY <1>1 DEF Unvalidated, Checked, Refusing, Serving
<1>7. Answered'
  BY <1>1, <1>2, CallKept DEF Answered, Just
<1>8. Judging' /\ RefusedRowsStayUnread'
  BY <1>1, CallKept DEF Inv, Judging, RefusedRowsStayUnread
<1> QED BY <1>4, <1>5, <1>6, <1>7, <1>8 DEF Inv

(* Where nothing happens, nothing changes.                                 *)
LEMMA StutterStep ==
    ASSUME Inv, UNCHANGED vars
    PROVE  Inv'
<1>1. UNCHANGED <<stage, call, sent, arguments, state, refused, passed, read, judged,
                  detail, handed, answer>>
  BY DEF vars
<1>2. TypeOK'
  BY <1>1, CallKept DEF Inv, TypeOK
<1>3. Prepared' /\ Unvalidated'
  BY <1>1, CallKept DEF Inv, Prepared, Unvalidated, Nothing
<1>4. Checked'
  BY <1>1, CallKept DEF Inv, Checked, Fits, Orders, Unfit, Argument, Seedless, Mended
<1>5. Refusing'
  BY <1>1, RefusingKept DEF Inv, Refusing
<1>6. Answered'
  BY <1>1, CallKept DEF Inv, Answered, Just
<1>7. Serving' /\ Judging' /\ RefusedRowsStayUnread'
  BY <1>1, CallKept DEF Inv, Serving, Judging, RefusedRowsStayUnread
<1> QED BY <1>2, <1>3, <1>4, <1>5, <1>6, <1>7 DEF Inv

(* The invariant holds of every call, whatever list it is sent.            *)
THEOREM Invariance == Spec => []Inv
<1>1. Init => Inv
  BY InitHolds
<1>2. Inv /\ [Next]_vars => Inv'
  <2> SUFFICES ASSUME Inv, [Next]_vars PROVE Inv'
    OBVIOUS
  <2>1. CASE PrepareRows
    BY <2>1, PrepareStep
  <2>2. CASE RefuseArguments
    BY <2>2, RefuseArgumentsStep
  <2>3. CASE CheckRows
    BY <2>3, CheckStep
  <2>4. CASE ValidateList
    BY <2>4, ListStep
  <2>5. CASE ValidateLeft
    BY <2>5, LeftStep
  <2>6. CASE Answer
    BY <2>6, AnswerStep
  <2>7. CASE UNCHANGED vars
    BY <2>7, StutterStep
  <2> QED BY <2>1, <2>2, <2>3, <2>4, <2>5, <2>6, <2>7 DEF Next
<1> QED BY <1>1, <1>2, PTL DEF Spec

-----------------------------------------------------------------------------
(* The theorems, each by the invariant.                                    *)

(* Every variable keeps its type (EdgeCallState, edge_errors).             *)
THEOREM TypeCorrect == Spec => []TypeOK
<1>1. Inv => TypeOK
  BY DEF Inv
<1> QED BY <1>1, Invariance, PTL

(* A refusal names no row for another's fault, at the caller's own index   *)
(* (_by_row), however many rows the kernel kept out before it.             *)
THEOREM OnlyWrongRowsNamed == Spec => []NamesOnlyWrongRows
<1>1. Inv => NamesOnlyWrongRows
  BY DEF Inv, Answered, Just, NamesOnlyWrongRows
<1> QED BY <1>1, Invariance, PTL

(* A refusal of rows names every wrong row, whichever of the kernel and    *)
(* the serializer refused it (_rows_past_a_refusal).                       *)
THEOREM EveryWrongRowNamed == Spec => []NamesEveryWrongRow
<1>1. Inv => NamesEveryWrongRow
  BY DEF Inv, Answered, Just, NamesEveryWrongRow
<1> QED BY <1>1, Invariance, PTL

(* The service runs on every row, in order, or on none (validated_many).   *)
THEOREM ServedInFull == Spec => []ServedWhereAllIsRight
<1>1. Inv => ServedWhereAllIsRight
  BY DEF Inv, Answered, Just, Serving, ServedWhereAllIsRight
<1> QED BY <1>1, Invariance, PTL

(* A list is held to its bounds and judged as it was sent (_bound_refusal).*)
THEOREM ListsJudgedAsSent == Spec => []ListJudgedAsSent
<1>1. Inv => ListJudgedAsSent
  BY DEF Inv, Answered, Just, Judging, ListJudgedAsSent
<1> QED BY <1>1, Invariance, PTL

(* A row the kernel refused is read again for a live view's list body only *)
(* (body_rows).                                                            *)
THEOREM RefusedRowsUnread == Spec => []RefusedRowsStayUnread
<1>1. Inv => RefusedRowsStayUnread
  BY DEF Inv
<1> QED BY <1>1, Invariance, PTL
=============================================================================
