------------------------------ MODULE Refusals ------------------------------
(***************************************************************************)
(* What becomes of a refusal on its way out of a call.  An author raises   *)
(* DRF's exceptions or the kernel's; the kernel's routes read only the     *)
(* kernel's, DRF's handler only DRF's, and each boundary translates.       *)
(*                                                                         *)
(* A refusal is its class, the status DRF answers it with and the refusal  *)
(* it was translated from.  A project may subclass DRF's classes with a    *)
(* status of its own; "crash" stands for every exception that is neither   *)
(* DRF's nor the kernel's, which is answered 500.  AdditionalInputRequired *)
(* is one that carries a schema of the input it asks for.                  *)
(***************************************************************************)
EXTENDS Naturals

CONSTANT None  \* nothing refused, or translated from nothing

(* A class, the classes it also is, and the status its own class declares. *)
Kernel == {"KernelInvalidArguments", "KernelNotPermitted", "KernelPrincipalUnavailable"}
DRF == [ValidationError |-> 400, NotAuthenticated |-> 401, PermissionDenied |-> 403,
        NotFound |-> 404, MethodNotAllowed |-> 405, Throttled |-> 429,
        _ConflictAPIException |-> 409, _AdditionalInputAPIException |-> 422,
        _ServiceAPIException |-> 422]
InvalidArguments == {"KernelInvalidArguments", "ValidationError"}
NotPermitted == {"KernelNotPermitted", "PermissionDenied"}
PrincipalUnavailable == {"KernelPrincipalUnavailable", "PermissionDenied"}
DRFNotAuthenticated == {"KernelNotPermitted", "NotAuthenticated"}
DRFServiceValidationError == {"ServiceValidationError", "ValidationError"}
Twins ==
    [InvalidArguments |-> InvalidArguments, NotPermitted |-> NotPermitted,
     PrincipalUnavailable |-> PrincipalUnavailable, DRFNotAuthenticated |-> DRFNotAuthenticated,
     DRFServiceValidationError |-> DRFServiceValidationError]
ServiceErrors ==
    {"ServiceError", "ServiceValidationError", "ServiceNotFound", "ServiceConflict",
     "ActionUnavailable", "AdditionalInputRequired"}

Bases(class) == {class} \cup (IF class \in DOMAIN Twins THEN Twins[class] ELSE {})
IsA(refusal, classes) == Bases(refusal.class) \cap classes # {}
DispatchError(refusal) == IsA(refusal, Kernel)
ServiceError(refusal) == IsA(refusal, ServiceErrors)
APIException(refusal) == IsA(refusal, DOMAIN DRF)

Raised(class) ==
    [class |-> class, from |-> None,
     status |-> IF Bases(class) \cap DOMAIN DRF = {} THEN 500
                ELSE DRF[CHOOSE base \in Bases(class) : base \in DOMAIN DRF]]

-----------------------------------------------------------------------------
(* Out of an author's callable and into the kernel.                        *)

_built(refusal) ==
    IF DispatchError(refusal) \/ ServiceError(refusal) THEN None
    ELSE CASE IsA(refusal, {"NotAuthenticated"}) -> "DRFNotAuthenticated"
           [] IsA(refusal, {"PermissionDenied"}) -> "NotPermitted"
           [] IsA(refusal, {"ValidationError"}) -> "DRFServiceValidationError"
           [] OTHER -> None

(* A mistake: the twin answers with its own class's status. *)
TwinsOwnStatus(refusal) ==
    IF _built(refusal) = None THEN refusal
    ELSE [Raised(_built(refusal)) EXCEPT !.from = refusal]

_kernel_twin(refusal) ==
    IF _built(refusal) = None THEN refusal
    ELSE [class |-> _built(refusal), status |-> refusal.status, from |-> refusal]

translate_drf_refusals(refusal) ==
    IF APIException(refusal) THEN _kernel_twin(refusal) ELSE refusal

-----------------------------------------------------------------------------
(* Out of the kernel, through the edge.                                    *)

_drf_twin(refusal) ==
    CASE APIException(refusal) -> refusal
      [] refusal.class = "KernelInvalidArguments" -> Raised("InvalidArguments")
      [] refusal.class = "KernelNotPermitted" -> Raised("NotPermitted")
      [] refusal.class = "KernelPrincipalUnavailable" -> Raised("PrincipalUnavailable")
      [] OTHER -> refusal

translate_dispatch_errors(refusal) ==
    IF DispatchError(refusal) THEN _drf_twin(refusal) ELSE refusal

(* Renamed to the wire's names, the refusal is built anew.                 *)
wire_named_error(refusal) ==
    Raised(IF IsA(refusal, {"ServiceValidationError"}) THEN "ServiceValidationError"
           ELSE "ValidationError")

(* The author's own refusal is restored.  named: the spec has an input     *)
(* serializer, whose wire names a validation error is given.               *)
edge_errors(refusal, named) ==
    LET restored == IF APIException(refusal) /\ refusal.from # None THEN refusal.from
                    ELSE translate_dispatch_errors(refusal)
    IN IF named /\ ~IsA(restored, {"InvalidArguments"})
             /\ IsA(restored, {"ServiceValidationError", "ValidationError"})
       THEN wire_named_error(restored) ELSE restored

-----------------------------------------------------------------------------
(* Out of a view.                                                          *)

map_service_error(refusal) ==
    Raised(CASE IsA(refusal, {"ServiceValidationError"}) -> "ValidationError"
             [] refusal.class = "ServiceNotFound" -> "NotFound"
             [] refusal.class \in {"ActionUnavailable", "ServiceConflict"} ->
                   "_ConflictAPIException"
             [] refusal.class = "AdditionalInputRequired" -> "_AdditionalInputAPIException"
             [] OTHER -> "_ServiceAPIException")

(* except ServiceError: of the mutation dispatch and of a discriminator.   *)
Mapped(refusal) == IF ServiceError(refusal) THEN map_service_error(refusal) ELSE refusal

(* The schema restored to the body DRF's handler built of it.              *)
restore_raised_schema(refusal, body) ==
    IF refusal.class = "_AdditionalInputAPIException" /\ body = "stringified"
    THEN "schema" ELSE body

(* The exception handler: the body of an APIException, its leaves strings; *)
(* anything else it declines, and DRF raises.                              *)
exception_handler(refusal) ==
    IF refusal.class = "_AdditionalInputAPIException" THEN "stringified"
    ELSE IF APIException(refusal) THEN "error" ELSE "raised"
=============================================================================
