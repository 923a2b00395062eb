---------------------------- MODULE ErrorReplies ----------------------------
(***************************************************************************)
(* Which exception is answered with which status: the handlers that        *)
(* src/main.py registers and the way Starlette picks one, which is by the  *)
(* classes of the exception, the most derived first, and not by the order  *)
(* of registration.                                                        *)
(***************************************************************************)
EXTENDS Integers

\* A class and the classes above it, Exception left out.
Superclasses == [
    NotFoundException              |-> {"NotFoundException", "DomainException"},
    BusinessRuleViolationException |-> {"BusinessRuleViolationException", "DomainException"},
    ConflictException              |-> {"ConflictException", "DomainException"},
    DomainException                |-> {"DomainException"},
    ValidationError                |-> {"ValidationError", "ValueError"},
    ValueError                     |-> {"ValueError"},
    HTTPException                  |-> {"HTTPException"},
    RequestValidationError         |-> {"RequestValidationError"},
    StaleDataError                 |-> {"StaleDataError"},
    DBAPIError                     |-> {"DBAPIError"},
    TimeoutError                   |-> {"TimeoutError"}]

(* The status each handler answers with.  HTTPException and                *)
(* RequestValidationError have the default handlers of FastAPI: an unknown *)
(* path is 404, a body or path parameter that is not valid is 422.         *)
ExceptionHandlers == [
    NotFoundException |-> 404, BusinessRuleViolationException |-> 422,
    ConflictException |-> 409, DomainException |-> 400, ValidationError |-> 422,
    ValueError |-> 400, HTTPException |-> 404, RequestValidationError |-> 422]

HandledClasses(e) == Superclasses[e] \cap DOMAIN ExceptionHandlers

Handles(class, e) ==
    /\ class \in HandledClasses(e)
    /\ \A other \in HandledClasses(e) : other \in Superclasses[class]

IsHandled(e) == \E class \in DOMAIN ExceptionHandlers : Handles(class, e)

\* What no handler takes reaches the one of Exception, which Starlette keeps
\* for its outermost layer.
HttpStatus(e) ==
    IF IsHandled(e)
    THEN ExceptionHandlers[CHOOSE class \in DOMAIN ExceptionHandlers : Handles(class, e)]
    ELSE 500

=============================================================================
