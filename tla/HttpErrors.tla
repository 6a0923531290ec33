----------------------------- MODULE HttpErrors -----------------------------
(* The exception handlers of the application: which status an exception gets. *)
EXTENDS Integers

\* exception_config, by the name of the exception.
Handlers == [RequestValidationError     |-> 422,
             LoginError                 |-> 403,
             NotFoundError              |-> 404,
             AlreadyExistsError         |-> 422,
             RequestError               |-> 503,
             RequestTimeoutError        |-> 408,
             RedisConnectionError       |-> 503,
             ConflictError              |-> 409,
             GlossaryUpdateFromXlsxError |-> 423,
             GlossaryCreateError        |-> 422]

\* Any other exception has the handler of Exception.
Status(exception) == IF exception \in DOMAIN Handlers THEN Handlers[exception] ELSE 500

\* What a status tells the caller of a request that changes the glossary.
Meaning(status) ==
    CASE status = 200 -> "modified"
      [] status \in {403, 404, 409, 422, 423} -> "refused"
      [] OTHER -> "failed"
=============================================================================
