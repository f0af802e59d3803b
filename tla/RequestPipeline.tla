--------------------------- MODULE RequestPipeline ---------------------------
(***************************************************************************)
(* One request on its way through the gateway: middleware, the payload of  *)
(* the request (DataPayload), the handler, the exit of the effect runtime, *)
(* the exception handler, and the wrapper that puts every answer into the  *)
(* envelope of a success or of an exception.                               *)
(*                                                                         *)
(* An error is answered where it is raised: the exception handler makes    *)
(* the response, and the middleware before it goes on as if the route had  *)
(* returned. The transaction of the request is ScopedTransaction's matter. *)
(***************************************************************************)
EXTENDS Naturals, FiniteSets

CONSTANTS
  Codes,        \* the codes of exceptions and of internal errors
  Errors,       \* what the parts of the program can raise
  StatusCodes   \* the members of the enumeration StatusCodes

Kinds == {"exception", "internal", "vine", "not_found", "too_large",
          "framework", "error", "value"}

\* data: the context data of an error and whether its schema decodes it;
\* "context" is the data of an internal error that the response will show.
ErrorRecords == [kind : Kinds, code : Codes, status : Nat,
                 data : {"none", "fits", "misfits", "context"}]

\* The codes of the classes that the pipeline itself makes instances of.
OwnCodes ==
  {"none", "E_ROUTE_NOT_FOUND", "E_VALIDATION", "E_REQUEST_ENTITY_TOO_LARGE",
   "E_UNAUTHORIZED", "E_INTERNAL_SERVER", "I_SCHEMA", "I_UNKNOWN",
   "I_DATA_PAYLOAD_INVALID_SOURCE", "I_UNEXPECTED_RUNTIME_EXIT_RESULT"}

ASSUME CodesAssumption == OwnCodes \subseteq Codes

ASSUME ErrorsAssumption ==
  /\ Errors \subseteq {e \in ErrorRecords : e.status # 200 /\ e.data # "context"}
  /\ {200, 401, 404, 413, 422, 500} \subseteq StatusCodes /\ StatusCodes \subseteq Nat
  /\ \A e \in Errors : e.kind = "exception" => e.status \in StatusCodes

VARIABLES
  production,  \* the environment (app.inProduction)
  pc,          \* where the request is
  payload,     \* what the payload holds of the data of the request
  context,     \* what the response context holds, metadata or a message
  raised,      \* the error the request met first, or the wrapper's own
  cause,       \* how it ended the effect that met it, if it did
  error,       \* the error on its way to the exception handler
  response     \* the status and the content of the response

vars == <<production, pc, payload, context, raised, cause, error, response>>

NoError == [kind |-> "none", code |-> "none", status |-> 0, data |-> "none"]

NoContent == [type |-> "none", status |-> 0, code |-> "none", data |-> "none", told |-> {}]

Fresh == [original |-> FALSE, validated |-> "none", mapped |-> FALSE, decoded |-> FALSE]

Places == {"route", "body", "authenticate", "source", "validate", "map",
           "decode", "handle", "exit", "answer", "answer unrouted", "wrap", "sent"}

Causes == {"fail", "die", "both", "interrupt"}

Contents ==
  [type : {"none", "data", "returned", "exception", "success"},
   status : Nat, code : Codes, data : {"none", "fits", "context"},
   told : SUBSET {"metadata", "message"}]

TypeOK ==
  /\ production \in BOOLEAN
  /\ pc \in Places
  /\ payload \in [original : BOOLEAN, validated : {"none", "vine", "schema"},
                  mapped : BOOLEAN, decoded : BOOLEAN]
  /\ context \subseteq {"metadata", "message"}
  /\ raised \in ErrorRecords \cup {NoError}
  /\ error \in ErrorRecords \cup {NoError}
  /\ cause \in Causes \cup {"none", "returned", "answered"}
  /\ response \in [status : StatusCodes, content : Contents]

Init ==
  /\ production \in BOOLEAN
  /\ pc = "route"
  /\ payload = Fresh
  /\ context = {}
  /\ raised = NoError /\ error = NoError
  /\ cause = "none"
  /\ response = [status |-> 200, content |-> NoContent]

---------------------------------------------------------------------------
(* Errors                                                                  *)

\* The code and the status are the class's own, or those of the options.
Exception(code, status, data) ==
  [kind |-> "exception", code |-> code, status |-> status, data |-> data]

InternalError(code, data) ==
  [kind |-> "internal", code |-> code, status |-> 0, data |-> data]

SchemaError == InternalError("I_SCHEMA", "fits")

UnknownError == InternalError("I_UNKNOWN", "fits")

Frameworks == {"not_found", "vine", "too_large", "framework"}

IsKnown(e) == e.kind \in {"exception", "not_found", "vine", "too_large"}

\* The exception an error is known as.
KnownException(e) ==
  CASE e.kind = "exception" -> e
    [] e.kind = "not_found" -> Exception("E_ROUTE_NOT_FOUND", 404, "fits")
    [] e.kind = "vine" -> Exception("E_VALIDATION", 422, e.data)
    [] e.kind = "too_large" -> Exception("E_REQUEST_ENTITY_TOO_LARGE", 413, "none")

\* Mutant of InternalServer: the data is read in every environment.
InternalServerWithData(e) ==
  Exception("E_INTERNAL_SERVER",
            IF e.kind \in Frameworks THEN e.status ELSE 500,
            IF e.kind # "internal" THEN "none"
            ELSE IF e.data = "fits" THEN "context" ELSE e.data)

\* What every other error becomes: it keeps the status of a framework's error.
\* The data of an internal error is read in debug mode only.
InternalServer(e) ==
  Exception("E_INTERNAL_SERVER",
            IF e.kind \in Frameworks THEN e.status ELSE 500,
            IF e.kind # "internal" \/ production THEN "none"
            ELSE IF e.data = "fits" THEN "context" ELSE e.data)

ToException(e) == IF IsKnown(e) THEN KnownException(e) ELSE InternalServer(e)

\* The service that validates with vine knows the error vine raises.
FromVine(e) == IF e.kind = "vine" THEN KnownException(e) ELSE UnknownError

---------------------------------------------------------------------------
(* Steps                                                                   *)

Goto(place) == pc' = place

\* An error is thrown in a middleware, and the exception handler called.
Throw(e, handler) ==
  /\ Goto(handler)
  /\ error' = e
  /\ raised' = e
  /\ UNCHANGED <<cause, payload, context, response, production>>

\* The effect of the route ends with an error.
End(e, how) ==
  /\ Goto("exit")
  /\ error' = e
  /\ raised' = e
  /\ cause' = how
  /\ UNCHANGED <<payload, context, response, production>>

Proceed(place) ==
  /\ Goto(place)
  /\ UNCHANGED <<raised, cause, error, payload, context, response, production>>

\* Without a route no middleware of the router is run, the wrapper included.
FindRoute ==
  /\ pc = "route"
  /\ \/ Proceed("body")
     \/ \E e \in Errors : e.kind = "not_found" /\ Throw(e, "answer unrouted")

ReadBody ==
  /\ pc = "body"
  /\ \/ Proceed("authenticate")
     \/ \E e \in Errors : e.kind \in {"too_large", "framework", "error"} /\ Throw(e, "answer")

Unauthorized == Exception("E_UNAUTHORIZED", 401, "none")

Authenticate ==
  /\ pc = "authenticate"
  /\ \/ Proceed("source") \/ Proceed("handle")
     \/ \E e \in Errors : e.kind # "vine" /\ Throw(ToException(e), "answer")
     \/ Throw(Unauthorized, "answer")

Store(place, stored) ==
  /\ Goto(place)
  /\ payload' = stored
  /\ UNCHANGED <<raised, cause, error, context, response, production>>

\* The data of the request, merged, is the source of its payload.
TakeSource ==
  /\ pc = "source"
  /\ \/ Store("validate", [payload EXCEPT !.original = TRUE])
     \/ End(InternalError("I_DATA_PAYLOAD_INVALID_SOURCE", "none"), "fail")

ValidatePayload ==
  /\ pc = "validate"
  /\ \/ Store("map", [payload EXCEPT !.validated = "vine"])
     \/ \E e \in Errors : End(FromVine(e), "fail")

MapPayload ==
  /\ pc = "map"
  /\ \/ Store("decode", [payload EXCEPT !.mapped = TRUE])
     \/ \E e \in Errors : e.kind \in {"exception", "internal"} /\ End(e, "fail")

DecodePayload ==
  /\ pc = "decode"
  /\ \/ Store("handle", [payload EXCEPT !.decoded = TRUE, !.validated = "schema"])
     \/ End(SchemaError, "fail")

\* The handler adds to the response context, and cannot take away from it.
Describe ==
  /\ pc = "handle"
  /\ \E d \in {"metadata", "message"} : context' = context \cup {d}
  /\ UNCHANGED <<pc, payload, raised, cause, error, response, production>>

Return ==
  /\ pc = "handle"
  /\ Goto("wrap")
  /\ \E type \in {"none", "data"} : response' = [response EXCEPT !.content.type = type]
  /\ UNCHANGED <<payload, context, raised, cause, error, production>>

\* An exception the handler returns instead of failing with it (SpaceController
\* does when the ability is denied) is the data of its response.
ReturnException ==
  /\ pc = "handle"
  /\ Goto("wrap")
  /\ \E e \in Errors : e.kind = "exception" /\ raised' = e
  /\ cause' = "returned"
  /\ response' = [response EXCEPT !.content.type = "returned"]
  /\ UNCHANGED <<payload, context, error, production>>

\* A handler that catches the error, or refuses the request, and answers with a
\* status of its own. The wrapper takes its content for a success's.
AnswerItself ==
  /\ pc = "handle"
  /\ Goto("wrap")
  /\ raised' \in Errors \cup {NoError}
  /\ cause' = "answered"
  /\ \E status \in StatusCodes \ {200} :
       response' = [response EXCEPT !.status = status, !.content.type = "data"]
  /\ UNCHANGED <<payload, context, error, production>>

\* The handler or a service it calls fails, throws, fails while a finalizer
\* throws, or is interrupted.
FailHandler ==
  /\ pc = "handle"
  /\ \E e \in Errors, how \in Causes : End(e, how)

\* What the runtime makes of the end of the effect: a failure or a defect is
\* converted, a defect beside an exception wins, and the rest is unexpected.
Exits ==
  CASE cause = "interrupt" ->
         {InternalServer(InternalError("I_UNEXPECTED_RUNTIME_EXIT_RESULT", "fits"))}
    [] cause = "both" /\ error.kind = "exception" -> {ToException(d) : d \in Errors}
    [] OTHER -> {ToException(error)}

\* Mutant of ExitRuntime: every end of the effect is a server error.
ExitAsServerError ==
  /\ pc = "exit"
  /\ Goto("answer")
  /\ error' = InternalServer(error)
  /\ UNCHANGED <<payload, context, raised, cause, response, production>>

ExitRuntime ==
  /\ pc = "exit"
  /\ Goto("answer")
  /\ error' \in Exits
  /\ UNCHANGED <<payload, context, raised, cause, response, production>>

ExceptionResponse(e) ==
  [type |-> "exception", status |-> e.status, code |-> e.code, data |-> e.data,
   told |-> context \ {"message"}]

FatalResponse ==
  [type |-> "exception", status |-> 500, code |-> "E_INTERNAL_SERVER", data |-> "none",
   told |-> {}]

\* The response an exception makes, when its status and its data are in order,
\* and the one that is made by hand when they are not.
Envelope(e) ==
  IF e.status \in StatusCodes /\ e.data # "misfits" THEN ExceptionResponse(e)
  ELSE FatalResponse

\* Mutant of Answer: the response is made without decoding it.
AnswerUnchecked ==
  /\ pc \in {"answer", "answer unrouted"}
  /\ Goto(IF pc = "answer" THEN "wrap" ELSE "sent")
  /\ LET envelope == ExceptionResponse(ToException(error))
     IN response' = [status |-> envelope.status, content |-> envelope]
  /\ UNCHANGED <<payload, context, raised, cause, error, production>>

\* HttpExceptionHandler.handle
Answer ==
  /\ pc \in {"answer", "answer unrouted"}
  /\ Goto(IF pc = "answer" THEN "wrap" ELSE "sent")
  /\ LET envelope == Envelope(ToException(error))
     IN response' = [status |-> envelope.status, content |-> envelope]
  /\ UNCHANGED <<payload, context, raised, cause, error, production>>

SuccessResponse ==
  [type |-> "success", status |-> 200, code |-> "none", data |-> "fits", told |-> context]

\* Mutant of WrapResponse: an exception is wrapped as any content.
WrapEverything ==
  /\ pc = "wrap"
  /\ Goto("sent")
  /\ response' = IF response.content.type = "none" THEN response
                 ELSE [status |-> 200, content |-> SuccessResponse]
  /\ UNCHANGED <<payload, context, raised, cause, error, production>>

Wrappable == response.content.type \in {"data", "returned"}

\* Missing content is left alone, an exception's response is sent under its own
\* status, and any other content is made a success's, whatever status it came
\* with: every request accepts JSON (ForceJsonResponseMiddleware).
WrapResponse ==
  /\ pc = "wrap"
  /\ Goto("sent")
  /\ \/ response.content.type = "none" /\ UNCHANGED response
     \/ /\ response.content.type = "exception"
        /\ response' = [response EXCEPT !.status = response.content.status]
     \/ Wrappable /\ response' = [status |-> 200, content |-> SuccessResponse]
  /\ UNCHANGED <<payload, context, raised, cause, production, error>>

\* The content cannot be encoded as a success: the wrapper throws, and what
\* the exception handler answers is not wrapped again.
WrapFails ==
  /\ pc = "wrap" /\ Wrappable
  /\ Goto("answer unrouted")
  /\ raised' = SchemaError /\ error' = ToException(SchemaError) /\ cause' = "none"
  /\ UNCHANGED <<payload, context, response, production>>

Next ==
  \/ FindRoute \/ ReadBody \/ Authenticate
  \/ TakeSource \/ ValidatePayload \/ MapPayload \/ DecodePayload
  \/ Describe \/ Return \/ ReturnException \/ AnswerItself \/ FailHandler
  \/ ExitRuntime \/ Answer \/ WrapResponse \/ WrapFails

Spec == Init /\ [][Next]_vars

---------------------------------------------------------------------------
(* Properties                                                              *)

\* An error in any part of the request that nobody catches, and one in the
\* making of its response, is answered with the envelope of an exception, and
\* nothing else is. No content leaves without an envelope, and none under
\* another status than its envelope says; a failure's is never 200
\* (HttpExceptionHandler, ResponseWrapperMiddleware).
FailureReported ==
  pc = "sent" =>
    LET failed == raised # NoError /\ cause \notin {"returned", "answered"} IN
      /\ failed <=> response.content.type = "exception"
      /\ failed => response.status # 200
      /\ response.content.type \in {"none", "success", "exception"}
      /\ response.content.type # "none" => response.status = response.content.status

\* An exception the program declares arrives under its own code and status, as
\* long as its data decodes and no finalizer threw (ErrorConversionService).
DeclaredArrives ==
  /\ pc = "sent" /\ raised.kind = "exception" /\ cause \in {"none", "fail", "die"}
  /\ raised.status \in StatusCodes /\ raised.data # "misfits"
  => response.content.code = raised.code /\ response.status = raised.status

\* The context data of an internal error stays inside in production
\* (InternalServerException.debug).
InternalsHidden == production => response.content.data # "context"

\* What ForbiddenActionException says of itself: it "occurs when the user tries
\* to perform an action that is forbidden", with the status 403; the code
\* answers 200 where the exception is returned (SpaceController.create).
RefusalReported ==
  pc = "sent" /\ raised # NoError /\ cause # "answered" => response.content.type = "exception"
=============================================================================
