------------------------ MODULE RequestPipelineProofs ------------------------
(***************************************************************************)
(* Proofs about RequestPipeline, for any errors and any status codes.      *)
(*                                                                         *)
(* On its way to the exception handler an error may be converted several   *)
(* times. ConversionKeeps is what every conversion preserves: no error     *)
(* becomes a status 200, a declared exception stays the one it is, and in  *)
(* production the data of an internal error is not taken along.            *)
(***************************************************************************)
EXTENDS RequestPipeline, TLAPS

Raisable == {e \in ErrorRecords : e.status # 200}

Before == {"route", "body", "authenticate", "source", "validate", "map", "decode", "handle"}

Underway == {"exit", "answer", "answer unrouted"}

\* Where the error is, and what the response says of it.
Reported ==
  /\ pc \in Before =>
       raised = NoError /\ cause = "none" /\ response.content = NoContent
  /\ pc \in Underway =>
       /\ raised \in Raisable /\ error \in Raisable
       /\ cause \in Causes \cup {"none"}
  /\ pc \in {"wrap", "sent"} =>
       \/ /\ raised \in Raisable /\ cause \in Causes \cup {"none"}
          /\ response.content.type = "exception"
          /\ response.status = response.content.status /\ response.status # 200
       \/ raised = NoError /\ response.content.type # "exception"
       \/ cause \in {"returned", "answered"} /\ response.content.type # "exception"
  /\ pc = "sent" =>
       /\ response.content.type \in {"none", "success", "exception"}
       /\ response.content.type # "none" => response.status = response.content.status

Declared(e) ==
  /\ e.kind = "exception" /\ cause \in {"none", "fail", "die"}
  /\ e.status \in StatusCodes /\ e.data # "misfits"

\* A declared exception is the error itself until it is the response.
Unaltered ==
  Declared(raised) =>
    /\ pc \in Underway => error = raised
    /\ pc \in {"wrap", "sent"} =>
         /\ response.content.type = "exception"
         /\ response.content.code = raised.code
         /\ response.status = raised.status

Hidden == production => error.data # "context" /\ response.content.data # "context"

IInv == TypeOK /\ Reported /\ Unaltered /\ Hidden

---------------------------------------------------------------------------
(* Conversion                                                              *)

\* What converting an error into an exception keeps.
LEMMA ConversionKeeps ==
  ASSUME NEW e \in Raisable
  PROVE  /\ ToException(e) \in Raisable
         /\ ToException(e).kind = "exception"
         /\ e.kind = "exception" => ToException(e) = e
         /\ production /\ e.data # "context" => ToException(e).data # "context"
<1>1. CASE e.kind = "exception"
  BY <1>1 DEF ToException, IsKnown, KnownException, Raisable
<1>2. CASE e.kind \in {"not_found", "vine", "too_large"}
  BY <1>2, CodesAssumption
     DEF OwnCodes, ToException, IsKnown, KnownException, Exception, Raisable, ErrorRecords, Kinds
<1>3. CASE e.kind \notin {"exception", "not_found", "vine", "too_large"}
  <2>1. ToException(e) = InternalServer(e)
    BY <1>3 DEF ToException, IsKnown
  <2>2. /\ InternalServer(e) \in Raisable
        /\ production /\ e.data # "context" => InternalServer(e).data # "context"
        /\ InternalServer(e).kind = "exception"
    BY CodesAssumption
       DEF OwnCodes, InternalServer, Exception, Raisable, ErrorRecords, Kinds, Frameworks
  <2> QED
    BY <1>3, <2>1, <2>2
<1> QED
  BY <1>1, <1>2, <1>3

\* The errors that the pipeline makes itself can be raised, and show nothing.
LEMMA MadeErrors ==
  /\ Unauthorized \in Raisable /\ Unauthorized.data # "context"
  /\ SchemaError \in Raisable /\ SchemaError.data # "context"
  /\ UnknownError \in Raisable /\ UnknownError.data # "context"
  /\ \A code \in Codes : /\ InternalError(code, "none") \in Raisable
                          /\ InternalError(code, "fits") \in Raisable
                          /\ InternalError(code, "none").data # "context"
                          /\ InternalError(code, "fits").data # "context"
BY CodesAssumption
   DEF OwnCodes, Unauthorized, SchemaError, UnknownError, InternalError, Exception,
       Raisable, ErrorRecords, Kinds

\* The errors of the program can be raised, and show nothing either.
LEMMA GivenErrors == \A e \in Errors : e \in Raisable /\ e.data # "context"
BY ErrorsAssumption DEF Raisable

\* What the vine service makes of an error can be raised and shows nothing.
LEMMA VineErrors ==
  ASSUME NEW e \in Errors
  PROVE  FromVine(e) \in Raisable /\ FromVine(e).data # "context"
<1>1. e \in Raisable /\ e.data # "context"
  BY GivenErrors
<1>2. CASE e.kind = "vine"
  BY <1>1, <1>2, CodesAssumption
     DEF OwnCodes, FromVine, KnownException, Exception, Raisable, ErrorRecords, Kinds
<1>3. CASE e.kind # "vine"
  BY <1>3, MadeErrors DEF FromVine
<1> QED
  BY <1>2, <1>3

\* A response is made of any error: it is an exception's, with a status that
\* is not 200, and it is the error's own where that has one to give.
LEMMA EnvelopeReports ==
  ASSUME TypeOK, NEW e \in Raisable, NEW n, n = Envelope(e)
  PROVE  /\ n \in Contents /\ n.type = "exception"
         /\ n.status \in StatusCodes /\ n.status # 200
         /\ e.status \in StatusCodes /\ e.data # "misfits" =>
              n.code = e.code /\ n.status = e.status
         /\ e.data # "context" => n.data # "context"
<1>1. CASE e.status \in StatusCodes /\ e.data # "misfits"
  <2>1. n = ExceptionResponse(e)
    BY <1>1 DEF Envelope
  <2> QED
    BY <1>1, <2>1 DEF ExceptionResponse, Contents, Raisable, ErrorRecords, TypeOK
<1>2. CASE ~(e.status \in StatusCodes /\ e.data # "misfits")
  <2>1. n = FatalResponse
    BY <1>2 DEF Envelope
  <2> QED
    BY <1>2, <2>1, ErrorsAssumption, CodesAssumption DEF OwnCodes, FatalResponse, Contents
<1> QED
  BY <1>1, <1>2

---------------------------------------------------------------------------
(* Steps                                                                   *)

\* A part of the request that goes on, before anything went wrong, keeps the
\* invariant, whatever it does to the payload and to the context.
LEMMA GoingOnKeeps ==
  ASSUME IInv, pc \in Before, pc' \in Before, TypeOK',
         UNCHANGED <<raised, cause, error, response, production>>
  PROVE  IInv'
BY DEF IInv, Reported, Unaltered, Declared, Hidden, Before, Underway, NoError

\* The first error keeps the invariant, thrown or failed with.
LEMMA FirstErrorKeeps ==
  ASSUME IInv, pc \in Before, NEW e \in Raisable, production => e.data # "context",
         pc' \in Underway, error' = e, raised' = e, cause' \in Causes \cup {cause},
         UNCHANGED <<payload, context, response, production>>
  PROVE  IInv'
<1>1. cause' \in Causes \cup {"none"}
  BY DEF IInv, Reported
<1>2. e \in ErrorRecords
  BY DEF Raisable
<1>3. TypeOK'
  BY <1>1, <1>2 DEF IInv, TypeOK, Underway, Places, Causes
<1>4. Reported'
  BY <1>1 DEF Reported, Underway, Before
<1>5. Unaltered' /\ Hidden'
  BY DEF IInv, Unaltered, Hidden, Underway
<1> QED
  BY <1>3, <1>4, <1>5 DEF IInv

\* A throw in a middleware is a first error.
LEMMA ThrowKeeps ==
  ASSUME IInv, pc \in Before, NEW e \in Raisable, production => e.data # "context",
         NEW handler \in {"answer", "answer unrouted"}, Throw(e, handler)
  PROVE  IInv'
BY FirstErrorKeeps DEF Throw, Goto, Underway

\* So is the end of the effect with an error.
LEMMA EndKeeps ==
  ASSUME IInv, pc \in Before, NEW e \in Raisable, e.data # "context",
         NEW how \in Causes, End(e, how)
  PROVE  IInv'
BY FirstErrorKeeps DEF End, Goto, Underway

\* What the runtime answers keeps the invariant: a defect beside a declared
\* exception may take its place, nothing else may.
LEMMA ExitKeeps ==
  ASSUME IInv, ExitRuntime
  PROVE  IInv'
<1>1. /\ pc = "exit" /\ pc' = "answer" /\ error' \in Exits
      /\ UNCHANGED <<payload, context, raised, cause, response, production>>
  BY DEF ExitRuntime, Goto
<1>2. error \in Raisable /\ raised \in Raisable /\ cause \in Causes \cup {"none"}
  BY <1>1 DEF IInv, Reported, Underway
<1>3. PICK made \in Raisable :
        made = InternalError("I_UNEXPECTED_RUNTIME_EXIT_RESULT", "fits") /\ made.data # "context"
  BY MadeErrors, CodesAssumption DEF OwnCodes
<1>4. IsKnown(made) = FALSE
  BY <1>3 DEF IsKnown, InternalError
<1>5. error' \in Raisable /\ (production => error'.data # "context")
  <2>1. CASE cause = "interrupt"
    <3>1. error' = ToException(made)
      BY <1>1, <1>3, <1>4, <2>1 DEF Exits, ToException
    <3> QED
      BY <1>3, <3>1, ConversionKeeps
  <2>2. CASE cause = "both" /\ error.kind = "exception"
    <3>1. PICK d \in Errors : error' = ToException(d)
      BY <1>1, <2>2 DEF Exits
    <3> QED
      BY <3>1, GivenErrors, ConversionKeeps
  <2>3. CASE cause # "interrupt" /\ ~(cause = "both" /\ error.kind = "exception")
    <3>1. PICK e \in Raisable : e = error
      BY <1>2
    <3>2. error' = ToException(e)
      BY <1>1, <2>3, <3>1 DEF Exits
    <3> QED
      BY <3>1, <3>2, ConversionKeeps DEF IInv, Hidden
  <2> QED
    BY <2>1, <2>2, <2>3
<1>6. Declared(raised) => error' = raised
  <2>1. ASSUME Declared(raised) PROVE error' = raised
    <3>1. error = raised /\ raised.kind = "exception" /\ cause \in {"none", "fail", "die"}
      BY <1>1, <2>1 DEF IInv, Unaltered, Declared, Underway
    <3>2. PICK e \in Raisable : e = error
      BY <1>2
    <3>3. error' = ToException(e)
      BY <1>1, <3>1, <3>2 DEF Exits
    <3> QED
      BY <3>1, <3>2, <3>3, ConversionKeeps
  <2> QED
    BY <2>1
<1>7. TypeOK'
  BY <1>1, <1>5 DEF IInv, TypeOK, Places, Raisable
<1>8. Reported'
  BY <1>1, <1>2, <1>5 DEF Reported, Underway, Before
<1>9. Unaltered' /\ Hidden'
  BY <1>1, <1>5, <1>6 DEF IInv, Unaltered, Declared, Hidden, Underway
<1> QED
  BY <1>7, <1>8, <1>9 DEF IInv

\* The response that the exception handler makes keeps the invariant.
LEMMA AnswerKeeps ==
  ASSUME IInv, Answer
  PROVE  IInv'
<1>1. PICK e \in Raisable : e = error
  BY DEF IInv, Reported, Answer, Underway
<1>2. PICK x \in Raisable :
        /\ x = ToException(e)
        /\ e.kind = "exception" => x = e
        /\ production => x.data # "context"
  BY <1>1, ConversionKeeps DEF IInv, Hidden
<1>3. PICK n : n = Envelope(x)
  OBVIOUS
<1>4. /\ n \in Contents /\ n.type = "exception"
      /\ n.status \in StatusCodes /\ n.status # 200
      /\ x.status \in StatusCodes /\ x.data # "misfits" =>
           n.code = x.code /\ n.status = x.status
      /\ x.data # "context" => n.data # "context"
  BY <1>3, EnvelopeReports DEF IInv
<1>5. /\ pc \in Underway /\ pc' \in {"wrap", "sent"}
      /\ response' = [status |-> n.status, content |-> n]
      /\ UNCHANGED <<payload, context, raised, cause, error, production>>
  BY <1>1, <1>2, <1>3 DEF Answer, Goto, Underway
<1>6. /\ response'.status = n.status /\ response'.content = n
      /\ response' \in [status : StatusCodes, content : Contents]
  BY <1>4, <1>5
<1>7. TypeOK'
  BY <1>5, <1>6 DEF IInv, TypeOK, Places
<1>8. Reported'
  BY <1>4, <1>5, <1>6 DEF IInv, Reported, Underway, Before
<1>9. Unaltered'
  <2>1. ASSUME Declared(raised) PROVE response'.content.code = raised.code /\ response'.status = raised.status
    <3>1. error = raised /\ raised.kind = "exception" /\ raised.status \in StatusCodes
          /\ raised.data # "misfits"
      BY <1>5, <2>1 DEF IInv, Unaltered, Declared
    <3> QED
      BY <1>1, <1>2, <1>4, <1>6, <3>1
  <2> QED
    BY <1>4, <1>5, <1>6, <2>1 DEF Unaltered, Declared, Underway
<1>10. Hidden'
  BY <1>2, <1>4, <1>5, <1>6 DEF IInv, Hidden
<1> QED
  BY <1>7, <1>8, <1>9, <1>10 DEF IInv

\* The wrapper leaves an exception's response as it is and never makes one.
LEMMA WrapKeeps ==
  ASSUME IInv, WrapResponse
  PROVE  IInv'
<1>1. /\ pc = "wrap" /\ pc' = "sent"
      /\ UNCHANGED <<payload, context, raised, cause, error, production>>
  BY DEF WrapResponse, Goto
<1>2. /\ response \in [status : StatusCodes, content : Contents] /\ context \subseteq {"metadata", "message"}
      /\ Reported /\ Unaltered /\ Hidden
  BY DEF IInv, TypeOK
<1>3. /\ SuccessResponse \in Contents /\ SuccessResponse.type = "success"
      /\ SuccessResponse.status = 200 /\ SuccessResponse.data # "context"
  BY <1>2, CodesAssumption, ErrorsAssumption DEF OwnCodes, SuccessResponse, Contents
<1>4. CASE response.content.type = "exception"
  <2>1. response.status = response.content.status
    BY <1>1, <1>2, <1>4 DEF Reported
  <2>2. response' = [response EXCEPT !.status = response.content.status]
    BY <1>4 DEF WrapResponse, Wrappable
  <2>3. response' = response
    BY <1>2, <2>1, <2>2
  <2> QED
    BY <1>1, <1>2, <1>4, <2>1, <2>3
       DEF IInv, TypeOK, Places, Reported, Before, Underway, Unaltered, Declared, Hidden
<1>5. CASE response.content.type = "none" /\ UNCHANGED response
  BY <1>1, <1>2, <1>5
     DEF IInv, TypeOK, Places, Reported, Before, Underway, Unaltered, Declared, Hidden
<1>6. CASE Wrappable /\ response' = [status |-> 200, content |-> SuccessResponse]
  <2>1. /\ response'.content = SuccessResponse /\ response'.status = 200
        /\ response' \in [status : StatusCodes, content : Contents]
    BY <1>3, <1>6, ErrorsAssumption
  <2>2. ~Declared(raised)
    BY <1>1, <1>2, <1>6 DEF Unaltered, Declared, Wrappable
  <2> QED
    BY <1>1, <1>2, <1>3, <1>6, <2>1, <2>2
       DEF IInv, TypeOK, Places, Reported, Before, Underway, Unaltered, Declared, Hidden,
           Wrappable
<1> QED
  BY <1>4, <1>5, <1>6 DEF WrapResponse

\* A wrapper that fails raises an error of its own, in place of a returned one.
LEMMA WrapFailsKeeps ==
  ASSUME IInv, WrapFails
  PROVE  IInv'
<1>1. PICK e \in Raisable : e = SchemaError /\ e.data # "context" /\ e.kind # "exception"
  BY MadeErrors DEF SchemaError, InternalError
<1>2. PICK x \in Raisable : x = ToException(e) /\ (production => x.data # "context")
  BY <1>1, ConversionKeeps
<1>3. /\ pc' = "answer unrouted" /\ raised' = e /\ error' = x /\ cause' = "none"
      /\ UNCHANGED <<payload, context, response, production>>
  BY <1>1, <1>2 DEF WrapFails, Goto
<1>4. e \in ErrorRecords /\ x \in ErrorRecords
  BY DEF Raisable
<1>5. TypeOK'
  BY <1>3, <1>4 DEF IInv, TypeOK, Places
<1>6. Reported'
  BY <1>3 DEF Reported, Underway, Before
<1>7. Unaltered' /\ Hidden'
  BY <1>1, <1>2, <1>3 DEF IInv, Unaltered, Declared, Hidden, Underway
<1> QED
  BY <1>5, <1>6, <1>7 DEF IInv

\* A handler that returns, content, an exception or an answer of its own, keeps
\* the invariant.
LEMMA ReturnKeeps ==
  ASSUME IInv, Return \/ ReturnException \/ AnswerItself
  PROVE  IInv'
<1>1. /\ pc = "handle" /\ pc' = "wrap"
      /\ UNCHANGED <<payload, context, error, production>>
  BY DEF Return, ReturnException, AnswerItself, Goto
<1>2. raised = NoError /\ cause = "none" /\ response.content = NoContent
  BY <1>1 DEF IInv, Reported, Before
<1>3. response \in [status : StatusCodes, content : Contents]
  BY DEF IInv, TypeOK
<1>4. PICK status \in StatusCodes, type \in {"none", "data", "returned"} :
        /\ response' = [response EXCEPT !.status = status, !.content.type = type]
        /\ \/ UNCHANGED <<raised, cause>>
           \/ cause' = "returned" /\ raised' \in Errors
           \/ cause' = "answered" /\ raised' \in Errors \cup {NoError}
  <2>1. CASE Return
    <3>1. PICK type \in {"none", "data"} : response' = [response EXCEPT !.content.type = type]
      BY <2>1 DEF Return
    <3>2. response' = [response EXCEPT !.status = response.status, !.content.type = type]
      BY <1>3, <3>1
    <3> QED
      BY <1>3, <2>1, <3>2 DEF Return
  <2>2. CASE ReturnException
    <3>1. response' = [response EXCEPT !.status = response.status, !.content.type = "returned"]
      BY <1>3, <2>2 DEF ReturnException
    <3> QED
      BY <1>3, <2>2, <3>1 DEF ReturnException
  <2>3. CASE AnswerItself
    BY <2>3 DEF AnswerItself
  <2> QED
    BY <2>1, <2>2, <2>3
<1>5. /\ response' \in [status : StatusCodes, content : Contents]
      /\ response'.content.type = type
      /\ response'.content.data = response.content.data
  BY <1>3, <1>4 DEF Contents
<1>6. response.content.data = "none"
  BY <1>2 DEF NoContent
<1>7. CASE UNCHANGED <<raised, cause>>
  BY <1>1, <1>2, <1>4, <1>5, <1>6, <1>7
     DEF IInv, TypeOK, Places, Reported, Before, Underway, Unaltered, Declared, Hidden, NoError
<1>8. CASE cause' \in {"returned", "answered"} /\ raised' \in Errors \cup {NoError}
  <2>1. raised' \in ErrorRecords \cup {NoError}
    BY <1>8, GivenErrors DEF Raisable
  <2> QED
    BY <1>1, <1>4, <1>5, <1>6, <1>8, <2>1
       DEF IInv, TypeOK, Places, Reported, Before, Underway, Unaltered, Declared, Hidden
<1> QED
  BY <1>4, <1>7, <1>8

\* Nothing has happened yet in the initial states.
LEMMA InitKeeps == Init => IInv
<1> SUFFICES ASSUME Init PROVE IInv
  OBVIOUS
<1>1. NoContent \in Contents
  BY CodesAssumption DEF OwnCodes, NoContent, Contents
<1>2. TypeOK
  BY <1>1, ErrorsAssumption DEF Init, TypeOK, Places, Fresh
<1>3. Reported /\ Unaltered /\ Hidden
  BY DEF Init, Reported, Unaltered, Declared, Hidden, Before, Underway, NoError, NoContent
<1> QED
  BY <1>2, <1>3 DEF IInv

\* Every step of the request keeps the invariant.
LEMMA StepKeeps == IInv /\ [Next]_vars => IInv'
<1> SUFFICES ASSUME IInv, [Next]_vars PROVE IInv'
  OBVIOUS
<1>1. ASSUME pc \in Before, NEW place \in Before, Proceed(place) PROVE IInv'
  <2>1. TypeOK'
    BY <1>1 DEF IInv, TypeOK, Proceed, Goto, Places, Before
  <2> QED
    BY <1>1, <2>1, GoingOnKeeps DEF Proceed, Goto
<1>2. CASE FindRoute
  <2>1. ASSUME NEW e \in Errors, Throw(e, "answer unrouted") PROVE IInv'
    BY <1>2, <2>1, GivenErrors, ThrowKeeps DEF FindRoute, Before
  <2> QED
    BY <1>1, <1>2, <2>1 DEF FindRoute, Before
<1>3. CASE ReadBody
  <2>1. ASSUME NEW e \in Errors, Throw(e, "answer") PROVE IInv'
    BY <1>3, <2>1, GivenErrors, ThrowKeeps DEF ReadBody, Before
  <2> QED
    BY <1>1, <1>3, <2>1 DEF ReadBody, Before
<1>4. CASE Authenticate
  <2>1. ASSUME NEW e \in Errors, Throw(ToException(e), "answer") PROVE IInv'
    <3>1. PICK x \in Raisable : x = ToException(e) /\ (production => x.data # "context")
      BY GivenErrors, ConversionKeeps
    <3>2. Throw(x, "answer")
      BY <2>1, <3>1
    <3> QED
      BY <1>4, <3>1, <3>2, ThrowKeeps DEF Authenticate, Before
  <2>2. ASSUME Throw(Unauthorized, "answer") PROVE IInv'
    BY <1>4, <2>2, MadeErrors, ThrowKeeps DEF Authenticate, Before
  <2> QED
    BY <1>1, <1>4, <2>1, <2>2 DEF Authenticate, Before
<1>5. ASSUME pc \in Before, NEW place \in Before, NEW stored, Store(place, stored),
             stored \in [original : BOOLEAN, validated : {"none", "vine", "schema"},
                        mapped : BOOLEAN, decoded : BOOLEAN]
      PROVE  IInv'
  <2>1. /\ pc' \in Places
        /\ payload' \in [original : BOOLEAN, validated : {"none", "vine", "schema"},
                          mapped : BOOLEAN, decoded : BOOLEAN]
        /\ UNCHANGED <<raised, cause, error, context, response, production>>
    BY <1>5 DEF Store, Goto, Places, Before
  <2>2. TypeOK'
    BY <2>1 DEF IInv, TypeOK
  <2> QED
    BY <1>5, <2>1, <2>2, GoingOnKeeps DEF Store, Goto
<1>6. CASE TakeSource
  <2>1. PICK stored : stored = [payload EXCEPT !.original = TRUE]
    OBVIOUS
  <2>2. CASE Store("validate", stored)
    BY <1>5, <1>6, <2>1, <2>2 DEF TakeSource, Before, IInv, TypeOK
  <2>3. CASE End(InternalError("I_DATA_PAYLOAD_INVALID_SOURCE", "none"), "fail")
    <3>1. PICK e \in Raisable :
            e = InternalError("I_DATA_PAYLOAD_INVALID_SOURCE", "none") /\ e.data # "context"
      BY MadeErrors, CodesAssumption DEF OwnCodes
    <3> QED
      BY <1>6, <2>3, <3>1, EndKeeps DEF TakeSource, Before, Causes
  <2> QED
    BY <1>6, <2>1, <2>2, <2>3 DEF TakeSource
<1>7. CASE ValidatePayload
  <2>1. PICK stored : stored = [payload EXCEPT !.validated = "vine"]
    OBVIOUS
  <2>2. CASE Store("map", stored)
    BY <1>5, <1>7, <2>1, <2>2 DEF ValidatePayload, Before, IInv, TypeOK
  <2>3. ASSUME NEW e \in Errors, End(FromVine(e), "fail") PROVE IInv'
    <3>1. PICK x \in Raisable : x = FromVine(e) /\ x.data # "context"
      BY VineErrors
    <3> QED
      BY <1>7, <2>3, <3>1, EndKeeps DEF ValidatePayload, Before, Causes
  <2> QED
    BY <1>7, <2>1, <2>2, <2>3 DEF ValidatePayload
<1>8. CASE MapPayload
  <2>1. PICK stored : stored = [payload EXCEPT !.mapped = TRUE]
    OBVIOUS
  <2>2. CASE Store("decode", stored)
    BY <1>5, <1>8, <2>1, <2>2 DEF MapPayload, Before, IInv, TypeOK
  <2>3. ASSUME NEW e \in Errors, End(e, "fail") PROVE IInv'
    BY <1>8, <2>3, GivenErrors, EndKeeps DEF MapPayload, Before, Causes
  <2> QED
    BY <1>8, <2>1, <2>2, <2>3 DEF MapPayload
<1>9. CASE DecodePayload
  <2>1. PICK stored : stored = [payload EXCEPT !.decoded = TRUE, !.validated = "schema"]
    OBVIOUS
  <2>2. CASE Store("handle", stored)
    BY <1>5, <1>9, <2>1, <2>2 DEF DecodePayload, Before, IInv, TypeOK
  <2>3. CASE End(SchemaError, "fail")
    BY <1>9, <2>3, MadeErrors, EndKeeps DEF DecodePayload, Before, Causes
  <2> QED
    BY <1>9, <2>1, <2>2, <2>3 DEF DecodePayload
<1>10. CASE Describe
  <2>1. TypeOK' /\ pc \in Before /\ pc' \in Before
    BY <1>10 DEF IInv, TypeOK, Describe, Before
  <2> QED
    BY <1>10, <2>1, GoingOnKeeps DEF Describe
<1>11. CASE FailHandler
  <2>1. PICK e \in Errors, how \in Causes : End(e, how)
    BY <1>11 DEF FailHandler
  <2> QED
    BY <1>11, <2>1, GivenErrors, EndKeeps DEF FailHandler, Before
<1>12. CASE UNCHANGED vars
  BY <1>12 DEF vars, IInv, TypeOK, Reported, Unaltered, Declared, Hidden
<1> QED
  BY <1>2, <1>3, <1>4, <1>6, <1>7, <1>8, <1>9, <1>10, <1>11, <1>12,
     ReturnKeeps, ExitKeeps, AnswerKeeps, WrapKeeps, WrapFailsKeeps DEF Next

---------------------------------------------------------------------------
(* The theorems                                                            *)

\* The inductive invariant holds in every reachable state.
LEMMA Invariance == Spec => []IInv
BY InitKeeps, StepKeeps, PTL DEF Spec

\* Every answer is well-formed: its status is one of the enumeration.
THEOREM TypeCorrect == Spec => []TypeOK
<1>1. IInv => TypeOK
  BY DEF IInv
<1> QED
  BY <1>1, Invariance, PTL

\* Whatever goes wrong in the middleware, the payload, the handler, a
\* finalizer or the making of the response is answered as an exception.
THEOREM EveryFailureReported == Spec => []FailureReported
<1>1. IInv => FailureReported
  BY DEF IInv, Reported, FailureReported, Raisable, ErrorRecords, Kinds, NoError, Causes
<1> QED
  BY <1>1, Invariance, PTL

\* No conversion on the way alters a declared exception.
THEOREM DeclaredUnaltered == Spec => []DeclaredArrives
<1>1. IInv => DeclaredArrives
  BY DEF IInv, Unaltered, Declared, DeclaredArrives
<1> QED
  BY <1>1, Invariance, PTL

\* In production no response shows the data of an internal error.
THEOREM NothingInternalShown == Spec => []InternalsHidden
<1>1. IInv => InternalsHidden
  BY DEF IInv, Hidden, InternalsHidden
<1> QED
  BY <1>1, Invariance, PTL
==============================================================================
