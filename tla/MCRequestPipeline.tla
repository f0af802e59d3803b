-------------------------- MODULE MCRequestPipeline --------------------------
(***************************************************************************)
(* Instances of RequestPipeline for TLC.                                   *)
(***************************************************************************)
EXTENDS RequestPipeline

Raise(kind, code, status, data) ==
  [kind |-> kind, code |-> code, status |-> status, data |-> data]

MCCodes == OwnCodes \cup {"E_FORBIDDEN_ACTION", "E_NOT_GUEST_USER", "E_FRAMEWORK",
                         "E_VALIDATION_ERROR"}

\* Exceptions and internal errors with data that decodes and data that does
\* not, and framework errors with a status of the enumeration and another one.
MCErrors ==
  {Raise("exception", "E_FORBIDDEN_ACTION", 403, d) : d \in {"fits", "misfits"}}
  \cup {Raise("exception", "E_NOT_GUEST_USER", 403, "none")}
  \cup {Raise("internal", "I_SCHEMA", 0, d) : d \in {"none", "fits", "misfits"}}
  \cup {Raise("framework", "E_FRAMEWORK", n, "none") : n \in {419, 599}}
  \cup {Raise("vine", "E_VALIDATION_ERROR", 422, d) : d \in {"fits", "misfits"}}
  \cup {Raise("not_found", "E_ROUTE_NOT_FOUND", 404, "none"),
        Raise("too_large", "E_REQUEST_ENTITY_TOO_LARGE", 413, "none"),
        Raise("error", "none", 0, "none"),
        Raise("value", "none", 0, "none")}
=============================================================================
