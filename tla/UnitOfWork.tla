---------------------------- MODULE UnitOfWork ----------------------------
(***************************************************************************)
(* What a handler's database transaction promises, without the scope, the  *)
(* finalizers and the connection pool that implement it: the writes a      *)
(* request stages become visible all together or not at all, and once that *)
(* is settled nothing about the request's unit of work changes.            *)
(***************************************************************************)
CONSTANTS
  Requests,  \* who works
  Writes     \* the writes a request can make

VARIABLES
  status,    \* status[r]: is the unit of work undecided, applied or discarded
  staged,    \* staged[r]: the writes request r made
  visible    \* visible[r]: those that every other session can see

vars == <<status, staged, visible>>

Init ==
  /\ status = [r \in Requests |-> "working"]
  /\ staged = [r \in Requests |-> {}]
  /\ visible = [r \in Requests |-> {}]

Stage(r) ==
  /\ status[r] = "working"
  /\ \E w \in Writes : staged' = [staged EXCEPT ![r] = @ \cup {w}]
  /\ UNCHANGED <<status, visible>>

Apply(r) ==
  /\ status[r] = "working"
  /\ status' = [status EXCEPT ![r] = "applied"]
  /\ visible' = [visible EXCEPT ![r] = staged[r]]
  /\ UNCHANGED staged

\* A crash of the process discards every undecided unit of work it had.
Discard(S) ==
  /\ \A r \in S : status[r] = "working"
  /\ status' = [r \in Requests |-> IF r \in S THEN "discarded" ELSE status[r]]
  /\ UNCHANGED <<staged, visible>>

Next ==
  \/ \E r \in Requests : Stage(r) \/ Apply(r)
  \/ \E S \in SUBSET Requests : Discard(S)

Spec == Init /\ [][Next]_vars
===========================================================================
