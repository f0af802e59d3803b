------------------------ MODULE MCScopedTransaction ------------------------
(***************************************************************************)
(* Instances of ScopedTransaction for TLC.                                 *)
(***************************************************************************)
EXTENDS ScopedTransaction, RequestHandlers, TLC

\* Handlers that hold a transaction while they ask for a second connection,
\* with and without a deferred side effect and an explicit commit.
HoldAndWait == {CreateContact, ResetPassword, CreateContactAttribute}

Symmetric == Permutations(Requests) \cup Permutations(Connections)
===========================================================================
