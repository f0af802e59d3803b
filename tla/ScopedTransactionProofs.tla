---------------------- MODULE ScopedTransactionProofs ----------------------
(***************************************************************************)
(* Proofs about ScopedTransaction, for any set of requests, any programs   *)
(* and any pool.                                                           *)
(***************************************************************************)
EXTENDS ScopedTransaction, TLAPS

USE DEF None

---------------------------------------------------------------------------
(* Type correctness. The pool keeps its type only because a transaction    *)
(* that ends has a connection to give back.                                *)

OpenHoldsConnection ==
  \A r \in Requests : trx[r] = "open" <=> trxConn[r] # None

Typed == TypeOK /\ OpenHoldsConnection

\* Init establishes the types.
LEMMA InitTyped == Init => Typed
BY DEF Init, Typed, TypeOK, OpenHoldsConnection

\* Every action of every request, and a crash, preserves the types.
LEMMA StepTyped == Typed /\ [Next]_vars => Typed'
<1> SUFFICES ASSUME Typed, [Next]_vars PROVE Typed'
  OBVIOUS
<1> USE ConnectionsAssumption DEF Typed, TypeOK, OpenHoldsConnection
<1>1. ASSUME NEW r \in Requests, Start(r) PROVE Typed'
  BY <1>1 DEF Start, scopeVars, dataVars, poolVars
<1>2. ASSUME NEW r \in Requests, CreateTransaction(r) PROVE Typed'
  BY <1>2 DEF CreateTransaction, Advance, At, scopeVars, dataVars
<1>3. ASSUME NEW r \in Requests, CreateTransactionFails(r) PROVE Typed'
  BY <1>3 DEF CreateTransactionFails, ExitWith, scopeVars, dataVars, poolVars
<1>4. ASSUME NEW r \in Requests, Register(r) PROVE Typed'
  BY <1>4 DEF Register, Advance, dataVars, poolVars
<1>5. ASSUME NEW r \in Requests, Check(r) PROVE Typed'
  BY <1>5 DEF Check, Advance, ExitWith, scopeVars, dataVars, poolVars
<1>6. ASSUME NEW r \in Requests, TransactionWrite(r) PROVE Typed'
  BY <1>6 DEF TransactionWrite, Advance, scopeVars, poolVars
<1>7. ASSUME NEW r \in Requests, TransactionWriteFails(r) PROVE Typed'
  BY <1>7 DEF TransactionWriteFails, ExitWith, scopeVars, dataVars, poolVars
<1>8. ASSUME NEW r \in Requests, AcquireConnection(r) PROVE Typed'
  BY <1>8 DEF AcquireConnection, scopeVars, dataVars
<1>9. ASSUME NEW r \in Requests, AcquireTimesOut(r) PROVE Typed'
  BY <1>9 DEF AcquireTimesOut, QueryFails, Advance, ExitWith, scopeVars,
              dataVars, poolVars
<1>10. ASSUME NEW r \in Requests, FinishQuery(r) PROVE Typed'
  BY <1>10 DEF FinishQuery, QueryFails, Advance, ExitWith,
               ReleaseQueryConnection, scopeVars
<1>11. ASSUME NEW r \in Requests, ExplicitCommit(r) PROVE Typed'
  BY <1>11 DEF ExplicitCommit, CommitLands, RollBack, Advance, ExitWith,
               ReleaseTransactionConnection, scopeVars
<1>12. ASSUME NEW r \in Requests, Succeed(r) PROVE Typed'
  BY <1>12 DEF Succeed, ExitWith, scopeVars, dataVars, poolVars
<1>13. ASSUME NEW r \in Requests, TransactionFinalizer(r) PROVE Typed'
  BY <1>13 DEF TransactionFinalizer, Pop, CommitLands, RollBack,
               ReleaseTransactionConnection, poolVars
<1>14. ASSUME NEW r \in Requests, EffectFinalizer(r) PROVE Typed'
  BY <1>14 DEF EffectFinalizer, Pop, dataVars, poolVars
<1>15. ASSUME NEW r \in Requests, Finish(r) PROVE Typed'
  BY <1>15 DEF Finish, scopeVars, dataVars, poolVars
<1>16. CASE Crash
  BY <1>16 DEF Crash, Live
<1>17. CASE UNCHANGED vars
  BY <1>17 DEF vars, scopeVars, dataVars, poolVars
<1> QED
  BY <1>1, <1>2, <1>3, <1>4, <1>5, <1>6, <1>7, <1>8, <1>9, <1>10, <1>11,
     <1>12, <1>13, <1>14, <1>15, <1>16, <1>17
     DEF Next, Step, AllServed

---------------------------------------------------------------------------
(* The pool                                                                *)

\* A request that has not passed its first step, the only one that opens a
\* transaction, has none.
FreshRequest == \A r \in Requests : pc[r] = 1 => trx[r] = None

\* Only the first step of a program opens a transaction.
LEMMA CreateIsFirst ==
  ASSUME Typed, NEW r \in Requests, At(r, "create")
  PROVE  pc[r] = 1
<1>1. WellFormed(program[r])
  BY ProgramsAssumption DEF Typed, TypeOK
<1>2. pc[r] \in 1..Len(program[r])
  BY <1>1 DEF Typed, TypeOK, At, WellFormed
<1> QED
  BY <1>1, <1>2 DEF At, WellFormed

\* Every step keeps a request that is at its first step without a transaction.
LEMMA StepFresh == Typed /\ FreshRequest /\ [Next]_vars => FreshRequest'
<1> SUFFICES ASSUME Typed, FreshRequest, [Next]_vars PROVE FreshRequest'
  OBVIOUS
<1> USE DEF Typed, TypeOK, FreshRequest, scopeVars, dataVars, poolVars
<1>1. ASSUME NEW r \in Requests, Start(r) PROVE FreshRequest'
  BY <1>1 DEF Start
<1>2. ASSUME NEW r \in Requests, CreateTransaction(r) PROVE FreshRequest'
  BY <1>2 DEF CreateTransaction, Advance, At
<1>3. ASSUME NEW r \in Requests, CreateTransactionFails(r) PROVE FreshRequest'
  BY <1>3 DEF CreateTransactionFails, ExitWith, At
<1>4. ASSUME NEW r \in Requests, Register(r) PROVE FreshRequest'
  BY <1>4 DEF Register, Advance, At
<1>5. ASSUME NEW r \in Requests, Check(r) PROVE FreshRequest'
  BY <1>5 DEF Check, Advance, ExitWith, At
<1>6. ASSUME NEW r \in Requests, TransactionWrite(r) PROVE FreshRequest'
  BY <1>6 DEF TransactionWrite, Advance, At
<1>7. ASSUME NEW r \in Requests, TransactionWriteFails(r) PROVE FreshRequest'
  BY <1>7 DEF TransactionWriteFails, ExitWith, At
<1>8. ASSUME NEW r \in Requests, AcquireConnection(r) PROVE FreshRequest'
  BY <1>8 DEF AcquireConnection, AtQuery, At
<1>9. ASSUME NEW r \in Requests, AcquireTimesOut(r) PROVE FreshRequest'
  BY <1>9 DEF AcquireTimesOut, QueryFails, Advance, ExitWith, AtQuery, At
<1>10. ASSUME NEW r \in Requests, FinishQuery(r) PROVE FreshRequest'
  BY <1>10 DEF FinishQuery, QueryFails, Advance, ExitWith, ReleaseQueryConnection, AtQuery, At
<1>11. ASSUME NEW r \in Requests, ExplicitCommit(r) PROVE FreshRequest'
  BY <1>11 DEF ExplicitCommit, CommitLands, RollBack, Advance, ExitWith, ReleaseTransactionConnection, At
<1>12. ASSUME NEW r \in Requests, Succeed(r) PROVE FreshRequest'
  BY <1>12 DEF Succeed, ExitWith
<1>13. ASSUME NEW r \in Requests, TransactionFinalizer(r) PROVE FreshRequest'
  BY <1>13 DEF TransactionFinalizer, Pop, Newest, CommitLands, RollBack, ReleaseTransactionConnection
<1>14. ASSUME NEW r \in Requests, EffectFinalizer(r) PROVE FreshRequest'
  BY <1>14 DEF EffectFinalizer, Pop, Newest
<1>15. ASSUME NEW r \in Requests, Finish(r) PROVE FreshRequest'
  BY <1>15 DEF Finish
<1>16. CASE Crash
  BY <1>16 DEF Crash, Live
<1>17. CASE UNCHANGED vars
  BY <1>17 DEF vars
<1> QED
  BY <1>1, <1>2, <1>3, <1>4, <1>5, <1>6, <1>7, <1>8, <1>9, <1>10, <1>11,
     <1>12, <1>13, <1>14, <1>15, <1>16, <1>17
     DEF Next, Step, AllServed

\* Every step moves a connection between the pool and one holder.
LEMMA StepConnections ==
  Typed /\ FreshRequest /\ ConnectionsAccountedFor /\ [Next]_vars
    => ConnectionsAccountedFor'
<1> SUFFICES ASSUME Typed, FreshRequest, ConnectionsAccountedFor, [Next]_vars
             PROVE  ConnectionsAccountedFor'
  OBVIOUS
<1> USE ConnectionsAssumption
    DEF Typed, TypeOK, ConnectionsAccountedFor, scopeVars, dataVars, poolVars
<1>1. ASSUME NEW r \in Requests, Start(r) PROVE ConnectionsAccountedFor'
  BY <1>1 DEF Start
<1>2. ASSUME NEW r \in Requests, CreateTransaction(r) PROVE ConnectionsAccountedFor'
  <2>1. trxConn[r] = None
    BY <1>2, CreateIsFirst DEF CreateTransaction, FreshRequest,
                               OpenHoldsConnection
  <2>2. PICK c \in free : /\ free' = free \ {c}
                          /\ trxConn' = [trxConn EXCEPT ![r] = c]
    BY <1>2 DEF CreateTransaction
  <2> QED
    BY <1>2, <2>1, <2>2 DEF CreateTransaction
<1>3. ASSUME NEW r \in Requests, CreateTransactionFails(r) PROVE ConnectionsAccountedFor'
  BY <1>3 DEF CreateTransactionFails, ExitWith, At
<1>4. ASSUME NEW r \in Requests, Register(r) PROVE ConnectionsAccountedFor'
  BY <1>4 DEF Register, Advance, At
<1>5. ASSUME NEW r \in Requests, Check(r) PROVE ConnectionsAccountedFor'
  BY <1>5 DEF Check, Advance, ExitWith, At
<1>6. ASSUME NEW r \in Requests, TransactionWrite(r) PROVE ConnectionsAccountedFor'
  BY <1>6 DEF TransactionWrite, Advance, At
<1>7. ASSUME NEW r \in Requests, TransactionWriteFails(r) PROVE ConnectionsAccountedFor'
  BY <1>7 DEF TransactionWriteFails, ExitWith, At
<1>8. ASSUME NEW r \in Requests, AcquireConnection(r) PROVE ConnectionsAccountedFor'
  BY <1>8 DEF AcquireConnection, AtQuery, At
<1>9. ASSUME NEW r \in Requests, AcquireTimesOut(r) PROVE ConnectionsAccountedFor'
  BY <1>9 DEF AcquireTimesOut, QueryFails, Advance, ExitWith, AtQuery, At
<1>10. ASSUME NEW r \in Requests, FinishQuery(r) PROVE ConnectionsAccountedFor'
  BY <1>10 DEF FinishQuery, QueryFails, Advance, ExitWith, ReleaseQueryConnection, AtQuery, At
<1>11. ASSUME NEW r \in Requests, ExplicitCommit(r) PROVE ConnectionsAccountedFor'
  <2>1. /\ trx[r] = "open"
        /\ \/ trx' = [trx EXCEPT ![r] = "committed"]
           \/ trx' = [trx EXCEPT ![r] = "rolledback"]
        /\ ReleaseTransactionConnection(r)
    BY <1>11 DEF ExplicitCommit, CommitLands, RollBack
  <2> QED
    BY <2>1 DEF ReleaseTransactionConnection
<1>12. ASSUME NEW r \in Requests, Succeed(r) PROVE ConnectionsAccountedFor'
  BY <1>12 DEF Succeed, ExitWith
<1>13. ASSUME NEW r \in Requests, TransactionFinalizer(r) PROVE ConnectionsAccountedFor'
  BY <1>13 DEF TransactionFinalizer, Pop, Newest, CommitLands, RollBack, ReleaseTransactionConnection
<1>14. ASSUME NEW r \in Requests, EffectFinalizer(r) PROVE ConnectionsAccountedFor'
  BY <1>14 DEF EffectFinalizer, Pop, Newest
<1>15. ASSUME NEW r \in Requests, Finish(r) PROVE ConnectionsAccountedFor'
  BY <1>15 DEF Finish
<1>16. CASE Crash
  BY <1>16 DEF Crash, Live
<1>17. CASE UNCHANGED vars
  BY <1>17 DEF vars
<1> QED
  BY <1>1, <1>2, <1>3, <1>4, <1>5, <1>6, <1>7, <1>8, <1>9, <1>10, <1>11,
     <1>12, <1>13, <1>14, <1>15, <1>16, <1>17
     DEF Next, Step, AllServed

---------------------------------------------------------------------------
(* The scope. The invariant is stated for one request: a step of one       *)
(* request leaves the scope and the transaction of the others alone.       *)

\* While a transaction is open, the finalizer of every requireTransaction its
\* request went through is still pending; a finished scope has none left.
FinalizersPending(r) ==
  /\ pending[r] \in SUBSET (1..(pc[r] - 1))
  /\ trx[r] = "open" =>
       \A j \in 1..(pc[r] - 1) : program[r][j] = "require" => j \in pending[r]
  /\ phase[r] = "done" => pending[r] = {}

\* Effects wait for the exit and then happen from the newest down.
NewestFirst(r) ==
  /\ phase[r] \in {"idle", "running"} => performed[r] = {}
  /\ \A i \in performed[r], j \in pending[r] : j < i

\* Writes become durable on success, or because the service committed.
DurableNeedsSuccess(r) ==
  /\ phase[r] \in {"idle", "running"} => exit[r] = None
  /\ durable[r] # {} => CommitsItself(r) \/ exit[r] \in {"success", "crashed"}

ScopeInv(r) == FinalizersPending(r) /\ NewestFirst(r) /\ DurableNeedsSuccess(r)

Untouched(r) ==
  /\ program'[r] = program[r]
  /\ pc'[r] = pc[r]
  /\ phase'[r] = phase[r]
  /\ exit'[r] = exit[r]
  /\ pending'[r] = pending[r]
  /\ performed'[r] = performed[r]
  /\ trx'[r] = trx[r]
  /\ durable'[r] = durable[r]

\* A step of another request cannot disturb a request's scope.
LEMMA UntouchedScope ==
  ASSUME NEW r \in Requests, ScopeInv(r), Untouched(r)
  PROVE  ScopeInv(r)'
BY DEF ScopeInv, FinalizersPending, NewestFirst, DurableNeedsSuccess,
       CommitsItself, Untouched

\* Every step keeps the invariant of every request's scope.
LEMMA StepScope ==
  ASSUME Typed, FreshRequest, [Next]_vars, \A r \in Requests : ScopeInv(r)
  PROVE  \A r \in Requests : ScopeInv(r)'
<1> USE DEF Typed, TypeOK, scopeVars, dataVars, poolVars
<1> DEFINE Goal == \A s \in Requests : ScopeInv(s)'
<1>1. ASSUME NEW r \in Requests, Start(r) PROVE Goal
  <2>1. \A s \in Requests \ {r} : Untouched(s)
    BY <1>1 DEF Start, Untouched
  <2>2. FinalizersPending(r)'
    BY <1>1 DEF Start, ScopeInv, FinalizersPending, FreshRequest
  <2>3. NewestFirst(r)'
    BY <1>1 DEF Start, ScopeInv, NewestFirst, FinalizersPending
  <2>4. DurableNeedsSuccess(r)'
    BY <1>1 DEF Start, ScopeInv, DurableNeedsSuccess, CommitsItself
  <2> QED
    BY <2>1, <2>2, <2>3, <2>4, UntouchedScope DEF ScopeInv
<1>2. ASSUME NEW r \in Requests, CreateTransaction(r) PROVE Goal
  <2>1. \A s \in Requests \ {r} : Untouched(s)
    BY <1>2 DEF CreateTransaction, Advance, At, Untouched
  <2>2. FinalizersPending(r)'
    <3>1. pc[r] = 1 /\ program[r][1] # "require"
      BY <1>2, CreateIsFirst DEF CreateTransaction, At
    <3> QED
      BY <1>2, <3>1 DEF CreateTransaction, Advance, ScopeInv, FinalizersPending
  <2>3. NewestFirst(r)'
    BY <1>2 DEF CreateTransaction, Advance, At, ScopeInv, NewestFirst, FinalizersPending
  <2>4. DurableNeedsSuccess(r)'
    BY <1>2 DEF CreateTransaction, Advance, At, ScopeInv, DurableNeedsSuccess, CommitsItself
  <2> QED
    BY <2>1, <2>2, <2>3, <2>4, UntouchedScope DEF ScopeInv
<1>3. ASSUME NEW r \in Requests, CreateTransactionFails(r) PROVE Goal
  <2>1. \A s \in Requests \ {r} : Untouched(s)
    BY <1>3 DEF CreateTransactionFails, ExitWith, At, Untouched
  <2>2. FinalizersPending(r)'
    BY <1>3 DEF CreateTransactionFails, ExitWith, At, ScopeInv, FinalizersPending, FreshRequest
  <2>3. NewestFirst(r)'
    BY <1>3 DEF CreateTransactionFails, ExitWith, At, ScopeInv, NewestFirst, FinalizersPending
  <2>4. DurableNeedsSuccess(r)'
    BY <1>3 DEF CreateTransactionFails, ExitWith, At, ScopeInv, DurableNeedsSuccess, CommitsItself
  <2> QED
    BY <2>1, <2>2, <2>3, <2>4, UntouchedScope DEF ScopeInv
<1>4. ASSUME NEW r \in Requests, Register(r) PROVE Goal
  <2>1. \A s \in Requests \ {r} : Untouched(s)
    BY <1>4 DEF Register, Advance, At, Untouched
  <2>2. FinalizersPending(r)'
    BY <1>4 DEF Register, Advance, At, ScopeInv, FinalizersPending, FreshRequest
  <2>3. NewestFirst(r)'
    BY <1>4 DEF Register, Advance, At, ScopeInv, NewestFirst, FinalizersPending
  <2>4. DurableNeedsSuccess(r)'
    BY <1>4 DEF Register, Advance, At, ScopeInv, DurableNeedsSuccess, CommitsItself
  <2> QED
    BY <2>1, <2>2, <2>3, <2>4, UntouchedScope DEF ScopeInv
<1>5. ASSUME NEW r \in Requests, Check(r) PROVE Goal
  <2>1. \A s \in Requests \ {r} : Untouched(s)
    BY <1>5 DEF Check, Advance, ExitWith, At, Untouched
  <2>2. FinalizersPending(r)'
    BY <1>5 DEF Check, Advance, ExitWith, At, ScopeInv, FinalizersPending, FreshRequest
  <2>3. NewestFirst(r)'
    BY <1>5 DEF Check, Advance, ExitWith, At, ScopeInv, NewestFirst, FinalizersPending
  <2>4. DurableNeedsSuccess(r)'
    <3>1. /\ phase[r] = "running"
          /\ program' = program /\ durable' = durable
          /\ phase'[r] = "running" => exit'[r] = exit[r]
          /\ phase'[r] \in {"running", "closing"}
      BY <1>5 DEF Check, Advance, ExitWith, At
    <3>2. CommitsItself(r)' <=> CommitsItself(r)
      BY <3>1 DEF CommitsItself
    <3> QED
      BY <3>1, <3>2 DEF ScopeInv, DurableNeedsSuccess
  <2> QED
    BY <2>1, <2>2, <2>3, <2>4, UntouchedScope DEF ScopeInv
<1>6. ASSUME NEW r \in Requests, TransactionWrite(r) PROVE Goal
  <2>1. \A s \in Requests \ {r} : Untouched(s)
    BY <1>6 DEF TransactionWrite, Advance, At, Untouched
  <2>2. FinalizersPending(r)'
    BY <1>6 DEF TransactionWrite, Advance, At, ScopeInv, FinalizersPending, FreshRequest
  <2>3. NewestFirst(r)'
    BY <1>6 DEF TransactionWrite, Advance, At, ScopeInv, NewestFirst, FinalizersPending
  <2>4. DurableNeedsSuccess(r)'
    BY <1>6 DEF TransactionWrite, Advance, At, ScopeInv, DurableNeedsSuccess, CommitsItself
  <2> QED
    BY <2>1, <2>2, <2>3, <2>4, UntouchedScope DEF ScopeInv
<1>7. ASSUME NEW r \in Requests, TransactionWriteFails(r) PROVE Goal
  <2>1. \A s \in Requests \ {r} : Untouched(s)
    BY <1>7 DEF TransactionWriteFails, ExitWith, At, Untouched
  <2>2. FinalizersPending(r)'
    BY <1>7 DEF TransactionWriteFails, ExitWith, At, ScopeInv, FinalizersPending, FreshRequest
  <2>3. NewestFirst(r)'
    BY <1>7 DEF TransactionWriteFails, ExitWith, At, ScopeInv, NewestFirst, FinalizersPending
  <2>4. DurableNeedsSuccess(r)'
    BY <1>7 DEF TransactionWriteFails, ExitWith, At, ScopeInv, DurableNeedsSuccess, CommitsItself
  <2> QED
    BY <2>1, <2>2, <2>3, <2>4, UntouchedScope DEF ScopeInv
<1>8. ASSUME NEW r \in Requests, AcquireConnection(r) PROVE Goal
  <2>1. \A s \in Requests \ {r} : Untouched(s)
    BY <1>8 DEF AcquireConnection, AtQuery, At, Untouched
  <2>2. FinalizersPending(r)'
    BY <1>8 DEF AcquireConnection, AtQuery, At, ScopeInv, FinalizersPending, FreshRequest
  <2>3. NewestFirst(r)'
    BY <1>8 DEF AcquireConnection, AtQuery, At, ScopeInv, NewestFirst, FinalizersPending
  <2>4. DurableNeedsSuccess(r)'
    BY <1>8 DEF AcquireConnection, AtQuery, At, ScopeInv, DurableNeedsSuccess, CommitsItself
  <2> QED
    BY <2>1, <2>2, <2>3, <2>4, UntouchedScope DEF ScopeInv
<1>9. ASSUME NEW r \in Requests, AcquireTimesOut(r) PROVE Goal
  <2>1. \A s \in Requests \ {r} : Untouched(s)
    BY <1>9 DEF AcquireTimesOut, QueryFails, Advance, ExitWith,
              AtQuery, At, Untouched
  <2>2. FinalizersPending(r)'
    BY <1>9 DEF AcquireTimesOut, QueryFails, Advance, ExitWith,
              AtQuery, At, ScopeInv, FinalizersPending, FreshRequest
  <2>3. NewestFirst(r)'
    BY <1>9 DEF AcquireTimesOut, QueryFails, Advance, ExitWith,
              AtQuery, At, ScopeInv, NewestFirst, FinalizersPending
  <2>4. DurableNeedsSuccess(r)'
    <3>1. /\ phase[r] = "running"
          /\ program' = program /\ durable' = durable
          /\ phase'[r] = "running" => exit'[r] = exit[r]
          /\ phase'[r] \in {"running", "closing"}
      BY <1>9 DEF AcquireTimesOut, QueryFails, Advance, ExitWith,
              AtQuery, At
    <3>2. CommitsItself(r)' <=> CommitsItself(r)
      BY <3>1 DEF CommitsItself
    <3> QED
      BY <3>1, <3>2 DEF ScopeInv, DurableNeedsSuccess
  <2> QED
    BY <2>1, <2>2, <2>3, <2>4, UntouchedScope DEF ScopeInv
<1>10. ASSUME NEW r \in Requests, FinishQuery(r) PROVE Goal
  <2>1. \A s \in Requests \ {r} : Untouched(s)
    BY <1>10 DEF FinishQuery, QueryFails, Advance, ExitWith,
               ReleaseQueryConnection, AtQuery, At, Untouched
  <2>2. FinalizersPending(r)'
    BY <1>10 DEF FinishQuery, QueryFails, Advance, ExitWith,
               ReleaseQueryConnection, AtQuery, At, ScopeInv, FinalizersPending, FreshRequest
  <2>3. NewestFirst(r)'
    BY <1>10 DEF FinishQuery, QueryFails, Advance, ExitWith,
               ReleaseQueryConnection, AtQuery, At, ScopeInv, NewestFirst, FinalizersPending
  <2>4. DurableNeedsSuccess(r)'
    <3>1. /\ phase[r] = "running"
          /\ program' = program /\ durable' = durable
          /\ phase'[r] = "running" => exit'[r] = exit[r]
          /\ phase'[r] \in {"running", "closing"}
      BY <1>10 DEF FinishQuery, QueryFails, Advance, ExitWith,
               ReleaseQueryConnection, AtQuery, At
    <3>2. CommitsItself(r)' <=> CommitsItself(r)
      BY <3>1 DEF CommitsItself
    <3> QED
      BY <3>1, <3>2 DEF ScopeInv, DurableNeedsSuccess
  <2> QED
    BY <2>1, <2>2, <2>3, <2>4, UntouchedScope DEF ScopeInv
<1>11. ASSUME NEW r \in Requests, ExplicitCommit(r) PROVE Goal
  <2>1. \A s \in Requests \ {r} : Untouched(s)
    BY <1>11 DEF ExplicitCommit, CommitLands, RollBack, Advance,
               ExitWith, ReleaseTransactionConnection, At, Untouched
  <2>2. FinalizersPending(r)'
    BY <1>11 DEF ExplicitCommit, CommitLands, RollBack, Advance,
               ExitWith, ReleaseTransactionConnection, At, ScopeInv, FinalizersPending, FreshRequest
  <2>3. NewestFirst(r)'
    BY <1>11 DEF ExplicitCommit, CommitLands, RollBack, Advance,
               ExitWith, ReleaseTransactionConnection, At, ScopeInv, NewestFirst, FinalizersPending
  <2>4. DurableNeedsSuccess(r)'
    BY <1>11 DEF ExplicitCommit, CommitLands, RollBack, Advance,
               ExitWith, ReleaseTransactionConnection, At, ScopeInv, DurableNeedsSuccess, CommitsItself
  <2> QED
    BY <2>1, <2>2, <2>3, <2>4, UntouchedScope DEF ScopeInv
<1>12. ASSUME NEW r \in Requests, Succeed(r) PROVE Goal
  <2>1. \A s \in Requests \ {r} : Untouched(s)
    BY <1>12 DEF Succeed, ExitWith, Untouched
  <2>2. FinalizersPending(r)'
    BY <1>12 DEF Succeed, ExitWith, ScopeInv, FinalizersPending, FreshRequest
  <2>3. NewestFirst(r)'
    BY <1>12 DEF Succeed, ExitWith, ScopeInv, NewestFirst, FinalizersPending
  <2>4. DurableNeedsSuccess(r)'
    BY <1>12 DEF Succeed, ExitWith, ScopeInv, DurableNeedsSuccess, CommitsItself
  <2> QED
    BY <2>1, <2>2, <2>3, <2>4, UntouchedScope DEF ScopeInv
<1>13. ASSUME NEW r \in Requests, TransactionFinalizer(r) PROVE Goal
  <2>1. \A s \in Requests \ {r} : Untouched(s)
    BY <1>13 DEF TransactionFinalizer, Pop, Newest, CommitLands, RollBack,
               ReleaseTransactionConnection, Untouched
  <2>2. FinalizersPending(r)'
    BY <1>13 DEF TransactionFinalizer, Pop, Newest, CommitLands, RollBack,
               ReleaseTransactionConnection, ScopeInv, FinalizersPending, FreshRequest
  <2>3. NewestFirst(r)'
    BY <1>13 DEF TransactionFinalizer, Pop, Newest, CommitLands, RollBack,
               ReleaseTransactionConnection, ScopeInv, NewestFirst, FinalizersPending
  <2>4. DurableNeedsSuccess(r)'
    BY <1>13 DEF TransactionFinalizer, Pop, Newest, CommitLands, RollBack,
               ReleaseTransactionConnection, ScopeInv, DurableNeedsSuccess, CommitsItself
  <2> QED
    BY <2>1, <2>2, <2>3, <2>4, UntouchedScope DEF ScopeInv
<1>14. ASSUME NEW r \in Requests, EffectFinalizer(r) PROVE Goal
  <2>1. \A s \in Requests \ {r} : Untouched(s)
    BY <1>14 DEF EffectFinalizer, Pop, Newest, Untouched
  <2>2. FinalizersPending(r)'
    BY <1>14 DEF EffectFinalizer, Pop, Newest, ScopeInv, FinalizersPending, FreshRequest
  <2>3. NewestFirst(r)'
    BY <1>14 DEF EffectFinalizer, Pop, Newest, ScopeInv, NewestFirst, FinalizersPending
  <2>4. DurableNeedsSuccess(r)'
    BY <1>14 DEF EffectFinalizer, Pop, Newest, ScopeInv, DurableNeedsSuccess, CommitsItself
  <2> QED
    BY <2>1, <2>2, <2>3, <2>4, UntouchedScope DEF ScopeInv
<1>15. ASSUME NEW r \in Requests, Finish(r) PROVE Goal
  <2>1. \A s \in Requests \ {r} : Untouched(s)
    BY <1>15 DEF Finish, Untouched
  <2>2. FinalizersPending(r)'
    BY <1>15 DEF Finish, ScopeInv, FinalizersPending, FreshRequest
  <2>3. NewestFirst(r)'
    BY <1>15 DEF Finish, ScopeInv, NewestFirst, FinalizersPending
  <2>4. DurableNeedsSuccess(r)'
    BY <1>15 DEF Finish, ScopeInv, DurableNeedsSuccess, CommitsItself
  <2> QED
    BY <2>1, <2>2, <2>3, <2>4, UntouchedScope DEF ScopeInv
<1>16. CASE Crash
  BY <1>16 DEF Crash, Live, ScopeInv, FinalizersPending, NewestFirst,
               DurableNeedsSuccess, CommitsItself
<1>17. CASE UNCHANGED vars
  <2>1. \A s \in Requests : Untouched(s)
    BY <1>17 DEF vars, Untouched
  <2> QED
    BY <2>1, UntouchedScope
<1> QED
  BY <1>1, <1>2, <1>3, <1>4, <1>5, <1>6, <1>7, <1>8, <1>9, <1>10, <1>11,
     <1>12, <1>13, <1>14, <1>15, <1>16, <1>17
     DEF Next, Step, AllServed

---------------------------------------------------------------------------
(* The writes of a request                                                 *)

\* Every write a request has been past is where it was made: outside the
\* transaction it is durable, inside it is staged, and a commit makes what is
\* staged durable. A success is answered at the end of the program.
WritesInv(r) ==
  /\ \A i \in 1..(pc[r] - 1) :
       /\ program[r][i] = "poolWrite" => i \in autocommitted[r]
       /\ program[r][i] = "trxWrite" => i \in staged[r]
  /\ trx[r] = None => staged[r] = {}
  /\ trx[r] = "committed" => durable[r] = staged[r]
  /\ exit[r] = "success" => phase[r] # "running" /\ pc[r] > Len(program[r])

WritesUntouched(r) ==
  /\ Untouched(r)
  /\ staged'[r] = staged[r]
  /\ autocommitted'[r] = autocommitted[r]

\* A step of another request cannot disturb a request's writes.
LEMMA UntouchedWrites ==
  ASSUME NEW r \in Requests, WritesInv(r), WritesUntouched(r)
  PROVE  WritesInv(r)'
BY DEF WritesInv, Untouched, WritesUntouched

\* Every step keeps every request's writes where they were made.
LEMMA StepWrites ==
  ASSUME Typed, FreshRequest, [Next]_vars,
         \A r \in Requests : ScopeInv(r) /\ WritesInv(r)
  PROVE  \A r \in Requests : WritesInv(r)'
<1> USE DEF Typed, TypeOK, scopeVars, dataVars, poolVars
<1> DEFINE Goal == \A s \in Requests : WritesInv(s)'
<1>1. ASSUME NEW r \in Requests, Start(r) PROVE Goal
  <2>1. \A s \in Requests \ {r} : WritesUntouched(s)
    BY <1>1 DEF Start,
               WritesUntouched, Untouched
  <2>2. WritesInv(r)'
    BY <1>1 DEF Start,
               WritesInv, ScopeInv, DurableNeedsSuccess
  <2> QED
    BY <2>1, <2>2, UntouchedWrites
<1>2. ASSUME NEW r \in Requests, CreateTransaction(r) PROVE Goal
  <2>1. \A s \in Requests \ {r} : WritesUntouched(s)
    BY <1>2 DEF CreateTransaction, Advance, At,
               WritesUntouched, Untouched
  <2>2. WritesInv(r)'
    BY <1>2 DEF CreateTransaction, Advance, At,
               WritesInv, ScopeInv, DurableNeedsSuccess
  <2> QED
    BY <2>1, <2>2, UntouchedWrites
<1>3. ASSUME NEW r \in Requests, CreateTransactionFails(r) PROVE Goal
  <2>1. \A s \in Requests \ {r} : WritesUntouched(s)
    BY <1>3 DEF CreateTransactionFails, ExitWith, At,
               WritesUntouched, Untouched
  <2>2. WritesInv(r)'
    BY <1>3 DEF CreateTransactionFails, ExitWith, At,
               WritesInv, ScopeInv, DurableNeedsSuccess
  <2> QED
    BY <2>1, <2>2, UntouchedWrites
<1>4. ASSUME NEW r \in Requests, Register(r) PROVE Goal
  <2>1. \A s \in Requests \ {r} : WritesUntouched(s)
    BY <1>4 DEF Register, Advance, At,
               WritesUntouched, Untouched
  <2>2. WritesInv(r)'
    BY <1>4 DEF Register, Advance, At,
               WritesInv, ScopeInv, DurableNeedsSuccess
  <2> QED
    BY <2>1, <2>2, UntouchedWrites
<1>5. ASSUME NEW r \in Requests, Check(r) PROVE Goal
  <2>1. \A s \in Requests \ {r} : WritesUntouched(s)
    BY <1>5 DEF Check, Advance, ExitWith, At,
               WritesUntouched, Untouched
  <2>2. WritesInv(r)'
    BY <1>5 DEF Check, Advance, ExitWith, At,
               WritesInv, ScopeInv, DurableNeedsSuccess
  <2> QED
    BY <2>1, <2>2, UntouchedWrites
<1>6. ASSUME NEW r \in Requests, TransactionWrite(r) PROVE Goal
  <2>1. \A s \in Requests \ {r} : WritesUntouched(s)
    BY <1>6 DEF TransactionWrite, Advance, At,
               WritesUntouched, Untouched
  <2>2. WritesInv(r)'
    BY <1>6 DEF TransactionWrite, Advance, At,
               WritesInv, ScopeInv, DurableNeedsSuccess
  <2> QED
    BY <2>1, <2>2, UntouchedWrites
<1>7. ASSUME NEW r \in Requests, TransactionWriteFails(r) PROVE Goal
  <2>1. \A s \in Requests \ {r} : WritesUntouched(s)
    BY <1>7 DEF TransactionWriteFails, ExitWith, At,
               WritesUntouched, Untouched
  <2>2. WritesInv(r)'
    BY <1>7 DEF TransactionWriteFails, ExitWith, At,
               WritesInv, ScopeInv, DurableNeedsSuccess
  <2> QED
    BY <2>1, <2>2, UntouchedWrites
<1>8. ASSUME NEW r \in Requests, AcquireConnection(r) PROVE Goal
  <2>1. \A s \in Requests \ {r} : WritesUntouched(s)
    BY <1>8 DEF AcquireConnection, AtQuery, At,
               WritesUntouched, Untouched
  <2>2. WritesInv(r)'
    BY <1>8 DEF AcquireConnection, AtQuery, At,
               WritesInv, ScopeInv, DurableNeedsSuccess
  <2> QED
    BY <2>1, <2>2, UntouchedWrites
<1>9. ASSUME NEW r \in Requests, AcquireTimesOut(r) PROVE Goal
  <2>1. \A s \in Requests \ {r} : WritesUntouched(s)
    BY <1>9 DEF AcquireTimesOut, QueryFails, Advance, ExitWith, AtQuery, At,
               WritesUntouched, Untouched
  <2>2. WritesInv(r)'
    BY <1>9 DEF AcquireTimesOut, QueryFails, Advance, ExitWith, AtQuery, At,
               WritesInv, ScopeInv, DurableNeedsSuccess
  <2> QED
    BY <2>1, <2>2, UntouchedWrites
<1>10. ASSUME NEW r \in Requests, FinishQuery(r) PROVE Goal
  <2>1. \A s \in Requests \ {r} : WritesUntouched(s)
    BY <1>10 DEF FinishQuery, QueryFails, Advance, ExitWith,
               ReleaseQueryConnection, AtQuery, At,
               WritesUntouched, Untouched
  <2>2. WritesInv(r)'
    BY <1>10 DEF FinishQuery, QueryFails, Advance, ExitWith,
               ReleaseQueryConnection, AtQuery, At,
               WritesInv, ScopeInv, DurableNeedsSuccess
  <2> QED
    BY <2>1, <2>2, UntouchedWrites
<1>11. ASSUME NEW r \in Requests, ExplicitCommit(r) PROVE Goal
  <2>1. \A s \in Requests \ {r} : WritesUntouched(s)
    BY <1>11 DEF ExplicitCommit, CommitLands, RollBack, Advance,
               ExitWith, ReleaseTransactionConnection, At,
               WritesUntouched, Untouched
  <2>2. WritesInv(r)'
    BY <1>11 DEF ExplicitCommit, CommitLands, RollBack, Advance,
               ExitWith, ReleaseTransactionConnection, At,
               WritesInv, ScopeInv, DurableNeedsSuccess
  <2> QED
    BY <2>1, <2>2, UntouchedWrites
<1>12. ASSUME NEW r \in Requests, Succeed(r) PROVE Goal
  <2>1. \A s \in Requests \ {r} : WritesUntouched(s)
    BY <1>12 DEF Succeed, ExitWith,
               WritesUntouched, Untouched
  <2>2. WritesInv(r)'
    BY <1>12 DEF Succeed, ExitWith,
               WritesInv, ScopeInv, DurableNeedsSuccess
  <2> QED
    BY <2>1, <2>2, UntouchedWrites
<1>13. ASSUME NEW r \in Requests, TransactionFinalizer(r) PROVE Goal
  <2>1. \A s \in Requests \ {r} : WritesUntouched(s)
    BY <1>13 DEF TransactionFinalizer, Pop, Newest, CommitLands,
               RollBack, ReleaseTransactionConnection,
               WritesUntouched, Untouched
  <2>2. WritesInv(r)'
    BY <1>13 DEF TransactionFinalizer, Pop, Newest, CommitLands,
               RollBack, ReleaseTransactionConnection,
               WritesInv, ScopeInv, DurableNeedsSuccess
  <2> QED
    BY <2>1, <2>2, UntouchedWrites
<1>14. ASSUME NEW r \in Requests, EffectFinalizer(r) PROVE Goal
  <2>1. \A s \in Requests \ {r} : WritesUntouched(s)
    BY <1>14 DEF EffectFinalizer, Pop, Newest,
               WritesUntouched, Untouched
  <2>2. WritesInv(r)'
    BY <1>14 DEF EffectFinalizer, Pop, Newest,
               WritesInv, ScopeInv, DurableNeedsSuccess
  <2> QED
    BY <2>1, <2>2, UntouchedWrites
<1>15. ASSUME NEW r \in Requests, Finish(r) PROVE Goal
  <2>1. \A s \in Requests \ {r} : WritesUntouched(s)
    BY <1>15 DEF Finish,
               WritesUntouched, Untouched
  <2>2. WritesInv(r)'
    BY <1>15 DEF Finish,
               WritesInv, ScopeInv, DurableNeedsSuccess
  <2> QED
    BY <2>1, <2>2, UntouchedWrites
<1>16. CASE Crash
  BY <1>16 DEF Crash, Live, At, WritesInv
<1>17. CASE UNCHANGED vars
  <2>1. \A s \in Requests : WritesUntouched(s)
    BY <1>17 DEF vars, WritesUntouched, Untouched
  <2> QED
    BY <2>1, UntouchedWrites
<1> QED
  BY <1>1, <1>2, <1>3, <1>4, <1>5, <1>6, <1>7, <1>8, <1>9, <1>10, <1>11,
     <1>12, <1>13, <1>14, <1>15, <1>16, <1>17
     DEF Next, Step, AllServed

---------------------------------------------------------------------------
(* The inductive invariant and what follows from it                        *)

IInv ==
  /\ Typed
  /\ FreshRequest
  /\ ConnectionsAccountedFor
  /\ \A r \in Requests : ScopeInv(r) /\ WritesInv(r)

\* The invariant holds initially.
LEMMA InitIInv == Init => IInv
<1> SUFFICES ASSUME Init PROVE IInv
  OBVIOUS
<1>1. \A r \in Requests : ScopeInv(r)
  BY DEF Init, ScopeInv, FinalizersPending, NewestFirst, DurableNeedsSuccess
<1>2. ASSUME NEW r \in Requests PROVE WritesInv(r)
  <2>1. /\ pc[r] = 1 /\ trx[r] = None /\ exit[r] = None
        /\ staged[r] = {} /\ durable[r] = {}
    BY DEF Init
  <2>2. ~ \E i \in 1..(1 - 1) : TRUE
    OBVIOUS
  <2> QED
    BY <2>1, <2>2 DEF WritesInv, None
<1>3. FreshRequest /\ ConnectionsAccountedFor
  BY ConnectionsAssumption DEF Init, FreshRequest, ConnectionsAccountedFor
<1> QED
  BY <1>1, <1>2, <1>3, InitTyped DEF IInv

\* It holds in every reachable state.
LEMMA Invariance == Spec => []IInv
<1>1. IInv /\ [Next]_vars => IInv'
  BY StepTyped, StepFresh, StepConnections, StepScope, StepWrites DEF IInv
<1> QED
  BY <1>1, InitIInv, PTL DEF Spec

\* Every variable keeps its type in every behaviour.
THEOREM TypeCorrect == Spec => []TypeOK
<1>1. IInv => TypeOK
  BY DEF IInv, Typed
<1> QED
  BY <1>1, Invariance, PTL

\* No connection is lost or handed out twice.
THEOREM PoolSafety == Spec => []ConnectionsAccountedFor
<1>1. IInv => ConnectionsAccountedFor
  BY DEF IInv
<1> QED
  BY <1>1, Invariance, PTL

\* A request that required its transaction never ends with it open.
THEOREM NoLeakAfterRequire == Spec => []RequiredTransactionIsClosed
<1>1. IInv => RequiredTransactionIsClosed
  BY DEF IInv, Typed, TypeOK, ScopeInv, FinalizersPending,
         RequiredTransactionIsClosed, Required
<1> QED
  BY <1>1, Invariance, PTL

\* A failed request leaves none of its transaction's writes.
THEOREM FailureIsAtomic == Spec => []FailureDiscardsWrites
<1>1. IInv => FailureDiscardsWrites
  BY DEF IInv, ScopeInv, DurableNeedsSuccess, FailureDiscardsWrites
<1> QED
  BY <1>1, Invariance, PTL

\* A request that answers success has lost none of its writes, unless the
\* database refused the commit of its transaction.
THEOREM AcknowledgedWrites == Spec => []AcknowledgedWritesLand
<1>1. ASSUME IInv, NEW r \in Requests, phase[r] = "done", exit[r] = "success",
             NEW i \in DOMAIN program[r]
      PROVE  /\ program[r][i] = "poolWrite" => i \in autocommitted[r]
             /\ program[r][i] = "trxWrite" => i \in durable[r] \/ trx[r] = "rolledback"
  <2>1. WellFormed(program[r])
    BY <1>1, ProgramsAssumption DEF IInv, Typed, TypeOK
  <2>2. i \in 1..Len(program[r]) /\ Len(program[r]) < pc[r] /\ pc[r] \in Nat
    BY <1>1, <2>1 DEF IInv, Typed, TypeOK, WritesInv, WellFormed
  <2>3. i \in 1..(pc[r] - 1)
    BY <2>1, <2>2 DEF WellFormed
  <2>4. CASE program[r][i] = "trxWrite"
    <3>1. PICK j \in 1..(i - 1) : program[r][j] = "require"
      BY <2>1, <2>2, <2>4 DEF WellFormed
    <3>2. j \in 1..(pc[r] - 1)
      BY <2>2, <2>3, <3>1
    <3>3. trx[r] # "open"
      BY <1>1, <3>1, <3>2 DEF IInv, ScopeInv, FinalizersPending
    <3>4. i \in staged[r] /\ trx[r] # None
      BY <1>1, <2>3, <2>4 DEF IInv, WritesInv
    <3> QED
      BY <1>1, <2>4, <3>3, <3>4 DEF IInv, WritesInv, Typed, TypeOK
  <2> QED
    BY <1>1, <2>3, <2>4 DEF IInv, WritesInv
<1>2. IInv => AcknowledgedWritesLand
  BY <1>1 DEF AcknowledgedWritesLand
<1> QED
  BY <1>2, Invariance, PTL

\* An effect registered before a later requireTransaction follows the end of
\* the transaction.
THEOREM EffectOrder == Spec => []EffectAfterLaterRequire
<1>1. ASSUME IInv, NEW r \in Requests, NEW i \in performed[r],
             NEW j \in (i + 1)..(pc[r] - 1), program[r][j] = "require",
             trx[r] = "open"
      PROVE  FALSE
  <2>1. i \in Nat /\ pc[r] \in Nat
    BY <1>1 DEF IInv, Typed, TypeOK
  <2>2. j \in pending[r]
    BY <1>1, <2>1 DEF IInv, ScopeInv, FinalizersPending
  <2>3. j < i
    BY <1>1, <2>2 DEF IInv, ScopeInv, NewestFirst
  <2> QED
    BY <2>1, <2>3
<1>2. IInv => EffectAfterLaterRequire
  BY <1>1 DEF EffectAfterLaterRequire
<1> QED
  BY <1>2, Invariance, PTL

---------------------------------------------------------------------------
(* Refinement of UnitOfWork                                                *)

\* What the mapping reads: a step that changes none of it is a stutter of the
\* unit of work.
Settled(v) == v \in {"committed", "rolledback"}

SameWork ==
  /\ staged' = staged
  /\ durable' = durable
  /\ \A s \in Requests :
       \/ trx'[s] = trx[s]
       \/ ~Settled(trx[s]) /\ ~Settled(trx'[s])

\* A step that settles no transaction and changes no write is invisible to
\* the unit of work.
LEMMA SameWorkStutters ==
  ASSUME SameWork
  PROVE  UNCHANGED UoW!vars
BY DEF SameWork, Settled, UoW!vars

\* A commit that lands applies the unit of work.
LEMMA CommitApplies ==
  ASSUME Typed, NEW r \in Requests, CommitLands(r), staged' = staged
  PROVE  UoW!Next
<1>1. UoW!Apply(r)
  BY DEF CommitLands, UoW!Apply, Typed, TypeOK
<1> QED
  BY <1>1 DEF UoW!Next

\* A rollback discards it.
LEMMA RollBackDiscards ==
  ASSUME Typed, NEW r \in Requests, RollBack(r), staged' = staged
  PROVE  UoW!Next
<1>1. UoW!Discard({r})
  BY DEF RollBack, UoW!Discard, Typed, TypeOK
<1> QED
  BY <1>1 DEF UoW!Next

\* A write through the open transaction is staged.
LEMMA WriteStages ==
  ASSUME Typed, NEW r \in Requests, TransactionWrite(r)
  PROVE  UoW!Next
<1>1. WellFormed(program[r])
  BY ProgramsAssumption DEF Typed, TypeOK
<1>2. pc[r] \in 1..Len(program[r])
  BY <1>1 DEF Typed, TypeOK, TransactionWrite, At, WellFormed
<1>3. pc[r] \in Positions
  BY <1>2 DEF Positions, Typed, TypeOK
<1>4. UoW!Stage(r)
  BY <1>3 DEF TransactionWrite, UoW!Stage, Typed, TypeOK, scopeVars
<1> QED
  BY <1>4 DEF UoW!Next

\* A crash discards what was open.
LEMMA CrashDiscards ==
  ASSUME Typed, Crash
  PROVE  UoW!Next
<1>1. PICK S \in SUBSET Requests : S = {r \in Requests : trx[r] = "open"}
  OBVIOUS
<1>2. UoW!Discard(S)
  BY <1>1 DEF Crash, UoW!Discard, Typed, TypeOK
<1> QED
  BY <1>2 DEF UoW!Next

\* Every step is a step of the unit of work or leaves it alone.
LEMMA StepRefines == IInv /\ [Next]_vars => [UoW!Next]_(UoW!vars)
<1> SUFFICES ASSUME IInv, [Next]_vars
             PROVE  UoW!Next \/ UNCHANGED UoW!vars
  OBVIOUS
<1>0. Typed /\ FreshRequest
  BY DEF IInv
<1> DEFINE Goal == UoW!Next \/ UNCHANGED UoW!vars
<1>1. ASSUME NEW r \in Requests, Start(r) PROVE Goal
  <2>1. SameWork
    BY <1>1 DEF Start, SameWork, dataVars
  <2> QED
    BY <2>1, SameWorkStutters
<1>2. ASSUME NEW r \in Requests, CreateTransaction(r) PROVE Goal
  <2>1. trx[r] = None
    BY <1>0, <1>2, CreateIsFirst DEF CreateTransaction, FreshRequest
  <2>2. SameWork
    BY <1>0, <1>2, <2>1 DEF CreateTransaction, SameWork, Settled, Typed, TypeOK,
                            dataVars
  <2> QED
    BY <2>2, SameWorkStutters
<1>3. ASSUME NEW r \in Requests, CreateTransactionFails(r) PROVE Goal
  <2>1. SameWork
    BY <1>3 DEF CreateTransactionFails, SameWork, dataVars
  <2> QED
    BY <2>1, SameWorkStutters
<1>4. ASSUME NEW r \in Requests, Register(r) PROVE Goal
  <2>1. SameWork
    BY <1>4 DEF Register, SameWork, dataVars
  <2> QED
    BY <2>1, SameWorkStutters
<1>5. ASSUME NEW r \in Requests, Check(r) PROVE Goal
  <2>1. SameWork
    BY <1>5 DEF Check, SameWork, dataVars
  <2> QED
    BY <2>1, SameWorkStutters
<1>6. ASSUME NEW r \in Requests, TransactionWrite(r) PROVE Goal
  BY <1>0, <1>6, WriteStages DEF Goal
<1>7. ASSUME NEW r \in Requests, TransactionWriteFails(r) PROVE Goal
  <2>1. SameWork
    BY <1>7 DEF TransactionWriteFails, SameWork, dataVars
  <2> QED
    BY <2>1, SameWorkStutters
<1>8. ASSUME NEW r \in Requests, AcquireConnection(r) PROVE Goal
  <2>1. SameWork
    BY <1>8 DEF AcquireConnection, SameWork, dataVars
  <2> QED
    BY <2>1, SameWorkStutters
<1>9. ASSUME NEW r \in Requests, AcquireTimesOut(r) PROVE Goal
  <2>1. SameWork
    BY <1>9 DEF AcquireTimesOut, SameWork, dataVars
  <2> QED
    BY <2>1, SameWorkStutters
<1>10. ASSUME NEW r \in Requests, FinishQuery(r) PROVE Goal
  <2>1. SameWork
    BY <1>10 DEF FinishQuery, SameWork, dataVars
  <2> QED
    BY <2>1, SameWorkStutters
<1>11. ASSUME NEW r \in Requests, ExplicitCommit(r) PROVE Goal
  <2>1. (CommitLands(r) \/ RollBack(r)) /\ staged' = staged
    BY <1>11 DEF ExplicitCommit
  <2> QED
    BY <1>0, <2>1, CommitApplies, RollBackDiscards
<1>12. ASSUME NEW r \in Requests, Succeed(r) PROVE Goal
  <2>1. SameWork
    BY <1>12 DEF Succeed, SameWork, dataVars
  <2> QED
    BY <2>1, SameWorkStutters
<1>13. ASSUME NEW r \in Requests, TransactionFinalizer(r) PROVE Goal
  <2>1. /\ staged' = staged
        /\ CommitLands(r) \/ RollBack(r) \/ UNCHANGED <<trx, durable>>
    BY <1>13 DEF TransactionFinalizer
  <2>2. UNCHANGED <<trx, durable>> => SameWork
    BY <2>1 DEF SameWork
  <2> QED
    BY <1>0, <2>1, <2>2, CommitApplies, RollBackDiscards, SameWorkStutters
<1>14. ASSUME NEW r \in Requests, EffectFinalizer(r) PROVE Goal
  <2>1. SameWork
    BY <1>14 DEF EffectFinalizer, SameWork, dataVars
  <2> QED
    BY <2>1, SameWorkStutters
<1>15. ASSUME NEW r \in Requests, Finish(r) PROVE Goal
  <2>1. SameWork
    BY <1>15 DEF Finish, SameWork, dataVars
  <2> QED
    BY <2>1, SameWorkStutters
<1>16. CASE Crash
  BY <1>0, <1>16, CrashDiscards
<1>17. CASE UNCHANGED vars
  <2>1. SameWork
    BY <1>17 DEF vars, SameWork, dataVars
  <2> QED
    BY <2>1, SameWorkStutters
<1>18. Goal
  BY <1>1, <1>2, <1>3, <1>4, <1>5, <1>6, <1>7, <1>8, <1>9, <1>10, <1>11,
     <1>12, <1>13, <1>14, <1>15, <1>16, <1>17
     DEF Next, Step, AllServed
<1> QED
  BY <1>18

\* The scope, its finalizers and the pool implement the unit of work: the
\* writes of a transaction appear together or never.
THEOREM Refinement == Spec => ImplementsUnitOfWork
<1>1. Init => UoW!Init
  BY DEF Init, UoW!Init
<1> QED
  BY <1>1, StepRefines, Invariance, PTL DEF Spec, ImplementsUnitOfWork, UoW!Spec
===========================================================================
