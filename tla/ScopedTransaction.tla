------------------------- MODULE ScopedTransaction -------------------------
(***************************************************************************)
(* The life of a request that works inside a database transaction:         *)
(* DatabaseService (createTransaction, requireTransaction), the scope that *)
(* ApplicationRuntimeService.managedEffect closes around the whole request *)
(* and the connection pool every query takes its connection from.          *)
(*                                                                         *)
(* A request runs a program: the sequence of those steps of its controller *)
(* and services that touch the transaction, the pool or the scope, in the  *)
(* order the code takes them (module RequestHandlers lists them).          *)
(*                                                                         *)
(*   create     controllers: yield* database.createTransaction()           *)
(*   require    database.requireTransaction(): registers the finalizer     *)
(*   check      anything that can fail and uses no connection of its own:  *)
(*              payload validation, a business rule, the cache, a read     *)
(*              through the transaction                                    *)
(*   trxWrite   a write through the transaction ({ client: trx }, or a     *)
(*              model that was loaded or created through it)               *)
(*   poolRead   a read on a connection of its own (every retrieval made    *)
(*              with WithRetrievalStrategy, whose "query" option is        *)
(*              dropped before the query is built)                         *)
(*   poolTry    such a read whose failure the caller catches and carries   *)
(*              on from                                                    *)
(*   poolWrite  a write on a connection of its own, which autocommits      *)
(*   finalizer  Effect.addFinalizer of an on-success side effect           *)
(*   commit     an explicit trx.commit() of a service                      *)
(***************************************************************************)
EXTENDS Naturals, Sequences

CONSTANTS
  Requests,      \* the requests that arrive
  Programs,      \* the programs they may run
  Connections    \* the connections of the pool (knex's default is 10)

StepKinds ==
  {"create", "require", "check", "trxWrite", "poolRead", "poolTry",
   "poolWrite", "finalizer", "commit"}

\* A controller creates the transaction while it builds the layer that
\* provides it to everything else, and requireTransaction has that layer in
\* its type: a transaction is opened first, once, and never used without. No
\* handler commits it twice.
WellFormed(p) ==
  /\ p \in Seq(StepKinds)
  /\ \A i \in 1..Len(p) :
       /\ p[i] = "create" => i = 1
       /\ p[i] \in {"require", "trxWrite", "commit"} => p[1] = "create"
       /\ p[i] \in {"trxWrite", "commit"} => \E j \in 1..(i - 1) : p[j] = "require"
       /\ \A j \in 1..Len(p) : p[i] = "commit" /\ p[j] = "commit" => i = j

ASSUME ProgramsAssumption == \A p \in Programs : WellFormed(p)

None == "none"

ASSUME ConnectionsAssumption == None \notin Connections

VARIABLES
  program,       \* program[r]: what request r runs
  pc,            \* pc[r]: the step it is at
  phase,         \* idle, running, closing (the scope closes) or done
  exit,          \* the Exit of the request's effect
  pending,       \* pending[r]: the steps whose finalizers the scope still holds
  performed,     \* performed[r]: the steps whose on-success effect happened
  trx,           \* trx[r]: the transaction as the database knows it
  staged,        \* staged[r]: the writes made through the transaction
  durable,       \* durable[r]: those the database has committed
  autocommitted, \* autocommitted[r]: the writes made outside the transaction
  free,          \* the connections the pool can hand out
  trxConn,       \* trxConn[r]: the connection of r's open transaction
  queryConn      \* queryConn[r]: the connection of r's query in flight

scopeVars == <<pending, performed>>
dataVars == <<staged, durable, autocommitted>>
poolVars == <<free, trxConn, queryConn>>
vars == <<program, pc, phase, exit, scopeVars, trx, dataVars, poolVars>>

TypeOK ==
  /\ program \in [Requests -> Programs]
  /\ pc \in [Requests -> Nat \ {0}]
  /\ phase \in [Requests -> {"idle", "running", "closing", "done"}]
  /\ exit \in [Requests -> {None, "success", "failure", "crashed"}]
  /\ pending \in [Requests -> SUBSET Nat]
  /\ performed \in [Requests -> SUBSET Nat]
  /\ trx \in [Requests -> {None, "open", "committed", "rolledback"}]
  /\ staged \in [Requests -> SUBSET Nat]
  /\ durable \in [Requests -> SUBSET Nat]
  /\ autocommitted \in [Requests -> SUBSET Nat]
  /\ free \in SUBSET Connections
  /\ trxConn \in [Requests -> Connections \cup {None}]
  /\ queryConn \in [Requests -> Connections \cup {None}]

Init ==
  /\ program \in [Requests -> Programs]
  /\ pc = [r \in Requests |-> 1]
  /\ phase = [r \in Requests |-> "idle"]
  /\ exit = [r \in Requests |-> None]
  /\ pending = [r \in Requests |-> {}]
  /\ performed = [r \in Requests |-> {}]
  /\ trx = [r \in Requests |-> None]
  /\ staged = [r \in Requests |-> {}]
  /\ durable = [r \in Requests |-> {}]
  /\ autocommitted = [r \in Requests |-> {}]
  /\ free = Connections
  /\ trxConn = [r \in Requests |-> None]
  /\ queryConn = [r \in Requests |-> None]

---------------------------------------------------------------------------
(* Running the effect                                                      *)

At(r, kind) ==
  /\ phase[r] = "running"
  /\ pc[r] <= Len(program[r])
  /\ program[r][pc[r]] = kind

Advance(r) ==
  /\ pc' = [pc EXCEPT ![r] = @ + 1]
  /\ UNCHANGED <<program, phase, exit>>

\* Effect.scoped closes the scope with the exit of the effect.
ExitWith(r, result) ==
  /\ phase' = [phase EXCEPT ![r] = "closing"]
  /\ exit' = [exit EXCEPT ![r] = result]
  /\ UNCHANGED <<program, pc>>

Start(r) ==
  /\ phase[r] = "idle"
  /\ phase' = [phase EXCEPT ![r] = "running"]
  /\ UNCHANGED <<program, pc, exit, scopeVars, trx, dataVars, poolVars>>

\* db.transaction() takes a connection and keeps it until the transaction is
\* committed or rolled back.
CreateTransaction(r) ==
  /\ At(r, "create")
  /\ \E c \in free :
       /\ free' = free \ {c}
       /\ trxConn' = [trxConn EXCEPT ![r] = c]
  /\ trx' = [trx EXCEPT ![r] = "open"]
  /\ Advance(r)
  /\ UNCHANGED <<scopeVars, dataVars, queryConn>>

\* No connection in time, or BEGIN failed: nothing is held.
CreateTransactionFails(r) ==
  /\ At(r, "create")
  /\ ExitWith(r, "failure")
  /\ UNCHANGED <<scopeVars, trx, dataVars, poolVars>>

\* Mutant of Register: a new finalizer replaces the ones already registered.
RegisterReplacing(r) ==
  /\ At(r, "require") \/ At(r, "finalizer")
  /\ pending' = [pending EXCEPT ![r] = {pc[r]}]
  /\ Advance(r)
  /\ UNCHANGED <<performed, trx, dataVars, poolVars>>

\* Mutant of Register: a transaction that was required before is not required
\* again.
RegisterOnce(r) ==
  /\ At(r, "require") \/ At(r, "finalizer")
  /\ pending' =
       IF At(r, "require") /\ \E i \in pending[r] : program[r][i] = "require"
       THEN pending ELSE [pending EXCEPT ![r] = @ \cup {pc[r]}]
  /\ Advance(r)
  /\ UNCHANGED <<performed, trx, dataVars, poolVars>>

\* Requiring the transaction adds a finalizer to the scope; so does a step
\* that defers a side effect to the success of the request.
Register(r) ==
  /\ At(r, "require") \/ At(r, "finalizer")
  /\ pending' = [pending EXCEPT ![r] = @ \cup {pc[r]}]
  /\ Advance(r)
  /\ UNCHANGED <<performed, trx, dataVars, poolVars>>

Check(r) ==
  /\ At(r, "check")
  /\ Advance(r) \/ ExitWith(r, "failure")
  /\ UNCHANGED <<scopeVars, trx, dataVars, poolVars>>

\* Mutant of TransactionWrite: the write is not given the transaction's client.
TransactionWriteAtOnce(r) ==
  /\ At(r, "trxWrite")
  /\ trx[r] = "open"
  /\ staged' = [staged EXCEPT ![r] = @ \cup {pc[r]}]
  /\ durable' = [durable EXCEPT ![r] = @ \cup {pc[r]}]
  /\ Advance(r)
  /\ UNCHANGED <<scopeVars, trx, autocommitted, poolVars>>

TransactionWrite(r) ==
  /\ At(r, "trxWrite")
  /\ trx[r] = "open"
  /\ staged' = [staged EXCEPT ![r] = @ \cup {pc[r]}]
  /\ Advance(r)
  /\ UNCHANGED <<scopeVars, trx, durable, autocommitted, poolVars>>

TransactionWriteFails(r) ==
  /\ At(r, "trxWrite")
  /\ ExitWith(r, "failure")
  /\ UNCHANGED <<scopeVars, trx, dataVars, poolVars>>

AtQuery(r) == At(r, "poolRead") \/ At(r, "poolTry") \/ At(r, "poolWrite")

\* Mutant of QueryFails: no query's error reaches its handler.
QueryFailureIgnored(r) == Advance(r)

QueryFails(r) ==
  IF At(r, "poolTry") THEN Advance(r) ELSE ExitWith(r, "failure")

AcquireConnection(r) ==
  /\ AtQuery(r)
  /\ queryConn[r] = None
  /\ \E c \in free :
       /\ free' = free \ {c}
       /\ queryConn' = [queryConn EXCEPT ![r] = c]
  /\ UNCHANGED <<program, pc, phase, exit, scopeVars, trx, dataVars, trxConn>>

\* Mutant of AcquireTimesOut: a query waits for its connection for ever.
AcquireNeverTimesOut(r) == AtQuery(r) /\ FALSE /\ UNCHANGED vars

AcquireTimesOut(r) ==
  /\ AtQuery(r)
  /\ queryConn[r] = None
  /\ free = {}
  /\ QueryFails(r)
  /\ UNCHANGED <<scopeVars, trx, dataVars, poolVars>>

\* Mutant of ReleaseQueryConnection: the transaction's connection is returned.
ReleaseWrongConnection(r) ==
  /\ free' = free \cup {trxConn[r]}
  /\ queryConn' = [queryConn EXCEPT ![r] = None]

ReleaseQueryConnection(r) ==
  /\ free' = free \cup {queryConn[r]}
  /\ queryConn' = [queryConn EXCEPT ![r] = None]

\* A query on a connection of its own: a write is durable when it returns,
\* and may be durable although its answer was lost.
FinishQuery(r) ==
  /\ AtQuery(r)
  /\ queryConn[r] # None
  /\ \/ /\ Advance(r)
        /\ autocommitted' =
             IF At(r, "poolWrite")
             THEN [autocommitted EXCEPT ![r] = @ \cup {pc[r]}]
             ELSE autocommitted
     \/ /\ QueryFails(r)
        /\ \/ UNCHANGED autocommitted
           \/ /\ At(r, "poolWrite")
              /\ autocommitted' = [autocommitted EXCEPT ![r] = @ \cup {pc[r]}]
  /\ ReleaseQueryConnection(r)
  /\ UNCHANGED <<scopeVars, trx, staged, durable, trxConn>>

---------------------------------------------------------------------------
(* Ending the transaction                                                  *)

\* However the transaction ends, its connection goes back to the pool.
ReleaseTransactionConnection(r) ==
  /\ free' = free \cup {trxConn[r]}
  /\ trxConn' = [trxConn EXCEPT ![r] = None]
  /\ UNCHANGED queryConn

CommitLands(r) ==
  /\ trx[r] = "open"
  /\ trx' = [trx EXCEPT ![r] = "committed"]
  /\ durable' = [durable EXCEPT ![r] = staged[r]]
  /\ ReleaseTransactionConnection(r)

\* Mutant of RollBack: the connection of the transaction is kept.
RollBackKeepingConnection(r) ==
  /\ trx[r] = "open"
  /\ trx' = [trx EXCEPT ![r] = "rolledback"]
  /\ UNCHANGED <<durable, poolVars>>

RollBack(r) ==
  /\ trx[r] = "open"
  /\ trx' = [trx EXCEPT ![r] = "rolledback"]
  /\ UNCHANGED durable
  /\ ReleaseTransactionConnection(r)

\* A service commits before its request has ended. The commit can fail, and
\* its answer can be lost although it landed.
ExplicitCommit(r) ==
  /\ At(r, "commit")
  /\ \/ CommitLands(r) /\ (Advance(r) \/ ExitWith(r, "failure"))
     \/ RollBack(r) /\ ExitWith(r, "failure")
  /\ UNCHANGED <<scopeVars, staged, autocommitted>>

Succeed(r) ==
  /\ phase[r] = "running"
  /\ pc[r] > Len(program[r])
  /\ ExitWith(r, "success")
  /\ UNCHANGED <<scopeVars, trx, dataVars, poolVars>>

---------------------------------------------------------------------------
(* Closing the scope: the finalizers, the last registered first            *)

Newest(r) ==
  {i \in pending[r] : \A j \in pending[r] : j <= i}

Pop(r, i) ==
  /\ phase[r] = "closing"
  /\ i \in Newest(r)
  /\ pending' = [pending EXCEPT ![r] = @ \ {i}]

\* Mutant of TransactionFinalizer: the transaction is committed whatever the exit.
TransactionFinalizerAlwaysCommits(r) ==
  \E i \in pending[r] :
    /\ Pop(r, i)
    /\ program[r][i] = "require"
    /\ \/ trx[r] = "open" /\ (CommitLands(r) \/ RollBack(r))
       \/ trx[r] # "open" /\ UNCHANGED <<trx, durable, poolVars>>
    /\ UNCHANGED <<program, pc, phase, exit, performed, staged, autocommitted>>

\* Exit.matchEffect of requireTransaction: commit on success, roll back on
\* failure; Effect.ignore drops the error of either.
TransactionFinalizer(r) ==
  \E i \in pending[r] :
    /\ Pop(r, i)
    /\ program[r][i] = "require"
    /\ \/ trx[r] = "open" /\ exit[r] = "success" /\ (CommitLands(r) \/ RollBack(r))
       \/ trx[r] = "open" /\ exit[r] = "failure" /\ RollBack(r)
       \/ trx[r] # "open" /\ UNCHANGED <<trx, durable, poolVars>>
    /\ UNCHANGED <<program, pc, phase, exit, performed, staged, autocommitted>>

\* The deferred side effect runs on success only, and its error is ignored.
EffectFinalizer(r) ==
  \E i \in pending[r] :
    /\ Pop(r, i)
    /\ program[r][i] = "finalizer"
    /\ \/ /\ exit[r] = "success"
          /\ performed' = [performed EXCEPT ![r] = @ \cup {i}]
       \/ UNCHANGED performed
    /\ UNCHANGED <<program, pc, phase, exit, trx, dataVars, poolVars>>

Finish(r) ==
  /\ phase[r] = "closing"
  /\ pending[r] = {}
  /\ phase' = [phase EXCEPT ![r] = "done"]
  /\ UNCHANGED <<program, pc, exit, scopeVars, trx, dataVars, poolVars>>

---------------------------------------------------------------------------
(* The process dies: the database rolls back what its connections held     *)
(* open, and the pool of the next process is whole. An autocommitting      *)
(* write in flight may have reached the database.                          *)

Live(r) == phase[r] \in {"running", "closing"}

Crash ==
  /\ \E r \in Requests : Live(r) \/ trx[r] = "open"
  /\ phase' = [r \in Requests |-> IF Live(r) THEN "done" ELSE phase[r]]
  /\ exit' = [r \in Requests |-> IF Live(r) THEN "crashed" ELSE exit[r]]
  /\ pending' = [r \in Requests |-> {}]
  /\ trx' = [r \in Requests |->
               IF trx[r] = "open" THEN "rolledback" ELSE trx[r]]
  /\ \E landed \in SUBSET {r \in Requests : At(r, "poolWrite") /\ queryConn[r] # None} :
       autocommitted' = [r \in Requests |->
         IF r \in landed THEN autocommitted[r] \cup {pc[r]} ELSE autocommitted[r]]
  /\ free' = Connections
  /\ trxConn' = [r \in Requests |-> None]
  /\ queryConn' = [r \in Requests |-> None]
  /\ UNCHANGED <<program, pc, performed, staged, durable>>

---------------------------------------------------------------------------
\* What a started request does by itself.
Step(r) ==
  \/ CreateTransaction(r) \/ CreateTransactionFails(r)
  \/ Register(r) \/ Check(r)
  \/ TransactionWrite(r) \/ TransactionWriteFails(r)
  \/ AcquireConnection(r) \/ AcquireTimesOut(r) \/ FinishQuery(r)
  \/ ExplicitCommit(r) \/ Succeed(r)
  \/ TransactionFinalizer(r) \/ EffectFinalizer(r) \/ Finish(r)

\* Every request has been answered: a legitimate end of the behaviour.
AllServed ==
  /\ \A r \in Requests : phase[r] = "done"
  /\ UNCHANGED vars

Next ==
  \/ \E r \in Requests : Start(r) \/ Step(r)
  \/ Crash
  \/ AllServed

Spec == Init /\ [][Next]_vars

\* The event loop runs every started request on, and no step waits for ever:
\* knex gives up acquiring a connection after its timeout. Nothing makes a
\* request arrive or the process crash.
FairSpec == Spec /\ \A r \in Requests : WF_vars(Step(r))

---------------------------------------------------------------------------
(* Properties                                                              *)

\* Request r has been through requireTransaction.
Required(r) == \E i \in 1..(pc[r] - 1) : program[r][i] = "require"

CommitsItself(r) == \E i \in 1..Len(program[r]) : program[r][i] = "commit"

\* Every connection is in the pool or has exactly one holder: none is handed
\* out twice, and none is lost other than as an open transaction. What
\* trx.commit and trx.rollback (database_service.ts) rely on, and what leaks
\* if either is missed.
ConnectionsAccountedFor ==
  /\ \A r \in Requests : trx[r] = "open" <=> trxConn[r] # None
  /\ \A c \in Connections :
       /\ c \in free <=> \A r \in Requests : c # trxConn[r] /\ c # queryConn[r]
       /\ \A r, s \in Requests :
            /\ trxConn[r] = c => queryConn[s] # c
            /\ r # s => ~(trxConn[r] = c /\ trxConn[s] = c)
            /\ r # s => ~(queryConn[r] = c /\ queryConn[s] = c)

\* Once a request has been through requireTransaction, no exit of any kind
\* leaves its transaction open: the finalizer survives every later failure.
RequiredTransactionIsClosed ==
  \A r \in Requests :
    phase[r] = "done" /\ Required(r) => trx[r] # "open"

\* A failed request leaves none of the writes it made through its
\* transaction, wherever it failed, unless its service committed by itself.
FailureDiscardsWrites ==
  \A r \in Requests :
    exit[r] = "failure" /\ ~CommitsItself(r) => durable[r] = {}

\* A request that answers success has lost none of its writes: those outside
\* the transaction landed, and so did those inside, unless the database
\* refused the commit (the finalizer ignores that error).
AcknowledgedWritesLand ==
  \A r \in Requests :
    phase[r] = "done" /\ exit[r] = "success" =>
      \A i \in DOMAIN program[r] :
        /\ program[r][i] = "poolWrite" => i \in autocommitted[r]
        /\ program[r][i] = "trxWrite" => i \in durable[r] \/ trx[r] = "rolledback"

\* Finalizers run newest first: a side effect registered before a later
\* requireTransaction happens only when the transaction is settled, so a logo
\* is stored only after the commit of the workspace that names it was tried.
EffectAfterLaterRequire ==
  \A r \in Requests : \A i \in performed[r] :
    (\E j \in (i + 1)..(pc[r] - 1) : program[r][j] = "require")
       => trx[r] # "open"

Positions == UNION {1..Len(p) : p \in Programs}

\* The unit of work the transaction stands for.
UoW == INSTANCE UnitOfWork WITH
  Writes <- Positions,
  status <- [r \in Requests |->
               CASE trx[r] = "committed" -> "applied"
                 [] trx[r] = "rolledback" -> "discarded"
                 [] OTHER -> "working"],
  visible <- durable

\* The scope, its finalizers and the pool implement the unit of work: writes
\* appear together or never, and a settled transaction stays as it is.
ImplementsUnitOfWork == UoW!Spec

\* Every started request is answered, however scarce connections are.
RequestsFinish ==
  \A r \in Requests : phase[r] = "running" ~> phase[r] = "done"

\* A transaction that was required is eventually closed and its connection
\* returned, whatever fails on the way.
RequiredTransactionCloses ==
  \A r \in Requests :
    (trx[r] = "open" /\ Required(r)) ~> trx[r] # "open"

\* database_service.ts, doc of rollback: "the transaction will be rolled back
\* automatically when the current execution exits with a failure".
RolledBackOnFailure ==
  \A r \in Requests :
    phase[r] = "done" /\ exit[r] = "failure" => trx[r] # "open"
===========================================================================
