# Phoenix gateway: TLA+ models and proofs

This directory holds TLA+ models of the gateway's server code (`src/app`, an
AdonisJS application written with Effect), the TLC configurations that check
them on small instances, and proofs, checked by TLAPS, of theorems that hold
for every value of the constants. `PROJECT.json` lists the runs, the mutants
that show that a property can fail, the source lines each definition models,
the hazards and the theorems.

To check a run: `tlc -config <cfg> <MC module>`. To check the proofs of a
component: `tlapm <component>Proofs.tla`, for each of the eight modules of that
name. The sections are: the system, the modules, the runs, the proofs, what is
not modelled, and where the code and its documentation differ.

## 1. The system

A request enters a controller, which builds an Effect program out of services
and hands it to `ApplicationRuntimeExecution.runPromise`. The program runs in
one scope (`Effect.scoped` in `ApplicationRuntimeService.managedEffect`): when
it exits, the finalizers registered on the way run, the last registered first,
each told the exit; what they fail with is dropped by `Effect.ignore`. Below
the services are MySQL through a knex connection pool, a two-layer cache
(memory in each process, redis behind it), a BullMQ queue for emails and a file
storage. Several processes of the gateway may run at once; in one process the
event loop interleaves requests at every `await`.

### Components

**Request scope and database transaction** (`core/database`, `core/effect`).
State: the scope's pending finalizers, the exit, the transaction and its
connection. Operations: `createTransaction` takes a connection and opens a
transaction; `requireTransaction` registers the finalizer that commits or rolls
back, and does so again every time it is called; `commit`, `rollback`; the end
of the scope. Hard: the transaction exists before its finalizer does; there are
several finalizers for one transaction; errors of commit are ignored; other
side effects are deferred into the same scope; a crash comes between any two
steps. Correct when: a required transaction is always closed, its writes appear
together or never, a failed request leaves none, a deferred effect comes after
the commit it depends on, and no connection is lost.

**Retrieval strategies** (`core/lucid`). No state. A service asks for a row with
`WithRetrievalStrategy(...)` and passes the transaction's client in the `query`
option; `strategy()` builds the query from the model and passes the options on
without `query`. Every such read therefore takes a connection of its own, and
the model it returns is saved on one of its own too. Hard: a request holds its
transaction's connection while it waits for another one.

**Controllers** (`*_controller.ts`): 35 methods that use the database, each a
fixed order of create, validate, require, read, write, defer, commit.

**Password reset** (`iam/services/authentication_service.ts`, its controller and
job). State: one cached token per user, 15 minutes, and the user's password.
Operations: queue the email (reuse the cached token or generate one), check a
link, reset the password (check the token, defer its deletion to success, read
the user, refuse the old password, save). Hard: concurrent requests of one
user, a token that expires or is replaced meanwhile, memories of other
processes that nobody invalidates, a failure or crash after the save. Correct
when an expired or consumed link changes nothing and an unused one keeps
working.

**Token cache** (`config/cache.ts`): memory over redis with no bus.

**String mixer** (`shared/common/services/string_mixer_service.ts`): makes the
tokens. Pure apart from its random seed. Correct when `decode` inverts `encode`.

**Accounts** (`authentication_service.ts`, `account_verification_service.ts`).
State: users with `is_account_verified`, sessions, access tokens, a cached
verification token of one hour. `registerUser` checks that an address is free
and then creates the user; the verification email follows in the controller; a
login of an unverified user queues the email again; the verification follows the
pattern of the password reset. An accepted invitation reaches in from the side:
`acceptInvitation` creates the account of its address in mode `register`,
verified from the start, and in mode `login` the controller starts a session
after a check of the password alone. Hard: check-then-create in two places; a
failure between creation and email; a deletion of the token that comes late; two
places that start a session, of which one checks that the account is verified.
Correct when one address has one user, a session of an unverified user comes from
an invitation and never from a login, a late link verifies nothing and the newest
one keeps working until it is used.

**Workspace invitations** (`workspace_invitation_service.ts`). State: cached
invitations under workspace and email, memberships of workspaces and spaces.
Operations: invite several addresses one after another, look an invitation up,
accept it by login, registration or as the user logged in. Hard: three spellings
of the cache key, a loop that fails in the middle, a retried acceptance, writes
in and out of the transaction. Correct when nobody becomes a member of a
workspace without having founded it or been invited to it, and an accepted
invitation adds the one who accepted it.

**Workspace management, members, logos** (`workspace_manager_service.ts`,
`workspace_member_service.ts`, `workspace_utility_service.ts`). State:
workspaces with unique slugs and soft deletion, memberships with roles, logo
files. Hard: availability is checked and used in two steps; a deleted workspace
still holds its slug for the unique index; files and rows are written by
different systems. Correct when a workspace has an owner from the start, a
default workspace is one its user belongs to, and a deleted workspace stays
deleted and is refused by whatever still names it.

**Active workspace** (`workspace_session_service.ts`,
`active_workspace_middleware.ts`): a session cell naming the current workspace,
and a middleware that reads it.

**Spaces and members** (`space_manager_service.ts`, `space_member_service.ts`).
State: spaces, memberships, unique on user and space. Hard: the space and its
first membership are two writes; membership is checked and then changed; the
workspace may be deleted meanwhile.

**Contacts** (`contact_service.ts`): rows with soft deletion; a basic list that
follows the last identifier; lists with filters, sort rules and numbered or
`next_id` pages. Hard: pages under concurrent inserts and deletions, updates
that replace or merge columns others write. Correct when a walk over the pages
misses nothing that was there all along, and an update changes what it was sent.

**Contact attributes** (`contact_attribute_service.ts`): attributes with typed
options; explicit commits in the middle of a request, followed by reads that may
fail; a unique slug that deleted rows keep.

**Queue jobs** (`core/queue_job`, `config/queue.ts`): `dispatch`, the attempts
of the workers, `handle`, `rescue`. Hard: a worker dies between the work and the
report of it; a job stalls. Correct when every job ends and its outcome says
what happened.

**Channels** (`channel_controller.ts`): a webhook that queues one job for each
message and answers `EVENT_RECEIVED`. It answers 403 to a wrong signature and 500
to a failure, but as plain strings, which the response wrapper makes successes
of: the sender hears 200 of all three. Hard: the sender repeats what it heard no
200 of; a failure in the middle of the messages. Correct when what was answered
`EVENT_RECEIVED` is queued.

**Data payloads, error conversion, responses** (`core/data_payload`,
`core/error`, `exceptions/handler.ts`, `middleware/response_wrapper_middleware.ts`,
`core/effect`). No state outlives a request, but an error passes many hands: the
stages of a payload map some errors and let others through, the runtime turns an
exit into a thrown error, the handler converts it, the wrapper puts the answer
into an envelope. Correct when every failure is answered as one, a declared
exception arrives as declared, and internal data stays inside in production.

**Telemetry, logging, mail factory, storage drivers**: tracing, transport and
formatting; nothing is read again.

## 2. What is modelled

| Module | Models | Uses |
| --- | --- | --- |
| `UnitOfWork` | abstract: what a transaction promises | |
| `ScopedTransaction` | scope, finalizers, transaction, pool, crash | |
| `RequestHandlers` | the program of each controller method | |
| `TokenCache` | the two-layer cache of one key, time, lost calls | |
| `PasswordReset` | emails, link checks, resets of one user | `TokenCache` |
| `Accounts` | registration, login, verification, logout and accepted invitations of one address | `TokenCache` |
| `StringMixer` | `encode` and `decode`, step by step | |
| `WorkspaceDirectory` | abstract: who may be a member of a workspace | |
| `TenantTables` | the tables and the requests that work on them | |
| `WorkspaceManager` | creating, updating, deleting, activating workspaces | `TenantTables` |
| `WorkspaceInvitation` | inviting, accepting | `TenantTables` |
| `SpaceManager` | spaces and their members | `TenantTables` |
| `Tenancy` | the three side by side | the three |
| `ContactBook` | creating, updating, deleting contacts | |
| `ContactAttributes` | attributes and their options | `ContactBook` |
| `ContactPages` | walks over the pages of contacts | `ContactAttributes` |
| `ContactService` | the three side by side | `ContactPages` |
| `MessageDelivery` | abstract: what the sender of messages is promised | |
| `JobQueue` | dispatch, attempts, rescue, stalled jobs | |
| `ChannelWebhook` | a webhook in front of the queue | `JobQueue` |
| `RequestPipeline` | one request from the route to its envelope | |
| `MC...` | the instances TLC checks | the module they name |
| `...Proofs` | the theorems | the module they name |

In all of them a request is at one step of its handler, an action is what the
handler does between two awaits, and requests interleave freely. A query on a
connection of its own commits at once, whatever transaction the service asked
for, because a retrieval strategy drops the `query` option (see above).

### ScopedTransaction and RequestHandlers

A request has a `program`, the steps of its controller and services that touch
the transaction, the pool or the scope, in the order of the code. The nine kinds
of step are listed at the head of the module; `RequestHandlers` gives the
program of each controller method. What a step reads or writes is abstracted to
its position in the program: `staged`, `durable` and `autocommitted` hold the
positions of writes made through the transaction, committed with it, and made
on a connection of their own. `free`, `trxConn` and `queryConn` are the pool.

| Action | Code |
| --- | --- |
| `CreateTransaction`, `CreateTransactionFails` | `createTransaction` |
| `Register` | `requireTransaction`; `Effect.addFinalizer` of a side effect |
| `Check` | validation, rules, the cache, reads through the transaction |
| `TransactionWrite`, `TransactionWriteFails` | a write with `{ client: trx }` |
| `AcquireConnection`, `FinishQuery`, `AcquireTimesOut` | a query without it |
| `ExplicitCommit` | `trx.commit()` in a service |
| `TransactionFinalizer` | the finalizer of `requireTransaction` |
| `EffectFinalizer` | a deferred deletion of a token or storage of a logo |
| `Succeed`, `Finish` | the exit of the effect and of the scope |
| `Crash` | the process dies; MySQL rolls back |

Every step that can fail may fail, and an answer may be lost although its write
landed (`FinishQuery`, `ExplicitCommit`). A program is the branch of its method
that reaches furthest; a shorter branch is the program ending at one of its
checks.

### TokenCache, PasswordReset and Accounts

Tokens of two users never meet, because a token is cached under the identifier
of the user it decodes to, so one key and one user are modelled. `memory[p]` is
the memory of process `p`, `redis` the shared layer, `fetched[p]` what `p` read
from redis and has not stored in its memory yet: a deletion can slip in between.
A get is thus allowed to answer before its copy is stored, which is more than
the library does. With `CacheFaults` a call to redis may be lost without the
caller noticing. The clock is bounded by `MaxTime`; `expiry[t]` is set once,
when `t` is generated.

A request is a record: the step it is at, its process, the token it carries,
what it wants, and history fields that say whether its link was expired or
consumed when it arrived. `PasswordReset` has the steps of
`queuePasswordResetEmail` (`LookUpToken`, `GeneratePasswordResetToken`,
`DispatchEmail`) and of `resetPassword` (`VerifyPasswordResetToken`, `ReadUser`,
`SaveUser`, `DeleteToken`). `Accounts` has those of `registerUser`
(`CheckAddress`, `CreateUser`), `authenticateWithCredentials`
(`VerifyCredentials`, `StartSession`), `logout` (`EndSession`), the accepted
invitations that concern the account (`AcceptInvitation`, then `EnrollInvitee` in
mode register or `LogInInvitee` in mode login),
`queueVerificationEmail`, shared by registration and login (`LookUpToken`,
`GenerateToken`, `QueueVerificationEmail`), and `verifyAccount` (`CheckSession`,
`RetrieveTokenDetails`, `ReadUser`, `SaveUser`, `DeleteToken`). `DeleteToken` is
the finalizer on success; `Fail` is any error; `Crash(p)` ends the requests and
the memory of a process. An email counts as sent when its job is dispatched.

### StringMixer

A character is its position in the alphabet, or -1 outside it. The seeded
generator is any stream of draws, the same for `encode` and `decode`: `stream`
records the draws of `encode` and `decode` reads them again. The key is modelled
by its length header, the part `decode` reads. `Mix`, `ShiftNext` and `Encoded`
are the three parts of `encode`, `Unmix` and `Collect` those of `decode`.
`sources` is `sourceMap`; the code's `pointers[i]` is how many of its places
hold `i` (`Pointer`), and its ascending list of `options` is a set of which
`Nth` takes the member with so many below it.

### Tenancy

`TenantTables` holds the tables (`workspaces`, `members`, `default`, `spaces`,
`spaceMembers`), the cached `invites`, the `mails` sent, the `active` workspace
of each session, and a few slots that each serve one request after another.
Deleted rows are there for the unique indexes and invisible to retrievals
(`Live`). A row that an open transaction inserted locks others out (`Locked`).

| Actions | Code |
| --- | --- |
| `CheckAvailability`, `InsertWorkspace`, `AddOwner`, `SetDefaultWorkspace`, `CommitCreation` | `create`: the slug is checked outside the transaction, three writes are staged in it, it commits when the scope closes |
| `FindWorkspace`, `SaveWorkspace`, `CommitUpdate`, `CommitDeletion` | `update`, `remove`: only what the request changed is written |
| `FindActive`, `PutActive` | `setActiveWorkspace` |
| `FindInviter`, `GenerateInvite`, `DispatchInvite` | `queueInvitationEmail`, address by address |
| `CheckInvite`, `FindInvitation`, `FindInvitee`, `RegisterInvitee`, `JoinWorkspace`, `JoinSpace`, `ForgetInvite`, `LogInInvitee` | `acceptInvitation` in the modes `accept`, `login`, `register` |
| `AllowCreation`, `InsertSpace`, `AttachCreator`, `FindSpace`, `UpdateSpace`, `DeleteSpace` | the handlers of spaces |
| `CheckMember`, `AddMember`, `RemoveMember` | the handlers of space members |
| `Fail`, `ExpireInvite` | any error; the end of an invitation's day |

`ForgetInvite` deletes nothing: the code deletes a key that it never wrote.
`LogInInvitee` makes the client's session the invitee's, which keeps the
workspace that was active in it. An invitation is read by its workspace and address, so a newer one answers for an
older one. `WorkspaceDirectory` is the abstract specification: workspaces are
founded with their founder's membership, and others join after an invitation.

### Contacts

`ContactBook` has one row per identifier, which the database hands out when an
insert starts (`CreateContact`), before the row becomes visible
(`InsertContact`). An update remembers the row it read and writes the columns
that differ from it (`Dirty`, `SaveContact`); finding and saving are separate
steps. `ContactAttributes` identifies an attribute by its slug. Its requests
stage (`InsertAttribute`, `MergeAttribute`, `ReplaceOptions`), commit
explicitly (`CommitAttribute`) and read again (`ReadFresh`), and hold the lock
on the row (`LocksRow`) or its options (`LocksOptions`) from the staging to the
commit. `ContactPages` has clients that walk: `BasicPage`
(`basicList`), `NumberPage` and `NextIdPage` (`list`), with filters (`Holds`,
`Matching`, `Refused`), sort rules (`Before`: deleted out, empty texts last) and
the page count (`Pages`). A page is one read of a snapshot. Where the sort rule
leaves ties the page takes any order the rule allows. The walk keeps what was
`present` throughout and whether anything was written (`calm`), which the
properties need.

A filter on a custom attribute is refused by the database, because the joined
tables make `deleted_at` ambiguous; a `next_id` walk ends after its first page,
because the page returns a numeric identifier where the next request must send a
ULID. Both are in the model as they are.

### Queue and webhook

A job counts its failed attempts (`tries`), its stalls, how often its work was
done (`effects`) and how often `rescue` was called. `Take`, `Handle`,
`Complete`, `FailAttempt` and `Rescue` are the steps of a worker; `Handle`
may be followed by a failure or a crash before the job is reported complete, so
the work is repeated. `CrashWorkers` ends all of them (they live in one
process); `RecoverStalled` is BullMQ's check for jobs whose worker is gone.
In `ChannelWebhook` a delivery goes through the messages it read
(`Receive`, `DispatchMessage`, `DispatchFailure`, `Confirm`), may be lost with
its process, and is repeated, up to `MaxSends` times, until the sender hears 200.
It hears that of every answer that reaches it (`Respond`): the handler's 403 and
500 are plain strings, of which the response wrapper makes an envelope of success
with status 200. A delivery that was refused or queued in part is therefore not
repeated unless its answer is lost, and `confirmed` holds only the notifications
that were answered `EVENT_RECEIVED`. The handler reads `entry[0].changes[0]`
alone and confirms all of the notification; `Read` models that. `MessageDelivery`
is the abstract specification: messages are accepted and worked on, a job ends
completed or failed and may then be rescued, and a notification is confirmed when
all its messages were accepted.

### RequestPipeline

One request: `FindRoute`, `ReadBody`, `Authenticate`, the stages of a payload
(`TakeSource`, `ValidatePayload`, `MapPayload`, `DecodePayload`), the handler
(`Describe`, `Return`, `ReturnException`, `AnswerItself`, `FailHandler`),
`ExitRuntime`, the exception handler (`Answer`) and the wrapper (`WrapResponse`,
`WrapFails`). `AnswerItself` is a handler that catches an error, or refuses the
request, and sends content with a status of its own, as the channel controller
does: the wrapper makes a success with status 200 of it, since every request
accepts JSON (`ForceJsonResponseMiddleware`). An error has a kind, a code, a
status and data that its schema decodes or does not. Any stage may raise any
error of `Errors`; the mappings between kinds
(`ToException`, `FromVine`, `InternalServer`, `Exits`) are the code's. `cause`
says how the effect exited: with a failure, a defect, both, an interruption, by
returning an exception as a value, or with an answer of its own. The last two
are no failures to the wrapper, and `FailureReported` leaves them out.

## 3. The runs

| Run | Instance | States | What it shows |
| --- | --- | --- | --- |
| `scope_handlers` | any two of the 35 programs, 3 connections | 555,244 | no connection lost or shared, closing, atomicity, order of effects, refinement of `UnitOfWork` |
| `scope_liveness` | two requests of three programs, 2 connections, fair | | every started request ends; a required transaction closes |
| `reset` | 2 emails, 2 resets, 2 processes, 2 tokens, 2 passwords | 651,599 | an expired link changes nothing, a consumed one only from a stale copy, an unused one is kept |
| `mixer_limits` | 1 to 3 values up to 4 characters, every stream | 104,231 | with lengths of two digits, what decodes is the original; what fits decodes |
| `accounts` | 1 registration, 1 login, 1 accepted invitation, 2 verifications, 2 processes, 2 tokens, lost redis calls | 1,506,609 | one account per address; only an invitation gives an unverified account a session; a late link is refused; the newest one is kept |
| `tenancy` | 2 users, 2 workspaces, 2 slugs, 1 space, 2 tags, 2 slots, 4 requests, 2 invitations | 304,560 | defaults, deletions, refinement of `WorkspaceDirectory` |
| `contacts` | 3 identifiers, 2 columns, 2 writers, 2 editors, 1 walk, 2 requests | 469,506 | complete walks; changes are what was sent; deleted stays deleted |
| `jobs` | 2 jobs, 2 workers, 2 attempts, 1 stall, 1 notification sent twice | 140,911 | confirmed is queued; once for each delivery; refinement of `MessageDelivery`; jobs settle |
| `responses` | every kind of error in every place, both environments | 7,470 | uncaught failures reported, envelopes under their own status, declared exceptions unaltered, internal data hidden |

Three further runs look for a violation of a sentence the repository states:
`rolled_back_on_failure`, `accepted_invitee_joins` and `refusal_reported`;
section 6 has them.

**Bounds.**
- Scope: a request holds at most two connections, so with three both requests
  can wait for the pool while one leaks. An interaction of the scope involves
  one request and what others leave of the pool, and the proofs lift the safety
  properties to any number. The liveness run has as many connections as
  requests, so that both can hold a transaction and wait for each other.
- Tokens: two processes are the least in which a stale copy exists, two tokens
  the least in which one replaces the other, two resets or two
  verifications the least that race, and so are a registration and an
  invitation accepted in mode register. `Lifetime` and `MaxTime` of one let a
  token expire once. `reset` has a redis that loses nothing, because
  `UnusedLinkKept` is a promise only then; `accounts` has one that loses calls.
  The proofs of both hold for any lifetime, clock and cache.
- Mixer: the alphabet has three letters, lengths are written in base 2 (two
  digits carry up to 3) and the key has six characters, room for two values:
  what in the code needs 1296 characters or eight values happens with four
  characters or three values. The proofs hold for any alphabet, base, length of
  the key and list of values.
- Tenancy: two slots interleave any two handlers at every step; four requests
  are enough to create, invite, accept and delete one workspace, or to create
  two with a deletion between them; two invitations let one replace another. A
  session that has an active workspace when `LogInInvitee` changes hands takes a
  fifth request: that case is in the proofs only.
- Contacts: three identifiers with pages of one or two make walks of several
  pages with an insertion or a deletion before, at or after the cursor; two
  requests race on one contact or one attribute. The columns are two of the
  contact's, one of them behind a default attribute.
- Jobs: one notification with two messages in its first change and one in its
  second, sent twice, fills the two jobs in every way, so `DispatchFailure`
  has its cases too: a delivery that fails in its middle and is repeated.
- Pipeline: `Errors` has a member for each distinction the code makes: data
  that decodes or does not, a status inside and outside of the enumeration.

**Deadlock** is checked for `ScopedTransaction` and `StringMixer`, whose ends
are explicit (`AllServed`, `Stop`). It is off for the others: when the requests,
jobs and deliveries the bounds allow have been answered, the bounded system has
nothing left to do.

**Fairness.** `scope_liveness` assumes weak fairness of each started request's
next step: the event loop resumes a request whose promise is settled, and knex
settles a waiting acquisition by its timeout. `jobs` assumes weak fairness of a
worker's next step, since a running worker asks redis for the next job and
settles its promises, and of the recovery of a stalled job, since BullMQ repeats
its check. Nothing makes a request arrive, a sender repeat a notification, a
webhook go on or a process crash. No other run assumes fairness.

**Symmetry** is used for what the models only compare for equality (requests,
connections, processes, tokens, users, slots, writers, editors), in
runs of safety properties alone.

**Mutants.** Operators whose comment says "Mutant of" are not used by the
specifications. Each is the named definition with a plausible slip (a finalizer
that replaces the others, a deletion under a wrong key, a user saved outside the
transaction, a whole row written instead of its dirty columns, an offset counted
from zero, a notification confirmed before its messages are queued); with it
in place the run finds the property that guards against it violated.

## 4. What is proved

For every value of the constants that the assumptions admit:

| Module | Theorems |
| --- | --- |
| `ScopedTransactionProofs` | `TypeCorrect`, `PoolSafety` (no connection handed out twice or lost other than as an open transaction), `NoLeakAfterRequire`, `FailureIsAtomic`, `AcknowledgedWrites` (a success has lost no write), `EffectOrder`, `Refinement` (implements `UnitOfWork`) |
| `PasswordResetProofs` | `TypeCorrect`, `ExpiredNeverWorks`, `ConsumedNeverWorks`, `UnusedLinkSurvives` (if no redis call is lost) |
| `StringMixerProofs` | `DecodesOriginal` (what decode returns is what was encoded), `FittingDecodes` (what the key has room for is decoded) |
| `AccountsProofs` | `TypeCorrect`, `AccountCreatedOnce`, `OnlyInvitedEnterUnverified` (a session of an unverified account is an accepted invitation's), `LateNeverVerifies`, `NewestStays` |
| `TenancyProofs` | `TypeCorrect`, `DefaultsOwned`, `LateRequestsRefused`, `NothingRestored`, `Refinement` (implements `WorkspaceDirectory`) |
| `ContactServiceProofs` | `TypeCorrect`, `BasicWalks`, `NumberWalks` (complete walks), `DeletedForGood`, `OnlyWhatWasSent` |
| `ChannelWebhookProofs` | `TypeCorrect`, `ConfirmedQueued` (what was answered `EVENT_RECEIVED` is queued), `OneJobPerDelivery`, `OutcomesTrue`, `Refinement` (implements `MessageDelivery`) |
| `RequestPipelineProofs` | `TypeCorrect`, `EveryFailureReported`, `DeclaredUnaltered`, `NothingInternalShown` |

**Assumptions.** `ProgramsAssumption`: a program opens its transaction in its
first step if at all, requires, uses or commits one only if it opened it (the
layer type of the code enforces this), commits it by itself at most once, and
writes in it or commits it only after a `requireTransaction`, which is how a
service gets hold of it. `SizesAssumption`: the key has an even number of characters,
no more than the count of the values can name. `LimitsAssumption`: a page has at
least one row.
`ChangesAssumption`: the sender gives every message an identifier of its own,
without which two notifications could share a job. `ErrorsAssumption`: what the
program raises has a status other than 200, and a declared exception one of the
enumeration. `None` is no connection, token, user or row; bounds are natural
numbers. TLC evaluates all of them.

**Scope.** The invariant `IInv` joins four parts. `Typed` adds to the types that
a transaction is open exactly when it holds a connection: without it a commit
would give the pool a connection that is none. `FreshRequest` says that before
its first step a request has no transaction, so that opening one never
overwrites another. `ConnectionsAccountedFor` is inductive with these two.
`ScopeInv`, for each request, says that while the transaction is open the
finalizer of every require passed so far is pending, that performed effects are
newer than pending ones, and that durable writes need a commit or a successful
exit. `WritesInv` says where each write a request has been past is now, which
`AcknowledgedWritesLand` asks only at the end. None of the safety properties is
inductive alone: `RequiredTransactionIsClosed` speaks of requests that are done
and says nothing of the pending finalizers that make it true. For the refinement,
each step either settles no transaction and makes no write visible (a stutter), stages a
write, applies the unit of work (a commit that lands), or discards some.

**Links.** `ArrivedLate`: a request whose link was expired on arrival is at the
check or has failed, and its token stays expired, because `expiry` is set once
and the clock does not go back. `ConsumedIsGone`: redis never holds a consumed
token, because only fresh tokens are written to it. `ArrivedSpent`: a request
whose link was consumed, in a process without a copy of its token, is at the
check or has failed, and its process gets no copy, since it could only fetch one
from redis. `UnusedInRedis` says of every token what `UnusedLinkKept` says of
mailed ones, because the token is in redis before its email is; `ClosersUsed`
says that whoever is about to delete a token has used it. The theorem has the
hypothesis `CacheFaults = FALSE`: when redis may lose a call, the property fails.

**Mixer.** Sources are `Drawn` when every place takes from a value that has a
character left. Its places are then different members of `Cells`, the set of
all characters, so counting decides: `encode` has an option until the last
character, and at the end every value gave all of its own (`DrawnCells`).
`KeyRead`: what `decode` reads is the lengths `encode` wrote, cut off where the
key ends. While what is cut off belongs to empty values (`Agrees`), `decode` has
the same options, hence the same picks from the same draws; otherwise it has
fewer `Cells` than characters and cannot come to an end (`CompleteAgrees`). `IInv`
keeps that an order of the characters exists that the draws and the text come
from, though no variable holds it once `encode` has ended. With it, undoing the
shift at the places of a value, in ascending order, gives the value.

**Accounts.** `IInv` says of each request what its step implies of the tables
(`Sound`: past the check of the credentials by a login, or of a saved user, the
account is verified; past the check of an invitee's password it exists; a late
request is still at its checks and its token expired), that mailed tokens were
generated (`LinksIssued`), that at most one request, a registration or an
accepted invitation, created the account, which nobody has a session of before,
and whose sessions are the invited clients' until it is verified (`Owned`), and
that the newest token is in redis while it counts (`NewestCached`). It is kept
because clock, expiries and accounts only grow (`Grows`).

**Tenancy.** `IInv` joins the types, `Sound` of every request (the workspace it
found was live when it found it, so a request about a deleted one is still at
its retrieval, and one past the check of an invitation was invited),
`Exclusive` (two open transactions never hold one row), `Unborn` (a row that is
being created is not there yet), `Referred` (what a mail or a session names
exists) and `DefaultIsOwn`. Rows are never taken away, so a step of
one request keeps `Sound` of the others. For the refinement, the commit of a
creation founds, the dispatch of an invitation invites, `JoinWorkspace` joins,
and the rest stutters.

**Contacts.** `BookInv`: the identifiers handed out are an initial segment
(`IdsInOrder`), and a writer past its retrieval works on a contact that exists.
`AttributesInv`: an editor that creates holds a slug without a row, which its
lock keeps free (`LocksExclude`). The two action properties follow for each
step. `WalksInv`: a walk along the cursor has shown, up to the cursor, every
contact that was there all along (`BasicSound`), which a page keeps because a new
contact has a greater id than any before it; a numbered walk nobody disturbed has
shown the rows before its page of the one order there is (`NumberSound`), which
rests on `OneOrder`: a sort that decides admits one sequence of the rows.

**Queue and webhook.** `QueueInv` pays for every effect of a job with a failed
attempt, a stall or the attempt under way (`JobSound`), which needs that no two
workers hold one job (`Apart`). `DeliverySound`: what a delivery no longer holds
is queued, and what it still holds was queued in fewer deliveries than there
were. Both are kept because a job never changes what it is about. For the
refinement, a dispatch that arrives accepts a message, `Handle` performs,
`Complete` completes, a last attempt or one stall too many gives up, a rescue
that decodes rescues, `Confirm` confirms, and the rest (taking a job,
trying it again, deliveries, crashes) stutters. That a job has work left to do
when it is handled, and was not rescued when it is given up, is in `JobSound`.

**Pipeline.** `IInv` says what the error under way can be at each place:
`Reported` (an error that was raised is still answered as one), `Unaltered` (a
declared exception is what will be sent) and `Hidden`. The lemma
`ConversionKeeps` carries it through the conversions: none makes status 200, a
declared exception passes unchanged, and production takes no internal data along.

**Induction over sequences.** No theorem of the library on induction can be
used, since they take an operator as a parameter. Where an argument runs along a
sequence, the proofs take the least place at which the claim fails (lemma
`Least`, from the well-foundedness of `<`), or count: an injection between sets
of the same cardinality is a bijection.

**Only model-checked.** The liveness properties (`RequestsFinish`,
`RequiredTransactionCloses`, `JobsSettle`), because they rest on fairness. Every
invariant and action property of a passing run is also proved.

## 5. Not modelled

- Pure reads whose result nothing here uses: lists and details of workspaces,
  spaces, members and attributes, `retrieveInvitationDetails`, the details of
  one contact, and the enrichment of a page of contacts with attribute values.
- Adding several members to a workspace (no handler calls it), `savepoint`, and
  `contact_service_new.ts`, a copy that nothing imports.
- `active_workspace_middleware.ts`: it reads the key `active_workspace`, which
  nothing writes, and no route uses it.
- The files of logos: only the moment of their storage is.
- Verification of the webhook, the OAuth callback and the sending of WhatsApp
  messages: calls to a service with no state of the gateway's.
- Field selection of retrievals, the fields of payloads, validation messages,
  telemetry, `report` of the exception handler, hashing, the text of emails, and
  the cache, queue, database and HTTP libraries beyond how the code uses them.
- Several attribute values per contact, and two workspaces' contacts at a time:
  every query is restricted to one workspace.

## 6. Where the code and its documentation differ

Each of these is a run that finds a violation of a sentence of the repository.

- `rolled_back_on_failure`: a request that fails between `createTransaction` and
  `requireTransaction` (an invalid payload is enough) never rolls back: its
  connection stays taken. The doc of `rollback` says it is automatic.
- `accepted_invitee_joins`: accepting while logged in attaches the sender of the
  invitation to the space instead of the user who accepted. It also fails, after
  the workspace's membership was written, when the sender is in the space.
- `refusal_reported`: `SpaceController.create` returns its
  `ForbiddenActionException` instead of failing with it; the answer is a success.

The models also show these, for which no run is kept:

- A commit that fails in the finalizer is ignored and the request answers
  success (`database_service.ts:47`; line 91 says success commits).
- After `requireTransaction`, rows retrieved by a strategy or created without a
  client are written outside the transaction (`contact_service.ts:40`;
  `database_service.ts:126`).
- Two requests that read the cached token before either finishes both reset the
  password with it, and two concurrent resets to the same password both pass the
  comparison with the previous one (`authentication_service.ts:299`, `:431`). A
  second email carries the same token and states the full duration (`:380`).
- More than seven values, or one of 1296 characters, encode without an error
  into a key that cannot decode them (`string_mixer_service.ts:98`). Cut-off
  lengths make `decode` fail. A length of three digits moves those behind it, and
  then it can also answer with other strings: lengths 1296, 35, 35 and 35 are
  read as 36, 0, 1260 and 1260.
- Two concurrent updates of one contact mix their columns; one of two concurrent
  creations overwrites the default workspace of the other.
- An invitation accepted in mode `login` starts a session after a check of the
  password alone, where a login refuses an account that is not verified
  (`workspace_controller.ts:194`, `workspace_invitation_service.ts:424`). In mode
  `login` it deletes no invitation either.
- What a handler sends with a status of its own is wrapped as a success with
  status 200 (`response_wrapper_middleware.ts:74`), although a comment has the
  wrapper wrap JSON content only (`:22`). A delivery of the webhook that was
  refused (`channel_controller.ts:24`) or queued in part (`:64`) is answered 200
  so, and a sender that repeats until it hears 200 does not repeat it.
- A notification is confirmed whole though one change is read, a repeated
  delivery queues its messages again, a retried job repeats its work, and a
  `rescue` cut off by a crash is not made up for.
- A failure of the wrapper to encode its own envelope is answered by the
  exception handler and not wrapped; a defect in a finalizer replaces a declared
  exception.
