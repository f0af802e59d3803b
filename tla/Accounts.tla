------------------------------ MODULE Accounts ------------------------------
(***************************************************************************)
(* The account behind one email address: registration, login, account      *)
(* verification and logout (the iam module) and the accepted invitations   *)
(* of the address (the workspace module), interleaved on the processes of  *)
(* the gateway, over the cache that holds the verification token, the user *)
(* row and the sessions.                                                   *)
(*                                                                         *)
(* An invitation is accepted from a client that is logged in as somebody.  *)
(* In mode login it checks the password only and makes that client's       *)
(* session the invitee's, whether or not the account is verified; in mode  *)
(* register it creates a verified account and starts no session. What it   *)
(* does to the workspaces is in WorkspaceInvitation.                       *)
(*                                                                         *)
(* Registration and a login to an unverified account share the step that   *)
(* queues the verification email: it sends the cached token again, or      *)
(* generates one. Every query commits by itself: the verification asks     *)
(* for a transaction, but the user it saves was retrieved outside it.      *)
(***************************************************************************)
EXTENDS TokenCache, FiniteSets

CONSTANTS
  Registers,   \* the requests that register the address
  Logins,      \* the requests that log in, each from a client of its own
  Accepts,     \* the requests that accept an invitation of the address,
               \* each from a client of its own
  Verifies     \* the requests that follow a verification link

VARIABLES
  account,     \* the user row: "absent", "unverified" or "verified"
  mails,       \* the tokens whose email was queued
  req,         \* req[r]: where request r is
  sessions,    \* the clients that have a session of the account
  created,     \* the requests that created a user row
  newest,      \* the token generated last
  lost         \* the tokens that redis never received

vars == <<cacheVars, account, mails, req, sessions, created, newest, lost>>

Senders == Registers \cup Logins

Clients == Logins \cup Accepts

Requests == Senders \cup Accepts \cup Verifies

\* pc: the step of the service the request is at; proc: the process it runs
\* in; token: the link it carries or the token it is to send; known: the
\* client has a session; late: the token had expired when the link arrived.
Idle == [pc |-> "idle", proc |-> None, token |-> None, known |-> FALSE, late |-> FALSE]

Steps ==
  {"idle", "address", "create", "credentials", "login", "lookup", "generate",
   "dispatch", "enroll", "enter", "session", "check", "read", "save", "close",
   "revoke", "out", "succeeded", "failed"}

Settled == {"succeeded", "failed", "out"}

RequestState ==
  [pc : Steps, proc : Processes \cup {None}, token : Tokens \cup {None},
   known : BOOLEAN, late : BOOLEAN]

TypeOK ==
  /\ CacheTypeOK
  /\ account \in {"absent", "unverified", "verified"}
  /\ mails \subseteq Tokens
  /\ req \in [Requests -> RequestState]
  /\ sessions \subseteq Clients
  /\ created \subseteq Registers \cup Accepts
  /\ newest \in Tokens \cup {None}
  /\ lost \subseteq Tokens

Init ==
  /\ CacheInit
  /\ account = "absent"
  /\ mails = {}
  /\ req = [r \in Requests |-> Idle]
  /\ sessions = {}
  /\ created = {}
  /\ newest = None
  /\ lost = {}

---------------------------------------------------------------------------
At(r, step) == req[r].pc = step

Goto(r, step) == req' = [req EXCEPT ![r].pc = step]

\* A request that is answered forgets where it ran and what it carried.
Answered(state, how) == [Idle EXCEPT !.pc = how, !.late = how = "succeeded" /\ state.late]

Answer(r, how) == req' = [req EXCEPT ![r] = Answered(@, how)]

Arrive(r, step) ==
  /\ At(r, "idle")
  /\ \E p \in Processes : req' = [req EXCEPT ![r].pc = step, ![r].proc = p]

tokens == <<mails, newest, lost>>
people == <<account, sessions, created>>

\* Mutant of Fail: the finalizer deletes the token whatever the exit.
FailDeletingToken(r) ==
  /\ req[r].pc \notin Settled \cup {"idle", "close"}
  /\ Answer(r, "failed")
  /\ IF req[r].pc \in {"read", "save"} THEN Delete(req[r].proc) ELSE UNCHANGED cacheVars
  /\ UNCHANGED <<tokens, people>>

\* Any step of a request can fail: a lost query, a cache or queue error,
\* credentials or a payload that are refused.
Fail(r) ==
  /\ req[r].pc \notin Settled \cup {"idle", "close"}
  /\ Answer(r, "failed")
  /\ UNCHANGED <<cacheVars, tokens, people>>

---------------------------------------------------------------------------
(* Registration                                                            *)

RegisterUser(g) ==
  /\ Arrive(g, "address")
  /\ UNCHANGED <<cacheVars, tokens, people>>

CheckAddress(g) ==
  /\ At(g, "address")
  /\ IF account = "absent" THEN Goto(g, "create") ELSE Answer(g, "failed")
  /\ UNCHANGED <<cacheVars, tokens, people>>

\* Mutant of CreateUser: the address has no unique index.
CreateUserTwice(g) ==
  /\ At(g, "create")
  /\ account' = "unverified"
  /\ created' = created \cup {g}
  /\ Goto(g, "lookup") \/ Answer(g, "failed")
  /\ UNCHANGED <<cacheVars, tokens, sessions>>

\* The row commits by itself, its answer may be lost. The unique index on the
\* address refuses a second one.
CreateUser(g) ==
  /\ At(g, "create")
  /\ account = "absent"
  /\ account' = "unverified"
  /\ created' = created \cup {g}
  /\ Goto(g, "lookup") \/ Answer(g, "failed")
  /\ UNCHANGED <<cacheVars, tokens, sessions>>

---------------------------------------------------------------------------
(* Login and logout                                                        *)

AuthenticateWithCredentials(l) ==
  /\ Arrive(l, "credentials")
  /\ UNCHANGED <<cacheVars, tokens, people>>

\* Mutant of VerifyCredentials: the account need not be verified.
VerifyPasswordOnly(l) ==
  /\ At(l, "credentials")
  /\ IF account = "absent" THEN Answer(l, "failed") ELSE Goto(l, "login")
  /\ UNCHANGED <<cacheVars, tokens, people>>

\* Credentials that match; the ones that do not fail. An account that is not
\* verified is sent the verification email first.
VerifyCredentials(l) ==
  /\ At(l, "credentials")
  /\ \/ account = "absent" /\ Answer(l, "failed")
     \/ account = "unverified" /\ Goto(l, "lookup")
     \/ account = "verified" /\ Goto(l, "login")
  /\ UNCHANGED <<cacheVars, tokens, people>>

StartSession(l) ==
  /\ At(l, "login")
  /\ sessions' = sessions \cup {l}
  /\ Answer(l, "succeeded")
  /\ UNCHANGED <<cacheVars, tokens, account, created>>

\* A later request of the same client. It revokes the access token first; a
\* failure there leaves the session.
Logout(c) ==
  /\ At(c, "succeeded") /\ c \in sessions
  /\ \E p \in Processes : req' = [req EXCEPT ![c].pc = "revoke", ![c].proc = p]
  /\ UNCHANGED <<cacheVars, tokens, people>>

EndSession(c) ==
  /\ At(c, "revoke")
  /\ sessions' = sessions \ {c}
  /\ Answer(c, "out")
  /\ UNCHANGED <<cacheVars, tokens, account, created>>

---------------------------------------------------------------------------
(* Accepting an invitation                                                 *)

\* Nothing before it reads the invitee's row matters here. Mode login needs the
\* account and its password, mode register needs the address to be free; the
\* mode that does not fit, and a wrong password, fail.
AcceptInvitation(a) ==
  /\ Arrive(a, IF account = "absent" THEN "enroll" ELSE "enter")
  /\ UNCHANGED <<cacheVars, tokens, people>>

\* The row commits by itself, verified from the start, and what follows it may
\* fail. The unique index refuses a second row.
EnrollInvitee(a) ==
  /\ At(a, "enroll")
  /\ account = "absent"
  /\ account' = "verified"
  /\ created' = created \cup {a}
  /\ Answer(a, "succeeded") \/ Answer(a, "failed")
  /\ UNCHANGED <<cacheVars, tokens, sessions>>

LogInInvitee(a) ==
  /\ At(a, "enter")
  /\ sessions' = sessions \cup {a}
  /\ Answer(a, "succeeded")
  /\ UNCHANGED <<cacheVars, tokens, account, created>>

---------------------------------------------------------------------------
(* The verification email                                                  *)

\* Mutant of LookUpToken: a token that was not found is sent as it is.
LookUpTokenUnchecked(r) ==
  /\ At(r, "lookup")
  /\ \E t \in Tokens \cup {None} :
       /\ Get(req[r].proc, t)
       /\ req' = [req EXCEPT ![r].pc = "dispatch", ![r].token = t]
  /\ UNCHANGED <<tokens, people>>

LookUpToken(r) ==
  /\ At(r, "lookup")
  /\ \E t \in Tokens \cup {None} :
       /\ Get(req[r].proc, t)
       /\ req' = [req EXCEPT ![r].pc = IF t = None THEN "generate" ELSE "dispatch",
                             ![r].token = t]
  /\ UNCHANGED <<tokens, people>>

GenerateToken(r) ==
  /\ At(r, "generate")
  /\ \E t \in Tokens :
       /\ SetFresh(req[r].proc, t)
       /\ newest' = t
       /\ lost' = IF redis' = t THEN lost ELSE lost \cup {t}
       /\ req' = [req EXCEPT ![r].pc = "dispatch", ![r].token = t]
  /\ UNCHANGED <<mails, people>>

\* A registration succeeds; a login ends in the refusal that names the email.
QueueVerificationEmail(r) ==
  /\ At(r, "dispatch")
  /\ mails' = mails \cup {req[r].token}
  /\ Answer(r, IF r \in Registers THEN "succeeded" ELSE "failed")
  /\ UNCHANGED <<cacheVars, newest, lost, people>>

---------------------------------------------------------------------------
(* Following a link                                                        *)

VerifyAccount(v) ==
  /\ At(v, "idle")
  /\ \E t \in mails, p \in Processes, known \in BOOLEAN :
       /\ known => sessions # {}
       /\ req' = [req EXCEPT ![v] = [pc |-> "session", proc |-> p, token |-> t,
                                     known |-> known, late |-> ~Valid(t)]]
  /\ UNCHANGED <<cacheVars, tokens, people>>

\* Only a client with a session is told that the account is verified already;
\* nothing after that asks for the session.
CheckSession(v) ==
  /\ At(v, "session")
  /\ IF req[v].known /\ account = "verified" THEN Answer(v, "failed")
     ELSE req' = [req EXCEPT ![v].pc = "check", ![v].known = FALSE]
  /\ UNCHANGED <<cacheVars, tokens, people>>

\* Mutant of RetrieveTokenDetails: a token that is cached no more is let through.
RetrieveUnlessOther(v) ==
  /\ At(v, "check")
  /\ \E t \in Tokens \cup {None} :
       /\ Get(req[v].proc, t)
       /\ IF t \in {None, req[v].token} THEN Goto(v, "read") ELSE Answer(v, "failed")
  /\ UNCHANGED <<tokens, people>>

RetrieveTokenDetails(v) ==
  /\ At(v, "check")
  /\ \E t \in Tokens \cup {None} :
       /\ Get(req[v].proc, t)
       /\ IF t = req[v].token THEN Goto(v, "read") ELSE Answer(v, "failed")
  /\ UNCHANGED <<tokens, people>>

ReadUser(v) ==
  /\ At(v, "read")
  /\ Goto(v, "save")
  /\ UNCHANGED <<cacheVars, tokens, people>>

SaveUser(v) ==
  /\ At(v, "save")
  /\ account' = "verified"
  /\ Goto(v, "close") \/ Answer(v, "failed")
  /\ UNCHANGED <<cacheVars, tokens, sessions, created>>

\* The finalizer deletes whatever is cached under the user's identifier.
DeleteToken(v) ==
  /\ At(v, "close")
  /\ Delete(req[v].proc)
  /\ Answer(v, "succeeded")
  /\ UNCHANGED <<tokens, people>>

---------------------------------------------------------------------------
Tick ==
  /\ Elapse
  /\ UNCHANGED <<req, tokens, people>>

KeepCopy(p) ==
  /\ Keep(p)
  /\ UNCHANGED <<req, tokens, people>>

\* A process dies with its memory and the requests it was running.
InFlight(p) == {r \in Requests : req[r].proc = p /\ req[r].pc \notin Settled}

Crash(p) ==
  /\ InFlight(p) # {} \/ memory[p] # None \/ fetched[p] # {}
  /\ Forget(p)
  /\ req' = [r \in Requests |->
               IF r \in InFlight(p) THEN Answered(req[r], "failed") ELSE req[r]]
  /\ UNCHANGED <<tokens, people>>

Next ==
  \/ \E g \in Registers : RegisterUser(g) \/ CheckAddress(g) \/ CreateUser(g)
  \/ \E l \in Logins : AuthenticateWithCredentials(l) \/ VerifyCredentials(l) \/ StartSession(l)
  \/ \E a \in Accepts :
       AcceptInvitation(a) \/ EnrollInvitee(a) \/ LogInInvitee(a)
  \/ \E c \in Clients : Logout(c) \/ EndSession(c)
  \/ \E r \in Senders : LookUpToken(r) \/ GenerateToken(r) \/ QueueVerificationEmail(r)
  \/ \E v \in Verifies :
       \/ VerifyAccount(v) \/ CheckSession(v) \/ RetrieveTokenDetails(v)
       \/ ReadUser(v) \/ SaveUser(v) \/ DeleteToken(v)
  \/ \E r \in Requests : Fail(r)
  \/ Tick
  \/ \E p \in Processes : KeepCopy(p) \/ Crash(p)

Spec == Init /\ [][Next]_vars

---------------------------------------------------------------------------
(* Properties                                                              *)

\* Registrations and invited registrations that all found the address free
\* never create two accounts (registerUser and acceptInvitation check and
\* create in two queries).
OneAccountPerAddress == Cardinality(created) <= 1

\* A client that logged in with its password has a session only of a verified
\* account, whenever the account was read and whatever other requests did
\* since (authenticateWithCredentials). A session of an account that is not
\* verified is always one of a client that accepted an invitation
\* (WorkspaceController.acceptInvite); no session is of an absent account.
UnverifiedOnlyInvited ==
  sessions # {} =>
    /\ account # "absent"
    /\ account = "unverified" => sessions \subseteq Accepts

\* A link that arrives after its token expired never verifies the account,
\* whichever process it lands on and whatever that process remembers.
LateLinkRefused ==
  \A v \in Verifies : req[v].pc \in {"read", "save", "close", "succeeded"} => ~req[v].late

\* Until the account is verified, the link of the token generated last stays
\* usable for as long as it is valid: no failed verification, repeated email,
\* concurrent generation or crash takes it away. Only a redis that never
\* received it does.
NewestLinkKept ==
  account = "unverified" /\ Valid(newest) /\ newest \notin lost => redis = newest
===========================================================================
