--------------------------- MODULE PasswordReset ---------------------------
(***************************************************************************)
(* The password reset of one user: the requests that ask for a reset       *)
(* email, the link checks and the resets, interleaved on the processes of  *)
(* the gateway (AuthenticationService of the iam module), over the cache   *)
(* that holds the token and the user row that holds the password.          *)
(*                                                                         *)
(* A token is cached under the identifier it decodes to, so the requests   *)
(* of two users never meet and one user is enough.                         *)
(***************************************************************************)
EXTENDS TokenCache

CONSTANTS
  Forgots,     \* the requests for a password reset email
  Resets,      \* the requests that reset the password
  Passwords    \* the passwords there are to choose

VARIABLES
  password,   \* the user's password
  mails,      \* the tokens of the links that were emailed
  req,        \* req[r]: where request r is
  used,       \* used[t]: how many times token t changed the password
  consumed    \* the tokens whose deletion from redis was carried out

vars == <<cacheVars, password, mails, req, used, consumed>>

Requests == Forgots \cup Resets

\* pc: the step of the service the request is at; proc: the process it runs
\* in; token: the link it carries or the token it is to send; new: the
\* password it sets; spent: the link was already consumed when it arrived and
\* its process had no copy of it; late: the token had expired when it arrived.
Idle == [pc |-> "idle", proc |-> None, token |-> None, new |-> None,
         spent |-> FALSE, late |-> FALSE]

Steps ==
  {"idle", "lookup", "generate", "dispatch", "check", "read", "save", "close",
   "succeeded", "failed"}

RequestState ==
  [pc : Steps, proc : Processes \cup {None}, token : Tokens \cup {None},
   new : Passwords \cup {None}, spent : BOOLEAN, late : BOOLEAN]

TypeOK ==
  /\ CacheTypeOK
  /\ password \in Passwords
  /\ mails \subseteq Tokens
  /\ req \in [Requests -> RequestState]
  /\ used \in [Tokens -> Nat]
  /\ consumed \subseteq Tokens

Init ==
  /\ CacheInit
  /\ password \in Passwords
  /\ mails = {}
  /\ req = [r \in Requests |-> Idle]
  /\ used = [t \in Tokens |-> 0]
  /\ consumed = {}

---------------------------------------------------------------------------
At(r, step) == req[r].pc = step

Goto(r, step) == req' = [req EXCEPT ![r].pc = step]

\* Mutant of Fail: the finalizer deletes the token whatever the exit.
FailDeletingToken(r) ==
  /\ req[r].pc \notin {"idle", "close", "succeeded", "failed"}
  /\ Goto(r, "failed")
  /\ IF req[r].pc \in {"read", "save"} THEN Delete(req[r].proc) ELSE UNCHANGED cacheVars
  /\ UNCHANGED <<password, mails, used, consumed>>

\* Any step of a request can fail: a lost query, a cache or queue error. The
\* finalizer that deletes the token does nothing on failure.
Fail(r) ==
  /\ req[r].pc \notin {"idle", "close", "succeeded", "failed"}
  /\ Goto(r, "failed")
  /\ UNCHANGED <<cacheVars, password, mails, used, consumed>>

---------------------------------------------------------------------------
(* Asking for the email                                                    *)

SendPasswordResetEmail(f) ==
  /\ At(f, "idle")
  /\ \E p \in Processes :
       req' = [req EXCEPT ![f].pc = "lookup", ![f].proc = p]
  /\ UNCHANGED <<cacheVars, password, mails, used, consumed>>

\* Mutant of LookUpToken: a cache miss is taken for a cached token.
LookUpTokenUnchecked(f) ==
  /\ At(f, "lookup")
  /\ \E t \in Tokens \cup {None} :
       /\ Get(req[f].proc, t)
       /\ req' = [req EXCEPT ![f].pc = "dispatch", ![f].token = t]
  /\ UNCHANGED <<password, mails, used, consumed>>

\* A cached token is sent again as it is, with the lifetime it has left.
LookUpToken(f) ==
  /\ At(f, "lookup")
  /\ \E t \in Tokens \cup {None} :
       /\ Get(req[f].proc, t)
       /\ req' = [req EXCEPT ![f].pc = IF t = None THEN "generate" ELSE "dispatch",
                             ![f].token = t]
  /\ UNCHANGED <<password, mails, used, consumed>>

GeneratePasswordResetToken(f) ==
  /\ At(f, "generate")
  /\ \E t \in Tokens :
       /\ SetFresh(req[f].proc, t)
       /\ req' = [req EXCEPT ![f].pc = "dispatch", ![f].token = t]
  /\ UNCHANGED <<password, mails, used, consumed>>

\* The job states the whole duration, whatever the token's age.
DispatchEmail(f) ==
  /\ At(f, "dispatch")
  /\ mails' = mails \cup {req[f].token}
  /\ Goto(f, "succeeded")
  /\ UNCHANGED <<cacheVars, password, used, consumed>>

---------------------------------------------------------------------------
(* Following a link                                                        *)

\* The page behind the link checks it without consuming it: a read of the
\* cache, which leaves a copy in that process's memory.
VerifyLink ==
  /\ mails # {}
  /\ Peek
  /\ UNCHANGED <<password, mails, req, used, consumed>>

ResetPassword(r) ==
  /\ At(r, "idle")
  /\ \E m \in mails, p \in Processes, new \in Passwords :
       req' = [req EXCEPT ![r] =
         [pc |-> "check", proc |-> p, token |-> m, new |-> new,
          spent |-> m \in consumed /\ ~Holds(p, m), late |-> ~Valid(m)]]
  /\ UNCHANGED <<cacheVars, password, mails, used, consumed>>

\* Mutant of VerifyPasswordResetToken: a cache miss is let through.
VerifyUnlessOther(r) ==
  /\ At(r, "check")
  /\ \E t \in Tokens \cup {None} :
       /\ Get(req[r].proc, t)
       /\ Goto(r, IF t \in {None, req[r].token} THEN "read" ELSE "failed")
  /\ UNCHANGED <<password, mails, used, consumed>>

\* The cached token must be the one the link carries; its deletion is left
\* to the finalizer.
VerifyPasswordResetToken(r) ==
  /\ At(r, "check")
  /\ \E t \in Tokens \cup {None} :
       /\ Get(req[r].proc, t)
       /\ Goto(r, IF t = req[r].token THEN "read" ELSE "failed")
  /\ UNCHANGED <<password, mails, used, consumed>>

\* The user is read and the new password compared with the one just read.
ReadUser(r) ==
  /\ At(r, "read")
  /\ Goto(r, IF req[r].new = password THEN "failed" ELSE "save")
  /\ UNCHANGED <<cacheVars, password, mails, used, consumed>>

\* The save commits by itself; its answer may be lost although it landed.
SaveUser(r) ==
  /\ At(r, "save")
  /\ password' = req[r].new
  /\ used' = [used EXCEPT ![req[r].token] = @ + 1]
  /\ Goto(r, "close") \/ Goto(r, "failed")
  /\ UNCHANGED <<cacheVars, mails, consumed>>

\* Mutant of DeleteToken: a key that nothing is cached under is deleted.
DeleteNothing(r) ==
  /\ At(r, "close")
  /\ consumed' = consumed \cup {req[r].token}
  /\ Goto(r, "succeeded")
  /\ UNCHANGED <<cacheVars, password, mails, used>>

\* The finalizer deletes whatever is cached under the user's identifier.
DeleteToken(r) ==
  /\ At(r, "close")
  /\ Delete(req[r].proc)
  /\ consumed' = IF redis' = None THEN consumed \cup {req[r].token} ELSE consumed
  /\ Goto(r, "succeeded")
  /\ UNCHANGED <<password, mails, used>>

---------------------------------------------------------------------------
Tick ==
  /\ Elapse
  /\ UNCHANGED <<password, mails, req, used, consumed>>

KeepCopy(p) ==
  /\ Keep(p)
  /\ UNCHANGED <<password, mails, req, used, consumed>>

\* A process dies with its memory and the requests it was running.
InFlight(p) ==
  {r \in Requests : req[r].proc = p /\ req[r].pc \notin {"succeeded", "failed"}}

Crash(p) ==
  /\ InFlight(p) # {} \/ memory[p] # None \/ fetched[p] # {}
  /\ Forget(p)
  /\ req' = [r \in Requests |->
               IF r \in InFlight(p) THEN [req[r] EXCEPT !.pc = "failed"] ELSE req[r]]
  /\ UNCHANGED <<password, mails, used, consumed>>

Next ==
  \/ \E f \in Forgots :
       \/ SendPasswordResetEmail(f) \/ LookUpToken(f)
       \/ GeneratePasswordResetToken(f) \/ DispatchEmail(f)
  \/ \E r \in Resets :
       \/ ResetPassword(r) \/ VerifyPasswordResetToken(r) \/ ReadUser(r)
       \/ SaveUser(r) \/ DeleteToken(r)
  \/ \E r \in Requests : Fail(r)
  \/ VerifyLink
  \/ Tick
  \/ \E p \in Processes : KeepCopy(p) \/ Crash(p)

Spec == Init /\ [][Next]_vars

---------------------------------------------------------------------------
(* Properties                                                              *)

\* A reset that arrives after its token expired never changes the password,
\* whichever process it lands on and whatever that process remembers.
ExpiredLinkRefused ==
  \A r \in Resets : req[r].pc \in {"read", "save", "close", "succeeded"} => ~req[r].late

\* A consumed link that arrives in a process with no copy of its token never
\* changes the password (verifyPasswordResetToken with once = true): a stale
\* copy is the only way it can, and copies of it no longer spread.
ConsumedLinkRefused ==
  \A r \in Resets : req[r].pc \in {"read", "save", "close", "succeeded"} => ~req[r].spent

\* A link that changed nothing yet and has not expired still works, as long
\* as it is the only one that was generated: neither a failed reset, a link
\* check, a repeated email nor a crash spends it.
UnusedLinkKept ==
  \A m \in mails :
    /\ Valid(m) /\ used[m] = 0
    /\ \A t \in Tokens : Issued(t) => t = m
    => redis = m
===========================================================================
