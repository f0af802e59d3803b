--------------------------- MODULE AccountsProofs ---------------------------
(***************************************************************************)
(* Proofs about Accounts, for any number of requests, processes and tokens *)
(* and any lifetime.                                                       *)
(*                                                                         *)
(* Everything a request carries is in Sound: where it may be with a token  *)
(* that was late when it arrived, that a login past the credentials or a   *)
(* verification past the save has seen the account verified, and that an   *)
(* invited login has seen an account. That stays true while other requests *)
(* run because of Grows: an issued token keeps its expiry, the clock never *)
(* goes back, an account stays and a verified one stays verified.          *)
(***************************************************************************)
EXTENDS Accounts, FiniteSetTheorems, TLAPS

---------------------------------------------------------------------------
(* The calls of the token cache                                            *)

\* A get answers a token only while its entry has not expired, and changes
\* nothing but what its process has fetched from redis.
LEMMA GetAnswersValid ==
  ASSUME CacheTypeOK, NEW p \in Processes, NEW t \in Tokens \cup {None}, Get(p, t)
  PROVE  /\ t # None => Valid(t) /\ Issued(t)
         /\ t # None => t = memory[p] \/ t = redis
         /\ fetched' \in {fetched, [fetched EXCEPT ![p] = @ \cup {redis}]}
         /\ UNCHANGED <<now, expiry, memory, redis>>
         /\ CacheTypeOK'
<1>1. t # None => Valid(t)
  BY DEF Get, Readable
<1>2. t # None => Issued(t)
  BY <1>1, TokensAssumption DEF Valid, Issued, CacheTypeOK
<1>3. t # None => t = memory[p] \/ t = redis
  BY DEF Get, Readable
<1>4. /\ fetched' \in {fetched, [fetched EXCEPT ![p] = @ \cup {redis}]}
      /\ UNCHANGED <<now, expiry, memory, redis>>
  BY <1>3 DEF Get
<1>5. CacheTypeOK'
  BY <1>4 DEF Get, CacheTypeOK
<1> QED
  BY <1>1, <1>2, <1>3, <1>4, <1>5

\* Setting a fresh token issues it and leaves the expiry of the others alone.
LEMMA SetFreshIssues ==
  ASSUME CacheTypeOK, NEW p \in Processes, NEW t \in Tokens, SetFresh(p, t)
  PROVE  /\ ~Issued(t)
         /\ expiry' = [expiry EXCEPT ![t] = now + Lifetime]
         /\ now' = now
         /\ Issued(t)'
         /\ memory' = [memory EXCEPT ![p] = t]
         /\ redis' \in {t, redis}
         /\ fetched' = fetched
         /\ CacheTypeOK'
<1>1. /\ ~Issued(t)
      /\ expiry' = [expiry EXCEPT ![t] = now + Lifetime]
      /\ now' = now
      /\ memory' = [memory EXCEPT ![p] = t]
      /\ redis' \in {t, redis}
      /\ fetched' = fetched
  BY DEF SetFresh, Put
<1>2. now + Lifetime \in Nat \ {0}
  BY LifetimeAssumption DEF CacheTypeOK
<1>3. Issued(t)'
  BY <1>1, <1>2 DEF Issued, CacheTypeOK
<1>4. CacheTypeOK'
  BY <1>1, <1>2 DEF CacheTypeOK
<1> QED
  BY <1>1, <1>3, <1>4

\* A delete empties the memory it was made through and, unless the call is
\* lost, redis.
LEMMA DeleteClears ==
  ASSUME CacheTypeOK, NEW p \in Processes, Delete(p)
  PROVE  /\ memory' = [memory EXCEPT ![p] = None]
         /\ redis' \in {None, redis}
         /\ UNCHANGED <<now, expiry, fetched>>
         /\ CacheTypeOK'
BY DEF Delete, Put, CacheTypeOK

---------------------------------------------------------------------------

Sound(q) ==
  /\ q \in RequestState
  /\ q.pc \notin Settled \cup {"idle"} => q.proc \in Processes
  /\ q.pc \in {"session", "check", "read", "save", "close"} => q.token \in Tokens
  /\ q.pc = "dispatch" => q.token \in Tokens /\ Issued(q.token)
  /\ q.late => /\ q.pc \in {"session", "check"}
               /\ Issued(q.token) /\ expiry[q.token] <= now
  /\ q.pc \in {"login", "close"} => account = "verified"
  /\ q.pc = "enter" => account # "absent"

Typed == TypeOK /\ \A r \in Requests : Sound(req[r])

LinksIssued == \A t \in mails : Issued(t)

Owned ==
  /\ IsFiniteSet(created) /\ Cardinality(created) <= 1
  /\ account = "absent" => created = {} /\ sessions = {}
  /\ account = "unverified" => sessions \subseteq Accepts

\* As long as nobody followed a link, redis has what was generated last.
NewestCached ==
  account # "verified" /\ Valid(newest) /\ newest \notin lost => redis = newest

IInv == Typed /\ LinksIssued /\ Owned /\ NewestCached

Grows ==
  /\ now <= now'
  /\ \A t \in Tokens : Issued(t) => expiry'[t] = expiry[t]
  /\ account = "verified" => account' = "verified"
  /\ account # "absent" => account' # "absent"

---------------------------------------------------------------------------
(* What never goes back                                                    *)

\* Every step lets the clock, the expiries and the account only grow.
LEMMA StepGrows == TypeOK /\ [Next]_vars => Grows
<1> SUFFICES ASSUME TypeOK, [Next]_vars PROVE Grows
  OBVIOUS
<1>a. now \in Nat
  BY LifetimeAssumption DEF TypeOK, CacheTypeOK
<1>1. ASSUME UNCHANGED <<now, expiry>>, account' = account \/ account' = "verified" PROVE Grows
  BY <1>1, <1>a DEF Grows
<1>2. ASSUME UNCHANGED cacheVars, account' = account \/ account' = "verified" PROVE Grows
  BY <1>1, <1>2 DEF cacheVars
<1>3. ASSUME NEW g \in Registers, RegisterUser(g) \/ CheckAddress(g) PROVE Grows
  BY <1>2, <1>3 DEF RegisterUser, CheckAddress, people
<1>4. ASSUME NEW g \in Registers, CreateUser(g) PROVE Grows
  BY <1>a, <1>4 DEF CreateUser, cacheVars, Grows
<1>5. ASSUME NEW l \in Logins,
             AuthenticateWithCredentials(l) \/ VerifyCredentials(l) \/ StartSession(l)
      PROVE  Grows
  BY <1>2, <1>5 DEF AuthenticateWithCredentials, VerifyCredentials, StartSession, people
<1>13. ASSUME NEW c \in Clients, Logout(c) \/ EndSession(c) PROVE Grows
  BY <1>2, <1>13 DEF Logout, EndSession, people
<1>14. ASSUME NEW i \in Accepts, AcceptInvitation(i) \/ EnrollInvitee(i) \/ LogInInvitee(i)
       PROVE  Grows
  BY <1>2, <1>14 DEF AcceptInvitation, EnrollInvitee, LogInInvitee, people
<1>6. ASSUME NEW r \in Senders, GenerateToken(r) PROVE Grows
  <2>1. PICK t \in Tokens : SetFresh(req[r].proc, t)
    BY <1>6 DEF GenerateToken
  <2> QED
    BY <1>a, <1>6, <2>1 DEF GenerateToken, SetFresh, people, Grows, TypeOK, CacheTypeOK
<1>7. ASSUME NEW r \in Senders, LookUpToken(r) \/ QueueVerificationEmail(r) PROVE Grows
  BY <1>1, <1>2, <1>7 DEF LookUpToken, QueueVerificationEmail, Get, people
<1>8. ASSUME NEW v \in Verifies,
             \/ VerifyAccount(v) \/ CheckSession(v) \/ RetrieveTokenDetails(v)
             \/ ReadUser(v) \/ SaveUser(v) \/ DeleteToken(v)
      PROVE  Grows
  BY <1>1, <1>2, <1>8 DEF VerifyAccount, CheckSession, RetrieveTokenDetails, ReadUser,
                          SaveUser, DeleteToken, Get, Delete, people
<1>9. ASSUME NEW r \in Requests, Fail(r) PROVE Grows
  BY <1>2, <1>9 DEF Fail, people
<1>10. CASE Tick
  BY <1>a, <1>10 DEF Tick, Elapse, people, Grows
<1>11. ASSUME NEW p \in Processes, KeepCopy(p) \/ Crash(p) PROVE Grows
  BY <1>1, <1>11 DEF KeepCopy, Keep, Crash, Forget, people
<1>12. CASE UNCHANGED vars
  BY <1>2, <1>12 DEF vars
<1> QED
  BY <1>3, <1>4, <1>5, <1>6, <1>7, <1>8, <1>9, <1>10, <1>11, <1>12, <1>13, <1>14
  DEF Next

\* A request that does not move stays sound while the others do.
LEMMA StaysSound ==
  ASSUME TypeOK, Grows, now' \in Nat, NEW q, Sound(q)
  PROVE  Sound(q)'
<1>1. q.token \in Tokens /\ Issued(q.token) => Issued(q.token)' /\ expiry'[q.token] = expiry[q.token]
  BY DEF Grows, Issued
<1>2. now \in Nat /\ now <= now' /\ \A t \in Tokens : expiry[t] \in Nat
  BY LifetimeAssumption DEF TypeOK, CacheTypeOK, Grows
<1>3. q.late => Issued(q.token)' /\ expiry'[q.token] <= now'
  BY <1>1, <1>2 DEF Sound
<1> QED
  BY <1>1, <1>3 DEF Sound, Grows

---------------------------------------------------------------------------
(* What the requests carry                                                 *)

SoundRequests == req \in [Requests -> RequestState] /\ \A r \in Requests : Sound(req[r])

\* The requests stay sound when one of them moves to a sound state.
LEMMA RequestMoves ==
  ASSUME Typed, Grows, now' \in Nat, NEW r \in Requests, NEW q,
         Sound(q)', req' = [req EXCEPT ![r] = q]
  PROVE  SoundRequests'
<1>1. req \in [Requests -> RequestState] /\ q \in RequestState
  BY DEF Typed, TypeOK, Sound
<1>2. req'[r] = q /\ \A s \in Requests : s # r => req'[s] = req[s]
  BY <1>1
<1>4. ASSUME NEW s \in Requests PROVE Sound(req[s])'
  <2>1. CASE s = r
    BY <1>2, <2>1 DEF Sound
  <2>2. CASE s # r
    <3>1. PICK o : o = req[s]
      OBVIOUS
    <3>2. Sound(o)
      BY <3>1 DEF Typed
    <3>3. Sound(o)'
      BY <3>2, StaysSound DEF Typed
    <3> QED
      BY <1>2, <2>2, <3>1, <3>3 DEF Sound
  <2> QED
    BY <2>1, <2>2
<1>5. (req \in [Requests -> RequestState])'
  BY <1>1
<1> QED
  BY <1>4, <1>5 DEF SoundRequests

\* A request that goes on with what it has is sound if its next step needs no
\* more than that.
LEMMA GoesSound ==
  ASSUME Typed, Grows, now' \in Nat, NEW r \in Requests, NEW step \in Steps, Goto(r, step),
         req[r].pc \notin Settled \cup {"idle"},
         step \in {"session", "check", "read", "save", "close"} => req[r].token \in Tokens,
         step # "dispatch", req[r].late => step = "check",
         step \in {"login", "close"} => account' = "verified", step # "enter"
  PROVE  SoundRequests'
<1>1. PICK o \in RequestState : o = req[r]
  BY DEF Typed, TypeOK
<1>2. PICK q : q = [o EXCEPT !.pc = step]
  OBVIOUS
<1>3. /\ q \in RequestState /\ q.pc = step /\ q.proc = o.proc
      /\ q.token = o.token /\ q.late = o.late
  BY <1>1, <1>2 DEF RequestState
<1>a. Sound(o)
  BY <1>1 DEF Typed
<1>b. Sound(o)'
  BY <1>a, StaysSound DEF Typed
<1>4. Sound(q)'
  BY <1>1, <1>3, <1>a, <1>b DEF Sound
<1>5. req' = [req EXCEPT ![r] = q]
  BY <1>1, <1>2 DEF Goto
<1> QED
  BY <1>4, <1>5, RequestMoves

\* A request that was answered is sound: it carries nothing any more.
LEMMA AnsweredSound ==
  ASSUME NEW q, Sound(q), q.pc \notin {"session", "check"}, NEW how \in Settled
  PROVE  Sound(Answered(q, how))'
<1>1. ~q.late
  BY DEF Sound
<1>2. Answered(q, how) = [Idle EXCEPT !.pc = how, !.late = FALSE]
  BY <1>1 DEF Answered
<1> DEFINE a == Answered(q, how)
<1>3. a \in RequestState /\ a.pc = how /\ a.late = FALSE
  BY <1>2 DEF Idle, RequestState, Steps, Settled
<1> HIDE DEF a
<1>4. Sound(a)'
  BY <1>3 DEF Sound, Settled
<1> QED
  BY <1>4 DEF a

\* So is one that was refused, wherever it was.
LEMMA RefusedSound ==
  ASSUME NEW q
  PROVE  Sound(Answered(q, "failed"))'
<1> DEFINE a == Answered(q, "failed")
<1>1. a \in RequestState /\ a.pc = "failed" /\ a.late = FALSE
  BY DEF Answered, Idle, RequestState, Steps
<1> HIDE DEF a
<1>2. Sound(a)'
  BY <1>1 DEF Sound, Settled
<1> QED
  BY <1>2 DEF a

\* The requests stay sound when one of them is answered.
LEMMA AnswerSound ==
  ASSUME Typed, Grows, now' \in Nat, NEW r \in Requests, NEW how \in Settled, Answer(r, how),
         how = "failed" \/ req[r].pc \notin {"session", "check"}
  PROVE  SoundRequests'
<1>1. PICK o : o = req[r]
  OBVIOUS
<1>2. PICK q : q = Answered(o, how)
  OBVIOUS
<1>3. Sound(o)
  BY <1>1 DEF Typed
<1>4. Sound(q)'
  <2>1. CASE how = "failed"
    BY <2>1, <1>2, RefusedSound
  <2>2. CASE how # "failed"
    BY <2>2, <1>1, <1>2, <1>3, AnsweredSound
  <2> QED
    BY <2>1, <2>2
<1>5. req' = [req EXCEPT ![r] = q]
  BY <1>1, <1>2 DEF Answer
<1> QED
  BY <1>4, <1>5, RequestMoves

\* The requests stay sound when one arrives in a process.
LEMMA ArriveSound ==
  ASSUME Typed, Grows, now' \in Nat, NEW r \in Requests, NEW p \in Processes,
         NEW step \in {"address", "credentials", "enroll", "enter", "revoke"},
         step = "enter" => account' # "absent",
         req[r].pc \in {"idle", "succeeded"},
         req' = [req EXCEPT ![r].pc = step, ![r].proc = p]
  PROVE  SoundRequests'
<1>1. PICK o \in RequestState : o = req[r]
  BY DEF Typed, TypeOK
<1>2. PICK q : q = [o EXCEPT !.pc = step, !.proc = p]
  OBVIOUS
<1>3. q \in RequestState /\ q.pc = step /\ q.proc = p /\ q.late = o.late
  BY <1>1, <1>2 DEF RequestState, Steps
<1>4. ~o.late
  BY <1>1 DEF Typed, Sound
<1>5. Sound(q)'
  BY <1>3, <1>4 DEF Sound, Settled
<1>6. req' = [req EXCEPT ![r] = q]
  BY <1>1, <1>2
<1> QED
  BY <1>5, <1>6, RequestMoves

\* The requests stay sound when one took a token of the cache to send.
LEMMA TokenSound ==
  ASSUME Typed, Grows, now' \in Nat, NEW r \in Requests, NEW t \in Tokens \cup {None},
         NEW step \in {"generate", "dispatch"}, req[r].pc \in {"lookup", "generate"},
         step = "dispatch" => t \in Tokens /\ Issued(t)',
         req' = [req EXCEPT ![r].pc = step, ![r].token = t]
  PROVE  SoundRequests'
<1>1. PICK o \in RequestState : o = req[r]
  BY DEF Typed, TypeOK
<1>2. PICK q : q = [o EXCEPT !.pc = step, !.token = t]
  OBVIOUS
<1>3. q \in RequestState /\ q.pc = step /\ q.proc = o.proc /\ q.late = o.late /\ q.token = t
  BY <1>1, <1>2 DEF RequestState, Steps
<1>4. ~o.late /\ o.proc \in Processes
  BY <1>1 DEF Typed, Sound, Settled
<1>5. Sound(q)'
  BY <1>3, <1>4 DEF Sound, Settled
<1>6. req' = [req EXCEPT ![r] = q]
  BY <1>1, <1>2
<1> QED
  BY <1>5, <1>6, RequestMoves

---------------------------------------------------------------------------
(* Every action keeps the types                                            *)

\* Initially every variable has its type and no request carries anything.
LEMMA InitTyped == Init => Typed
<1> SUFFICES ASSUME Init PROVE Typed
  OBVIOUS
<1>1. CacheTypeOK
  BY LifetimeAssumption DEF Init, CacheInit, CacheTypeOK
<1>2. Idle \in RequestState /\ Idle.pc = "idle" /\ Idle.late = FALSE
  BY DEF Idle, RequestState, Steps
<1>3. \A r \in Requests : req[r] = Idle
  BY DEF Init
<1>4. TypeOK
  BY <1>1, <1>2 DEF Init, TypeOK
<1>5. \A r \in Requests : Sound(req[r])
  BY <1>2, <1>3 DEF Sound
<1> QED
  BY <1>4, <1>5 DEF Typed

\* Every action keeps the types and what each request carries.
LEMMA StepTyped == Typed /\ LinksIssued /\ [Next]_vars => Typed'
<1> SUFFICES ASSUME Typed, LinksIssued, [Next]_vars PROVE Typed'
  OBVIOUS
<1>a. /\ TypeOK /\ CacheTypeOK /\ Grows
      /\ req \in [Requests -> RequestState] /\ \A r \in Requests : Sound(req[r])
  BY StepGrows DEF Typed, TypeOK
<1>b. CacheTypeOK' => now' \in Nat
  BY LifetimeAssumption DEF CacheTypeOK
<1>c. UNCHANGED cacheVars => CacheTypeOK'
  BY <1>a DEF cacheVars, CacheTypeOK
<1>d. ASSUME CacheTypeOK', SoundRequests', UNCHANGED <<tokens, people>> PROVE Typed'
  BY <1>a, <1>d DEF Typed, TypeOK, SoundRequests, tokens, people
<1>e. /\ Registers \subseteq Requests /\ Logins \subseteq Requests /\ Senders \subseteq Requests
      /\ Accepts \subseteq Requests /\ Clients \subseteq Requests /\ Verifies \subseteq Requests
      /\ Logins \subseteq Clients /\ Accepts \subseteq Clients
  BY DEF Requests, Senders, Clients
<1>f. ASSUME NEW r \in Requests, req[r].pc \notin Settled \cup {"idle"}
      PROVE  req[r].proc \in Processes
  BY <1>a, <1>f DEF Sound
<1>1. ASSUME NEW g \in Registers, RegisterUser(g) PROVE Typed'
  <2>1. PICK p \in Processes : req' = [req EXCEPT ![g].pc = "address", ![g].proc = p]
    BY <1>1 DEF RegisterUser, Arrive
  <2>2. req[g].pc = "idle" /\ UNCHANGED <<cacheVars, tokens, people>>
    BY <1>1 DEF RegisterUser, Arrive, At
  <2> QED
    BY <1>a, <1>b, <1>c, <1>d, <1>e, <2>1, <2>2, ArriveSound
<1>2. ASSUME NEW g \in Registers, CheckAddress(g) PROVE Typed'
  <2>1. req[g].pc = "address" /\ UNCHANGED <<cacheVars, tokens, people>>
    BY <1>2 DEF CheckAddress, At
  <2>2. Goto(g, "create") \/ Answer(g, "failed")
    BY <1>2 DEF CheckAddress
  <2>3. ~req[g].late
    BY <1>a, <1>e, <2>1 DEF Sound
  <2>4. SoundRequests'
    BY <1>a, <1>b, <1>c, <1>e, <2>1, <2>2, <2>3, GoesSound, AnswerSound DEF Steps, Settled
  <2> QED
    BY <1>c, <1>d, <2>1, <2>4
<1>3. ASSUME NEW g \in Registers, CreateUser(g) PROVE Typed'
  <2>1. /\ req[g].pc = "create" /\ UNCHANGED <<cacheVars, tokens, sessions>>
        /\ account' = "unverified" /\ created' = created \cup {g}
    BY <1>3 DEF CreateUser, At
  <2>2. Goto(g, "lookup") \/ Answer(g, "failed")
    BY <1>3 DEF CreateUser
  <2>3. ~req[g].late
    BY <1>a, <1>e, <2>1 DEF Sound
  <2>4. SoundRequests'
    BY <1>a, <1>b, <1>c, <1>e, <2>1, <2>2, <2>3, GoesSound, AnswerSound DEF Steps, Settled
  <2> QED
    BY <1>a, <1>c, <2>1, <2>4 DEF Typed, TypeOK, SoundRequests, tokens
<1>4. ASSUME NEW c \in Clients, Logout(c) \/ (c \in Logins /\ AuthenticateWithCredentials(c))
      PROVE  Typed'
  <2>1. PICK p \in Processes, step \in {"credentials", "revoke"} :
          req' = [req EXCEPT ![c].pc = step, ![c].proc = p]
    BY <1>4 DEF AuthenticateWithCredentials, Logout, Arrive
  <2>2. req[c].pc \in {"idle", "succeeded"} /\ UNCHANGED <<cacheVars, tokens, people>>
    BY <1>4 DEF AuthenticateWithCredentials, Logout, Arrive, At
  <2> QED
    BY <1>a, <1>b, <1>c, <1>d, <1>e, <2>1, <2>2, ArriveSound
<1>22. ASSUME NEW i \in Accepts, AcceptInvitation(i) PROVE Typed'
  <2>1. PICK p \in Processes, step \in {"enroll", "enter"} :
          /\ step = IF account = "absent" THEN "enroll" ELSE "enter"
          /\ req' = [req EXCEPT ![i].pc = step, ![i].proc = p]
    BY <1>22 DEF AcceptInvitation, Arrive
  <2>2. req[i].pc = "idle" /\ UNCHANGED <<cacheVars, tokens, people>>
    BY <1>22 DEF AcceptInvitation, Arrive, At
  <2>3. step = "enter" => account' # "absent"
    BY <2>1, <2>2 DEF people
  <2> QED
    BY <1>a, <1>b, <1>c, <1>d, <1>e, <2>1, <2>2, <2>3, ArriveSound
<1>23. ASSUME NEW i \in Accepts, EnrollInvitee(i) PROVE Typed'
  <2>1. /\ req[i].pc = "enroll" /\ UNCHANGED <<cacheVars, tokens, sessions>>
        /\ account' = "verified" /\ created' = created \cup {i}
    BY <1>23 DEF EnrollInvitee, At
  <2>2. Answer(i, "succeeded") \/ Answer(i, "failed")
    BY <1>23 DEF EnrollInvitee
  <2>3. SoundRequests'
    BY <1>a, <1>b, <1>c, <1>e, <2>1, <2>2, AnswerSound DEF Settled
  <2> QED
    BY <1>a, <1>c, <2>1, <2>3 DEF Typed, TypeOK, SoundRequests, tokens
<1>5. ASSUME NEW l \in Logins, VerifyCredentials(l) PROVE Typed'
  <2>1. req[l].pc = "credentials" /\ UNCHANGED <<cacheVars, tokens, people>>
    BY <1>5 DEF VerifyCredentials, At
  <2>2. \/ Goto(l, "lookup") \/ Answer(l, "failed")
        \/ Goto(l, "login") /\ account' = "verified"
    BY <1>5 DEF VerifyCredentials, people
  <2>3. ~req[l].late
    BY <1>a, <1>e, <2>1 DEF Sound
  <2>4. SoundRequests'
    BY <1>a, <1>b, <1>c, <1>e, <2>1, <2>2, <2>3, GoesSound, AnswerSound DEF Steps, Settled
  <2> QED
    BY <1>c, <1>d, <2>1, <2>4
<1>6. ASSUME NEW c \in Clients,
             \/ EndSession(c)
             \/ c \in Logins /\ StartSession(c)
             \/ c \in Accepts /\ LogInInvitee(c)
      PROVE  Typed'
  <2>1. /\ req[c].pc \in {"login", "enter", "revoke"}
        /\ UNCHANGED <<cacheVars, tokens, account, created>>
        /\ sessions' \subseteq sessions \cup {c}
    BY <1>6 DEF StartSession, LogInInvitee, EndSession, At
  <2>2. Answer(c, "succeeded") \/ Answer(c, "out")
    BY <1>6 DEF StartSession, LogInInvitee, EndSession
  <2>3. SoundRequests'
    BY <1>a, <1>b, <1>c, <1>e, <2>1, <2>2, AnswerSound DEF Settled
  <2> QED
    BY <1>a, <1>c, <2>1, <2>3 DEF Typed, TypeOK, SoundRequests, tokens
<1>7. ASSUME NEW r \in Senders, LookUpToken(r) PROVE Typed'
  <2>1. req[r].pc = "lookup" /\ UNCHANGED <<tokens, people>> /\ req[r].proc \in Processes
    BY <1>7, <1>e, <1>f DEF LookUpToken, At, Settled
  <2>2. PICK t \in Tokens \cup {None} :
          /\ Get(req[r].proc, t)
          /\ req' = [req EXCEPT ![r].pc = IF t = None THEN "generate" ELSE "dispatch",
                                ![r].token = t]
    BY <1>7 DEF LookUpToken
  <2>3. CacheTypeOK' /\ (t # None => Issued(t)')
    BY <1>a, <2>1, <2>2, GetAnswersValid DEF Issued
  <2>4. PICK step \in {"generate", "dispatch"} :
          step = IF t = None THEN "generate" ELSE "dispatch"
    OBVIOUS
  <2>5. SoundRequests'
    BY <1>a, <1>b, <1>e, <2>1, <2>2, <2>3, <2>4, TokenSound
  <2> QED
    BY <1>d, <2>1, <2>3, <2>5
<1>8. ASSUME NEW r \in Senders, GenerateToken(r) PROVE Typed'
  <2>1. req[r].pc = "generate" /\ UNCHANGED <<mails, people>> /\ req[r].proc \in Processes
    BY <1>8, <1>e, <1>f DEF GenerateToken, At, Settled
  <2>2. PICK t \in Tokens :
          /\ SetFresh(req[r].proc, t)
          /\ newest' = t /\ lost' \in {lost, lost \cup {t}}
          /\ req' = [req EXCEPT ![r].pc = "dispatch", ![r].token = t]
    BY <1>8 DEF GenerateToken
  <2>3. CacheTypeOK' /\ Issued(t)'
    BY <1>a, <2>1, <2>2, SetFreshIssues
  <2>4. SoundRequests'
    BY <1>a, <1>b, <1>e, <2>1, <2>2, <2>3, TokenSound
  <2> QED
    BY <1>a, <2>1, <2>2, <2>3, <2>4 DEF Typed, TypeOK, SoundRequests, people
<1>9. ASSUME NEW r \in Senders, QueueVerificationEmail(r) PROVE Typed'
  <2>1. /\ req[r].pc = "dispatch" /\ UNCHANGED <<cacheVars, newest, lost, people>>
        /\ mails' = mails \cup {req[r].token}
    BY <1>9 DEF QueueVerificationEmail, At
  <2>2. Answer(r, "succeeded") \/ Answer(r, "failed")
    BY <1>9 DEF QueueVerificationEmail
  <2>3. SoundRequests'
    BY <1>a, <1>b, <1>c, <1>e, <2>1, <2>2, AnswerSound DEF Settled
  <2>4. req[r].token \in Tokens
    BY <1>a, <1>e, <2>1 DEF Sound
  <2> QED
    BY <1>a, <1>c, <2>1, <2>3, <2>4 DEF Typed, TypeOK, SoundRequests, people
<1>10. ASSUME NEW v \in Verifies, VerifyAccount(v) PROVE Typed'
  <2>1. UNCHANGED <<cacheVars, tokens, people>>
    BY <1>10 DEF VerifyAccount
  <2>2. PICK t \in mails, p \in Processes, known \in BOOLEAN, late \in BOOLEAN :
          /\ late = ~Valid(t)
          /\ req' = [req EXCEPT ![v] = [pc |-> "session", proc |-> p, token |-> t,
                                       known |-> known, late |-> late]]
    BY <1>10 DEF VerifyAccount
  <2>3. PICK q : q = [pc |-> "session", proc |-> p, token |-> t, known |-> known, late |-> late]
    OBVIOUS
  <2>4. /\ t \in Tokens /\ Issued(t)
        /\ now \in Nat /\ expiry[t] \in Nat
    BY <1>a, LifetimeAssumption DEF TypeOK, CacheTypeOK, LinksIssued
  <2>5. late => expiry[t] <= now
    <3>1. ~Valid(t) => expiry[t] <= now
      BY <2>4, TokensAssumption DEF Valid
    <3> QED
      BY <2>2, <3>1, Zenon
  <2>6. Issued(t)' /\ (late => expiry'[t] <= now') /\ now' \in Nat
    BY <2>1, <2>4, <2>5 DEF cacheVars, Issued
  <2>7. q \in RequestState /\ q.pc = "session" /\ q.proc = p /\ q.token = t /\ q.late = late
    BY <2>3, <2>4 DEF RequestState, Steps
  <2>8. Sound(q)'
    BY <2>4, <2>6, <2>7 DEF Sound
  <2>9. SoundRequests'
    BY <1>a, <1>e, <2>2, <2>3, <2>6, <2>8, RequestMoves
  <2> QED
    BY <1>c, <1>d, <2>1, <2>9
<1>11. ASSUME NEW v \in Verifies, CheckSession(v) PROVE Typed'
  <2>1. req[v].pc = "session" /\ UNCHANGED <<cacheVars, tokens, people>>
    BY <1>11 DEF CheckSession, At
  <2>2. CASE Answer(v, "failed")
    BY <1>a, <1>b, <1>c, <1>d, <1>e, <2>1, <2>2, AnswerSound DEF Settled
  <2>3. CASE req' = [req EXCEPT ![v].pc = "check", ![v].known = FALSE]
    <3>1. PICK o \in RequestState : o = req[v]
      BY <1>a, <1>e DEF TypeOK
    <3>2. PICK q : q = [o EXCEPT !.pc = "check", !.known = FALSE]
      OBVIOUS
    <3>3. /\ q \in RequestState /\ q.pc = "check" /\ q.proc = o.proc
          /\ q.token = o.token /\ q.late = o.late
      BY <3>2 DEF RequestState, Steps
    <3>4. Sound(o) /\ Sound(o)' /\ o.pc = "session"
      BY <1>a, <1>b, <1>c, <1>e, <2>1, <3>1, StaysSound
    <3>5. Sound(q)'
      BY <3>3, <3>4 DEF Sound, Settled
    <3>6. req' = [req EXCEPT ![v] = q]
      BY <2>3, <3>1, <3>2
    <3>7. SoundRequests'
      BY <1>a, <1>b, <1>c, <1>e, <2>1, <3>5, <3>6, RequestMoves
    <3> QED
      BY <1>c, <1>d, <2>1, <3>7
  <2> QED
    BY <1>11, <2>2, <2>3 DEF CheckSession
<1>12. ASSUME NEW v \in Verifies, RetrieveTokenDetails(v) PROVE Typed'
  <2>1. /\ req[v].pc = "check" /\ UNCHANGED <<tokens, people>>
        /\ req[v].proc \in Processes /\ req[v].token \in Tokens
    BY <1>12, <1>a, <1>e, <1>f DEF RetrieveTokenDetails, At, Settled, Sound
  <2>2. PICK t \in Tokens \cup {None} :
          /\ Get(req[v].proc, t)
          /\ IF t = req[v].token THEN Goto(v, "read") ELSE Answer(v, "failed")
    BY <1>12 DEF RetrieveTokenDetails
  <2>3. CacheTypeOK' /\ (t # None => Valid(t))
    BY <1>a, <2>1, <2>2, GetAnswersValid
  <2>4. t = req[v].token => ~req[v].late
    BY <1>a, <1>e, <2>1, <2>3, TokensAssumption, LifetimeAssumption
       DEF Sound, Valid, TypeOK, CacheTypeOK
  <2>5. SoundRequests'
    BY <1>a, <1>b, <1>e, <2>1, <2>2, <2>3, <2>4, GoesSound, AnswerSound DEF Steps, Settled
  <2> QED
    BY <1>d, <2>1, <2>3, <2>5
<1>13. ASSUME NEW v \in Verifies, ReadUser(v) PROVE Typed'
  <2>1. /\ req[v].pc = "read" /\ UNCHANGED <<cacheVars, tokens, people>> /\ Goto(v, "save")
        /\ req[v].token \in Tokens /\ ~req[v].late
    BY <1>13, <1>a, <1>e DEF ReadUser, At, Sound
  <2>2. SoundRequests'
    BY <1>a, <1>b, <1>c, <1>e, <2>1, GoesSound DEF Steps, Settled
  <2> QED
    BY <1>c, <1>d, <2>1, <2>2
<1>14. ASSUME NEW v \in Verifies, SaveUser(v) PROVE Typed'
  <2>1. /\ req[v].pc = "save" /\ UNCHANGED <<cacheVars, tokens, sessions, created>>
        /\ account' = "verified" /\ (Goto(v, "close") \/ Answer(v, "failed"))
        /\ req[v].token \in Tokens /\ ~req[v].late
    BY <1>14, <1>a, <1>e DEF SaveUser, At, Sound
  <2>2. SoundRequests'
    BY <1>a, <1>b, <1>c, <1>e, <2>1, GoesSound, AnswerSound DEF Steps, Settled
  <2> QED
    BY <1>a, <1>c, <2>1, <2>2 DEF Typed, TypeOK, SoundRequests, tokens
<1>15. ASSUME NEW v \in Verifies, DeleteToken(v) PROVE Typed'
  <2>1. /\ req[v].pc = "close" /\ UNCHANGED <<tokens, people>> /\ Answer(v, "succeeded")
        /\ Delete(req[v].proc) /\ req[v].proc \in Processes
    BY <1>15, <1>e, <1>f DEF DeleteToken, At, Settled
  <2>2. CacheTypeOK'
    BY <1>a, <2>1, DeleteClears
  <2>3. SoundRequests'
    BY <1>a, <1>b, <1>e, <2>1, <2>2, AnswerSound DEF Settled
  <2> QED
    BY <1>d, <2>1, <2>2, <2>3
<1>16. ASSUME NEW r \in Requests, Fail(r) PROVE Typed'
  <2>1. SoundRequests'
    BY <1>16, <1>a, <1>b, <1>c, AnswerSound DEF Fail, Settled
  <2> QED
    BY <1>16, <1>c, <1>d, <2>1 DEF Fail
<1>17. ASSUME CacheTypeOK', UNCHANGED req PROVE SoundRequests'
  <2>1. ASSUME NEW r \in Requests PROVE Sound(req[r])'
    <3>1. PICK o : o = req[r]
      OBVIOUS
    <3>2. Sound(o)
      BY <1>a, <3>1
    <3>3. Sound(o)'
      BY <1>a, <1>b, <1>17, <3>2, StaysSound
    <3> QED
      BY <1>17, <3>1, <3>3 DEF Sound
  <2> QED
    BY <1>a, <1>17, <2>1 DEF SoundRequests
<1>18. CASE Tick
  <2>1. CacheTypeOK'
    BY <1>18, <1>a, LifetimeAssumption DEF Tick, Elapse, CacheTypeOK
  <2> QED
    BY <1>18, <1>d, <1>17, <2>1 DEF Tick
<1>19. ASSUME NEW p \in Processes, KeepCopy(p) PROVE Typed'
  <2>1. CacheTypeOK'
    BY <1>19, <1>a DEF KeepCopy, Keep, CacheTypeOK
  <2> QED
    BY <1>19, <1>d, <1>17, <2>1 DEF KeepCopy
<1>20. ASSUME NEW p \in Processes, Crash(p) PROVE Typed'
  <2>1. CacheTypeOK'
    BY <1>20, <1>a DEF Crash, Forget, CacheTypeOK
  <2>2. ASSUME NEW r \in Requests PROVE Sound(req[r])'
    <3>1. PICK o : o = req[r]
      OBVIOUS
    <3>2. Sound(o)'
      BY <1>a, <1>b, <2>1, <3>1, StaysSound
    <3>3. Sound(Answered(o, "failed"))'
      BY RefusedSound
    <3>4. req'[r] = o \/ req'[r] = Answered(o, "failed")
      BY <1>20, <1>a, <3>1 DEF Crash
    <3>5. PICK a : a = req'[r] /\ (a = o \/ a = Answered(o, "failed"))
      BY <3>4
    <3>6. Sound(a)'
      BY <3>2, <3>3, <3>5
    <3> QED
      BY <3>5, <3>6 DEF Sound
  <2>3. SoundRequests'
    <3>1. \A r \in Requests : req'[r] \in RequestState
      BY <2>2 DEF Sound
    <3>2. req' = [r \in Requests |-> req'[r]]
      BY <1>20 DEF Crash
    <3> QED
      BY <2>2, <3>1, <3>2 DEF SoundRequests
  <2> QED
    BY <1>20, <1>d, <2>1, <2>3 DEF Crash
<1>21. CASE UNCHANGED vars
  BY <1>21, <1>c, <1>d, <1>17 DEF vars, tokens, people
<1>24. ASSUME NEW l \in Logins, AuthenticateWithCredentials(l) \/ StartSession(l) PROVE Typed'
  BY <1>4, <1>6, <1>24, <1>e
<1>25. ASSUME NEW i \in Accepts, LogInInvitee(i) PROVE Typed'
  BY <1>6, <1>25, <1>e
<1>26. ASSUME NEW c \in Clients, Logout(c) \/ EndSession(c) PROVE Typed'
  BY <1>4, <1>6, <1>26
<1> QED
  BY <1>1, <1>2, <1>3, <1>5, <1>7, <1>8, <1>9, <1>10, <1>11, <1>12, <1>13, <1>14, <1>15,
     <1>16, <1>18, <1>19, <1>20, <1>21, <1>22, <1>23, <1>24, <1>25, <1>26 DEF Next

---------------------------------------------------------------------------
(* The links, the account and the newest token                             *)

\* Emails only carry tokens that were put in the cache.
LEMMA StepLinks == Typed /\ LinksIssued /\ [Next]_vars => LinksIssued'
<1> SUFFICES ASSUME Typed, LinksIssued, [Next]_vars PROVE LinksIssued'
  OBVIOUS
<1>1. \A t \in Tokens : Issued(t) => Issued(t)'
  BY StepGrows DEF Typed, Grows, Issued
<1>2. mails \subseteq Tokens /\ \A t \in mails : Issued(t)
  BY DEF Typed, TypeOK, LinksIssued
<1>3. CASE mails' = mails
  BY <1>1, <1>2, <1>3 DEF LinksIssued
<1>4. ASSUME NEW r \in Senders, QueueVerificationEmail(r) PROVE LinksIssued'
  <2>1. r \in Requests /\ req[r].pc = "dispatch" /\ mails' = mails \cup {req[r].token}
    BY <1>4 DEF QueueVerificationEmail, At, Requests
  <2>2. req[r].token \in Tokens /\ Issued(req[r].token)
    BY <2>1 DEF Typed, Sound
  <2> QED
    BY <1>1, <1>2, <2>1, <2>2 DEF LinksIssued
<1>5. mails' = mails \/ \E r \in Senders : QueueVerificationEmail(r)
  BY DEF Next, RegisterUser, CheckAddress, CreateUser, AuthenticateWithCredentials,
         VerifyCredentials, StartSession, Logout, EndSession, AcceptInvitation,
         EnrollInvitee, LogInInvitee, LookUpToken, GenerateToken, VerifyAccount, CheckSession, RetrieveTokenDetails, ReadUser, SaveUser,
         DeleteToken, Fail, Tick, KeepCopy, Crash, tokens, vars
<1> QED
  BY <1>3, <1>4, <1>5

\* An account is created once, and before it is verified only an accepted
\* invitation starts a session.
LEMMA StepOwned == Typed /\ Owned /\ [Next]_vars => Owned'
<1> SUFFICES ASSUME Typed, Owned, [Next]_vars PROVE Owned'
  OBVIOUS
<1>1. CASE UNCHANGED people
  BY <1>1 DEF people, Owned
<1>2. ASSUME NEW g \in Registers, CreateUser(g) PROVE Owned'
  <2>1. created = {} /\ sessions = {}
    BY <1>2 DEF CreateUser, Owned
  <2>2. created' = {g} /\ account' = "unverified" /\ sessions' = {}
    BY <1>2, <2>1 DEF CreateUser
  <2> QED
    <3>1. IsFiniteSet({g}) /\ Cardinality({g}) = 1
      BY FS_Singleton
    <3> QED
      BY <2>2, <3>1 DEF Owned
<1>3. ASSUME NEW l \in Logins, StartSession(l) PROVE Owned'
  <2>1. account = "verified"
    BY <1>3 DEF StartSession, At, Typed, Sound, Requests, Senders
  <2> QED
    BY <1>3, <2>1 DEF StartSession, Owned
<1>7. ASSUME NEW i \in Accepts, LogInInvitee(i) PROVE Owned'
  <2>1. account # "absent"
    BY <1>7 DEF LogInInvitee, At, Typed, Sound, Requests
  <2> QED
    BY <1>7, <2>1 DEF LogInInvitee, Owned
<1>8. ASSUME NEW i \in Accepts, EnrollInvitee(i) PROVE Owned'
  <2>1. created' = {i} /\ account' = "verified"
    BY <1>8 DEF EnrollInvitee, Owned
  <2>2. IsFiniteSet({i}) /\ Cardinality({i}) = 1
    BY FS_Singleton
  <2> QED
    BY <2>1, <2>2 DEF Owned
<1>4. ASSUME NEW c \in Clients, EndSession(c) PROVE Owned'
  BY <1>4 DEF EndSession, Owned
<1>5. ASSUME NEW v \in Verifies, SaveUser(v) PROVE Owned'
  BY <1>5 DEF SaveUser, Owned
<1>6. \/ UNCHANGED people \/ \E g \in Registers : CreateUser(g)
      \/ \E l \in Logins : StartSession(l)
      \/ \E i \in Accepts : EnrollInvitee(i) \/ LogInInvitee(i)
      \/ \E c \in Clients : EndSession(c)
      \/ \E v \in Verifies : SaveUser(v)
  BY DEF Next, RegisterUser, CheckAddress, AuthenticateWithCredentials, VerifyCredentials,
         AcceptInvitation, Logout, LookUpToken, GenerateToken, QueueVerificationEmail, VerifyAccount,
         CheckSession, RetrieveTokenDetails, ReadUser, DeleteToken, Fail, Tick, KeepCopy,
         Crash, people, vars
<1> QED
  BY <1>1, <1>2, <1>3, <1>4, <1>5, <1>6, <1>7, <1>8

\* Only a verification that succeeded, or a newer token, replaces the newest
\* token in redis.
LEMMA StepNewest == Typed /\ NewestCached /\ [Next]_vars => NewestCached'
<1> SUFFICES ASSUME Typed, NewestCached, [Next]_vars, account' # "verified" PROVE NewestCached'
  BY DEF NewestCached
<1>a. Grows /\ account # "verified"
  BY StepGrows DEF Typed, Grows
<1>b. /\ now \in Nat /\ expiry \in [Tokens -> Nat] /\ newest \in Tokens \cup {None}
  BY LifetimeAssumption DEF Typed, TypeOK, CacheTypeOK
<1>1. ASSUME UNCHANGED <<expiry, redis, newest, lost>>, now' \in Nat PROVE NewestCached'
  <2>1. Valid(newest)' => Valid(newest)
    BY <1>1, <1>a, <1>b, TokensAssumption DEF Valid, Grows
  <2> QED
    BY <1>1, <1>a, <2>1 DEF NewestCached
<1>2. ASSUME UNCHANGED cacheVars, UNCHANGED tokens PROVE NewestCached'
  BY <1>1, <1>2, <1>b DEF cacheVars, tokens
<1>3. ASSUME NEW r \in Senders, GenerateToken(r) PROVE NewestCached'
  <2>1. PICK t \in Tokens :
          newest' = t /\ lost' = IF redis' = t THEN lost ELSE lost \cup {t}
    BY <1>3 DEF GenerateToken
  <2> QED
    BY <2>1 DEF NewestCached
<1>4. ASSUME NEW r \in Senders, LookUpToken(r) PROVE NewestCached'
  BY <1>1, <1>4, <1>b DEF LookUpToken, Get, tokens
<1>5. ASSUME NEW r \in Senders, QueueVerificationEmail(r) PROVE NewestCached'
  BY <1>1, <1>5, <1>b DEF QueueVerificationEmail, cacheVars
<1>6. ASSUME NEW v \in Verifies, RetrieveTokenDetails(v) PROVE NewestCached'
  BY <1>1, <1>6, <1>b DEF RetrieveTokenDetails, Get, tokens
<1>7. ASSUME NEW v \in Verifies, DeleteToken(v) PROVE NewestCached'
  BY <1>7, <1>a DEF DeleteToken, At, Typed, Sound, Requests
<1>8. CASE Tick
  BY <1>1, <1>8, <1>b DEF Tick, Elapse, tokens
<1>9. ASSUME NEW p \in Processes, KeepCopy(p) \/ Crash(p) PROVE NewestCached'
  BY <1>1, <1>9, <1>b DEF KeepCopy, Keep, Crash, Forget, tokens
<1>10. ASSUME NEW g \in Registers, RegisterUser(g) \/ CheckAddress(g) \/ CreateUser(g)
       PROVE  NewestCached'
  BY <1>2, <1>10 DEF RegisterUser, CheckAddress, CreateUser
<1>11. ASSUME NEW l \in Logins,
              AuthenticateWithCredentials(l) \/ VerifyCredentials(l) \/ StartSession(l)
       PROVE  NewestCached'
  BY <1>2, <1>11 DEF AuthenticateWithCredentials, VerifyCredentials, StartSession
<1>15. ASSUME NEW c \in Clients, Logout(c) \/ EndSession(c) PROVE NewestCached'
  BY <1>2, <1>15 DEF Logout, EndSession
<1>16. ASSUME NEW i \in Accepts, AcceptInvitation(i) \/ EnrollInvitee(i) \/ LogInInvitee(i)
       PROVE  NewestCached'
  BY <1>2, <1>16 DEF AcceptInvitation, EnrollInvitee, LogInInvitee
<1>12. ASSUME NEW v \in Verifies,
              VerifyAccount(v) \/ CheckSession(v) \/ ReadUser(v) \/ SaveUser(v)
       PROVE  NewestCached'
  BY <1>2, <1>12 DEF VerifyAccount, CheckSession, ReadUser, SaveUser
<1>13. ASSUME NEW r \in Requests, Fail(r) PROVE NewestCached'
  BY <1>2, <1>13 DEF Fail
<1>14. CASE UNCHANGED vars
  BY <1>2, <1>14 DEF vars, tokens
<1> QED
  BY <1>3, <1>4, <1>5, <1>6, <1>7, <1>8, <1>9, <1>10, <1>11, <1>12, <1>13, <1>14,
     <1>15, <1>16 DEF Next

---------------------------------------------------------------------------
(* The theorems                                                            *)

\* The inductive invariant holds in every reachable state.
LEMMA Invariance == Spec => []IInv
<1>1. Init => IInv
  <2> SUFFICES ASSUME Init PROVE IInv
    OBVIOUS
  <2>1. LinksIssued /\ Owned /\ NewestCached
    BY FS_EmptySet DEF Init, LinksIssued, Owned, NewestCached, Valid
  <2> QED
    BY <2>1, InitTyped DEF IInv
<1>2. IInv /\ [Next]_vars => IInv'
  BY StepTyped, StepLinks, StepOwned, StepNewest DEF IInv
<1> QED
  BY <1>1, <1>2, PTL DEF Spec

\* Every variable has its type; every emailed link carries an issued token.
THEOREM TypeCorrect == Spec => []TypeOK
<1>1. IInv => TypeOK
  BY DEF IInv, Typed
<1> QED
  BY <1>1, Invariance, PTL

\* registerUser and acceptInvitation never create the account twice, however
\* many requests for the address overlap.
THEOREM AccountCreatedOnce == Spec => []OneAccountPerAddress
<1>1. IInv => OneAccountPerAddress
  BY DEF IInv, Owned, OneAccountPerAddress
<1> QED
  BY <1>1, Invariance, PTL

\* Whatever logins, registrations, invitations and verifications overlap, an
\* account that is not verified has sessions only of clients that accepted an
\* invitation, and an absent one has none.
THEOREM OnlyInvitedEnterUnverified == Spec => []UnverifiedOnlyInvited
<1>1. IInv => UnverifiedOnlyInvited
  BY DEF IInv, Owned, UnverifiedOnlyInvited
<1> QED
  BY <1>1, Invariance, PTL

\* A verification link that arrives expired is refused in every process.
THEOREM LateNeverVerifies == Spec => []LateLinkRefused
<1>1. IInv => LateLinkRefused
  BY DEF IInv, Typed, Sound, LateLinkRefused, Requests
<1> QED
  BY <1>1, Invariance, PTL

\* The newest link of an account that is not verified stays in redis.
THEOREM NewestStays == Spec => []NewestLinkKept
<1>1. IInv => NewestLinkKept
  BY DEF IInv, NewestCached, NewestLinkKept
<1> QED
  BY <1>1, Invariance, PTL
=============================================================================
