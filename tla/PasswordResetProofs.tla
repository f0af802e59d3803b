------------------------ MODULE PasswordResetProofs ------------------------
(***************************************************************************)
(* Proofs about the password reset, for any number of requests, processes, *)
(* tokens and passwords and any lifetime.                                  *)
(*                                                                         *)
(* A link that was expired when it arrived stays so, because the expiry of *)
(* a token is set once and the clock never goes back; that is ArrivedLate. *)
(* A link that was consumed when it arrived, in a process with no copy of  *)
(* its token, is refused because the process can only get one from redis,  *)
(* and nothing brings a consumed token back there: that is ConsumedIsGone. *)
(* A link that changed nothing yet is not spent, because the only step     *)
(* that deletes it from redis follows a use of it: that is ClosersUsed.    *)
(***************************************************************************)
EXTENDS PasswordReset, TLAPS

---------------------------------------------------------------------------
(* The calls of the token cache                                            *)

\* A get answers a token only while its entry has not expired, and changes
\* nothing but what its process has fetched from redis.
LEMMA GetAnswersValid ==
  ASSUME CacheTypeOK, NEW p \in Processes, NEW t \in Tokens \cup {None}, Get(p, t)
  PROVE  /\ t # None => Valid(t) /\ Issued(t)
         /\ t # None => t = memory[p] \/ t = redis
         /\ fetched' \in {fetched, [fetched EXCEPT ![p] = @ \cup {redis}]}
         /\ UNCHANGED <<now, expiry, memory, redis>>
         /\ CacheTypeOK'
<1>1. t # None => Valid(t)
  BY DEF Get, Readable
<1>2. t # None => Issued(t)
  BY <1>1, TokensAssumption DEF Valid, Issued, CacheTypeOK
<1>3. t # None => t = memory[p] \/ t = redis
  BY DEF Get, Readable
<1>4. /\ fetched' \in {fetched, [fetched EXCEPT ![p] = @ \cup {redis}]}
      /\ UNCHANGED <<now, expiry, memory, redis>>
  BY <1>3 DEF Get
<1>5. CacheTypeOK'
  BY <1>4 DEF Get, CacheTypeOK
<1> QED
  BY <1>1, <1>2, <1>3, <1>4, <1>5

\* Setting a fresh token issues it and leaves the expiry of the others alone.
LEMMA SetFreshIssues ==
  ASSUME CacheTypeOK, NEW p \in Processes, NEW t \in Tokens, SetFresh(p, t)
  PROVE  /\ ~Issued(t)
         /\ expiry' = [expiry EXCEPT ![t] = now + Lifetime]
         /\ now' = now
         /\ Issued(t)'
         /\ memory' = [memory EXCEPT ![p] = t]
         /\ redis' \in {t, redis}
         /\ fetched' = fetched
         /\ CacheTypeOK'
<1>1. /\ ~Issued(t)
      /\ expiry' = [expiry EXCEPT ![t] = now + Lifetime]
      /\ now' = now
      /\ memory' = [memory EXCEPT ![p] = t]
      /\ redis' \in {t, redis}
      /\ fetched' = fetched
  BY DEF SetFresh, Put
<1>2. now + Lifetime \in Nat \ {0}
  BY LifetimeAssumption DEF CacheTypeOK
<1>3. Issued(t)'
  BY <1>1, <1>2 DEF Issued, CacheTypeOK
<1>4. CacheTypeOK'
  BY <1>1, <1>2 DEF CacheTypeOK
<1> QED
  BY <1>1, <1>3, <1>4

\* A delete empties the memory it was made through and, unless the call is
\* lost, redis.
LEMMA DeleteClears ==
  ASSUME CacheTypeOK, NEW p \in Processes, Delete(p)
  PROVE  /\ memory' = [memory EXCEPT ![p] = None]
         /\ redis' \in {None, redis}
         /\ UNCHANGED <<now, expiry, fetched>>
         /\ CacheTypeOK'
BY DEF Delete, Put, CacheTypeOK

---------------------------------------------------------------------------

\* What a request carries at each step.
Carries ==
  \A r \in Requests :
    /\ req[r].pc \in {"lookup", "generate", "close"} => req[r].proc \in Processes
    /\ req[r].pc \in {"check", "read", "save", "close"} =>
         /\ req[r].proc \in Processes
         /\ req[r].token \in Tokens
         /\ req[r].new \in Passwords
    /\ req[r].pc = "dispatch" => req[r].token \in Tokens /\ Issued(req[r].token)

Typed == TypeOK /\ Carries

LinksIssued ==
  \A m \in mails : Issued(m)

ArrivedLate ==
  \A r \in Requests : req[r].late =>
    /\ req[r].pc \in {"check", "failed"}
    /\ req[r].token \in Tokens
    /\ Issued(req[r].token)
    /\ expiry[req[r].token] <= now

ConsumedIsGone ==
  \A t \in consumed :
    /\ Issued(t)
    /\ redis # t

ArrivedSpent ==
  \A r \in Requests : req[r].spent =>
    /\ req[r].pc \in {"check", "failed"}
    /\ req[r].token \in consumed
    /\ req[r].proc \in Processes
    /\ ~Holds(req[r].proc, req[r].token)

ExpiryInv == Typed /\ LinksIssued /\ ArrivedLate

HeldIssued ==
  \A r \in Requests : req[r].token # None => expiry[req[r].token] # 0

ConsumedInv ==
  Typed /\ LinksIssued /\ HeldIssued /\ ConsumedIsGone /\ ArrivedSpent

---------------------------------------------------------------------------
(* The clock of the tokens                                                 *)

\* No step takes an issued token's expiry back.
LEMMA ExpiryStays ==
  ASSUME TypeOK, Carries, [Next]_vars, NEW t \in Tokens, Issued(t)
  PROVE  Issued(t)' /\ expiry'[t] = expiry[t]
<1>1. ASSUME NEW f \in Forgots, GeneratePasswordResetToken(f)
      PROVE  expiry'[t] = expiry[t]
  <2>1. PICK u \in Tokens : SetFresh(req[f].proc, u)
    BY <1>1 DEF GeneratePasswordResetToken
  <2>2. ~Issued(u) /\ expiry' = [expiry EXCEPT ![u] = now + Lifetime]
    BY <2>1 DEF SetFresh
  <2> QED
    BY <2>2 DEF TypeOK, CacheTypeOK
<1>2. ASSUME NEW f \in Forgots,
             SendPasswordResetEmail(f) \/ LookUpToken(f) \/ DispatchEmail(f)
      PROVE  expiry' = expiry
  BY <1>2 DEF SendPasswordResetEmail, LookUpToken, DispatchEmail, Get, cacheVars
<1>3. ASSUME NEW r \in Resets,
             \/ ResetPassword(r) \/ VerifyPasswordResetToken(r) \/ ReadUser(r)
             \/ SaveUser(r) \/ DeleteToken(r)
      PROVE  expiry' = expiry
  BY <1>3 DEF ResetPassword, VerifyPasswordResetToken, ReadUser, SaveUser,
              DeleteToken, Get, Delete, cacheVars
<1>4. ASSUME NEW r \in Requests, Fail(r) PROVE expiry' = expiry
  BY <1>4 DEF Fail, cacheVars
<1>5. ASSUME VerifyLink \/ Tick PROVE expiry' = expiry
  BY <1>5 DEF VerifyLink, Peek, Get, Tick, Elapse
<1>6. ASSUME NEW p \in Processes, KeepCopy(p) \/ Crash(p) PROVE expiry' = expiry
  BY <1>6 DEF KeepCopy, Keep, Crash, Forget
<1>7. ASSUME UNCHANGED vars PROVE expiry' = expiry
  BY <1>7 DEF vars, cacheVars
<1>8. expiry'[t] = expiry[t]
  BY <1>1, <1>2, <1>3, <1>4, <1>5, <1>6, <1>7 DEF Next
<1> QED
  BY <1>8 DEF Issued

---------------------------------------------------------------------------
(* Types                                                                   *)

\* Initially every variable has its type and no request carries anything.
LEMMA InitTyped == Init => Typed
<1> SUFFICES ASSUME Init PROVE Typed
  OBVIOUS
<1>1. CacheTypeOK
  BY LifetimeAssumption DEF Init, CacheInit, CacheTypeOK
<1>2. Idle \in RequestState /\ Idle.pc = "idle"
  BY DEF Idle, RequestState, Steps
<1>3. req \in [Requests -> RequestState] /\ \A r \in Requests : req[r].pc = "idle"
  BY <1>2 DEF Init
<1>4. TypeOK
  BY <1>1, <1>3 DEF Init, TypeOK
<1>5. Carries
  BY <1>3 DEF Carries
<1> QED
  BY <1>4, <1>5 DEF Typed

\* What a request is after it went to another step.
LEMMA RequestMoves ==
  ASSUME NEW q \in RequestState, NEW step \in Steps
  PROVE  /\ [q EXCEPT !.pc = step] \in RequestState
         /\ [q EXCEPT !.pc = step].pc = step
         /\ [q EXCEPT !.pc = step].proc = q.proc
         /\ [q EXCEPT !.pc = step].token = q.token
         /\ [q EXCEPT !.pc = step].new = q.new
         /\ [q EXCEPT !.pc = step].spent = q.spent
         /\ [q EXCEPT !.pc = step].late = q.late
BY DEF RequestState

\* A step that leaves the expiries alone keeps the requests well-formed if the
\* request that moves carries what its new step needs.
LEMMA RequestStep ==
  ASSUME req \in [Requests -> RequestState], Carries, UNCHANGED expiry,
         NEW r \in Requests, NEW q \in RequestState, req' = [req EXCEPT ![r] = q],
         /\ q.pc \in {"lookup", "generate", "close"} => q.proc \in Processes
         /\ q.pc \in {"check", "read", "save", "close"} =>
              q.proc \in Processes /\ q.token \in Tokens /\ q.new \in Passwords
         /\ q.pc = "dispatch" => q.token \in Tokens /\ Issued(q.token)
  PROVE  (req \in [Requests -> RequestState])' /\ Carries'
<1>1. req'[r] = q /\ \A s \in Requests : s # r => req'[s] = req[s]
  OBVIOUS
<1>2. Carries'
  BY <1>1 DEF Carries, Issued
<1>3. (req \in [Requests -> RequestState])'
  BY DEF RequestState
<1> QED
  BY <1>2, <1>3

\* The same, for a step that changes nothing but where the request is.
LEMMA RequestGoes ==
  ASSUME req \in [Requests -> RequestState], Carries, UNCHANGED expiry,
         NEW r \in Requests, NEW step \in Steps, Goto(r, step),
         /\ step \notin {"lookup", "generate", "dispatch"}
         /\ step \in {"check", "read", "save", "close"} =>
              /\ req[r].proc \in Processes
              /\ req[r].token \in Tokens
              /\ req[r].new \in Passwords
  PROVE  (req \in [Requests -> RequestState])' /\ Carries'
<1> DEFINE q == [req[r] EXCEPT !.pc = step]
<1>1. req[r] \in RequestState
  OBVIOUS
<1>2. /\ q \in RequestState /\ q.pc = step /\ q.proc = req[r].proc
      /\ q.token = req[r].token /\ q.new = req[r].new
  BY <1>1, RequestMoves
<1>3. req' = [req EXCEPT ![r] = q]
  BY DEF Goto
<1> HIDE DEF q
<1> QED
  BY <1>2, <1>3, RequestStep

\* Every action keeps the types and what each request carries.
LEMMA NextTyped == Typed /\ [Next]_vars => Typed'
<1> SUFFICES ASSUME Typed, [Next]_vars PROVE Typed'
  OBVIOUS
<1>a. /\ TypeOK /\ CacheTypeOK /\ Carries
      /\ req \in [Requests -> RequestState]
      /\ \A r \in Requests : req[r] \in RequestState
  BY DEF Typed, TypeOK
<1>b. ASSUME CacheTypeOK', (req \in [Requests -> RequestState])', Carries',
             password' \in Passwords, used' \in [Tokens -> Nat],
             mails' \subseteq Tokens, consumed' \subseteq Tokens
      PROVE  Typed'
  BY <1>b DEF Typed, TypeOK
<1>c. Forgots \subseteq Requests /\ Resets \subseteq Requests
  BY DEF Requests
<1>d. UNCHANGED cacheVars => CacheTypeOK' /\ UNCHANGED expiry
  BY <1>a DEF cacheVars, CacheTypeOK
<1>1. ASSUME NEW f \in Forgots, SendPasswordResetEmail(f) PROVE Typed'
  <2>1. PICK p \in Processes : req' = [req EXCEPT ![f].pc = "lookup", ![f].proc = p]
    BY <1>1 DEF SendPasswordResetEmail
  <2> DEFINE q == [req[f] EXCEPT !.pc = "lookup", !.proc = p]
  <2>2. q \in RequestState /\ q.pc = "lookup" /\ q.proc = p
    BY <1>a, <1>c DEF RequestState, Steps
  <2>3. req' = [req EXCEPT ![f] = q]
    BY <2>1
  <2> HIDE DEF q
  <2>4. (req \in [Requests -> RequestState])' /\ Carries'
    BY <1>1, <1>a, <1>c, <1>d, <2>2, <2>3, RequestStep DEF SendPasswordResetEmail
  <2> QED
    BY <1>1, <1>a, <1>b, <1>d, <2>4 DEF SendPasswordResetEmail, TypeOK
<1>2. ASSUME NEW f \in Forgots, LookUpToken(f) PROVE Typed'
  <2>1. req[f].proc \in Processes
    BY <1>2, <1>a, <1>c DEF Carries, LookUpToken, At
  <2>2. PICK t \in Tokens \cup {None} :
          /\ Get(req[f].proc, t)
          /\ req' = [req EXCEPT ![f].pc = IF t = None THEN "generate" ELSE "dispatch",
                                ![f].token = t]
    BY <1>2 DEF LookUpToken
  <2>3. CacheTypeOK' /\ UNCHANGED expiry /\ (t # None => Issued(t))
    BY <1>a, <2>1, <2>2, GetAnswersValid
  <2> DEFINE step == IF t = None THEN "generate" ELSE "dispatch"
             q == [req[f] EXCEPT !.pc = step, !.token = t]
  <2>4. req' = [req EXCEPT ![f] = q]
    BY <2>2
  <2>5. step \in Steps /\ step \in {"generate", "dispatch"} /\ (step = "dispatch" => t # None)
    BY DEF Steps
  <2> HIDE DEF step
  <2>6. q \in RequestState /\ q.pc = step /\ q.token = t /\ q.proc = req[f].proc
    BY <1>a, <1>c, <2>5 DEF RequestState
  <2> HIDE DEF q
  <2>7. (req \in [Requests -> RequestState])' /\ Carries'
    BY <1>a, <1>c, <2>1, <2>3, <2>4, <2>5, <2>6, RequestStep
  <2> QED
    BY <1>2, <1>a, <1>b, <2>3, <2>7 DEF LookUpToken, TypeOK
<1>3. ASSUME NEW f \in Forgots, GeneratePasswordResetToken(f) PROVE Typed'
  <2>1. req[f].proc \in Processes
    BY <1>3, <1>a, <1>c DEF Carries, GeneratePasswordResetToken, At
  <2>2. PICK t \in Tokens :
          /\ SetFresh(req[f].proc, t)
          /\ req' = [req EXCEPT ![f].pc = "dispatch", ![f].token = t]
    BY <1>3 DEF GeneratePasswordResetToken
  <2>3. CacheTypeOK' /\ Issued(t)'
    BY <1>a, <2>1, <2>2, SetFreshIssues
  <2>4. \A u \in Tokens : Issued(u) => Issued(u)'
    BY <1>a, ExpiryStays
  <2> DEFINE q == [req[f] EXCEPT !.pc = "dispatch", !.token = t]
  <2>5. q \in RequestState /\ q.pc = "dispatch" /\ q.token = t
    BY <1>a, <1>c DEF RequestState, Steps
  <2>6. req' = [req EXCEPT ![f] = q]
    BY <2>2
  <2> HIDE DEF q
  <2>7. req'[f] = q /\ \A s \in Requests : s # f => req'[s] = req[s]
    BY <1>a, <1>c, <2>6
  <2>8. (req \in [Requests -> RequestState])'
    BY <1>a, <1>c, <2>5, <2>6 DEF RequestState
  <2>9. Carries'
    BY <1>a, <2>3, <2>4, <2>5, <2>7 DEF Carries
  <2> QED
    BY <1>3, <1>a, <1>b, <2>3, <2>8, <2>9 DEF GeneratePasswordResetToken, TypeOK
<1>4. ASSUME NEW f \in Forgots, DispatchEmail(f) PROVE Typed'
  <2>1. req[f].token \in Tokens
    BY <1>4, <1>a, <1>c DEF Carries, DispatchEmail, At
  <2>2. mails' \subseteq Tokens
    BY <1>4, <1>a, <2>1, LifetimeAssumption DEF DispatchEmail, TypeOK, CacheTypeOK
  <2>3. (req \in [Requests -> RequestState])' /\ Carries'
    BY <1>4, <1>a, <1>c, <1>d, RequestGoes DEF DispatchEmail, Steps
  <2> QED
    BY <1>4, <1>a, <1>b, <1>d, <2>2, <2>3 DEF DispatchEmail, TypeOK
<1>5. ASSUME NEW r \in Resets, ResetPassword(r) PROVE Typed'
  <2>1. PICK m \in mails, p \in Processes, new \in Passwords :
          req' = [req EXCEPT ![r] =
            [pc |-> "check", proc |-> p, token |-> m, new |-> new,
             spent |-> m \in consumed /\ ~Holds(p, m), late |-> ~Valid(m)]]
    BY <1>5 DEF ResetPassword
  <2>2. m \in Tokens
    BY <1>a DEF TypeOK
  <2> DEFINE q == [pc |-> "check", proc |-> p, token |-> m, new |-> new,
                   spent |-> m \in consumed /\ ~Holds(p, m),
                   late |-> ~Valid(m)]
  <2>3. /\ (~Valid(m)) \in BOOLEAN
        /\ (m \in consumed /\ ~Holds(p, m)) \in BOOLEAN
    OBVIOUS
  <2>4. /\ q \in RequestState /\ q.pc = "check" /\ q.proc = p /\ q.token = m
        /\ q.new = new
    BY <2>2, <2>3 DEF RequestState, Steps
  <2>5. req' = [req EXCEPT ![r] = q]
    BY <2>1
  <2> HIDE DEF q
  <2>6. (req \in [Requests -> RequestState])' /\ Carries'
    BY <1>5, <1>a, <1>c, <1>d, <2>2, <2>4, <2>5, RequestStep DEF ResetPassword
  <2> QED
    BY <1>5, <1>a, <1>b, <1>d, <2>6 DEF ResetPassword, TypeOK
<1>6. ASSUME NEW r \in Resets, VerifyPasswordResetToken(r) PROVE Typed'
  <2>1. /\ req[r].proc \in Processes /\ req[r].token \in Tokens
        /\ req[r].new \in Passwords
    BY <1>6, <1>a, <1>c DEF VerifyPasswordResetToken, At, Carries
  <2>2. PICK t \in Tokens \cup {None} :
          /\ Get(req[r].proc, t)
          /\ Goto(r, IF t = req[r].token THEN "read" ELSE "failed")
    BY <1>6 DEF VerifyPasswordResetToken
  <2>3. CacheTypeOK' /\ UNCHANGED expiry
    BY <1>a, <2>1, <2>2, GetAnswersValid
  <2>4. (req \in [Requests -> RequestState])' /\ Carries'
    BY <1>a, <1>c, <2>1, <2>2, <2>3, RequestGoes DEF Steps
  <2> QED
    BY <1>6, <1>a, <1>b, <2>3, <2>4 DEF VerifyPasswordResetToken, TypeOK
<1>7. ASSUME NEW r \in Resets, ReadUser(r) PROVE Typed'
  <2>1. /\ req[r].proc \in Processes /\ req[r].token \in Tokens
        /\ req[r].new \in Passwords
    BY <1>7, <1>a, <1>c DEF ReadUser, At, Carries
  <2>2. (req \in [Requests -> RequestState])' /\ Carries'
    BY <1>7, <1>a, <1>c, <1>d, <2>1, RequestGoes DEF ReadUser, Steps
  <2> QED
    BY <1>7, <1>a, <1>b, <1>d, <2>2 DEF ReadUser, TypeOK
<1>8. ASSUME NEW r \in Resets, SaveUser(r) PROVE Typed'
  <2>1. /\ req[r].proc \in Processes /\ req[r].token \in Tokens
        /\ req[r].new \in Passwords
    BY <1>8, <1>a, <1>c DEF SaveUser, At, Carries
  <2>2. used' \in [Tokens -> Nat] /\ password' \in Passwords
    BY <1>8, <1>a, <2>1 DEF SaveUser, TypeOK
  <2>3. (req \in [Requests -> RequestState])' /\ Carries'
    BY <1>8, <1>a, <1>c, <1>d, <2>1, RequestGoes DEF SaveUser, Steps
  <2> QED
    BY <1>8, <1>a, <1>b, <1>d, <2>2, <2>3 DEF SaveUser, TypeOK
<1>9. ASSUME NEW r \in Resets, DeleteToken(r) PROVE Typed'
  <2>1. req[r].proc \in Processes /\ req[r].token \in Tokens
    BY <1>9, <1>a, <1>c DEF DeleteToken, At, Carries
  <2>2. CacheTypeOK' /\ UNCHANGED expiry
    BY <1>9, <1>a, <2>1, DeleteClears DEF DeleteToken
  <2>3. consumed' \subseteq Tokens
    BY <1>9, <1>a, <2>1 DEF DeleteToken, TypeOK
  <2>4. (req \in [Requests -> RequestState])' /\ Carries'
    BY <1>9, <1>a, <1>c, <2>2, RequestGoes DEF DeleteToken, Steps
  <2> QED
    BY <1>9, <1>a, <1>b, <2>2, <2>3, <2>4 DEF DeleteToken, TypeOK
<1>10. ASSUME NEW r \in Requests, Fail(r) PROVE Typed'
  <2>1. (req \in [Requests -> RequestState])' /\ Carries'
    BY <1>10, <1>a, <1>d, RequestGoes DEF Fail, Steps
  <2> QED
    BY <1>10, <1>a, <1>b, <1>d, <2>1 DEF Fail, TypeOK
<1>11. ASSUME VerifyLink PROVE Typed'
  <2>1. PICK p \in Processes, t \in Tokens : Get(p, t)
    BY <1>11 DEF VerifyLink, Peek
  <2>2. CacheTypeOK' /\ UNCHANGED expiry
    BY <1>a, <2>1, GetAnswersValid
  <2>3. Carries' /\ (req \in [Requests -> RequestState])'
    BY <1>11, <1>a, <2>2 DEF VerifyLink, Carries, Issued, RequestState
  <2> QED
    BY <1>11, <1>a, <1>b, <2>2, <2>3 DEF VerifyLink, TypeOK
<1>12. ASSUME Tick PROVE Typed'
  <2>1. CacheTypeOK' /\ UNCHANGED expiry
    BY <1>12, <1>a, LifetimeAssumption DEF Tick, Elapse, CacheTypeOK
  <2>2. Carries' /\ (req \in [Requests -> RequestState])'
    BY <1>12, <1>a, <2>1 DEF Tick, Carries, Issued, RequestState
  <2> QED
    BY <1>12, <1>a, <1>b, <2>1, <2>2 DEF Tick, TypeOK
<1>13. ASSUME NEW p \in Processes, Crash(p) PROVE Typed'
  <2>1. CacheTypeOK' /\ UNCHANGED expiry
    BY <1>13, <1>a DEF Crash, Forget, CacheTypeOK
  <2>2. \A r \in Requests : req'[r] = req[r] \/ req'[r] = [req[r] EXCEPT !.pc = "failed"]
    BY <1>13 DEF Crash
  <2>3. \A r \in Requests :
          /\ req'[r] \in RequestState
          /\ req'[r] = req[r] \/ req'[r].pc = "failed"
    <3> SUFFICES ASSUME NEW r \in Requests
                 PROVE  /\ req'[r] \in RequestState
                        /\ req'[r] = req[r] \/ req'[r].pc = "failed"
      OBVIOUS
    <3>1. [req[r] EXCEPT !.pc = "failed"] \in RequestState
      BY <1>a DEF RequestState, Steps
    <3>2. [req[r] EXCEPT !.pc = "failed"].pc = "failed"
      BY <1>a DEF RequestState
    <3> QED
      BY <1>a, <2>2, <3>1, <3>2
  <2>4. (req \in [Requests -> RequestState])'
    BY <1>13, <2>3 DEF Crash, RequestState
  <2>5. Carries'
    BY <1>a, <2>1, <2>3 DEF Carries, Issued
  <2> QED
    BY <1>13, <1>a, <1>b, <2>1, <2>4, <2>5 DEF Crash, TypeOK
<1>14. ASSUME NEW p \in Processes, KeepCopy(p) PROVE Typed'
  <2>1. CacheTypeOK' /\ UNCHANGED expiry
    BY <1>14, <1>a DEF KeepCopy, Keep, CacheTypeOK
  <2>2. Carries' /\ (req \in [Requests -> RequestState])'
    BY <1>14, <1>a, <2>1 DEF KeepCopy, Carries, Issued, RequestState
  <2> QED
    BY <1>14, <1>a, <1>b, <2>1, <2>2 DEF KeepCopy, TypeOK
<1>15. ASSUME UNCHANGED vars PROVE Typed'
  <2>1. CacheTypeOK' /\ UNCHANGED expiry
    BY <1>15, <1>d DEF vars
  <2>2. Carries' /\ (req \in [Requests -> RequestState])'
    BY <1>15, <1>a, <2>1 DEF vars, Carries, Issued, RequestState
  <2> QED
    BY <1>15, <1>a, <1>b, <2>1, <2>2 DEF vars, TypeOK
<1> QED
  BY <1>1, <1>2, <1>3, <1>4, <1>5, <1>6, <1>7, <1>8, <1>9, <1>10, <1>11, <1>12,
     <1>13, <1>14, <1>15 DEF Next

\* Every variable of the password reset always has its type; in particular
\* no email is sent without a token that was put in the cache.
THEOREM TypeCorrect == Spec => []TypeOK
<1>1. Typed => TypeOK
  BY DEF Typed
<1> QED
  BY InitTyped, NextTyped, <1>1, PTL DEF Spec

---------------------------------------------------------------------------
(* Expired links                                                           *)

\* The emails only carry tokens that were put in the cache.
LEMMA LinksStayIssued ==
  Typed /\ LinksIssued /\ [Next]_vars => LinksIssued'
<1> SUFFICES ASSUME Typed, LinksIssued, [Next]_vars PROVE LinksIssued'
  OBVIOUS
<1>1. \A t \in Tokens : Issued(t) => Issued(t)'
  BY ExpiryStays DEF Typed
<1>2. \A m \in mails : m \in Tokens
  BY DEF Typed, TypeOK
<1>3. CASE mails' = mails
  BY <1>1, <1>2, <1>3 DEF LinksIssued
<1>4. ASSUME NEW f \in Forgots, DispatchEmail(f) PROVE LinksIssued'
  <2>1. req[f].token \in Tokens /\ Issued(req[f].token)
    BY <1>4 DEF DispatchEmail, At, Requests, Typed, Carries
  <2>2. \A m \in mails' : m \in mails \/ m = req[f].token
    BY <1>4 DEF DispatchEmail
  <2> QED
    BY <1>1, <1>2, <2>1, <2>2 DEF LinksIssued
<1>5. mails' = mails \/ \E f \in Forgots : DispatchEmail(f)
  BY DEF Next, vars, SendPasswordResetEmail, LookUpToken, GeneratePasswordResetToken,
         ResetPassword, VerifyPasswordResetToken, ReadUser, SaveUser, DeleteToken,
         Fail, VerifyLink, Tick, KeepCopy, Crash
<1> QED
  BY <1>3, <1>4, <1>5

\* Where a request that arrived with a bad link can be: nowhere but at the
\* check or after it failed. What a step does to the requests that are there.
LEMMA ChecksOrFails ==
  ASSUME Typed, [Next]_vars, NEW r \in Requests, req[r].pc \in {"check", "failed"}
  PROVE  \/ req'[r] = req[r]
         \/ req'[r] = [req[r] EXCEPT !.pc = "failed"]
         \/ /\ VerifyPasswordResetToken(r)
            /\ req[r].token \in Readable(req[r].proc)
            /\ req[r].proc \in Processes /\ req[r].token \in Tokens
<1>a. req \in [Requests -> RequestState]
  BY DEF Typed, TypeOK
<1>1. ASSUME NEW f \in Forgots,
             \/ SendPasswordResetEmail(f) \/ LookUpToken(f)
             \/ GeneratePasswordResetToken(f) \/ DispatchEmail(f)
      PROVE  req'[r] = req[r]
  BY <1>1, <1>a DEF SendPasswordResetEmail, LookUpToken, GeneratePasswordResetToken,
                    DispatchEmail, Goto, At, Requests
<1>2. ASSUME NEW s \in Resets,
             ResetPassword(s) \/ ReadUser(s) \/ SaveUser(s) \/ DeleteToken(s)
      PROVE  req'[r] = req[r]
  BY <1>2, <1>a DEF ResetPassword, ReadUser, SaveUser, DeleteToken, Goto, At, Requests
<1>3. ASSUME NEW s \in Resets, VerifyPasswordResetToken(s), s # r
      PROVE  req'[r] = req[r]
  BY <1>3, <1>a DEF VerifyPasswordResetToken, Goto, Requests
<1>4. ASSUME VerifyPasswordResetToken(r)
      PROVE  \/ req'[r] = [req[r] EXCEPT !.pc = "failed"]
             \/ /\ req[r].token \in Readable(req[r].proc)
                /\ req[r].proc \in Processes /\ req[r].token \in Tokens
  <2>1. req[r].proc \in Processes /\ req[r].token \in Tokens
    BY <1>4 DEF VerifyPasswordResetToken, At, Typed, Carries
  <2>2. PICK t \in Tokens \cup {None} :
          /\ Get(req[r].proc, t)
          /\ Goto(r, IF t = req[r].token THEN "read" ELSE "failed")
    BY <1>4 DEF VerifyPasswordResetToken
  <2>3. CASE t = req[r].token
    BY <2>1, <2>2, <2>3 DEF Get
  <2>4. CASE t # req[r].token
    <3>1. req' = [req EXCEPT ![r].pc = "failed"]
      BY <2>2, <2>4 DEF Goto
    <3> QED
      BY <1>a, <3>1
  <2> QED
    BY <2>3, <2>4
<1>5. ASSUME NEW s \in Requests, Fail(s)
      PROVE  req'[r] = req[r] \/ req'[r] = [req[r] EXCEPT !.pc = "failed"]
  BY <1>5, <1>a DEF Fail, Goto
<1>6. ASSUME NEW p \in Processes, Crash(p)
      PROVE  req'[r] = req[r] \/ req'[r] = [req[r] EXCEPT !.pc = "failed"]
  BY <1>6 DEF Crash
<1>7. ASSUME VerifyLink \/ Tick \/ UNCHANGED vars PROVE req'[r] = req[r]
  BY <1>7 DEF VerifyLink, Tick, vars
<1>8. ASSUME NEW p \in Processes, KeepCopy(p) PROVE req'[r] = req[r]
  BY <1>8 DEF KeepCopy
<1> QED
  BY <1>1, <1>2, <1>3, <1>4, <1>5, <1>6, <1>7, <1>8 DEF Next

\* What is recorded of a link when it arrives is only ever recorded then.
LEMMA MarkedOnArrival ==
  ASSUME Typed, [Next]_vars, NEW r \in Requests
  PROVE  \/ req'[r].late = req[r].late /\ req'[r].spent = req[r].spent
         \/ /\ UNCHANGED <<cacheVars, consumed>>
            /\ \E m \in mails :
                 /\ req'[r].pc = "check"
                 /\ req'[r].token = m
                 /\ req'[r].late = ~Valid(m)
                 /\ req'[r].proc \in Processes
                 /\ req'[r].spent =>
                      m \in consumed /\ ~Holds(req'[r].proc, m)
<1>a. req \in [Requests -> RequestState] /\ req[r] \in RequestState
  BY DEF Typed, TypeOK
<1> DEFINE Same == req'[r].late = req[r].late /\ req'[r].spent = req[r].spent
<1>b. ASSUME NEW s \in Requests, NEW step, req' = [req EXCEPT ![s].pc = step]
      PROVE  Same
  BY <1>a, <1>b DEF RequestState
<1>1. ASSUME NEW f \in Forgots, SendPasswordResetEmail(f) PROVE Same
  <2>1. PICK p \in Processes : req' = [req EXCEPT ![f].pc = "lookup", ![f].proc = p]
    BY <1>1 DEF SendPasswordResetEmail
  <2> QED
    BY <1>a, <2>1 DEF RequestState, Requests
<1>2. ASSUME NEW f \in Forgots, LookUpToken(f) PROVE Same
  <2>1. PICK t \in Tokens \cup {None} :
          req' = [req EXCEPT ![f].pc = IF t = None THEN "generate" ELSE "dispatch",
                             ![f].token = t]
    BY <1>2 DEF LookUpToken
  <2> QED
    BY <1>a, <2>1 DEF RequestState, Requests
<1>3. ASSUME NEW f \in Forgots, GeneratePasswordResetToken(f) PROVE Same
  <2>1. PICK t \in Tokens : req' = [req EXCEPT ![f].pc = "dispatch", ![f].token = t]
    BY <1>3 DEF GeneratePasswordResetToken
  <2> QED
    BY <1>a, <2>1 DEF RequestState, Requests
<1>4. ASSUME NEW f \in Forgots, DispatchEmail(f) PROVE Same
  BY <1>4, <1>b DEF DispatchEmail, Goto, Requests
<1>5. ASSUME NEW s \in Resets, ResetPassword(s), s # r PROVE Same
  BY <1>5, <1>a DEF ResetPassword
<1>6. ASSUME ResetPassword(r)
      PROVE  /\ UNCHANGED <<cacheVars, consumed>>
             /\ \E m \in mails :
                  /\ req'[r].pc = "check"
                  /\ req'[r].token = m
                  /\ req'[r].late = ~Valid(m)
                  /\ req'[r].proc \in Processes
                  /\ req'[r].spent =>
                       m \in consumed /\ ~Holds(req'[r].proc, m)
  <2>1. PICK m \in mails, p \in Processes, new \in Passwords :
          req' = [req EXCEPT ![r] =
            [pc |-> "check", proc |-> p, token |-> m, new |-> new,
             spent |-> m \in consumed /\ ~Holds(p, m), late |-> ~Valid(m)]]
    BY <1>6 DEF ResetPassword
  <2> DEFINE spent == m \in consumed /\ ~Holds(p, m)
  <2>2. spent => m \in consumed /\ ~Holds(p, m)
    OBVIOUS
  <2> HIDE DEF spent
  <2>3. /\ req'[r].pc = "check" /\ req'[r].token = m /\ req'[r].proc = p
        /\ req'[r].late = ~Valid(m) /\ req'[r].spent = spent
    BY <1>a, <2>1 DEF spent
  <2> QED
    BY <1>6, <2>2, <2>3 DEF ResetPassword
<1>7. ASSUME NEW s \in Resets,
             VerifyPasswordResetToken(s) \/ ReadUser(s) \/ SaveUser(s) \/ DeleteToken(s)
      PROVE  Same
  <2>1. \E step : req' = [req EXCEPT ![s].pc = step]
    BY <1>7 DEF VerifyPasswordResetToken, ReadUser, SaveUser, DeleteToken, Goto
  <2> QED
    BY <1>b, <2>1 DEF Requests
<1>8. ASSUME NEW s \in Requests, Fail(s) PROVE Same
  BY <1>8, <1>b DEF Fail, Goto
<1>9. ASSUME NEW p \in Processes, Crash(p) PROVE Same
  <2>1. req'[r] = req[r] \/ req'[r] = [req[r] EXCEPT !.pc = "failed"]
    BY <1>9 DEF Crash
  <2> QED
    BY <1>a, <2>1 DEF RequestState
<1>10. ASSUME VerifyLink \/ Tick \/ UNCHANGED vars PROVE Same
  BY <1>10 DEF VerifyLink, Tick, vars
<1>11. ASSUME NEW p \in Processes, KeepCopy(p) PROVE Same
  BY <1>11 DEF KeepCopy
<1> QED
  BY <1>1, <1>2, <1>3, <1>4, <1>5, <1>6, <1>7, <1>8, <1>9, <1>10, <1>11 DEF Next

\* The clock never goes back.
LEMMA ClockRuns == TypeOK /\ Carries /\ [Next]_vars => now' \in Nat /\ now <= now'
<1> SUFFICES ASSUME TypeOK, Carries, [Next]_vars PROVE now' = now \/ now' = now + 1
  BY LifetimeAssumption DEF TypeOK, CacheTypeOK
<1>1. ASSUME NEW f \in Forgots,
             \/ SendPasswordResetEmail(f) \/ LookUpToken(f)
             \/ GeneratePasswordResetToken(f) \/ DispatchEmail(f)
      PROVE  now' = now
  BY <1>1 DEF SendPasswordResetEmail, LookUpToken, GeneratePasswordResetToken,
              DispatchEmail, Get, SetFresh, cacheVars
<1>2. ASSUME NEW r \in Resets,
             \/ ResetPassword(r) \/ VerifyPasswordResetToken(r) \/ ReadUser(r)
             \/ SaveUser(r) \/ DeleteToken(r)
      PROVE  now' = now
  BY <1>2 DEF ResetPassword, VerifyPasswordResetToken, ReadUser, SaveUser,
              DeleteToken, Get, Delete, cacheVars
<1>3. ASSUME NEW r \in Requests, Fail(r) PROVE now' = now
  BY <1>3 DEF Fail, cacheVars
<1>4. ASSUME VerifyLink \/ UNCHANGED vars PROVE now' = now
  BY <1>4 DEF VerifyLink, Peek, Get, vars, cacheVars
<1>5. ASSUME NEW p \in Processes, KeepCopy(p) \/ Crash(p) PROVE now' = now
  BY <1>5 DEF KeepCopy, Keep, Crash, Forget
<1>6. ASSUME Tick PROVE now' = now + 1
  BY <1>6 DEF Tick, Elapse
<1> QED
  BY <1>1, <1>2, <1>3, <1>4, <1>5, <1>6 DEF Next

\* A request that arrived late stays late and never gets past the check.
LEMMA LateStaysOut ==
  Typed /\ LinksIssued /\ ArrivedLate /\ [Next]_vars => ArrivedLate'
<1> SUFFICES ASSUME Typed, LinksIssued, ArrivedLate, [Next]_vars,
                    NEW r \in Requests, req'[r].late
             PROVE  /\ req'[r].pc \in {"check", "failed"}
                    /\ req'[r].token \in Tokens
                    /\ expiry'[req'[r].token] # 0
                    /\ expiry'[req'[r].token] <= now'
  BY DEF ArrivedLate, Issued
<1>a. /\ TypeOK /\ Carries /\ req[r] \in RequestState
      /\ now \in Nat /\ expiry \in [Tokens -> Nat]
      /\ \A m \in mails : m \in Tokens
  BY LifetimeAssumption DEF Typed, TypeOK, CacheTypeOK
<1>1. CASE req[r].late
  <2>1. /\ req[r].pc \in {"check", "failed"} /\ req[r].token \in Tokens
        /\ Issued(req[r].token) /\ expiry[req[r].token] <= now
    BY <1>1 DEF ArrivedLate
  <2>2. ~Valid(req[r].token)
    BY <1>a, <2>1 DEF Valid
  <2>3. req[r].token \notin Readable(req[r].proc)
    BY <2>1, <2>2, TokensAssumption DEF Readable
  <2>4. req'[r] = req[r] \/ req'[r] = [req[r] EXCEPT !.pc = "failed"]
    BY <2>1, <2>3, ChecksOrFails
  <2>5. req'[r].pc \in {"check", "failed"} /\ req'[r].token = req[r].token
    BY <1>a, <2>1, <2>4 DEF RequestState
  <2>6. expiry'[req[r].token] = expiry[req[r].token]
    BY <1>a, <2>1, ExpiryStays
  <2>7. now' \in Nat /\ now <= now'
    BY <1>a, ClockRuns
  <2> QED
    BY <1>a, <2>1, <2>5, <2>6, <2>7 DEF Issued
<1>2. CASE ~req[r].late
  <2>1. PICK m \in mails :
          /\ UNCHANGED cacheVars
          /\ req'[r].pc = "check"
          /\ req'[r].token = m
          /\ req'[r].late = ~Valid(m)
    BY <1>2, MarkedOnArrival
  <2>2. m \in Tokens /\ Issued(m) /\ ~Valid(m)
    BY <1>a, <2>1 DEF LinksIssued
  <2>3. expiry[m] <= now
    BY <1>a, <2>2, TokensAssumption DEF Valid
  <2> QED
    BY <2>1, <2>2, <2>3 DEF cacheVars, Issued
<1> QED
  BY <1>1, <1>2

\* A reset whose link had expired when it arrived never changes the password,
\* however the cache's memories, redis, the clock and crashes interleave:
\* verifyPasswordResetToken (authentication_service.ts) never answers for it.
THEOREM ExpiredNeverWorks == Spec => []ExpiredLinkRefused
<1>1. Init => ExpiryInv
  <2> SUFFICES ASSUME Init PROVE ExpiryInv
    OBVIOUS
  <2>1. LinksIssued
    BY DEF Init, LinksIssued
  <2>2. \A r \in Requests : ~req[r].late
    BY DEF Init, Idle
  <2> QED
    BY <2>1, <2>2, InitTyped DEF ExpiryInv, ArrivedLate
<1>2. ExpiryInv /\ [Next]_vars => ExpiryInv'
  BY NextTyped, LinksStayIssued, LateStaysOut DEF ExpiryInv
<1>3. ExpiryInv => ExpiredLinkRefused
  BY DEF ExpiryInv, ArrivedLate, ExpiredLinkRefused, Requests
<1> QED
  BY <1>1, <1>2, <1>3, PTL DEF Spec

---------------------------------------------------------------------------
(* Consumed links                                                          *)

\* A request only ever holds tokens that were put in the cache.
LEMMA HeldStayIssued ==
  Typed /\ LinksIssued /\ HeldIssued /\ [Next]_vars => HeldIssued'
<1> SUFFICES ASSUME Typed, LinksIssued, HeldIssued, [Next]_vars,
                    NEW r \in Requests, req'[r].token # None
             PROVE  expiry'[req'[r].token] # 0
  BY DEF HeldIssued
<1>a. /\ TypeOK /\ Carries /\ CacheTypeOK
      /\ req \in [Requests -> RequestState] /\ req[r] \in RequestState
      /\ \A m \in mails : m \in Tokens
  BY DEF Typed, TypeOK
<1>b. \A t \in Tokens : expiry[t] # 0 => expiry'[t] # 0
  BY <1>a, ExpiryStays DEF Issued
<1>c. req[r].token # None => req[r].token \in Tokens /\ expiry[req[r].token] # 0
  BY <1>a DEF HeldIssued, RequestState
<1> DEFINE Same == req'[r].token = req[r].token
<1>d. Same => expiry'[req'[r].token] # 0
  BY <1>b, <1>c
<1>e. ASSUME NEW s \in Requests, NEW step, req' = [req EXCEPT ![s].pc = step]
      PROVE  Same
  BY <1>a, <1>e DEF RequestState
<1>1. ASSUME NEW f \in Forgots, SendPasswordResetEmail(f) PROVE Same
  <2>1. PICK p \in Processes : req' = [req EXCEPT ![f].pc = "lookup", ![f].proc = p]
    BY <1>1 DEF SendPasswordResetEmail
  <2> QED
    BY <1>a, <2>1 DEF RequestState, Requests
<1>2. ASSUME NEW f \in Forgots, LookUpToken(f)
      PROVE  Same \/ expiry'[req'[r].token] # 0
  <2>1. req[f].proc \in Processes
    BY <1>2, <1>a DEF LookUpToken, At, Carries, Requests
  <2>2. PICK t \in Tokens \cup {None} :
          /\ Get(req[f].proc, t)
          /\ req' = [req EXCEPT ![f].pc = IF t = None THEN "generate" ELSE "dispatch",
                                ![f].token = t]
    BY <1>2 DEF LookUpToken
  <2>3. Same \/ req'[r].token = t
    BY <1>a, <2>2 DEF RequestState, Requests
  <2>4. t # None => expiry'[t] # 0
    BY <1>a, <2>1, <2>2, GetAnswersValid DEF Issued
  <2> QED
    BY <2>3, <2>4
<1>3. ASSUME NEW f \in Forgots, GeneratePasswordResetToken(f)
      PROVE  Same \/ expiry'[req'[r].token] # 0
  <2>1. req[f].proc \in Processes
    BY <1>3, <1>a DEF GeneratePasswordResetToken, At, Carries, Requests
  <2>2. PICK t \in Tokens :
          /\ SetFresh(req[f].proc, t)
          /\ req' = [req EXCEPT ![f].pc = "dispatch", ![f].token = t]
    BY <1>3 DEF GeneratePasswordResetToken
  <2>3. Same \/ req'[r].token = t
    BY <1>a, <2>2 DEF RequestState, Requests
  <2>4. expiry'[t] # 0
    BY <1>a, <2>1, <2>2, SetFreshIssues DEF Issued
  <2> QED
    BY <2>3, <2>4
<1>4. ASSUME NEW f \in Forgots, DispatchEmail(f) PROVE Same
  BY <1>4, <1>e DEF DispatchEmail, Goto, Requests
<1>5. ASSUME NEW s \in Resets, ResetPassword(s)
      PROVE  Same \/ expiry'[req'[r].token] # 0
  <2>1. Same \/ \E m \in mails : req'[r].token = m
    BY <1>5, <1>a DEF ResetPassword
  <2> QED
    BY <1>a, <1>b, <2>1 DEF LinksIssued, Issued
<1>6. ASSUME NEW s \in Resets,
             VerifyPasswordResetToken(s) \/ ReadUser(s) \/ SaveUser(s) \/ DeleteToken(s)
      PROVE  Same
  <2>1. \E step : req' = [req EXCEPT ![s].pc = step]
    BY <1>6 DEF VerifyPasswordResetToken, ReadUser, SaveUser, DeleteToken, Goto
  <2> QED
    BY <1>e, <2>1 DEF Requests
<1>7. ASSUME NEW s \in Requests, Fail(s) PROVE Same
  BY <1>7, <1>e DEF Fail, Goto
<1>8. ASSUME NEW p \in Processes, Crash(p) PROVE Same
  <2>1. req'[r] = req[r] \/ req'[r] = [req[r] EXCEPT !.pc = "failed"]
    BY <1>8 DEF Crash
  <2> QED
    BY <1>a, <2>1 DEF RequestState
<1>9. ASSUME VerifyLink \/ Tick \/ UNCHANGED vars PROVE Same
  BY <1>9 DEF VerifyLink, Tick, vars
<1>10. ASSUME NEW p \in Processes, KeepCopy(p) PROVE Same
  BY <1>10 DEF KeepCopy
<1> HIDE DEF Same
<1> QED
  BY <1>d, <1>1, <1>2, <1>3, <1>4, <1>5, <1>6, <1>7, <1>8, <1>9, <1>10 DEF Next

\* Redis only ever receives tokens that never were before: nothing brings a
\* consumed one back.
LEMMA ConsumedStaysGone ==
  ASSUME Typed, HeldIssued, ConsumedIsGone, [Next]_vars
  PROVE  ConsumedIsGone' /\ consumed \subseteq consumed'
<1>a. /\ TypeOK /\ Carries /\ CacheTypeOK /\ consumed \subseteq Tokens
      /\ req \in [Requests -> RequestState]
      /\ None \notin Tokens
  BY TokensAssumption DEF Typed, TypeOK
<1>b. \A t \in Tokens : expiry[t] # 0 => expiry'[t] # 0
  BY <1>a, ExpiryStays DEF Issued
<1>c. ASSUME consumed' = consumed, \A t \in consumed : redis' # t
      PROVE  ConsumedIsGone' /\ consumed \subseteq consumed'
  BY <1>a, <1>b, <1>c DEF ConsumedIsGone, Issued
<1>1. ASSUME consumed' = consumed, redis' = redis
      PROVE  ConsumedIsGone' /\ consumed \subseteq consumed'
  BY <1>1, <1>c DEF ConsumedIsGone
<1>2. ASSUME NEW f \in Forgots, GeneratePasswordResetToken(f)
      PROVE  ConsumedIsGone' /\ consumed \subseteq consumed'
  <2>1. req[f].proc \in Processes
    BY <1>2, <1>a DEF GeneratePasswordResetToken, At, Carries, Requests
  <2>2. PICK u \in Tokens : SetFresh(req[f].proc, u)
    BY <1>2 DEF GeneratePasswordResetToken
  <2>3. ~Issued(u) /\ redis' \in {u, redis}
    BY <1>a, <2>1, <2>2, SetFreshIssues
  <2>4. \A t \in consumed : redis' # t
    BY <2>3 DEF ConsumedIsGone
  <2> QED
    BY <1>2, <1>c, <2>4 DEF GeneratePasswordResetToken
<1>3. ASSUME NEW r \in Resets, DeleteToken(r)
      PROVE  ConsumedIsGone' /\ consumed \subseteq consumed'
  <2>1. req[r].proc \in Processes /\ req[r].token \in Tokens
    BY <1>3, <1>a DEF DeleteToken, At, Carries, Requests
  <2>2. redis' \in {None, redis}
    BY <1>3, <1>a, <2>1, DeleteClears DEF DeleteToken
  <2>3. CASE redis' = None
    <3>1. consumed' = consumed \cup {req[r].token}
      BY <1>3, <2>3 DEF DeleteToken
    <3>2. expiry[req[r].token] # 0
      BY <1>a, <2>1 DEF HeldIssued, Requests
    <3>3. \A t \in consumed' : t \in Tokens /\ expiry[t] # 0
      BY <1>a, <2>1, <3>1, <3>2 DEF ConsumedIsGone, Issued
    <3> QED
      BY <1>a, <1>b, <2>3, <3>1, <3>3 DEF ConsumedIsGone, Issued
  <2>4. CASE redis' # None
    BY <1>3, <1>1, <2>2, <2>4 DEF DeleteToken
  <2> QED
    BY <2>3, <2>4
<1>4. ASSUME NEW f \in Forgots,
             SendPasswordResetEmail(f) \/ LookUpToken(f) \/ DispatchEmail(f)
      PROVE  consumed' = consumed /\ redis' = redis
  BY <1>4 DEF SendPasswordResetEmail, LookUpToken, DispatchEmail, Get, cacheVars
<1>5. ASSUME NEW r \in Resets,
             \/ ResetPassword(r) \/ VerifyPasswordResetToken(r) \/ ReadUser(r)
             \/ SaveUser(r)
      PROVE  consumed' = consumed /\ redis' = redis
  BY <1>5 DEF ResetPassword, VerifyPasswordResetToken, ReadUser, SaveUser, Get,
              cacheVars
<1>6. ASSUME NEW r \in Requests, Fail(r) PROVE consumed' = consumed /\ redis' = redis
  BY <1>6 DEF Fail, cacheVars
<1>7. ASSUME VerifyLink \/ Tick \/ UNCHANGED vars
      PROVE  consumed' = consumed /\ redis' = redis
  BY <1>7 DEF VerifyLink, Peek, Get, Tick, Elapse, vars, cacheVars
<1>8. ASSUME NEW p \in Processes, KeepCopy(p) \/ Crash(p)
      PROVE  consumed' = consumed /\ redis' = redis
  BY <1>8 DEF KeepCopy, Keep, Crash, Forget
<1> QED
  BY <1>1, <1>2, <1>3, <1>4, <1>5, <1>6, <1>7, <1>8 DEF Next

\* A process that has no copy of a consumed token does not get one.
LEMMA NoCopySpreads ==
  ASSUME Typed, HeldIssued, ConsumedIsGone, [Next]_vars,
         NEW p \in Processes, NEW t \in consumed, ~Holds(p, t)
  PROVE  ~Holds(p, t)'
<1>a. /\ CacheTypeOK /\ Carries /\ None \notin Tokens /\ t \in Tokens
      /\ memory \in [Processes -> Tokens \cup {None}]
      /\ fetched \in [Processes -> SUBSET Tokens]
      /\ redis # t /\ Issued(t) /\ memory[p] # t /\ t \notin fetched[p]
  BY TokensAssumption DEF Typed, TypeOK, CacheTypeOK, ConsumedIsGone, Holds
<1>b. ASSUME UNCHANGED <<memory, fetched>> PROVE ~Holds(p, t)'
  BY <1>a, <1>b DEF Holds
<1>c. ASSUME NEW q \in Processes, NEW u \in Tokens \cup {None}, Get(q, u)
      PROVE  ~Holds(p, t)'
  <2>1. /\ fetched' \in {fetched, [fetched EXCEPT ![q] = @ \cup {redis}]}
        /\ memory' = memory
    BY <1>a, <1>c, GetAnswersValid
  <2> QED
    BY <1>a, <2>1 DEF Holds
<1>1. ASSUME NEW f \in Forgots, SendPasswordResetEmail(f) \/ DispatchEmail(f)
      PROVE  ~Holds(p, t)'
  BY <1>1, <1>b DEF SendPasswordResetEmail, DispatchEmail, cacheVars
<1>2. ASSUME NEW f \in Forgots, LookUpToken(f) PROVE ~Holds(p, t)'
  <2>1. req[f].proc \in Processes
    BY <1>2, <1>a DEF LookUpToken, At, Carries, Requests
  <2> QED
    BY <1>2, <1>c, <2>1 DEF LookUpToken
<1>3. ASSUME NEW f \in Forgots, GeneratePasswordResetToken(f) PROVE ~Holds(p, t)'
  <2>1. req[f].proc \in Processes
    BY <1>3, <1>a DEF GeneratePasswordResetToken, At, Carries, Requests
  <2>2. PICK u \in Tokens : SetFresh(req[f].proc, u)
    BY <1>3 DEF GeneratePasswordResetToken
  <2>3. /\ ~Issued(u)
        /\ memory' = [memory EXCEPT ![req[f].proc] = u]
        /\ fetched' = fetched
    BY <1>a, <2>1, <2>2, SetFreshIssues
  <2>4. memory'[p] = memory[p] \/ memory'[p] = u
    BY <1>a, <2>1, <2>3
  <2> QED
    BY <1>a, <2>3, <2>4 DEF Holds
<1>4. ASSUME NEW r \in Resets, ResetPassword(r) \/ ReadUser(r) \/ SaveUser(r)
      PROVE  ~Holds(p, t)'
  BY <1>4, <1>b DEF ResetPassword, ReadUser, SaveUser, cacheVars
<1>5. ASSUME NEW r \in Resets, VerifyPasswordResetToken(r) PROVE ~Holds(p, t)'
  <2>1. req[r].proc \in Processes
    BY <1>5, <1>a DEF VerifyPasswordResetToken, At, Carries, Requests
  <2> QED
    BY <1>5, <1>c, <2>1 DEF VerifyPasswordResetToken
<1>6. ASSUME NEW r \in Resets, DeleteToken(r) PROVE ~Holds(p, t)'
  <2>1. req[r].proc \in Processes
    BY <1>6, <1>a DEF DeleteToken, At, Carries, Requests
  <2>2. memory' = [memory EXCEPT ![req[r].proc] = None] /\ fetched' = fetched
    BY <1>6, <1>a, <2>1, DeleteClears DEF DeleteToken
  <2> QED
    BY <1>a, <2>1, <2>2 DEF Holds
<1>7. ASSUME NEW r \in Requests, Fail(r) PROVE ~Holds(p, t)'
  BY <1>7, <1>b DEF Fail, cacheVars
<1>8. ASSUME VerifyLink PROVE ~Holds(p, t)'
  BY <1>8, <1>c DEF VerifyLink, Peek
<1>9. ASSUME Tick \/ UNCHANGED vars PROVE ~Holds(p, t)'
  BY <1>9, <1>b DEF Tick, Elapse, vars, cacheVars
<1>10. ASSUME NEW q \in Processes, KeepCopy(q) PROVE ~Holds(p, t)'
  <2>1. PICK u \in fetched[q] :
          /\ memory' = [memory EXCEPT ![q] = u]
          /\ fetched' = [fetched EXCEPT ![q] = @ \ {u}]
    BY <1>10 DEF KeepCopy, Keep
  <2> QED
    BY <1>a, <2>1 DEF Holds
<1>11. ASSUME NEW q \in Processes, Crash(q) PROVE ~Holds(p, t)'
  BY <1>11, <1>a DEF Crash, Forget, Holds
<1> QED
  BY <1>1, <1>2, <1>3, <1>4, <1>5, <1>6, <1>7, <1>8, <1>9, <1>10, <1>11 DEF Next

\* A request that arrived with a consumed link, in a process with no copy of
\* its token, never gets past the check.
LEMMA SpentStaysOut ==
  ASSUME Typed, HeldIssued, ConsumedIsGone, ArrivedSpent, [Next]_vars,
         consumed \subseteq consumed'
  PROVE  ArrivedSpent'
<1> SUFFICES ASSUME NEW r \in Requests, (req[r].spent)'
             PROVE  /\ (req[r].pc \in {"check", "failed"})'
                    /\ (req[r].token \in consumed)'
                    /\ (req[r].proc \in Processes)'
                    /\ (~Holds(req[r].proc, req[r].token))'
  BY DEF ArrivedSpent
<1>a. req[r] \in RequestState /\ consumed \subseteq Tokens /\ None \notin Tokens
  BY TokensAssumption DEF Typed, TypeOK
<1>1. CASE req[r].spent
  <2>1. PICK p \in Processes, t \in consumed :
          /\ req[r].pc \in {"check", "failed"}
          /\ req[r].proc = p /\ req[r].token = t
          /\ ~Holds(p, t)
    BY <1>1 DEF ArrivedSpent
  <2>2. t \notin Readable(p)
    BY <1>a, <2>1 DEF Readable, ConsumedIsGone, Holds
  <2>3. req'[r] = req[r] \/ req'[r] = [req[r] EXCEPT !.pc = "failed"]
    BY <2>1, <2>2, ChecksOrFails
  <2>4. req'[r].pc \in {"check", "failed"} /\ req'[r].token = t /\ req'[r].proc = p
    BY <1>a, <2>1, <2>3 DEF RequestState
  <2>5. ~Holds(p, t)'
    BY <2>1, NoCopySpreads
  <2> QED
    BY <2>1, <2>4, <2>5 DEF Holds
<1>2. CASE ~req[r].spent
  BY <1>2, MarkedOnArrival DEF Holds, cacheVars
<1> QED
  BY <1>1, <1>2

\* A reset whose link was consumed when it arrived, in a process that has no
\* copy of its token, never changes the password: with any number of
\* processes, redis losing calls, crashes, and copies still on their way.
THEOREM ConsumedNeverWorks == Spec => []ConsumedLinkRefused
<1>1. Init => ConsumedInv
  <2> SUFFICES ASSUME Init PROVE ConsumedInv
    OBVIOUS
  <2>1. LinksIssued /\ ConsumedIsGone
    BY DEF Init, LinksIssued, ConsumedIsGone
  <2>2. \A r \in Requests : ~req[r].spent /\ req[r].token = None
    BY DEF Init, Idle
  <2> QED
    BY <2>1, <2>2, InitTyped DEF ConsumedInv, ArrivedSpent, HeldIssued
<1>2. ConsumedInv /\ [Next]_vars => ConsumedInv'
  <2> SUFFICES ASSUME ConsumedInv, [Next]_vars PROVE ConsumedInv'
    OBVIOUS
  <2>1. Typed' /\ LinksIssued' /\ HeldIssued'
    BY NextTyped, LinksStayIssued, HeldStayIssued DEF ConsumedInv
  <2>2. ConsumedIsGone' /\ consumed \subseteq consumed'
    BY ConsumedStaysGone DEF ConsumedInv
  <2>3. ArrivedSpent'
    BY <2>2, SpentStaysOut DEF ConsumedInv
  <2> QED
    BY <2>1, <2>2, <2>3 DEF ConsumedInv
<1>3. ConsumedInv => ConsumedLinkRefused
  BY DEF ConsumedInv, ArrivedSpent, ConsumedLinkRefused, Requests
<1> QED
  BY <1>1, <1>2, <1>3, PTL DEF Spec

---------------------------------------------------------------------------
(* Links that changed nothing yet                                          *)

\* A request whose finalizer is about to delete the token has changed the
\* password with it.
ClosersUsed ==
  \A r \in Requests : req[r].pc = "close" => used[req[r].token] # 0

\* The only token there ever was, valid and not used, is in redis; said of
\* every token and not only of those that were mailed, because the one that
\* is generated is in redis before its email is.
UnusedInRedis ==
  \A m \in Tokens :
    /\ Issued(m) /\ Valid(m) /\ used[m] = 0
    /\ \A t \in Tokens : Issued(t) => t = m
    => redis = m

KeptInv == Typed /\ LinksIssued /\ HeldIssued /\ ClosersUsed /\ UnusedInRedis

\* No step takes back that a token changed the password.
LEMMA UsedStays ==
  ASSUME Typed, [Next]_vars
  PROVE  \/ used' = used
         \/ \E r \in Resets : SaveUser(r) /\ used' = [used EXCEPT ![req[r].token] = @ + 1]
<1>1. ASSUME NEW f \in Forgots,
             \/ SendPasswordResetEmail(f) \/ LookUpToken(f)
             \/ GeneratePasswordResetToken(f) \/ DispatchEmail(f)
      PROVE  used' = used
  BY <1>1 DEF SendPasswordResetEmail, LookUpToken, GeneratePasswordResetToken,
              DispatchEmail
<1>2. ASSUME NEW r \in Resets,
             \/ ResetPassword(r) \/ VerifyPasswordResetToken(r) \/ ReadUser(r)
             \/ DeleteToken(r)
      PROVE  used' = used
  BY <1>2 DEF ResetPassword, VerifyPasswordResetToken, ReadUser, DeleteToken
<1>3. ASSUME NEW r \in Resets, SaveUser(r)
      PROVE  used' = [used EXCEPT ![req[r].token] = @ + 1]
  BY <1>3 DEF SaveUser
<1>4. ASSUME NEW r \in Requests, Fail(r) PROVE used' = used
  BY <1>4 DEF Fail
<1>5. ASSUME VerifyLink \/ Tick \/ UNCHANGED vars PROVE used' = used
  BY <1>5 DEF VerifyLink, Tick, vars
<1>6. ASSUME NEW p \in Processes, KeepCopy(p) \/ Crash(p) PROVE used' = used
  BY <1>6 DEF KeepCopy, Crash
<1> QED
  BY <1>1, <1>2, <1>3, <1>4, <1>5, <1>6 DEF Next

\* A request is at its finalizer because it was, or because it just saved.
LEMMA ClosesAfterSave ==
  ASSUME Typed, [Next]_vars, NEW r \in Requests, req'[r].pc = "close"
  PROVE  /\ req'[r].token = req[r].token
         /\ \/ req[r].pc = "close"
            \/ r \in Resets /\ SaveUser(r)
<1>a. req \in [Requests -> RequestState] /\ req[r] \in RequestState
  BY DEF Typed, TypeOK
<1> DEFINE Same == req'[r].token = req[r].token /\ req[r].pc = "close"
<1>b. ASSUME NEW s \in Requests, NEW step, step # "close",
             req' = [req EXCEPT ![s].pc = step]
      PROVE  Same
  BY <1>a, <1>b DEF RequestState
<1>1. ASSUME NEW f \in Forgots, SendPasswordResetEmail(f) PROVE Same
  <2>1. PICK p \in Processes : req' = [req EXCEPT ![f].pc = "lookup", ![f].proc = p]
    BY <1>1 DEF SendPasswordResetEmail
  <2> QED
    BY <1>a, <2>1 DEF RequestState, Requests
<1>2. ASSUME NEW f \in Forgots, LookUpToken(f) PROVE Same
  <2>1. PICK t \in Tokens \cup {None} :
          req' = [req EXCEPT ![f].pc = IF t = None THEN "generate" ELSE "dispatch",
                             ![f].token = t]
    BY <1>2 DEF LookUpToken
  <2> QED
    BY <1>a, <2>1 DEF RequestState, Requests
<1>3. ASSUME NEW f \in Forgots, GeneratePasswordResetToken(f) PROVE Same
  <2>1. PICK t \in Tokens : req' = [req EXCEPT ![f].pc = "dispatch", ![f].token = t]
    BY <1>3 DEF GeneratePasswordResetToken
  <2> QED
    BY <1>a, <2>1 DEF RequestState, Requests
<1>4. ASSUME NEW f \in Forgots, DispatchEmail(f) PROVE Same
  BY <1>4, <1>b DEF DispatchEmail, Goto, Requests
<1>5. ASSUME NEW s \in Resets, ResetPassword(s) PROVE Same
  BY <1>5, <1>a DEF ResetPassword, Requests
<1>6. ASSUME NEW s \in Resets,
             VerifyPasswordResetToken(s) \/ ReadUser(s) \/ DeleteToken(s)
      PROVE  Same
  <2>1. \E step : step # "close" /\ req' = [req EXCEPT ![s].pc = step]
    BY <1>6 DEF VerifyPasswordResetToken, ReadUser, DeleteToken, Goto
  <2> QED
    BY <1>b, <2>1 DEF Requests
<1>7. ASSUME NEW s \in Resets, SaveUser(s)
      PROVE  req'[r].token = req[r].token /\ (s = r \/ req[r].pc = "close")
  BY <1>7, <1>a DEF SaveUser, Goto, RequestState, Requests
<1>8. ASSUME NEW s \in Requests, Fail(s) PROVE Same
  BY <1>8, <1>b DEF Fail, Goto
<1>9. ASSUME NEW p \in Processes, Crash(p) PROVE Same
  <2>1. req'[r] = req[r] \/ req'[r] = [req[r] EXCEPT !.pc = "failed"]
    BY <1>9 DEF Crash
  <2> QED
    BY <1>a, <2>1 DEF RequestState
<1>10. ASSUME VerifyLink \/ Tick \/ UNCHANGED vars PROVE Same
  BY <1>10 DEF VerifyLink, Tick, vars
<1>11. ASSUME NEW p \in Processes, KeepCopy(p) PROVE Same
  BY <1>11 DEF KeepCopy
<1> QED
  BY <1>1, <1>2, <1>3, <1>4, <1>5, <1>6, <1>7, <1>8, <1>9, <1>10, <1>11 DEF Next

\* Every step keeps the finalizers behind a use of their token.
LEMMA ClosersStayUsed ==
  Typed /\ ClosersUsed /\ [Next]_vars => ClosersUsed'
<1> SUFFICES ASSUME Typed, ClosersUsed, [Next]_vars,
                    NEW r \in Requests, req'[r].pc = "close"
             PROVE  used'[req'[r].token] # 0
  BY DEF ClosersUsed
<1>a. used \in [Tokens -> Nat]
  BY DEF Typed, TypeOK
<1>1. /\ req'[r].token = req[r].token
      /\ req[r].pc = "close" \/ (r \in Resets /\ SaveUser(r))
  BY ClosesAfterSave
<1>2. CASE req[r].pc = "close"
  <2>1. used[req[r].token] # 0 /\ req[r].token \in Tokens
    BY <1>2 DEF ClosersUsed, Typed, Carries
  <2>2. CASE used' = used
    BY <1>1, <2>1, <2>2
  <2>3. ASSUME NEW s \in Resets, SaveUser(s),
               used' = [used EXCEPT ![req[s].token] = @ + 1]
        PROVE  used'[req[r].token] # 0
    <3>1. req[s].token \in Tokens
      BY <2>3 DEF SaveUser, At, Typed, Carries, Requests
    <3> QED
      BY <1>a, <2>1, <2>3, <3>1
  <2> QED
    BY <1>1, <2>2, <2>3, UsedStays
<1>3. CASE r \in Resets /\ SaveUser(r)
  <2>1. req[r].token \in Tokens /\ used' = [used EXCEPT ![req[r].token] = @ + 1]
    BY <1>3 DEF SaveUser, At, Typed, Carries
  <2> QED
    BY <1>a, <1>1, <2>1
<1> QED
  BY <1>1, <1>2, <1>3

\* While no call to redis is lost, only the deletion of a used token and the
\* generation of another one take the only unused token out of redis.
LEMMA UnusedStaysInRedis ==
  ASSUME CacheFaults = FALSE, Typed, HeldIssued, ClosersUsed, UnusedInRedis,
         [Next]_vars
  PROVE  UnusedInRedis'
<1> SUFFICES ASSUME NEW m \in Tokens,
                    Issued(m)', Valid(m)', used'[m] = 0,
                    \A t \in Tokens : Issued(t)' => t = m
             PROVE  redis' = m
  BY DEF UnusedInRedis
<1>a. /\ TypeOK /\ Carries /\ CacheTypeOK
      /\ used \in [Tokens -> Nat] /\ None \notin Tokens
  BY TokensAssumption DEF Typed, TypeOK
<1>b. used[m] = 0
  <2>1. ASSUME NEW s \in Resets, SaveUser(s),
               used' = [used EXCEPT ![req[s].token] = @ + 1]
        PROVE  used[m] = 0
    <3>1. req[s].token \in Tokens
      BY <2>1 DEF SaveUser, At, Typed, Carries, Requests
    <3> QED
      BY <1>a, <2>1, <3>1
  <2> QED
    BY <2>1, UsedStays
<1>c. \A t \in Tokens : Issued(t) => t = m
  BY <1>a, ExpiryStays
<1>d. Issued(m) => Valid(m)
  <2>1. ASSUME Issued(m) PROVE Valid(m)
    <3>1. expiry'[m] = expiry[m] /\ expiry[m] \in Nat /\ now \in Nat
      BY <1>a, <2>1, ExpiryStays DEF CacheTypeOK
    <3>2. now' \in Nat /\ now <= now'
      BY <1>a, ClockRuns
    <3> QED
      BY <1>a, <3>1, <3>2 DEF Valid
  <2> QED
    BY <2>1
<1>e. Issued(m) => redis = m
  BY <1>b, <1>c, <1>d DEF UnusedInRedis
<1>f. ASSUME expiry' = expiry, redis' = redis PROVE redis' = m
  BY <1>e, <1>f DEF Issued
<1>1. ASSUME NEW f \in Forgots, GeneratePasswordResetToken(f) PROVE redis' = m
  <2>1. PICK u \in Tokens : SetFresh(req[f].proc, u)
    BY <1>1 DEF GeneratePasswordResetToken
  <2>2. req[f].proc \in Processes
    BY <1>1, <1>a DEF GeneratePasswordResetToken, At, Carries, Requests
  <2>3. Issued(u)'
    BY <1>a, <2>1, <2>2, SetFreshIssues
  <2>4. redis' = u
    BY <2>1 DEF SetFresh, Put
  <2> QED
    BY <2>3, <2>4
<1>2. ASSUME NEW r \in Resets, DeleteToken(r) PROVE redis' = m
  <2>1. req[r].pc = "close" /\ req[r].token \in Tokens
    BY <1>2, <1>a DEF DeleteToken, At, Carries, Requests
  <2>2. used[req[r].token] # 0 /\ Issued(req[r].token)
    BY <1>a, <2>1 DEF ClosersUsed, HeldIssued, Issued, Requests
  <2> QED
    BY <1>b, <1>c, <2>1, <2>2
<1>3. ASSUME NEW f \in Forgots,
             SendPasswordResetEmail(f) \/ LookUpToken(f) \/ DispatchEmail(f)
      PROVE  expiry' = expiry /\ redis' = redis
  BY <1>3 DEF SendPasswordResetEmail, LookUpToken, DispatchEmail, Get, cacheVars
<1>4. ASSUME NEW r \in Resets,
             \/ ResetPassword(r) \/ VerifyPasswordResetToken(r) \/ ReadUser(r)
             \/ SaveUser(r)
      PROVE  expiry' = expiry /\ redis' = redis
  BY <1>4 DEF ResetPassword, VerifyPasswordResetToken, ReadUser, SaveUser, Get,
              cacheVars
<1>5. ASSUME NEW r \in Requests, Fail(r) PROVE expiry' = expiry /\ redis' = redis
  BY <1>5 DEF Fail, cacheVars
<1>6. ASSUME VerifyLink \/ Tick \/ UNCHANGED vars
      PROVE  expiry' = expiry /\ redis' = redis
  BY <1>6 DEF VerifyLink, Peek, Get, Tick, Elapse, vars, cacheVars
<1>7. ASSUME NEW p \in Processes, KeepCopy(p) \/ Crash(p)
      PROVE  expiry' = expiry /\ redis' = redis
  BY <1>7 DEF KeepCopy, Keep, Crash, Forget
<1> QED
  BY <1>f, <1>1, <1>2, <1>3, <1>4, <1>5, <1>6, <1>7 DEF Next

\* While no call to redis is lost, the only link that was generated stays
\* good until it expires or changes the password: no failed or refused reset,
\* no check of the link, no repeated email and no crash spends it. This is
\* what deferring the deletion to a successful exit is for
\* (verifyPasswordResetToken, authentication_service.ts).
THEOREM UnusedLinkSurvives ==
  ASSUME CacheFaults = FALSE
  PROVE  Spec => []UnusedLinkKept
<1>1. Init => KeptInv
  <2> SUFFICES ASSUME Init PROVE KeptInv
    OBVIOUS
  <2>1. LinksIssued
    BY DEF Init, LinksIssued
  <2>2. \A r \in Requests : req[r].token = None /\ req[r].pc = "idle"
    BY DEF Init, Idle
  <2>3. UnusedInRedis
    BY DEF Init, CacheInit, UnusedInRedis, Issued
  <2> QED
    BY <2>1, <2>2, <2>3, InitTyped DEF KeptInv, HeldIssued, ClosersUsed
<1>2. KeptInv /\ [Next]_vars => KeptInv'
  BY NextTyped, LinksStayIssued, HeldStayIssued, ClosersStayUsed,
     UnusedStaysInRedis DEF KeptInv
<1>3. KeptInv => UnusedLinkKept
  BY DEF KeptInv, UnusedInRedis, UnusedLinkKept, LinksIssued, Typed, TypeOK
<1> QED
  BY <1>1, <1>2, <1>3, PTL DEF Spec
===========================================================================
