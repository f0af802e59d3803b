----------------------------- MODULE TokenCache -----------------------------
(***************************************************************************)
(* The cache behind the tokens the gateway sends by email: a memory in     *)
(* every process in front of one redis (config/cache.ts), with no bus      *)
(* between the memories. One key is modelled: every token of one user is   *)
(* cached under that user's identifier, so users never meet.               *)
(*                                                                         *)
(* get reads the memory, then redis, and keeps in the memory what it found *)
(* there. No lock spans the two: a deletion can come between the answer of *)
(* redis and the copy that the get leaves, so a copy read from redis is    *)
(* "fetched" until it is kept. set and delete act on the memory of the     *)
(* process that calls them and on redis, never on what is fetched. An      *)
(* entry expires Lifetime after it was set, and a copy                     *)
(* expires with its entry. A call to redis that is lost is not reported.   *)
(***************************************************************************)
EXTENDS Naturals

CONSTANTS
  Processes,   \* the processes of the gateway
  Tokens,      \* the tokens there are to generate
  Lifetime,    \* the duration a token is cached for
  MaxTime,     \* bound on the clock
  CacheFaults  \* whether a call to redis may be lost

ASSUME LifetimeAssumption == Lifetime \in Nat \ {0} /\ MaxTime \in Nat

ASSUME CacheFaultsAssumption == CacheFaults \in BOOLEAN

None == "none"

ASSUME TokensAssumption == None \notin Tokens

VARIABLES
  now,     \* the clock
  expiry,  \* expiry[t]: when the entry of token t expires, 0 before it exists
  memory,  \* memory[p]: the token in the memory of process p
  fetched, \* fetched[p]: the tokens p read from redis and has yet to keep
  redis    \* the token in redis

cacheVars == <<now, expiry, memory, fetched, redis>>

CacheTypeOK ==
  /\ now \in 0..MaxTime
  /\ expiry \in [Tokens -> Nat]
  /\ memory \in [Processes -> Tokens \cup {None}]
  /\ fetched \in [Processes -> SUBSET Tokens]
  /\ redis \in Tokens \cup {None}

CacheInit ==
  /\ now = 0
  /\ expiry = [t \in Tokens |-> 0]
  /\ memory = [p \in Processes |-> None]
  /\ fetched = [p \in Processes |-> {}]
  /\ redis = None

Issued(t) == expiry[t] # 0

Valid(t) == t # None /\ now < expiry[t]

\* What a get in process p may answer.
Readable(p) ==
  IF Valid(memory[p]) THEN {memory[p]}
  ELSE {IF Valid(redis) THEN redis ELSE None}
         \cup (IF CacheFaults THEN {None} ELSE {})

Get(p, t) ==
  /\ t \in Readable(p)
  /\ fetched' = IF t \in {None, memory[p]} THEN fetched
                ELSE [fetched EXCEPT ![p] = @ \cup {t}]
  /\ UNCHANGED <<now, expiry, memory, redis>>

\* The copy of a get arrives in the memory, whatever happened since.
Keep(p) ==
  /\ \E t \in fetched[p] :
       /\ memory' = [memory EXCEPT ![p] = t]
       /\ fetched' = [fetched EXCEPT ![p] = @ \ {t}]
  /\ UNCHANGED <<now, expiry, redis>>

\* Process p has a copy of token t of its own, or will have one.
Holds(p, t) == memory[p] = t \/ t \in fetched[p]

Put(p, t) ==
  /\ memory' = [memory EXCEPT ![p] = t]
  /\ \/ redis' = t
     \/ CacheFaults /\ UNCHANGED redis
  /\ UNCHANGED fetched

\* A token that never was before, set with the whole lifetime.
SetFresh(p, t) ==
  /\ t \in Tokens /\ ~Issued(t)
  /\ expiry' = [expiry EXCEPT ![t] = now + Lifetime]
  /\ Put(p, t)
  /\ UNCHANGED now

Delete(p) == Put(p, None) /\ UNCHANGED <<now, expiry>>

\* A get for its own sake: a page that checks a link without consuming it.
Peek ==
  /\ \E p \in Processes, t \in Tokens : Get(p, t) /\ fetched' # fetched

Forget(p) ==
  /\ memory' = [memory EXCEPT ![p] = None]
  /\ fetched' = [fetched EXCEPT ![p] = {}]
  /\ UNCHANGED <<now, expiry, redis>>

Elapse ==
  /\ now < MaxTime
  /\ now' = now + 1
  /\ UNCHANGED <<expiry, memory, fetched, redis>>
=============================================================================
