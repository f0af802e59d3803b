--------------------------- MODULE ChannelWebhook ---------------------------
(***************************************************************************)
(* The WhatsApp webhook of the gateway (ChannelController) in front of the *)
(* job queue. The sender delivers a notification until it hears 200; the   *)
(* handler queues one job for each message, one after another, and nothing *)
(* tells a message that was queued before.                                 *)
(*                                                                         *)
(* The handler answers strings with statuses of its own, 200, 403 and 500. *)
(* The response wrapper makes an envelope of success of any of them and    *)
(* overwrites the status, so the sender hears 200 of a delivery that was   *)
(* refused or half queued as well, and does not repeat it. Only the        *)
(* content of the answer tells: EVENT_RECEIVED confirms a notification.    *)
(*                                                                         *)
(* A notification holds several changes, of which the handler reads the    *)
(* first one.                                                              *)
(***************************************************************************)
EXTENDS JobQueue, Sequences, SequencesExt

CONSTANTS
  Notifications,  \* the notifications the sender has
  Changes,        \* Changes[n]: the changes of n, each a sequence of messages
  MaxSends        \* bound on the deliveries of a notification

VARIABLES
  delivery,  \* delivery[n]: the request that delivers n
  sends,     \* sends[n]: how often n was delivered
  confirmed  \* the notifications that were answered EVENT_RECEIVED

others == <<delivery, sends, confirmed>>

vars == <<queueVars, delivery, sends, confirmed>>

\* rest: the messages not queued yet; heard: the status the sender heard, 0
\* when it heard nothing or, of a wrapper that failed, another one.
Unsent == [pc |-> "sender", rest |-> <<>>, heard |-> 0]

Read(n) == IF Changes[n] = <<>> THEN <<>> ELSE Head(Changes[n])

\* The sender gives every message an identifier of its own.
ASSUME ChangesAssumption ==
  /\ Changes \in [Notifications -> Seq(Seq(Payloads))]
  /\ MaxSends \in Nat
  /\ \A m, n \in Notifications : \A i \in DOMAIN Read(m), k \in DOMAIN Read(n) :
       Read(m)[i] = Read(n)[k] => m = n /\ i = k

TypeOK ==
  /\ QueueTypeOK
  /\ delivery \in [Notifications ->
       [pc : {"sender", "dispatch"}, rest : Seq(Payloads), heard : {0, 200}]]
  /\ sends \in [Notifications -> 0..MaxSends]
  /\ confirmed \subseteq Notifications

Init ==
  /\ QueueInit
  /\ delivery = [n \in Notifications |-> Unsent]
  /\ sends = [n \in Notifications |-> 0]
  /\ confirmed = {}

---------------------------------------------------------------------------
\* The handler's string is answered: as a success, whatever status the handler
\* gave it, or the answer is lost on its way.
Respond(n) ==
  \E heard \in {0, 200} : delivery' = [delivery EXCEPT ![n] = [Unsent EXCEPT !.heard = heard]]

\* A delivery arrives. A signature that does not match the body is refused;
\* one that is missing is not.
Receive(n) ==
  /\ delivery[n].pc = "sender" /\ delivery[n].heard # 200
  /\ sends[n] < MaxSends
  /\ sends' = [sends EXCEPT ![n] = @ + 1]
  /\ \/ delivery' = [delivery EXCEPT ![n] = [pc |-> "dispatch", rest |-> Read(n), heard |-> 0]]
     \/ Respond(n)
  /\ UNCHANGED <<queueVars, confirmed>>

DispatchMessage(n) ==
  /\ delivery[n].pc = "dispatch" /\ delivery[n].rest # <<>>
  /\ Dispatch(Head(delivery[n].rest))
  /\ delivery' = [delivery EXCEPT ![n].rest = Tail(@)]
  /\ UNCHANGED <<sends, confirmed>>

\* Mutant of DispatchFailure: the dispatch is tried again.
DispatchAgain(n) ==
  /\ delivery[n].pc = "dispatch" /\ delivery[n].rest # <<>>
  /\ Dispatch(Head(delivery[n].rest)) \/ DispatchFails
  /\ UNCHANGED others

\* The messages queued so far stay queued; the job of this one may be, too.
DispatchFailure(n) ==
  /\ delivery[n].pc = "dispatch" /\ delivery[n].rest # <<>>
  /\ Dispatch(Head(delivery[n].rest)) \/ DispatchFails
  /\ Respond(n)
  /\ UNCHANGED <<sends, confirmed>>

\* Mutant of Confirm: the dispatches are not awaited.
ConfirmAtOnce(n) ==
  /\ delivery[n].pc = "dispatch"
  /\ Respond(n)
  /\ confirmed' = confirmed \cup {n}
  /\ UNCHANGED <<queueVars, sends>>

Confirm(n) ==
  /\ delivery[n].pc = "dispatch" /\ delivery[n].rest = <<>>
  /\ Respond(n)
  /\ confirmed' = confirmed \cup {n}
  /\ UNCHANGED <<queueVars, sends>>

\* The process of the webhook dies: no answer to any request.
CrashWebhook ==
  /\ \E n \in Notifications : delivery[n].pc = "dispatch"
  /\ delivery' = [n \in Notifications |->
       IF delivery[n].pc = "dispatch" THEN Unsent ELSE delivery[n]]
  /\ UNCHANGED <<queueVars, sends, confirmed>>

Step(n) == Receive(n) \/ DispatchMessage(n) \/ DispatchFailure(n) \/ Confirm(n)

Next ==
  \/ \E n \in Notifications : Step(n)
  \/ CrashWebhook
  \/ \E w \in Workers : Work(w) /\ UNCHANGED others
  \/ CrashWorkers /\ UNCHANGED others
  \/ \E j \in Jobs : RecoverStalled(j) /\ UNCHANGED others

\* Workers that are running go on, and the check for stalled jobs is repeated.
\* Nothing is assumed of the sender, the webhook or the crashes.
Fairness ==
  /\ \A w \in Workers : WF_vars(Work(w) /\ UNCHANGED others)
  /\ \A j \in Jobs : WF_vars(RecoverStalled(j) /\ UNCHANGED others)

Spec == Init /\ [][Next]_vars /\ Fairness

---------------------------------------------------------------------------
(* Properties                                                              *)

JobsFor(p) == {j \in Jobs : job[j].about = p}

\* A notification that was answered EVENT_RECEIVED has a job for each message
\* the handler reads of it, whatever failed or crashed in the deliveries before
\* (webhookWhatsappReceive). A status of 200 alone promises nothing.
ConfirmedIsQueued ==
  \A n \in confirmed : \A p \in ToSet(Read(n)) : JobsFor(p) # {}

\* A message is queued at most once for each time it was delivered.
QueuedOncePerDelivery ==
  \A n \in Notifications : \A p \in ToSet(Read(n)) :
    Cardinality(JobsFor(p)) <= sends[n]

Outcome(j) == IF job[j].state \in {"waiting", "active"} THEN "pending" ELSE job[j].state

\* What the sender is promised, over the jobs.
Delivery ==
  INSTANCE MessageDelivery WITH
    Messages <- Payloads,
    Contents <- [n \in Notifications |-> ToSet(Read(n))],
    MaxDone <- Attempts + MaxStalls,
    about <- [j \in Jobs |-> job[j].about],
    outcome <- [j \in Jobs |-> Outcome(j)],
    done <- [j \in Jobs |-> job[j].effects],
    rescues <- [j \in Jobs |-> job[j].rescues]

\* Attempts, stalls, crashes and lost answers keep that promise: a completed
\* job did its work, no job does it more often than its attempts and stalls
\* allow or after it is settled, and only a job that failed for good is
\* rescued, once (config/queue.ts, QueueJob, webhookWhatsappReceive).
ImplementsDelivery == Delivery!Spec

\* Every job that was dispatched is completed or failed in the end, though its
\* attempts fail and the workers crash again and again.
JobsSettle == \A j \in Jobs : job[j].state # "unused" ~> Settled(j)
=============================================================================
