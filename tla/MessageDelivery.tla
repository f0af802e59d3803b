-------------------------- MODULE MessageDelivery --------------------------
(***************************************************************************)
(* What the webhook and the job queue promise the sender of messages,      *)
(* without workers, attempts, crashes and stalls: a notification is        *)
(* confirmed when every message of it has been accepted; an accepted       *)
(* message is worked on until its job is settled, never afterwards and     *)
(* only so often; a job is completed only if its work was done, and        *)
(* rescued once at most, if it failed.                                     *)
(***************************************************************************)
EXTENDS Naturals

CONSTANTS
  Jobs,
  Messages,
  Notifications,
  Contents,  \* Contents[n]: the messages of notification n
  MaxDone,   \* how often a job may do its work
  None       \* no message

VARIABLES
  about,     \* about[j]: the message that job j was accepted for
  outcome,   \* outcome[j]: unused, pending, completed or failed
  done,      \* done[j]: how often its work was done
  rescues,   \* rescues[j]: how often it was rescued
  confirmed  \* the confirmed notifications

jobVars == <<about, outcome, done, rescues>>

vars == <<jobVars, confirmed>>

Init ==
  /\ about = [j \in Jobs |-> None]
  /\ outcome = [j \in Jobs |-> "unused"]
  /\ done = [j \in Jobs |-> 0] /\ rescues = [j \in Jobs |-> 0]
  /\ confirmed = {}

Accept(j, m) ==
  /\ outcome[j] = "unused"
  /\ about' = [about EXCEPT ![j] = m]
  /\ outcome' = [outcome EXCEPT ![j] = "pending"]
  /\ UNCHANGED <<done, rescues, confirmed>>

Perform(j) ==
  /\ outcome[j] = "pending" /\ done[j] < MaxDone
  /\ done' = [done EXCEPT ![j] = @ + 1]
  /\ UNCHANGED <<about, outcome, rescues, confirmed>>

Complete(j) ==
  /\ outcome[j] = "pending" /\ done[j] > 0
  /\ outcome' = [outcome EXCEPT ![j] = "completed"]
  /\ UNCHANGED <<about, done, rescues, confirmed>>

\* A job that is given up is rescued at once, later or not at all.
GiveUp(j) ==
  /\ outcome[j] = "pending"
  /\ outcome' = [outcome EXCEPT ![j] = "failed"]
  /\ \E n \in {0, 1} : rescues' = [rescues EXCEPT ![j] = n]
  /\ UNCHANGED <<about, done, confirmed>>

Rescue(j) ==
  /\ outcome[j] = "failed" /\ rescues[j] = 0
  /\ rescues' = [rescues EXCEPT ![j] = 1]
  /\ UNCHANGED <<about, outcome, done, confirmed>>

Confirm(n) ==
  /\ \A m \in Contents[n] : \E j \in Jobs : about[j] = m
  /\ confirmed' = confirmed \cup {n}
  /\ UNCHANGED jobVars

Next ==
  \/ \E j \in Jobs : \/ \E m \in Messages : Accept(j, m)
                     \/ Perform(j) \/ Complete(j) \/ GiveUp(j) \/ Rescue(j)
  \/ \E n \in Notifications : Confirm(n)

Spec == Init /\ [][Next]_vars
=============================================================================
