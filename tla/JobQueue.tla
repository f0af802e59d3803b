------------------------------ MODULE JobQueue ------------------------------
(***************************************************************************)
(* The job queue of the gateway (core/queue_job over @rlanz/bull-queue and *)
(* BullMQ): dispatch, the attempts of the workers, and rescue. A job does  *)
(* its work, an email sent or a message processed, before it can report    *)
(* that it did; what fails in between is tried again and does it twice.    *)
(*                                                                         *)
(* The workers live in one process. A job whose worker died is found by    *)
(* BullMQ's check for stalled jobs, which gives up on a job that stalls    *)
(* more often than MaxStalls.                                              *)
(***************************************************************************)
EXTENDS Naturals, FiniteSets

CONSTANTS
  MaxJobs,    \* bound on the jobs that are dispatched
  Payloads,   \* what a job can be about
  Workers,    \* the jobs the process works on at a time (concurrency)
  Attempts,   \* how often a job is attempted (attempts)
  MaxStalls   \* how often a job may stall (BullMQ's maxStalledCount)

ASSUME QueueAssumption ==
  /\ MaxJobs \in Nat
  /\ Attempts \in Nat \ {0}
  /\ MaxStalls \in Nat
  /\ "none" \notin Payloads

VARIABLES
  job,     \* job[j]: the job that was dispatched as the j-th
  worker   \* worker[w]: what worker w does

queueVars == <<job, worker>>

Jobs == 1..MaxJobs

None == "none"

NoJob == 0

\* tries: failed attempts; effects: how often its work was done.
Unused == [state |-> "unused", about |-> None, tries |-> 0, stalls |-> 0,
           effects |-> 0, rescues |-> 0]

IdleWorker == [pc |-> "idle", job |-> NoJob]

QueueTypeOK ==
  /\ job \in [Jobs ->
       [state : {"unused", "waiting", "active", "completed", "failed"},
        about : Payloads \cup {None}, tries : 0..Attempts, stalls : 0..MaxStalls,
        effects : Nat, rescues : Nat]]
  /\ worker \in [Workers -> [pc : {"idle", "handle", "finish", "rescue"},
                             job : Jobs \cup {NoJob}]]

QueueInit ==
  /\ job = [j \in Jobs |-> Unused]
  /\ worker = [w \in Workers |-> IdleWorker]

---------------------------------------------------------------------------
\* Every dispatch makes a job of its own, with a new identifier.
Dispatch(p) ==
  /\ \E j \in Jobs :
       /\ job[j].state = "unused" /\ \A i \in 1..(j - 1) : job[i].state # "unused"
       /\ job' = [job EXCEPT ![j] = [Unused EXCEPT !.state = "waiting", !.about = p]]
  /\ UNCHANGED worker

\* The payload could not be encoded or redis not be reached.
DispatchFails == UNCHANGED queueVars

At(w, step) == worker[w].pc = step

Goto(w, step) == worker' = [worker EXCEPT ![w].pc = step]

Release(w) == worker' = [worker EXCEPT ![w] = IdleWorker]

Take(w) ==
  /\ At(w, "idle")
  /\ \E j \in Jobs :
       /\ job[j].state = "waiting"
       /\ job' = [job EXCEPT ![j].state = "active"]
       /\ worker' = [worker EXCEPT ![w] = [pc |-> "handle", job |-> j]]

Handle(w) ==
  /\ At(w, "handle")
  /\ job' = [job EXCEPT ![worker[w].job].effects = @ + 1]
  /\ Goto(w, "finish")

\* Mutant of Complete: a failure of the work is swallowed.
CompleteUnchecked(w) ==
  /\ worker[w].pc \in {"handle", "finish"}
  /\ job' = [job EXCEPT ![worker[w].job].state = "completed"]
  /\ Release(w)

Complete(w) ==
  /\ At(w, "finish")
  /\ job' = [job EXCEPT ![worker[w].job].state = "completed"]
  /\ Release(w)

\* The payload does not decode, or the work fails, before or after it had its
\* effect. The last attempt fails the job and rescue is called.
FailAttempt(w) ==
  /\ worker[w].pc \in {"handle", "finish"}
  /\ LET j == worker[w].job  last == job[j].tries + 1 = Attempts IN
       /\ job' = [job EXCEPT ![j].tries = @ + 1, ![j].state = IF last THEN "failed" ELSE "waiting"]
       /\ IF last THEN Goto(w, "rescue") ELSE Release(w)

\* Rescue decodes the payload again, and may fail over it.
Rescue(w) ==
  /\ At(w, "rescue")
  /\ \E n \in {0, 1} : job' = [job EXCEPT ![worker[w].job].rescues = @ + n]
  /\ Release(w)

\* The process of the workers dies and is started again.
CrashWorkers ==
  /\ \E w \in Workers : ~At(w, "idle")
  /\ worker' = [w \in Workers |-> IdleWorker]
  /\ UNCHANGED job

Orphaned(j) == job[j].state = "active" /\ \A w \in Workers : worker[w].job # j

\* Mutant of RecoverStalled: a job may stall once too often.
RecoverOnceMore(j) ==
  /\ Orphaned(j)
  /\ job' = IF job[j].stalls <= MaxStalls
            THEN [job EXCEPT ![j].stalls = @ + 1, ![j].state = "waiting"]
            ELSE [job EXCEPT ![j].state = "failed"]
  /\ UNCHANGED worker

\* Mutant of RecoverStalled: a job that stalled too often is left as it is.
RecoverWithinLimit(j) ==
  /\ Orphaned(j)
  /\ job[j].stalls < MaxStalls
  /\ job' = [job EXCEPT ![j].stalls = @ + 1, ![j].state = "waiting"]
  /\ UNCHANGED worker

\* The rescue of a job that is given up here is called or lost.
RecoverStalled(j) ==
  /\ Orphaned(j)
  /\ \/ /\ job[j].stalls < MaxStalls
        /\ job' = [job EXCEPT ![j].stalls = @ + 1, ![j].state = "waiting"]
     \/ /\ job[j].stalls = MaxStalls
        /\ \E n \in {0, 1} :
             job' = [job EXCEPT ![j].state = "failed", ![j].rescues = @ + n]
  /\ UNCHANGED worker

Work(w) ==
  \/ Take(w) \/ Handle(w) \/ Complete(w) \/ FailAttempt(w) \/ Rescue(w)

Settled(j) == job[j].state \in {"completed", "failed"}
=============================================================================
