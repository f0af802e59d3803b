------------------------ MODULE ChannelWebhookProofs ------------------------
(***************************************************************************)
(* Proofs about ChannelWebhook and the JobQueue behind it, for any number  *)
(* of notifications, messages, workers, attempts, crashes and stalls.      *)
(*                                                                         *)
(* A job's outcome is true because every effect is paid for: by a failed   *)
(* attempt, by a stall, or by the one attempt that is under way or ended   *)
(* the job (JobSound), and because no two workers hold the same job, nor   *)
(* is one that a worker holds taken for stalled (Apart). A delivery has    *)
(* queued the messages it no longer holds, and each of those it holds was  *)
(* queued in fewer deliveries than there were (DeliverySound).             *)
(*                                                                         *)
(* With these each step is one of MessageDelivery, or stutters: the last   *)
(* section has one lemma for each.                                         *)
(***************************************************************************)
EXTENDS ChannelWebhook, FiniteSetTheorems, SequenceTheorems, TLAPS

JobType ==
  [state : {"unused", "waiting", "active", "completed", "failed"},
   about : Payloads \cup {None}, tries : 0..Attempts, stalls : 0..MaxStalls,
   effects : Nat, rescues : Nat]

JobSound(j) ==
  /\ job[j].state = "unused" => job[j] = Unused
  /\ job[j].state # "failed" => job[j].tries < Attempts /\ job[j].rescues = 0
  /\ job[j].state = "waiting" => job[j].effects <= job[j].tries + job[j].stalls
  /\ job[j].state \in {"active", "completed"} =>
       job[j].effects <= job[j].tries + job[j].stalls + 1
  /\ job[j].state = "completed" => job[j].effects >= 1
  /\ job[j].effects <= Attempts + job[j].stalls
  /\ job[j].rescues <= 1

WorkerSound(w) ==
  LET j == worker[w].job IN
  /\ worker[w].pc # "idle" => j \in Jobs
  /\ worker[w].pc \in {"handle", "finish"} => job[j].state = "active"
  /\ worker[w].pc = "handle" => job[j].effects <= job[j].tries + job[j].stalls
  /\ worker[w].pc = "finish" => job[j].effects >= 1
  /\ worker[w].pc = "rescue" => job[j].state = "failed" /\ job[j].rescues = 0
  /\ worker[w].pc = "idle" => j = NoJob

\* No two workers hold a job.
Apart ==
  \A v, w \in Workers : worker[v].job = worker[w].job /\ worker[v].job # NoJob => v = w

QueueInv ==
  /\ QueueTypeOK
  /\ \A j \in Jobs : JobSound(j)
  /\ \A w \in Workers : WorkerSound(w)
  /\ Apart

\* How many messages of n its delivery has queued.
Done(n) == Len(Read(n)) - Len(delivery[n].rest)

DeliverySound(n) ==
  delivery[n].pc = "dispatch" =>
    /\ Done(n) \in Nat
    /\ \A i \in 1..Len(delivery[n].rest) : delivery[n].rest[i] = Read(n)[i + Done(n)]
    /\ \A i \in 1..Done(n) : JobsFor(Read(n)[i]) # {}
    /\ \A i \in 1..Len(delivery[n].rest) :
         Cardinality(JobsFor(delivery[n].rest[i])) < sends[n]

IInv ==
  /\ TypeOK /\ QueueInv
  /\ \A n \in Notifications : DeliverySound(n)
  /\ ConfirmedIsQueued /\ QueuedOncePerDelivery

---------------------------------------------------------------------------
(* The queue                                                               *)

\* A step that leaves the jobs and workers besides one job and one worker
\* alone keeps the queue sound if it leaves those two sound.
LEMMA OneJob ==
  ASSUME QueueInv, NEW j \in Jobs, NEW w \in Workers,
         NEW new, NEW place,
         job' = [job EXCEPT ![j] = new], worker' = [worker EXCEPT ![w] = place],
         QueueTypeOK', JobSound(j)', WorkerSound(w)',
         worker[w].job = j \/ \A v \in Workers : worker[v].job # j,
         place.job \in {j, NoJob}
  PROVE  QueueInv'
<1>1. \A i \in Jobs : JobSound(i)'
  BY DEF QueueInv, QueueTypeOK, JobSound
<1>2. \A v \in Workers \ {w} : worker'[v] = worker[v] /\ worker[v].job # j
  BY DEF QueueInv, QueueTypeOK, Apart, NoJob, Jobs
<1>3. worker'[w] = place
  BY DEF QueueInv, QueueTypeOK
<1>4. ASSUME NEW v \in Workers \ {w} PROVE WorkerSound(v)'
  <2>1. WorkerSound(v) /\ worker'[v] = worker[v] /\ worker[v].job # j
    BY <1>2 DEF QueueInv
  <2>2. worker[v].job \in Jobs => job'[worker[v].job] = job[worker[v].job]
    BY <2>1 DEF QueueInv, QueueTypeOK
  <2> QED
    BY <2>1, <2>2 DEF WorkerSound
<1>5. Apart'
  BY <1>2, <1>3 DEF QueueInv, Apart
<1> QED
  BY <1>1, <1>4, <1>5 DEF QueueInv

\* Every field of a job has its type.
LEMMA JobFields ==
  ASSUME QueueInv, NEW j \in Jobs
  PROVE  /\ job[j].tries \in 0..Attempts /\ job[j].stalls \in 0..MaxStalls
         /\ job[j].effects \in Nat /\ job[j].rescues \in Nat
         /\ job[j].about \in Payloads \cup {None}
         /\ Attempts \in Nat \ {0} /\ MaxStalls \in Nat
         /\ JobSound(j)
BY QueueAssumption DEF QueueInv, QueueTypeOK

\* A worker that is not idle holds a job, and no other worker holds it.
LEMMA HoldsOne ==
  ASSUME QueueInv, NEW w \in Workers, worker[w].pc # "idle"
  PROVE  /\ worker[w].job \in Jobs
         /\ WorkerSound(w)
         /\ \A v \in Workers : worker[v].job = worker[w].job => v = w
BY DEF QueueInv, WorkerSound, Apart, Jobs, NoJob

LEMMA TakeKeeps ==
  ASSUME QueueInv, NEW w \in Workers, Take(w)
  PROVE  QueueInv' /\ \A i \in Jobs : job'[i].about = job[i].about
<1>1. PICK j \in Jobs : /\ job[j].state = "waiting"
                        /\ job' = [job EXCEPT ![j].state = "active"]
                        /\ worker' = [worker EXCEPT ![w] = [pc |-> "handle", job |-> j]]
  BY DEF Take
<1>2. PICK new : new = [job[j] EXCEPT !.state = "active"]
  OBVIOUS
<1>3. PICK place : place = [pc |-> "handle", job |-> j]
  OBVIOUS
<1>4. /\ job' = [job EXCEPT ![j] = new] /\ worker' = [worker EXCEPT ![w] = place]
      /\ job'[j] = new /\ worker'[w] = place /\ place.job = j /\ place.pc = "handle"
  BY <1>1, <1>2, <1>3 DEF QueueInv, QueueTypeOK
<1>5. QueueTypeOK'
  BY <1>1 DEF QueueInv, QueueTypeOK
<1>6. /\ new.state = "active" /\ new.tries = job[j].tries /\ new.stalls = job[j].stalls
      /\ new.effects = job[j].effects /\ new.rescues = job[j].rescues
      /\ new.about = job[j].about
  BY <1>2 DEF QueueInv, QueueTypeOK
<1>7. JobSound(j)' /\ WorkerSound(w)'
  BY <1>1, <1>4, <1>6, JobFields DEF JobSound, WorkerSound
<1>8. \A v \in Workers : worker[v].job # j
  <2>1. ASSUME NEW v \in Workers, worker[v].job = j PROVE FALSE
    BY <1>1, <2>1, worker[v].pc \in {"idle", "handle", "finish", "rescue"}
       DEF QueueInv, QueueTypeOK, WorkerSound, NoJob, Jobs
  <2> QED
    BY <2>1
<1>9. QueueInv'
  BY <1>4, <1>5, <1>7, <1>8, OneJob
<1> QED
  BY <1>4, <1>6, <1>9 DEF QueueInv, QueueTypeOK

LEMMA HandleKeeps ==
  ASSUME QueueInv, NEW w \in Workers, Handle(w)
  PROVE  QueueInv' /\ \A i \in Jobs : job'[i].about = job[i].about
<1>1. PICK j \in Jobs : /\ worker[w].pc = "handle" /\ worker[w].job = j /\ WorkerSound(w)
                        /\ job' = [job EXCEPT ![j].effects = @ + 1]
                        /\ worker' = [worker EXCEPT ![w].pc = "finish"]
  BY HoldsOne DEF Handle, At, Goto
<1>2. PICK new : new = [job[j] EXCEPT !.effects = @ + 1]
  OBVIOUS
<1>3. PICK place : place = [worker[w] EXCEPT !.pc = "finish"]
  OBVIOUS
<1>4. /\ job' = [job EXCEPT ![j] = new] /\ worker' = [worker EXCEPT ![w] = place]
      /\ job'[j] = new /\ worker'[w] = place /\ place.job = j /\ place.pc = "finish"
  BY <1>1, <1>2, <1>3 DEF QueueInv, QueueTypeOK
<1>5. QueueTypeOK'
  <2>1. job[j] \in JobType /\ job[j].effects + 1 \in Nat
    BY JobFields DEF QueueInv, QueueTypeOK, JobType
  <2>2. new \in JobType
    BY <1>2, <2>1 DEF JobType
  <2> QED
    BY <1>1, <1>4, <2>2 DEF QueueInv, QueueTypeOK, JobType
<1>6. /\ new.state = job[j].state /\ new.tries = job[j].tries /\ new.stalls = job[j].stalls
      /\ new.effects = job[j].effects + 1 /\ new.rescues = job[j].rescues
      /\ new.about = job[j].about
  BY <1>2 DEF QueueInv, QueueTypeOK
<1>7. JobSound(j)' /\ WorkerSound(w)'
  BY <1>1, <1>4, <1>6, JobFields DEF JobSound, WorkerSound
<1>8. QueueInv'
  BY <1>1, <1>4, <1>5, <1>7, OneJob
<1> QED
  BY <1>4, <1>6, <1>8 DEF QueueInv, QueueTypeOK

LEMMA CompleteKeeps ==
  ASSUME QueueInv, NEW w \in Workers, Complete(w)
  PROVE  QueueInv' /\ \A i \in Jobs : job'[i].about = job[i].about
<1>1. PICK j \in Jobs : /\ worker[w].pc = "finish" /\ worker[w].job = j /\ WorkerSound(w)
                        /\ job' = [job EXCEPT ![j].state = "completed"]
                        /\ worker' = [worker EXCEPT ![w] = IdleWorker]
  BY HoldsOne DEF Complete, At, Release
<1>2. PICK new : new = [job[j] EXCEPT !.state = "completed"]
  OBVIOUS
<1>3. /\ job' = [job EXCEPT ![j] = new]
      /\ job'[j] = new /\ worker'[w] = IdleWorker
      /\ IdleWorker.job = NoJob /\ IdleWorker.pc = "idle"
  BY <1>1, <1>2 DEF QueueInv, QueueTypeOK, IdleWorker
<1>4. QueueTypeOK'
  BY <1>1 DEF QueueInv, QueueTypeOK, IdleWorker
<1>5. /\ new.state = "completed" /\ new.tries = job[j].tries /\ new.stalls = job[j].stalls
      /\ new.effects = job[j].effects /\ new.rescues = job[j].rescues
      /\ new.about = job[j].about
  BY <1>2 DEF QueueInv, QueueTypeOK
<1>6. JobSound(j)' /\ WorkerSound(w)'
  BY <1>1, <1>3, <1>5, JobFields DEF JobSound, WorkerSound
<1>7. QueueInv'
  BY <1>1, <1>3, <1>4, <1>6, OneJob
<1> QED
  BY <1>3, <1>5, <1>7 DEF QueueInv, QueueTypeOK

LEMMA FailAttemptKeeps ==
  ASSUME QueueInv, NEW w \in Workers, FailAttempt(w)
  PROVE  QueueInv' /\ \A i \in Jobs : job'[i].about = job[i].about
<1>1. PICK j \in Jobs : worker[w].pc \in {"handle", "finish"} /\ worker[w].job = j /\ WorkerSound(w)
  BY HoldsOne DEF FailAttempt
<1>2. PICK last \in BOOLEAN : last = (job[j].tries + 1 = Attempts)
  OBVIOUS
<1>3. PICK new : new = [job[j] EXCEPT !.tries = @ + 1,
                                      !.state = IF last THEN "failed" ELSE "waiting"]
  OBVIOUS
<1>4. PICK place : place = IF last THEN [worker[w] EXCEPT !.pc = "rescue"] ELSE IdleWorker
  OBVIOUS
<1>5. job' = [job EXCEPT ![j] = new] /\ worker' = [worker EXCEPT ![w] = place]
  BY <1>1, <1>2, <1>3, <1>4 DEF FailAttempt, Goto, Release, QueueInv, QueueTypeOK
<1>6. /\ job'[j] = new /\ worker'[w] = place
      /\ place.job = (IF last THEN j ELSE NoJob) /\ place.pc = (IF last THEN "rescue" ELSE "idle")
  BY <1>1, <1>4, <1>5 DEF QueueInv, QueueTypeOK, IdleWorker
<1>7. /\ new.state = (IF last THEN "failed" ELSE "waiting")
      /\ new.tries = job[j].tries + 1 /\ new.stalls = job[j].stalls
      /\ new.effects = job[j].effects /\ new.rescues = job[j].rescues
      /\ new.about = job[j].about
  BY <1>3 DEF QueueInv, QueueTypeOK
<1>8. job[j].state = "active" /\ job[j].tries + 1 \in 0..Attempts
  BY <1>1, JobFields DEF WorkerSound, JobSound
<1>9. QueueTypeOK'
  <2>1. new \in JobType
    BY <1>3, <1>8 DEF QueueInv, QueueTypeOK, JobType
  <2>2. place \in [pc : {"idle", "handle", "finish", "rescue"}, job : Jobs \cup {NoJob}]
    BY <1>4 DEF QueueInv, QueueTypeOK, IdleWorker
  <2> QED
    BY <1>5, <2>1, <2>2 DEF QueueInv, QueueTypeOK, JobType
<1>10. JobSound(j)' /\ WorkerSound(w)'
  <2>1. JobSound(j)'
    <3>1. CASE last
      BY <1>2, <1>6, <1>7, <1>8, <3>1, JobFields DEF JobSound
    <3>2. CASE ~last
      <4>1. /\ job[j].tries + 1 # Attempts
            /\ job[j].effects <= job[j].tries + job[j].stalls + 1
        BY <1>2, <1>8, <3>2, JobFields DEF JobSound
      <4>2. job[j].tries + 1 < Attempts
        BY <1>8, <4>1, JobFields
      <4>3. job[j].effects <= (job[j].tries + 1) + job[j].stalls
        BY <4>1, JobFields
      <4>4. new.tries < Attempts /\ new.effects <= new.tries + new.stalls
        BY <1>7, <4>2, <4>3
      <4> QED
        BY <1>6, <1>7, <1>8, <3>2, <4>4, JobFields DEF JobSound
    <3> QED
      BY <3>1, <3>2
  <2>2. WorkerSound(w)'
    BY <1>6, <1>7, <1>8, JobFields DEF WorkerSound, JobSound
  <2> QED
    BY <2>1, <2>2
<1>11. QueueInv'
  BY <1>1, <1>5, <1>6, <1>9, <1>10, OneJob
<1> QED
  BY <1>5, <1>6, <1>7, <1>11 DEF QueueInv, QueueTypeOK

LEMMA RescueKeeps ==
  ASSUME QueueInv, NEW w \in Workers, Rescue(w)
  PROVE  QueueInv' /\ \A i \in Jobs : job'[i].about = job[i].about
<1>1. PICK j \in Jobs : worker[w].pc = "rescue" /\ worker[w].job = j /\ WorkerSound(w)
  BY HoldsOne DEF Rescue, At
<1>2. PICK n \in {0, 1} : /\ job' = [job EXCEPT ![j].rescues = @ + n]
                          /\ worker' = [worker EXCEPT ![w] = IdleWorker]
  BY <1>1 DEF Rescue, Release
<1>3. PICK new : new = [job[j] EXCEPT !.rescues = @ + n]
  OBVIOUS
<1>4. /\ job' = [job EXCEPT ![j] = new]
      /\ job'[j] = new /\ worker'[w] = IdleWorker
      /\ IdleWorker.job = NoJob /\ IdleWorker.pc = "idle"
  BY <1>2, <1>3 DEF QueueInv, QueueTypeOK, IdleWorker
<1>5. QueueTypeOK'
  <2>1. job[j] \in JobType /\ job[j].rescues + n \in Nat
    BY JobFields DEF QueueInv, QueueTypeOK, JobType
  <2>2. new \in JobType
    BY <1>3, <2>1 DEF JobType
  <2> QED
    BY <1>2, <1>4, <2>2 DEF QueueInv, QueueTypeOK, JobType, IdleWorker
<1>6. /\ new.state = job[j].state /\ new.tries = job[j].tries /\ new.stalls = job[j].stalls
      /\ new.effects = job[j].effects /\ new.rescues = job[j].rescues + n
      /\ new.about = job[j].about
  BY <1>3 DEF QueueInv, QueueTypeOK
<1>7. JobSound(j)' /\ WorkerSound(w)'
  BY <1>1, <1>2, <1>4, <1>6, JobFields DEF JobSound, WorkerSound
<1>8. QueueInv'
  BY <1>1, <1>2, <1>4, <1>5, <1>7, OneJob
<1> QED
  BY <1>4, <1>6, <1>8 DEF QueueInv, QueueTypeOK

LEMMA WorkKeeps ==
  ASSUME QueueInv, NEW w \in Workers, Work(w)
  PROVE  QueueInv' /\ \A i \in Jobs : job'[i].about = job[i].about
BY TakeKeeps, HandleKeeps, CompleteKeeps, FailAttemptKeeps, RescueKeeps DEF Work

\* A crash leaves every job as it is, held by no worker.
LEMMA CrashKeeps ==
  ASSUME QueueInv, CrashWorkers
  PROVE  QueueInv' /\ UNCHANGED job
BY DEF QueueInv, QueueTypeOK, CrashWorkers, IdleWorker, JobSound, WorkerSound, Apart

\* A step that only changes a job no worker holds keeps the queue sound if it
\* leaves that job sound.
LEMMA LooseJob ==
  ASSUME QueueInv, NEW j \in Jobs, NEW new \in JobType, job' = [job EXCEPT ![j] = new],
         UNCHANGED worker, JobSound(j)', \A w \in Workers : worker[w].job # j
  PROVE  QueueInv'
<1>1. QueueTypeOK'
  BY DEF QueueInv, QueueTypeOK, JobType
<1>2. \A i \in Jobs : JobSound(i)'
  BY DEF QueueInv, QueueTypeOK, JobSound
<1>3. ASSUME NEW w \in Workers PROVE WorkerSound(w)'
  <2>1. worker[w].job \in Jobs => job'[worker[w].job] = job[worker[w].job]
    BY DEF QueueInv, QueueTypeOK
  <2> QED
    BY <2>1 DEF QueueInv, WorkerSound
<1> QED
  BY <1>1, <1>2, <1>3 DEF QueueInv, Apart

LEMMA RecoverKeeps ==
  ASSUME QueueInv, NEW j \in Jobs, RecoverStalled(j)
  PROVE  QueueInv' /\ \A i \in Jobs : job'[i].about = job[i].about
<1>1. /\ job[j].state = "active" /\ \A w \in Workers : worker[w].job # j
      /\ UNCHANGED worker
  BY DEF RecoverStalled, Orphaned
<1>2. job[j] \in JobType
  BY DEF QueueInv, QueueTypeOK, JobType
<1>3. CASE job[j].stalls < MaxStalls
           /\ job' = [job EXCEPT ![j].stalls = @ + 1, ![j].state = "waiting"]
  <2>1. PICK new : new = [job[j] EXCEPT !.stalls = @ + 1, !.state = "waiting"]
    OBVIOUS
  <2>2. job[j].stalls + 1 \in 0..MaxStalls
    BY <1>3, JobFields
  <2>3. /\ new \in JobType /\ new.state = "waiting" /\ new.tries = job[j].tries
        /\ new.stalls = job[j].stalls + 1 /\ new.effects = job[j].effects
        /\ new.rescues = job[j].rescues /\ new.about = job[j].about
    BY <1>2, <2>1, <2>2 DEF JobType
  <2>4. job' = [job EXCEPT ![j] = new] /\ job'[j] = new
    BY <1>3, <2>1 DEF QueueInv, QueueTypeOK
  <2>5. JobSound(j)'
    BY <1>1, <2>3, <2>4, JobFields DEF JobSound
  <2> QED
    BY <1>1, <2>3, <2>4, <2>5, LooseJob DEF QueueInv, QueueTypeOK
<1>4. ASSUME NEW n \in {0, 1},
             job' = [job EXCEPT ![j].state = "failed", ![j].rescues = @ + n]
      PROVE  QueueInv' /\ \A i \in Jobs : job'[i].about = job[i].about
  <2>1. PICK new : new = [job[j] EXCEPT !.state = "failed", !.rescues = @ + n]
    OBVIOUS
  <2>2. job[j].rescues + n \in Nat
    BY JobFields
  <2>3. /\ new \in JobType /\ new.state = "failed" /\ new.tries = job[j].tries
        /\ new.stalls = job[j].stalls /\ new.effects = job[j].effects
        /\ new.rescues = job[j].rescues + n /\ new.about = job[j].about
    BY <1>2, <2>1, <2>2 DEF JobType
  <2>4. job' = [job EXCEPT ![j] = new] /\ job'[j] = new
    BY <1>4, <2>1 DEF QueueInv, QueueTypeOK
  <2>5. JobSound(j)'
    BY <1>1, <2>3, <2>4, JobFields DEF JobSound
  <2> QED
    BY <1>1, <2>3, <2>4, <2>5, LooseJob DEF QueueInv, QueueTypeOK
<1> QED
  BY <1>3, <1>4 DEF RecoverStalled

\* A dispatch adds one job, about its payload, and keeps the queue sound.
LEMMA DispatchKeeps ==
  ASSUME QueueInv, NEW p \in Payloads, Dispatch(p)
  PROVE  QueueInv' /\ \E j \in Jobs : /\ job[j].about = None /\ job'[j].about = p
                                      /\ \A i \in Jobs \ {j} : job'[i].about = job[i].about
<1>1. PICK j \in Jobs :
        /\ job[j].state = "unused"
        /\ job' = [job EXCEPT ![j] = [Unused EXCEPT !.state = "waiting", !.about = p]]
        /\ UNCHANGED worker
  BY DEF Dispatch
<1>2. PICK new : new = [Unused EXCEPT !.state = "waiting", !.about = p]
  OBVIOUS
<1>3. /\ new \in JobType /\ new.state = "waiting" /\ new.tries = 0 /\ new.stalls = 0
      /\ new.effects = 0 /\ new.rescues = 0 /\ new.about = p
  <2>1. /\ new.state = "waiting" /\ new.tries = 0 /\ new.stalls = 0
        /\ new.effects = 0 /\ new.rescues = 0 /\ new.about = p
    BY <1>2 DEF Unused
  <2>2. 0 \in 0..Attempts /\ 0 \in 0..MaxStalls
    BY QueueAssumption
  <2>3. new = [state |-> "waiting", about |-> p, tries |-> 0, stalls |-> 0,
               effects |-> 0, rescues |-> 0]
    BY <1>2 DEF Unused
  <2> QED
    BY <2>1, <2>2, <2>3 DEF JobType
<1>4. job' = [job EXCEPT ![j] = new] /\ job'[j] = new
  BY <1>1, <1>2 DEF QueueInv, QueueTypeOK
<1>5. job[j].about = None
  BY <1>1 DEF QueueInv, JobSound, Unused
<1>6. \A w \in Workers : worker[w].job # j
  <2>1. ASSUME NEW w \in Workers, worker[w].job = j PROVE FALSE
    BY <1>1, <2>1, worker[w].pc \in {"idle", "handle", "finish", "rescue"}
       DEF QueueInv, QueueTypeOK, WorkerSound, NoJob, Jobs
  <2> QED
    BY <2>1
<1>7. JobSound(j)'
  BY <1>3, <1>4, QueueAssumption DEF JobSound
<1>8. QueueInv'
  BY <1>1, <1>3, <1>4, <1>6, <1>7, LooseJob
<1> QED
  BY <1>3, <1>4, <1>5, <1>8 DEF QueueInv, QueueTypeOK

---------------------------------------------------------------------------
(* The deliveries                                                          *)

\* A step of the queue that makes no job of a message changes no message's jobs.
LEMMA SameJobs ==
  ASSUME \A i \in Jobs : job'[i].about = job[i].about
  PROVE  \A p : JobsFor(p)' = JobsFor(p)
BY DEF JobsFor

LEMMA JobsAreFinite == \A p : IsFiniteSet(JobsFor(p)) /\ Cardinality(JobsFor(p)) \in Nat
<1>1. TAKE p
<1>2. IsFiniteSet(Jobs)
  BY FS_Interval, QueueAssumption DEF Jobs
<1> QED
  BY <1>2, FS_Subset, FS_CardinalityType DEF JobsFor

\* A dispatch gives its message one job more, and no other message any.
LEMMA OneMoreJob ==
  ASSUME QueueInv, NEW p \in Payloads, Dispatch(p)
  PROVE  /\ QueueInv'
         /\ JobsFor(p)' # {} /\ Cardinality(JobsFor(p)') = Cardinality(JobsFor(p)) + 1
         /\ \A q \in Payloads \ {p} : JobsFor(q)' = JobsFor(q)
<1>1. PICK j \in Jobs : /\ job[j].about = None /\ job'[j].about = p
                        /\ \A i \in Jobs \ {j} : job'[i].about = job[i].about
  BY DispatchKeeps
<1>2. None \notin Payloads
  BY QueueAssumption DEF None
<1>3. JobsFor(p)' = JobsFor(p) \cup {j} /\ j \notin JobsFor(p)
  BY <1>1, <1>2 DEF JobsFor
<1>4. \A q \in Payloads \ {p} : JobsFor(q)' = JobsFor(q)
  BY <1>1, <1>2 DEF JobsFor
<1>5. Cardinality(JobsFor(p) \cup {j}) = Cardinality(JobsFor(p)) + 1
  BY <1>3, JobsAreFinite, FS_AddElement
<1> QED
  BY <1>3, <1>4, <1>5, DispatchKeeps

\* The messages the handler reads of a notification are a sequence of payloads.
LEMMA ReadIsSeq ==
  ASSUME NEW n \in Notifications
  PROVE  /\ Read(n) \in Seq(Payloads) /\ Len(Read(n)) \in Nat
         /\ ToSet(Read(n)) = {Read(n)[i] : i \in 1..Len(Read(n))}
<1>1. Changes[n] \in Seq(Seq(Payloads))
  BY ChangesAssumption
<1>2. Read(n) \in Seq(Payloads)
  BY <1>1 DEF Read
<1> QED
  BY <1>2 DEF ToSet

DeliveryType == [pc : {"sender", "dispatch"}, rest : Seq(Payloads), heard : {0, 200}]

\* The messages a delivery still holds are the last ones of what was read.
LEMMA Holds ==
  ASSUME IInv, NEW n \in Notifications, delivery[n].pc = "dispatch"
  PROVE  /\ delivery[n].rest \in Seq(Payloads) /\ Len(delivery[n].rest) \in Nat
         /\ Done(n) \in Nat /\ Done(n) + Len(delivery[n].rest) = Len(Read(n))
         /\ \A i \in 1..Len(delivery[n].rest) : delivery[n].rest[i] = Read(n)[i + Done(n)]
         /\ \A i \in 1..Done(n) : JobsFor(Read(n)[i]) # {}
         /\ \A i \in 1..Len(delivery[n].rest) :
              Cardinality(JobsFor(delivery[n].rest[i])) < sends[n]
<1>1. delivery[n].rest \in Seq(Payloads)
  BY DEF IInv, TypeOK
<1>2. Len(delivery[n].rest) \in Nat /\ Len(Read(n)) \in Nat
  BY <1>1, ReadIsSeq
<1>3. Done(n) = Len(Read(n)) - Len(delivery[n].rest)
  BY DEF Done
<1>4. DeliverySound(n)
  BY DEF IInv
<1>5. Done(n) + Len(delivery[n].rest) = Len(Read(n))
  BY <1>2, <1>3
<1> QED
  BY <1>1, <1>2, <1>4, <1>5 DEF DeliverySound

\* A delivery that stays as it is stays sound, if its messages keep their jobs.
LEMMA Untouched ==
  ASSUME IInv, NEW n \in Notifications, delivery'[n] = delivery[n], sends'[n] = sends[n],
         \A i \in 1..Len(Read(n)) : JobsFor(Read(n)[i])' = JobsFor(Read(n)[i])
  PROVE  DeliverySound(n)'
<1> SUFFICES ASSUME delivery[n].pc = "dispatch" PROVE DeliverySound(n)'
  BY DEF DeliverySound
<1>1. Done(n)' = Done(n)
  BY DEF Done, Read
<1>2. \A i \in 1..Done(n) : i \in 1..Len(Read(n))
  BY Holds
<1>3. \A i \in 1..Len(delivery[n].rest) :
        JobsFor(delivery[n].rest[i])' = JobsFor(delivery[n].rest[i])
  <2>1. TAKE i \in 1..Len(delivery[n].rest)
  <2>2. i + Done(n) \in 1..Len(Read(n))
    BY Holds
  <2>3. delivery[n].rest[i] = Read(n)[i + Done(n)]
    BY Holds
  <2>4. delivery'[n].rest[i] = delivery[n].rest[i]
    OBVIOUS
  <2> QED
    BY <2>2, <2>3, <2>4 DEF JobsFor
<1>4. /\ Done(n) \in Nat
      /\ \A i \in 1..Len(delivery[n].rest) : delivery[n].rest[i] = Read(n)[i + Done(n)]
      /\ \A i \in 1..Done(n) : JobsFor(Read(n)[i])' # {}
      /\ \A i \in 1..Len(delivery[n].rest) :
           Cardinality(JobsFor(delivery[n].rest[i])') < sends[n]
  BY <1>2, <1>3, Holds
<1> QED
  BY <1>1, <1>4 DEF DeliverySound, Read, JobsFor

\* The message that is dispatched next is one of its notification's, and no
\* other message of any notification is the same.
LEMMA NextMessage ==
  ASSUME IInv, NEW n \in Notifications, delivery[n].pc = "dispatch", delivery[n].rest # <<>>,
         NEW p, p = Head(delivery[n].rest)
  PROVE  /\ p \in Payloads /\ p = delivery[n].rest[1]
         /\ Done(n) + 1 \in 1..Len(Read(n)) /\ p = Read(n)[Done(n) + 1]
         /\ Cardinality(JobsFor(p)) < sends[n]
         /\ \A m \in Notifications : \A i \in 1..Len(Read(m)) :
              Read(m)[i] = p => m = n /\ i = Done(n) + 1
<1>1. delivery[n].rest \in Seq(Payloads) /\ Len(delivery[n].rest) >= 1
  BY Holds
<1>2. p \in Payloads /\ p = delivery[n].rest[1]
  BY <1>1
<1>3. Done(n) + 1 \in 1..Len(Read(n))
  BY <1>1, Holds, ReadIsSeq
<1>4. p = Read(n)[Done(n) + 1] /\ Cardinality(JobsFor(p)) < sends[n]
  BY <1>1, <1>2, Holds
<1>5. \A m \in Notifications : DOMAIN Read(m) = 1..Len(Read(m))
  BY ReadIsSeq
<1>6. \A m \in Notifications : \A i \in 1..Len(Read(m)) :
        Read(m)[i] = p => m = n /\ i = Done(n) + 1
  BY <1>3, <1>4, <1>5, ChangesAssumption
<1> QED
  BY <1>2, <1>3, <1>4, <1>6

\* A dispatch keeps what is said of the other deliveries, of the notifications
\* that were answered, and of how often each message is queued.
LEMMA DispatchedKeeps ==
  ASSUME IInv, NEW n \in Notifications, delivery[n].pc = "dispatch", delivery[n].rest # <<>>,
         Dispatch(Head(delivery[n].rest)), UNCHANGED <<sends, confirmed>>,
         \A m \in Notifications \ {n} : delivery'[m] = delivery[m]
  PROVE  /\ QueueInv' /\ ConfirmedIsQueued' /\ QueuedOncePerDelivery'
         /\ \A m \in Notifications \ {n} : DeliverySound(m)'
<1>1. PICK p : p = Head(delivery[n].rest)
  OBVIOUS
<1>2. /\ p \in Payloads /\ Done(n) + 1 \in 1..Len(Read(n)) /\ p = Read(n)[Done(n) + 1]
      /\ Cardinality(JobsFor(p)) < sends[n]
      /\ \A m \in Notifications : \A i \in 1..Len(Read(m)) :
           Read(m)[i] = p => m = n /\ i = Done(n) + 1
  BY <1>1, NextMessage
<1>3. /\ QueueInv'
      /\ JobsFor(p)' # {} /\ Cardinality(JobsFor(p)') = Cardinality(JobsFor(p)) + 1
      /\ \A q \in Payloads \ {p} : JobsFor(q)' = JobsFor(q)
  BY <1>1, <1>2, OneMoreJob DEF IInv
<1>4. \A m \in Notifications : \A i \in 1..Len(Read(m)) : Read(m)[i] \in Payloads
  BY ReadIsSeq
<1>5. ASSUME NEW m \in Notifications \ {n} PROVE DeliverySound(m)'
  <2>1. \A i \in 1..Len(Read(m)) : JobsFor(Read(m)[i])' = JobsFor(Read(m)[i])
    BY <1>2, <1>3, <1>4 DEF Read, JobsFor
  <2> QED
    BY <2>1, Untouched
<1>6. \A q \in Payloads : JobsFor(q) # {} => JobsFor(q)' # {}
  BY <1>3
<1>7. ConfirmedIsQueued'
  <2>1. ASSUME NEW m \in confirmed, NEW q \in ToSet(Read(m)) PROVE JobsFor(q)' # {}
    <3>1. m \in Notifications /\ JobsFor(q) # {}
      BY DEF IInv, TypeOK, ConfirmedIsQueued
    <3>2. q \in Payloads
      BY <1>4, <3>1, ReadIsSeq
    <3> QED
      BY <1>6, <3>1, <3>2
  <2> QED
    BY <2>1 DEF ConfirmedIsQueued, Read, JobsFor
<1>8. QueuedOncePerDelivery'
  <2>1. ASSUME NEW m \in Notifications, NEW q \in ToSet(Read(m))
        PROVE  Cardinality(JobsFor(q)') <= sends[m]
    <3>1. q \in Payloads
      BY <1>4, ReadIsSeq
    <3>2. CASE q = p
      <4>1. m = n
        BY <1>2, <3>2, ReadIsSeq
      <4>2. sends[n] \in Nat
        BY ChangesAssumption DEF IInv, TypeOK
      <4> QED
        BY <1>2, <1>3, <3>2, <4>1, <4>2, JobsAreFinite
    <3>3. CASE q # p
      BY <1>3, <3>1, <3>3 DEF IInv, QueuedOncePerDelivery
    <3> QED
      BY <3>2, <3>3
  <2> QED
    BY <2>1 DEF QueuedOncePerDelivery, Read, JobsFor
<1> QED
  BY <1>3, <1>5, <1>7, <1>8

\* A step of the queue alone keeps the invariant, if it makes no job.
LEMMA QueueStepKeeps ==
  ASSUME IInv, QueueInv', \A i \in Jobs : job'[i].about = job[i].about, UNCHANGED others
  PROVE  IInv'
<1>1. \A p : JobsFor(p)' = JobsFor(p)
  BY SameJobs
<1>2. TypeOK'
  BY DEF IInv, TypeOK, QueueInv, others
<1>3. \A n \in Notifications : DeliverySound(n)'
  BY <1>1, Untouched DEF others, Read, JobsFor
<1>4. ConfirmedIsQueued' /\ QueuedOncePerDelivery'
  BY <1>1 DEF IInv, ConfirmedIsQueued, QueuedOncePerDelivery, others, Read, JobsFor
<1> QED
  BY <1>2, <1>3, <1>4 DEF IInv

\* An answer leaves the delivery with the sender.
LEMMA Answered ==
  ASSUME IInv, NEW n \in Notifications, Respond(n)
  PROVE  /\ delivery' \in [Notifications -> DeliveryType]
         /\ delivery'[n].pc = "sender"
         /\ \A m \in Notifications \ {n} : delivery'[m] = delivery[m]
<1>1. PICK heard \in {0, 200} :
        delivery' = [delivery EXCEPT ![n] = [Unsent EXCEPT !.heard = heard]]
  BY DEF Respond
<1>2. [Unsent EXCEPT !.heard = heard] = [pc |-> "sender", rest |-> <<>>, heard |-> heard]
  BY DEF Unsent
<1>3. delivery \in [Notifications -> DeliveryType]
  BY DEF IInv, TypeOK, DeliveryType
<1>4. [pc |-> "sender", rest |-> <<>>, heard |-> heard] \in DeliveryType
  BY DEF DeliveryType
<1> QED
  BY <1>1, <1>2, <1>3, <1>4

\* A step that leaves the jobs alone keeps what is said of the messages of
\* every delivery it does not touch and that was not sent again.
LEMMA IdleQueue ==
  ASSUME IInv, UNCHANGED queueVars
  PROVE  /\ QueueInv' /\ QueueTypeOK' /\ \A p : JobsFor(p)' = JobsFor(p)
         /\ \A m \in Notifications :
              delivery'[m] = delivery[m] /\ sends'[m] = sends[m] => DeliverySound(m)'
<1>1. QueueInv' /\ QueueTypeOK'
  BY DEF IInv, QueueInv, QueueTypeOK, JobSound, WorkerSound, Apart, queueVars
<1>2. \A p : JobsFor(p)' = JobsFor(p)
  BY DEF JobsFor, queueVars
<1>3. ASSUME NEW m \in Notifications, delivery'[m] = delivery[m], sends'[m] = sends[m]
      PROVE  DeliverySound(m)'
  BY <1>2, <1>3, Untouched DEF Read, JobsFor
<1> QED
  BY <1>1, <1>2, <1>3

LEMMA ReceiveKeeps ==
  ASSUME IInv, NEW n \in Notifications, Receive(n)
  PROVE  IInv'
<1>1. /\ sends[n] < MaxSends /\ sends' = [sends EXCEPT ![n] = @ + 1]
      /\ UNCHANGED <<queueVars, confirmed>>
  BY DEF Receive
<1>2. /\ sends \in [Notifications -> 0..MaxSends] /\ MaxSends \in Nat
      /\ delivery \in [Notifications -> DeliveryType] /\ confirmed \subseteq Notifications
  BY ChangesAssumption DEF IInv, TypeOK, DeliveryType
<1>3. /\ sends' \in [Notifications -> 0..MaxSends] /\ sends'[n] = sends[n] + 1
      /\ \A m \in Notifications : sends'[m] >= sends[m]
      /\ \A m \in Notifications \ {n} : sends'[m] = sends[m]
  BY <1>1, <1>2
<1>4. /\ QueueInv' /\ QueueTypeOK' /\ \A p : JobsFor(p)' = JobsFor(p)
      /\ \A m \in Notifications :
           delivery'[m] = delivery[m] /\ sends'[m] = sends[m] => DeliverySound(m)'
  BY <1>1, IdleQueue
<1>5. ConfirmedIsQueued'
  BY <1>1, <1>4 DEF IInv, ConfirmedIsQueued, Read, JobsFor
<1>6. QueuedOncePerDelivery'
  <2>1. ASSUME NEW m \in Notifications, NEW p \in ToSet(Read(m))
        PROVE  Cardinality(JobsFor(p)') <= sends'[m]
    <3>1. Cardinality(JobsFor(p)) <= sends[m] /\ Cardinality(JobsFor(p)) \in Nat
      BY JobsAreFinite DEF IInv, QueuedOncePerDelivery
    <3>2. JobsFor(p)' = JobsFor(p)
      BY <1>4
    <3>3. sends[m] \in Nat /\ sends'[m] \in Nat /\ sends'[m] >= sends[m]
      BY <1>2, <1>3
    <3> QED
      BY <3>1, <3>2, <3>3
  <2> QED
    BY <2>1 DEF QueuedOncePerDelivery, Read, JobsFor
<1>7. CASE delivery' = [delivery EXCEPT ![n] = [pc |-> "dispatch", rest |-> Read(n), heard |-> 0]]
  <2>1. /\ delivery'[n].pc = "dispatch" /\ delivery'[n].rest = Read(n)
        /\ \A m \in Notifications \ {n} : delivery'[m] = delivery[m]
        /\ delivery' \in [Notifications -> DeliveryType]
    BY <1>2, <1>7, ReadIsSeq DEF DeliveryType
  <2>2. Done(n)' = 0
    BY <2>1, ReadIsSeq DEF Done, Read
  <2>3. \A i \in 1..Len(Read(n)) : Cardinality(JobsFor(Read(n)[i])) < sends'[n]
    <3>1. TAKE i \in 1..Len(Read(n))
    <3>2. Cardinality(JobsFor(Read(n)[i])) <= sends[n]
      BY ReadIsSeq DEF IInv, QueuedOncePerDelivery
    <3>3. sends[n] \in Nat /\ Cardinality(JobsFor(Read(n)[i])) \in Nat
      BY <1>2, JobsAreFinite
    <3> QED
      BY <1>3, <3>2, <3>3
  <2>4. DeliverySound(n)'
    <3>1. /\ Done(n)' \in Nat
          /\ \A i \in 1..Len(delivery'[n].rest) : delivery'[n].rest[i] = Read(n)[i + Done(n)']
          /\ \A i \in 1..Done(n)' : JobsFor(Read(n)[i])' # {}
      BY <2>1, <2>2
    <3>2. \A i \in 1..Len(delivery'[n].rest) :
            Cardinality(JobsFor(delivery[n].rest[i])') < sends'[n]
      BY <1>4, <2>1, <2>3 DEF JobsFor
    <3> QED
      BY <3>1, <3>2 DEF DeliverySound, Read
  <2>5. TypeOK'
    BY <1>1, <1>2, <1>3, <1>4, <2>1 DEF TypeOK, DeliveryType
  <2> QED
    BY <1>3, <1>4, <1>5, <1>6, <2>1, <2>4, <2>5 DEF IInv
<1>8. CASE Respond(n)
  <2>1. /\ delivery' \in [Notifications -> DeliveryType] /\ delivery'[n].pc = "sender"
        /\ \A m \in Notifications \ {n} : delivery'[m] = delivery[m]
    BY <1>8, Answered
  <2>2. DeliverySound(n)'
    BY <2>1 DEF DeliverySound
  <2>3. TypeOK'
    BY <1>1, <1>2, <1>3, <1>4, <2>1 DEF TypeOK, DeliveryType
  <2> QED
    BY <1>3, <1>4, <1>5, <1>6, <2>1, <2>2, <2>3 DEF IInv
<1> QED
  BY <1>7, <1>8 DEF Receive

LEMMA DispatchMessageKeeps ==
  ASSUME IInv, NEW n \in Notifications, DispatchMessage(n)
  PROVE  IInv'
<1>1. PICK p, tail :
        /\ p = Head(delivery[n].rest) /\ tail = Tail(delivery[n].rest)
        /\ delivery[n].pc = "dispatch" /\ delivery[n].rest # <<>>
        /\ Dispatch(p) /\ delivery' = [delivery EXCEPT ![n].rest = tail]
        /\ UNCHANGED <<sends, confirmed>>
  BY DEF DispatchMessage
<1>2. delivery \in [Notifications -> DeliveryType]
  BY DEF IInv, TypeOK, DeliveryType
<1>3. /\ delivery[n].rest \in Seq(Payloads) /\ tail \in Seq(Payloads)
      /\ Len(tail) = Len(delivery[n].rest) - 1 /\ Len(tail) \in Nat
      /\ \A i \in 1..Len(tail) : i + 1 \in 1..Len(delivery[n].rest)
                                  /\ tail[i] = delivery[n].rest[i + 1]
  BY <1>1, <1>2, HeadTailProperties DEF DeliveryType
<1>4. /\ delivery' \in [Notifications -> DeliveryType]
      /\ delivery'[n].rest = tail /\ delivery'[n].pc = "dispatch"
      /\ \A m \in Notifications \ {n} : delivery'[m] = delivery[m]
  <2>1. PICK d : d = [delivery[n] EXCEPT !.rest = tail]
    OBVIOUS
  <2>2. d \in DeliveryType /\ d.rest = tail /\ d.pc = "dispatch"
    <3>1. delivery[n] \in DeliveryType
      BY <1>2
    <3>2. tail \in Seq(Payloads) /\ delivery[n].pc = "dispatch"
      BY <1>1, <1>3
    <3>3. d = [pc |-> delivery[n].pc, rest |-> tail, heard |-> delivery[n].heard]
      BY <2>1, <3>1 DEF DeliveryType
    <3> QED
      BY <3>1, <3>2, <3>3 DEF DeliveryType
  <2>3. delivery' = [delivery EXCEPT ![n] = d]
    BY <1>1, <1>2, <2>1
  <2> QED
    BY <1>2, <2>2, <2>3
<1>5. /\ QueueInv' /\ ConfirmedIsQueued' /\ QueuedOncePerDelivery'
      /\ \A m \in Notifications \ {n} : DeliverySound(m)'
  BY <1>1, <1>4, DispatchedKeeps
<1>6. /\ p \in Payloads /\ p = Read(n)[Done(n) + 1]
      /\ \A i \in 1..Len(Read(n)) : Read(n)[i] = p => i = Done(n) + 1
  BY <1>1, NextMessage
<1>7. /\ Done(n) \in Nat /\ Done(n) + Len(delivery[n].rest) = Len(Read(n))
      /\ \A i \in 1..Len(delivery[n].rest) : delivery[n].rest[i] = Read(n)[i + Done(n)]
      /\ \A i \in 1..Done(n) : JobsFor(Read(n)[i]) # {}
      /\ \A i \in 1..Len(delivery[n].rest) :
           Cardinality(JobsFor(delivery[n].rest[i])) < sends[n]
  BY <1>1, Holds
<1>8. /\ JobsFor(p)' # {}
      /\ \A q \in Payloads \ {p} : JobsFor(q)' = JobsFor(q)
  BY <1>1, <1>6, OneMoreJob DEF IInv
<1>9. Done(n)' = Done(n) + 1
  <2>1. Done(n)' = Len(Read(n)) - Len(tail) /\ Done(n) = Len(Read(n)) - Len(delivery[n].rest)
    BY <1>4 DEF Done, Read
  <2>2. Len(Read(n)) \in Nat /\ Len(delivery[n].rest) \in Nat
    BY <1>3, ReadIsSeq
  <2> QED
    BY <1>3, <2>1, <2>2
<1>10. \A i \in 1..Len(tail) :
         /\ tail[i] = Read(n)[i + Done(n)']
         /\ Cardinality(JobsFor(delivery[n].rest[i])') < sends[n]
  <2>1. TAKE i \in 1..Len(tail)
  <2>2. i + 1 \in 1..Len(delivery[n].rest) /\ tail[i] = delivery[n].rest[i + 1]
    BY <1>3
  <2>3. (i + 1) + Done(n) = i + (Done(n) + 1) /\ tail[i] = Read(n)[(i + 1) + Done(n)]
    <3>1. tail[i] = Read(n)[(i + 1) + Done(n)]
      BY <1>7, <2>2
    <3>2. (i + 1) + Done(n) = i + (Done(n) + 1)
      BY <1>7
    <3> QED
      BY <3>1, <3>2
  <2>4. (i + 1) + Done(n) \in 1..Len(Read(n)) /\ (i + 1) + Done(n) # Done(n) + 1
    BY <1>3, <1>7, <2>2
  <2>5. tail[i] # p /\ tail[i] \in Payloads
    BY <1>3, <1>6, <2>3, <2>4
  <2>6. JobsFor(tail[i])' = JobsFor(tail[i])
    BY <1>8, <2>5 DEF JobsFor
  <2>7. Cardinality(JobsFor(tail[i])) < sends[n]
    BY <1>7, <2>2
  <2> QED
    BY <1>4, <1>8, <1>9, <2>3, <2>5, <2>7 DEF JobsFor
<1>11. \A i \in 1..Done(n)' : JobsFor(Read(n)[i])' # {}
  <2>1. ASSUME NEW i \in 1..(Done(n) + 1) PROVE JobsFor(Read(n)[i])' # {}
    <3>1. CASE i = Done(n) + 1
      BY <1>6, <1>8, <3>1 DEF Read, JobsFor
    <3>2. CASE i # Done(n) + 1
      <4>1. i \in 1..Done(n) /\ i \in 1..Len(Read(n))
        BY <1>7, <3>2, Holds, <1>1
      <4>2. Read(n)[i] # p /\ Read(n)[i] \in Payloads
        BY <1>6, <3>2, <4>1, ReadIsSeq
      <4>3. JobsFor(Read(n)[i]) # {} /\ JobsFor(Read(n)[i])' = JobsFor(Read(n)[i])
        BY <1>7, <1>8, <4>1, <4>2 DEF Read, JobsFor
      <4> QED
        BY <4>3
    <3> QED
      BY <3>1, <3>2
  <2> QED
    BY <1>9, <2>1
<1>12. DeliverySound(n)'
  BY <1>1, <1>4, <1>7, <1>9, <1>10, <1>11 DEF DeliverySound, Read
<1>13. TypeOK'
  BY <1>1, <1>4, <1>5 DEF IInv, TypeOK, QueueInv, DeliveryType
<1> QED
  BY <1>5, <1>12, <1>13 DEF IInv

\* The dispatches before one that fails are kept.
LEMMA DispatchFailureKeeps ==
  ASSUME IInv, NEW n \in Notifications, DispatchFailure(n)
  PROVE  IInv'
<1>1. /\ delivery[n].pc = "dispatch" /\ delivery[n].rest # <<>>
      /\ UNCHANGED <<sends, confirmed>>
      /\ delivery' \in [Notifications -> DeliveryType] /\ delivery'[n].pc = "sender"
      /\ \A m \in Notifications \ {n} : delivery'[m] = delivery[m]
  BY Answered DEF DispatchFailure
<1>2. DeliverySound(n)'
  BY <1>1 DEF DeliverySound
<1>3. /\ QueueInv' /\ ConfirmedIsQueued' /\ QueuedOncePerDelivery'
      /\ \A m \in Notifications \ {n} : DeliverySound(m)'
  <2>1. CASE Dispatch(Head(delivery[n].rest))
    BY <1>1, <2>1, DispatchedKeeps
  <2>2. CASE DispatchFails
    BY <1>1, <2>2, IdleQueue
       DEF DispatchFails, IInv, ConfirmedIsQueued, QueuedOncePerDelivery, Read, JobsFor
  <2> QED
    BY <2>1, <2>2 DEF DispatchFailure
<1>4. TypeOK'
  BY <1>1, <1>3 DEF IInv, TypeOK, QueueInv, DeliveryType
<1> QED
  BY <1>2, <1>3, <1>4 DEF IInv

\* A delivery that holds no message any more has queued them all.
LEMMA ConfirmKeeps ==
  ASSUME IInv, NEW n \in Notifications, Confirm(n)
  PROVE  IInv'
<1>1. /\ delivery[n].pc = "dispatch" /\ delivery[n].rest = <<>>
      /\ confirmed' = confirmed \cup {n} /\ UNCHANGED <<queueVars, sends>>
      /\ delivery' \in [Notifications -> DeliveryType] /\ delivery'[n].pc = "sender"
      /\ \A m \in Notifications \ {n} : delivery'[m] = delivery[m]
  BY Answered DEF Confirm
<1>2. /\ QueueInv' /\ QueueTypeOK' /\ \A p : JobsFor(p)' = JobsFor(p)
      /\ \A m \in Notifications \ {n} : DeliverySound(m)'
  BY <1>1, IdleQueue
<1>3. DeliverySound(n)'
  BY <1>1 DEF DeliverySound
<1>4. ConfirmedIsQueued'
  <2>1. Done(n) = Len(Read(n))
    BY <1>1, Holds, ReadIsSeq
  <2>2. \A p \in ToSet(Read(n)) : JobsFor(p) # {}
    BY <1>1, <2>1, Holds, ReadIsSeq
  <2>3. ASSUME NEW m \in confirmed \cup {n}, NEW p \in ToSet(Read(m)) PROVE JobsFor(p)' # {}
    BY <1>2, <2>2 DEF IInv, ConfirmedIsQueued
  <2> QED
    BY <1>1, <2>3 DEF ConfirmedIsQueued, Read, JobsFor
<1>5. QueuedOncePerDelivery'
  BY <1>1, <1>2 DEF IInv, QueuedOncePerDelivery, Read, JobsFor
<1>6. TypeOK'
  BY <1>1, <1>2 DEF IInv, TypeOK, DeliveryType
<1> QED
  BY <1>2, <1>3, <1>4, <1>5, <1>6 DEF IInv

\* A crash of the webhook forgets deliveries, never a job.
LEMMA CrashWebhookKeeps ==
  ASSUME IInv, CrashWebhook
  PROVE  IInv'
<1>1. /\ UNCHANGED <<queueVars, sends, confirmed>>
      /\ \A n \in Notifications : delivery'[n].pc = "sender" \/ delivery'[n] = delivery[n]
      /\ delivery' \in [Notifications -> DeliveryType]
  BY DEF CrashWebhook, Unsent, IInv, TypeOK, DeliveryType
<1>2. /\ QueueInv' /\ QueueTypeOK' /\ \A p : JobsFor(p)' = JobsFor(p)
      /\ \A m \in Notifications : delivery'[m] = delivery[m] => DeliverySound(m)'
  BY <1>1, IdleQueue
<1>3. \A m \in Notifications : DeliverySound(m)'
  BY <1>1, <1>2 DEF DeliverySound
<1>4. ConfirmedIsQueued' /\ QueuedOncePerDelivery'
  BY <1>1, <1>2 DEF IInv, ConfirmedIsQueued, QueuedOncePerDelivery, Read, JobsFor
<1>5. TypeOK'
  BY <1>1, <1>2 DEF IInv, TypeOK, DeliveryType
<1> QED
  BY <1>2, <1>3, <1>4, <1>5 DEF IInv

---------------------------------------------------------------------------
(* The theorems                                                            *)

LEMMA InitKeeps == Init => IInv
<1> SUFFICES ASSUME Init PROVE IInv
  OBVIOUS
<1>1. \A j \in Jobs : job[j] = Unused
  BY DEF Init, QueueInit
<1>2. QueueInv
  <2>1. Unused \in JobType
    BY QueueAssumption DEF Unused, JobType
  <2>2. QueueTypeOK
    BY <2>1 DEF Init, QueueInit, QueueTypeOK, JobType, IdleWorker
  <2>3. \A j \in Jobs : JobSound(j)
    BY <1>1, QueueAssumption DEF JobSound, Unused
  <2>4. (\A w \in Workers : WorkerSound(w)) /\ Apart
    BY DEF Init, QueueInit, WorkerSound, Apart, IdleWorker
  <2> QED
    BY <2>2, <2>3, <2>4 DEF QueueInv
<1>3. TypeOK
  BY <1>2, ChangesAssumption DEF Init, TypeOK, QueueInv, Unsent
<1>4. \A n \in Notifications : DeliverySound(n)
  BY DEF Init, DeliverySound, Unsent
<1>5. ConfirmedIsQueued
  BY DEF Init, ConfirmedIsQueued
<1>6. QueuedOncePerDelivery
  <2>1. ASSUME NEW n \in Notifications, NEW p \in ToSet(Read(n))
        PROVE  Cardinality(JobsFor(p)) <= sends[n]
    <3>1. p \in Payloads
      BY ReadIsSeq
    <3>2. JobsFor(p) = {}
      BY <1>1, <3>1, QueueAssumption DEF JobsFor, Unused, None
    <3> QED
      BY <3>2, FS_EmptySet DEF Init
  <2> QED
    BY <2>1 DEF QueuedOncePerDelivery
<1> QED
  BY <1>2, <1>3, <1>4, <1>5, <1>6 DEF IInv

LEMMA StepKeeps == IInv /\ [Next]_vars => IInv'
<1> SUFFICES ASSUME IInv, [Next]_vars PROVE IInv'
  OBVIOUS
<1>1. ASSUME NEW n \in Notifications, Step(n) PROVE IInv'
  BY <1>1, ReceiveKeeps, DispatchMessageKeeps, DispatchFailureKeeps, ConfirmKeeps DEF Step
<1>2. CASE CrashWebhook
  BY <1>2, CrashWebhookKeeps
<1>3. ASSUME NEW w \in Workers, Work(w), UNCHANGED others PROVE IInv'
  BY <1>3, WorkKeeps, QueueStepKeeps DEF IInv
<1>4. CASE CrashWorkers /\ UNCHANGED others
  BY <1>4, CrashKeeps, QueueStepKeeps DEF IInv
<1>5. ASSUME NEW j \in Jobs, RecoverStalled(j), UNCHANGED others PROVE IInv'
  BY <1>5, RecoverKeeps, QueueStepKeeps DEF IInv
<1>6. CASE UNCHANGED vars
  <2>1. UNCHANGED queueVars /\ UNCHANGED others
    BY <1>6 DEF vars, others
  <2> QED
    BY <2>1, IdleQueue, QueueStepKeeps DEF queueVars
<1> QED
  BY <1>1, <1>2, <1>3, <1>4, <1>5, <1>6 DEF Next

LEMMA Invariance == Spec => []IInv
BY InitKeeps, StepKeeps, PTL DEF Spec

\* The queue, the deliveries and the counters keep their types; in particular
\* no job is attempted or stalls more often than it may.
THEOREM TypeCorrect == Spec => []TypeOK
<1>1. IInv => TypeOK
  BY DEF IInv
<1> QED
  BY <1>1, Invariance, PTL

\* A notification that was answered EVENT_RECEIVED has a job for each message that is
\* read of it, whatever failed or crashed before.
THEOREM ConfirmedQueued == Spec => []ConfirmedIsQueued
<1>1. IInv => ConfirmedIsQueued
  BY DEF IInv
<1> QED
  BY <1>1, Invariance, PTL

\* No message is queued more often than its notification was delivered.
THEOREM OneJobPerDelivery == Spec => []QueuedOncePerDelivery
<1>1. IInv => QueuedOncePerDelivery
  BY DEF IInv
<1> QED
  BY <1>1, Invariance, PTL

\* What a job's outcome says of its work and of its rescue.
OutcomeIsTrue ==
  \A j \in Jobs :
    /\ job[j].state = "completed" => job[j].effects >= 1
    /\ job[j].effects <= Attempts + MaxStalls
    /\ job[j].rescues <= 1
    /\ job[j].rescues = 1 => job[j].state = "failed"

\* A completed job did its work, no job did it more often than its attempts
\* and stalls allow, and only a job that failed was rescued, and once.
THEOREM OutcomesTrue == Spec => []OutcomeIsTrue
<1>1. IInv => OutcomeIsTrue
  <2> SUFFICES ASSUME IInv, NEW j \in Jobs
               PROVE  /\ job[j].state = "completed" => job[j].effects >= 1
                      /\ job[j].effects <= Attempts + MaxStalls
                      /\ job[j].rescues <= 1
                      /\ job[j].rescues = 1 => job[j].state = "failed"
    BY DEF OutcomeIsTrue
  <2> QED
    BY JobFields DEF IInv, JobSound
<1> QED
  BY <1>1, Invariance, PTL

---------------------------------------------------------------------------
(* The refinement                                                          *)

\* A field of every job, when one job was replaced.
LEMMA FieldsReplaced ==
  ASSUME NEW S, NEW f, NEW g, NEW j \in S, NEW new,
         g[j] = new, \A i \in S \ {j} : g[i] = f[i]
  PROVE  /\ [i \in S |-> g[i].about] = [[i \in S |-> f[i].about] EXCEPT ![j] = new.about]
         /\ [i \in S |-> g[i].effects] = [[i \in S |-> f[i].effects] EXCEPT ![j] = new.effects]
         /\ [i \in S |-> g[i].rescues] = [[i \in S |-> f[i].rescues] EXCEPT ![j] = new.rescues]
OBVIOUS

\* How the outcome of a job is shown.
Shown(state) == IF state \in {"waiting", "active"} THEN "pending" ELSE state

\* What a step that replaces one job changes of the promise.
LEMMA OneMapped ==
  ASSUME QueueInv, NEW j \in Jobs, NEW new, job' = [job EXCEPT ![j] = new]
  PROVE  /\ [i \in Jobs |-> job[i].about]' =
              [[i \in Jobs |-> job[i].about] EXCEPT ![j] = new.about]
         /\ [i \in Jobs |-> Outcome(i)]' =
              [[i \in Jobs |-> Outcome(i)] EXCEPT ![j] = Shown(new.state)]
         /\ [i \in Jobs |-> job[i].effects]' =
              [[i \in Jobs |-> job[i].effects] EXCEPT ![j] = new.effects]
         /\ [i \in Jobs |-> job[i].rescues]' =
              [[i \in Jobs |-> job[i].rescues] EXCEPT ![j] = new.rescues]
<1>1. job'[j] = new /\ \A i \in Jobs \ {j} : job'[i] = job[i]
  BY DEF QueueInv, QueueTypeOK
<1>2. PICK next : next = job'
  OBVIOUS
<1>3. next[j] = new /\ \A i \in Jobs \ {j} : next[i] = job[i]
  BY <1>1, <1>2
<1>4. /\ [i \in Jobs |-> next[i].about] =
           [[i \in Jobs |-> job[i].about] EXCEPT ![j] = new.about]
      /\ [i \in Jobs |-> next[i].effects] =
           [[i \in Jobs |-> job[i].effects] EXCEPT ![j] = new.effects]
      /\ [i \in Jobs |-> next[i].rescues] =
           [[i \in Jobs |-> job[i].rescues] EXCEPT ![j] = new.rescues]
  BY <1>3, FieldsReplaced
<1>5. PICK shown : shown = Shown(new.state)
  OBVIOUS
<1>6. Outcome(j)' = shown /\ \A i \in Jobs \ {j} : Outcome(i)' = Outcome(i)
  BY <1>1, <1>5 DEF Outcome, Shown
<1>7. [i \in Jobs |-> Outcome(i)'] = [[i \in Jobs |-> Outcome(i)] EXCEPT ![j] = shown]
  BY <1>6
<1> QED
  BY <1>2, <1>4, <1>5, <1>7

\* A step that changes no job and no confirmation is a stutter.
LEMMA IdleStutters ==
  ASSUME UNCHANGED <<job, confirmed>>
  PROVE  UNCHANGED Delivery!vars
BY DEF Delivery!vars, Delivery!jobVars, Outcome

\* The promise when the job j is replaced by one with the same message.
LEMMA ReplacedSame ==
  ASSUME QueueInv, NEW j \in Jobs, NEW new, job' = [job EXCEPT ![j] = new],
         new.about = job[j].about
  PROVE  /\ [i \in Jobs |-> job[i].about]' = [i \in Jobs |-> job[i].about]
         /\ Shown(new.state) = Outcome(j) =>
              [i \in Jobs |-> Outcome(i)]' = [i \in Jobs |-> Outcome(i)]
         /\ new.effects = job[j].effects =>
              [i \in Jobs |-> job[i].effects]' = [i \in Jobs |-> job[i].effects]
         /\ new.rescues = job[j].rescues =>
              [i \in Jobs |-> job[i].rescues]' = [i \in Jobs |-> job[i].rescues]
<1>1. PICK a, o, e, r : /\ a = [i \in Jobs |-> job[i].about]
                        /\ o = [i \in Jobs |-> Outcome(i)]
                        /\ e = [i \in Jobs |-> job[i].effects]
                        /\ r = [i \in Jobs |-> job[i].rescues]
  OBVIOUS
<1>2. /\ [a EXCEPT ![j] = a[j]] = a /\ [o EXCEPT ![j] = o[j]] = o
      /\ [e EXCEPT ![j] = e[j]] = e /\ [r EXCEPT ![j] = r[j]] = r
  BY <1>1
<1>3. a[j] = job[j].about /\ o[j] = Outcome(j) /\ e[j] = job[j].effects /\ r[j] = job[j].rescues
  BY <1>1
<1>4. /\ [i \in Jobs |-> job[i].about]' = [a EXCEPT ![j] = new.about]
      /\ [i \in Jobs |-> Outcome(i)]' = [o EXCEPT ![j] = Shown(new.state)]
      /\ [i \in Jobs |-> job[i].effects]' = [e EXCEPT ![j] = new.effects]
      /\ [i \in Jobs |-> job[i].rescues]' = [r EXCEPT ![j] = new.rescues]
  BY <1>1, OneMapped
<1> QED
  BY <1>1, <1>2, <1>3, <1>4

\* A dispatch accepts a message.
LEMMA DispatchAccepts ==
  ASSUME QueueInv, NEW p \in Payloads, Dispatch(p), UNCHANGED confirmed
  PROVE  Delivery!Next
<1>1. PICK j \in Jobs :
        /\ job[j].state = "unused"
        /\ job' = [job EXCEPT ![j] = [Unused EXCEPT !.state = "waiting", !.about = p]]
  BY DEF Dispatch
<1>2. PICK new : new = [Unused EXCEPT !.state = "waiting", !.about = p]
  OBVIOUS
<1>3. /\ new.state = "waiting" /\ new.about = p /\ new.effects = 0 /\ new.rescues = 0
  BY <1>2 DEF Unused
<1>4. job[j].effects = 0 /\ job[j].rescues = 0 /\ Outcome(j) = "unused"
  BY <1>1 DEF QueueInv, JobSound, Unused, Outcome
<1>5. job' = [job EXCEPT ![j] = new]
  BY <1>1, <1>2
<1>6. PICK e, r : /\ e = [i \in Jobs |-> job[i].effects]
                  /\ r = [i \in Jobs |-> job[i].rescues]
  OBVIOUS
<1>7. /\ [i \in Jobs |-> job[i].about]' = [[i \in Jobs |-> job[i].about] EXCEPT ![j] = p]
      /\ [i \in Jobs |-> Outcome(i)]' = [[i \in Jobs |-> Outcome(i)] EXCEPT ![j] = "pending"]
      /\ [i \in Jobs |-> job[i].effects]' = [e EXCEPT ![j] = 0]
      /\ [i \in Jobs |-> job[i].rescues]' = [r EXCEPT ![j] = 0]
  BY <1>3, <1>5, <1>6, OneMapped DEF Shown
<1>8. [e EXCEPT ![j] = 0] = e /\ [r EXCEPT ![j] = 0] = r
  BY <1>4, <1>6
<1>9. [i \in Jobs |-> Outcome(i)][j] = "unused"
  BY <1>4
<1>10. Delivery!Accept(j, p)
  BY <1>6, <1>7, <1>8, <1>9 DEF Delivery!Accept
<1> QED
  BY <1>10 DEF Delivery!Next

\* A job that a worker handles may still do its work.
LEMMA HandlePerforms ==
  ASSUME QueueInv, NEW w \in Workers, Handle(w), UNCHANGED confirmed
  PROVE  Delivery!Next
<1>1. PICK j \in Jobs : /\ worker[w].pc = "handle" /\ worker[w].job = j /\ WorkerSound(w)
                        /\ job' = [job EXCEPT ![j].effects = @ + 1]
  BY HoldsOne DEF Handle, At
<1>2. PICK new : new = [job[j] EXCEPT !.effects = @ + 1]
  OBVIOUS
<1>3. /\ new.state = job[j].state /\ new.about = job[j].about
      /\ new.effects = job[j].effects + 1 /\ new.rescues = job[j].rescues
  BY <1>2 DEF QueueInv, QueueTypeOK
<1>4. job[j].state = "active" /\ job[j].effects < Attempts + MaxStalls
  <2>1. job[j].state = "active" /\ job[j].effects <= job[j].tries + job[j].stalls
    BY <1>1 DEF WorkerSound
  <2>2. job[j].tries < Attempts
    BY <2>1, JobFields DEF JobSound
  <2> QED
    BY <2>1, <2>2, JobFields
<1>5. job' = [job EXCEPT ![j] = new]
  BY <1>1, <1>2
<1>6. PICK e : e = [i \in Jobs |-> job[i].effects]
  OBVIOUS
<1>7. /\ [i \in Jobs |-> job[i].about]' = [i \in Jobs |-> job[i].about]
      /\ [i \in Jobs |-> Outcome(i)]' = [i \in Jobs |-> Outcome(i)]
      /\ [i \in Jobs |-> job[i].effects]' = [e EXCEPT ![j] = e[j] + 1]
      /\ [i \in Jobs |-> job[i].rescues]' = [i \in Jobs |-> job[i].rescues]
  <2>1. Shown(new.state) = Outcome(j) /\ e[j] + 1 = new.effects
    BY <1>3, <1>4, <1>6 DEF Shown, Outcome
  <2>2. [i \in Jobs |-> job[i].effects]' = [e EXCEPT ![j] = new.effects]
    BY <1>5, <1>6, OneMapped
  <2> QED
    BY <1>3, <1>5, <2>1, <2>2, ReplacedSame
<1>8. [i \in Jobs |-> Outcome(i)][j] = "pending" /\ e[j] < Attempts + MaxStalls
  BY <1>4, <1>6 DEF Outcome
<1>9. Delivery!Perform(j)
  BY <1>6, <1>7, <1>8 DEF Delivery!Perform
<1> QED
  BY <1>9 DEF Delivery!Next

\* A worker completes a job only after its work.
LEMMA CompleteCompletes ==
  ASSUME QueueInv, NEW w \in Workers, Complete(w), UNCHANGED confirmed
  PROVE  Delivery!Next
<1>1. PICK j \in Jobs : /\ worker[w].pc = "finish" /\ worker[w].job = j /\ WorkerSound(w)
                        /\ job' = [job EXCEPT ![j].state = "completed"]
  BY HoldsOne DEF Complete, At
<1>2. PICK new : new = [job[j] EXCEPT !.state = "completed"]
  OBVIOUS
<1>3. /\ new.state = "completed" /\ new.about = job[j].about
      /\ new.effects = job[j].effects /\ new.rescues = job[j].rescues
  BY <1>2 DEF QueueInv, QueueTypeOK
<1>4. job[j].state = "active" /\ job[j].effects > 0
  BY <1>1, JobFields DEF WorkerSound
<1>5. job' = [job EXCEPT ![j] = new]
  BY <1>1, <1>2
<1>6. /\ [i \in Jobs |-> job[i].about]' = [i \in Jobs |-> job[i].about]
      /\ [i \in Jobs |-> Outcome(i)]' =
           [[i \in Jobs |-> Outcome(i)] EXCEPT ![j] = "completed"]
      /\ [i \in Jobs |-> job[i].effects]' = [i \in Jobs |-> job[i].effects]
      /\ [i \in Jobs |-> job[i].rescues]' = [i \in Jobs |-> job[i].rescues]
  <2>1. Shown(new.state) = "completed"
    BY <1>3 DEF Shown
  <2>2. [i \in Jobs |-> Outcome(i)]' =
          [[i \in Jobs |-> Outcome(i)] EXCEPT ![j] = Shown(new.state)]
    BY <1>5, OneMapped
  <2> QED
    BY <1>3, <1>5, <2>1, <2>2, ReplacedSame
<1>7. [i \in Jobs |-> Outcome(i)][j] = "pending" /\ [i \in Jobs |-> job[i].effects][j] > 0
  BY <1>4 DEF Outcome
<1>8. Delivery!Complete(j)
  BY <1>6, <1>7 DEF Delivery!Complete
<1> QED
  BY <1>8 DEF Delivery!Next

\* A pending job that fails, rescued or not, is given up.
LEMMA FailsGivesUp ==
  ASSUME QueueInv, NEW j \in Jobs, NEW new, job' = [job EXCEPT ![j] = new],
         job[j].state = "active", new.state = "failed", new.about = job[j].about,
         new.effects = job[j].effects, new.rescues \in {0, 1}, UNCHANGED confirmed
  PROVE  Delivery!Next
<1>1. PICK n \in {0, 1} : n = new.rescues
  OBVIOUS
<1>2. /\ [i \in Jobs |-> job[i].about]' = [i \in Jobs |-> job[i].about]
      /\ [i \in Jobs |-> Outcome(i)]' =
           [[i \in Jobs |-> Outcome(i)] EXCEPT ![j] = "failed"]
      /\ [i \in Jobs |-> job[i].effects]' = [i \in Jobs |-> job[i].effects]
      /\ [i \in Jobs |-> job[i].rescues]' =
           [[i \in Jobs |-> job[i].rescues] EXCEPT ![j] = n]
  <2>1. Shown(new.state) = "failed"
    BY DEF Shown
  <2>2. /\ [i \in Jobs |-> Outcome(i)]' =
             [[i \in Jobs |-> Outcome(i)] EXCEPT ![j] = Shown(new.state)]
        /\ [i \in Jobs |-> job[i].rescues]' =
             [[i \in Jobs |-> job[i].rescues] EXCEPT ![j] = new.rescues]
    BY OneMapped
  <2>3. /\ [i \in Jobs |-> job[i].about]' = [i \in Jobs |-> job[i].about]
        /\ [i \in Jobs |-> job[i].effects]' = [i \in Jobs |-> job[i].effects]
    BY ReplacedSame
  <2> QED
    BY <1>1, <2>1, <2>2, <2>3
<1>3. [i \in Jobs |-> Outcome(i)][j] = "pending"
  BY DEF Outcome
<1>4. Delivery!GiveUp(j)
  BY <1>2, <1>3 DEF Delivery!GiveUp
<1> QED
  BY <1>4 DEF Delivery!Next

\* A job that is taken, or waits again, stays pending.
LEMMA PendingStutters ==
  ASSUME QueueInv, NEW j \in Jobs, NEW new, job' = [job EXCEPT ![j] = new],
         Outcome(j) = "pending", new.state \in {"waiting", "active"},
         new.about = job[j].about, new.effects = job[j].effects,
         new.rescues = job[j].rescues, UNCHANGED confirmed
  PROVE  UNCHANGED Delivery!vars
<1>1. Shown(new.state) = Outcome(j)
  BY DEF Shown
<1>2. /\ [i \in Jobs |-> job[i].about]' = [i \in Jobs |-> job[i].about]
      /\ [i \in Jobs |-> Outcome(i)]' = [i \in Jobs |-> Outcome(i)]
      /\ [i \in Jobs |-> job[i].effects]' = [i \in Jobs |-> job[i].effects]
      /\ [i \in Jobs |-> job[i].rescues]' = [i \in Jobs |-> job[i].rescues]
  BY <1>1, ReplacedSame
<1> QED
  BY <1>2 DEF Delivery!vars, Delivery!jobVars

LEMMA TakeStutters ==
  ASSUME QueueInv, NEW w \in Workers, Take(w), UNCHANGED confirmed
  PROVE  UNCHANGED Delivery!vars
<1>1. PICK j \in Jobs : /\ job[j].state = "waiting"
                        /\ job' = [job EXCEPT ![j].state = "active"]
  BY DEF Take
<1>2. PICK new : new = [job[j] EXCEPT !.state = "active"]
  OBVIOUS
<1>3. /\ new.state = "active" /\ new.about = job[j].about
      /\ new.effects = job[j].effects /\ new.rescues = job[j].rescues
  BY <1>2 DEF QueueInv, QueueTypeOK
<1>4. job' = [job EXCEPT ![j] = new] /\ Outcome(j) = "pending"
  BY <1>1, <1>2 DEF Outcome
<1> QED
  BY <1>3, <1>4, PendingStutters

LEMMA FailAttemptMaps ==
  ASSUME QueueInv, NEW w \in Workers, FailAttempt(w), UNCHANGED confirmed
  PROVE  [Delivery!Next]_(Delivery!vars)
<1>1. PICK j \in Jobs : worker[w].pc \in {"handle", "finish"} /\ worker[w].job = j /\ WorkerSound(w)
  BY HoldsOne DEF FailAttempt
<1>2. PICK last \in BOOLEAN : last = (job[j].tries + 1 = Attempts)
  OBVIOUS
<1>3. PICK new : new = [job[j] EXCEPT !.tries = @ + 1,
                                      !.state = IF last THEN "failed" ELSE "waiting"]
  OBVIOUS
<1>4. job' = [job EXCEPT ![j] = new]
  BY <1>1, <1>2, <1>3 DEF FailAttempt
<1>5. /\ new.state = (IF last THEN "failed" ELSE "waiting")
      /\ new.effects = job[j].effects /\ new.rescues = job[j].rescues
      /\ new.about = job[j].about
  BY <1>3 DEF QueueInv, QueueTypeOK
<1>6. job[j].state = "active" /\ job[j].rescues = 0 /\ Outcome(j) = "pending"
  BY <1>1, JobFields DEF WorkerSound, JobSound, Outcome
<1>7. CASE last
  BY <1>4, <1>5, <1>6, <1>7, FailsGivesUp
<1>8. CASE ~last
  BY <1>4, <1>5, <1>6, <1>8, PendingStutters
<1> QED
  BY <1>7, <1>8

\* Only a job that failed and was not rescued is rescued.
LEMMA RescueMaps ==
  ASSUME QueueInv, NEW w \in Workers, Rescue(w), UNCHANGED confirmed
  PROVE  [Delivery!Next]_(Delivery!vars)
<1>1. PICK j \in Jobs : worker[w].pc = "rescue" /\ worker[w].job = j /\ WorkerSound(w)
  BY HoldsOne DEF Rescue, At
<1>2. PICK n \in {0, 1} : job' = [job EXCEPT ![j].rescues = @ + n]
  BY <1>1 DEF Rescue
<1>3. PICK new : new = [job[j] EXCEPT !.rescues = @ + n]
  OBVIOUS
<1>4. job[j].state = "failed" /\ job[j].rescues = 0
  BY <1>1 DEF WorkerSound
<1>5. /\ new.state = job[j].state /\ new.about = job[j].about
      /\ new.effects = job[j].effects /\ new.rescues = n
  BY <1>3, <1>4 DEF QueueInv, QueueTypeOK
<1>6. job' = [job EXCEPT ![j] = new] /\ Shown(new.state) = Outcome(j)
  BY <1>2, <1>3, <1>4, <1>5 DEF Shown, Outcome
<1>7. /\ [i \in Jobs |-> job[i].about]' = [i \in Jobs |-> job[i].about]
      /\ [i \in Jobs |-> Outcome(i)]' = [i \in Jobs |-> Outcome(i)]
      /\ [i \in Jobs |-> job[i].effects]' = [i \in Jobs |-> job[i].effects]
      /\ [i \in Jobs |-> job[i].rescues]' =
           [[i \in Jobs |-> job[i].rescues] EXCEPT ![j] = n]
  BY <1>5, <1>6, OneMapped, ReplacedSame
<1>8. CASE n = 0
  <2>1. [i \in Jobs |-> job[i].rescues]' = [i \in Jobs |-> job[i].rescues]
    BY <1>4, <1>5, <1>6, <1>8, ReplacedSame
  <2> QED
    BY <1>7, <2>1 DEF Delivery!vars, Delivery!jobVars
<1>9. CASE n = 1
  <2>1. /\ [i \in Jobs |-> Outcome(i)][j] = "failed"
        /\ [i \in Jobs |-> job[i].rescues][j] = 0
    BY <1>4 DEF Outcome
  <2>2. Delivery!Rescue(j)
    BY <1>7, <1>9, <2>1 DEF Delivery!Rescue
  <2> QED
    BY <2>2 DEF Delivery!Next
<1> QED
  BY <1>8, <1>9

LEMMA RecoverMaps ==
  ASSUME QueueInv, NEW j \in Jobs, RecoverStalled(j), UNCHANGED confirmed
  PROVE  [Delivery!Next]_(Delivery!vars)
<1>1. job[j].state = "active" /\ job[j].rescues = 0 /\ Outcome(j) = "pending"
  BY JobFields DEF RecoverStalled, Orphaned, JobSound, Outcome
<1>2. CASE job' = [job EXCEPT ![j].stalls = @ + 1, ![j].state = "waiting"]
  <2>1. PICK new : new = [job[j] EXCEPT !.stalls = @ + 1, !.state = "waiting"]
    OBVIOUS
  <2>2. /\ new.state = "waiting" /\ new.about = job[j].about
        /\ new.effects = job[j].effects /\ new.rescues = job[j].rescues
    BY <2>1 DEF QueueInv, QueueTypeOK
  <2>3. job' = [job EXCEPT ![j] = new]
    BY <1>2, <2>1
  <2> QED
    BY <1>1, <2>2, <2>3, PendingStutters
<1>3. ASSUME NEW n \in {0, 1},
             job' = [job EXCEPT ![j].state = "failed", ![j].rescues = @ + n]
      PROVE  [Delivery!Next]_(Delivery!vars)
  <2>1. PICK new : new = [job[j] EXCEPT !.state = "failed", !.rescues = @ + n]
    OBVIOUS
  <2>2. /\ new.state = "failed" /\ new.about = job[j].about
        /\ new.effects = job[j].effects /\ new.rescues \in {0, 1}
    BY <1>1, <2>1 DEF QueueInv, QueueTypeOK
  <2>3. job' = [job EXCEPT ![j] = new]
    BY <1>3, <2>1
  <2> QED
    BY <1>1, <2>2, <2>3, FailsGivesUp
<1> QED
  BY <1>2, <1>3 DEF RecoverStalled

\* A notification is confirmed when every message of it was accepted.
LEMMA ConfirmMaps ==
  ASSUME IInv, ConfirmedIsQueued', NEW n \in Notifications, Confirm(n)
  PROVE  Delivery!Next
<1>1. confirmed' = confirmed \cup {n} /\ UNCHANGED job
  BY DEF Confirm, queueVars
<1>2. ASSUME NEW p \in ToSet(Read(n)) PROVE \E j \in Jobs : job[j].about = p
  <2>1. JobsFor(p)' # {}
    BY <1>1 DEF ConfirmedIsQueued, Read
  <2> QED
    BY <1>1, <2>1 DEF JobsFor
<1>3. \A p \in ToSet(Read(n)) : \E j \in Jobs : [i \in Jobs |-> job[i].about][j] = p
  BY <1>2
<1>4. UNCHANGED Delivery!jobVars
  BY <1>1 DEF Delivery!jobVars, Outcome
<1>5. Delivery!Confirm(n)
  BY <1>1, <1>3, <1>4 DEF Delivery!Confirm
<1> QED
  BY <1>5 DEF Delivery!Next

LEMMA InitRefines == Init => Delivery!Init
<1> SUFFICES ASSUME Init PROVE Delivery!Init
  OBVIOUS
<1>1. \A j \in Jobs : /\ job[j].about = None /\ Outcome(j) = "unused"
                      /\ job[j].effects = 0 /\ job[j].rescues = 0
  BY DEF Init, QueueInit, Unused, Outcome
<1> QED
  BY <1>1 DEF Init, Delivery!Init

LEMMA StepRefines == IInv /\ [Next]_vars => [Delivery!Next]_(Delivery!vars)
<1> SUFFICES ASSUME IInv, [Next]_vars PROVE [Delivery!Next]_(Delivery!vars)
  OBVIOUS
<1>1. QueueInv /\ IInv'
  BY StepKeeps DEF IInv
<1>2. ASSUME NEW n \in Notifications, Step(n) PROVE [Delivery!Next]_(Delivery!vars)
  <2>1. delivery[n].rest # <<>> => Head(delivery[n].rest) \in Payloads
    <3>1. delivery[n].rest \in Seq(Payloads)
      BY DEF IInv, TypeOK
    <3> QED
      BY <3>1, HeadTailProperties
  <2>2. CASE Receive(n)
    BY <2>2, IdleStutters DEF Receive, queueVars
  <2>3. CASE DispatchMessage(n)
    BY <1>1, <1>2, <2>1, <2>3, DispatchAccepts DEF DispatchMessage
  <2>4. CASE DispatchFailure(n)
    BY <1>1, <1>2, <2>1, <2>4, DispatchAccepts, IdleStutters
       DEF DispatchFailure, DispatchFails, queueVars
  <2>5. CASE Confirm(n)
    BY <1>1, <2>5, ConfirmMaps DEF IInv
  <2> QED
    BY <1>2, <2>2, <2>3, <2>4, <2>5 DEF Step
<1>3. CASE CrashWebhook
  BY <1>3, IdleStutters DEF CrashWebhook, queueVars
<1>4. ASSUME NEW w \in Workers, Work(w), UNCHANGED others
      PROVE  [Delivery!Next]_(Delivery!vars)
  BY <1>1, <1>4, TakeStutters, HandlePerforms, CompleteCompletes, FailAttemptMaps, RescueMaps
     DEF Work, others
<1>5. CASE CrashWorkers /\ UNCHANGED others
  BY <1>5, IdleStutters DEF CrashWorkers, others
<1>6. ASSUME NEW j \in Jobs, RecoverStalled(j), UNCHANGED others
      PROVE  [Delivery!Next]_(Delivery!vars)
  BY <1>1, <1>6, RecoverMaps DEF others
<1>7. CASE UNCHANGED vars
  BY <1>7, IdleStutters DEF vars, queueVars
<1> QED
  BY <1>2, <1>3, <1>4, <1>5, <1>6, <1>7 DEF Next

\* Whatever fails, stalls, crashes or is answered in vain, the webhook and the
\* queue do to the sender's messages only what was promised.
THEOREM Refinement == Spec => ImplementsDelivery
BY InitRefines, StepRefines, Invariance, PTL DEF Spec, ImplementsDelivery, Delivery!Spec
=============================================================================
