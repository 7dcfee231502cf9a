------------------------- MODULE UpdateControlProofs -------------------------
(***************************************************************************)
(* The jobs of the updater: never two unfinished, never two of one         *)
(* idempotency key, in any content a power loss may bring back; and the    *)
(* installation is never downgraded.                                       *)
(***************************************************************************)
EXTENDS UpdateControl, FiniteSetTheorems, TLAPS

USE ControlBounds

(***************************************************************************)
(* The invariant.                                                          *)
(***************************************************************************)

Operation ==
    [kind : {"idle", "accept", "reconcile"}, key : Keys \union {"none"}, plan : 0..MaxPlans,
     stage : {"none", "read", "revalidate", "save", "start"}, job : 0..MaxJobs]

Statuses == {"queued", "running", "succeeded", "failed", "rolled_back", "recovery_required"}

Directory == [JobIds -> Job \union {NoJob}]

\* The types of the operation in progress and of those behind it,
CurOK ==
    /\ cur \in Operation
    /\ cur.kind = "accept" => cur.key \in Keys /\ cur.plan \in PlanIds
    /\ cur.stage = "start" => cur.job \in JobIds

QueueOK ==
    /\ queue \in Seq(Operation)
    /\ \A i \in 1..Len(queue) :
          /\ queue[i].kind \in {"accept", "reconcile"} /\ queue[i].stage = "read"
          /\ queue[i].kind = "accept" =>
                queue[i].key \in Keys /\ queue[i].plan \in PlanIds

\* and of what is not about the jobs directory.
ProcessOK ==
    /\ worker \in 0..MaxJobs /\ began \in BOOLEAN
    /\ answered \in [Keys -> SUBSET JobIds]
    /\ faults \in Nat

PlansOK ==
    /\ installed \in Versions /\ official \in Versions
    /\ plans \in [PlanIds -> Plan \union {NoPlan}]

OperationsOK == CurOK /\ QueueOK /\ ProcessOK /\ PlansOK

JobsOK == jobs \in File(Directory) /\ jobs.vis \in jobs.disk

Open(d, j) == d[j] # NoJob /\ ~Terminal(d[j])

\* What holds of a content of the jobs directory by itself.
Sound(d) ==
    /\ \A i, j \in JobIds : Open(d, i) /\ Open(d, j) => i = j
    /\ \A i, j \in JobIds : d[i] # NoJob /\ d[j] # NoJob /\ d[i].key = d[j].key => i = j

\* What accept has read is still so when it saves: nobody else makes a job,
\* and with no unfinished job neither a worker nor a recovery writes one.
StillFree ==
    cur.kind = "accept" /\ cur.stage \in {"revalidate", "save"} =>
       /\ Unfinished = {}
       /\ \A j \in Listed : jobs.vis[j].key # cur.key

PlansUpwards == \A p \in PlanIds : plans[p].target >= plans[p].fingerprint

ControlIInv ==
    /\ OperationsOK
    /\ JobsOK
    /\ \A d \in jobs.disk : Sound(d)
    /\ StillFree
    /\ PlansUpwards

(***************************************************************************)
(* The jobs directory.                                                     *)
(***************************************************************************)

\* An operation on the directory writes a sound content d: completed or not,
\* all contents the disk may hold are sound.
LEMMA WriteSound ==
    ASSUME JobsOK, \A d \in jobs.disk : Sound(d),
           NEW d \in Directory, Sound(d),
           jobs' = Written(d) \/ jobs' \in FailedWrites(jobs, d)
    PROVE  /\ JobsOK' /\ \A e \in jobs'.disk : Sound(e)
           /\ jobs'.vis \in {jobs.vis, d}
  BY DEF JobsOK, File, Written, FailedWrites

\* One job moves on, and was unfinished: the others stay, so do the keys.
LEMMA MoveSound ==
    ASSUME NEW d \in Directory, Sound(d),
           NEW j \in JobIds, Open(d, j), NEW q \in Job, q.key = d[j].key
    PROVE  [d EXCEPT ![j] = q] \in Directory /\ Sound([d EXCEPT ![j] = q])
  <1> DEFINE e == [d EXCEPT ![j] = q]
  <1>1. e \in Directory
    BY DEF Directory
  <1>2. \A i \in JobIds : /\ e[i] # NoJob => d[i] # NoJob /\ e[i].key = d[i].key
                          /\ Open(e, i) => Open(d, i)
    BY DEF Directory, Open
  <1> HIDE DEF e
  <1>3. Sound(e)
    BY <1>2 DEF Sound
  <1> QED
    BY <1>1, <1>3 DEF e

\* A job is added where no job is unfinished, under a key that has none.
LEMMA AddSound ==
    ASSUME NEW d \in Directory, Sound(d),
           NEW j \in JobIds, NEW q \in Job,
           \A i \in JobIds : ~Open(d, i),
           \A i \in JobIds : d[i] # NoJob => d[i].key # q.key
    PROVE  [d EXCEPT ![j] = q] \in Directory /\ Sound([d EXCEPT ![j] = q])
  <1> DEFINE e == [d EXCEPT ![j] = q]
  <1>1. e \in Directory /\ e[j] = q
    BY DEF Directory
  <1>2. \A i \in JobIds \ {j} : e[i] = d[i]
    BY DEF Directory
  <1>3. \A i \in JobIds \ {j} : ~Open(e, i)
    BY <1>2 DEF Open
  <1> HIDE DEF e
  <1>4. Sound(e)
    BY <1>1, <1>2, <1>3 DEF Sound
  <1> QED
    BY <1>1, <1>4 DEF e

\* After a power loss the directory has one of the contents it may have had.
LEMMA LossSound ==
    ASSUME JobsOK, \A d \in jobs.disk : Sound(d), jobs' \in AfterPowerLoss(jobs)
    PROVE  JobsOK' /\ \A e \in jobs'.disk : Sound(e)
  BY DEF JobsOK, File, Written, AfterPowerLoss

\* The job of a worker that has something to do is unfinished.
LEMMA WorkerOpen ==
    ASSUME ControlIInv, worker # 0, jobs.vis[worker].status \in {"queued", "running"}
    PROVE  /\ worker \in JobIds /\ jobs.vis \in Directory /\ Sound(jobs.vis)
           /\ jobs.vis[worker] \in Job /\ Open(jobs.vis, worker)
           /\ worker \in Unfinished
  <1>1. worker \in JobIds
    BY DEF ControlIInv, OperationsOK, ProcessOK, JobIds
  <1>2. jobs.vis \in Directory /\ Sound(jobs.vis)
    BY DEF ControlIInv, JobsOK, File
  <1>3. jobs.vis[worker] \in Job /\ Open(jobs.vis, worker)
    BY <1>1, <1>2 DEF Directory, NoJob, Open, Terminal
  <1> QED
    BY <1>1, <1>2, <1>3 DEF Open, Unfinished, Listed

(***************************************************************************)
(* The steps.                                                              *)
(***************************************************************************)

\* A step that leaves the directory and the plans alone.
LEMMA QuietStep ==
    ASSUME ControlIInv, OperationsOK', UNCHANGED <<plans, jobs>>,
           \/ UNCHANGED cur
           \/ ~(cur'.kind = "accept" /\ cur'.stage \in {"revalidate", "save"})
           \/ cur'.key = cur.key /\ cur.kind = "accept" /\ cur.stage = "revalidate"
    PROVE  ControlIInv'
  <1>1. JobsOK' /\ (\A d \in jobs.disk : Sound(d))' /\ PlansUpwards'
    BY DEF ControlIInv, JobsOK, PlansUpwards
  <1>2. Unfinished' = Unfinished /\ Listed' = Listed
    BY DEF Unfinished, Listed
  <1>3. StillFree'
    BY <1>2 DEF ControlIInv, StillFree
  <1> QED
    BY <1>1, <1>3 DEF ControlIInv

\* A worker or a recovery writes its job, whose key and plan stay.
LEMMA WriteStep ==
    ASSUME ControlIInv, OperationsOK', UNCHANGED <<plans, cur>>,
           NEW j \in JobIds, Open(jobs.vis, j),
           NEW q \in Job, q.key = jobs.vis[j].key,
           \/ jobs' = Written([jobs.vis EXCEPT ![j] = q])
           \/ jobs' \in FailedWrites(jobs, [jobs.vis EXCEPT ![j] = q])
    PROVE  ControlIInv'
  <1> DEFINE d == [jobs.vis EXCEPT ![j] = q]
  <1>1. jobs.vis \in Directory /\ Sound(jobs.vis)
    BY DEF ControlIInv, JobsOK, File
  <1>2. d \in Directory /\ Sound(d)
    BY <1>1, MoveSound
  <1> HIDE DEF d
  <1>3. JobsOK' /\ (\A e \in jobs'.disk : Sound(e))
    BY <1>2, WriteSound DEF ControlIInv, d
  <1>4. j \in Unfinished
    BY DEF Open, Unfinished, Listed
  <1>5. StillFree'
    BY <1>4 DEF ControlIInv, StillFree
  <1>6. PlansUpwards'
    BY DEF ControlIInv, PlansUpwards
  <1> QED
    BY <1>3, <1>5, <1>6 DEF ControlIInv

LEMMA InitIInv == Init => ControlIInv
  <1> SUFFICES ASSUME Init PROVE ControlIInv
    OBVIOUS
  <1>1. OperationsOK
    <2>1. queue \in Seq(Operation) /\ Len(queue) = 0
      BY DEF Init
    <2>2. Idle \in Operation /\ Idle.kind # "accept"
      BY DEF Idle, Operation
    <2>3. plans \in [PlanIds -> Plan \union {NoPlan}]
      BY DEF Init
    <2>4. CurOK /\ QueueOK
      BY <2>1, <2>2 DEF Init, CurOK, QueueOK, Idle
    <2>5. ProcessOK
      <3>1. answered \in [Keys -> SUBSET JobIds] /\ began \in BOOLEAN
        BY DEF Init
      <3>2. worker \in 0..MaxJobs /\ faults \in Nat
        BY DEF Init
      <3> QED
        BY <3>1, <3>2 DEF ProcessOK
    <2>6. PlansOK
      BY <2>3 DEF Init, PlansOK, Versions
    <2> QED
      BY <2>4, <2>5, <2>6 DEF OperationsOK
  <1>2. JobsOK /\ \A d \in jobs.disk : Sound(d)
    BY DEF Init, JobsOK, File, Written, Directory, Sound, Open
  <1>3. StillFree
    BY DEF Init, StillFree, Idle
  <1>4. PlansUpwards
    BY DEF Init, PlansUpwards, NoPlan
  <1> QED
    BY <1>1, <1>2, <1>3, <1>4 DEF ControlIInv

\* Planner.create makes plans upwards only.
LEMMA CreatePlanStep == ASSUME ControlIInv, CreatePlan PROVE ControlIInv'
  <1> PICK p \in PlanIds, ready \in BOOLEAN :
         LET target == IF official > installed THEN official ELSE installed
         IN  plans' = [plans EXCEPT ![p] =
                [target |-> target, fingerprint |-> installed,
                 executable |-> target # installed /\ ready]]
    BY DEF CreatePlan
  <1>1. UNCHANGED <<installed, official, jobs, queue, cur, worker, began, answered, faults>>
    BY DEF CreatePlan
  <1>2. OperationsOK'
    <2>1. CurOK' /\ QueueOK' /\ ProcessOK'
      BY <1>1 DEF ControlIInv, OperationsOK, CurOK, QueueOK, ProcessOK
    <2>2. PlansOK'
      BY <1>1 DEF ControlIInv, OperationsOK, PlansOK, Plan, Versions
    <2> QED
      BY <2>1, <2>2 DEF OperationsOK
  <1>3. PlansUpwards'
    BY <1>1 DEF ControlIInv, OperationsOK, PlansOK, PlansUpwards, Versions
  <1>4. JobsOK' /\ (\A d \in jobs.disk : Sound(d))'
    BY <1>1 DEF ControlIInv, JobsOK
  <1>5. StillFree'
    BY <1>1 DEF ControlIInv, StillFree, Unfinished, Listed
  <1> QED
    BY <1>2, <1>3, <1>4, <1>5 DEF ControlIInv

\* Operations are queued and taken one after the other.
LEMMA QueueStep ==
    ASSUME ControlIInv, Request \/ Tick \/ TakeNext
    PROVE  ControlIInv'
  <1>1. UNCHANGED <<installed, official, plans, jobs, worker, began, answered, faults>>
    BY DEF Request, Tick, Submit, TakeNext
  <1>2. ASSUME NEW op \in Operation, Submit(op), op.kind \in {"accept", "reconcile"},
               op.stage = "read", op.kind = "accept" => op.key \in Keys /\ op.plan \in PlanIds
        PROVE  ControlIInv'
    <2>1. queue' = Append(queue, op) /\ UNCHANGED cur
      BY <1>2 DEF Submit
    <2>2. queue \in Seq(Operation)
      BY DEF ControlIInv, OperationsOK, QueueOK
    <2>3. queue' \in Seq(Operation) /\ Len(queue') = Len(queue) + 1
          /\ \A i \in 1..Len(queue') : queue'[i] = IF i <= Len(queue) THEN queue[i] ELSE op
      BY <2>1, <2>2
    <2>4. QueueOK'
      BY <1>2, <2>2, <2>3 DEF ControlIInv, OperationsOK, QueueOK
    <2>5. OperationsOK'
      BY <1>1, <2>1, <2>4 DEF ControlIInv, OperationsOK, CurOK, ProcessOK, PlansOK
    <2> QED
      BY <1>1, <2>1, <2>5, QuietStep
  <1>3. CASE Request
    <2> PICK k \in Keys, p \in PlanIds : Submit(Accept(k, p))
      BY <1>3 DEF Request
    <2>1. Accept(k, p) \in Operation
      BY DEF Accept, Operation, PlanIds
    <2> QED
      BY <1>2, <2>1 DEF Accept
  <1>4. CASE Tick
    <2>1. Reconcile \in Operation
      BY DEF Reconcile, Operation
    <2> QED
      BY <1>2, <1>4, <2>1 DEF Tick, Reconcile
  <1>5. CASE TakeNext
    <2>1. queue \in Seq(Operation) /\ queue # <<>> /\ cur' = Head(queue) /\ queue' = Tail(queue)
      BY <1>5 DEF ControlIInv, OperationsOK, QueueOK, TakeNext
    <2>2. /\ cur' = queue[1] /\ 1 \in 1..Len(queue)
          /\ queue' \in Seq(Operation) /\ Len(queue') = Len(queue) - 1
          /\ \A i \in 1..Len(queue') : queue'[i] = queue[i + 1] /\ i + 1 \in 1..Len(queue)
      BY <2>1
    <2>3. QueueOK'
      BY <2>2 DEF ControlIInv, OperationsOK, QueueOK
    <2>4. CurOK' /\ cur'.stage = "read"
      BY <2>1, <2>2 DEF ControlIInv, OperationsOK, QueueOK, CurOK
    <2>5. OperationsOK'
      BY <1>1, <2>3, <2>4 DEF ControlIInv, OperationsOK, ProcessOK, PlansOK
    <2> QED
      BY <1>1, <2>4, <2>5, QuietStep
  <1> QED
    BY <1>3, <1>4, <1>5

\* The operation in progress goes on at another stage, or is done.
LEMMA StageType ==
    ASSUME CurOK
    PROVE  /\ \A s \in {"none", "read", "revalidate", "save"} :
                 Goto(s) => CurOK' /\ cur'.kind = cur.kind /\ cur'.key = cur.key
                                   /\ cur'.stage = s
           /\ \A j \in JobIds :
                 cur' = [cur EXCEPT !.stage = "start", !.job = j] =>
                    CurOK' /\ cur'.kind = cur.kind /\ cur'.stage = "start"
           /\ cur' = Idle => CurOK' /\ cur'.kind = "idle"
  <1>1. ASSUME NEW s \in {"none", "read", "revalidate", "save"}, Goto(s)
        PROVE  CurOK' /\ cur'.kind = cur.kind /\ cur'.key = cur.key /\ cur'.stage = s
    BY <1>1 DEF CurOK, Goto, Operation
  <1>2. ASSUME NEW j \in JobIds, cur' = [cur EXCEPT !.stage = "start", !.job = j]
        PROVE  CurOK' /\ cur'.kind = cur.kind /\ cur'.stage = "start"
    <2>1. cur' = [[cur EXCEPT !.stage = "start"] EXCEPT !.job = j]
      BY <1>2
    <2>2. /\ cur'.kind = cur.kind /\ cur'.key = cur.key /\ cur'.plan = cur.plan
          /\ cur'.stage = "start" /\ cur'.job = j
          /\ cur' = [kind |-> cur.kind, key |-> cur.key, plan |-> cur.plan,
                     stage |-> "start", job |-> j]
      BY <2>1 DEF CurOK, Operation
    <2>3. j \in 0..MaxJobs
      BY DEF JobIds
    <2> QED
      BY <2>2, <2>3 DEF CurOK, Operation
  <1>3. cur' = Idle => CurOK' /\ cur'.kind = "idle"
    BY DEF CurOK, Idle, Operation
  <1> QED
    BY <1>1, <1>2, <1>3

\* What an operation and the worker's lock leave alone is typed as before.
LEMMA FrameType ==
    ASSUME OperationsOK
    PROVE  /\ UNCHANGED queue => QueueOK'
           /\ queue' = <<>> => QueueOK'
           /\ UNCHANGED <<installed, official, plans>> => PlansOK'
           /\ UNCHANGED <<worker, began, answered, faults>> => ProcessOK'
           /\ UNCHANGED <<worker, began, answered>> /\ Fault => ProcessOK'
           /\ Exit /\ UNCHANGED answered /\ (Fault \/ UNCHANGED faults) => ProcessOK'
  <1>1. QueueOK /\ PlansOK /\ ProcessOK
    BY DEF OperationsOK
  <1>2. UNCHANGED queue => QueueOK'
    BY <1>1 DEF QueueOK
  <1>3. queue' = <<>> => QueueOK'
    BY DEF QueueOK
  <1>4. UNCHANGED <<installed, official, plans>> => PlansOK'
    BY <1>1 DEF PlansOK
  <1>5. UNCHANGED <<worker, began, answered, faults>> => ProcessOK'
    BY <1>1 DEF ProcessOK
  <1>6. UNCHANGED <<worker, began, answered>> /\ Fault => ProcessOK'
    BY <1>1 DEF ProcessOK, Fault
  <1>7. Exit /\ UNCHANGED answered /\ (Fault \/ UNCHANGED faults) => ProcessOK'
    <2> SUFFICES ASSUME Exit, UNCHANGED answered, Fault \/ UNCHANGED faults
                 PROVE  ProcessOK'
      OBVIOUS
    <2>1. faults' \in Nat
      BY <1>1 DEF ProcessOK, Fault
    <2>2. worker' \in 0..MaxJobs
      BY DEF Exit
    <2>3. began' \in BOOLEAN
      BY Zenon DEF Exit
    <2>4. answered' \in [Keys -> SUBSET JobIds]
      BY <1>1 DEF ProcessOK
    <2> QED
      BY <2>1, <2>2, <2>3, <2>4 DEF ProcessOK
  <1> QED
    BY <1>2, <1>3, <1>4, <1>5, <1>6, <1>7

\* accept looks the directory and the plan up.
LEMMA AcceptReadStep ==
    ASSUME ControlIInv, AcceptRead \/ AcceptRevalidate
    PROVE  ControlIInv'
  <1>0. OperationsOK /\ CurOK
    BY DEF ControlIInv, OperationsOK
  <1>1. CASE AcceptRead
    <2>0. UNCHANGED <<installed, official, plans, jobs, queue, worker, began, faults>>
      BY <1>1 DEF AcceptRead
    <2>1. CASE cur' = Idle
      <3>1. CurOK' /\ cur'.kind = "idle"
        BY <1>0, <2>1, StageType
      <3>2. answered' \in [Keys -> SUBSET JobIds]
        BY <1>0, <1>1 DEF AcceptRead, Answer, OperationsOK, ProcessOK, CurOK, Listed
      <3>3. OperationsOK'
        BY <1>0, <2>0, <3>1, <3>2, FrameType DEF OperationsOK, ProcessOK
      <3> QED
        BY <2>0, <3>1, <3>3, QuietStep
    <2>2. CASE /\ {j \in Listed : jobs.vis[j].key = cur.key} = {}
               /\ Unfinished = {} /\ Goto("revalidate") /\ UNCHANGED answered
      <3>1. CurOK' /\ cur'.key = cur.key
        BY <1>0, <2>2, StageType
      <3>2. OperationsOK'
        BY <1>0, <2>0, <2>2, <3>1, FrameType DEF OperationsOK
      <3>3. StillFree'
        BY <2>0, <2>2, <3>1 DEF StillFree, Unfinished, Listed
      <3>4. JobsOK' /\ (\A d \in jobs.disk : Sound(d))' /\ PlansUpwards'
        BY <2>0 DEF ControlIInv, JobsOK, PlansUpwards
      <3> QED
        BY <3>2, <3>3, <3>4 DEF ControlIInv
    <2> QED
      BY <1>1, <2>1, <2>2 DEF AcceptRead, Answer, Done
  <1>2. CASE AcceptRevalidate
    <2>1. UNCHANGED <<installed, official, plans, jobs, queue, worker, began, answered, faults>>
      BY <1>2 DEF AcceptRevalidate
    <2>2. \/ CurOK' /\ cur'.kind = "idle"
          \/ CurOK' /\ cur'.key = cur.key
      BY <1>0, <1>2, StageType DEF AcceptRevalidate, Done
    <2>3. OperationsOK'
      BY <1>0, <2>1, <2>2, FrameType DEF OperationsOK
    <2> QED
      BY <1>2, <2>1, <2>2, <2>3, QuietStep DEF AcceptRevalidate
  <1> QED
    BY <1>1, <1>2

\* accept saves the job: of the same key there is none, nor one unfinished.
LEMMA AcceptSaveStep == ASSUME ControlIInv, AcceptSave PROVE ControlIInv'
  <1> DEFINE q == [key |-> cur.key, plan |-> cur.plan, status |-> "queued", committed |-> FALSE]
  <1>1. /\ cur.kind = "accept" /\ cur.stage = "save"
        /\ UNCHANGED <<installed, official, plans, queue, worker, began, answered>>
    BY DEF AcceptSave
  <1>2. PICK j \in JobIds :
            \/ /\ jobs' = Written([jobs.vis EXCEPT ![j] = q])
               /\ cur' = [cur EXCEPT !.stage = "start", !.job = j] /\ UNCHANGED faults
            \/ /\ Fault /\ jobs' \in FailedWrites(jobs, [jobs.vis EXCEPT ![j] = q])
               /\ Done
    BY DEF AcceptSave
  <1>3. q \in Job
    BY <1>1 DEF ControlIInv, OperationsOK, CurOK, Job
  <1>4. jobs.vis \in Directory /\ Sound(jobs.vis)
    BY DEF ControlIInv, JobsOK, File
  <1>5. /\ \A i \in JobIds : ~Open(jobs.vis, i)
        /\ \A i \in JobIds : jobs.vis[i] # NoJob => jobs.vis[i].key # q.key
    BY <1>1 DEF ControlIInv, StillFree, Unfinished, Listed, Open
  <1> HIDE DEF q
  <1>6. [jobs.vis EXCEPT ![j] = q] \in Directory /\ Sound([jobs.vis EXCEPT ![j] = q])
    BY <1>3, <1>4, <1>5, AddSound
  <1>7. JobsOK' /\ (\A d \in jobs.disk : Sound(d))'
    BY <1>2, <1>6, WriteSound DEF ControlIInv
  <1>8. OperationsOK /\ CurOK /\ j \in 0..MaxJobs
    BY DEF ControlIInv, OperationsOK, JobIds
  <1>9. CurOK' /\ (cur'.kind = "accept" => cur'.stage = "start")
    BY <1>2, <1>8, StageType DEF Done
  <1>10. OperationsOK'
    BY <1>1, <1>2, <1>8, <1>9, FrameType DEF OperationsOK
  <1>11. StillFree' /\ PlansUpwards'
    BY <1>1, <1>9 DEF ControlIInv, StillFree, PlansUpwards
  <1> QED
    BY <1>7, <1>10, <1>11 DEF ControlIInv

\* Workers are started, the updater stops, versions are published.
LEMMA StartStep ==
    ASSUME ControlIInv,
           \/ AcceptStart \/ ReconcileRead \/ ReconcileStart \/ ControlRestart
           \/ WorkerReturn \/ WorkerDies \/ Publish
    PROVE  ControlIInv'
  <1>0. OperationsOK /\ CurOK
    BY DEF ControlIInv, OperationsOK
  <1>1. ASSUME NEW j \in 0..MaxJobs, Launch(j) \/ LaunchFails
        PROVE  worker' \in 0..MaxJobs /\ began' \in BOOLEAN /\ faults' \in Nat
    <2>1. CASE Launch(j)
      BY <1>0, <2>1 DEF Launch, OperationsOK, ProcessOK
    <2>2. CASE LaunchFails
      BY <1>0, <2>2 DEF LaunchFails, Fault, OperationsOK, ProcessOK
    <2> QED
      BY <1>1, <2>1, <2>2
  <1>2. cur.job \in 0..MaxJobs
    BY <1>0 DEF CurOK, Operation
  <1>3. CASE AcceptStart
    <2>1. cur' = Idle /\ UNCHANGED <<installed, official, plans, jobs, queue>>
      BY <1>3 DEF AcceptStart, Answer, Done
    <2>2. CurOK' /\ cur'.kind = "idle"
      BY <1>0, <2>1, StageType
    <2>3. cur.job \in JobIds
      BY <1>0, <1>3 DEF CurOK, AcceptStart
    <2>4. ProcessOK'
      BY <1>0, <1>1, <1>2, <1>3, <2>3 DEF AcceptStart, Answer, OperationsOK, ProcessOK
    <2>5. OperationsOK'
      BY <1>0, <2>1, <2>2, <2>4, FrameType DEF OperationsOK
    <2> QED
      BY <2>1, <2>2, <2>5, QuietStep
  <1>4. CASE ReconcileRead
    <2>1. UNCHANGED <<installed, official, plans, jobs, queue, worker, began, answered, faults>>
      BY <1>4 DEF ReconcileRead
    <2>2. CurOK' /\ cur'.kind # "accept"
      <3>1. CASE cur' = Idle
        BY <1>0, <3>1, StageType
      <3>2. ASSUME NEW j \in JobIds, cur' = [cur EXCEPT !.stage = "start", !.job = j]
            PROVE  CurOK' /\ cur'.kind # "accept"
        BY <1>0, <1>4, <3>2, StageType DEF ReconcileRead
      <3> QED
        BY <1>4, <3>1, <3>2 DEF ReconcileRead, Done, Unfinished, Listed
    <2>3. OperationsOK'
      BY <1>0, <2>1, <2>2, FrameType DEF OperationsOK
    <2> QED
      BY <2>1, <2>2, <2>3, QuietStep
  <1>5. CASE ReconcileStart
    <2>1. cur' = Idle /\ UNCHANGED <<installed, official, plans, jobs, queue, answered>>
      BY <1>5 DEF ReconcileStart, Done
    <2>2. CurOK' /\ cur'.kind = "idle"
      BY <1>0, <2>1, StageType
    <2>3. ProcessOK'
      BY <1>0, <1>1, <1>2, <1>5, <2>1 DEF ReconcileStart, OperationsOK, ProcessOK
    <2>4. OperationsOK'
      BY <1>0, <2>1, <2>2, <2>3, FrameType DEF OperationsOK
    <2> QED
      BY <2>1, <2>2, <2>4, QuietStep
  <1>6. CASE ControlRestart
    <2>1. CurOK' /\ cur'.kind = "idle"
      BY <1>0, <1>6, StageType DEF ControlRestart
    <2>2. OperationsOK'
      BY <1>0, <1>6, <2>1, FrameType DEF ControlRestart, OperationsOK
    <2> QED
      BY <1>6, <2>1, <2>2, QuietStep DEF ControlRestart
  <1>7. CASE WorkerReturn \/ WorkerDies
    <2>1. UNCHANGED <<installed, official, plans, jobs, queue, cur, answered>>
      BY <1>7 DEF WorkerReturn, WorkerDies
    <2>2. ProcessOK'
      BY <1>0, <1>7, FrameType DEF WorkerReturn, WorkerDies
    <2>3. OperationsOK'
      BY <1>0, <2>1, <2>2, FrameType DEF OperationsOK, CurOK
    <2> QED
      BY <2>1, <2>3, QuietStep
  <1>8. CASE Publish
    <2>1. UNCHANGED <<installed, plans, jobs, queue, cur, worker, began, answered, faults>>
      BY <1>8 DEF Publish
    <2>2. PlansOK'
      BY <1>0, <1>8 DEF Publish, OperationsOK, PlansOK, Versions
    <2>3. OperationsOK'
      BY <1>0, <2>1, <2>2, FrameType DEF OperationsOK, CurOK
    <2> QED
      BY <2>1, <2>3, QuietStep
  <1> QED
    BY <1>3, <1>4, <1>5, <1>6, <1>7, <1>8

\* The worker writes its job, the administrator has one recovered.
LEMMA WorkerWrites ==
    ASSUME ControlIInv, WorkerBegin \/ WorkerCommit \/ WorkerFinish \/ Recover
    PROVE  ControlIInv'
  <1>0. JobIds \subseteq 0..MaxJobs /\ OperationsOK
    BY DEF ControlIInv, JobIds
  <1>1. CASE WorkerBegin
    <2> DEFINE q == [jobs.vis[worker] EXCEPT !.status = "running"]
    <2>1. worker \in JobIds /\ jobs.vis[worker] \in Job /\ Open(jobs.vis, worker)
      BY <1>1, WorkerOpen DEF WorkerBegin
    <2>2. q \in Job /\ q.key = jobs.vis[worker].key
      BY <2>1 DEF Job
    <2>3. [jobs.vis EXCEPT ![worker].status = "running"] = [jobs.vis EXCEPT ![worker] = q]
      OBVIOUS
    <2>4. ProcessOK'
      <3>1. CASE began' = TRUE /\ UNCHANGED <<worker, faults>>
        BY <1>0, <1>1, <3>1 DEF OperationsOK, ProcessOK, WorkerBegin
      <3>2. CASE Fault /\ Exit
        BY <1>0, <1>1, <3>2, FrameType DEF WorkerBegin
      <3> QED
        BY <1>1, <3>1, <3>2 DEF WorkerBegin
    <2>5. OperationsOK'
      BY <1>0, <1>1, <2>4, FrameType DEF OperationsOK, CurOK, WorkerBegin
    <2> HIDE DEF q
    <2> QED
      BY <1>1, <2>1, <2>2, <2>3, <2>5, WriteStep DEF WorkerBegin
  <1>2. CASE WorkerCommit
    <2> DEFINE q == [jobs.vis[worker] EXCEPT !.committed = TRUE]
    <2>1. worker \in JobIds /\ jobs.vis[worker] \in Job /\ Open(jobs.vis, worker)
      BY <1>2, WorkerOpen DEF WorkerCommit
    <2>2. q \in Job /\ q.key = jobs.vis[worker].key
      BY <2>1 DEF Job
    <2>3. [jobs.vis EXCEPT ![worker].committed = TRUE] = [jobs.vis EXCEPT ![worker] = q]
      OBVIOUS
    <2>4. OperationsOK'
      <3>1. plans[jobs.vis[worker].plan] \in Plan
        BY <1>0, <1>2, <2>1 DEF OperationsOK, PlansOK, WorkerCommit, Revalidates, Job, NoPlan
      <3>2. PlansOK'
        BY <1>0, <1>2, <3>1 DEF OperationsOK, PlansOK, WorkerCommit, Plan
      <3> QED
        BY <1>0, <1>2, <3>2, FrameType DEF OperationsOK, CurOK, WorkerCommit
    <2> HIDE DEF q
    <2> QED
      BY <1>2, <2>1, <2>2, <2>3, <2>4, WriteStep DEF WorkerCommit
  <1>3. CASE WorkerFinish
    <2>1. PICK s \in {"succeeded", "failed", "rolled_back", "recovery_required"} :
             SaveStatus([jobs.vis[worker] EXCEPT !.status = s])
      BY <1>3 DEF WorkerFinish
    <2> DEFINE q == [jobs.vis[worker] EXCEPT !.status = s]
    <2>2. worker \in JobIds /\ jobs.vis[worker] \in Job /\ Open(jobs.vis, worker)
      BY <1>3, WorkerOpen DEF WorkerFinish
    <2>3. q \in Job /\ q.key = jobs.vis[worker].key
      BY <2>2 DEF Job
    <2>4. OperationsOK'
      <3>1. ProcessOK'
        BY <1>0, <1>3, <2>1, FrameType DEF WorkerFinish, SaveStatus
      <3> QED
        BY <1>0, <1>3, <3>1, FrameType DEF OperationsOK, CurOK, WorkerFinish
    <2> HIDE DEF q
    <2>5. SaveStatus(q)
      BY <2>1 DEF q
    <2> QED
      BY <1>3, <2>2, <2>3, <2>4, <2>5, WriteStep DEF WorkerFinish, SaveStatus
  <1>4. CASE Recover
    <2>1. PICK j \in Listed :
             /\ jobs.vis[j].status = "recovery_required"
             /\ jobs' = Written([jobs.vis EXCEPT ![j].status = "running"])
             /\ worker' = j /\ began' = FALSE
      BY <1>4 DEF Recover
    <2> DEFINE q == [jobs.vis[j] EXCEPT !.status = "running"]
    <2>2. j \in JobIds /\ jobs.vis[j] \in Job /\ Open(jobs.vis, j)
      BY <2>1 DEF Listed, ControlIInv, JobsOK, File, Directory, Open, Terminal
    <2>3. q \in Job /\ q.key = jobs.vis[j].key
      BY <2>2 DEF Job
    <2>4. [jobs.vis EXCEPT ![j].status = "running"] = [jobs.vis EXCEPT ![j] = q]
      OBVIOUS
    <2>5. OperationsOK'
      <3>1. ProcessOK'
        BY <1>0, <1>4, <2>1, <2>2 DEF OperationsOK, ProcessOK, Recover
      <3> QED
        BY <1>0, <1>4, <3>1, FrameType DEF OperationsOK, CurOK, Recover
    <2> HIDE DEF q
    <2> QED
      BY <1>4, <2>1, <2>2, <2>3, <2>4, <2>5, WriteStep DEF Recover
  <1> QED
    BY <1>1, <1>2, <1>3, <1>4

LEMMA PowerLossStep == ASSUME ControlIInv, PowerLoss PROVE ControlIInv'
  <1>1. JobsOK' /\ (\A d \in jobs.disk : Sound(d))'
    BY LossSound DEF ControlIInv, PowerLoss
  <1>2. OperationsOK /\ CurOK
    BY DEF ControlIInv, OperationsOK
  <1>3. OperationsOK'
    BY <1>2, StageType, FrameType DEF OperationsOK, PowerLoss
  <1>4. StillFree' /\ PlansUpwards'
    BY DEF ControlIInv, PowerLoss, StillFree, PlansUpwards, Idle
  <1> QED
    BY <1>1, <1>3, <1>4 DEF ControlIInv

LEMMA NextIInv == ControlIInv /\ [Next]_vars => ControlIInv'
  <1> SUFFICES ASSUME ControlIInv, [Next]_vars PROVE ControlIInv'
    OBVIOUS
  <1>1. CASE UNCHANGED vars
    <2>1. OperationsOK'
      BY <1>1, FrameType DEF ControlIInv, OperationsOK, CurOK, vars
    <2> QED
      BY <1>1, <2>1, QuietStep DEF vars
  <1> QED
    BY <1>1, CreatePlanStep, QueueStep, AcceptReadStep, AcceptSaveStep, StartStep,
       WorkerWrites, PowerLossStep DEF Next, ControlStep, WorkerStep, World

(***************************************************************************)
(* The theorems.                                                           *)
(***************************************************************************)

LEMMA ControlInvariant == Spec => []ControlIInv
  BY InitIInv, NextIInv, PTL DEF Spec

\* A set of job ids any two elements of which are equal has one at most.
LEMMA AtMostOne ==
    ASSUME NEW S \in SUBSET JobIds, \A i, j \in S : i = j
    PROVE  Cardinality(S) <= 1
  <1>1. CASE S = {}
    BY <1>1, FS_EmptySet
  <1>2. CASE S # {}
    <2> PICK i \in S : TRUE
      BY <1>2
    <2>1. S = {i}
      OBVIOUS
    <2> QED
      BY <2>1, FS_Singleton
  <1> QED
    BY <1>1, <1>2

\* store.current never finds two unfinished jobs, and a worker that may still
\* change the installation works on the only one.
THEOREM NeverTwoUnfinished == Spec => []OneUnfinished
  <1>1. ControlIInv => OneUnfinished
    <2> SUFFICES ASSUME ControlIInv PROVE OneUnfinished
      OBVIOUS
    <2>1. ASSUME NEW d \in jobs.disk
          PROVE  Cardinality({j \in JobIds : d[j] # NoJob /\ ~Terminal(d[j])}) <= 1
      <3>1. Sound(d)
        BY DEF ControlIInv
      <3> QED
        BY <3>1, AtMostOne DEF Sound, Open
    <2>2. ASSUME worker # 0, jobs.vis[worker].status = "running"
          PROVE  Unfinished = {worker}
      BY <2>2, WorkerOpen DEF Sound, Open, Unfinished, Listed
    <2> QED
      BY <2>1, <2>2 DEF OneUnfinished
  <1> QED
    BY <1>1, ControlInvariant, PTL

\* A retried request never makes a second job.
THEOREM NeverTwoForOneKey == Spec => []KeyHasOneJob
  <1>1. ControlIInv => KeyHasOneJob
    BY DEF ControlIInv, Sound, KeyHasOneJob
  <1> QED
    BY <1>1, ControlInvariant, PTL

\* Only a commit changes the installed version, to the target of a plan that
\* was made for this very installation.
THEOREM OnlyUpwards == Spec => NeverDowngrades
  <1>1. ControlIInv /\ [Next]_vars => [installed' >= installed]_installed
    <2> SUFFICES ASSUME ControlIInv, Next PROVE installed' >= installed \/ UNCHANGED installed
      BY DEF vars
    <2>1. CASE WorkerCommit
      <3>1. jobs.vis[worker].plan \in PlanIds
        BY <2>1, WorkerOpen DEF WorkerCommit, Job
      <3>2. plans[jobs.vis[worker].plan].target >= plans[jobs.vis[worker].plan].fingerprint
        BY <3>1 DEF ControlIInv, PlansUpwards
      <3> QED
        BY <2>1, <3>2 DEF WorkerCommit, Revalidates
    <2>2. CASE ~WorkerCommit
      BY <2>2 DEF Next, CreatePlan, Request, Tick, Submit, ControlStep, TakeNext, AcceptRead,
           AcceptRevalidate, AcceptSave, AcceptStart, ReconcileRead, ReconcileStart,
           WorkerStep, WorkerBegin, WorkerFinish, WorkerReturn, Recover, World, Publish,
           PowerLoss, WorkerDies, ControlRestart
    <2> QED
      BY <2>1, <2>2
  <1> QED
    BY <1>1, ControlInvariant, PTL DEF Spec, NeverDowngrades
=============================================================================
