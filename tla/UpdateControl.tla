---------------------------- MODULE UpdateControl ----------------------------
(***************************************************************************)
(* The updater service (src/updater/control.ts, planner.ts, store.ts):     *)
(* plans are created at any time; accept and reconcile run one after the   *)
(* other through the promise queue of serialized; jobs live in one         *)
(* directory; a separate worker process, alone under execution.lock, moves *)
(* a job to its outcome (UpdateWorker has its steps).                      *)
(*                                                                         *)
(* The jobs directory is one DurableFile: the directory fsync at the end   *)
(* of an atomicWrite flushes the renames of every job file, and renames    *)
(* reach the disk in order.                                                *)
(***************************************************************************)
EXTENDS Naturals, Sequences, FiniteSets, DurableFile

CONSTANTS
    Keys,        \* idempotency keys clients use
    MaxPlans,    \* bound: plans created
    MaxJobs,     \* bound: jobs accepted
    MaxVersion,  \* bound: versions released
    MaxQueue,    \* bound: operations waiting in the queue
    MaxFaults    \* bound: failures, crashes and power losses

ASSUME ControlBounds ==
    /\ {MaxPlans, MaxJobs, MaxVersion, MaxQueue, MaxFaults} \subseteq Nat
    /\ MaxVersion >= 1   \* the version that is installed

VARIABLES
    installed,  \* version of the installation record (its fingerprint)
    official,   \* latest official version
    plans,      \* the plans directory
    jobs,       \* the jobs directory
    queue,      \* operations behind the one in progress
    cur,        \* the operation in progress
    worker,     \* job of the process that holds execution.lock, or 0
    began,      \* that process started the job itself (no recovery)
    answered,   \* jobs named in accept's responses, by idempotency key
    faults      \* faults so far

vars == <<installed, official, plans, jobs, queue, cur,
          worker, began, answered, faults>>

Versions == 1..MaxVersion
PlanIds  == 1..MaxPlans
JobIds   == 1..MaxJobs

NoPlan == [target |-> 0, fingerprint |-> 0, executable |-> FALSE]
Plan   == [target : Versions, fingerprint : Versions, executable : BOOLEAN]

NoJob == [key |-> "none", plan |-> 0, status |-> "none", committed |-> FALSE]
Job   == [key : Keys, plan : PlanIds,
          status : {"queued", "running", "succeeded", "failed", "rolled_back",
                    "recovery_required"},
          committed : BOOLEAN]

Idle      == [kind |-> "idle",      key |-> "none", plan |-> 0, stage |-> "none", job |-> 0]
Reconcile == [kind |-> "reconcile", key |-> "none", plan |-> 0, stage |-> "read", job |-> 0]
Accept(k, p) == [kind |-> "accept", key |-> k, plan |-> p, stage |-> "read", job |-> 0]

Fault == faults < MaxFaults /\ faults' = faults + 1

\* What a process that lists the jobs directory sees.
Listed == {j \in JobIds : jobs.vis[j] # NoJob}

\* Mutant: a job that waits for host recovery does not count as unfinished.
TerminalOrStuck(j) == j.status \in {"succeeded", "failed", "rolled_back", "recovery_required"}

Terminal(j) == j.status \in {"succeeded", "failed", "rolled_back"}

Unfinished == {j \in Listed : ~Terminal(jobs.vis[j])}

(***************************************************************************)
(* Plans.                                                                  *)
(***************************************************************************)

\* Planner.create: always the latest official release, only upwards, and not
\* executable when a preflight check or the catalog has a blocker.
CreatePlan ==
    \E p \in PlanIds, ready \in BOOLEAN :
       /\ plans[p] = NoPlan /\ \A q \in 1..p-1 : plans[q] # NoPlan
       /\ LET target == IF official > installed THEN official ELSE installed
          IN  plans' = [plans EXCEPT ![p] =
                 [target |-> target, fingerprint |-> installed,
                  executable |-> target # installed /\ ready]]
       /\ UNCHANGED <<installed, official, jobs, queue, cur, worker, began, answered, faults>>

\* Mutant: the fingerprint of the installation is not compared.
RevalidatesAnywhere(p) == p.executable

\* Planner.revalidate: necessary conditions.  That the plan is younger than 15
\* minutes (only asked by accept), its releases are unchanged and nothing blocks
\* is a choice of the world at each call.
Revalidates(p) == p.executable /\ p.fingerprint = installed

(***************************************************************************)
(* serialized, accept and reconcile.                                       *)
(***************************************************************************)

Submit(op) ==
    /\ queue' = Append(queue, op)
    /\ UNCHANGED <<installed, official, plans, jobs, cur, worker, began, answered, faults>>

\* An IPC request to create a job.
Request ==
    /\ Len(queue) < MaxQueue
    /\ \E k \in Keys, p \in PlanIds : Submit(Accept(k, p))

\* The 10 s timer; a second reconcile in the queue would add nothing.
Tick == Reconcile \notin {queue[i] : i \in 1..Len(queue)} /\ Submit(Reconcile)

TakeNext ==
    /\ cur = Idle /\ queue # <<>>
    /\ cur' = Head(queue)
    /\ queue' = Tail(queue)
    /\ UNCHANGED <<installed, official, plans, jobs,
                   worker, began, answered, faults>>

Goto(stage) == cur' = [cur EXCEPT !.stage = stage]
Done        == cur' = Idle
Answer(j)   == Done /\ answered' = [answered EXCEPT ![cur.key] = @ \union {j}]

\* Mutant: a repeated idempotency key is not looked up.
AcceptReadFresh ==
    /\ cur.kind = "accept" /\ cur.stage = "read"
    /\ IF Unfinished # {} \/ plans[cur.plan] = NoPlan
       THEN Done ELSE Goto("revalidate")
    /\ UNCHANGED <<installed, official, plans, jobs, queue,
                   worker, began, answered, faults>>

\* accept reads the directory: a known key answers its job or is a conflict,
\* an unfinished job refuses the request.
AcceptRead ==
    /\ cur.kind = "accept" /\ cur.stage = "read"
    /\ LET duplicates == {j \in Listed : jobs.vis[j].key = cur.key}
       IN  \/ /\ duplicates # {}
              /\ \E j \in duplicates :
                    \/ jobs.vis[j].plan = cur.plan /\ Answer(j)
                    \/ jobs.vis[j].plan # cur.plan /\ Done /\ UNCHANGED answered
           \/ /\ duplicates = {}
              /\ IF Unfinished # {} \/ plans[cur.plan] = NoPlan
                 THEN Done ELSE Goto("revalidate")
              /\ UNCHANGED answered
    /\ UNCHANGED <<installed, official, plans, jobs, queue,
                   worker, began, faults>>

AcceptRevalidate ==
    /\ cur.kind = "accept" /\ cur.stage = "revalidate"
    /\ Done \/ (Revalidates(plans[cur.plan]) /\ Goto("save"))
    /\ UNCHANGED <<installed, official, plans, jobs, queue,
                   worker, began, answered, faults>>

\* saveJob under a fresh job id; a JournalError goes to the client.
AcceptSave ==
    /\ cur.kind = "accept" /\ cur.stage = "save"
    /\ \E j \in JobIds :
          /\ \A d \in jobs.disk : d[j] = NoJob
          /\ \A i \in 1..j-1 : jobs.vis[i] # NoJob
          /\ LET dir == [jobs.vis EXCEPT ![j] = [key |-> cur.key, plan |-> cur.plan,
                            status |-> "queued", committed |-> FALSE]]
             IN  \/ jobs' = Written(dir) /\ cur' = [cur EXCEPT !.stage = "start", !.job = j]
                    /\ UNCHANGED faults
                 \/ Fault /\ jobs' \in FailedWrites(jobs, dir) /\ Done
    /\ UNCHANGED <<installed, official, plans, queue,
                   worker, began, answered>>

\* The service manager starts the job's process; a process that finds the lock
\* taken exits.
Launch(j) ==
    /\ worker' = IF worker = 0 THEN j ELSE worker
    /\ began' = IF worker = 0 THEN FALSE ELSE began
    /\ UNCHANGED faults

LaunchFails == Fault /\ UNCHANGED <<worker, began>>

\* A worker that cannot be started is left to reconcile.
AcceptStart ==
    /\ cur.kind = "accept" /\ cur.stage = "start"
    /\ Launch(cur.job) \/ LaunchFails
    /\ Answer(cur.job)
    /\ UNCHANGED <<installed, official, plans, jobs, queue>>

\* Mutant: reconcile only resumes jobs that were interrupted.
ReconcileRunning ==
    /\ cur.kind = "reconcile" /\ cur.stage = "read"
    /\ \/ /\ \E j \in Unfinished :
                /\ jobs.vis[j].status = "running"
                /\ cur' = [cur EXCEPT !.stage = "start", !.job = j]
       \/ (\A j \in Unfinished : jobs.vis[j].status # "running") /\ Done
    /\ UNCHANGED <<installed, official, plans, jobs, queue,
                   worker, began, answered, faults>>

\* reconcile: more than one unfinished job is OWNERSHIP_UNCERTAIN.
ReconcileRead ==
    /\ cur.kind = "reconcile" /\ cur.stage = "read"
    /\ IF Cardinality(Unfinished) = 1
       THEN \E j \in Unfinished :
               IF jobs.vis[j].status = "recovery_required"
               THEN Done ELSE cur' = [cur EXCEPT !.stage = "start", !.job = j]
       ELSE Done
    /\ UNCHANGED <<installed, official, plans, jobs, queue,
                   worker, began, answered, faults>>

\* workerAlive is asked after the job was read: the job may have finished since,
\* and is then given a worker all the same.  Nobody else starts one meanwhile.
ReconcileStart ==
    /\ cur.kind = "reconcile" /\ cur.stage = "start"
    /\ IF worker = cur.job THEN UNCHANGED <<worker, began, faults>>
                           ELSE Launch(cur.job) \/ LaunchFails
    /\ Done
    /\ UNCHANGED <<installed, official, plans, jobs, queue, answered>>

ControlStep == \/ TakeNext \/ AcceptRead \/ AcceptRevalidate \/ AcceptSave \/ AcceptStart
               \/ ReconcileRead \/ ReconcileStart

\* The updater dies, or a job that updates the helper restarts it.
ControlRestart ==
    /\ Fault
    /\ cur' = Idle /\ queue' = <<>>
    /\ UNCHANGED <<installed, official, plans, jobs, worker, began, answered>>

(***************************************************************************)
(* The worker process, by its effect on the job file and the installation. *)
(***************************************************************************)

\* saveJob of the worker: a JournalError ends the process.
SaveStatus(j) ==
    LET dir == [jobs.vis EXCEPT ![worker] = j]
    IN  \/ jobs' = Written(dir) /\ UNCHANGED faults
        \/ Fault /\ jobs' \in FailedWrites(jobs, dir)

Exit == worker' = 0 /\ began' = FALSE

WorkerBegin ==
    /\ worker # 0 /\ jobs.vis[worker].status = "queued"
    /\ \/ /\ jobs' = Written([jobs.vis EXCEPT ![worker].status = "running"])
          /\ began' = TRUE
          /\ UNCHANGED <<worker, faults>>
       \/ /\ Fault
          /\ jobs' \in FailedWrites(jobs, [jobs.vis EXCEPT ![worker].status = "running"])
          /\ Exit
    /\ UNCHANGED <<installed, official, plans, queue, cur, answered>>

\* The forward path up to the commit decision, after its own revalidation.
WorkerCommit ==
    /\ worker # 0 /\ began /\ jobs.vis[worker].status = "running"
    /\ ~jobs.vis[worker].committed
    /\ Revalidates(plans[jobs.vis[worker].plan])
    /\ installed' = plans[jobs.vis[worker].plan].target
    /\ jobs' = Written([jobs.vis EXCEPT ![worker].committed = TRUE])
    /\ UNCHANGED <<official, plans, queue, cur, worker, began,
                   answered, faults>>

\* finish: a committed job succeeds, any other ends as recovery left it.
WorkerFinish ==
    /\ worker # 0 /\ jobs.vis[worker].status = "running"
    /\ \E status \in {"succeeded", "failed", "rolled_back", "recovery_required"} :
          /\ IF jobs.vis[worker].committed
             THEN status \in {"succeeded", "recovery_required"}
             ELSE status # "succeeded"
          /\ SaveStatus([jobs.vis[worker] EXCEPT !.status = status])
    /\ Exit
    /\ UNCHANGED <<installed, official, plans, queue, cur, answered>>

\* run finds nothing to do: the job finished while its worker was being started.
WorkerReturn ==
    /\ worker # 0 /\ jobs.vis[worker].status \notin {"queued", "running"}
    /\ Exit
    /\ UNCHANGED <<installed, official, plans, jobs, queue, cur,
                   answered, faults>>

WorkerStep == WorkerBegin \/ WorkerCommit \/ WorkerFinish \/ WorkerReturn

WorkerDies ==
    /\ worker # 0
    /\ Fault /\ Exit
    /\ UNCHANGED <<installed, official, plans, jobs, queue, cur, answered>>

\* updaterMain in recover mode, by the host's administrator.
Recover ==
    /\ worker = 0
    /\ \E j \in Listed :
          /\ jobs.vis[j].status = "recovery_required"
          /\ jobs' = Written([jobs.vis EXCEPT ![j].status = "running"])
          /\ worker' = j /\ began' = FALSE
    /\ UNCHANGED <<installed, official, plans, queue, cur, answered, faults>>

(***************************************************************************)
(* The world around.                                                       *)
(***************************************************************************)

Publish ==
    /\ official < MaxVersion /\ official' = official + 1
    /\ UNCHANGED <<installed, plans, jobs, queue, cur, worker, began, answered, faults>>

PowerLoss ==
    /\ Fault
    /\ jobs' \in AfterPowerLoss(jobs)
    /\ cur' = Idle /\ queue' = <<>> /\ Exit
    /\ UNCHANGED <<installed, official, plans, answered>>

World == Publish \/ PowerLoss \/ WorkerDies \/ ControlRestart

Init ==
    /\ installed = 1 /\ official = 1
    /\ plans = [p \in PlanIds |-> NoPlan]
    /\ jobs = Written([j \in JobIds |-> NoJob])
    /\ queue = <<>> /\ cur = Idle
    /\ worker = 0 /\ began = FALSE
    /\ answered = [k \in Keys |-> {}]
    /\ faults = 0

Next == CreatePlan \/ Request \/ Tick \/ ControlStep \/ WorkerStep \/ Recover \/ World

Spec == Init /\ [][Next]_vars

\* The event loop runs what is queued, the timer fires, processes make progress.
FairSpec == Spec /\ WF_vars(ControlStep) /\ WF_vars(Tick) /\ WF_vars(WorkerStep)

(***************************************************************************)
(* Properties.                                                             *)
(***************************************************************************)

\* Every variable has its type.
TypeOK ==
    /\ installed \in Versions /\ official \in Versions
    /\ plans \in [PlanIds -> Plan \union {NoPlan}]
    /\ jobs \in File([JobIds -> Job \union {NoJob}]) /\ jobs.vis \in jobs.disk
    /\ \A i \in 1..Len(queue) : queue[i].kind \in {"accept", "reconcile"}
    /\ cur.stage \in {"none", "read", "revalidate", "save", "start"}
    /\ cur.job \in 0..MaxJobs
    /\ worker \in 0..MaxJobs /\ began \in BOOLEAN
    /\ answered \in [Keys -> SUBSET JobIds]
    /\ faults \in Nat

\* store.current's OWNERSHIP_UNCERTAIN never happens, whatever a power loss
\* brings back: at most one job is unfinished in any content of the directory,
\* and it is the one the lock's holder works on, so that no second job is
\* accepted while a worker may still change the installation.
OneUnfinished ==
    /\ \A d \in jobs.disk :
          Cardinality({j \in JobIds : d[j] # NoJob /\ ~Terminal(d[j])}) <= 1
    /\ worker # 0 /\ jobs.vis[worker].status = "running" => Unfinished = {worker}

\* A retried request, after a lost answer, a restart or a crash, never runs the
\* update a second time: an idempotency key has one job.
KeyHasOneJob ==
    \A d \in jobs.disk : \A i, j \in JobIds :
       d[i] # NoJob /\ d[j] # NoJob /\ d[i].key = d[j].key => i = j

\* No sequence of plans, however stale, downgrades the installation.
NeverDowngrades == [][installed' >= installed]_installed

\* control.ts: "The update request is durably accepted."
AcceptedJobKept == \A k \in Keys : \A j \in answered[k] : jobs.vis[j] # NoJob

\* A queued job does not stay queued: a failed start, a restart of the updater
\* or a death of the worker is made up for by reconcile.
QueuedIsTaken ==
    (\E j \in JobIds : jobs.vis[j].status = "queued")
        ~> (\A j \in JobIds : jobs.vis[j].status # "queued")
=============================================================================
