---------------------------- MODULE UpdateWorker ----------------------------
(***************************************************************************)
(* The job of one accepted system update (src/updater/worker.ts): the      *)
(* journalled forward path, recovery, the durable decision and its         *)
(* completion, with crashes, power losses and journal failures anywhere,   *)
(* the supervisor that restarts the worker (control.ts) and the host       *)
(* recovery command (entrypoint.ts).                                       *)
(*                                                                         *)
(* pc is a pair <<at, stage>>.  An operation of the journal has the stages *)
(* "phase" (only where the code calls this.phase first), "intent", "act"   *)
(* and "done".  <<"dead", "">> is: no worker process holds execution.lock. *)
(***************************************************************************)
EXTENDS ManagedInstallation

VARIABLES
    pc,       \* where the worker process is
    rec,      \* its JobRecord in memory
    journal   \* the job file

vars == <<hostVars, pc, rec, journal>>

ForwardOps == {"prepare", "fence", "stop", "backup", "switch",
               "validation_start", "verify", "helper", "persist_installation"}
RestoreOps == {"restore_deployment", "restore_data"}
Ops        == ForwardOps \union RestoreOps

NoSnapshot == [schema |-> "none", writes |-> 0]

Record == [status   : {"queued", "running", "succeeded", "failed",
                       "rolled_back", "recovery_required"},
           decision : {"none", "commit_decided", "restore_decided"},
           ops      : [Ops -> {"none", "intent", "done"}],
           snapshot : Data \union {NoSnapshot},
           phase    : {"preparing", "maintenance", "backing_up", "switching",
                       "verifying", "updating_helper", "committing", "restoring"}]

\* The record control.accept saves; also the content of an unused memory.
Queued == [status |-> "queued", decision |-> "none",
           ops |-> [k \in Ops |-> "none"], snapshot |-> NoSnapshot,
           phase |-> "preparing"]

Terminal(r) == r.status \in {"succeeded", "failed", "rolled_back"}
Switched(r) == r.ops["switch"] # "none"
Fenced(r)   == r.ops["fence"] # "none"

Dead == <<"dead", "">>

PhaseOps == {"fence", "backup", "switch", "verify", "helper",
             "persist_installation", "restore_deployment"}

\* The phase saved before an operation, where there is one.
PhaseOf == [fence |-> "maintenance", backup |-> "backing_up",
            switch |-> "switching", verify |-> "verifying",
            helper |-> "updating_helper", persist_installation |-> "committing",
            restore_deployment |-> "restoring"]

Enter(op) == <<op, IF op \in PhaseOps THEN "phase" ELSE "intent">>

(***************************************************************************)
(* Control flow.                                                           *)
(***************************************************************************)

\* Mutant: run and recover forget that a decision was taken.
RecoverFromUndecided(r) == IF r.ops["fence"] # "none" THEN <<"recover", "fence">>
                                                      ELSE <<"recover", "reopen">>

\* recover: fence and stop first if the fence was ever intended, restore only
\* if the switch was, start and verify again, then decide or reopen.
AfterVerify(r)  == IF Switched(r) THEN <<"decide", "restore_decided">>
                                  ELSE <<"recover", "reopen">>
AfterRestore(r) == IF Fenced(r) THEN <<"recover", "allow">> ELSE AfterVerify(r)
AfterStop(r)    == IF Switched(r) THEN Enter("restore_deployment")
                                  ELSE AfterRestore(r)
RecoverFrom(r)  == CASE r.decision # "none" -> <<"complete", "save">>
                     [] r.decision = "none" /\ Fenced(r) -> <<"recover", "fence">>
                     [] OTHER -> AfterStop(r)

\* Interrupted data restoration is never repeated automatically.
RestoreUncertain(r) == r.snapshot = NoSnapshot \/ r.ops["restore_data"] = "intent"

AfterOp(op, r) ==
    CASE op = "prepare" -> Enter("fence")
      [] op = "fence" -> Enter("stop")
      [] op = "stop" -> Enter("backup")
      [] op = "backup" -> Enter("switch")
      [] op = "switch" -> Enter("validation_start")
      [] op = "validation_start" -> Enter("verify")
      [] op = "verify" -> Enter("helper")
      [] op = "helper" -> Enter("persist_installation")
      [] op = "persist_installation" -> <<"decide", "commit_decided">>
      [] op = "restore_deployment" -> IF r.ops["restore_data"] # "done"
                                      THEN Enter("restore_data")
                                      ELSE AfterRestore(r)
      [] op = "restore_data" -> AfterRestore(r)

RecoveryRequired == <<"finish", "recovery_required">>

\* Where an exception other than a JournalError leads.
OnError == IF pc[1] \in ForwardOps \union {"revalidate"} THEN RecoverFrom(rec)
                                                         ELSE RecoveryRequired

(***************************************************************************)
(* saveJob: memory and file follow, or a JournalError ends the process     *)
(* with whatever the failed atomicWrite left.                              *)
(***************************************************************************)
SaveJob(r, next) ==
    \/ /\ journal' = Written(r)
       /\ rec' = r
       /\ pc' = next
       /\ UNCHANGED faults
    \/ /\ Fault
       /\ journal' \in FailedWrites(journal, r)
       /\ rec' = Queued
       /\ pc' = Dead

Step(next) == pc' = next /\ UNCHANGED <<rec, journal>>

\* The process dies; what it held in memory is gone.
Killed == pc' = Dead /\ rec' = Queued /\ UNCHANGED journal

\* A step outside the journal throws, or the process dies inside it.
Fails == Fault /\ (Step(OnError) \/ Killed)

(***************************************************************************)
(* The worker process.                                                     *)
(***************************************************************************)

\* Mutant: only a job that never ran is started.
RunWorkerQueued ==
    /\ pc = Dead
    /\ journal.vis.status = "queued"
    /\ rec' = journal.vis
    /\ pc' = <<"begin", "">>
    /\ UNCHANGED <<journal, hostVars>>

\* reconcile (or the service manager) starts a worker for a job that is neither
\* terminal nor recovery_required; run reads the record under the lock.
RunWorker ==
    /\ pc = Dead
    /\ journal.vis.status \in {"queued", "running"}
    /\ rec' = journal.vis
    /\ pc' = IF journal.vis.decision = "none" /\ journal.vis.status = "queued"
             THEN <<"begin", "">> ELSE RecoverFrom(journal.vis)
    /\ UNCHANGED <<journal, hostVars>>

Begin ==
    /\ pc = <<"begin", "">>
    /\ SaveJob([rec EXCEPT !.status = "running"], <<"revalidate", "">>)
    /\ NoHostChange

Revalidate ==
    /\ pc = <<"revalidate", "">>
    /\ \/ Step(Enter("prepare")) /\ UNCHANGED faults
       \/ Fails
    /\ NoHostChange

SavePhase ==
    /\ pc[1] \in PhaseOps /\ pc[2] = "phase"
    /\ LET r == [rec EXCEPT !.phase = PhaseOf[pc[1]]]
       IN  SaveJob(r, IF pc[1] = "restore_deployment" /\ RestoreUncertain(r)
                      THEN RecoveryRequired ELSE <<pc[1], "intent">>)
    /\ NoHostChange

SaveIntent ==
    /\ pc[1] \in Ops /\ pc[2] = "intent"
    /\ SaveJob([rec EXCEPT !.ops[pc[1]] = "intent"], <<pc[1], "act">>)
    /\ NoHostChange

\* The action of an operation completes.
Act ==
    /\ pc[1] \in Ops /\ pc[2] = "act"
    /\ \/ pc[1] = "prepare" /\ NoHostChange
       \/ pc[1] = "fence" /\ WriteMaintenance(Closed)
       \/ pc[1] = "stop" /\ StopApplications
       \/ pc[1] = "backup" /\ NoHostChange
       \/ pc[1] = "switch" /\ SwitchApplications
       \/ pc[1] = "validation_start" /\ ValidationStart(Components)
       \/ pc[1] = "verify" /\ Verified(FALSE) /\ NoHostChange
       \/ pc[1] = "helper" /\ UpdateHelper
       \/ pc[1] = "persist_installation" /\ Commit
       \/ pc[1] = "restore_deployment" /\ RestoreDeployment
       \/ pc[1] = "restore_data" /\ RestoreData(rec.snapshot)
    /\ rec' = IF pc[1] = "backup" THEN [rec EXCEPT !.snapshot = data] ELSE rec
    /\ pc' = <<pc[1], "done">>
    /\ UNCHANGED <<journal, faults>>

\* The action of an operation throws, or the process dies inside it.  A backup
\* that fails its validation is already in the record; a verification fails
\* without a fault when the applications do not match the target.
ActFails ==
    /\ pc[1] \in Ops /\ pc[2] = "act"
    /\ \/ pc[1] \in {"prepare", "backup", "verify"} /\ NoHostChange
       \/ pc[1] = "fence" /\ WriteMaintenancePartly(Closed)
       \/ pc[1] = "stop" /\ StopPartly
       \/ pc[1] = "switch" /\ SwitchPartly
       \/ pc[1] = "validation_start" /\ WriteMaintenancePartly(Validating)
       \/ pc[1] = "validation_start" /\ \E S \in SUBSET Components : ValidationStart(S)
       \/ pc[1] = "helper" /\ UpdateHelperPartly
       \/ pc[1] = "persist_installation" /\ CommitPartly
       \/ pc[1] = "restore_deployment" /\ RestoreDeploymentPartly
       \/ pc[1] = "restore_data" /\ RestoreDataPartly(rec.snapshot)
    /\ \/ Fault /\ (Killed \/ Step(OnError))
       \/ /\ pc[1] = "backup" /\ Fault
          /\ pc' = OnError
          /\ rec' = [rec EXCEPT !.snapshot = data]
          /\ UNCHANGED journal
       \/ pc[1] = "verify" /\ ~Verified(FALSE) /\ Step(OnError) /\ UNCHANGED faults

SaveDone ==
    /\ pc[1] \in Ops /\ pc[2] = "done"
    /\ LET r == [rec EXCEPT !.ops[pc[1]] = "done"]
       IN  SaveJob(r, AfterOp(pc[1], r))
    /\ NoHostChange

\* decide: the decision is journalled before the worker acts on it.
Decide ==
    /\ pc[1] = "decide"
    /\ SaveJob([rec EXCEPT !.decision = pc[2]], <<"complete", "save">>)
    /\ NoHostChange

\* The unjournalled steps of recover.
RecoverFence ==
    /\ pc = <<"recover", "fence">>
    /\ \/ WriteMaintenance(Closed) /\ Step(<<"recover", "stop">>) /\ UNCHANGED faults
       \/ WriteMaintenancePartly(Closed) /\ Fails

RecoverStop ==
    /\ pc = <<"recover", "stop">>
    /\ \/ StopApplications /\ Step(AfterStop(rec)) /\ UNCHANGED faults
       \/ StopPartly /\ Fails

RecoverAllow ==
    /\ pc = <<"recover", "allow">>
    /\ \/ WriteMaintenance(Validating) /\ Step(<<"recover", "start">>) /\ UNCHANGED faults
       \/ WriteMaintenancePartly(Validating) /\ Fails

RecoverStart ==
    /\ pc = <<"recover", "start">>
    /\ \/ StartApplications /\ Step(<<"recover", "verify">>) /\ UNCHANGED faults
       \/ StartPartly /\ Fails

RecoverVerify ==
    /\ pc = <<"recover", "verify">>
    /\ NoHostChange
    /\ \/ Verified(TRUE) /\ Step(AfterVerify(rec)) /\ UNCHANGED faults
       \/ ~Verified(TRUE) /\ Step(OnError) /\ UNCHANGED faults
       \/ Fails

RecoverReopen ==
    /\ pc = <<"recover", "reopen">>
    /\ \/ WriteMaintenance(Open) /\ Step(<<"finish", "failed">>) /\ UNCHANGED faults
       \/ WriteMaintenancePartly(Open) /\ Fails

\* Mutant: a decision that can be read is taken for durable.
CompleteSaveSkipped ==
    /\ pc = <<"complete", "save">>
    /\ Step(<<"complete", "verify">>)
    /\ UNCHANGED hostVars

\* completeDecision: make the decision durable again, verify, reopen, finish.
CompleteSave ==
    /\ pc = <<"complete", "save">>
    /\ SaveJob(rec, <<"complete", "verify">>)
    /\ NoHostChange

CompleteVerify ==
    /\ pc = <<"complete", "verify">>
    /\ NoHostChange
    /\ LET restored == rec.decision = "restore_decided"
       IN  \/ Verified(restored) /\ Step(<<"complete", "reopen">>) /\ UNCHANGED faults
           \/ ~Verified(restored) /\ Step(OnError) /\ UNCHANGED faults
           \/ Fails

CompleteReopen ==
    /\ pc = <<"complete", "reopen">>
    /\ \/ /\ WriteMaintenance(Open)
          /\ Step(<<"finish", IF rec.decision = "restore_decided"
                              THEN "rolled_back" ELSE "succeeded">>)
          /\ UNCHANGED faults
       \/ WriteMaintenancePartly(Open) /\ Fails

\* finish saves the outcome; the process then exits.
Finish ==
    /\ pc[1] = "finish"
    /\ \/ /\ journal' = Written([rec EXCEPT !.status = pc[2]])
          /\ UNCHANGED faults
       \/ /\ Fault
          /\ journal' \in FailedWrites(journal, [rec EXCEPT !.status = pc[2]])
    /\ rec' = Queued
    /\ pc' = Dead
    /\ NoHostChange

WorkerStep ==
    \/ Begin \/ Revalidate \/ SavePhase \/ SaveIntent \/ Act \/ ActFails
    \/ SaveDone \/ Decide
    \/ RecoverFence \/ RecoverStop \/ RecoverAllow \/ RecoverStart
    \/ RecoverVerify \/ RecoverReopen
    \/ CompleteSave \/ CompleteVerify \/ CompleteReopen \/ Finish

(***************************************************************************)
(* Its surroundings.                                                       *)
(***************************************************************************)

\* The recover command takes the lock and asks for the same job to run again.
RecoverCommand ==
    /\ pc = Dead
    /\ journal.vis.status = "recovery_required"
    /\ journal.vis.decision # "none" \/ journal.vis.ops["restore_data"] # "intent"
    /\ \/ journal' = Written([journal.vis EXCEPT !.status = "running"]) /\ UNCHANGED faults
       \/ Fault /\ journal' \in FailedWrites(journal, [journal.vis EXCEPT !.status = "running"])
    /\ UNCHANGED <<pc, rec>> /\ NoHostChange

WorkerCrash ==
    /\ Fault
    /\ pc # Dead
    /\ Killed
    /\ NoHostChange

PowerLoss ==
    /\ HostPowerLoss
    /\ journal' \in AfterPowerLoss(journal)
    /\ pc' = Dead /\ rec' = Queued

Business ==
    /\ AdmitRequest \/ CompleteRequest \/ ApplicationStart \/ ApplicationCrash
    /\ UNCHANGED <<pc, rec, journal>>

Init ==
    /\ HostInit
    /\ pc = Dead
    /\ rec = Queued
    /\ journal = Written(Queued)

Next == RunWorker \/ WorkerStep \/ RecoverCommand \/ WorkerCrash \/ PowerLoss \/ Business

Spec == Init /\ [][Next]_vars

\* The service manager restarts the job and the worker's steps end in an answer
\* or a timeout; nobody is obliged to run the recover command.
FairSpec == Spec /\ WF_vars(RunWorker) /\ WF_vars(WorkerStep)
(***************************************************************************)
(* Properties.                                                             *)
(***************************************************************************)

\* The points of the worker's control flow.
Labels ==
    ({"dead", "begin", "revalidate"} \X {""})
    \union (Ops \X {"intent", "act", "done"})
    \union (PhaseOps \X {"phase"})
    \union ({"decide"} \X {"commit_decided", "restore_decided"})
    \union ({"recover"} \X {"fence", "stop", "allow", "start", "verify", "reopen"})
    \union ({"complete"} \X {"save", "verify", "reopen"})
    \union ({"finish"} \X {"succeeded", "failed", "rolled_back", "recovery_required"})

\* Every variable has its type, a visible content is among the contents a
\* power loss may leave, and pc is a point of the worker's control flow.
TypeOK ==
    /\ HostTypeOK
    /\ pc \in Labels
    /\ rec \in Record
    /\ journal \in File(Record)
    /\ journal.vis \in journal.disk

\* Once a switch may have happened, the fence can only be (or come back) down
\* when no power loss can take the decision away: completeDecision saves the
\* decision again before it reopens.
ReopenedOnlyWhenDecided ==
    /\ \E f \in fence.disk : ~f.active
    /\ Switched(journal.vis)
    => \A r \in journal.disk : r.decision # "none"

\* A reported outcome describes the whole installation: releases, helper and
\* installation record agree with it.
OutcomeConsistent ==
    /\ journal.vis.status = "succeeded" =>
          /\ \A c \in Components : links[c] = Target(c, FALSE)
          /\ helper = Target("backend", FALSE)
          /\ install = "new"
    /\ journal.vis.status \in {"failed", "rolled_back"} =>
          /\ \A c \in Components : links[c] = "old"
          /\ helper = "old"
          /\ install = "old"

\* A decision every possible disk content carries is final.
DecisionFinal ==
    [][\A d \in {"commit_decided", "restore_decided"} :
          (\A r \in journal.disk : r.decision = d)
             => (\A r \in journal'.disk : r.decision = d)]_vars

\* The update keeps its contract with the users of the console: what clients
\* see through crashes, power losses and retries is one update that either
\* commits or restores behind closed doors and loses no acknowledged write.
UserContract == INSTANCE UpdateContract WITH
    NewSchema <- Target("backend", FALSE),
    OldSchema <- "old",
    open      <- serving /\ BusinessWritesAllowed,
    decision  <- IF \A r \in journal.disk : r.decision = journal.vis.decision
                 THEN journal.vis.decision ELSE "none",
    content   <- data,
    promised  <- acked

KeepsContract == UserContract!Contract

\* An accepted job reaches an outcome: a supervisor restarts its worker, and
\* every path ends in finish.
JobSettles ==
    journal.vis.status \in {"queued", "running"}
        ~> journal.vis.status \notin {"queued", "running"}
=============================================================================
