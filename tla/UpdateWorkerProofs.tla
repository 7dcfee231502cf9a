------------------------- MODULE UpdateWorkerProofs -------------------------
(***************************************************************************)
(* What is proved of UpdateWorker, each part resting on the one before:    *)
(* type correctness; the fence (once a switch may have begun, business is  *)
(* open only after a decision no power loss can undo); the outcome (a job  *)
(* reports what the whole installation is); the contract with the users    *)
(* (every step is one of UpdateContract, or none).                         *)
(***************************************************************************)
EXTENDS UpdateWorker, TLAPS

USE ChangedAssumption, BoundsAssumption

(***************************************************************************)
(* Files.                                                                  *)
(***************************************************************************)

\* A completed and a failed atomicWrite keep the type of a file, and its
\* visible content among the contents a power loss may leave.
LEMMA WriteType ==
    ASSUME NEW S, NEW f \in File(S), f.vis \in f.disk, NEW v \in S
    PROVE  /\ Written(v) \in File(S) /\ Written(v).vis \in Written(v).disk
           /\ Written(v).vis = v /\ Written(v).disk = {v}
           /\ \A g \in FailedWrites(f, v) :
                 /\ g \in File(S) /\ g.vis \in g.disk
                 /\ g.vis \in {f.vis, v}
                 /\ g.disk \subseteq f.disk \union {v}
                 /\ g = f \/ g.vis = v
           /\ \A g \in AfterPowerLoss(f) :
                 /\ g \in File(S) /\ g.disk = {g.vis}
                 /\ g.vis \in f.disk
  BY DEF File, Written, FailedWrites, AfterPowerLoss

(***************************************************************************)
(* Control flow.                                                           *)
(***************************************************************************)

\* The points of the control flow, one by one.
LEMMA LabelFacts ==
    /\ Dead \in Labels /\ <<"begin", "">> \in Labels /\ <<"revalidate", "">> \in Labels
    /\ \A op \in Ops : \A stage \in {"intent", "act", "done"} : <<op, stage>> \in Labels
    /\ \A op \in PhaseOps : op \in Ops /\ <<op, "phase">> \in Labels
    /\ \A d \in {"commit_decided", "restore_decided"} : <<"decide", d>> \in Labels
    /\ \A s \in {"fence", "stop", "allow", "start", "verify", "reopen"} :
          <<"recover", s>> \in Labels
    /\ \A s \in {"save", "verify", "reopen"} : <<"complete", s>> \in Labels
    /\ \A s \in {"succeeded", "failed", "rolled_back", "recovery_required"} :
          <<"finish", s>> \in Labels
  <1>1. \A op \in PhaseOps : op \in Ops
    BY DEF PhaseOps, Ops, ForwardOps, RestoreOps
  <1>2. Dead \in Labels /\ <<"begin", "">> \in Labels /\ <<"revalidate", "">> \in Labels
    BY DEF Labels, Dead
  <1>3. \A op \in Ops : \A stage \in {"intent", "act", "done"} : <<op, stage>> \in Labels
    BY DEF Labels
  <1>4. \A op \in PhaseOps : <<op, "phase">> \in Labels
    BY DEF Labels
  <1>5. \A d \in {"commit_decided", "restore_decided"} : <<"decide", d>> \in Labels
    BY DEF Labels
  <1>6. \A s \in {"fence", "stop", "allow", "start", "verify", "reopen"} :
           <<"recover", s>> \in Labels
    BY DEF Labels
  <1>7. \A s \in {"save", "verify", "reopen"} : <<"complete", s>> \in Labels
    BY DEF Labels
  <1>8. \A s \in {"succeeded", "failed", "rolled_back", "recovery_required"} :
           <<"finish", s>> \in Labels
    BY DEF Labels
  <1> QED
    BY <1>1, <1>2, <1>3, <1>4, <1>5, <1>6, <1>7, <1>8

\* An operation with a phase is an operation of the journal.
LEMMA PhaseIsOp == PhaseOps \subseteq Ops
  BY DEF PhaseOps, Ops, ForwardOps, RestoreOps

\* What the second component of a decide or finish point may be.
LEMMA LabelCases ==
    ASSUME NEW p \in Labels
    PROVE  /\ p[1] = "decide" => p[2] \in {"commit_decided", "restore_decided"}
           /\ p[1] = "finish" => p[2] \in {"succeeded", "failed", "rolled_back",
                                           "recovery_required"}
  <1>1. \A op \in Ops : op # "decide" /\ op # "finish"
    BY DEF Ops, ForwardOps, RestoreOps
  <1>2. \A op \in PhaseOps : op # "decide" /\ op # "finish"
    BY DEF PhaseOps
  <1>3. CASE p \in {"dead", "begin", "revalidate"} \X {""}
    BY <1>3
  <1>4. CASE p \in Ops \X {"intent", "act", "done"}
    BY <1>1, <1>4
  <1>5. CASE p \in PhaseOps \X {"phase"}
    BY <1>2, <1>5
  <1>6. CASE p \in {"decide"} \X {"commit_decided", "restore_decided"}
    BY <1>6
  <1>7. CASE p \in {"recover"} \X {"fence", "stop", "allow", "start", "verify", "reopen"}
    BY <1>7
  <1>8. CASE p \in {"complete"} \X {"save", "verify", "reopen"}
    BY <1>8
  <1>9. CASE p \in {"finish"} \X {"succeeded", "failed", "rolled_back", "recovery_required"}
    BY <1>9
  <1> QED
    BY <1>3, <1>4, <1>5, <1>6, <1>7, <1>8, <1>9 DEF Labels

\* A point is the pair of its components.
LEMMA LabelPair == ASSUME NEW p \in Labels PROVE p = <<p[1], p[2]>>
  <1>1. \A S, T : \A q \in S \X T : q = <<q[1], q[2]>>
    OBVIOUS
  <1> QED
    BY <1>1 DEF Labels

\* A point of an operation, told by its first component.
LEMMA NotDead ==
    ASSUME NEW p, p[1] # "dead"
    PROVE  p # Dead
  <1>1. Dead[1] = "dead"
    BY DEF Dead
  <1> QED
    BY <1>1

\* Every jump of the worker leads to a point of its control flow.
LEMMA FlowType ==
    ASSUME NEW r \in Record
    PROVE  /\ \A op \in Ops : Enter(op) \in Labels
           /\ AfterVerify(r) \in Labels /\ AfterRestore(r) \in Labels
           /\ AfterStop(r) \in Labels /\ RecoverFrom(r) \in Labels
           /\ RecoveryRequired \in Labels
           /\ \A op \in Ops : AfterOp(op, r) \in Labels
  <1>1. \A op \in Ops : Enter(op) \in Labels
    BY LabelFacts DEF Enter
  <1>2. AfterVerify(r) \in Labels
    BY LabelFacts DEF AfterVerify
  <1>3. AfterRestore(r) \in Labels
    BY <1>2, LabelFacts DEF AfterRestore
  <1>4. AfterStop(r) \in Labels
    BY <1>1, <1>3 DEF AfterStop, Ops, RestoreOps
  <1>5. RecoverFrom(r) \in Labels
    BY <1>4, LabelFacts DEF RecoverFrom
  <1>6. RecoveryRequired \in Labels
    BY LabelFacts DEF RecoveryRequired
  <1>7. ASSUME NEW op \in Ops PROVE AfterOp(op, r) \in Labels
    <2>1. /\ \A o \in ForwardOps : Enter(o) \in Labels
          /\ Enter("restore_data") \in Labels
      BY <1>1 DEF Ops, ForwardOps, RestoreOps
    <2>2. <<"decide", "commit_decided">> \in Labels
      BY LabelFacts
    <2> QED
      BY <2>1, <2>2, <1>3 DEF AfterOp, Ops, ForwardOps, RestoreOps
  <1> QED
    BY <1>1, <1>2, <1>3, <1>4, <1>5, <1>6, <1>7

\* An exception leads to a point of the control flow.
LEMMA OnErrorType == TypeOK => OnError \in Labels
  BY FlowType DEF TypeOK, OnError

\* The record of a new job is a record.
LEMMA RecordType ==
    /\ Queued \in Record
    /\ NoSnapshot \in Data \union {NoSnapshot}
  BY DEF Queued, Record, NoSnapshot

(***************************************************************************)
(* Type correctness.                                                       *)
(***************************************************************************)

\* What a step leaves well typed when the host part of it does.
WorkerTypeOK ==
    /\ pc \in Labels
    /\ rec \in Record
    /\ journal \in File(Record)
    /\ journal.vis \in journal.disk

\* saveJob, completed or failed, keeps the types of the worker.
LEMMA SaveJobType ==
    ASSUME TypeOK, NEW r \in Record, NEW next \in Labels, SaveJob(r, next)
    PROVE  WorkerTypeOK' /\ faults' \in Nat
  <1>1. /\ journal \in File(Record) /\ journal.vis \in journal.disk
        /\ faults \in Nat
    BY DEF TypeOK, HostTypeOK
  <1>2. CASE journal' = Written(r) /\ rec' = r /\ pc' = next /\ UNCHANGED faults
    BY <1>1, <1>2, WriteType DEF WorkerTypeOK
  <1>3. CASE /\ Fault /\ journal' \in FailedWrites(journal, r)
             /\ rec' = Queued /\ pc' = Dead
    <2>1. journal' \in File(Record) /\ journal'.vis \in journal'.disk
      BY <1>1, <1>3, WriteType
    <2>2. faults' \in Nat
      BY <1>1, <1>3 DEF Fault
    <2> QED
      BY <1>3, <2>1, <2>2, RecordType, LabelFacts DEF WorkerTypeOK
  <1> QED
    BY <1>2, <1>3 DEF SaveJob

\* The idle installation with a queued job is well typed.
LEMMA InitType == Init => TypeOK
  <1> SUFFICES ASSUME Init PROVE TypeOK
    OBVIOUS
  <1>1. HostTypeOK
    BY DEF Init, HostInit, HostTypeOK, File, Written, Fence, Open, Data, Release, Components
  <1>2. journal \in File(Record) /\ journal.vis \in journal.disk
    BY RecordType DEF Init, File, Written
  <1> QED
    BY <1>1, <1>2, RecordType, LabelFacts DEF Init, TypeOK

\* The host without its fault counter.
HostStateOK ==
    /\ fence \in File(Fence) /\ fence.vis \in fence.disk
    /\ links \in [Components -> Release]
    /\ run \in [Components -> Release \union {"none"}]
    /\ serving \in BOOLEAN
    /\ data \in Data
    /\ inflight \in Nat /\ acked \in Nat
    /\ helper \in Release /\ install \in Release

\* The three states writeMaintenance is called with.
LEMMA FenceType == {Closed, Validating, Open} \subseteq Fence
  BY DEF Closed, Validating, Open, Fence

\* Writing the fence, completely or not, keeps the types of the host.
LEMMA MaintenanceType ==
    ASSUME HostStateOK, NEW f \in {Closed, Validating, Open},
           WriteMaintenance(f) \/ WriteMaintenancePartly(f)
    PROVE  HostStateOK'
  <1>1. fence' \in File(Fence) /\ fence'.vis \in fence'.disk
    BY FenceType, WriteType DEF HostStateOK, WriteMaintenance, WriteMaintenancePartly
  <1> QED
    BY <1>1 DEF HostStateOK, WriteMaintenance, WriteMaintenancePartly

\* So does stopping any of the applications,
LEMMA StopType ==
    ASSUME HostStateOK, StopApplications \/ StopPartly
    PROVE  HostStateOK'
  <1> PICK S \in SUBSET Components : Stop(S)
    BY DEF StopApplications, StopPartly
  <1> QED
    BY DEF HostStateOK, Stop, Release

\* starting any of them,
LEMMA StartType ==
    ASSUME HostStateOK, StartApplications \/ StartPartly
    PROVE  HostStateOK'
  <1> PICK S \in SUBSET Components : Start(S)
    BY DEF StartApplications, StartPartly
  <1> QED
    BY DEF HostStateOK, Start

\* opening the start gate and starting,
LEMMA ValidationStartType ==
    ASSUME HostStateOK, NEW S \in SUBSET Components, ValidationStart(S)
    PROVE  HostStateOK'
  <1>1. fence' \in File(Fence) /\ fence'.vis \in fence'.disk
    BY FenceType, WriteType DEF HostStateOK, ValidationStart
  <1> QED
    BY <1>1 DEF HostStateOK, ValidationStart

\* switching any of them to a release,
LEMMA SwitchType ==
    ASSUME HostStateOK, SwitchApplications \/ SwitchPartly
    PROVE  HostStateOK'
  <1> PICK S \in SUBSET Changed : SwitchTo(S, "new")
    BY DEF SwitchApplications, SwitchPartly
  <1> QED
    BY DEF HostStateOK, SwitchTo, Release

\* replacing the helper and writing the installation record,
LEMMA HelperType ==
    ASSUME HostStateOK, \/ UpdateHelper \/ UpdateHelperPartly
                        \/ Commit \/ CommitPartly
    PROVE  HostStateOK'
  BY DEF HostStateOK, UpdateHelper, UpdateHelperPartly, Commit, CommitPartly, Release

\* restoring the deployment, completely or not,
LEMMA RestoreDeploymentType ==
    ASSUME HostStateOK, RestoreDeployment \/ RestoreDeploymentPartly
    PROVE  HostStateOK'
  BY DEF HostStateOK, RestoreDeployment, RestoreDeploymentPartly, Release

\* restoring the data from a snapshot, completely or not,
LEMMA RestoreDataType ==
    ASSUME HostStateOK, NEW snapshot \in Data,
           RestoreData(snapshot) \/ RestoreDataPartly(snapshot)
    PROVE  HostStateOK'
  BY DEF HostStateOK, RestoreData, RestoreDataPartly, Data

\* and leaving the host alone.
LEMMA NoHostChangeType ==
    ASSUME HostStateOK, NoHostChange
    PROVE  HostStateOK'
  BY DEF HostStateOK, NoHostChange

\* The business application keeps every type, whatever the updater does.
LEMMA BusinessType ==
    ASSUME HostTypeOK, AdmitRequest \/ CompleteRequest \/ ApplicationStart \/ ApplicationCrash
    PROVE  HostTypeOK'
  <1>1. CASE AdmitRequest
    BY <1>1 DEF HostTypeOK, AdmitRequest
  <1>2. CASE CompleteRequest
    BY <1>2 DEF HostTypeOK, CompleteRequest, Data
  <1>3. CASE ApplicationStart
    <2>1. faults' \in Nat
      BY <1>3 DEF HostTypeOK, ApplicationStart, Fault
    <2>2. data' \in Data
      BY <1>3 DEF HostTypeOK, ApplicationStart, Data
    <2>3. run' \in [Components -> Release \union {"none"}]
      BY <1>3 DEF HostTypeOK, ApplicationStart
    <2>4. serving' \in BOOLEAN
      BY <1>3 DEF HostTypeOK, ApplicationStart
    <2> QED
      BY <1>3, <2>1, <2>2, <2>3, <2>4 DEF HostTypeOK, ApplicationStart
  <1>4. CASE ApplicationCrash
    <2>1. faults' \in Nat
      BY <1>4 DEF HostTypeOK, ApplicationCrash, Fault
    <2>2. run' \in [Components -> Release \union {"none"}]
      BY <1>4 DEF HostTypeOK, ApplicationCrash, Components
    <2> QED
      BY <1>4, <2>1, <2>2 DEF HostTypeOK, ApplicationCrash
  <1> QED
    BY <1>1, <1>2, <1>3, <1>4

\* After a power loss the files hold contents they may have had.
LEMMA PowerLossType ==
    ASSUME TypeOK, PowerLoss
    PROVE  TypeOK'
  <1>0. /\ fence \in File(Fence) /\ fence.vis \in fence.disk
        /\ journal \in File(Record) /\ journal.vis \in journal.disk
        /\ fence' \in AfterPowerLoss(fence) /\ journal' \in AfterPowerLoss(journal)
    BY DEF TypeOK, HostTypeOK, PowerLoss, HostPowerLoss
  <1>1. fence' \in File(Fence) /\ fence'.vis \in fence'.disk
    BY <1>0, WriteType DEF File
  <1>2. journal' \in File(Record) /\ journal'.vis \in journal'.disk
    BY <1>0, WriteType DEF File
  <1>3. run' \in [Components -> Release \union {"none"}]
    BY DEF TypeOK, HostTypeOK, PowerLoss, HostPowerLoss
  <1>4. faults' \in Nat
    BY DEF TypeOK, HostTypeOK, PowerLoss, HostPowerLoss, Fault
  <1>5. HostTypeOK'
    BY <1>1, <1>3, <1>4 DEF TypeOK, HostTypeOK, PowerLoss, HostPowerLoss
  <1> QED
    BY <1>2, <1>5, RecordType, LabelFacts DEF TypeOK, PowerLoss

\* The worker is past the check that refuses to restore without a snapshot.
AtRestore(p) == \/ p[1] = "restore_data"
                \/ p[1] = "restore_deployment" /\ p[2] # "phase"

\* Type correctness needs one fact of the control flow: data are only restored
\* from a snapshot that was taken.
TypeIInv == TypeOK /\ (AtRestore(pc) => rec.snapshot # NoSnapshot)

\* No worker is not about to restore data.
LEMMA FlowRestoreDead == ~AtRestore(Dead)
  BY DEF AtRestore, Dead

\* Only restore_deployment, with a snapshot in the record, leads to restore_data.
LEMMA FlowRestore ==
    ASSUME NEW r \in Record
    PROVE  /\ ~AtRestore(RecoveryRequired)
           /\ ~AtRestore(AfterVerify(r)) /\ ~AtRestore(AfterRestore(r))
           /\ ~AtRestore(AfterStop(r)) /\ ~AtRestore(RecoverFrom(r))
           /\ \A op \in Ops \ {"restore_deployment"} : ~AtRestore(AfterOp(op, r))
  <1>1. /\ ~AtRestore(RecoveryRequired)
        /\ ~AtRestore(AfterVerify(r)) /\ ~AtRestore(AfterRestore(r))
    BY DEF AtRestore, Dead, RecoveryRequired, AfterVerify, AfterRestore
  <1>2. ~AtRestore(AfterStop(r)) /\ ~AtRestore(RecoverFrom(r))
    BY <1>1 DEF AtRestore, AfterStop, RecoverFrom, Enter, PhaseOps
  <1>3. ASSUME NEW op \in Ops \ {"restore_deployment"} PROVE ~AtRestore(AfterOp(op, r))
    BY <1>1 DEF AtRestore, AfterOp, Enter, Ops, ForwardOps, RestoreOps
  <1> QED
    BY <1>1, <1>2, <1>3

\* An exception never leads straight to restore_data.
LEMMA OnErrorRestore == ASSUME TypeOK PROVE ~AtRestore(OnError)
  BY FlowRestore DEF TypeOK, OnError

\* The typed conclusion of a step, from its worker part and its host part.
LEMMA TypeFromParts ==
    ASSUME WorkerTypeOK', HostStateOK', faults' \in Nat
    PROVE  TypeOK'
  BY DEF WorkerTypeOK, HostStateOK, TypeOK, HostTypeOK

\* The parts a typed state is made of.
LEMMA TypeToParts ==
    ASSUME TypeOK
    PROVE  WorkerTypeOK /\ HostStateOK /\ HostTypeOK /\ faults \in Nat
  BY DEF WorkerTypeOK, HostStateOK, TypeOK, HostTypeOK

\* A step that only moves pc, throws or dies keeps the worker's types.
LEMMA StepType ==
    ASSUME TypeOK
    PROVE  /\ \A next \in Labels : Step(next) => WorkerTypeOK'
           /\ Killed => WorkerTypeOK'
           /\ Fault => faults' \in Nat
           /\ Fails => WorkerTypeOK' /\ faults' \in Nat
  <1>1. \A next \in Labels : Step(next) => WorkerTypeOK'
    BY DEF TypeOK, WorkerTypeOK, Step
  <1>2. Killed => WorkerTypeOK'
    BY RecordType, LabelFacts DEF TypeOK, WorkerTypeOK, Killed
  <1>3. Fault => faults' \in Nat
    BY DEF TypeOK, HostTypeOK, Fault
  <1> QED
    BY <1>1, <1>2, <1>3, OnErrorType DEF Fails

\* A step outside the journal: it goes on at next, throws or dies.
LEMMA UnjournalledType ==
    ASSUME TypeIInv, NEW next \in Labels, ~AtRestore(next), HostStateOK',
           ((Step(next) \/ Step(OnError)) /\ UNCHANGED faults) \/ Fails
    PROVE  TypeIInv'
  <1>1. TypeOK
    BY DEF TypeIInv
  <1>2. OnError \in Labels /\ ~AtRestore(OnError)
    BY <1>1, OnErrorType, OnErrorRestore
  <1>3. WorkerTypeOK' /\ faults' \in Nat
    BY <1>1, <1>2, StepType, TypeToParts
  <1>4. ~AtRestore(pc')
    BY <1>2, FlowRestoreDead DEF Step, Fails, Killed
  <1> QED
    BY <1>3, <1>4, TypeFromParts DEF TypeIInv

\* A step that saves the record.
LEMMA SaveStepType ==
    ASSUME TypeIInv, NEW r \in Record, NEW next \in Labels, SaveJob(r, next),
           AtRestore(next) => r.snapshot # NoSnapshot, NoHostChange
    PROVE  TypeIInv'
  <1>1. TypeOK /\ HostStateOK
    BY TypeToParts DEF TypeIInv
  <1>2. TypeOK'
    BY <1>1, SaveJobType, NoHostChangeType, TypeFromParts
  <1>3. \/ rec' = r /\ pc' = next
        \/ pc' = Dead
    BY DEF SaveJob
  <1> QED
    BY <1>2, <1>3, FlowRestoreDead DEF TypeIInv

\* Act and ActFails leave the host well typed.
LEMMA ActHostType ==
    ASSUME TypeIInv, Act \/ ActFails
    PROVE  HostStateOK'
  <1>1. HostStateOK /\ rec \in Record
    BY TypeToParts DEF TypeIInv, WorkerTypeOK
  <1>2. pc[1] = "restore_data" => rec.snapshot \in Data
    BY <1>1 DEF TypeIInv, AtRestore, Record
  <1>3. \/ NoHostChange
        \/ \E f \in {Closed, Validating, Open} :
              WriteMaintenance(f) \/ WriteMaintenancePartly(f)
        \/ StopApplications \/ StopPartly
        \/ SwitchApplications \/ SwitchPartly
        \/ \E S \in SUBSET Components : ValidationStart(S)
        \/ UpdateHelper \/ UpdateHelperPartly \/ Commit \/ CommitPartly
        \/ RestoreDeployment \/ RestoreDeploymentPartly
        \/ /\ pc[1] = "restore_data"
           /\ RestoreData(rec.snapshot) \/ RestoreDataPartly(rec.snapshot)
    BY DEF Act, ActFails
  <1>4. CASE /\ pc[1] = "restore_data"
             /\ RestoreData(rec.snapshot) \/ RestoreDataPartly(rec.snapshot)
    BY <1>1, <1>2, <1>4, RestoreDataType
  <1> QED
    BY <1>1, <1>3, <1>4, NoHostChangeType, MaintenanceType, StopType, SwitchType,
       ValidationStartType, HelperType, RestoreDeploymentType

\* An action that completes keeps TypeIInv.
LEMMA ActType ==
    ASSUME TypeIInv, Act
    PROVE  TypeIInv'
  <1>1. TypeOK /\ pc \in Labels /\ rec \in Record /\ data \in Data
    BY DEF TypeIInv, TypeOK, HostTypeOK
  <1>2. pc[1] \in Ops /\ pc[2] = "act" /\ pc' = <<pc[1], "done">>
    BY DEF Act
  <1>3. pc' \in Labels
    BY <1>2, LabelFacts
  <1>4. rec' \in Record
    BY <1>1 DEF Act, Record
  <1>5. WorkerTypeOK' /\ faults' \in Nat
    BY <1>1, <1>3, <1>4 DEF Act, WorkerTypeOK, TypeOK, HostTypeOK
  <1>6. AtRestore(pc') => rec'.snapshot # NoSnapshot
    BY <1>2 DEF AtRestore, TypeIInv, Act
  <1> QED
    BY <1>5, <1>6, ActHostType, TypeFromParts DEF TypeIInv

\* An action that throws, or in which the process dies, keeps TypeIInv.
LEMMA ActFailsType ==
    ASSUME TypeIInv, ActFails
    PROVE  TypeIInv'
  <1>1. TypeOK /\ rec \in Record /\ data \in Data
    BY DEF TypeIInv, TypeOK, HostTypeOK
  <1>2. OnError \in Labels /\ ~AtRestore(OnError)
    BY <1>1, OnErrorType, OnErrorRestore
  <1>3. [rec EXCEPT !.snapshot = data] \in Record
    BY <1>1 DEF Record
  <1>4. CASE Fault /\ (Killed \/ Step(OnError))
    BY <1>1, <1>2, <1>4, ActHostType, UnjournalledType DEF Fails
  <1>5. CASE pc[1] = "verify" /\ ~Verified(FALSE) /\ Step(OnError) /\ UNCHANGED faults
    BY <1>1, <1>2, <1>5, ActHostType, UnjournalledType
  <1>6. CASE /\ pc[1] = "backup" /\ Fault /\ pc' = OnError
             /\ rec' = [rec EXCEPT !.snapshot = data] /\ UNCHANGED journal
    <2>1. WorkerTypeOK' /\ faults' \in Nat
      BY <1>1, <1>2, <1>3, <1>6, StepType DEF WorkerTypeOK, TypeOK
    <2> QED
      BY <2>1, <1>2, <1>6, ActHostType, TypeFromParts DEF TypeIInv
  <1> QED
    BY <1>4, <1>5, <1>6 DEF ActFails

\* The steps of recover and completeDecision outside the journal.
LEMMA RecoverType ==
    ASSUME TypeIInv, \/ RecoverFence \/ RecoverStop \/ RecoverAllow \/ RecoverStart
                     \/ RecoverVerify \/ RecoverReopen
                     \/ CompleteVerify \/ CompleteReopen \/ Revalidate
    PROVE  TypeIInv'
  <1>1. TypeOK /\ rec \in Record /\ HostStateOK
    BY TypeToParts DEF TypeIInv, TypeOK
  <1>2. /\ \A s \in {"fence", "stop", "allow", "start", "verify", "reopen"} :
              <<"recover", s>> \in Labels /\ ~AtRestore(<<"recover", s>>)
        /\ <<"complete", "reopen">> \in Labels /\ ~AtRestore(<<"complete", "reopen">>)
        /\ \A s \in {"succeeded", "failed", "rolled_back"} :
              <<"finish", s>> \in Labels /\ ~AtRestore(<<"finish", s>>)
        /\ AfterStop(rec) \in Labels /\ ~AtRestore(AfterStop(rec))
        /\ AfterVerify(rec) \in Labels /\ ~AtRestore(AfterVerify(rec))
        /\ Enter("prepare") \in Labels /\ ~AtRestore(Enter("prepare"))
    <2>1. \A s : ~AtRestore(<<"recover", s>>) /\ ~AtRestore(<<"complete", s>>)
                /\ ~AtRestore(<<"finish", s>>)
      BY DEF AtRestore
    <2>2. Enter("prepare") \in Labels /\ ~AtRestore(Enter("prepare"))
      BY <1>1, FlowType DEF AtRestore, Enter, Ops, ForwardOps
    <2> QED
      BY <1>1, <2>1, <2>2, LabelFacts, FlowType, FlowRestore
  <1>3. HostStateOK'
    <2>1. \/ NoHostChange
          \/ \E f \in {Closed, Validating, Open} :
                WriteMaintenance(f) \/ WriteMaintenancePartly(f)
          \/ StopApplications \/ StopPartly
          \/ StartApplications \/ StartPartly
      BY DEF RecoverFence, RecoverStop, RecoverAllow, RecoverStart, RecoverVerify,
             RecoverReopen, CompleteVerify, CompleteReopen, Revalidate
    <2> QED
      BY <1>1, <2>1, NoHostChangeType, MaintenanceType, StopType, StartType
  <1>4. \E next \in Labels :
           /\ ~AtRestore(next)
           /\ ((Step(next) \/ Step(OnError)) /\ UNCHANGED faults) \/ Fails
    BY <1>2 DEF RecoverFence, RecoverStop, RecoverAllow, RecoverStart, RecoverVerify,
           RecoverReopen, CompleteVerify, CompleteReopen, Revalidate
  <1> QED
    BY <1>3, <1>4, UnjournalledType

\* The journalled steps of the worker.
LEMMA SaveType ==
    ASSUME TypeIInv, Begin \/ SavePhase \/ SaveIntent \/ SaveDone \/ Decide \/ CompleteSave
    PROVE  TypeIInv'
  <1>1. TypeOK /\ rec \in Record /\ pc \in Labels
    BY DEF TypeIInv, TypeOK
  <1>2. CASE Begin
    <2>1. [rec EXCEPT !.status = "running"] \in Record
      BY <1>1 DEF Record
    <2>2. <<"revalidate", "">> \in Labels /\ ~AtRestore(<<"revalidate", "">>)
      BY LabelFacts DEF AtRestore
    <2> QED
      BY <1>2, <2>1, <2>2, SaveStepType DEF Begin
  <1>3. CASE SavePhase
    <2> DEFINE r == [rec EXCEPT !.phase = PhaseOf[pc[1]]]
               next == IF pc[1] = "restore_deployment" /\ RestoreUncertain(r)
                       THEN RecoveryRequired ELSE <<pc[1], "intent">>
    <2>1. r \in Record
      BY <1>1, <1>3 DEF SavePhase, Record, PhaseOf, PhaseOps
    <2>2. next \in Labels
      BY <1>1, <1>3, LabelFacts, FlowType DEF SavePhase
    <2>3. AtRestore(next) => r.snapshot # NoSnapshot
      <3>1. CASE pc[1] = "restore_deployment" /\ RestoreUncertain(r)
        BY <1>1, <3>1, FlowRestore
      <3>2. CASE ~(pc[1] = "restore_deployment" /\ RestoreUncertain(r))
        <4>1. next = <<pc[1], "intent">>
          BY <3>2
        <4>2. pc[1] # "restore_data"
          BY <1>3 DEF SavePhase, PhaseOps
        <4>3. CASE pc[1] = "restore_deployment"
          BY <3>2, <4>3 DEF RestoreUncertain
        <4>4. CASE pc[1] # "restore_deployment"
          BY <4>1, <4>2, <4>4 DEF AtRestore
        <4> QED
          BY <4>3, <4>4
      <3> QED
        BY <3>1, <3>2
    <2>4. SaveJob(r, next) /\ NoHostChange
      BY <1>3 DEF SavePhase
    <2> QED
      BY <2>1, <2>2, <2>3, <2>4, SaveStepType
  <1>4. CASE SaveIntent
    <2> DEFINE r == [rec EXCEPT !.ops[pc[1]] = "intent"]
    <2>1. r \in Record
      BY <1>1, <1>4 DEF SaveIntent, Record
    <2>2. <<pc[1], "act">> \in Labels
      BY <1>4, LabelFacts DEF SaveIntent
    <2>3. AtRestore(<<pc[1], "act">>) => r.snapshot # NoSnapshot
      BY <1>4 DEF SaveIntent, AtRestore, TypeIInv
    <2>4. SaveJob(r, <<pc[1], "act">>) /\ NoHostChange
      BY <1>4 DEF SaveIntent
    <2> QED
      BY <2>1, <2>2, <2>3, <2>4, SaveStepType
  <1>5. CASE SaveDone
    <2> DEFINE r == [rec EXCEPT !.ops[pc[1]] = "done"]
    <2>1. r \in Record
      BY <1>1, <1>5 DEF SaveDone, Record
    <2>2. AfterOp(pc[1], r) \in Labels
      BY <2>1, <1>5, FlowType DEF SaveDone
    <2>3. AtRestore(AfterOp(pc[1], r)) => r.snapshot # NoSnapshot
      <3>1. AtRestore(AfterOp(pc[1], r)) => pc[1] = "restore_deployment"
        BY <2>1, <1>5, FlowRestore DEF SaveDone
      <3> QED
        BY <3>1, <1>5 DEF SaveDone, AtRestore, TypeIInv
    <2>4. SaveJob(r, AfterOp(pc[1], r)) /\ NoHostChange
      BY <1>5 DEF SaveDone
    <2> QED
      BY <2>1, <2>2, <2>3, <2>4, SaveStepType
  <1>6. CASE Decide
    <2> DEFINE r == [rec EXCEPT !.decision = pc[2]]
    <2>1. r \in Record
      <3>1. pc[2] \in {"commit_decided", "restore_decided"}
        BY <1>1, <1>6, LabelCases DEF Decide
      <3> QED
        BY <1>1, <3>1 DEF Record
    <2>2. <<"complete", "save">> \in Labels /\ ~AtRestore(<<"complete", "save">>)
      BY LabelFacts DEF AtRestore
    <2>3. SaveJob(r, <<"complete", "save">>) /\ NoHostChange
      BY <1>6 DEF Decide
    <2> QED
      BY <2>1, <2>2, <2>3, SaveStepType
  <1>7. CASE CompleteSave
    <2>1. <<"complete", "verify">> \in Labels /\ ~AtRestore(<<"complete", "verify">>)
      BY LabelFacts DEF AtRestore
    <2> QED
      BY <1>1, <1>7, <2>1, SaveStepType DEF CompleteSave
  <1> QED
    BY <1>2, <1>3, <1>4, <1>5, <1>6, <1>7

\* The steps that start, end or interrupt a worker.
LEMMA LifecycleType ==
    ASSUME TypeIInv, RunWorker \/ Finish \/ RecoverCommand \/ WorkerCrash
    PROVE  TypeIInv'
  <1>1. /\ TypeOK /\ rec \in Record /\ pc \in Labels
        /\ journal \in File(Record) /\ journal.vis \in journal.disk
        /\ journal.vis \in Record
        /\ HostStateOK /\ faults \in Nat
    BY TypeToParts DEF TypeIInv, TypeOK, File
  <1>2. CASE RunWorker
    <2>1. pc' \in Labels /\ ~AtRestore(pc')
      <3>1. <<"begin", "">> \in Labels /\ ~AtRestore(<<"begin", "">>)
        BY LabelFacts DEF AtRestore
      <3> QED
        BY <1>1, <1>2, <3>1, FlowType, FlowRestore DEF RunWorker
    <2>2. WorkerTypeOK'
      BY <1>1, <1>2, <2>1 DEF RunWorker, WorkerTypeOK
    <2>3. HostStateOK' /\ faults' \in Nat
      BY <1>1, <1>2 DEF RunWorker, hostVars, HostStateOK
    <2> QED
      BY <2>1, <2>2, <2>3, TypeFromParts DEF TypeIInv
  <1>3. CASE Finish
    <2> DEFINE r == [rec EXCEPT !.status = pc[2]]
    <2>1. r \in Record
      <3>1. pc[2] \in {"succeeded", "failed", "rolled_back", "recovery_required"}
        BY <1>1, <1>3, LabelCases DEF Finish
      <3> QED
        BY <1>1, <3>1 DEF Record
    <2>2. journal' \in File(Record) /\ journal'.vis \in journal'.disk
      <3>1. journal' = Written(r) \/ journal' \in FailedWrites(journal, r)
        BY <1>3 DEF Finish
      <3> QED
        BY <1>1, <2>1, <3>1, WriteType
    <2>3. WorkerTypeOK'
      BY <1>3, <2>2, RecordType, LabelFacts DEF Finish, WorkerTypeOK
    <2>4. faults' \in Nat
      BY <1>1, <1>3 DEF Finish, Fault
    <2> QED
      BY <1>1, <1>3, <2>3, <2>4, NoHostChangeType, TypeFromParts, FlowRestoreDead
         DEF Finish, TypeIInv
  <1>4. CASE RecoverCommand
    <2> DEFINE r == [journal.vis EXCEPT !.status = "running"]
    <2>1. r \in Record
      BY <1>1 DEF Record
    <2>2. journal' \in File(Record) /\ journal'.vis \in journal'.disk
      <3>1. journal' = Written(r) \/ journal' \in FailedWrites(journal, r)
        BY <1>4 DEF RecoverCommand
      <3> QED
        BY <1>1, <2>1, <3>1, WriteType
    <2>3. WorkerTypeOK' /\ faults' \in Nat
      BY <1>1, <1>4, <2>2 DEF RecoverCommand, Fault, WorkerTypeOK
    <2>4. TypeOK'
      BY <1>1, <1>4, <2>3, NoHostChangeType, TypeFromParts DEF RecoverCommand
    <2> QED
      BY <1>4, <2>4, FlowRestoreDead DEF RecoverCommand, TypeIInv
  <1>5. CASE WorkerCrash
    BY <1>1, <1>5, StepType, NoHostChangeType, TypeFromParts, FlowRestoreDead
       DEF WorkerCrash, Killed, TypeIInv
  <1> QED
    BY <1>2, <1>3, <1>4, <1>5

\* TypeIInv is inductive.
LEMMA TypeStep == TypeIInv /\ [Next]_vars => TypeIInv'
  <1> SUFFICES ASSUME TypeIInv, [Next]_vars PROVE TypeIInv'
    OBVIOUS
  <1>1. CASE WorkerStep
    BY <1>1, SaveType, ActType, ActFailsType, RecoverType, LifecycleType DEF WorkerStep
  <1>2. CASE RunWorker \/ RecoverCommand \/ WorkerCrash
    BY <1>2, LifecycleType
  <1>3. CASE PowerLoss
    BY <1>3, PowerLossType, FlowRestoreDead DEF TypeIInv, PowerLoss
  <1>4. CASE Business
    BY <1>4, BusinessType DEF Business, TypeIInv, TypeOK
  <1>5. CASE UNCHANGED vars
    BY <1>5 DEF vars, hostVars, TypeIInv, TypeOK, HostTypeOK
  <1> QED
    BY <1>1, <1>2, <1>3, <1>4, <1>5 DEF Next

\* Every reachable state of the update job is well typed; in particular the
\* business data are never replaced by a snapshot that was not taken.
THEOREM TypeCorrect == Spec => []TypeOK
  <1>1. Init => TypeIInv
    BY InitType, FlowRestoreDead DEF Init, TypeIInv
  <1>2. TypeIInv => TypeOK
    BY DEF TypeIInv
  <1> QED
    BY <1>1, <1>2, TypeStep, PTL DEF Spec

(***************************************************************************)
(* The fence and the decision.                                             *)
(***************************************************************************)

\* Business may be open now, or after a power loss.
MayBeOpen == \E f \in fence.disk : ~f.active

Decided(r) == r.decision # "none"

\* The worker has closed the fence and not begun the switch.
PastFence(p) == p = <<"fence", "done">> \/ p[1] \in {"stop", "backup", "switch"}

\* The worker has journalled that the switch begins.
PastSwitch(p) ==
    \/ p = <<"switch", "act">> \/ p = <<"switch", "done">>
    \/ p[1] \in {"validation_start", "verify", "helper", "persist_installation",
                 "restore_deployment", "restore_data", "decide"}

\* The points at which no decision was taken yet.
Deciding(p) == p[1] \notin {"dead", "complete", "finish"}

\* The job file: an open fence and a begun switch need a durable decision, the
\* visible record is the most advanced one, only a switched update is decided.
JournalInv ==
    /\ MayBeOpen /\ (\E r \in journal.disk : Switched(r))
          => \A r \in journal.disk : Decided(r)
    /\ \A r \in journal.disk : Switched(r) => Switched(journal.vis)
    /\ \A r \in journal.disk : Decided(r) => Switched(r)

\* The worker: its memory agrees with the file, and what its position tells.
WorkerInv ==
    /\ pc # Dead => (Switched(rec) <=> Switched(journal.vis))
    /\ pc # Dead => rec.decision = journal.vis.decision
    /\ PastFence(pc) => ~MayBeOpen
    /\ PastSwitch(pc) => Switched(rec)
    /\ Deciding(pc) => ~Decided(rec)
    /\ pc[1] = "complete" => Decided(rec)
    /\ pc \in {<<"complete", "verify">>, <<"complete", "reopen">>}
          => \A r \in journal.disk : Decided(r)
    /\ pc = <<"recover", "reopen">> => ~Switched(rec)

FenceIInv == JournalInv /\ WorkerInv

\* What WorkerInv asks of being at p with the record r in memory.
Landing(p, r) ==
    /\ PastSwitch(p) => Switched(r)
    /\ Deciding(p) => ~Decided(r)
    /\ p[1] = "complete" => Decided(r)
    /\ p = <<"recover", "reopen">> => ~Switched(r)

\* No worker process is at none of the points FenceIInv speaks of.
LEMMA DeadFacts ==
    /\ ~PastFence(Dead) /\ ~PastSwitch(Dead) /\ ~Deciding(Dead)
    /\ Dead[1] = "dead" /\ Dead[1] # "complete" /\ Dead # <<"recover", "reopen">>
    /\ Dead \notin {<<"complete", "verify">>, <<"complete", "reopen">>}
  BY DEF PastFence, PastSwitch, Deciding, Dead

\* A process that ended claims nothing.
LEMMA DeadInv == ASSUME pc' = Dead PROVE WorkerInv'
  BY DeadFacts DEF WorkerInv

\* Where recovery goes fits the record it starts from.
LEMMA FlowFence ==
    ASSUME NEW r \in Record
    PROVE  /\ ~Decided(r) => /\ Landing(AfterVerify(r), r) /\ ~PastFence(AfterVerify(r))
                             /\ Landing(AfterRestore(r), r) /\ ~PastFence(AfterRestore(r))
                             /\ Landing(AfterStop(r), r) /\ ~PastFence(AfterStop(r))
           /\ Landing(RecoverFrom(r), r) /\ ~PastFence(RecoverFrom(r))
           /\ RecoverFrom(r) \notin {<<"complete", "verify">>, <<"complete", "reopen">>}
           /\ Landing(RecoveryRequired, r) /\ ~PastFence(RecoveryRequired)
  <1>1. ~Decided(r) => Landing(AfterVerify(r), r) /\ ~PastFence(AfterVerify(r))
    BY DEF Landing, AfterVerify, PastSwitch, PastFence, Deciding
  <1>2. ~Decided(r) => Landing(AfterRestore(r), r) /\ ~PastFence(AfterRestore(r))
    BY <1>1 DEF Landing, AfterRestore, PastSwitch, PastFence, Deciding
  <1>3. ~Decided(r) => Landing(AfterStop(r), r) /\ ~PastFence(AfterStop(r))
    <2>1. CASE Switched(r)
      BY <2>1 DEF Landing, AfterStop, PastSwitch, PastFence, Deciding, Enter, PhaseOps
    <2>2. CASE ~Switched(r)
      BY <1>2, <2>2 DEF AfterStop
    <2> QED
      BY <2>1, <2>2
  <1>4. /\ Landing(RecoverFrom(r), r) /\ ~PastFence(RecoverFrom(r))
        /\ RecoverFrom(r) \notin {<<"complete", "verify">>, <<"complete", "reopen">>}
    <2>1. CASE Decided(r)
      <3>1. RecoverFrom(r) = <<"complete", "save">>
        BY <2>1 DEF RecoverFrom, Decided
      <3> QED
        BY <2>1, <3>1 DEF Landing, PastSwitch, PastFence, Deciding
    <2>2. CASE ~Decided(r) /\ Fenced(r)
      <3>1. RecoverFrom(r) = <<"recover", "fence">>
        BY <2>2 DEF RecoverFrom, Decided
      <3> QED
        BY <2>2, <3>1 DEF Landing, PastSwitch, PastFence, Deciding
    <2>3. CASE ~Decided(r) /\ ~Fenced(r)
      <3>1. RecoverFrom(r) = AfterStop(r)
        BY <2>3 DEF RecoverFrom, Decided
      <3>2. AfterStop(r)[1] # "complete"
        BY <2>3, <1>3 DEF Landing
      <3> QED
        BY <2>3, <1>3, <3>1, <3>2
    <2> QED
      BY <2>1, <2>2, <2>3
  <1>5. Landing(RecoveryRequired, r) /\ ~PastFence(RecoveryRequired)
    BY DEF Landing, RecoveryRequired, PastSwitch, PastFence, Deciding
  <1> QED
    BY <1>1, <1>2, <1>3, <1>4, <1>5

\* Where a journalled operation goes fits the record it leaves.
LEMMA FlowOp ==
    ASSUME NEW r \in Record, NEW op \in Ops, ~Decided(r),
           PastSwitch(<<op, "done">>) => Switched(r)
    PROVE  /\ Landing(AfterOp(op, r), r)
           /\ PastFence(AfterOp(op, r)) => op \in {"fence", "stop", "backup"}
  <1>1. CASE op \in {"restore_deployment", "restore_data"}
    <2>1. Switched(r)
      BY <1>1 DEF PastSwitch
    <2>2. \/ AfterOp(op, r) = <<"restore_data", "intent">>
          \/ AfterOp(op, r) = AfterRestore(r)
      BY <1>1 DEF AfterOp, Enter, PhaseOps
    <2>3. Landing(<<"restore_data", "intent">>, r) /\ ~PastFence(<<"restore_data", "intent">>)
      BY <2>1 DEF Landing, PastSwitch, PastFence, Deciding
    <2> QED
      BY <2>2, <2>3, FlowFence
  <1>2. CASE op \in {"switch", "validation_start", "verify", "helper", "persist_installation"}
    <2>1. Switched(r)
      BY <1>2 DEF PastSwitch
    <2>2. AfterOp(op, r)[1] \in {"validation_start", "verify", "helper",
                                "persist_installation", "decide"}
      BY <1>2 DEF AfterOp, Enter, PhaseOps
    <2> QED
      BY <2>1, <2>2 DEF Landing, PastSwitch, PastFence, Deciding
  <1>3. CASE op \in {"prepare", "fence", "stop", "backup"}
    <2>1. /\ AfterOp(op, r) \in {<<"fence", "phase">>, <<"stop", "intent">>,
                                 <<"backup", "phase">>, <<"switch", "phase">>}
          /\ op = "prepare" => AfterOp(op, r) = <<"fence", "phase">>
      BY <1>3 DEF AfterOp, Enter, PhaseOps
    <2> QED
      BY <1>3, <2>1 DEF Landing, PastSwitch, PastFence, Deciding
  <1> QED
    BY <1>1, <1>2, <1>3 DEF Ops, ForwardOps, RestoreOps

\* A saved record that keeps the switch and the decision of the visible one,
\* or that is saved while the fence is surely closed, keeps JournalInv.
LEMMA SaveFence ==
    ASSUME TypeOK, JournalInv, NEW r \in Record,
           journal' = Written(r) \/ journal' \in FailedWrites(journal, r),
           fence' = fence,
           Switched(journal.vis) => Switched(r),
           Decided(r) => Switched(r),
           MayBeOpen => /\ Switched(r) <=> Switched(journal.vis)
                        /\ Decided(r) <=> Decided(journal.vis)
    PROVE  JournalInv'
  <1>1. /\ journal \in File(Record) /\ journal.vis \in journal.disk
        /\ journal.vis \in Record
    BY DEF TypeOK, File
  <1>2. /\ journal'.disk \subseteq journal.disk \union {r}
        /\ journal'.vis = r \/ journal' = journal
        /\ journal'.vis \in journal'.disk
    BY <1>1, WriteType
  <1>3. MayBeOpen' <=> MayBeOpen
    BY DEF MayBeOpen
  <1>4. CASE journal' = journal
    BY <1>3, <1>4 DEF JournalInv
  <1>5. CASE journal'.vis = r
    <2>1. \A q \in journal'.disk : Switched(q) => Switched(r)
      BY <1>1, <1>2 DEF JournalInv
    <2>2. \A q \in journal'.disk : Decided(q) => Switched(q)
      BY <1>1, <1>2 DEF JournalInv
    <2>3. ASSUME MayBeOpen, \E q \in journal'.disk : Switched(q)
          PROVE  \A q \in journal'.disk : Decided(q)
      <3>1. Switched(journal.vis)
        BY <2>1, <2>3
      <3>2. \A q \in journal.disk : Decided(q)
        BY <1>1, <2>3, <3>1 DEF JournalInv
      <3> QED
        BY <1>1, <1>2, <2>3, <3>2
    <2> QED
      BY <1>3, <1>5, <2>1, <2>2, <2>3 DEF JournalInv
  <1> QED
    BY <1>2, <1>4, <1>5

\* saveJob inside the worker.
LEMMA SaveJobFence ==
    ASSUME TypeOK, FenceIInv, NEW r \in Record, NEW next \in Labels, SaveJob(r, next),
           NoHostChange, pc # Dead,
           Switched(rec) => Switched(r),
           Decided(r) => Switched(r),
           MayBeOpen => (Switched(r) <=> Switched(rec)) /\ (Decided(r) <=> Decided(rec)),
           Landing(next, r), PastFence(next) => ~MayBeOpen
    PROVE  FenceIInv'
  <1>1. /\ Switched(rec) <=> Switched(journal.vis)
        /\ Decided(rec) <=> Decided(journal.vis)
    BY DEF FenceIInv, WorkerInv, Decided
  <1>2. fence' = fence /\ (MayBeOpen' <=> MayBeOpen)
    BY DEF NoHostChange, MayBeOpen
  <1>3. journal' = Written(r) \/ journal' \in FailedWrites(journal, r)
    BY DEF SaveJob
  <1>4. JournalInv'
    BY <1>1, <1>2, <1>3, SaveFence DEF FenceIInv
  <1>5. CASE journal' = Written(r) /\ rec' = r /\ pc' = next
    <2>1. journal'.vis = r /\ journal'.disk = {r}
      BY <1>5 DEF Written
    <2>2. pc' = next /\ rec' = r
      BY <1>5
    <2>3. /\ PastSwitch(pc') => Switched(rec')
          /\ Deciding(pc') => ~Decided(rec')
          /\ pc'[1] = "complete" => Decided(rec')
          /\ pc' = <<"recover", "reopen">> => ~Switched(rec')
      BY <2>2 DEF Landing
    <2>4. pc' \in {<<"complete", "verify">>, <<"complete", "reopen">>}
             => \A q \in journal'.disk : Decided(q)
      BY <2>1, <2>2, <2>3
    <2>5. WorkerInv'
      BY <1>2, <2>1, <2>2, <2>3, <2>4 DEF WorkerInv
    <2> QED
      BY <1>4, <2>5 DEF FenceIInv
  <1>6. CASE pc' = Dead
    BY <1>4, <1>6, DeadInv DEF FenceIInv
  <1> QED
    BY <1>5, <1>6 DEF SaveJob

\* A step that leaves the job file alone and does not open the fence.
LEMMA QuietFence ==
    ASSUME TypeOK, FenceIInv, UNCHANGED journal, MayBeOpen' => MayBeOpen,
           \/ pc' = Dead
           \/ /\ pc # Dead /\ pc' # Dead
              /\ rec'.ops = rec.ops /\ rec'.decision = rec.decision
              /\ Landing(pc', rec) /\ (PastFence(pc') => ~MayBeOpen')
              /\ pc' \in {<<"complete", "verify">>, <<"complete", "reopen">>}
                    => \A r \in journal.disk : Decided(r)
    PROVE  FenceIInv'
  <1>1. JournalInv'
    BY DEF FenceIInv, JournalInv
  <1>2. CASE pc' = Dead
    BY <1>1, <1>2, DeadInv DEF FenceIInv
  <1>3. CASE /\ pc # Dead /\ pc' # Dead
             /\ rec'.ops = rec.ops /\ rec'.decision = rec.decision
             /\ Landing(pc', rec) /\ (PastFence(pc') => ~MayBeOpen')
             /\ pc' \in {<<"complete", "verify">>, <<"complete", "reopen">>}
                   => \A r \in journal.disk : Decided(r)
    <2>1. (Switched(rec') <=> Switched(rec)) /\ (Decided(rec') <=> Decided(rec))
      BY <1>3 DEF Switched, Decided
    <2>2. WorkerInv'
      BY <1>3, <2>1 DEF WorkerInv, FenceIInv, Landing
    <2> QED
      BY <1>1, <2>2 DEF FenceIInv
  <1> QED
    BY <1>2, <1>3

\* Closing the fence, completely or not, opens nothing.
LEMMA ClosingFence ==
    ASSUME TypeOK, NEW f \in {Closed, Validating},
           fence' = Written(f) \/ fence' \in FailedWrites(fence, f)
    PROVE  /\ MayBeOpen' => MayBeOpen
           /\ fence' = Written(f) => ~MayBeOpen'
  <1>1. f \in Fence /\ f.active
    <2>1. Closed \in Fence /\ Closed.active
      BY DEF Closed, Fence
    <2>2. Validating \in Fence /\ Validating.active
      BY DEF Validating, Fence
    <2> QED
      BY <2>1, <2>2
  <1>2. fence \in File(Fence) /\ fence.vis \in fence.disk
    BY DEF TypeOK, HostTypeOK
  <1>3. fence'.disk \subseteq fence.disk \union {f} /\ (fence' = Written(f) => fence'.disk = {f})
    BY <1>1, <1>2, WriteType
  <1> QED
    BY <1>1, <1>3 DEF MayBeOpen

\* Whether the fence may be open depends on its file alone.
LEMMA SamePartsFence ==
    ASSUME fence' = fence
    PROVE  MayBeOpen' <=> MayBeOpen
  BY DEF MayBeOpen

\* An exception leads to a point that fits the record in memory.
LEMMA OnErrorFence ==
    ASSUME TypeOK, FenceIInv, pc # Dead
    PROVE  /\ Landing(OnError, rec) /\ ~PastFence(OnError)
           /\ OnError \notin {<<"complete", "verify">>, <<"complete", "reopen">>}
           /\ OnError # Dead
  <1>1. rec \in Record
    BY DEF TypeOK
  <1>2. RecoveryRequired \notin {Dead, <<"complete", "verify">>, <<"complete", "reopen">>}
    BY DEF RecoveryRequired, Dead
  <1>3. RecoverFrom(rec) # Dead
    BY DEF RecoverFrom, AfterStop, AfterRestore, AfterVerify, Enter, Dead
  <1> QED
    BY <1>1, <1>2, <1>3, FlowFence DEF OnError

\* The steps that only save the record keep FenceIInv.
LEMMA SaveActionsFence ==
    ASSUME TypeIInv, FenceIInv,
           Begin \/ SavePhase \/ SaveIntent \/ SaveDone \/ Decide \/ CompleteSave
    PROVE  FenceIInv'
  <1>1. /\ TypeOK /\ rec \in Record /\ pc \in Labels
        /\ journal.vis \in Record /\ journal.vis \in journal.disk
    BY DEF TypeIInv, TypeOK, File
  <1>0. pc # Dead => (Decided(rec) => Switched(rec))
    BY <1>1 DEF FenceIInv, JournalInv, WorkerInv, Decided
  <1>2. CASE Begin
    <2> DEFINE r == [rec EXCEPT !.status = "running"]
    <2>1. r \in Record /\ r.ops = rec.ops /\ r.decision = rec.decision
      BY <1>1 DEF Record
    <2>2. pc # Dead /\ Deciding(pc)
      BY <1>2 DEF Begin, Dead, Deciding
    <2>3. (Switched(r) <=> Switched(rec)) /\ ~Decided(r) /\ ~Decided(rec)
      BY <2>1, <2>2 DEF Switched, Decided, FenceIInv, WorkerInv
    <2>4. /\ Landing(<<"revalidate", "">>, r) /\ ~PastFence(<<"revalidate", "">>)
          /\ <<"revalidate", "">> \in Labels
      BY <2>3, LabelFacts DEF Landing, PastSwitch, PastFence, Deciding
    <2> HIDE DEF r
    <2>5. SaveJob(r, <<"revalidate", "">>) /\ NoHostChange
      BY <1>2 DEF Begin, r
    <2> QED
      BY <1>1, <2>1, <2>2, <2>3, <2>4, <2>5, SaveJobFence
  <1>3. CASE SavePhase
    <2> DEFINE r == [rec EXCEPT !.phase = PhaseOf[pc[1]]]
               next == IF pc[1] = "restore_deployment" /\ RestoreUncertain(r)
                       THEN RecoveryRequired ELSE <<pc[1], "intent">>
    <2>1. r \in Record /\ r.ops = rec.ops /\ r.decision = rec.decision
      BY <1>1, <1>3 DEF SavePhase, Record, PhaseOf, PhaseOps
    <2>2. pc[1] \in PhaseOps /\ pc # Dead /\ Deciding(pc) /\ pc # <<"fence", "done">>
      <3>1. pc[1] \in PhaseOps /\ pc[2] = "phase" /\ pc[1] # "dead"
        BY <1>3 DEF SavePhase, PhaseOps
      <3>2. Deciding(pc)
        BY <3>1 DEF Deciding, PhaseOps
      <3>3. pc # <<"fence", "done">>
        BY <3>1
      <3> QED
        BY <3>1, <3>2, <3>3, NotDead
    <2>3. (Switched(r) <=> Switched(rec)) /\ ~Decided(r) /\ ~Decided(rec)
      BY <2>1, <2>2 DEF Switched, Decided, FenceIInv, WorkerInv
    <2>4. /\ Landing(<<pc[1], "intent">>, r)
          /\ PastFence(<<pc[1], "intent">>) => ~MayBeOpen
      <3>1. PastSwitch(<<pc[1], "intent">>) => Switched(r)
        <4>1. PastSwitch(<<pc[1], "intent">>) => PastSwitch(pc)
          BY <2>2 DEF PastSwitch
        <4> QED
          BY <4>1, <2>3 DEF FenceIInv, WorkerInv
      <3>2. PastFence(<<pc[1], "intent">>) => ~MayBeOpen
        BY <2>2 DEF PastFence, FenceIInv, WorkerInv
      <3>3. pc[1] # "complete" /\ pc[1] # "recover"
        BY <2>2 DEF PhaseOps
      <3> QED
        BY <2>3, <3>1, <3>2, <3>3 DEF Landing
    <2>5. Landing(next, r) /\ (PastFence(next) => ~MayBeOpen) /\ next \in Labels
      BY <1>1, <2>1, <2>2, <2>4, FlowFence, FlowType, LabelFacts
    <2>6. SaveJob(r, next) /\ NoHostChange
      BY <1>3 DEF SavePhase
    <2> HIDE DEF r, next
    <2> QED
      BY <1>1, <2>1, <2>2, <2>3, <2>5, <2>6, SaveJobFence
  <1>4. CASE SaveIntent
    <2> DEFINE r == [rec EXCEPT !.ops[pc[1]] = "intent"]
               next == <<pc[1], "act">>
    <2>1. r \in Record /\ r.decision = rec.decision
      BY <1>1, <1>4 DEF SaveIntent, Record
    <2>2. pc[1] \in Ops /\ pc[2] = "intent" /\ pc # Dead /\ Deciding(pc)
      <3>1. pc[1] \in Ops /\ pc[2] = "intent" /\ pc[1] # "dead"
        BY <1>4 DEF SaveIntent, Ops, ForwardOps, RestoreOps
      <3>2. Deciding(pc)
        BY <3>1 DEF Deciding, Ops, ForwardOps, RestoreOps
      <3> QED
        BY <3>1, <3>2, NotDead
    <2>3. ~Decided(r) /\ ~Decided(rec)
      BY <2>1, <2>2 DEF Decided, FenceIInv, WorkerInv
    <2>4. /\ pc[1] = "switch" => Switched(r)
          /\ pc[1] # "switch" => (Switched(r) <=> Switched(rec))
      BY <1>1, <2>2 DEF Switched, Record, Ops, ForwardOps, RestoreOps
    <2>5. pc[1] = "switch" => ~MayBeOpen
      BY DEF FenceIInv, WorkerInv, PastFence
    <2>6. Landing(next, r) /\ (PastFence(next) => ~MayBeOpen) /\ next \in Labels
      <3>1. PastSwitch(next) => Switched(r)
        <4>1. PastSwitch(next) => PastSwitch(pc) \/ pc[1] = "switch"
          BY <2>2 DEF PastSwitch
        <4> QED
          BY <4>1, <2>4 DEF FenceIInv, WorkerInv
      <3>2. PastFence(next) => ~MayBeOpen
        BY <2>2 DEF PastFence, FenceIInv, WorkerInv
      <3>3. pc[1] # "complete" /\ pc[1] # "recover"
        BY <2>2 DEF Ops, ForwardOps, RestoreOps
      <3> QED
        BY <2>2, <2>3, <3>1, <3>2, <3>3, LabelFacts DEF Landing
    <2>7. SaveJob(r, next) /\ NoHostChange
      BY <1>4 DEF SaveIntent
    <2> HIDE DEF r, next
    <2> QED
      BY <1>1, <2>1, <2>2, <2>3, <2>4, <2>5, <2>6, <2>7, SaveJobFence
  <1>5. CASE SaveDone
    <2> DEFINE r == [rec EXCEPT !.ops[pc[1]] = "done"]
               next == AfterOp(pc[1], r)
    <2>1. r \in Record /\ r.decision = rec.decision
      BY <1>1, <1>5 DEF SaveDone, Record
    <2>2. /\ pc[1] \in Ops /\ pc[2] = "done" /\ pc # Dead /\ Deciding(pc)
          /\ pc = <<pc[1], "done">>
      BY <1>1, <1>5, LabelPair DEF SaveDone, Dead, Deciding, Ops, ForwardOps, RestoreOps
    <2>3. ~Decided(r) /\ ~Decided(rec)
      BY <2>1, <2>2 DEF Decided, FenceIInv, WorkerInv
    <2>4. Switched(r) <=> Switched(rec)
      <3>1. CASE pc[1] = "switch"
        <4>1. Switched(rec)
          BY <2>2, <3>1 DEF FenceIInv, WorkerInv, PastSwitch
        <4> QED
          BY <1>1, <2>2, <3>1, <4>1 DEF Switched, Record
      <3>2. CASE pc[1] # "switch"
        BY <1>1, <2>2, <3>2 DEF Switched, Record, Ops, ForwardOps
      <3> QED
        BY <3>1, <3>2
    <2>5. PastSwitch(<<pc[1], "done">>) => Switched(r)
      BY <2>2, <2>4 DEF FenceIInv, WorkerInv
    <2>6. Landing(next, r) /\ (PastFence(next) => pc[1] \in {"fence", "stop", "backup"})
      BY <2>1, <2>2, <2>3, <2>5, FlowOp
    <2>7. pc[1] \in {"fence", "stop", "backup"} => ~MayBeOpen
      BY <2>2 DEF FenceIInv, WorkerInv, PastFence
    <2>8. next \in Labels
      BY <2>1, <2>2, FlowType
    <2>9. SaveJob(r, next) /\ NoHostChange
      BY <1>5 DEF SaveDone
    <2> HIDE DEF r, next
    <2> QED
      BY <1>1, <2>1, <2>2, <2>3, <2>4, <2>6, <2>7, <2>8, <2>9, SaveJobFence
  <1>6. CASE Decide
    <2> DEFINE r == [rec EXCEPT !.decision = pc[2]]
               next == <<"complete", "save">>
    <2>1. pc[1] = "decide" /\ pc[2] \in {"commit_decided", "restore_decided"}
      BY <1>1, <1>6, LabelCases DEF Decide
    <2>2. r \in Record /\ r.ops = rec.ops /\ r.decision = pc[2]
      BY <1>1, <2>1 DEF Record
    <2>3. pc # Dead /\ Deciding(pc) /\ PastSwitch(pc)
      <3>1. Deciding(pc) /\ PastSwitch(pc) /\ pc[1] # "dead"
        BY <2>1 DEF Deciding, PastSwitch
      <3> QED
        BY <3>1, NotDead
    <2>4. Switched(rec) /\ Switched(r) /\ Decided(r) /\ ~Decided(rec)
      BY <2>1, <2>2, <2>3 DEF Switched, Decided, FenceIInv, WorkerInv
    <2>5. ~MayBeOpen
      BY <1>1, <2>3, <2>4 DEF FenceIInv, WorkerInv, JournalInv, Decided
    <2>6. Landing(next, r) /\ ~PastFence(next) /\ next \in Labels
      BY <2>4, LabelFacts DEF Landing, PastSwitch, PastFence, Deciding
    <2>7. SaveJob(r, next) /\ NoHostChange
      BY <1>6 DEF Decide
    <2> HIDE DEF r, next
    <2> QED
      BY <1>1, <2>2, <2>3, <2>4, <2>5, <2>6, <2>7, SaveJobFence
  <1>7. CASE CompleteSave
    <2> DEFINE next == <<"complete", "verify">>
    <2>1. pc # Dead /\ Decided(rec)
      BY <1>7 DEF CompleteSave, Dead, FenceIInv, WorkerInv
    <2>2. Landing(next, rec) /\ ~PastFence(next) /\ next \in Labels
      BY <2>1, LabelFacts DEF Landing, PastSwitch, PastFence, Deciding
    <2>3. SaveJob(rec, next) /\ NoHostChange
      BY <1>7 DEF CompleteSave
    <2> HIDE DEF next
    <2> QED
      BY <1>0, <1>1, <2>1, <2>2, <2>3, SaveJobFence
  <1> QED
    BY <1>2, <1>3, <1>4, <1>5, <1>6, <1>7

\* The action of an operation: only "fence" and "validation_start" touch the
\* fence, and both close it.
LEMMA ActFence ==
    ASSUME TypeIInv, FenceIInv, Act \/ ActFails
    PROVE  FenceIInv'
  <1>1. TypeOK /\ rec \in Record /\ pc \in Labels
    BY DEF TypeIInv, TypeOK
  <1>2. pc[1] \in Ops /\ pc[2] = "act" /\ pc[1] # "dead" /\ pc # Dead /\ Deciding(pc)
    <2>1. pc[1] \in Ops /\ pc[2] = "act"
      BY DEF Act, ActFails
    <2>2. pc[1] \notin {"dead", "complete", "finish"}
      BY <2>1 DEF Ops, ForwardOps, RestoreOps
    <2> QED
      BY <2>1, <2>2, NotDead DEF Deciding
  <1>3. MayBeOpen' => MayBeOpen
    <2>1. \/ fence' = fence
          \/ \E f \in {Closed, Validating} :
                fence' = Written(f) \/ fence' \in FailedWrites(fence, f)
      BY DEF Act, ActFails, NoHostChange, WriteMaintenance, WriteMaintenancePartly,
             StopApplications, StopPartly, Stop, SwitchApplications, SwitchPartly, SwitchTo,
             ValidationStart, UpdateHelper, UpdateHelperPartly, Commit, CommitPartly,
             RestoreDeployment, RestoreDeploymentPartly, RestoreData, RestoreDataPartly
    <2> QED
      BY <1>1, <2>1, ClosingFence, SamePartsFence
  <1>4. CASE Act
    <2>1. pc' = <<pc[1], "done">> /\ UNCHANGED journal
      BY <1>4 DEF Act
    <2>2. rec'.ops = rec.ops /\ rec'.decision = rec.decision
      BY <1>1, <1>4 DEF Act, Record
    <2>3. PastFence(pc') => ~MayBeOpen'
      <3>1. CASE pc[1] = "fence"
        <4>1. fence' = Written(Closed)
          BY <1>4, <3>1 DEF Act, WriteMaintenance
        <4> QED
          BY <1>1, <4>1, ClosingFence
      <3>2. CASE pc[1] # "fence"
        <4>1. PastFence(pc') => PastFence(pc)
          BY <2>1, <3>2 DEF PastFence
        <4> QED
          BY <1>3, <4>1 DEF FenceIInv, WorkerInv
      <3> QED
        BY <3>1, <3>2
    <2>4. Landing(pc', rec)
      <3>1. PastSwitch(pc') => PastSwitch(pc)
        <4>1. pc = <<pc[1], "act">>
          BY <1>1, <1>2, LabelPair
        <4> QED
          BY <2>1, <4>1 DEF PastSwitch
      <3>2. pc'[1] = pc[1] /\ pc[1] # "complete" /\ pc[1] # "recover"
        BY <1>2, <2>1 DEF Ops, ForwardOps, RestoreOps
      <3> QED
        BY <1>2, <2>1, <3>1, <3>2 DEF Landing, FenceIInv, WorkerInv
    <2>5. pc' # Dead /\ pc' \notin {<<"complete", "verify">>, <<"complete", "reopen">>}
      <3>1. pc'[1] = pc[1] /\ pc[1] # "complete"
        BY <1>2, <2>1 DEF Ops, ForwardOps, RestoreOps
      <3> QED
        BY <1>2, <3>1, NotDead
    <2> QED
      BY <1>1, <1>2, <1>3, <2>1, <2>2, <2>3, <2>4, <2>5, QuietFence
  <1>5. CASE ActFails
    <2>1. UNCHANGED journal
      BY <1>5 DEF ActFails, Killed, Step
    <2>2. pc' = Dead \/ (pc' = OnError /\ rec'.ops = rec.ops /\ rec'.decision = rec.decision)
      BY <1>1, <1>5 DEF ActFails, Killed, Step, Record
    <2> QED
      BY <1>1, <1>2, <1>3, <2>1, <2>2, OnErrorFence, QuietFence
  <1> QED
    BY <1>4, <1>5

\* A step outside the journal that does not open the fence.
LEMMA UnjournalledFence ==
    ASSUME TypeOK, FenceIInv, NEW next, pc # Dead,
           (Step(next) \/ Step(OnError)) \/ Fails,
           MayBeOpen' => MayBeOpen,
           Landing(next, rec), ~PastFence(next), next # Dead,
           next \in {<<"complete", "verify">>, <<"complete", "reopen">>}
              => \A r \in journal.disk : Decided(r)
    PROVE  FenceIInv'
  <1>1. /\ UNCHANGED journal
        /\ pc' = Dead \/ (pc' \in {next, OnError} /\ rec' = rec)
    BY DEF Step, Fails, Killed
  <1> QED
    BY <1>1, OnErrorFence, QuietFence

\* The steps of recover outside the journal keep FenceIInv.
LEMMA RecoverFencePart ==
    ASSUME TypeIInv, FenceIInv,
           \/ RecoverFence \/ RecoverStop \/ RecoverAllow \/ RecoverStart
           \/ RecoverVerify \/ Revalidate \/ CompleteVerify
    PROVE  FenceIInv'
  <1>1. TypeOK /\ rec \in Record /\ pc \in Labels
    BY DEF TypeIInv, TypeOK
  <1>2. MayBeOpen' => MayBeOpen
    <2>1. \/ fence' = fence
          \/ \E f \in {Closed, Validating} :
                fence' = Written(f) \/ fence' \in FailedWrites(fence, f)
      BY DEF RecoverFence, RecoverStop, RecoverAllow, RecoverStart, RecoverVerify,
             Revalidate, CompleteVerify, NoHostChange, WriteMaintenance,
             WriteMaintenancePartly, StopApplications, StopPartly, Stop,
             StartApplications, StartPartly, Start
    <2> QED
      BY <1>1, <2>1, ClosingFence, SamePartsFence
  <1>3. CASE RecoverFence \/ RecoverStop \/ RecoverAllow \/ RecoverStart \/ RecoverVerify
    <2>1. pc[1] = "recover" /\ pc # Dead /\ ~Decided(rec)
      <3>1. pc[1] = "recover"
        <4>1. \E s : pc = <<"recover", s>>
          BY <1>3 DEF RecoverFence, RecoverStop, RecoverAllow, RecoverStart, RecoverVerify
        <4> QED
          BY <4>1
      <3> QED
        BY <3>1, NotDead DEF Deciding, FenceIInv, WorkerInv
    <2>2. \A s \in {"stop", "start", "verify"} :
             /\ Landing(<<"recover", s>>, rec) /\ ~PastFence(<<"recover", s>>)
             /\ <<"recover", s>> # Dead
             /\ <<"recover", s>> \notin {<<"complete", "verify">>, <<"complete", "reopen">>}
      BY <2>1 DEF Landing, PastSwitch, PastFence, Deciding, Dead
    <2>3. \A p \in {AfterStop(rec), AfterVerify(rec)} :
             /\ Landing(p, rec) /\ ~PastFence(p) /\ p # Dead
             /\ p \notin {<<"complete", "verify">>, <<"complete", "reopen">>}
      <3>1. AfterStop(rec) # Dead /\ AfterVerify(rec) # Dead
        BY DEF AfterStop, AfterRestore, AfterVerify, Enter, Dead
      <3>2. \A p : Landing(p, rec) => p[1] # "complete"
        BY <2>1 DEF Landing
      <3> QED
        BY <1>1, <2>1, <3>1, <3>2, FlowFence
    <2>4. \E next \in {<<"recover", "stop">>, <<"recover", "start">>, <<"recover", "verify">>,
                       AfterStop(rec), AfterVerify(rec)} :
             Step(next) \/ Step(OnError) \/ Fails
      BY <1>3 DEF RecoverFence, RecoverStop, RecoverAllow, RecoverStart, RecoverVerify
    <2> QED
      BY <1>1, <1>2, <2>1, <2>2, <2>3, <2>4, UnjournalledFence
  <1>4. CASE Revalidate
    <2>1. pc[1] = "revalidate" /\ pc # Dead /\ ~Decided(rec)
      <3>1. pc[1] = "revalidate"
        BY <1>4 DEF Revalidate
      <3> QED
        BY <3>1, NotDead DEF Deciding, FenceIInv, WorkerInv
    <2>2. Enter("prepare") = <<"prepare", "intent">>
      BY DEF Enter, PhaseOps
    <2>3. /\ Landing(Enter("prepare"), rec) /\ ~PastFence(Enter("prepare"))
          /\ Enter("prepare") \notin {Dead, <<"complete", "verify">>, <<"complete", "reopen">>}
      <3> DEFINE p == <<"prepare", "intent">>
      <3>1. Landing(p, rec) /\ ~PastFence(p)
        BY <2>1 DEF Landing, PastSwitch, PastFence, Deciding
      <3>2. p \notin {Dead, <<"complete", "verify">>, <<"complete", "reopen">>}
        BY DEF Dead
      <3> QED
        BY <2>2, <3>1, <3>2
    <2> QED
      BY <1>1, <1>2, <1>4, <2>1, <2>3, UnjournalledFence DEF Revalidate
  <1>5. CASE CompleteVerify
    <2>1. /\ pc # Dead /\ Decided(rec)
          /\ \A r \in journal.disk : Decided(r)
      <3>1. pc[1] = "complete" /\ pc = <<"complete", "verify">>
        BY <1>5 DEF CompleteVerify
      <3> QED
        BY <3>1, NotDead DEF FenceIInv, WorkerInv
    <2>2. /\ Landing(<<"complete", "reopen">>, rec) /\ ~PastFence(<<"complete", "reopen">>)
          /\ <<"complete", "reopen">> # Dead
      BY <2>1 DEF Landing, PastSwitch, PastFence, Deciding, Dead
    <2> QED
      BY <1>1, <1>2, <1>5, <2>1, <2>2, UnjournalledFence DEF CompleteVerify
  <1> QED
    BY <1>3, <1>4, <1>5

\* The two steps that open the fence: nothing was switched, or the decision is
\* on disk whatever the disk holds.
LEMMA ReopenFence ==
    ASSUME TypeIInv, FenceIInv, RecoverReopen \/ CompleteReopen
    PROVE  FenceIInv'
  <1>1. /\ TypeOK /\ rec \in Record /\ pc \in Labels
        /\ journal.vis \in journal.disk
    BY DEF TypeIInv, TypeOK
  <1>2. pc # Dead
    <2>1. pc[1] # "dead"
      BY DEF RecoverReopen, CompleteReopen
    <2> QED
      BY <2>1, NotDead
  <1>3. UNCHANGED journal
    BY DEF RecoverReopen, CompleteReopen, Step, Fails, Killed
  <1>4. \/ \A r \in journal.disk : ~Switched(r)
        \/ \A r \in journal.disk : Decided(r)
    <2>1. CASE RecoverReopen
      BY <1>2, <2>1 DEF RecoverReopen, FenceIInv, WorkerInv, JournalInv
    <2>2. CASE CompleteReopen
      BY <2>2 DEF CompleteReopen, FenceIInv, WorkerInv
    <2> QED
      BY <2>1, <2>2
  <1>5. JournalInv'
    BY <1>3, <1>4 DEF JournalInv, FenceIInv
  <1>6. \/ pc' = Dead
        \/ /\ rec' = rec
           /\ \/ pc' = OnError
              \/ \E s \in {"failed", "rolled_back", "succeeded"} : pc' = <<"finish", s>>
    BY DEF RecoverReopen, CompleteReopen, Step, Fails, Killed
  <1>7. \A s : /\ Landing(<<"finish", s>>, rec) /\ ~PastFence(<<"finish", s>>)
               /\ <<"finish", s>> \notin {<<"complete", "verify">>, <<"complete", "reopen">>}
    BY DEF Landing, PastSwitch, PastFence, Deciding
  <1>8. /\ pc' # Dead => /\ rec' = rec /\ Landing(pc', rec) /\ ~PastFence(pc')
                         /\ pc' \notin {<<"complete", "verify">>, <<"complete", "reopen">>}
    BY <1>1, <1>2, <1>6, <1>7, OnErrorFence
  <1>9. WorkerInv'
    <2>1. CASE pc' = Dead
      BY <2>1, DeadInv
    <2>2. CASE pc' # Dead
      BY <1>2, <1>3, <1>8, <2>2 DEF WorkerInv, FenceIInv, Landing
    <2> QED
      BY <2>1, <2>2
  <1> QED
    BY <1>5, <1>9 DEF FenceIInv

\* Starting, finishing and interrupting a worker keep FenceIInv.
LEMMA LifecycleFence ==
    ASSUME TypeIInv, FenceIInv, RunWorker \/ Finish \/ RecoverCommand \/ WorkerCrash
    PROVE  FenceIInv'
  <1>1. /\ TypeOK /\ rec \in Record /\ pc \in Labels
        /\ journal \in File(Record) /\ journal.vis \in journal.disk
        /\ journal.vis \in Record
    BY DEF TypeIInv, TypeOK, File
  <1>2. CASE RunWorker
    <2> DEFINE r == journal.vis
    <2>1. rec' = r /\ UNCHANGED journal /\ fence' = fence
      BY <1>2 DEF RunWorker, hostVars
    <2>2. (pc' = <<"begin", "">> /\ ~Decided(r)) \/ pc' = RecoverFrom(r)
      BY <1>2 DEF RunWorker, Decided
    <2>3. ~Decided(r) => /\ Landing(<<"begin", "">>, r) /\ ~PastFence(<<"begin", "">>)
                         /\ <<"begin", "">> \notin {<<"complete", "verify">>, <<"complete", "reopen">>}
      BY DEF Landing, PastSwitch, PastFence, Deciding
    <2>4. /\ Landing(pc', r) /\ ~PastFence(pc')
          /\ pc' \notin {<<"complete", "verify">>, <<"complete", "reopen">>}
      BY <1>1, <2>2, <2>3, FlowFence
    <2>5. JournalInv'
      BY <2>1, SamePartsFence DEF FenceIInv, JournalInv
    <2>6. WorkerInv'
      BY <2>1, <2>4 DEF WorkerInv, Landing
    <2> QED
      BY <2>5, <2>6 DEF FenceIInv
  <1>3. CASE Finish
    <2> DEFINE r == [rec EXCEPT !.status = pc[2]]
    <2>1. pc[2] \in {"succeeded", "failed", "rolled_back", "recovery_required"} /\ pc # Dead
      <3>1. pc[1] = "finish"
        BY <1>3 DEF Finish
      <3> QED
        BY <1>1, <3>1, LabelCases, NotDead
    <2>2. r \in Record /\ r.ops = rec.ops /\ r.decision = rec.decision
      BY <1>1, <2>1 DEF Record
    <2>3. /\ Switched(r) <=> Switched(journal.vis)
          /\ Decided(r) <=> Decided(journal.vis)
      BY <2>1, <2>2 DEF Switched, Decided, FenceIInv, WorkerInv
    <2>4. Decided(r) => Switched(r)
      BY <1>1, <2>3 DEF FenceIInv, JournalInv
    <2>5. journal' = Written(r) \/ journal' \in FailedWrites(journal, r)
      BY <1>3 DEF Finish
    <2>6. fence' = fence /\ pc' = Dead
      BY <1>3 DEF Finish, NoHostChange
    <2> HIDE DEF r
    <2>7. JournalInv'
      BY <1>1, <2>2, <2>3, <2>4, <2>5, <2>6, SaveFence DEF FenceIInv
    <2> QED
      BY <2>6, <2>7, DeadInv DEF FenceIInv
  <1>4. CASE RecoverCommand
    <2> DEFINE r == [journal.vis EXCEPT !.status = "running"]
    <2>1. r \in Record /\ r.ops = journal.vis.ops /\ r.decision = journal.vis.decision
      BY <1>1 DEF Record
    <2>2. /\ Switched(r) <=> Switched(journal.vis)
          /\ Decided(r) <=> Decided(journal.vis)
      BY <2>1 DEF Switched, Decided
    <2>3. Decided(r) => Switched(r)
      BY <1>1, <2>2 DEF FenceIInv, JournalInv
    <2>4. journal' = Written(r) \/ journal' \in FailedWrites(journal, r)
      BY <1>4 DEF RecoverCommand
    <2>5. fence' = fence /\ pc' = Dead
      BY <1>4 DEF RecoverCommand, NoHostChange
    <2> HIDE DEF r
    <2>6. JournalInv'
      BY <1>1, <2>1, <2>2, <2>3, <2>4, <2>5, SaveFence DEF FenceIInv
    <2> QED
      BY <2>5, <2>6, DeadInv DEF FenceIInv
  <1>5. CASE WorkerCrash
    <2>1. fence' = fence /\ UNCHANGED journal /\ pc' = Dead
      BY <1>5 DEF WorkerCrash, Killed, NoHostChange
    <2> QED
      BY <1>1, <2>1, SamePartsFence, QuietFence
  <1> QED
    BY <1>2, <1>3, <1>4, <1>5

\* The business application, crashes and power losses keep FenceIInv.
LEMMA SurroundingsFence ==
    ASSUME TypeIInv, FenceIInv, PowerLoss \/ Business \/ UNCHANGED vars
    PROVE  FenceIInv'
  <1>1. /\ TypeOK
        /\ journal \in File(Record) /\ journal.vis \in journal.disk
        /\ fence \in File(Fence) /\ fence.vis \in fence.disk
    BY DEF TypeIInv, TypeOK, HostTypeOK
  <1>2. CASE PowerLoss
    <2>1. fence' \in AfterPowerLoss(fence) /\ journal' \in AfterPowerLoss(journal) /\ pc' = Dead
      BY <1>2 DEF PowerLoss, HostPowerLoss
    <2>2. /\ \E f \in fence.disk : fence' = Written(f)
          /\ \E r \in journal.disk : journal' = Written(r)
      BY <2>1 DEF AfterPowerLoss
    <2>3. PICK f \in fence.disk, r \in journal.disk : fence' = Written(f) /\ journal' = Written(r)
      BY <2>2
    <2>4. fence'.disk = {f} /\ journal'.disk = {r} /\ journal'.vis = r
      BY <2>3 DEF Written
    <2>5. MayBeOpen' => MayBeOpen
      BY <2>4 DEF MayBeOpen
    <2>6. JournalInv'
      BY <2>3, <2>4, <2>5 DEF FenceIInv, JournalInv
    <2> QED
      BY <2>1, <2>6, DeadInv DEF FenceIInv
  <1>3. CASE Business \/ UNCHANGED vars
    <2>1. fence' = fence /\ UNCHANGED <<pc, rec, journal>>
      BY <1>3 DEF Business, vars, hostVars, AdmitRequest, CompleteRequest, ApplicationStart,
                  ApplicationCrash
    <2>2. MayBeOpen' <=> MayBeOpen
      BY <2>1, SamePartsFence
    <2> QED
      BY <2>1, <2>2 DEF FenceIInv, JournalInv, WorkerInv
  <1> QED
    BY <1>2, <1>3

\* FenceIInv is inductive relative to TypeIInv.
LEMMA FenceStep == TypeIInv /\ FenceIInv /\ [Next]_vars => FenceIInv'
  <1> SUFFICES ASSUME TypeIInv, FenceIInv, [Next]_vars PROVE FenceIInv'
    OBVIOUS
  <1>1. CASE WorkerStep
    BY <1>1, SaveActionsFence, ActFence, RecoverFencePart, ReopenFence, LifecycleFence
       DEF WorkerStep
  <1>2. CASE RunWorker \/ RecoverCommand \/ WorkerCrash
    BY <1>2, LifecycleFence
  <1>3. CASE PowerLoss \/ Business \/ UNCHANGED vars
    BY <1>3, SurroundingsFence
  <1> QED
    BY <1>1, <1>2, <1>3 DEF Next

\* A queued job with the fence open satisfies FenceIInv.
LEMMA FenceInit == Init => FenceIInv
  <1> SUFFICES ASSUME Init PROVE FenceIInv
    OBVIOUS
  <1>1. journal.vis = Queued /\ journal.disk = {Queued} /\ pc = Dead
    BY DEF Init, Written
  <1>2. ~Switched(Queued) /\ ~Decided(Queued)
    BY DEF Queued, Switched, Decided, Ops, ForwardOps
  <1>3. WorkerInv
    BY <1>1, DeadFacts DEF WorkerInv
  <1> QED
    BY <1>1, <1>2, <1>3 DEF FenceIInv, JournalInv

\* Both invariants hold throughout.
LEMMA IInv == Spec => [](TypeIInv /\ FenceIInv)
  <1>1. Init => TypeIInv /\ FenceIInv
    BY InitType, FlowRestoreDead, FenceInit DEF Init, TypeIInv
  <1>2. TypeIInv /\ FenceIInv /\ [Next]_vars => (TypeIInv /\ FenceIInv)'
    BY TypeStep, FenceStep
  <1> QED
    BY <1>1, <1>2, PTL DEF Spec

\* Whatever fails or loses power, once a switch may have begun the fence is
\* open, or can come back open, only under a decision no power loss can undo.
THEOREM FenceSafe == Spec => []ReopenedOnlyWhenDecided
  <1>1. TypeIInv /\ FenceIInv => ReopenedOnlyWhenDecided
    <2> SUFFICES ASSUME TypeIInv, FenceIInv PROVE ReopenedOnlyWhenDecided
      OBVIOUS
    <2>1. journal.vis \in journal.disk
      BY DEF TypeIInv, TypeOK
    <2> QED
      BY <2>1 DEF FenceIInv, JournalInv, MayBeOpen, Decided, ReopenedOnlyWhenDecided
  <1> QED
    BY <1>1, IInv, PTL

\* A record that carries the decision that can be read is saved, or half saved.
SavesAgain == \E r \in Record :
                 /\ r.decision = journal.vis.decision
                 /\ journal' = Written(r) \/ journal' \in FailedWrites(journal, r)

\* A step saves a record with the decision that can be read, takes a decision,
\* or leaves the file alone but for a loss of power.
LEMMA JournalSaves ==
    ASSUME TypeIInv, FenceIInv, [Next]_vars
    PROVE  Decide \/ PowerLoss \/ SavesAgain \/ UNCHANGED journal
  <1>1. rec \in Record /\ pc \in Labels /\ journal.vis \in Record
    BY DEF TypeIInv, TypeOK, File
  <1>2. pc # Dead => rec.decision = journal.vis.decision
    BY DEF FenceIInv, WorkerInv
  <1> DEFINE Saved(r) == journal' = Written(r) \/ journal' \in FailedWrites(journal, r)
  <1>3. CASE Begin
    <2> DEFINE r == [rec EXCEPT !.status = "running"]
    <2>1. pc # Dead /\ r \in Record /\ r.decision = rec.decision
      BY <1>1, <1>3 DEF Begin, Dead, Record
    <2>2. Saved(r)
      BY <1>3 DEF Begin, SaveJob
    <2> HIDE DEF r
    <2> QED
      BY <1>2, <2>1, <2>2 DEF SavesAgain
  <1>4. CASE SavePhase
    <2> DEFINE r == [rec EXCEPT !.phase = PhaseOf[pc[1]]]
    <2>1. pc[1] \in PhaseOps /\ Saved(r)
      BY <1>4 DEF SavePhase, SaveJob
    <2>2. pc # Dead /\ r \in Record /\ r.decision = rec.decision
      BY <1>1, <2>1, NotDead DEF Record, PhaseOf, PhaseOps
    <2> HIDE DEF r
    <2> QED
      BY <1>2, <2>1, <2>2 DEF SavesAgain
  <1>5. CASE SaveIntent \/ SaveDone
    <2>1. PICK s \in {"intent", "done"} : Saved([rec EXCEPT !.ops[pc[1]] = s])
      BY <1>5 DEF SaveIntent, SaveDone, SaveJob
    <2> DEFINE r == [rec EXCEPT !.ops[pc[1]] = s]
    <2>2. pc[1] \in Ops /\ Saved(r)
      BY <1>5, <2>1 DEF SaveIntent, SaveDone
    <2>3. r \in Record /\ r.decision = rec.decision
      BY <1>1 DEF Record
    <2>4. pc # Dead
      BY <2>2, NotDead DEF Ops, ForwardOps, RestoreOps
    <2> HIDE DEF r
    <2> QED
      BY <1>2, <2>2, <2>3, <2>4 DEF SavesAgain
  <1>6. CASE CompleteSave
    <2>1. pc # Dead /\ Saved(rec)
      BY <1>6 DEF CompleteSave, SaveJob, Dead
    <2> QED
      BY <1>1, <1>2, <2>1 DEF SavesAgain
  <1>7. CASE Finish
    <2> DEFINE r == [rec EXCEPT !.status = pc[2]]
    <2>1. pc[1] = "finish" /\ Saved(r)
      BY <1>7 DEF Finish
    <2>2. pc[2] \in {"succeeded", "failed", "rolled_back", "recovery_required"} /\ pc # Dead
      BY <1>1, <2>1, LabelCases, NotDead
    <2>3. r \in Record /\ r.decision = rec.decision
      BY <1>1, <2>2 DEF Record
    <2> HIDE DEF r
    <2> QED
      BY <1>2, <2>1, <2>2, <2>3 DEF SavesAgain
  <1>8. CASE RecoverCommand
    <2> DEFINE r == [journal.vis EXCEPT !.status = "running"]
    <2>1. r \in Record /\ r.decision = journal.vis.decision
      BY <1>1 DEF Record
    <2>2. Saved(r)
      BY <1>8 DEF RecoverCommand
    <2> HIDE DEF r
    <2> QED
      BY <2>1, <2>2 DEF SavesAgain
  <1>9. \/ Begin \/ SavePhase \/ SaveIntent \/ SaveDone \/ Decide
        \/ CompleteSave \/ Finish \/ RecoverCommand \/ PowerLoss \/ UNCHANGED journal
    BY DEF Next, WorkerStep, vars, RunWorker, WorkerCrash, Business, Revalidate, Act, ActFails,
           RecoverFence, RecoverStop, RecoverAllow, RecoverStart, RecoverVerify, RecoverReopen,
           CompleteVerify, CompleteReopen, Step, Fails, Killed
  <1> QED
    BY <1>3, <1>4, <1>5, <1>6, <1>7, <1>8, <1>9

\* A step from a state in which every possible disk content carries the
\* decision d ends in one: the worker only decides when nothing is decided.
LEMMA DecisionStep ==
    ASSUME TypeIInv, FenceIInv, [Next]_vars,
           NEW d \in {"commit_decided", "restore_decided"},
           \A r \in journal.disk : r.decision = d
    PROVE  \A r \in journal'.disk : r.decision = d
  <1>1. /\ journal \in File(Record) /\ journal.vis \in journal.disk
        /\ journal.vis.decision = d
    BY DEF TypeIInv, TypeOK
  <1>2. ~Decide
    <2> SUFFICES ASSUME Decide PROVE FALSE
      OBVIOUS
    <2>1. pc[1] = "decide" /\ pc # Dead
      BY NotDead DEF Decide
    <2> QED
      BY <1>1, <2>1 DEF FenceIInv, WorkerInv, Deciding, Decided
  <1>3. CASE PowerLoss
    <2>1. PICK r \in journal.disk : journal' = Written(r)
      BY <1>3 DEF PowerLoss, AfterPowerLoss
    <2> QED
      BY <2>1 DEF Written
  <1>4. CASE SavesAgain
    <2>1. PICK r \in Record : /\ r.decision = d
                              /\ journal' = Written(r) \/ journal' \in FailedWrites(journal, r)
      BY <1>1, <1>4 DEF SavesAgain
    <2>2. journal'.disk \subseteq journal.disk \union {r}
      BY <1>1, <2>1, WriteType
    <2> QED
      BY <2>1, <2>2
  <1>5. CASE UNCHANGED journal
    BY <1>5
  <1> QED
    BY <1>2, <1>3, <1>4, <1>5, JournalSaves

\* A decision every possible content of the job file carries is never taken
\* back or replaced, by no retry, crash, power loss or recover command.
THEOREM DecisionIsFinal == Spec => DecisionFinal
  <1>1. TypeIInv /\ FenceIInv /\ [Next]_vars
           => [\A d \in {"commit_decided", "restore_decided"} :
                 (\A r \in journal.disk : r.decision = d)
                    => (\A r \in journal'.disk : r.decision = d)]_vars
    BY DecisionStep
  <1> QED
    BY <1>1, IInv, PTL DEF Spec, DecisionFinal
(***************************************************************************)
(* The installation and the outcome.                                       *)
(***************************************************************************)

\* The deployed files, the helper and the record are those of one release.
AllOld == /\ \A c \in Components : links[c] = "old"
          /\ helper = "old"
          /\ install = "old"

OnTarget == \A c \in Components : links[c] = Target(c, FALSE)

AllNew == OnTarget /\ helper = Target("backend", FALSE) /\ install = "new"

AllStopped == \A c \in Components : run[c] = "none"

\* Nothing can start, now or after a power loss.
StartBarred == \A f \in fence.disk : f = Closed

\* Whoever starts finds data it can work on.
DataFit == links["backend"] = "old" => data.schema = "old"

\* The host, whatever the worker does: no acknowledged write is missing, what
\* runs is what is deployed, who serves has migrated, only who serves works on
\* requests, and the old release does not start on migrated data.
HostInv ==
    /\ data.writes = acked
    /\ \A c \in Components : run[c] \in {"none", links[c]}
    /\ serving => run["backend"] # "none" /\ data.schema = run["backend"]
    /\ inflight > 0 => serving
    /\ "backend" \notin Changed => helper = "old"
    /\ DataFit \/ StartBarred

\* What the data are when the backup is taken, and again after a restore.
Restorable == [schema |-> "old", writes |-> acked]

\* A record a worker may start from is consistent,
StatusOK(r) ==
    /\ r.status = "queued" => r.ops["restore_data"] = "none" /\ ~Decided(r) /\ ~Switched(r)
    /\ r.status = "succeeded" => r.decision = "commit_decided"
    /\ r.status = "rolled_back" => r.decision = "restore_decided"
    /\ r.status = "failed" => ~Switched(r)
    /\ Switched(r) => Fenced(r)

\* and what it tells of the host is true.
TrueOfHost(r) ==
    /\ ~Switched(r) => AllOld /\ data.schema = "old"
    /\ Switched(r) /\ ~Decided(r) => inflight = 0 /\ r.snapshot = Restorable
    /\ r.ops["restore_data"] # "none" => AllOld
    /\ r.ops["restore_data"] = "done" => data.schema = "old"
    /\ r.decision = "commit_decided" => AllNew /\ data.schema = Target("backend", FALSE)
    /\ r.decision = "restore_decided" => AllOld /\ data.schema = "old"

Describes(r) == StatusOK(r) /\ TrueOfHost(r)

\* The forward path, and its part before the switch is journalled.
OnForward(p) == p[1] \in ForwardOps \union {"begin", "revalidate"}
BeforeSwitch(p) ==
    \/ p[1] \in {"begin", "revalidate", "prepare", "fence", "stop", "backup"}
    \/ p \in {<<"switch", "phase">>, <<"switch", "intent">>}

\* The fence is journalled, the switch is not done.
FenceBegun(p) == \/ p \in {<<"fence", "act">>, <<"fence", "done">>}
                 \/ p[1] \in {"stop", "backup", "switch"}

\* The snapshot is taken, the switch is not journalled.
PastBackup(p) == p \in {<<"backup", "done">>, <<"switch", "phase">>, <<"switch", "intent">>}

\* The data are restored, if anything was switched.
PastRestore(p) == p \in {<<"recover", "allow">>, <<"recover", "start">>,
                         <<"recover", "verify">>, <<"decide", "restore_decided">>}

\* What being at p tells about the record r in memory,
MemoryOK(p, r) ==
    /\ p[1] \notin {"dead", "begin"} => r.status = "running"
    /\ p[1] = "begin" => r.status = "queued"
    /\ OnForward(p) => r.ops["restore_data"] = "none"
    /\ BeforeSwitch(p) => ~Switched(r)
    /\ FenceBegun(p) => Fenced(r)
    /\ PastRestore(p) /\ Switched(r) => r.ops["restore_data"] = "done"
    /\ p[1] = "restore_data" => r.ops["restore_data"] # "done"
    /\ p = <<"finish", "succeeded">> => r.decision = "commit_decided"
    /\ p = <<"finish", "rolled_back">> => r.decision = "restore_decided"
    /\ p = <<"finish", "failed">> => ~Switched(r)

\* The applications are stopped and not started again,
PastStop(p) == \/ p = <<"stop", "done">>
               \/ p[1] \in {"backup", "switch", "restore_deployment", "restore_data"}
               \/ p \in {<<"validation_start", "intent">>, <<"validation_start", "act">>}

\* every start is barred for a recovery,
PastBar(p) == p = <<"recover", "stop">> \/ p[1] \in RestoreOps

\* the switch is about to begin, or the old release is deployed again,
AtOld(p) == p \in {<<"switch", "act">>, <<"restore_deployment", "done">>}
            \/ p[1] = "restore_data"

\* the data are those of the old release,
AtOldData(p) == p \in {<<"switch", "act">>, <<"switch", "done">>,
                       <<"validation_start", "intent">>, <<"validation_start", "act">>,
                       <<"restore_data", "done">>}

\* and the steps of the forward path are done, one after the other.
PersistDone(p) == p \in {<<"persist_installation", "done">>, <<"decide", "commit_decided">>}
HelperDone(p)  == p = <<"helper", "done">> \/ p[1] = "persist_installation" \/ PersistDone(p)
VerifyDone(p)  == p = <<"verify", "done">> \/ p[1] = "helper" \/ HelperDone(p)
SwitchDone(p)  == \/ p = <<"switch", "done">> \/ p[1] \in {"validation_start", "verify"}
                  \/ VerifyDone(p)

\* and about the host.
ArrivedOK(p, r) ==
    /\ PastBackup(p) => r.snapshot = Restorable
    /\ PastStop(p) => AllStopped
    /\ PastBar(p) => StartBarred
    /\ AtOld(p) => AllOld
    /\ AtOldData(p) => data.schema = "old"
    /\ SwitchDone(p) => OnTarget
    /\ VerifyDone(p) => data.schema = Target("backend", FALSE)
    /\ HelperDone(p) => helper = Target("backend", FALSE)
    /\ PersistDone(p) => install = "new"

WorkerAt ==
    pc # Dead => /\ Describes(rec)
                 /\ MemoryOK(pc, rec)
                 /\ ArrivedOK(pc, rec)
                 /\ pc[2] = "act" => journal.disk = {rec}

FilesDescribe == \A r \in journal.disk : Describes(r)

\* Only one decision is ever among the possible contents of the job file.
OneDecision == \A r \in journal.disk : Decided(r) => r.decision = journal.vis.decision

OutcomeIInv == HostInv /\ FilesDescribe /\ OneDecision /\ WorkerAt

\* A point that tells nothing about the host.
Bare(p) == /\ ~PastBackup(p) /\ ~PastStop(p) /\ ~PastBar(p) /\ ~AtOld(p) /\ ~AtOldData(p)
           /\ ~SwitchDone(p) /\ ~VerifyDone(p) /\ ~HelperDone(p) /\ ~PersistDone(p)

\* Nothing about the host has to be shown there.
LEMMA BareArrived ==
    ASSUME NEW p, NEW r, Bare(p)
    PROVE  ArrivedOK(p, r) /\ ArrivedOK(p, r)'
  BY DEF Bare, ArrivedOK

\* The points outside the journal, but for the one where everything is stopped.
LEMMA BarePoints ==
    /\ \A s \in {"fence", "allow", "start", "verify", "reopen"} :
          Bare(<<"recover", s>>) /\ <<"recover", s>>[2] # "act"
    /\ \A s \in {"save", "verify", "reopen"} :
          Bare(<<"complete", s>>) /\ <<"complete", s>>[2] # "act"
    /\ \A s \in {"succeeded", "failed", "rolled_back", "recovery_required"} :
          Bare(<<"finish", s>>) /\ <<"finish", s>>[2] # "act"
    /\ Bare(<<"decide", "restore_decided">>) /\ <<"decide", "restore_decided">>[2] # "act"
    /\ Bare(<<"begin", "">>) /\ <<"begin", "">>[2] # "act"
    /\ Bare(<<"revalidate", "">>) /\ <<"revalidate", "">>[2] # "act"
  BY DEF Bare, PastBackup, PastStop, PastBar, AtOld, AtOldData, SwitchDone, VerifyDone,
         HelperDone, PersistDone, RestoreOps

\* What the record in memory must tell there.
LEMMA MemoryPoints ==
    ASSUME NEW r, r.status = "running"
    PROVE  /\ MemoryOK(<<"recover", "fence">>, r) /\ MemoryOK(<<"recover", "stop">>, r)
           /\ MemoryOK(<<"recover", "reopen">>, r)
           /\ MemoryOK(<<"finish", "recovery_required">>, r)
           /\ \A s \in {"save", "verify", "reopen"} : MemoryOK(<<"complete", s>>, r)
           /\ (Switched(r) => r.ops["restore_data"] = "done") =>
                 /\ \A s \in {"allow", "start", "verify"} : MemoryOK(<<"recover", s>>, r)
                 /\ MemoryOK(<<"decide", "restore_decided">>, r)
           /\ r.decision = "commit_decided" => MemoryOK(<<"finish", "succeeded">>, r)
           /\ r.decision = "restore_decided" => MemoryOK(<<"finish", "rolled_back">>, r)
           /\ ~Switched(r) => MemoryOK(<<"finish", "failed">>, r)
  BY DEF MemoryOK, OnForward, ForwardOps, BeforeSwitch, FenceBegun, PastRestore

\* Where recovery goes once the data are restored, or were never touched.
LEMMA FlowRestored ==
    ASSUME NEW r, r.status = "running", Switched(r) => r.ops["restore_data"] = "done"
    PROVE  /\ MemoryOK(AfterVerify(r), r) /\ Bare(AfterVerify(r)) /\ AfterVerify(r)[2] # "act"
           /\ MemoryOK(AfterRestore(r), r) /\ Bare(AfterRestore(r)) /\ AfterRestore(r)[2] # "act"
  <1>1. MemoryOK(AfterVerify(r), r) /\ Bare(AfterVerify(r)) /\ AfterVerify(r)[2] # "act"
    BY MemoryPoints, BarePoints DEF AfterVerify
  <1>2. MemoryOK(AfterRestore(r), r) /\ Bare(AfterRestore(r)) /\ AfterRestore(r)[2] # "act"
    BY <1>1, MemoryPoints, BarePoints DEF AfterRestore
  <1> QED
    BY <1>1, <1>2

\* Where a worker goes that starts with the record, or runs into an exception.
LEMMA FlowBack ==
    ASSUME NEW r, r.status = "running", StatusOK(r)
    PROVE  /\ MemoryOK(RecoverFrom(r), r) /\ Bare(RecoverFrom(r)) /\ RecoverFrom(r)[2] # "act"
           /\ MemoryOK(RecoveryRequired, r) /\ Bare(RecoveryRequired)
           /\ RecoveryRequired[2] # "act"
  <1>1. MemoryOK(RecoveryRequired, r) /\ Bare(RecoveryRequired) /\ RecoveryRequired[2] # "act"
    BY MemoryPoints, BarePoints DEF RecoveryRequired
  <1>2. CASE Decided(r)
    BY <1>1, <1>2, MemoryPoints, BarePoints DEF RecoverFrom, Decided
  <1>3. CASE ~Decided(r) /\ Fenced(r)
    BY <1>1, <1>3, MemoryPoints, BarePoints DEF RecoverFrom, Decided
  <1>4. CASE ~Decided(r) /\ ~Fenced(r)
    <2>1. ~Switched(r)
      BY <1>4 DEF StatusOK
    <2>2. RecoverFrom(r) = AfterRestore(r)
      BY <1>4, <2>1 DEF RecoverFrom, AfterStop, Decided
    <2> QED
      BY <1>1, <2>1, <2>2, FlowRestored
  <1> QED
    BY <1>2, <1>3, <1>4

\* Where recovery goes once everything is stopped.
LEMMA FlowStopped ==
    ASSUME NEW r, r.status = "running"
    PROVE  /\ MemoryOK(AfterStop(r), r) /\ AfterStop(r)[2] # "act"
           /\ Bare(AfterStop(r)) \/ AfterStop(r) = <<"restore_deployment", "phase">>
  <1>1. CASE Switched(r)
    <2>1. AfterStop(r) = <<"restore_deployment", "phase">>
      BY <1>1 DEF AfterStop, Enter, PhaseOps
    <2> DEFINE p == <<"restore_deployment", "phase">>
    <2>2. MemoryOK(p, r)
      BY DEF MemoryOK, OnForward, ForwardOps, BeforeSwitch, FenceBegun, PastRestore
    <2> QED
      BY <2>1, <2>2
  <1>2. CASE ~Switched(r)
    BY <1>2, FlowRestored DEF AfterStop
  <1> QED
    BY <1>1, <1>2

\* A record tells the same of a host that did not change.
LEMMA SameHost ==
    ASSUME NoHostChange
    PROVE  /\ HostInv => HostInv'
           /\ \A r : Describes(r) => Describes(r)'
           /\ \A p, r : ArrivedOK(p, r) => ArrivedOK(p, r)'
  <1>1. HostInv => HostInv'
    BY DEF NoHostChange, HostInv, DataFit, StartBarred
  <1>2. ASSUME NEW r, Describes(r) PROVE Describes(r)'
    BY <1>2 DEF NoHostChange, Describes, TrueOfHost, AllOld, AllNew, OnTarget, Restorable
  <1>3. ASSUME NEW p, NEW r, ArrivedOK(p, r) PROVE ArrivedOK(p, r)'
    BY <1>3 DEF NoHostChange, ArrivedOK, AllOld, OnTarget, Restorable, AllStopped, StartBarred
  <1> QED
    BY <1>1, <1>2, <1>3

\* The records a power loss may bring back after a save, and their decision.
LEMMA SaveFiles ==
    ASSUME TypeOK, FenceIInv, OneDecision, NEW r \in Record,
           journal' = Written(r) \/ journal' \in FailedWrites(journal, r),
           r.decision = journal.vis.decision \/ ~Decided(journal.vis)
    PROVE  OneDecision' /\ journal'.disk \subseteq journal.disk \union {r}
  <1>1. /\ journal \in File(Record) /\ journal.vis \in journal.disk
        /\ journal.vis \in Record
    BY DEF TypeOK, File
  <1>2. /\ journal'.disk \subseteq journal.disk \union {r}
        /\ journal'.vis = r \/ journal' = journal
    BY <1>1, WriteType
  <1>3. CASE journal' = journal
    BY <1>2, <1>3 DEF OneDecision
  <1>4. CASE journal'.vis = r /\ r.decision = journal.vis.decision
    BY <1>2, <1>4 DEF OneDecision
  <1>5. CASE journal'.vis = r /\ ~Decided(journal.vis)
    <2>1. \A q \in journal.disk : ~Decided(q)
      BY <1>5 DEF OneDecision, Decided
    <2> QED
      BY <1>2, <1>5, <2>1 DEF OneDecision
  <1> QED
    BY <1>2, <1>3, <1>4, <1>5

\* saveJob, when the new record is true and the worker may go where it goes.
LEMMA SaveJobOutcome ==
    ASSUME TypeOK, FenceIInv, OutcomeIInv, pc # Dead, NoHostChange,
           NEW r \in Record, NEW next, SaveJob(r, next),
           Describes(r), MemoryOK(next, r), ArrivedOK(next, r),
           r.decision = rec.decision \/ ~Decided(rec)
    PROVE  OutcomeIInv'
  <1>1. journal' = Written(r) \/ journal' \in FailedWrites(journal, r)
    BY DEF SaveJob
  <1>2. r.decision = journal.vis.decision \/ ~Decided(journal.vis)
    BY DEF FenceIInv, WorkerInv, Decided
  <1>3. OneDecision' /\ journal'.disk \subseteq journal.disk \union {r}
    BY <1>1, <1>2, SaveFiles DEF OutcomeIInv
  <1>4. HostInv' /\ FilesDescribe'
    BY <1>3, SameHost DEF OutcomeIInv, FilesDescribe
  <1>5. WorkerAt'
    <2>1. CASE journal' = Written(r) /\ rec' = r /\ pc' = next
      <3>1. journal'.disk = {r}
        BY <2>1 DEF Written
      <3>2. Describes(r)' /\ ArrivedOK(next, r)'
        BY SameHost
      <3>3. Describes(rec)'
        BY <2>1, <3>2 DEF Describes, TrueOfHost, StatusOK
      <3>5. ArrivedOK(pc, rec)'
        BY <2>1, <3>2 DEF ArrivedOK
      <3>4. MemoryOK(pc, rec)'
        BY <2>1
      <3> QED
        BY <2>1, <3>1, <3>3, <3>4, <3>5 DEF WorkerAt
    <2>2. CASE pc' = Dead
      BY <2>2 DEF WorkerAt
    <2> QED
      BY <2>1, <2>2 DEF SaveJob
  <1> QED
    BY <1>3, <1>4, <1>5 DEF OutcomeIInv

\* All that is known of the worker and its host together.
UpdateIInv == TypeIInv /\ FenceIInv /\ OutcomeIInv

\* No worker process is at one point only.
LEMMA DeadLabel ==
    ASSUME NEW p \in Labels, p # Dead
    PROVE  p[1] # "dead"
  <1>1. \A op \in Ops : op # "dead"
    BY DEF Ops, ForwardOps, RestoreOps
  <1>2. \A op \in PhaseOps : op # "dead"
    BY DEF PhaseOps
  <1>3. CASE p \in {"dead", "begin", "revalidate"} \X {""}
    BY <1>3, LabelPair DEF Dead
  <1>4. CASE p \in (Ops \X {"intent", "act", "done"}) \union (PhaseOps \X {"phase"})
    BY <1>1, <1>2, <1>4
  <1>5. CASE p[1] \in {"decide", "recover", "complete", "finish"}
    BY <1>5
  <1> QED
    BY <1>3, <1>4, <1>5 DEF Labels

\* What is known wherever a worker is.
LEMMA Alive ==
    ASSUME UpdateIInv, pc # Dead
    PROVE  /\ TypeOK /\ rec \in Record /\ pc \in Labels
           /\ FenceIInv /\ OutcomeIInv /\ HostInv /\ FilesDescribe /\ OneDecision
           /\ Describes(rec) /\ StatusOK(rec) /\ TrueOfHost(rec)
           /\ MemoryOK(pc, rec) /\ ArrivedOK(pc, rec)
           /\ pc[2] = "act" => journal.disk = {rec}
           /\ pc[1] \notin {"dead", "begin"} => rec.status = "running"
           /\ Deciding(pc) => ~Decided(rec)
  BY DEF UpdateIInv, TypeIInv, TypeOK, OutcomeIInv, WorkerAt, Describes, MemoryOK, FenceIInv,
         WorkerInv

\* A record that differs in its phase, or is not queued and not finished, tells the same.
LEMMA SameRecord ==
    ASSUME NEW r, NEW q, q.ops = r.ops, q.decision = r.decision, q.snapshot = r.snapshot,
           q.status \in {r.status, "running", "recovery_required"}
    PROVE  Describes(r) => Describes(q)
  <1> SUFFICES ASSUME Describes(r) PROVE Describes(q)
    OBVIOUS
  <1>1. (Switched(q) <=> Switched(r)) /\ (Fenced(q) <=> Fenced(r)) /\ (Decided(q) <=> Decided(r))
    BY DEF Switched, Fenced, Decided
  <1>2. StatusOK(q)
    BY <1>1 DEF Describes, StatusOK
  <1>3. TrueOfHost(q)
    BY <1>1 DEF Describes, TrueOfHost
  <1> QED
    BY <1>2, <1>3 DEF Describes

\* Where nothing runs, no request is in work.
LEMMA StoppedIdle ==
    ASSUME TypeOK, HostInv, AllStopped
    PROVE  ~serving /\ inflight = 0
  BY DEF TypeOK, HostTypeOK, HostInv, AllStopped, Components

\* The first save of a worker marks the job as running.
LEMMA BeginOutcome ==
    ASSUME UpdateIInv, Begin
    PROVE  OutcomeIInv'
  <1> DEFINE r == [rec EXCEPT !.status = "running"]
  <1>1. pc = <<"begin", "">> /\ pc # Dead
    BY DEF Begin, Dead
  <1>2. /\ r \in Record /\ r.ops = rec.ops /\ r.decision = rec.decision
        /\ r.snapshot = rec.snapshot /\ r.status = "running"
    BY <1>1, Alive DEF Record
  <1>3. SaveJob(r, <<"revalidate", "">>) /\ NoHostChange
    BY DEF Begin
  <1>4. MemoryOK(<<"revalidate", "">>, r)
    <2>1. ~Switched(rec) /\ rec.ops["restore_data"] = "none"
      BY <1>1, Alive DEF MemoryOK, BeforeSwitch, OnForward
    <2>2. ~Switched(r)
      BY <1>2, <2>1 DEF Switched
    <2> QED
      BY <1>2, <2>1, <2>2 DEF MemoryOK, OnForward, ForwardOps, BeforeSwitch, FenceBegun, PastRestore
  <1> HIDE DEF r
  <1>5. Describes(r)
    BY <1>1, <1>2, Alive, SameRecord
  <1> QED
    BY <1>1, <1>2, <1>3, <1>4, <1>5, Alive, BarePoints, BareArrived, SaveJobOutcome

\* Where a phase leads, the same is known as before it.
LEMMA PhaseArrives ==
    ASSUME NEW op \in PhaseOps, NEW r, NEW q, q.ops = r.ops, q.snapshot = r.snapshot,
           q.decision = r.decision, q.status = r.status
    PROVE  /\ MemoryOK(<<op, "phase">>, r) => MemoryOK(<<op, "intent">>, q)
           /\ ArrivedOK(<<op, "phase">>, r) => ArrivedOK(<<op, "intent">>, q)
  <1>1. (Switched(q) <=> Switched(r)) /\ (Fenced(q) <=> Fenced(r))
    BY DEF Switched, Fenced
  <1>2. MemoryOK(<<op, "phase">>, r) => MemoryOK(<<op, "intent">>, q)
    BY <1>1 DEF MemoryOK, OnForward, ForwardOps, BeforeSwitch, FenceBegun, PastRestore, PhaseOps
  <1>3. ArrivedOK(<<op, "phase">>, r) => ArrivedOK(<<op, "intent">>, q)
    BY DEF ArrivedOK, PastBackup, PastStop, PastBar, AtOld, AtOldData, SwitchDone, VerifyDone,
           HelperDone, PersistDone, PhaseOps
  <1> QED
    BY <1>2, <1>3

\* Saving the phase keeps OutcomeIInv.
LEMMA SavePhaseOutcome ==
    ASSUME UpdateIInv, SavePhase
    PROVE  OutcomeIInv'
  <1> DEFINE r == [rec EXCEPT !.phase = PhaseOf[pc[1]]]
             next == IF pc[1] = "restore_deployment" /\ RestoreUncertain(r)
                     THEN RecoveryRequired ELSE <<pc[1], "intent">>
  <1>1. pc[1] \in PhaseOps /\ pc[2] = "phase" /\ pc[1] \notin {"dead", "begin"}
    BY DEF SavePhase, PhaseOps
  <1>2. pc # Dead
    BY <1>1, NotDead
  <1>3. rec \in Record /\ pc = <<pc[1], "phase">>
    BY <1>1, <1>2, Alive, LabelPair
  <1>4. /\ r \in Record /\ r.ops = rec.ops /\ r.decision = rec.decision
        /\ r.snapshot = rec.snapshot /\ r.status = rec.status /\ rec.status = "running"
    BY <1>1, <1>2, Alive DEF Record, PhaseOf, PhaseOps
  <1>5. SaveJob(r, next) /\ NoHostChange
    BY DEF SavePhase
  <1>6. Describes(r)
    <2> HIDE DEF r
    <2> QED
      BY <1>2, <1>4, Alive, SameRecord
  <1>7. MemoryOK(next, r) /\ ArrivedOK(next, r)
    <2> HIDE DEF r
    <2>1. MemoryOK(RecoveryRequired, r) /\ ArrivedOK(RecoveryRequired, r)
      BY <1>4, <1>6, FlowBack, BareArrived DEF Describes
    <2>2. MemoryOK(<<pc[1], "intent">>, r) /\ ArrivedOK(<<pc[1], "intent">>, r)
      <3>1. MemoryOK(<<pc[1], "phase">>, rec) /\ ArrivedOK(<<pc[1], "phase">>, rec)
        BY <1>2, <1>3, Alive
      <3> QED
        BY <1>1, <1>4, <3>1, PhaseArrives
    <2> QED
      BY <2>1, <2>2
  <1> HIDE DEF r, next
  <1> QED
    BY <1>2, <1>4, <1>5, <1>6, <1>7, Alive, SaveJobOutcome

\* Once an intent is journalled, the record is true: a switch is only begun on
\* the old release, with its snapshot taken and nothing running.
LEMMA IntentDescribes ==
    ASSUME UpdateIInv, pc # Dead, NEW op \in Ops, pc = <<op, "intent">>,
           NEW r \in Record, r.ops = [rec.ops EXCEPT ![op] = "intent"],
           r.decision = rec.decision, r.snapshot = rec.snapshot, r.status = rec.status
    PROVE  /\ Describes(r)
           /\ op = "switch" => AllOld /\ data.schema = "old"
           /\ Switched(r) <=> Switched(rec) \/ op = "switch"
           /\ Fenced(r) <=> Fenced(rec) \/ op = "fence"
  <1>0. /\ rec \in Record /\ rec.ops \in [Ops -> {"none", "intent", "done"}]
        /\ Describes(rec) /\ MemoryOK(pc, rec) /\ ArrivedOK(pc, rec)
        /\ rec.status = "running" /\ ~Decided(rec)
    <2>1. pc[1] = op /\ op \notin {"dead", "begin", "complete", "finish"}
      BY DEF Ops, ForwardOps, RestoreOps
    <2>2. rec \in Record
      BY Alive
    <2> QED
      BY <2>1, <2>2, Alive DEF Deciding, Record
  <1>1. Switched(r) <=> Switched(rec) \/ op = "switch"
    BY <1>0 DEF Switched, Ops, ForwardOps
  <1>2. Fenced(r) <=> Fenced(rec) \/ op = "fence"
    BY <1>0 DEF Fenced, Ops, ForwardOps
  <1>3. op # "restore_data" => r.ops["restore_data"] = rec.ops["restore_data"]
    BY <1>0 DEF Ops, RestoreOps
  <1>4. op = "restore_data" => r.ops["restore_data"] = "intent"
    BY <1>0
  <1>5. ~Decided(r)
    BY <1>0 DEF Decided
  <1>6. op = "switch" => /\ ~Switched(rec) /\ Fenced(rec) /\ AllOld /\ data.schema = "old"
                         /\ AllStopped /\ rec.snapshot = Restorable
    BY <1>0 DEF MemoryOK, BeforeSwitch, FenceBegun, ArrivedOK, PastBackup, PastStop, Describes,
                TrueOfHost
  <1>7. StatusOK(r)
    BY <1>0, <1>1, <1>2, <1>6 DEF Describes, StatusOK
  <1>8. TrueOfHost(r)
    <2>1. ~Switched(r) => AllOld /\ data.schema = "old"
      BY <1>0, <1>1 DEF Describes, TrueOfHost
    <2>2. Switched(r) => inflight = 0 /\ r.snapshot = Restorable
      <3>1. CASE op = "switch"
        BY <3>1, <1>6, Alive, StoppedIdle
      <3>2. CASE op # "switch"
        BY <3>2, <1>0, <1>1 DEF Describes, TrueOfHost
      <3> QED
        BY <3>1, <3>2
    <2>3. r.ops["restore_data"] # "none" => AllOld
      BY <1>0, <1>3 DEF Describes, TrueOfHost, ArrivedOK, AtOld
    <2>4. r.ops["restore_data"] = "done" => data.schema = "old"
      BY <1>0, <1>3, <1>4 DEF Describes, TrueOfHost
    <2> QED
      BY <1>5, <2>1, <2>2, <2>3, <2>4 DEF TrueOfHost, Decided
  <1> QED
    BY <1>1, <1>2, <1>6, <1>7, <1>8 DEF Describes

\* Journalling that an operation begins keeps OutcomeIInv,
LEMMA SaveIntentOutcome ==
    ASSUME UpdateIInv, SaveIntent
    PROVE  OutcomeIInv'
  <1> DEFINE op == pc[1]
             r == [rec EXCEPT !.ops[pc[1]] = "intent"]
  <1>1. pc[1] \in Ops /\ pc[2] = "intent" /\ pc[1] \notin {"dead", "begin"}
    BY DEF SaveIntent, Ops, ForwardOps, RestoreOps
  <1>2. pc # Dead
    BY <1>1, NotDead
  <1>3. rec \in Record /\ pc = <<op, "intent">>
    BY <1>1, <1>2, Alive, LabelPair
  <1>4. /\ r \in Record /\ r.ops = [rec.ops EXCEPT ![op] = "intent"]
        /\ r.decision = rec.decision /\ r.snapshot = rec.snapshot /\ r.status = rec.status
    BY <1>1, <1>3 DEF Record
  <1>5. SaveJob(r, <<op, "act">>) /\ NoHostChange
    BY DEF SaveIntent
  <1> HIDE DEF r
  <1>6. /\ Describes(r)
        /\ op = "switch" => AllOld /\ data.schema = "old"
        /\ Switched(r) <=> Switched(rec) \/ op = "switch"
        /\ Fenced(r) <=> Fenced(rec) \/ op = "fence"
    BY <1>1, <1>2, <1>3, <1>4, IntentDescribes
  <1>7. /\ MemoryOK(<<op, "intent">>, rec) /\ ArrivedOK(<<op, "intent">>, rec)
        /\ rec.status = "running" /\ rec.ops \in [Ops -> {"none", "intent", "done"}]
    BY <1>1, <1>2, <1>3, Alive DEF Record
  <1> HIDE DEF op
  <1>8. op \in Ops
    BY <1>1 DEF op
  <1>9. r.ops["restore_data"] = IF op = "restore_data" THEN "intent" ELSE rec.ops["restore_data"]
    BY <1>4, <1>7, <1>8 DEF Ops, RestoreOps
  <1>10. MemoryOK(<<op, "act">>, r)
    BY <1>4, <1>6, <1>7, <1>8, <1>9
       DEF MemoryOK, OnForward, Ops, ForwardOps, RestoreOps, BeforeSwitch, FenceBegun, PastRestore
  <1>11. ArrivedOK(<<op, "act">>, r)
    BY <1>6, <1>7, <1>8
       DEF ArrivedOK, PastBackup, PastStop, PastBar, AtOld, AtOldData, SwitchDone, VerifyDone,
           HelperDone, PersistDone
  <1> QED
    BY <1>2, <1>4, <1>5, <1>6, <1>10, <1>11, Alive, SaveJobOutcome

\* Once an operation is journalled as done, the record is true.
LEMMA DoneDescribes ==
    ASSUME UpdateIInv, pc # Dead, NEW op \in Ops, pc = <<op, "done">>,
           NEW r \in Record, r.ops = [rec.ops EXCEPT ![op] = "done"],
           r.decision = rec.decision, r.snapshot = rec.snapshot, r.status = rec.status
    PROVE  /\ Describes(r)
           /\ Switched(r) <=> Switched(rec)
           /\ Fenced(r) <=> Fenced(rec)
  <1>0. /\ rec \in Record /\ rec.ops \in [Ops -> {"none", "intent", "done"}]
        /\ Describes(rec) /\ MemoryOK(pc, rec) /\ ArrivedOK(pc, rec)
        /\ rec.status = "running" /\ ~Decided(rec) /\ FenceIInv
    <2>1. pc[1] = op /\ op \notin {"dead", "begin", "complete", "finish"}
      BY DEF Ops, ForwardOps, RestoreOps
    <2>2. rec \in Record
      BY Alive
    <2> QED
      BY <2>1, <2>2, Alive DEF Deciding, Record
  <1>1. Switched(r) <=> Switched(rec)
    <2>1. op = "switch" => Switched(rec)
      BY <1>0 DEF FenceIInv, WorkerInv, PastSwitch
    <2> QED
      BY <1>0, <2>1 DEF Switched, Ops, ForwardOps
  <1>2. Fenced(r) <=> Fenced(rec)
    <2>1. op = "fence" => Fenced(rec)
      BY <1>0 DEF MemoryOK, FenceBegun
    <2> QED
      BY <1>0, <2>1 DEF Fenced, Ops, ForwardOps
  <1>3. op # "restore_data" => r.ops["restore_data"] = rec.ops["restore_data"]
    BY <1>0 DEF Ops, RestoreOps
  <1>4. op = "restore_data" => AllOld /\ data.schema = "old"
    BY <1>0 DEF ArrivedOK, AtOld, AtOldData
  <1>5. (Decided(r) <=> Decided(rec)) /\ StatusOK(r)
    BY <1>0, <1>1, <1>2 DEF Decided, Describes, StatusOK
  <1>6. TrueOfHost(r)
    BY <1>0, <1>1, <1>3, <1>4, <1>5 DEF Describes, TrueOfHost
  <1> QED
    BY <1>1, <1>2, <1>5, <1>6 DEF Describes

\* What an operation achieved is what the next one starts from.
LEMMA DoneArrives ==
    ASSUME NEW op \in Ops, NEW r, r.status = "running",
           MemoryOK(<<op, "done">>, r) \/ op = "restore_data",
           op = "restore_data" => r.ops["restore_data"] = "done",
           ArrivedOK(<<op, "done">>, r)
    PROVE  MemoryOK(AfterOp(op, r), r) /\ ArrivedOK(AfterOp(op, r), r)
  <1>1. CASE op \in {"restore_deployment", "restore_data"} /\ r.ops["restore_data"] = "done"
    <2>1. AfterOp(op, r) = AfterRestore(r)
      BY <1>1 DEF AfterOp
    <2> QED
      BY <1>1, <2>1, FlowRestored, BareArrived
  <1>2. CASE op = "restore_deployment" /\ r.ops["restore_data"] # "done"
    <2>1. AfterOp(op, r) = <<"restore_data", "intent">>
      BY <1>2 DEF AfterOp, Enter, PhaseOps
    <2> DEFINE p == <<"restore_data", "intent">>
    <2>2. MemoryOK(p, r)
      BY <1>2 DEF MemoryOK, OnForward, ForwardOps, BeforeSwitch, FenceBegun, PastRestore
    <2>3. ArrivedOK(p, r)
      BY <1>2 DEF ArrivedOK, PastBackup, PastStop, PastBar, AtOld, AtOldData, SwitchDone,
                  VerifyDone, HelperDone, PersistDone, RestoreOps
    <2> QED
      BY <2>1, <2>2, <2>3
  <1>3. CASE op \in ForwardOps
    <2>1. op # "restore_data" /\ MemoryOK(<<op, "done">>, r)
      BY <1>3 DEF ForwardOps
    <2>2. CASE op \in {"prepare", "fence", "stop", "backup"}
      <3>1. /\ op = "prepare" => AfterOp(op, r) = <<"fence", "phase">>
            /\ op = "fence" => AfterOp(op, r) = <<"stop", "intent">>
            /\ op = "stop" => AfterOp(op, r) = <<"backup", "phase">>
            /\ op = "backup" => AfterOp(op, r) = <<"switch", "phase">>
        BY <2>2 DEF AfterOp, Enter, PhaseOps
      <3>2. MemoryOK(AfterOp(op, r), r)
        BY <2>1, <2>2, <3>1
           DEF MemoryOK, OnForward, ForwardOps, BeforeSwitch, FenceBegun, PastRestore
      <3>3. ArrivedOK(AfterOp(op, r), r)
        <4>1. ArrivedOK(<<"prepare", "done">>, r) => ArrivedOK(<<"fence", "phase">>, r)
          BY DEF ArrivedOK, PastBackup, PastStop, PastBar, AtOld, AtOldData, SwitchDone,
                            VerifyDone, HelperDone, PersistDone, RestoreOps
        <4>2. ArrivedOK(<<"fence", "done">>, r) => ArrivedOK(<<"stop", "intent">>, r)
          BY DEF ArrivedOK, PastBackup, PastStop, PastBar, AtOld, AtOldData, SwitchDone,
                            VerifyDone, HelperDone, PersistDone, RestoreOps
        <4>3. ArrivedOK(<<"stop", "done">>, r) => ArrivedOK(<<"backup", "phase">>, r)
          BY DEF ArrivedOK, PastBackup, PastStop, PastBar, AtOld, AtOldData, SwitchDone,
                            VerifyDone, HelperDone, PersistDone, RestoreOps
        <4>4. ArrivedOK(<<"backup", "done">>, r) => ArrivedOK(<<"switch", "phase">>, r)
          BY DEF ArrivedOK, PastBackup, PastStop, PastBar, AtOld, AtOldData, SwitchDone,
                            VerifyDone, HelperDone, PersistDone, RestoreOps
        <4> QED
          BY <2>2, <3>1, <4>1, <4>2, <4>3, <4>4
      <3> QED
        BY <3>2, <3>3
    <2>3. CASE op \in {"switch", "validation_start", "verify", "helper", "persist_installation"}
      <3>1. /\ op = "switch" => AfterOp(op, r) = <<"validation_start", "intent">>
            /\ op = "validation_start" => AfterOp(op, r) = <<"verify", "phase">>
            /\ op = "verify" => AfterOp(op, r) = <<"helper", "phase">>
            /\ op = "helper" => AfterOp(op, r) = <<"persist_installation", "phase">>
            /\ op = "persist_installation" => AfterOp(op, r) = <<"decide", "commit_decided">>
        BY <2>3 DEF AfterOp, Enter, PhaseOps
      <3>2. MemoryOK(AfterOp(op, r), r)
        BY <2>1, <2>3, <3>1
           DEF MemoryOK, OnForward, ForwardOps, BeforeSwitch, FenceBegun, PastRestore
      <3>3. ArrivedOK(AfterOp(op, r), r)
        <4>1. ArrivedOK(<<"switch", "done">>, r) => ArrivedOK(<<"validation_start", "intent">>, r)
          BY DEF ArrivedOK, PastBackup, PastStop, PastBar, AtOld, AtOldData, SwitchDone,
                            VerifyDone, HelperDone, PersistDone, RestoreOps
        <4>2. ArrivedOK(<<"validation_start", "done">>, r) => ArrivedOK(<<"verify", "phase">>, r)
          BY DEF ArrivedOK, PastBackup, PastStop, PastBar, AtOld, AtOldData, SwitchDone,
                            VerifyDone, HelperDone, PersistDone, RestoreOps
        <4>3. ArrivedOK(<<"verify", "done">>, r) => ArrivedOK(<<"helper", "phase">>, r)
          BY DEF ArrivedOK, PastBackup, PastStop, PastBar, AtOld, AtOldData, SwitchDone,
                            VerifyDone, HelperDone, PersistDone, RestoreOps
        <4>4. ArrivedOK(<<"helper", "done">>, r) => ArrivedOK(<<"persist_installation", "phase">>, r)
          BY DEF ArrivedOK, PastBackup, PastStop, PastBar, AtOld, AtOldData, SwitchDone,
                            VerifyDone, HelperDone, PersistDone, RestoreOps
        <4>5. ArrivedOK(<<"persist_installation", "done">>, r) => ArrivedOK(<<"decide", "commit_decided">>, r)
          BY DEF ArrivedOK, PastBackup, PastStop, PastBar, AtOld, AtOldData, SwitchDone,
                            VerifyDone, HelperDone, PersistDone, RestoreOps
        <4> QED
          BY <2>3, <3>1, <4>1, <4>2, <4>3, <4>4, <4>5
      <3> QED
        BY <3>2, <3>3
    <2> QED
      BY <1>3, <2>2, <2>3 DEF ForwardOps
  <1> QED
    BY <1>1, <1>2, <1>3 DEF Ops, RestoreOps

\* as does journalling that it is done.
LEMMA SaveDoneOutcome ==
    ASSUME UpdateIInv, SaveDone
    PROVE  OutcomeIInv'
  <1> DEFINE op == pc[1]
             r == [rec EXCEPT !.ops[pc[1]] = "done"]
  <1>1. pc[1] \in Ops /\ pc[2] = "done" /\ pc[1] \notin {"dead", "begin"}
    BY DEF SaveDone, Ops, ForwardOps, RestoreOps
  <1>2. pc # Dead
    BY <1>1, NotDead
  <1>3. rec \in Record /\ pc = <<op, "done">>
    BY <1>1, <1>2, Alive, LabelPair
  <1>4. /\ r \in Record /\ r.ops = [rec.ops EXCEPT ![op] = "done"]
        /\ r.decision = rec.decision /\ r.snapshot = rec.snapshot /\ r.status = rec.status
    BY <1>1, <1>3 DEF Record
  <1>5. SaveJob(r, AfterOp(op, r)) /\ NoHostChange
    BY DEF SaveDone
  <1> HIDE DEF r
  <1>6. Describes(r) /\ (Switched(r) <=> Switched(rec)) /\ (Fenced(r) <=> Fenced(rec))
    BY <1>1, <1>2, <1>3, <1>4, DoneDescribes
  <1>7. /\ MemoryOK(<<op, "done">>, rec) /\ ArrivedOK(<<op, "done">>, rec)
        /\ rec.status = "running" /\ rec.ops \in [Ops -> {"none", "intent", "done"}]
    BY <1>1, <1>2, <1>3, Alive DEF Record
  <1> HIDE DEF op
  <1>8. op \in Ops
    BY <1>1 DEF op
  <1>9. r.ops["restore_data"] = IF op = "restore_data" THEN "done" ELSE rec.ops["restore_data"]
    BY <1>4, <1>7, <1>8 DEF Ops, RestoreOps
  <1>10. op = "restore_data" \/ MemoryOK(<<op, "done">>, r)
    BY <1>4, <1>6, <1>7, <1>8, <1>9
       DEF MemoryOK, OnForward, Ops, ForwardOps, RestoreOps, BeforeSwitch, FenceBegun, PastRestore
  <1>11. ArrivedOK(<<op, "done">>, r)
    BY <1>4, <1>7 DEF ArrivedOK
  <1>12. MemoryOK(AfterOp(op, r), r) /\ ArrivedOK(AfterOp(op, r), r)
    BY <1>4, <1>7, <1>8, <1>9, <1>10, <1>11, DoneArrives
  <1> QED
    BY <1>2, <1>4, <1>5, <1>6, <1>12, Alive, SaveJobOutcome

\* A decision is true of the host: the forward path brought the new release, or
\* the restoration the old one.
LEMMA DecideOutcome ==
    ASSUME UpdateIInv, Decide
    PROVE  OutcomeIInv'
  <1> DEFINE r == [rec EXCEPT !.decision = pc[2]]
  <1>1. pc[1] = "decide" /\ pc # Dead
    <2>1. pc[1] = "decide"
      BY DEF Decide
    <2> QED
      BY <2>1, NotDead
  <1>2. /\ pc[2] \in {"commit_decided", "restore_decided"} /\ pc = <<"decide", pc[2]>>
        /\ rec \in Record
    BY <1>1, Alive, LabelCases, LabelPair
  <1>3. /\ r \in Record /\ r.ops = rec.ops /\ r.decision = pc[2]
        /\ r.snapshot = rec.snapshot /\ r.status = rec.status /\ rec.status = "running"
    BY <1>1, <1>2, Alive DEF Record
  <1>4. SaveJob(r, <<"complete", "save">>) /\ NoHostChange
    BY DEF Decide
  <1> HIDE DEF r
  <1>5. (Switched(r) <=> Switched(rec)) /\ (Fenced(r) <=> Fenced(rec)) /\ Decided(r)
    BY <1>2, <1>3 DEF Switched, Fenced, Decided
  <1>6. Switched(rec) /\ ~Decided(rec)
    BY <1>1, Alive DEF FenceIInv, WorkerInv, PastSwitch, Deciding
  <1>7. pc[2] = "commit_decided" => AllNew /\ data.schema = Target("backend", FALSE)
    BY <1>1, <1>2, Alive
       DEF ArrivedOK, PersistDone, HelperDone, VerifyDone, SwitchDone, AllNew
  <1>8. pc[2] = "restore_decided" => AllOld /\ data.schema = "old"
    BY <1>1, <1>2, <1>6, Alive DEF MemoryOK, PastRestore, TrueOfHost
  <1>9. Describes(r)
    <2>1. StatusOK(r)
      BY <1>1, <1>3, <1>5, Alive DEF StatusOK
    <2>2. TrueOfHost(r)
      BY <1>1, <1>3, <1>5, <1>6, <1>7, <1>8, Alive DEF TrueOfHost
    <2> QED
      BY <2>1, <2>2 DEF Describes
  <1>10. MemoryOK(<<"complete", "save">>, r) /\ ArrivedOK(<<"complete", "save">>, r)
    BY <1>3, MemoryPoints, BarePoints, BareArrived
  <1> QED
    BY <1>1, <1>3, <1>4, <1>6, <1>9, <1>10, Alive, SaveJobOutcome

\* A decision that is saved again says what it said before.
LEMMA CompleteSaveOutcome ==
    ASSUME UpdateIInv, CompleteSave
    PROVE  OutcomeIInv'
  <1>1. pc = <<"complete", "save">> /\ pc # Dead /\ pc[1] = "complete"
    BY DEF CompleteSave, Dead
  <1>2. rec \in Record /\ rec.status = "running" /\ Describes(rec)
    BY <1>1, Alive
  <1>3. SaveJob(rec, <<"complete", "verify">>) /\ NoHostChange
    BY DEF CompleteSave
  <1>4. MemoryOK(<<"complete", "verify">>, rec) /\ ArrivedOK(<<"complete", "verify">>, rec)
    BY <1>2, MemoryPoints, BarePoints, BareArrived
  <1> QED
    BY <1>1, <1>2, <1>3, <1>4, Alive, SaveJobOutcome

(***************************************************************************)
(* What the operations on the host keep.                                   *)
(***************************************************************************)

\* Operations on fence and processes leave every record as true as it was.
LEMMA StillTrue ==
    ASSUME UNCHANGED <<links, data, acked, helper, install>>, inflight' \in {0, inflight}
    PROVE  \A r : Describes(r) => Describes(r)'
  BY DEF Describes, TrueOfHost, AllOld, AllNew, OnTarget, Restorable

\* Writing the fence: starts are allowed only on data that fit.
LEMMA MaintenanceHost ==
    ASSUME HostStateOK, HostInv, NEW f \in {Closed, Validating, Open},
           WriteMaintenance(f) \/ WriteMaintenancePartly(f), f = Closed \/ DataFit
    PROVE  /\ HostInv'
           /\ f = Closed => (StartBarred => StartBarred')
           /\ f = Closed /\ WriteMaintenance(f) => StartBarred'
  <1>1. /\ fence'.disk \subseteq fence.disk \union {f}
        /\ WriteMaintenance(f) => fence'.disk = {f}
    BY FenceType, WriteType DEF HostStateOK, WriteMaintenance, WriteMaintenancePartly
  <1>2. f = Closed => (StartBarred => StartBarred') /\ (WriteMaintenance(f) => StartBarred')
    BY <1>1 DEF StartBarred
  <1>3. DataFit' <=> DataFit
    BY DEF DataFit, WriteMaintenance, WriteMaintenancePartly
  <1> QED
    BY <1>2, <1>3 DEF HostInv, WriteMaintenance, WriteMaintenancePartly

\* Stopping any of the applications.
LEMMA StopHost ==
    ASSUME HostStateOK, HostInv, StopApplications \/ StopPartly
    PROVE  /\ HostInv' /\ (StartBarred => StartBarred')
           /\ StopApplications => AllStopped'
           /\ \A r : Describes(r) => Describes(r)'
  <1>1. PICK S \in SUBSET Components : Stop(S)
    BY DEF StopApplications, StopPartly
  <1>2. HostInv'
    <2>1. \A c \in Components : run'[c] \in {"none", links'[c]}
      BY <1>1 DEF Stop, HostInv
    <2>2. /\ serving' => serving /\ run'["backend"] = run["backend"]
          /\ inflight' > 0 => inflight > 0 /\ (serving => serving')
      <3>1. CASE "backend" \in S
        <4>1. ~serving' /\ inflight' = 0
          BY <1>1, <3>1 DEF Stop
        <4> QED
          BY <4>1
      <3>2. CASE "backend" \notin S
        BY <1>1, <3>2 DEF Stop, Components
      <3> QED
        BY <3>1, <3>2
    <2>3. DataFit' \/ StartBarred'
      BY <1>1 DEF Stop, HostInv, DataFit, StartBarred
    <2> QED
      BY <1>1, <2>1, <2>2, <2>3 DEF Stop, HostInv
  <1>3. \A r : Describes(r) => Describes(r)'
    BY <1>1, StillTrue DEF Stop
  <1> QED
    BY <1>1, <1>2, <1>3 DEF Stop, StartBarred, StopApplications, AllStopped

\* Starting any of them at its deployed release.
LEMMA StartHost ==
    ASSUME HostStateOK, HostInv, StartApplications \/ StartPartly
    PROVE  HostInv' /\ \A r : Describes(r) => Describes(r)'
  <1>1. PICK S \in SUBSET Components : Start(S)
    BY DEF StartApplications, StartPartly
  <1>2. HostInv'
    BY <1>1 DEF Start, HostInv, DataFit, StartBarred, HostStateOK, Components
  <1>3. \A r : Describes(r) => Describes(r)'
    BY <1>1, StillTrue DEF Start
  <1> QED
    BY <1>2, <1>3

\* Opening the start gate and starting any of them, on data that fit.
LEMMA ValidationStartHost ==
    ASSUME HostStateOK, HostInv, NEW S \in SUBSET Components, ValidationStart(S), DataFit
    PROVE  HostInv' /\ \A r : Describes(r) => Describes(r)'
  <1>1. HostInv'
    BY DEF ValidationStart, HostInv, DataFit, HostStateOK, Components
  <1>2. \A r : Describes(r) => Describes(r)'
    BY StillTrue DEF ValidationStart
  <1> QED
    BY <1>1, <1>2

\* Where the data are known to be those of the deployed release, they fit.
LEMMA FitFacts ==
    /\ data.schema = "old" => DataFit
    /\ OnTarget /\ data.schema = Target("backend", FALSE) => DataFit
  BY DEF DataFit, OnTarget, Target, Components

(***************************************************************************)
(* Steps outside the journal.                                              *)
(***************************************************************************)

\* An exception leads to a point that fits the record in memory.
LEMMA OnErrorOutcome ==
    ASSUME UpdateIInv, pc # Dead, pc[1] # "begin"
    PROVE  MemoryOK(OnError, rec) /\ Bare(OnError) /\ OnError[2] # "act"
  <1>1. rec.status = "running" /\ StatusOK(rec)
    <2>1. pc[1] # "dead"
      BY Alive, DeadLabel
    <2> QED
      BY <2>1, Alive
  <1> QED
    BY <1>1, FlowBack DEF OnError

\* A step that goes on at next, throws or dies and leaves every record true.
LEMMA MovesOutcome ==
    ASSUME UpdateIInv, pc # Dead, pc[1] # "begin", HostInv',
           \A r : Describes(r) => Describes(r)',
           NEW next, next[2] # "act", MemoryOK(next, rec),
           \/ Step(next) /\ ArrivedOK(next, rec)'
           \/ Step(OnError) \/ Fails
    PROVE  OutcomeIInv'
  <1>1. UNCHANGED journal
    BY DEF Step, Fails, Killed
  <1>2. FilesDescribe' /\ OneDecision'
    BY <1>1, Alive DEF FilesDescribe, OneDecision
  <1>3. WorkerAt'
    <2>1. CASE pc' = Dead
      BY <2>1 DEF WorkerAt
    <2>2. CASE Step(next) /\ ArrivedOK(next, rec)'
      <3>1. pc' = next /\ rec' = rec
        BY <2>2 DEF Step
      <3>2. Describes(rec)'
        BY <3>1, Alive DEF Describes, TrueOfHost, StatusOK
      <3>3. MemoryOK(pc, rec)' /\ ArrivedOK(pc, rec)'
        BY <2>2, <3>1
      <3> QED
        BY <2>2, <3>1, <3>2, <3>3 DEF WorkerAt
    <2>3. CASE Step(OnError)
      <3>1. pc' = OnError /\ rec' = rec
        BY <2>3 DEF Step
      <3>2. MemoryOK(pc, rec)' /\ Bare(pc') /\ pc'[2] # "act"
        BY <3>1, OnErrorOutcome
      <3> QED
        BY <3>1, <3>2, Alive, BareArrived DEF WorkerAt
    <2> QED
      BY <2>1, <2>2, <2>3 DEF Fails, Killed
  <1> QED
    BY <1>2, <1>3 DEF OutcomeIInv

\* So does the check before the first operation.
LEMMA RevalidateOutcome ==
    ASSUME UpdateIInv, Revalidate
    PROVE  OutcomeIInv'
  <1>1. pc = <<"revalidate", "">> /\ pc # Dead /\ pc[1] # "begin"
    BY DEF Revalidate, Dead
  <1>2. HostInv' /\ \A r : Describes(r) => Describes(r)'
    BY <1>1, Alive, SameHost DEF Revalidate
  <1> DEFINE next == <<"prepare", "intent">>
  <1>3. Enter("prepare") = next
    BY DEF Enter, PhaseOps
  <1>4. MemoryOK(next, rec)
    <2>1. MemoryOK(pc, rec)
      BY <1>1, Alive
    <2> QED
      BY <1>1, <2>1 DEF MemoryOK, OnForward, ForwardOps, BeforeSwitch, FenceBegun, PastRestore
  <1>5. Bare(next) /\ next[2] # "act"
    BY DEF Bare, PastBackup, PastStop, PastBar, AtOld, AtOldData, SwitchDone, VerifyDone,
           HelperDone, PersistDone, RestoreOps
  <1>6. Step(next) \/ Fails
    BY <1>3 DEF Revalidate
  <1> HIDE DEF next
  <1> QED
    BY <1>1, <1>2, <1>4, <1>5, <1>6, BareArrived, MovesOutcome

\* recover bars every start and stops the applications before it looks further.
LEMMA RecoverFenceOutcome ==
    ASSUME UpdateIInv, RecoverFence
    PROVE  OutcomeIInv'
  <1>1. pc = <<"recover", "fence">> /\ pc # Dead /\ pc[1] = "recover"
    BY DEF RecoverFence, Dead
  <1>2. HostStateOK /\ HostInv
    BY <1>1, Alive, TypeToParts
  <1>3. WriteMaintenance(Closed) \/ WriteMaintenancePartly(Closed)
    BY DEF RecoverFence
  <1>4. /\ HostInv' /\ (WriteMaintenance(Closed) => StartBarred')
        /\ \A r : Describes(r) => Describes(r)'
    BY <1>2, <1>3, MaintenanceHost, StillTrue DEF WriteMaintenance, WriteMaintenancePartly
  <1> DEFINE next == <<"recover", "stop">>
  <1>5. (Step(next) /\ StartBarred') \/ Fails
    BY <1>4 DEF RecoverFence
  <1>6. MemoryOK(next, rec) /\ next[2] # "act"
    BY <1>1, Alive, MemoryPoints
  <1>7. StartBarred' => ArrivedOK(next, rec)'
    BY DEF ArrivedOK, PastBackup, PastStop, PastBar, AtOld, AtOldData, SwitchDone, VerifyDone,
           HelperDone, PersistDone, RestoreOps
  <1> HIDE DEF next
  <1> QED
    BY <1>1, <1>4, <1>5, <1>6, <1>7, MovesOutcome

\* Once all is stopped, recovery restores what was switched.
LEMMA RecoverStopOutcome ==
    ASSUME UpdateIInv, RecoverStop
    PROVE  OutcomeIInv'
  <1>1. pc = <<"recover", "stop">> /\ pc # Dead /\ pc[1] = "recover"
    BY DEF RecoverStop, Dead
  <1>2. HostStateOK /\ HostInv /\ StartBarred /\ rec.status = "running"
    BY <1>1, Alive, TypeToParts DEF ArrivedOK, PastBar
  <1>3. /\ HostInv' /\ StartBarred' /\ (StopApplications => AllStopped')
        /\ \A r : Describes(r) => Describes(r)'
    BY <1>2, StopHost DEF RecoverStop
  <1>4. (Step(AfterStop(rec)) /\ AllStopped') \/ Fails
    BY <1>3 DEF RecoverStop
  <1>5. /\ MemoryOK(AfterStop(rec), rec) /\ AfterStop(rec)[2] # "act"
        /\ Bare(AfterStop(rec)) \/ AfterStop(rec) = <<"restore_deployment", "phase">>
    BY <1>2, FlowStopped
  <1>7. ASSUME AllStopped', NEW r PROVE ArrivedOK(<<"restore_deployment", "phase">>, r)'
    BY <1>3, <1>7 DEF ArrivedOK, PastBackup, PastStop, PastBar, AtOld, AtOldData, SwitchDone,
                      VerifyDone, HelperDone, PersistDone, RestoreOps
  <1>8. PICK p : p = AfterStop(rec)
    OBVIOUS
  <1>9. AllStopped' => ArrivedOK(p, rec)'
    BY <1>5, <1>7, <1>8, BareArrived
  <1> QED
    BY <1>1, <1>3, <1>4, <1>5, <1>8, <1>9, MovesOutcome

\* recover lets the restored applications start: their data fit.
LEMMA RecoverAllowOutcome ==
    ASSUME UpdateIInv, RecoverAllow
    PROVE  OutcomeIInv'
  <1>1. pc = <<"recover", "allow">> /\ pc # Dead /\ pc[1] = "recover"
    BY DEF RecoverAllow, Dead
  <1>2. HostStateOK /\ HostInv /\ DataFit
    <2>1. Switched(rec) => rec.ops["restore_data"] = "done"
      BY <1>1, Alive DEF MemoryOK, PastRestore
    <2>2. data.schema = "old"
      BY <1>1, <2>1, Alive DEF TrueOfHost
    <2> QED
      BY <1>1, <2>2, Alive, TypeToParts, FitFacts
  <1>3. WriteMaintenance(Validating) \/ WriteMaintenancePartly(Validating)
    BY DEF RecoverAllow
  <1>4. HostInv' /\ \A r : Describes(r) => Describes(r)'
    BY <1>2, <1>3, MaintenanceHost, StillTrue DEF WriteMaintenance, WriteMaintenancePartly
  <1> DEFINE next == <<"recover", "start">>
  <1>5. MemoryOK(next, rec) /\ Bare(next) /\ next[2] # "act"
    BY <1>1, Alive, MemoryPoints, BarePoints DEF MemoryOK, PastRestore
  <1>6. Step(next) \/ Fails
    BY DEF RecoverAllow
  <1> HIDE DEF next
  <1> QED
    BY <1>1, <1>4, <1>5, <1>6, BareArrived, MovesOutcome

\* Starting the restored applications keeps OutcomeIInv,
LEMMA RecoverStartOutcome ==
    ASSUME UpdateIInv, RecoverStart
    PROVE  OutcomeIInv'
  <1>1. pc = <<"recover", "start">> /\ pc # Dead /\ pc[1] = "recover"
    BY DEF RecoverStart, Dead
  <1>2. HostStateOK /\ HostInv
    BY <1>1, Alive, TypeToParts
  <1>3. HostInv' /\ \A r : Describes(r) => Describes(r)'
    BY <1>2, StartHost DEF RecoverStart
  <1> DEFINE next == <<"recover", "verify">>
  <1>4. MemoryOK(next, rec) /\ Bare(next) /\ next[2] # "act"
    BY <1>1, Alive, MemoryPoints, BarePoints DEF MemoryOK, PastRestore
  <1>5. Step(next) \/ Fails
    BY DEF RecoverStart
  <1> HIDE DEF next
  <1> QED
    BY <1>1, <1>3, <1>4, <1>5, BareArrived, MovesOutcome

\* and so does looking at them, whatever is found.
LEMMA RecoverVerifyOutcome ==
    ASSUME UpdateIInv, RecoverVerify
    PROVE  OutcomeIInv'
  <1>1. pc = <<"recover", "verify">> /\ pc # Dead /\ pc[1] = "recover"
    BY DEF RecoverVerify, Dead
  <1>2. HostInv' /\ \A r : Describes(r) => Describes(r)'
    BY <1>1, Alive, SameHost DEF RecoverVerify
  <1>3. /\ rec.status = "running"
        /\ Switched(rec) => rec.ops["restore_data"] = "done"
    BY <1>1, Alive DEF MemoryOK, PastRestore
  <1> DEFINE next == AfterVerify(rec)
  <1>4. MemoryOK(next, rec) /\ Bare(next) /\ next[2] # "act"
    BY <1>3, FlowRestored
  <1>5. Step(next) \/ Step(OnError) \/ Fails
    BY DEF RecoverVerify
  <1>6. PICK p : p = next
    OBVIOUS
  <1> HIDE DEF next
  <1>7. ArrivedOK(p, rec)'
    BY <1>4, <1>6, BareArrived
  <1> QED
    BY <1>1, <1>2, <1>4, <1>5, <1>6, <1>7, MovesOutcome

\* recover reopens where nothing was switched: data and release are the old ones.
LEMMA RecoverReopenOutcome ==
    ASSUME UpdateIInv, RecoverReopen
    PROVE  OutcomeIInv'
  <1>1. pc = <<"recover", "reopen">> /\ pc # Dead /\ pc[1] = "recover"
    BY DEF RecoverReopen, Dead
  <1>2. HostStateOK /\ HostInv /\ ~Switched(rec) /\ rec.status = "running"
    BY <1>1, Alive, TypeToParts DEF FenceIInv, WorkerInv
  <1>3. DataFit
    BY <1>1, <1>2, Alive, FitFacts DEF TrueOfHost
  <1>4. WriteMaintenance(Open) \/ WriteMaintenancePartly(Open)
    BY DEF RecoverReopen
  <1>5. HostInv' /\ \A r : Describes(r) => Describes(r)'
    BY <1>2, <1>3, <1>4, MaintenanceHost, StillTrue DEF WriteMaintenance, WriteMaintenancePartly
  <1> DEFINE next == <<"finish", "failed">>
  <1>6. MemoryOK(next, rec) /\ Bare(next) /\ next[2] # "act"
    BY <1>2, MemoryPoints, BarePoints
  <1>7. Step(next) \/ Fails
    BY DEF RecoverReopen
  <1> HIDE DEF next
  <1> QED
    BY <1>1, <1>5, <1>6, <1>7, BareArrived, MovesOutcome

\* Verifying a decided installation changes nothing.
LEMMA CompleteVerifyOutcome ==
    ASSUME UpdateIInv, CompleteVerify
    PROVE  OutcomeIInv'
  <1>1. pc = <<"complete", "verify">> /\ pc # Dead /\ pc[1] = "complete"
    BY DEF CompleteVerify, Dead
  <1>2. HostInv' /\ \A r : Describes(r) => Describes(r)'
    BY <1>1, Alive, SameHost DEF CompleteVerify
  <1> DEFINE next == <<"complete", "reopen">>
  <1>3. MemoryOK(next, rec) /\ Bare(next) /\ next[2] # "act"
    BY <1>1, Alive, MemoryPoints, BarePoints
  <1>4. Step(next) \/ Step(OnError) \/ Fails
    BY DEF CompleteVerify
  <1> HIDE DEF next
  <1> QED
    BY <1>1, <1>2, <1>3, <1>4, BareArrived, MovesOutcome

\* A decided record tells which release and which data there are.
LEMMA DecidedHost ==
    ASSUME NEW r \in Record, Describes(r), Decided(r)
    PROVE  /\ OnTarget \/ AllOld
           /\ data.schema = links["backend"]
           /\ DataFit
           /\ r.decision = "commit_decided" => data.schema = Target("backend", FALSE)
           /\ r.decision # "commit_decided" => data.schema = "old"
  <1>1. r.decision \in {"commit_decided", "restore_decided"}
    BY DEF Record, Decided
  <1> QED
    BY <1>1 DEF Describes, TrueOfHost, AllNew, AllOld, OnTarget, DataFit, Components, Target

\* completeDecision reopens on the release and the data that were decided.
LEMMA CompleteReopenOutcome ==
    ASSUME UpdateIInv, CompleteReopen
    PROVE  OutcomeIInv'
  <1>1. pc = <<"complete", "reopen">> /\ pc # Dead /\ pc[1] = "complete"
    BY DEF CompleteReopen, Dead
  <1>2. HostStateOK /\ HostInv /\ Decided(rec) /\ rec.status = "running" /\ rec \in Record
    BY <1>1, Alive, TypeToParts DEF FenceIInv, WorkerInv
  <1>3. DataFit
    BY <1>1, <1>2, Alive, DecidedHost
  <1>4. WriteMaintenance(Open) \/ WriteMaintenancePartly(Open)
    BY DEF CompleteReopen
  <1>5. HostInv' /\ \A r : Describes(r) => Describes(r)'
    BY <1>2, <1>3, <1>4, MaintenanceHost, StillTrue DEF WriteMaintenance, WriteMaintenancePartly
  <1>6. PICK next : next = <<"finish", IF rec.decision = "restore_decided"
                                       THEN "rolled_back" ELSE "succeeded">>
    OBVIOUS
  <1>7. MemoryOK(next, rec) /\ Bare(next) /\ next[2] # "act"
    <2>1. rec.decision \in {"commit_decided", "restore_decided"}
      BY <1>2 DEF Record, Decided
    <2> QED
      BY <1>2, <1>6, <2>1, MemoryPoints, BarePoints
  <1>8. Step(next) \/ Fails
    BY <1>6 DEF CompleteReopen
  <1> QED
    BY <1>1, <1>5, <1>7, <1>8, BareArrived, MovesOutcome

(***************************************************************************)
(* The actions of the operations.                                          *)
(***************************************************************************)

\* What is known while the action of an operation runs.
LEMMA Acting ==
    ASSUME UpdateIInv, Act \/ ActFails
    PROVE  /\ pc[1] \in Ops /\ pc = <<pc[1], "act">> /\ pc # Dead /\ pc[1] # "begin"
           /\ ~Decided(rec) /\ rec.status = "running" /\ journal.disk = {rec}
           /\ HostStateOK
  <1>1. pc[1] \in Ops /\ pc[2] = "act"
    BY DEF Act, ActFails
  <1>2. pc[1] \notin {"dead", "begin", "complete", "finish"}
    BY <1>1 DEF Ops, ForwardOps, RestoreOps
  <1>3. pc # Dead
    BY <1>2, NotDead
  <1> QED
    BY <1>1, <1>2, <1>3, Alive, LabelPair, TypeToParts DEF Deciding

\* Switching releases is true of a record that has journalled it.
LEMMA SwitchOutcome ==
    ASSUME UpdateIInv, pc = <<"switch", "act">>, SwitchApplications \/ SwitchPartly
    PROVE  /\ HostInv' /\ \A r : r = rec => Describes(r)'
           /\ SwitchApplications => OnTarget'
  <1>0. pc # Dead
    BY DEF Dead
  <1>1. PICK S \in SUBSET Changed : SwitchTo(S, "new")
    BY DEF SwitchApplications, SwitchPartly
  <1>2. /\ Switched(rec) /\ ~Decided(rec) /\ rec.ops["restore_data"] = "none"
        /\ AllStopped /\ AllOld /\ data.schema = "old" /\ HostInv /\ Describes(rec)
    BY <1>0, Alive DEF FenceIInv, WorkerInv, PastSwitch, Deciding, MemoryOK, OnForward, ForwardOps,
                  ArrivedOK, PastStop, AtOld, AtOldData
  <1>3. HostInv'
    BY <1>1, <1>2 DEF HostInv, SwitchTo, AllStopped, DataFit
  <1>4. ASSUME NEW r, r = rec PROVE Describes(r)'
    <2>1. Switched(r) /\ ~Decided(r) /\ r.ops["restore_data"] = "none" /\ Describes(r)
      BY <1>2, <1>4
    <2> QED
      BY <1>1, <2>1 DEF Describes, TrueOfHost, Decided, SwitchTo, Restorable
  <1>5. SwitchApplications => OnTarget'
    BY <1>2 DEF SwitchApplications, SwitchTo, OnTarget, Target, AllOld
  <1> QED
    BY <1>3, <1>4, <1>5

\* So are replacing the helper and the installation record,
LEMMA HelperOutcome ==
    ASSUME UpdateIInv, pc # Dead, pc[1] \in {"helper", "persist_installation"},
           UpdateHelper \/ UpdateHelperPartly \/ Commit \/ CommitPartly
    PROVE  HostInv' /\ \A r : r = rec => Describes(r)'
  <1>1. /\ Switched(rec) /\ ~Decided(rec) /\ rec.ops["restore_data"] = "none"
        /\ HostInv /\ Describes(rec)
    BY Alive DEF FenceIInv, WorkerInv, PastSwitch, Deciding, MemoryOK, OnForward, ForwardOps
  <1>2. HostInv'
    BY <1>1 DEF HostInv, DataFit, StartBarred, UpdateHelper, UpdateHelperPartly, Commit, CommitPartly
  <1>3. ASSUME NEW r, r = rec PROVE Describes(r)'
    <2>1. Switched(r) /\ ~Decided(r) /\ r.ops["restore_data"] = "none" /\ Describes(r)
      BY <1>1, <1>3
    <2> QED
      BY <2>1 DEF Describes, TrueOfHost, Decided, Restorable, UpdateHelper, UpdateHelperPartly,
                  Commit, CommitPartly
  <1> QED
    BY <1>2, <1>3

\* restoring the deployment, with every start barred,
LEMMA RestoreDeploymentOutcome ==
    ASSUME UpdateIInv, pc # Dead, pc[1] = "restore_deployment",
           RestoreDeployment \/ RestoreDeploymentPartly
    PROVE  /\ HostInv' /\ \A r : r = rec => Describes(r)'
           /\ RestoreDeployment => AllOld'
  <1>1. /\ Switched(rec) /\ ~Decided(rec) /\ AllStopped /\ StartBarred
        /\ HostInv /\ Describes(rec)
    BY Alive DEF FenceIInv, WorkerInv, PastSwitch, Deciding, ArrivedOK, PastStop, PastBar, RestoreOps
  <1>2. HostInv'
    BY <1>1 DEF HostInv, DataFit, StartBarred, AllStopped, RestoreDeployment, RestoreDeploymentPartly
  <1>3. AllOld => AllOld'
    BY DEF AllOld, RestoreDeployment, RestoreDeploymentPartly
  <1>4. ASSUME NEW r, r = rec PROVE Describes(r)'
    <2>1. Switched(r) /\ ~Decided(r) /\ Describes(r)
      BY <1>1, <1>4
    <2> QED
      BY <1>3, <2>1 DEF Describes, TrueOfHost, Decided, Restorable, RestoreDeployment,
                        RestoreDeploymentPartly
  <1> QED
    BY <1>2, <1>3, <1>4 DEF RestoreDeployment, AllOld

\* and restoring the data.
LEMMA RestoreDataOutcome ==
    ASSUME UpdateIInv, pc # Dead, pc[1] = "restore_data",
           RestoreData(rec.snapshot) \/ RestoreDataPartly(rec.snapshot)
    PROVE  /\ HostInv' /\ \A r : r = rec => Describes(r)'
           /\ RestoreData(rec.snapshot) => data'.schema = "old"
  <1>1. /\ Switched(rec) /\ ~Decided(rec) /\ AllStopped /\ StartBarred /\ AllOld
        /\ HostInv /\ Describes(rec) /\ rec.ops["restore_data"] # "done" /\ TypeOK
    BY Alive DEF FenceIInv, WorkerInv, PastSwitch, Deciding, ArrivedOK, PastStop, PastBar, RestoreOps,
                 AtOld, MemoryOK
  <1>2. rec.snapshot = [schema |-> "old", writes |-> acked] /\ data.writes = acked
    BY <1>1 DEF Describes, TrueOfHost, HostInv, Restorable
  <1>3. data'.writes = acked /\ acked' = acked
    BY <1>2 DEF RestoreData, RestoreDataPartly
  <1>4. ~serving
    BY <1>1, StoppedIdle
  <1>5. HostInv'
    BY <1>1, <1>3, <1>4 DEF HostInv, StartBarred, RestoreData, RestoreDataPartly
  <1>6. ASSUME NEW r, r = rec PROVE Describes(r)'
    <2>1. Switched(r) /\ ~Decided(r) /\ Describes(r) /\ r.ops["restore_data"] # "done"
      BY <1>1, <1>6
    <2> QED
      BY <1>1, <2>1 DEF Describes, TrueOfHost, Decided, Restorable, AllOld, RestoreData,
                        RestoreDataPartly
  <1>7. RestoreData(rec.snapshot) => data'.schema = "old"
    BY <1>2 DEF RestoreData
  <1> QED
    BY <1>5, <1>6, <1>7

\* The action of an operation, completed or not, keeps HostInv and the record true.
LEMMA ActHostOutcome ==
    ASSUME UpdateIInv, Act \/ ActFails
    PROVE  HostInv' /\ \A r : r = rec => Describes(r)'
  <1>1. /\ pc[1] \in Ops /\ pc = <<pc[1], "act">> /\ pc # Dead /\ HostStateOK
        /\ HostInv /\ Describes(rec)
    BY Acting, Alive
  <1>2. CASE NoHostChange
    BY <1>1, <1>2, SameHost
  <1>3. CASE WriteMaintenance(Closed) \/ WriteMaintenancePartly(Closed)
    BY <1>1, <1>3, MaintenanceHost, StillTrue DEF WriteMaintenance, WriteMaintenancePartly
  <1>4. CASE StopApplications \/ StopPartly
    BY <1>1, <1>4, StopHost
  <1>5. CASE /\ pc[1] = "validation_start"
             /\ \/ WriteMaintenancePartly(Validating)
                \/ \E S \in SUBSET Components : ValidationStart(S)
    <2>1. data.schema = "old"
      <3>1. pc = <<"validation_start", "act">>
        BY <1>1, <1>5
      <3> QED
        BY <1>1, <3>1, Alive DEF ArrivedOK, AtOldData
    <2>2. DataFit
      BY <2>1, FitFacts
    <2>3. CASE WriteMaintenancePartly(Validating)
      BY <1>1, <2>2, <2>3, MaintenanceHost, StillTrue DEF WriteMaintenancePartly
    <2>4. CASE \E S \in SUBSET Components : ValidationStart(S)
      BY <1>1, <2>2, <2>4, ValidationStartHost
    <2> QED
      BY <1>5, <2>3, <2>4
  <1>6. CASE pc[1] = "switch" /\ (SwitchApplications \/ SwitchPartly)
    BY <1>1, <1>6, SwitchOutcome
  <1>7. CASE /\ pc[1] \in {"helper", "persist_installation"}
             /\ UpdateHelper \/ UpdateHelperPartly \/ Commit \/ CommitPartly
    BY <1>1, <1>7, HelperOutcome
  <1>8. CASE pc[1] = "restore_deployment" /\ (RestoreDeployment \/ RestoreDeploymentPartly)
    BY <1>1, <1>8, RestoreDeploymentOutcome
  <1>9. CASE /\ pc[1] = "restore_data"
             /\ RestoreData(rec.snapshot) \/ RestoreDataPartly(rec.snapshot)
    BY <1>1, <1>9, RestoreDataOutcome
  <1> QED
    BY <1>2, <1>3, <1>4, <1>5, <1>6, <1>7, <1>8, <1>9 DEF Act, ActFails

\* What an operation does is what is known once it is done.
LEMMA ActArrives ==
    ASSUME UpdateIInv, Act
    PROVE  MemoryOK(pc, rec)' /\ ArrivedOK(pc, rec)'
  <1>1. /\ pc[1] \in Ops /\ pc = <<pc[1], "act">> /\ pc # Dead /\ HostStateOK /\ TypeOK
        /\ HostInv /\ MemoryOK(pc, rec) /\ ArrivedOK(pc, rec) /\ rec \in Record
        /\ TrueOfHost(rec)
    BY Acting, Alive
  <1>2. /\ rec'.ops = rec.ops /\ rec'.status = rec.status /\ rec'.decision = rec.decision
        /\ pc[1] # "backup" => rec' = rec
        /\ pc[1] = "backup" => rec'.snapshot = data
        /\ pc' = <<pc[1], "done">>
    BY <1>1 DEF Act, Record
  <1>3. MemoryOK(pc, rec)'
    <2>1. PICK op \in Ops : op = pc[1]
      BY <1>1
    <2>2. MemoryOK(<<op, "act">>, rec) /\ (Switched(rec') <=> Switched(rec))
          /\ (Fenced(rec') <=> Fenced(rec))
      BY <1>1, <1>2, <2>1 DEF Switched, Fenced
    <2>3. MemoryOK(<<op, "done">>, rec')
      BY <1>2, <2>2 DEF MemoryOK, OnForward, Ops, ForwardOps, RestoreOps, BeforeSwitch, FenceBegun,
                        PastRestore
    <2> QED
      BY <1>2, <2>1, <2>3
  <1> SUFFICES ArrivedOK(pc, rec)'
    BY <1>3
  <1>4. CASE pc[1] \in {"prepare", "fence", "stop", "backup"}
    <2>1. CASE pc[1] \in {"prepare", "fence"}
      <3>1. \A op \in {"prepare", "fence"} : Bare(<<op, "done">>)
        BY DEF Bare, PastBackup, PastStop, PastBar, AtOld, AtOldData, SwitchDone, VerifyDone,
               HelperDone, PersistDone, RestoreOps
      <3> QED
        BY <1>2, <2>1, <3>1, BareArrived
    <2>2. CASE pc[1] = "stop"
      <3>1. AllStopped'
        BY <1>1, <2>2, StopHost DEF Act
      <3>2. ArrivedOK(<<"stop", "done">>, rec)'
        BY <3>1 DEF ArrivedOK, PastBackup, PastStop, PastBar, AtOld, AtOldData, SwitchDone,
                    VerifyDone, HelperDone, PersistDone, RestoreOps
      <3> QED
        BY <1>2, <2>2, <3>2
    <2>3. CASE pc[1] = "backup"
      <3>1. ~Switched(rec) /\ data.schema = "old" /\ AllStopped
        BY <1>1, <2>3 DEF MemoryOK, BeforeSwitch, TrueOfHost, ArrivedOK, PastStop
      <3>2. data = Restorable
        BY <1>1, <3>1 DEF HostInv, HostStateOK, Data, Restorable
      <3>3. NoHostChange
        BY <2>3 DEF Act
      <3>4. rec'.snapshot = Restorable' /\ AllStopped'
        BY <1>2, <2>3, <3>1, <3>2, <3>3 DEF NoHostChange, Restorable, AllStopped
      <3>5. ArrivedOK(<<"backup", "done">>, rec)'
        BY <3>4 DEF ArrivedOK, PastBackup, PastStop, PastBar, AtOld, AtOldData, SwitchDone,
                    VerifyDone, HelperDone, PersistDone, RestoreOps
      <3> QED
        BY <1>2, <2>3, <3>5
    <2> QED
      BY <1>4, <2>1, <2>2, <2>3
  <1>5. CASE pc[1] = "switch"
    <2>1. SwitchApplications /\ AllStopped /\ data.schema = "old"
      BY <1>1, <1>5 DEF Act, ArrivedOK, PastStop, AtOldData
    <2>2. OnTarget' /\ AllStopped' /\ data'.schema = "old"
      <3>1. pc = <<"switch", "act">>
        BY <1>1, <1>5
      <3>2. OnTarget'
        BY <2>1, <3>1, SwitchOutcome
      <3> QED
        BY <2>1, <3>2 DEF SwitchApplications, SwitchTo, AllStopped
    <2>3. ArrivedOK(<<"switch", "done">>, rec)'
      BY <2>2 DEF ArrivedOK, PastBackup, PastStop, PastBar, AtOld, AtOldData, SwitchDone,
                  VerifyDone, HelperDone, PersistDone, RestoreOps
    <2> QED
      BY <1>2, <1>5, <2>3
  <1>6. CASE pc[1] = "validation_start"
    <2>1. OnTarget
      BY <1>1, <1>6 DEF ArrivedOK, SwitchDone
    <2>2. OnTarget'
      BY <1>6, <2>1 DEF Act, ValidationStart, OnTarget
    <2>3. ArrivedOK(<<"validation_start", "done">>, rec)'
      BY <2>2 DEF ArrivedOK, PastBackup, PastStop, PastBar, AtOld, AtOldData, SwitchDone,
                  VerifyDone, HelperDone, PersistDone, RestoreOps
    <2> QED
      BY <1>2, <1>6, <2>3
  <1>7. CASE pc[1] = "verify"
    <2>1. NoHostChange /\ Verified(FALSE)
      BY <1>7 DEF Act
    <2>2. OnTarget /\ data.schema = Target("backend", FALSE)
      BY <1>1, <2>1 DEF Verified, OnTarget, HostInv, Components
    <2>3. OnTarget' /\ data'.schema = Target("backend", FALSE)
      BY <2>1, <2>2 DEF NoHostChange, OnTarget
    <2>4. ArrivedOK(<<"verify", "done">>, rec)'
      BY <2>3 DEF ArrivedOK, PastBackup, PastStop, PastBar, AtOld, AtOldData, SwitchDone,
                  VerifyDone, HelperDone, PersistDone, RestoreOps
    <2> QED
      BY <1>2, <1>7, <2>4
  <1>8. CASE pc[1] = "helper"
    <2>1. OnTarget /\ data.schema = Target("backend", FALSE)
      BY <1>1, <1>8 DEF ArrivedOK, SwitchDone, VerifyDone
    <2>2. /\ OnTarget' /\ data'.schema = Target("backend", FALSE)
          /\ UpdateHelper
      BY <1>8, <2>1 DEF Act, UpdateHelper, OnTarget
    <2>3. helper' = Target("backend", FALSE)
      <3>1. CASE "backend" \in Changed
        BY <2>2, <3>1 DEF UpdateHelper, Target
      <3>2. CASE "backend" \notin Changed
        BY <1>1, <2>2, <3>2 DEF UpdateHelper, Target, HostInv
      <3> QED
        BY <3>1, <3>2
    <2>4. ArrivedOK(<<"helper", "done">>, rec)'
      BY <2>2, <2>3 DEF ArrivedOK, PastBackup, PastStop, PastBar, AtOld, AtOldData, SwitchDone,
                        VerifyDone, HelperDone, PersistDone, RestoreOps
    <2> QED
      BY <1>2, <1>8, <2>4
  <1>9. CASE pc[1] = "persist_installation"
    <2>1. /\ OnTarget /\ data.schema = Target("backend", FALSE)
          /\ helper = Target("backend", FALSE)
      BY <1>1, <1>9 DEF ArrivedOK, SwitchDone, VerifyDone, HelperDone
    <2>2. /\ OnTarget' /\ data'.schema = Target("backend", FALSE)
          /\ helper' = Target("backend", FALSE) /\ install' = "new"
      BY <1>9, <2>1 DEF Act, Commit, OnTarget
    <2>3. ArrivedOK(<<"persist_installation", "done">>, rec)'
      BY <2>2 DEF ArrivedOK, PastBackup, PastStop, PastBar, AtOld, AtOldData, SwitchDone,
                  VerifyDone, HelperDone, PersistDone, RestoreOps
    <2> QED
      BY <1>2, <1>9, <2>3
  <1>10. CASE pc[1] = "restore_deployment"
    <2>1. AllStopped /\ StartBarred /\ RestoreDeployment
      BY <1>1, <1>10 DEF ArrivedOK, PastStop, PastBar, RestoreOps, Act
    <2>2. AllOld' /\ AllStopped' /\ StartBarred'
      BY <1>1, <1>10, <2>1, RestoreDeploymentOutcome DEF RestoreDeployment, AllStopped, StartBarred
    <2>3. ArrivedOK(<<"restore_deployment", "done">>, rec)'
      BY <2>2 DEF ArrivedOK, PastBackup, PastStop, PastBar, AtOld, AtOldData, SwitchDone,
                  VerifyDone, HelperDone, PersistDone, RestoreOps
    <2> QED
      BY <1>2, <1>10, <2>3
  <1>11. CASE pc[1] = "restore_data"
    <2>1. AllStopped /\ StartBarred /\ AllOld /\ RestoreData(rec.snapshot)
      BY <1>1, <1>11 DEF ArrivedOK, PastStop, PastBar, AtOld, RestoreOps, Act
    <2>2. AllOld' /\ AllStopped' /\ StartBarred' /\ data'.schema = "old"
      BY <1>1, <1>11, <2>1, RestoreDataOutcome DEF RestoreData, AllStopped, StartBarred, AllOld
    <2>3. ArrivedOK(<<"restore_data", "done">>, rec)'
      BY <2>2 DEF ArrivedOK, PastBackup, PastStop, PastBar, AtOld, AtOldData, SwitchDone,
                  VerifyDone, HelperDone, PersistDone, RestoreOps
    <2> QED
      BY <1>2, <1>11, <2>3
  <1>12. pc[1] \in {"prepare", "fence", "stop", "backup", "switch", "validation_start", "verify",
                    "helper", "persist_installation", "restore_deployment", "restore_data"}
    BY <1>1 DEF Ops, ForwardOps, RestoreOps
  <1> QED
    BY <1>4, <1>5, <1>6, <1>7, <1>8, <1>9, <1>10, <1>11, <1>12

\* An operation that completes keeps OutcomeIInv,
LEMMA ActOutcome ==
    ASSUME UpdateIInv, Act
    PROVE  OutcomeIInv'
  <1>1. /\ pc[1] \in Ops /\ pc # Dead /\ journal.disk = {rec} /\ rec \in Record
        /\ Describes(rec) /\ OneDecision /\ pc' = <<pc[1], "done">> /\ UNCHANGED journal
        /\ MemoryOK(pc, rec)
    BY Acting, Alive DEF Act
  <1>2. HostInv' /\ \A r : r = rec => Describes(r)'
    BY ActHostOutcome
  <1>3. FilesDescribe' /\ OneDecision'
    BY <1>1, <1>2 DEF FilesDescribe, OneDecision
  <1>4. Describes(rec)'
    <2>1. CASE pc[1] = "backup"
      <3>1. pc = <<"backup", "act">>
        BY <2>1, Acting
      <3>2. ~Switched(rec) /\ UNCHANGED <<links, data, helper, install>>
        BY <1>1, <2>1 DEF MemoryOK, BeforeSwitch, Act, NoHostChange
      <3>3. /\ rec'.ops = rec.ops /\ rec'.status = rec.status /\ rec'.decision = rec.decision
        BY <1>1, <2>1 DEF Act, Record
      <3>4. (Switched(rec') <=> Switched(rec)) /\ (Decided(rec') <=> Decided(rec))
            /\ (Fenced(rec') <=> Fenced(rec))
        BY <3>3 DEF Switched, Decided, Fenced
      <3>5. StatusOK(rec')
        BY <1>1, <3>3, <3>4 DEF Describes, StatusOK
      <3>6. ~Decided(rec)
        BY Acting
      <3>7. TrueOfHost(rec)'
        BY <1>1, <3>2, <3>3, <3>4, <3>6 DEF Describes, TrueOfHost, AllOld, Decided
      <3> QED
        BY <3>5, <3>7 DEF Describes
    <2>2. CASE pc[1] # "backup"
      <3>1. rec' = rec
        BY <2>2 DEF Act
      <3>2. PICK r : r = rec
        OBVIOUS
      <3>3. Describes(r)'
        BY <1>2, <3>2
      <3> QED
        BY <3>1, <3>2, <3>3 DEF Describes, TrueOfHost, StatusOK
    <2> QED
      BY <2>1, <2>2
  <1>5. MemoryOK(pc, rec)' /\ ArrivedOK(pc, rec)'
    BY ActArrives
  <1>6. WorkerAt'
    BY <1>1, <1>4, <1>5 DEF WorkerAt
  <1> QED
    BY <1>2, <1>3, <1>6 DEF OutcomeIInv

\* and one that throws or is cut short does too.
LEMMA ActFailsOutcome ==
    ASSUME UpdateIInv, ActFails
    PROVE  OutcomeIInv'
  <1>1. /\ pc[1] \in Ops /\ pc # Dead /\ pc[1] # "begin" /\ journal.disk = {rec}
        /\ rec \in Record /\ Describes(rec) /\ OneDecision /\ UNCHANGED journal
        /\ MemoryOK(pc, rec) /\ pc = <<pc[1], "act">>
    BY Acting, Alive DEF ActFails, Step, Killed
  <1>2. HostInv' /\ \A r : r = rec => Describes(r)'
    BY ActHostOutcome
  <1>3. FilesDescribe' /\ OneDecision'
    BY <1>1, <1>2 DEF FilesDescribe, OneDecision
  <1>4. MemoryOK(OnError, rec) /\ Bare(OnError) /\ OnError[2] # "act"
    BY <1>1, OnErrorOutcome
  <1>5. CASE pc' = Dead
    BY <1>2, <1>3, <1>5 DEF OutcomeIInv, WorkerAt
  <1>6. CASE pc' = OnError /\ rec' = rec
    <2>1. PICK r : r = rec
      OBVIOUS
    <2>2. Describes(r)'
      BY <1>2, <2>1
    <2>3. Describes(rec)'
      BY <1>6, <2>1, <2>2 DEF Describes, TrueOfHost, StatusOK
    <2>4. MemoryOK(pc, rec)' /\ ArrivedOK(pc, rec)' /\ pc'[2] # "act"
      BY <1>4, <1>6, BareArrived
    <2> QED
      BY <1>2, <1>3, <2>3, <2>4 DEF OutcomeIInv, WorkerAt
  <1>7. CASE /\ pc[1] = "backup" /\ pc' = OnError
             /\ rec' = [rec EXCEPT !.snapshot = data]
    <2>1. pc = <<"backup", "act">>
      BY <1>1, <1>7
    <2>2. ~Switched(rec) /\ ~Decided(rec) /\ UNCHANGED <<links, data, helper, install>>
      BY <1>1, <1>7, Acting DEF MemoryOK, BeforeSwitch, ActFails, NoHostChange
    <2>3. /\ rec'.ops = rec.ops /\ rec'.status = rec.status /\ rec'.decision = rec.decision
      BY <1>1, <1>7 DEF Record
    <2>4. (Switched(rec') <=> Switched(rec)) /\ (Decided(rec') <=> Decided(rec))
          /\ (Fenced(rec') <=> Fenced(rec))
      BY <2>3 DEF Switched, Decided, Fenced
    <2>5. StatusOK(rec')
      BY <1>1, <2>3, <2>4 DEF Describes, StatusOK
    <2>6. TrueOfHost(rec)'
      BY <1>1, <2>2, <2>3, <2>4 DEF Describes, TrueOfHost, AllOld, Decided
    <2>7. MemoryOK(OnError, rec')
      BY <1>4, <2>3, <2>4 DEF MemoryOK
    <2>8. ArrivedOK(pc, rec)' /\ pc'[2] # "act" /\ MemoryOK(pc, rec)'
      BY <1>4, <1>7, <2>7, BareArrived
    <2> QED
      BY <1>2, <1>3, <2>5, <2>6, <2>8 DEF OutcomeIInv, WorkerAt, Describes
  <1> QED
    BY <1>5, <1>6, <1>7 DEF ActFails, Killed, Step

(***************************************************************************)
(* The life of the worker and its surroundings.                            *)
(***************************************************************************)

\* A worker starts from a record that is true, at a point that fits it.
LEMMA RunWorkerOutcome ==
    ASSUME UpdateIInv, RunWorker
    PROVE  OutcomeIInv'
  <1> DEFINE r == journal.vis
  <1>1. /\ TypeOK /\ HostInv /\ FilesDescribe /\ OneDecision /\ r \in journal.disk
    BY DEF UpdateIInv, TypeIInv, TypeOK, OutcomeIInv
  <1>2. /\ rec' = r /\ UNCHANGED journal /\ NoHostChange
        /\ r.status \in {"queued", "running"}
    BY DEF RunWorker, hostVars, NoHostChange
  <1>3. Describes(r)
    BY <1>1 DEF FilesDescribe
  <1>4. HostInv' /\ FilesDescribe' /\ OneDecision'
    BY <1>1, <1>2, SameHost DEF FilesDescribe, OneDecision
  <1>5. Describes(rec)'
    <2>1. PICK q : q = r
      OBVIOUS
    <2>2. Describes(q)'
      BY <1>2, <1>3, <2>1, SameHost
    <2> QED
      BY <1>2, <2>1, <2>2 DEF Describes, TrueOfHost, StatusOK
  <1>6. MemoryOK(pc', r) /\ Bare(pc') /\ pc'[2] # "act"
    <2>1. CASE r.decision = "none" /\ r.status = "queued"
      <3>1. pc' = <<"begin", "">>
        BY <2>1 DEF RunWorker
      <3>2. ~Switched(r) /\ r.ops["restore_data"] = "none"
        BY <1>3, <2>1 DEF Describes, StatusOK
      <3>3. MemoryOK(<<"begin", "">>, r)
        BY <2>1, <3>2 DEF MemoryOK, OnForward, ForwardOps, BeforeSwitch, FenceBegun, PastRestore
      <3> QED
        BY <3>1, <3>3, BarePoints
    <2>2. CASE ~(r.decision = "none" /\ r.status = "queued")
      <3>1. r.status = "running" /\ StatusOK(r)
        BY <1>2, <1>3, <2>2 DEF Describes, StatusOK, Decided
      <3>2. pc' = RecoverFrom(r)
        BY <2>2 DEF RunWorker
      <3> QED
        BY <3>1, <3>2, FlowBack
    <2> QED
      BY <2>1, <2>2
  <1>7. MemoryOK(pc, rec)' /\ ArrivedOK(pc, rec)'
    BY <1>2, <1>6, BareArrived
  <1> QED
    BY <1>4, <1>5, <1>6, <1>7 DEF OutcomeIInv, WorkerAt

\* finish reports what the record's decision is.
LEMMA FinishOutcome ==
    ASSUME UpdateIInv, Finish
    PROVE  OutcomeIInv'
  <1> DEFINE r == [rec EXCEPT !.status = pc[2]]
  <1>1. pc[1] = "finish" /\ pc # Dead
    <2>1. pc[1] = "finish"
      BY DEF Finish
    <2> QED
      BY <2>1, NotDead
  <1>2. /\ pc[2] \in {"succeeded", "failed", "rolled_back", "recovery_required"}
        /\ pc = <<"finish", pc[2]>> /\ rec \in Record
    BY <1>1, Alive, LabelCases, LabelPair
  <1>3. /\ r \in Record /\ r.ops = rec.ops /\ r.decision = rec.decision
        /\ r.snapshot = rec.snapshot /\ r.status = pc[2]
    BY <1>2 DEF Record
  <1>4. journal' = Written(r) \/ journal' \in FailedWrites(journal, r)
    BY DEF Finish
  <1>5. NoHostChange /\ pc' = Dead
    BY DEF Finish
  <1> HIDE DEF r
  <1>6. Describes(r)
    <2>1. (Switched(r) <=> Switched(rec)) /\ (Fenced(r) <=> Fenced(rec))
          /\ (Decided(r) <=> Decided(rec))
      BY <1>3 DEF Switched, Fenced, Decided
    <2>2. StatusOK(r)
      BY <1>1, <1>2, <1>3, <2>1, Alive DEF StatusOK, MemoryOK
    <2>3. TrueOfHost(r)
      BY <1>1, <1>3, <2>1, Alive DEF TrueOfHost
    <2> QED
      BY <2>2, <2>3 DEF Describes
  <1>7. r.decision = journal.vis.decision
    BY <1>1, <1>3, Alive DEF FenceIInv, WorkerInv
  <1>8. OneDecision' /\ journal'.disk \subseteq journal.disk \union {r}
    BY <1>1, <1>3, <1>4, <1>7, Alive, SaveFiles
  <1>9. HostInv' /\ FilesDescribe'
    BY <1>1, <1>5, <1>6, <1>8, Alive, SameHost DEF FilesDescribe
  <1> QED
    BY <1>5, <1>8, <1>9 DEF OutcomeIInv, WorkerAt

\* The recover command changes the status of the record only.
LEMMA RecoverCommandOutcome ==
    ASSUME UpdateIInv, RecoverCommand
    PROVE  OutcomeIInv'
  <1> DEFINE r == [journal.vis EXCEPT !.status = "running"]
  <1>1. /\ TypeOK /\ FenceIInv /\ HostInv /\ FilesDescribe /\ OneDecision
        /\ journal.vis \in journal.disk /\ journal.vis \in Record
    BY DEF UpdateIInv, TypeIInv, TypeOK, OutcomeIInv, File
  <1>2. /\ r \in Record /\ r.ops = journal.vis.ops /\ r.decision = journal.vis.decision
        /\ r.snapshot = journal.vis.snapshot /\ r.status = "running"
    BY <1>1 DEF Record
  <1>3. journal' = Written(r) \/ journal' \in FailedWrites(journal, r)
    BY DEF RecoverCommand
  <1>4. NoHostChange /\ pc' = Dead
    BY DEF RecoverCommand
  <1> HIDE DEF r
  <1>5. Describes(r)
    BY <1>1, <1>2, SameRecord DEF FilesDescribe
  <1>6. OneDecision' /\ journal'.disk \subseteq journal.disk \union {r}
    BY <1>1, <1>2, <1>3, SaveFiles
  <1>7. HostInv' /\ FilesDescribe'
    BY <1>1, <1>4, <1>5, <1>6, SameHost DEF FilesDescribe
  <1> QED
    BY <1>4, <1>6, <1>7 DEF OutcomeIInv, WorkerAt

\* A crash leaves the file and the host as they are.
LEMMA WorkerCrashOutcome ==
    ASSUME UpdateIInv, WorkerCrash
    PROVE  OutcomeIInv'
  <1>1. NoHostChange /\ pc' = Dead /\ UNCHANGED journal
    BY DEF WorkerCrash, Killed
  <1>2. HostInv /\ FilesDescribe /\ OneDecision
    BY DEF UpdateIInv, OutcomeIInv
  <1>3. HostInv' /\ FilesDescribe' /\ OneDecision'
    BY <1>1, <1>2, SameHost DEF FilesDescribe, OneDecision
  <1> QED
    BY <1>1, <1>3 DEF OutcomeIInv, WorkerAt

\* After a power loss the disk holds a record that is true, and what boots is
\* what is deployed.
LEMMA PowerLossOutcome ==
    ASSUME UpdateIInv, PowerLoss
    PROVE  OutcomeIInv'
  <1>1. /\ HostInv /\ FilesDescribe /\ OneDecision /\ pc' = Dead
        /\ journal \in File(Record) /\ fence \in File(Fence)
        /\ journal.vis \in journal.disk
    BY DEF UpdateIInv, TypeIInv, TypeOK, HostTypeOK, OutcomeIInv, PowerLoss
  <1>2. PICK r \in journal.disk : journal' = Written(r)
    BY DEF PowerLoss, AfterPowerLoss
  <1>3. PICK f \in fence.disk : fence' = Written(f)
    BY DEF PowerLoss, HostPowerLoss, AfterPowerLoss
  <1>4. /\ UNCHANGED <<links, data, acked, helper, install>> /\ inflight' = 0
        /\ ~serving' /\ \A c \in Components : run'[c] \in {"none", links'[c]}
    BY DEF PowerLoss, HostPowerLoss
  <1>5. DataFit' \/ StartBarred'
    BY <1>1, <1>3, <1>4 DEF HostInv, DataFit, StartBarred, Written
  <1>6. HostInv'
    BY <1>1, <1>4, <1>5 DEF HostInv
  <1>7. FilesDescribe'
    <2>1. journal'.disk = {r}
      BY <1>2 DEF Written
    <2> QED
      BY <1>1, <1>4, <2>1, StillTrue DEF FilesDescribe
  <1>8. OneDecision'
    BY <1>2 DEF OneDecision, Written
  <1> QED
    BY <1>1, <1>6, <1>7, <1>8 DEF OutcomeIInv, WorkerAt

\* While business may be open, whatever has switched is decided.
LEMMA OpenIsDecided ==
    ASSUME UpdateIInv, ~fence.vis.active
    PROVE  /\ \A r \in journal.disk : Switched(r) => Decided(r)
           /\ pc # Dead => (Switched(rec) => Decided(rec))
  <1>1. MayBeOpen /\ journal.vis \in journal.disk
    BY DEF UpdateIInv, TypeIInv, TypeOK, HostTypeOK, MayBeOpen
  <1> QED
    BY <1>1 DEF UpdateIInv, FenceIInv, JournalInv, WorkerInv, Decided

\* Requests come in, and are answered, where the fence is open: nothing there
\* relies on the number of writes.
LEMMA RequestOutcome ==
    ASSUME TypeOK, HostInv, AdmitRequest \/ CompleteRequest
    PROVE  /\ HostInv'
           /\ \A r : Describes(r) /\ (AdmitRequest => (Switched(r) => Decided(r))) => Describes(r)'
           /\ \A p, r : ArrivedOK(p, r) => ArrivedOK(p, r)'
  <1>1. serving /\ ~AllStopped /\ UNCHANGED <<links, run, helper, install, fence, serving>>
        /\ data'.schema = data.schema
    BY StoppedIdle DEF AdmitRequest, CompleteRequest, TypeOK, HostTypeOK, Data
  <1>2. HostInv'
    <2>1. data'.writes = acked'
      BY DEF AdmitRequest, CompleteRequest, HostInv, TypeOK, HostTypeOK, Data
    <2> QED
      BY <1>1, <2>1 DEF HostInv, DataFit, StartBarred
  <1>3. ASSUME NEW r, Describes(r), AdmitRequest => (Switched(r) => Decided(r))
        PROVE  Describes(r)'
    <2>1. Switched(r) => Decided(r)
      <3>1. CASE CompleteRequest
        <4>1. inflight # 0
          BY <3>1 DEF CompleteRequest, TypeOK, HostTypeOK
        <4> QED
          BY <1>3, <4>1 DEF Describes, TrueOfHost
      <3> QED
        BY <1>3, <3>1
    <2> QED
      BY <1>1, <1>3, <2>1 DEF Describes, TrueOfHost, AllOld, AllNew, OnTarget
  <1>4. ASSUME NEW p, NEW r, ArrivedOK(p, r) PROVE ArrivedOK(p, r)'
    <2>1. ~PastBackup(p) /\ ~PastStop(p)
      BY <1>1, <1>4 DEF ArrivedOK, PastBackup, PastStop
    <2> QED
      BY <1>1, <1>4, <2>1 DEF ArrivedOK, StartBarred, AllOld, OnTarget
  <1> QED
    BY <1>2, <1>3, <1>4

\* A backend that starts migrates its data: the old release starts on data of
\* its own, and the new one only where the new one is deployed.
LEMMA ApplicationStartOutcome ==
    ASSUME TypeOK, HostInv, ApplicationStart
    PROVE  /\ HostInv'
           /\ \A r : Describes(r) => Describes(r)'
           /\ \A p, r : ArrivedOK(p, r) => ArrivedOK(p, r)'
           /\ links["backend"] = "old" => data' = data
           /\ links["backend"] = "new" /\ data.schema = "new" => data' = data
  <1>1. /\ run["backend"] = links["backend"] /\ links["backend"] \in {"old", "new"}
        /\ ~AllStopped /\ UNCHANGED <<links, fence, inflight, acked, helper, install>>
        /\ data \in Data /\ run \in [Components -> Release \union {"none"}]
    BY DEF ApplicationStart, HostInv, AllStopped, Components, TypeOK, HostTypeOK, Release
  <1>2. ~StartBarred
    <2>1. fence.vis \in fence.disk /\ fence.vis # Closed
      BY DEF ApplicationStart, TypeOK, HostTypeOK, Closed
    <2> QED
      BY <2>1 DEF StartBarred
  <1>3. /\ data'.writes = data.writes /\ data' \in Data
        /\ \A c \in Components : run'[c] \in {"none", run[c]}
    BY <1>1 DEF ApplicationStart, Data
  <1>4. CASE links["backend"] = "old"
    <2>1. data.schema = "old"
      BY <1>2, <1>4 DEF HostInv, DataFit
    <2>2. data' = data /\ run' = run
      BY <1>1, <1>4 DEF ApplicationStart
    <2>3. HostInv'
      BY <1>1, <1>4, <2>1, <2>2 DEF HostInv, DataFit, ApplicationStart
    <2>4. \A r : Describes(r) => Describes(r)'
      BY <1>1, <2>2, StillTrue
    <2>5. \A p, r : ArrivedOK(p, r) => ArrivedOK(p, r)'
      BY <1>1, <2>2 DEF ArrivedOK, Restorable, AllStopped, StartBarred, AllOld, OnTarget
    <2> QED
      BY <1>4, <2>2, <2>3, <2>4, <2>5
  <1>5. CASE links["backend"] = "new"
    <2>1. ~AllOld
      BY <1>5 DEF AllOld, Components
    <2>2. data.schema = "new" => data' = data
      BY <1>1, <1>5 DEF ApplicationStart, Data
    <2>3. HostInv'
      <3>1. serving' => run'["backend"] # "none" /\ data'.schema = run'["backend"]
        BY <1>1, <1>5 DEF ApplicationStart, Data
      <3>2. data'.writes = acked' /\ \A c \in Components : run'[c] \in {"none", links'[c]}
        BY <1>1, <1>3 DEF HostInv
      <3>3. inflight' > 0 => serving'
        BY <1>1 DEF HostInv, ApplicationStart
      <3>4. DataFit'
        BY <1>1, <1>5 DEF DataFit
      <3> QED
        BY <1>1, <3>1, <3>2, <3>3, <3>4 DEF HostInv
    <2>4. OnTarget => Target("backend", FALSE) = "new"
      BY <1>5 DEF OnTarget, Components
    <2>5. ASSUME NEW r, Describes(r) PROVE Describes(r)'
      <3>1. Switched(r) /\ r.ops["restore_data"] = "none" /\ r.decision # "restore_decided"
        BY <2>1, <2>5 DEF Describes, TrueOfHost
      <3>2. r.decision = "commit_decided" => data.schema = "new" /\ AllNew
        BY <2>4, <2>5 DEF Describes, TrueOfHost, AllNew
      <3> QED
        BY <1>1, <2>2, <2>5, <3>1, <3>2
           DEF Describes, TrueOfHost, AllNew, OnTarget, Restorable
    <2>6. ASSUME NEW p, NEW r, ArrivedOK(p, r) PROVE ArrivedOK(p, r)'
      <3>1. /\ ~PastBackup(p) /\ ~PastStop(p) /\ ~AtOld(p)
        BY <1>1, <2>1, <2>6 DEF ArrivedOK, PastBackup, PastStop, AtOld
      <3>2. ~AtOldData(p)
        BY <3>1 DEF AtOldData, PastStop
      <3>3. VerifyDone(p) => data' = data
        <4>1. VerifyDone(p) => SwitchDone(p)
          BY DEF SwitchDone
        <4> QED
          BY <2>2, <2>4, <2>6, <4>1 DEF ArrivedOK
      <3> QED
        BY <1>1, <2>6, <3>1, <3>2, <3>3 DEF ArrivedOK, StartBarred, OnTarget
    <2> QED
      BY <1>5, <2>2, <2>3, <2>5, <2>6
  <1> QED
    BY <1>1, <1>4, <1>5

\* A crash of the backend takes its unanswered requests with it.
LEMMA ApplicationCrashOutcome ==
    ASSUME TypeOK, HostInv, ApplicationCrash
    PROVE  /\ HostInv'
           /\ \A r : Describes(r) => Describes(r)'
           /\ \A p, r : ArrivedOK(p, r) => ArrivedOK(p, r)'
  <1>1. /\ UNCHANGED <<fence, links, data, acked, helper, install>> /\ inflight' = 0
        /\ ~serving' /\ ~AllStopped
        /\ \A c \in Components : run'[c] \in {links[c], run[c]}
    BY DEF ApplicationCrash, AllStopped, Components, TypeOK, HostTypeOK
  <1>2. HostInv'
    BY <1>1 DEF HostInv, DataFit, StartBarred
  <1>3. \A r : Describes(r) => Describes(r)'
    BY <1>1, StillTrue
  <1>4. ASSUME NEW p, NEW r, ArrivedOK(p, r) PROVE ArrivedOK(p, r)'
    BY <1>1, <1>4 DEF ArrivedOK, Restorable, StartBarred, AllOld, OnTarget
  <1> QED
    BY <1>2, <1>3, <1>4

\* The life of the business application keeps OutcomeIInv.
LEMMA BusinessOutcome ==
    ASSUME UpdateIInv, Business
    PROVE  OutcomeIInv'
  <1>1. /\ TypeOK /\ HostInv /\ FilesDescribe /\ OneDecision /\ WorkerAt
        /\ UNCHANGED <<pc, rec, journal>>
    BY DEF UpdateIInv, TypeIInv, OutcomeIInv, Business
  <1>2. AdmitRequest => /\ \A r \in journal.disk : Switched(r) => Decided(r)
                        /\ pc # Dead => (Switched(rec) => Decided(rec))
    BY OpenIsDecided DEF AdmitRequest, BusinessWritesAllowed
  <1>3. /\ HostInv'
        /\ \A r : Describes(r) /\ (AdmitRequest => (Switched(r) => Decided(r))) => Describes(r)'
        /\ \A p, r : ArrivedOK(p, r) => ArrivedOK(p, r)'
    BY <1>1, RequestOutcome, ApplicationStartOutcome, ApplicationCrashOutcome DEF Business
  <1>4. FilesDescribe' /\ OneDecision'
    BY <1>1, <1>2, <1>3 DEF FilesDescribe, OneDecision
  <1>5. PICK q, p : q = rec /\ p = pc
    OBVIOUS
  <1>6. ASSUME pc # Dead PROVE Describes(rec)' /\ MemoryOK(pc, rec)' /\ ArrivedOK(pc, rec)'
    <2>1. Describes(q) /\ ArrivedOK(p, q) /\ (AdmitRequest => (Switched(q) => Decided(q)))
      BY <1>1, <1>2, <1>5, <1>6 DEF WorkerAt
    <2>2. Describes(q)' /\ ArrivedOK(p, q)'
      BY <1>3, <2>1
    <2>3. Describes(rec)'
      BY <1>1, <1>5, <2>2 DEF Describes, TrueOfHost, StatusOK
    <2>4. ArrivedOK(pc, rec)'
      BY <1>1, <1>5, <2>2
    <2> QED
      BY <1>1, <1>6, <2>3, <2>4 DEF WorkerAt
  <1>7. WorkerAt'
    BY <1>1, <1>6 DEF WorkerAt
  <1> QED
    BY <1>3, <1>4, <1>7 DEF OutcomeIInv

(***************************************************************************)
(* The invariant.                                                          *)
(***************************************************************************)

\* The idle installation with a queued job satisfies OutcomeIInv.
LEMMA OutcomeInit == Init => OutcomeIInv
  <1> SUFFICES ASSUME Init PROVE OutcomeIInv
    OBVIOUS
  <1>1. journal.vis = Queued /\ journal.disk = {Queued} /\ pc = Dead
    BY DEF Init, Written
  <1>2. /\ ~Switched(Queued) /\ ~Decided(Queued) /\ Queued.ops["restore_data"] = "none"
        /\ Queued.status = "queued" /\ Queued.decision = "none"
    BY DEF Queued, Switched, Decided, Ops, ForwardOps, RestoreOps
  <1>3. HostInv /\ AllOld /\ data.schema = "old"
    BY DEF Init, HostInit, HostInv, AllOld, Components, DataFit
  <1>4. Describes(Queued)
    BY <1>2, <1>3 DEF Describes, StatusOK, TrueOfHost
  <1> QED
    BY <1>1, <1>2, <1>3, <1>4 DEF OutcomeIInv, FilesDescribe, OneDecision, WorkerAt

\* OutcomeIInv is inductive relative to TypeIInv and FenceIInv.
LEMMA OutcomeStep == UpdateIInv /\ [Next]_vars => OutcomeIInv'
  <1> SUFFICES ASSUME UpdateIInv, [Next]_vars PROVE OutcomeIInv'
    OBVIOUS
  <1>1. CASE WorkerStep
    BY <1>1, BeginOutcome, RevalidateOutcome, SavePhaseOutcome, SaveIntentOutcome, ActOutcome,
       ActFailsOutcome, SaveDoneOutcome, DecideOutcome, RecoverFenceOutcome, RecoverStopOutcome,
       RecoverAllowOutcome, RecoverStartOutcome, RecoverVerifyOutcome, RecoverReopenOutcome,
       CompleteSaveOutcome, CompleteVerifyOutcome, CompleteReopenOutcome, FinishOutcome
       DEF WorkerStep
  <1>2. CASE RunWorker \/ RecoverCommand \/ WorkerCrash \/ PowerLoss \/ Business
    BY <1>2, RunWorkerOutcome, RecoverCommandOutcome, WorkerCrashOutcome, PowerLossOutcome,
       BusinessOutcome
  <1>3. CASE UNCHANGED vars
    <2>1. UNCHANGED <<pc, rec, journal>> /\ NoHostChange
      BY <1>3 DEF vars, hostVars, NoHostChange
    <2>2. HostInv' /\ FilesDescribe' /\ OneDecision'
      BY <2>1, SameHost DEF UpdateIInv, OutcomeIInv, FilesDescribe, OneDecision
    <2>3. PICK q, p : q = rec /\ p = pc
      OBVIOUS
    <2>4. ASSUME pc # Dead
          PROVE  /\ Describes(rec)' /\ MemoryOK(pc, rec)' /\ ArrivedOK(pc, rec)'
                 /\ pc[2] = "act" => journal.disk = {rec}
      <3>1. Describes(q) /\ ArrivedOK(p, q) /\ MemoryOK(pc, rec)
        BY <2>3, <2>4, Alive
      <3>2. Describes(q)' /\ ArrivedOK(p, q)'
        BY <2>1, <3>1, SameHost
      <3>3. Describes(rec)'
        BY <2>1, <2>3, <3>2 DEF Describes, TrueOfHost, StatusOK
      <3> QED
        BY <2>1, <2>3, <2>4, <3>1, <3>2, <3>3, Alive
    <2> QED
      BY <2>1, <2>2, <2>4 DEF OutcomeIInv, WorkerAt
  <1> QED
    BY <1>1, <1>2, <1>3 DEF Next

\* The three invariants together are inductive,
LEMMA UpdateStep == UpdateIInv /\ [Next]_vars => UpdateIInv'
  BY TypeStep, FenceStep, OutcomeStep DEF UpdateIInv

\* and hold throughout.
LEMMA UpdateInvariant == Spec => []UpdateIInv
  <1>1. Init => UpdateIInv
    BY InitType, FlowRestoreDead, FenceInit, OutcomeInit DEF Init, TypeIInv, UpdateIInv
  <1> QED
    BY <1>1, UpdateStep, PTL DEF Spec

\* A job that reports success has put the new release, its helper and its
\* record in place, and one that reports failure or a rollback has left or
\* restored the old ones, whatever failed on the way.
THEOREM OutcomeIsConsistent == Spec => []OutcomeConsistent
  <1>1. UpdateIInv => OutcomeConsistent
    <2> SUFFICES ASSUME UpdateIInv PROVE OutcomeConsistent
      OBVIOUS
    <2>1. Describes(journal.vis)
      BY DEF UpdateIInv, TypeIInv, TypeOK, OutcomeIInv, FilesDescribe
    <2> QED
      BY <2>1 DEF Describes, StatusOK, TrueOfHost, AllNew, AllOld, OnTarget, OutcomeConsistent
  <1> QED
    BY <1>1, UpdateInvariant, PTL
(***************************************************************************)
(* The contract with the users.                                            *)
(***************************************************************************)

\* What UserContract calls open and decision.
IsOpen  == serving /\ BusinessWritesAllowed
Durable == IF \A r \in journal.disk : r.decision = journal.vis.decision
           THEN journal.vis.decision ELSE "none"

\* The data business may open on.
Promised == [schema |-> IF Durable = "commit_decided" THEN Target("backend", FALSE) ELSE "old",
             writes |-> acked]

ContractStep == [UserContract!ContractNext]_(UserContract!contractVars)

\* The kinds of steps a host may take under the contract: nothing but closing,
LEMMA ContractQuiet ==
    ASSUME IsOpen \in BOOLEAN, IsOpen' \in BOOLEAN, UNCHANGED <<Durable, data, acked>>,
           IsOpen' => IsOpen
    PROVE  ContractStep
  <1>1. CASE IsOpen' = IsOpen
    BY <1>1 DEF ContractStep, UserContract!contractVars, IsOpen, Durable
  <1>2. CASE IsOpen /\ IsOpen' = FALSE
    <2>1. UserContract!Close
      BY <1>2 DEF UserContract!Close, IsOpen, Durable
    <2> QED
      BY <2>1 DEF ContractStep, UserContract!ContractNext
  <1> QED
    BY <1>1, <1>2

\* deciding behind closed doors,
LEMMA ContractDecide ==
    ASSUME ~IsOpen, UNCHANGED <<IsOpen, data, acked>>, Durable = "none",
           Durable' \in {"none", "commit_decided", "restore_decided"}
    PROVE  ContractStep
  <1>1. CASE Durable' = Durable
    BY <1>1 DEF ContractStep, UserContract!contractVars, IsOpen, Durable
  <1>2. CASE Durable' \in {"commit_decided", "restore_decided"}
    <2>1. UserContract!Decide
      BY <1>2 DEF UserContract!Decide, IsOpen, Durable
    <2> QED
      BY <2>1 DEF ContractStep, UserContract!ContractNext
  <1> QED
    BY <1>1, <1>2

\* working on the data of an undecided update behind them,
LEMMA ContractWork ==
    ASSUME ~IsOpen, UNCHANGED <<IsOpen, Durable, acked>>, Durable = "none"
    PROVE  ContractStep
  <1>1. CASE data' = data
    BY <1>1 DEF ContractStep, UserContract!contractVars, IsOpen, Durable
  <1>2. CASE data' # data
    <2>1. UserContract!Work
      BY <1>2 DEF UserContract!Work, IsOpen, Durable
    <2> QED
      BY <2>1 DEF ContractStep, UserContract!ContractNext
  <1> QED
    BY <1>1, <1>2

\* and opening on the data that were promised.
LEMMA ContractReopen ==
    ASSUME IsOpen \in BOOLEAN, IsOpen' \in BOOLEAN, UNCHANGED <<Durable, data, acked>>,
           data = Promised
    PROVE  ContractStep
  <1>1. CASE IsOpen' => IsOpen
    BY <1>1, ContractQuiet
  <1>2. CASE ~IsOpen /\ IsOpen'
    <2>1. UserContract!Reopen
      BY <1>2 DEF UserContract!Reopen, UserContract!CommittedSchema, Promised, IsOpen, Durable
    <2> QED
      BY <2>1 DEF ContractStep, UserContract!ContractNext
  <1> QED
    BY <1>1, <1>2

\* The mapped state is well typed: clients may write or not, and the decision
\* is durable when every content the disk may hold carries one.
LEMMA ContractType ==
    ASSUME UpdateIInv
    PROVE  /\ IsOpen \in BOOLEAN /\ Durable \in {"none", "commit_decided", "restore_decided"}
           /\ Durable # "none" <=> \A r \in journal.disk : Decided(r)
           /\ Durable # "none" => Durable = journal.vis.decision
           /\ journal.vis \in journal.disk /\ journal.vis \in Record
           /\ TypeOK /\ HostInv /\ Describes(journal.vis)
  <1>1. /\ TypeOK /\ HostInv /\ FilesDescribe /\ OneDecision
        /\ journal \in File(Record) /\ journal.vis \in journal.disk
    BY DEF UpdateIInv, TypeIInv, TypeOK, OutcomeIInv
  <1>2. journal.vis \in Record /\ Describes(journal.vis)
    BY <1>1 DEF File, FilesDescribe
  <1>3. Durable # "none" => Durable = journal.vis.decision
    BY DEF Durable
  <1>4. Durable \in {"none", "commit_decided", "restore_decided"}
    BY <1>2, <1>3 DEF Record
  <1>5. Durable # "none" <=> \A r \in journal.disk : Decided(r)
    BY <1>1 DEF Durable, Decided, OneDecision
  <1>6. IsOpen \in BOOLEAN
    BY <1>1 DEF IsOpen, BusinessWritesAllowed, TypeOK, HostTypeOK
  <1> QED
    BY <1>1, <1>2, <1>3, <1>4, <1>5, <1>6

\* So is what a step leaves of it.
LEMMA DurableNext ==
    ASSUME UpdateIInv'
    PROVE  /\ IsOpen' \in BOOLEAN /\ Durable' \in {"none", "commit_decided", "restore_decided"}
           /\ journal'.vis \in journal'.disk
           /\ Durable' # "none" <=> \A r \in journal'.disk : r.decision # "none"
  <1>1. /\ TypeOK' /\ OneDecision' /\ journal'.vis \in journal'.disk /\ journal' \in File(Record)
    BY DEF UpdateIInv, TypeIInv, TypeOK, OutcomeIInv
  <1>2. Durable' \in {"none", "commit_decided", "restore_decided"}
    BY <1>1 DEF Durable, Record, File
  <1>3. Durable' # "none" <=> \A r \in journal'.disk : r.decision # "none"
    BY <1>1 DEF Durable, Decided, OneDecision
  <1>4. IsOpen' \in BOOLEAN
    BY <1>1 DEF IsOpen, BusinessWritesAllowed, TypeOK, HostTypeOK
  <1> QED
    BY <1>1, <1>2, <1>3, <1>4

\* While business is open, or may be, nothing that is not decided has switched.
LEMMA UndecidedOpen ==
    ASSUME UpdateIInv, MayBeOpen, Durable = "none"
    PROVE  /\ \A r \in journal.disk : ~Switched(r) /\ ~Decided(r)
  <1>1. PICK r \in journal.disk : ~Decided(r)
    BY ContractType
  <1>2. \A q \in journal.disk : ~Switched(q)
    BY <1>1 DEF UpdateIInv, FenceIInv, JournalInv
  <1> QED
    BY <1>2 DEF UpdateIInv, FenceIInv, JournalInv

\* The durable decision is never replaced, and none is taken while business is open.
LEMMA DurableStep ==
    ASSUME UpdateIInv, [Next]_vars
    PROVE  /\ Durable # "none" => Durable' = Durable
           /\ MayBeOpen => Durable' = Durable
  <1>1. UpdateIInv'
    BY UpdateStep
  <1>2. /\ journal'.vis \in journal'.disk
        /\ Durable' # "none" <=> \A r \in journal'.disk : r.decision # "none"
    BY <1>1, DurableNext
  <1>3. ASSUME Durable # "none" PROVE Durable' = Durable
    <2>1. Durable \in {"commit_decided", "restore_decided"}
      BY <1>3, ContractType
    <2>2. PICK d \in {"commit_decided", "restore_decided"} : d = Durable
      BY <2>1
    <2>3. \A r \in journal.disk : r.decision = d
      BY <1>3, <2>2 DEF Durable
    <2>4. \A r \in journal'.disk : r.decision = d
      BY <2>3, DecisionStep DEF UpdateIInv
    <2> QED
      BY <1>2, <2>2, <2>4 DEF Durable
  <1>4. ASSUME Durable = "none", MayBeOpen PROVE Durable' = "none"
    <2>1. \A r \in journal.disk : ~Switched(r) /\ ~Decided(r)
      BY <1>4, UndecidedOpen
    <2>2. journal.vis \in journal.disk /\ journal \in File(Record)
      BY DEF UpdateIInv, TypeIInv, TypeOK
    <2>3. \E r \in journal'.disk : r.decision = "none"
      <3>1. CASE Decide
        <4>1. pc[1] = "decide" /\ pc # Dead
          BY <3>1, NotDead DEF Decide
        <4> QED
          BY <2>1, <2>2, <4>1 DEF UpdateIInv, FenceIInv, WorkerInv, PastSwitch
      <3>2. CASE PowerLoss
        <4>1. PICK r \in journal.disk : journal' = Written(r)
          BY <3>2 DEF PowerLoss, AfterPowerLoss
        <4> QED
          BY <2>1, <4>1 DEF Written, Decided
      <3>3. CASE SavesAgain
        <4>1. PICK r \in Record : /\ r.decision = journal.vis.decision
                                  /\ journal' = Written(r) \/ journal' \in FailedWrites(journal, r)
          BY <3>3 DEF SavesAgain
        <4>2. journal'.disk \subseteq journal.disk \union {r}
          BY <2>2, <4>1, WriteType
        <4> QED
          BY <1>2, <2>1, <2>2, <4>1, <4>2 DEF Decided
      <3>4. CASE UNCHANGED journal
        BY <2>1, <2>2, <3>4 DEF Decided
      <3>5. TypeIInv /\ FenceIInv
        BY DEF UpdateIInv
      <3> QED
        BY <3>1, <3>2, <3>3, <3>4, <3>5, JournalSaves
    <2> QED
      BY <1>2, <2>3
  <1> QED
    BY <1>3, <1>4

\* Where business is open, or a decision is durable, the data are those that
\* were promised, and fit the deployed release.
LEMMA DataPromised ==
    ASSUME UpdateIInv, ~fence.vis.active \/ Durable # "none"
    PROVE  data = Promised /\ data.schema = links["backend"]
  <1>1. /\ data \in Data /\ data.writes = acked
        /\ fence.vis \in fence.disk
    BY ContractType DEF TypeOK, HostTypeOK, HostInv
  <1>2. CASE Durable # "none"
    <2>1. Decided(journal.vis) /\ Durable = journal.vis.decision
      BY <1>2, ContractType
    <2>2. /\ data.schema = links["backend"]
          /\ Durable = "commit_decided" => data.schema = Target("backend", FALSE)
          /\ Durable # "commit_decided" => data.schema = "old"
      BY <2>1, ContractType, DecidedHost
    <2> QED
      BY <1>1, <2>2 DEF Promised, Data
  <1>3. CASE Durable = "none"
    <2>1. MayBeOpen
      BY <1>1, <1>3 DEF MayBeOpen
    <2>2. ~Switched(journal.vis)
      BY <1>3, <2>1, UndecidedOpen, ContractType
    <2>3. AllOld /\ data.schema = "old"
      BY <2>2, ContractType DEF Describes, TrueOfHost
    <2> QED
      BY <1>1, <1>3, <2>3 DEF Promised, Data, AllOld, Components
  <1> QED
    BY <1>2, <1>3
\* A step that does not touch the host may take the decision, behind closed doors.
LEMMA ContractJournal ==
    ASSUME UpdateIInv, [Next]_vars, NoHostChange
    PROVE  ContractStep
  <1>1. UNCHANGED <<IsOpen, data, acked>>
    BY DEF NoHostChange, IsOpen, BusinessWritesAllowed
  <1>2. IsOpen \in BOOLEAN /\ IsOpen' \in BOOLEAN
    BY <1>1, ContractType
  <1>3. CASE Durable' = Durable
    BY <1>1, <1>2, <1>3, ContractQuiet
  <1>4. CASE Durable' # Durable
    <2>1. Durable = "none" /\ ~MayBeOpen
      BY <1>4, DurableStep
    <2>2. ~IsOpen
      BY <2>1, ContractType DEF IsOpen, BusinessWritesAllowed, MayBeOpen, TypeOK, HostTypeOK
    <2>3. Durable' \in {"none", "commit_decided", "restore_decided"}
      BY UpdateStep, DurableNext
    <2> QED
      BY <1>1, <2>1, <2>2, <2>3, ContractDecide
  <1> QED
    BY <1>3, <1>4

\* After a power loss business is closed, whatever the disk then holds.
LEMMA ContractPowerLoss ==
    ASSUME UpdateIInv, PowerLoss
    PROVE  ContractStep
  <1>1. [Next]_vars /\ ~serving' /\ UNCHANGED <<data, acked>>
    BY DEF Next, PowerLoss, HostPowerLoss
  <1>2. IsOpen \in BOOLEAN /\ IsOpen' = FALSE
    BY <1>1, ContractType DEF IsOpen
  <1>3. CASE Durable' = Durable
    BY <1>1, <1>2, <1>3, ContractQuiet
  <1>4. CASE Durable' # Durable
    <2>1. Durable = "none" /\ ~MayBeOpen
      BY <1>1, <1>4, DurableStep
    <2>2. ~IsOpen
      BY <2>1, ContractType DEF IsOpen, BusinessWritesAllowed, MayBeOpen, TypeOK, HostTypeOK
    <2>3. Durable' \in {"none", "commit_decided", "restore_decided"}
      BY <1>1, UpdateStep, DurableNext
    <2> QED
      BY <1>1, <1>2, <2>1, <2>2, <2>3, ContractDecide
  <1> QED
    BY <1>3, <1>4

\* What a step does that leaves the job file alone: it closes, or works on the
\* data of an undecided update while nothing serves.
LEMMA ContractHost ==
    ASSUME UpdateIInv, [Next]_vars, UNCHANGED <<journal, acked>>,
           \/ UNCHANGED data /\ (IsOpen' => IsOpen)
           \/ ~serving /\ ~serving' /\ Durable = "none"
    PROVE  ContractStep
  <1>1. UNCHANGED Durable
    BY DEF Durable
  <1>2. IsOpen \in BOOLEAN /\ IsOpen' \in BOOLEAN
    BY UpdateStep, ContractType, DurableNext
  <1>3. CASE UNCHANGED data /\ (IsOpen' => IsOpen)
    BY <1>1, <1>2, <1>3, ContractQuiet
  <1>4. CASE ~serving /\ ~serving' /\ Durable = "none"
    <2>1. ~IsOpen /\ UNCHANGED IsOpen
      BY <1>2, <1>4 DEF IsOpen
    <2> QED
      BY <1>1, <1>4, <2>1, ContractWork
  <1> QED
    BY <1>3, <1>4

\* Closing the fence or opening its start gate only, stopping and starting
\* applications do not open business.
LEMMA NotOpening ==
    ASSUME UpdateIInv,
           \/ \E f \in {Closed, Validating} : WriteMaintenance(f) \/ WriteMaintenancePartly(f)
           \/ StopApplications \/ StopPartly \/ StartApplications \/ StartPartly
           \/ \E S \in SUBSET Components : ValidationStart(S)
    PROVE  UNCHANGED <<data, acked>> /\ (IsOpen' => IsOpen)
  <1>1. CASE \E f \in {Closed, Validating} : WriteMaintenance(f) \/ WriteMaintenancePartly(f)
    <2>1. PICK f \in {Closed, Validating} : WriteMaintenance(f) \/ WriteMaintenancePartly(f)
      BY <1>1
    <2>2. f.active /\ (fence'.vis = f \/ fence' = fence)
      BY <2>1 DEF Closed, Validating, WriteMaintenance, WriteMaintenancePartly, Written, FailedWrites
    <2> QED
      BY <2>1, <2>2 DEF WriteMaintenance, WriteMaintenancePartly, IsOpen, BusinessWritesAllowed
  <1>2. CASE StopApplications \/ StopPartly
    <2>1. PICK S \in SUBSET Components : Stop(S)
      BY <1>2 DEF StopApplications, StopPartly
    <2> QED
      BY <2>1 DEF Stop, IsOpen, BusinessWritesAllowed
  <1>3. CASE StartApplications \/ StartPartly
    <2>1. PICK S \in SUBSET Components : Start(S)
      BY <1>3 DEF StartApplications, StartPartly
    <2> QED
      BY <2>1 DEF Start, IsOpen, BusinessWritesAllowed
  <1>4. CASE \E S \in SUBSET Components : ValidationStart(S)
    <2>1. fence'.vis.active /\ UNCHANGED <<data, acked>>
      BY <1>4 DEF ValidationStart, Written, Validating
    <2> QED
      BY <2>1 DEF IsOpen, BusinessWritesAllowed
  <1> QED
    BY <1>1, <1>2, <1>3, <1>4

\* The action of an operation works behind closed doors.
LEMMA ContractAct ==
    ASSUME UpdateIInv, Act \/ ActFails
    PROVE  ContractStep
  <1>1. /\ pc[1] \in Ops /\ pc = <<pc[1], "act">> /\ pc # Dead
        /\ ~Decided(rec) /\ journal.disk = {rec} /\ TypeOK /\ HostInv
    BY Acting, Alive
  <1>2. [Next]_vars /\ UNCHANGED journal
    BY DEF Next, WorkerStep, Act, ActFails, Killed, Step
  <1>3. Durable = "none"
    BY <1>1, ContractType
  <1>4. CASE NoHostChange
    BY <1>2, <1>4, ContractJournal
  <1>5. CASE \/ WriteMaintenance(Closed) \/ WriteMaintenancePartly(Closed)
             \/ WriteMaintenancePartly(Validating)
             \/ StopApplications \/ StopPartly
             \/ \E S \in SUBSET Components : ValidationStart(S)
    <2>1. UNCHANGED <<data, acked>> /\ (IsOpen' => IsOpen)
      BY <1>5, NotOpening
    <2> QED
      BY <1>2, <2>1, ContractHost
  <1>6. CASE \/ SwitchApplications \/ SwitchPartly \/ UpdateHelper \/ UpdateHelperPartly
             \/ Commit \/ CommitPartly \/ RestoreDeployment \/ RestoreDeploymentPartly
    <2>1. UNCHANGED <<data, acked, serving, fence>>
      BY <1>6 DEF SwitchApplications, SwitchPartly, SwitchTo, UpdateHelper, UpdateHelperPartly,
                  Commit, CommitPartly, RestoreDeployment, RestoreDeploymentPartly
    <2>2. IsOpen' => IsOpen
      BY <2>1 DEF IsOpen, BusinessWritesAllowed
    <2> QED
      BY <1>2, <2>1, <2>2, ContractHost
  <1>7. CASE /\ pc[1] = "restore_data"
             /\ RestoreData(rec.snapshot) \/ RestoreDataPartly(rec.snapshot)
    <2>1. AllStopped
      BY <1>1, <1>7, Alive DEF ArrivedOK, PastStop
    <2>2. ~serving
      BY <1>1, <2>1, StoppedIdle
    <2>3. UNCHANGED <<serving, acked>>
      BY <1>7 DEF RestoreData, RestoreDataPartly
    <2> QED
      BY <1>2, <1>3, <2>2, <2>3, ContractHost
  <1> QED
    BY <1>4, <1>5, <1>6, <1>7 DEF Act, ActFails
\* recover's steps outside the journal keep the doors closed, until it reopens
\* where nothing was switched and nothing is decided.
LEMMA ContractRecover ==
    ASSUME UpdateIInv, RecoverFence \/ RecoverStop \/ RecoverAllow \/ RecoverStart \/ RecoverVerify
    PROVE  ContractStep
  <1>1. [Next]_vars /\ UNCHANGED journal
    BY DEF Next, WorkerStep, RecoverFence, RecoverStop, RecoverAllow, RecoverStart, RecoverVerify,
           Fails, Killed, Step
  <1>2. CASE NoHostChange
    BY <1>1, <1>2, ContractJournal
  <1>3. CASE \/ \E f \in {Closed, Validating} : WriteMaintenance(f) \/ WriteMaintenancePartly(f)
             \/ StopApplications \/ StopPartly \/ StartApplications \/ StartPartly
    <2>1. UNCHANGED <<data, acked>> /\ (IsOpen' => IsOpen)
      BY <1>3, NotOpening
    <2> QED
      BY <1>1, <2>1, ContractHost
  <1> QED
    BY <1>2, <1>3 DEF RecoverFence, RecoverStop, RecoverAllow, RecoverStart, RecoverVerify

\* Business is only opened on the data that were promised.
LEMMA ContractOpen ==
    ASSUME UpdateIInv, RecoverReopen \/ CompleteReopen
    PROVE  ContractStep
  <1>1. [Next]_vars /\ UNCHANGED <<journal, data, acked>>
    BY DEF Next, WorkerStep, RecoverReopen, CompleteReopen, Fails, Killed, Step, WriteMaintenance,
           WriteMaintenancePartly
  <1>2. UNCHANGED Durable /\ IsOpen \in BOOLEAN /\ IsOpen' \in BOOLEAN
    BY <1>1, UpdateStep, ContractType, DurableNext DEF Durable
  <1>3. data = Promised
    <2>1. CASE CompleteReopen
      <3>1. pc = <<"complete", "reopen">>
        BY <2>1 DEF CompleteReopen
      <3>2. \A r \in journal.disk : Decided(r)
        BY <3>1 DEF UpdateIInv, FenceIInv, WorkerInv
      <3> QED
        BY <3>2, ContractType, DataPromised
    <2>2. CASE RecoverReopen
      <3>1. pc = <<"recover", "reopen">> /\ pc # Dead
        BY <2>2 DEF RecoverReopen, Dead
      <3>2. ~Switched(rec) /\ ~Switched(journal.vis)
        BY <3>1 DEF UpdateIInv, FenceIInv, WorkerInv
      <3>3. Durable = "none"
        BY <3>2, ContractType DEF UpdateIInv, FenceIInv, JournalInv
      <3>4. data.schema = "old" /\ data.writes = acked /\ data \in Data
        BY <3>2, ContractType DEF Describes, TrueOfHost, HostInv, TypeOK, HostTypeOK
      <3> QED
        BY <3>3, <3>4 DEF Promised, Data
    <2> QED
      BY <2>1, <2>2
  <1> QED
    BY <1>1, <1>2, <1>3, ContractReopen

\* Clients write, and a backend that starts finds data it may serve or still
\* has to migrate behind closed doors.
LEMMA ContractBusiness ==
    ASSUME UpdateIInv, Business
    PROVE  ContractStep
  <1>1. /\ [Next]_vars /\ UNCHANGED <<journal, Durable>> /\ TypeOK /\ HostInv
        /\ IsOpen \in BOOLEAN /\ IsOpen' \in BOOLEAN
    <2>1. [Next]_vars /\ UNCHANGED journal
      BY DEF Next, Business
    <2> QED
      BY <2>1, UpdateStep, ContractType, DurableNext DEF Durable
  <1>2. CASE AdmitRequest
    <2>1. UNCHANGED <<data, acked>> /\ (IsOpen' => IsOpen)
      BY <1>2 DEF AdmitRequest, IsOpen, BusinessWritesAllowed
    <2> QED
      BY <1>1, <2>1, ContractHost
  <1>3. CASE CompleteRequest
    <2>1. UserContract!Write
      BY <1>1, <1>3 DEF UserContract!Write, CompleteRequest, IsOpen, BusinessWritesAllowed, Durable
    <2> QED
      BY <2>1 DEF ContractStep, UserContract!ContractNext
  <1>4. CASE ApplicationStart
    <2>1. ~serving /\ UNCHANGED <<fence, acked>>
      BY <1>4 DEF ApplicationStart
    <2>2. CASE ~fence.vis.active \/ Durable # "none"
      <3>1. data = Promised /\ data.schema = links["backend"] /\ links["backend"] \in {"old", "new"}
        BY <1>1, <2>2, DataPromised DEF TypeOK, HostTypeOK, Components, Release
      <3>2. data' = data
        BY <1>1, <1>4, <3>1, ApplicationStartOutcome
      <3> QED
        BY <1>1, <2>1, <3>1, <3>2, ContractReopen
    <2>3. CASE fence.vis.active /\ Durable = "none"
      <3>1. ~IsOpen /\ UNCHANGED IsOpen
        BY <2>1, <2>3, <1>1 DEF IsOpen, BusinessWritesAllowed
      <3> QED
        BY <1>1, <2>1, <2>3, <3>1, ContractWork
    <2> QED
      BY <2>2, <2>3
  <1>5. CASE ApplicationCrash
    <2>1. UNCHANGED <<data, acked>> /\ (IsOpen' => IsOpen)
      BY <1>5 DEF ApplicationCrash, IsOpen
    <2> QED
      BY <1>1, <2>1, ContractHost
  <1> QED
    BY <1>2, <1>3, <1>4, <1>5 DEF Business

\* Every step of the worker and its host is a step of the contract, or none.
LEMMA ContractSteps == UpdateIInv /\ [Next]_vars => ContractStep
  <1> SUFFICES ASSUME UpdateIInv, [Next]_vars PROVE ContractStep
    OBVIOUS
  <1>1. CASE \/ Begin \/ Revalidate \/ SavePhase \/ SaveIntent \/ SaveDone \/ Decide
             \/ CompleteSave \/ CompleteVerify \/ Finish
             \/ RunWorker \/ RecoverCommand \/ WorkerCrash \/ UNCHANGED vars
    <2>1. NoHostChange
      BY <1>1 DEF Begin, Revalidate, SavePhase, SaveIntent, SaveDone, Decide, CompleteSave,
                  CompleteVerify, Finish, RunWorker, RecoverCommand, WorkerCrash, vars, hostVars,
                  NoHostChange
    <2> QED
      BY <2>1, ContractJournal
  <1>2. CASE Act \/ ActFails
    BY <1>2, ContractAct
  <1>3. CASE RecoverFence \/ RecoverStop \/ RecoverAllow \/ RecoverStart \/ RecoverVerify
    BY <1>3, ContractRecover
  <1>4. CASE RecoverReopen \/ CompleteReopen
    BY <1>4, ContractOpen
  <1>5. CASE PowerLoss
    BY <1>5, ContractPowerLoss
  <1>6. CASE Business
    BY <1>6, ContractBusiness
  <1> QED
    BY <1>1, <1>2, <1>3, <1>4, <1>5, <1>6 DEF Next, WorkerStep

\* What clients see of an update, through crashes, power losses and retries, is
\* one decision taken behind closed doors and no acknowledged write lost.
THEOREM ContractKept == Spec => KeepsContract
  <1>1. Init => UserContract!ContractInit
    BY DEF Init, HostInit, UserContract!ContractInit, BusinessWritesAllowed, Written, Open, Queued
  <1>2. UpdateIInv /\ [Next]_vars => [UserContract!ContractNext]_(UserContract!contractVars)
    BY ContractSteps DEF ContractStep
  <1> QED
    BY <1>1, <1>2, UpdateInvariant, PTL DEF Spec, KeepsContract, UserContract!Contract
=============================================================================
