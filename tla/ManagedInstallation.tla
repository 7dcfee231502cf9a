------------------------ MODULE ManagedInstallation ------------------------
(***************************************************************************)
(* The host an update runs on: the maintenance fence, the installed        *)
(* releases, the business processes, the business data, the updater helper *)
(* and the installation record, with the operations the deployment and     *)
(* backup adapters perform on them (src/updater/adapters, backups,         *)
(* maintenance.ts, main.ts, application.ts).                               *)
(*                                                                         *)
(* "old" is the release the installation record held when the job was      *)
(* accepted, "new" the release of the plan.                                *)
(***************************************************************************)
EXTENDS Naturals, DurableFile

CONSTANTS
    Changed,    \* components the plan updates (view.components, action "update")
    MaxWrites,  \* bound: business writes admitted in a behaviour
    MaxFaults   \* bound: injected failures, crashes and power losses

Components == {"backend", "web"}

ASSUME ChangedAssumption == Changed \subseteq Components /\ Changed # {}
ASSUME BoundsAssumption  == MaxWrites \in Nat /\ MaxFaults \in Nat

VARIABLES
    fence,     \* the maintenance file, [active, allowStart]
    links,     \* release each component is deployed at (link or image)
    run,       \* release of each running process, or "none"
    serving,   \* the backend passed waitForApplicationStart
    data,      \* business database and files: schema and accepted writes
    inflight,  \* requests admitted by the middleware and not yet answered
    acked,     \* business writes acknowledged to clients so far
    helper,    \* release of the updater helper
    install,   \* release named by the installation record
    faults     \* faults injected so far

hostVars == <<fence, links, run, serving, data, inflight, acked, helper,
              install, faults>>

Release == {"old", "new"}
Fence   == [active : BOOLEAN, allowStart : BOOLEAN]
Data    == [schema : {"old", "new", "torn"}, writes : Nat]

HostTypeOK ==
    /\ fence \in File(Fence)
    /\ fence.vis \in fence.disk
    /\ links \in [Components -> Release]
    /\ run \in [Components -> Release \union {"none"}]
    /\ serving \in BOOLEAN
    /\ data \in Data
    /\ inflight \in Nat
    /\ acked \in Nat
    /\ helper \in Release
    /\ install \in Release
    /\ faults \in Nat

\* The three fences an update writes: applications may neither start nor write,
\* may start to be verified, may serve.
Closed     == [active |-> TRUE,  allowStart |-> FALSE]
Validating == [active |-> TRUE,  allowStart |-> TRUE]
Open       == [active |-> FALSE, allowStart |-> TRUE]

\* The idle installation: no maintenance file reads as an inactive fence.
HostInit ==
    /\ fence = Written(Open)
    /\ links = [c \in Components |-> "old"]
    /\ run = [c \in Components |-> "old"]
    /\ serving = TRUE
    /\ data = [schema |-> "old", writes |-> 0]
    /\ inflight = 0
    /\ acked = 0
    /\ helper = "old"
    /\ install = "old"
    /\ faults = 0

\* A failure, crash or power loss happens.
Fault == faults < MaxFaults /\ faults' = faults + 1

(***************************************************************************)
(* The business application.                                               *)
(***************************************************************************)

\* businessWritesAllowed: every request reads the fence file again.
BusinessWritesAllowed == ~fence.vis.active

\* The middleware of application.ts lets a request through.
AdmitRequest ==
    /\ serving /\ BusinessWritesAllowed
    /\ acked + inflight < MaxWrites
    /\ inflight' = inflight + 1
    /\ UNCHANGED <<fence, links, run, serving, data, acked, helper, install, faults>>

\* An admitted request completes, whatever the fence says by then.
CompleteRequest ==
    /\ serving /\ inflight > 0
    /\ inflight' = inflight - 1
    /\ data' = [data EXCEPT !.writes = @ + 1]
    /\ acked' = acked + 1
    /\ UNCHANGED <<fence, links, run, serving, helper, install, faults>>

\* waitForApplicationStart lets the backend pass; it then runs its migrations.
\* A migration that fails leaves a half-migrated schema and no backend, and a
\* half-migrated schema makes every later migration fail.
ApplicationStart ==
    /\ run["backend"] # "none" /\ ~serving
    /\ ~fence.vis.active \/ fence.vis.allowStart
    /\ \/ /\ run["backend"] = "old" \/ data.schema # "torn"
          /\ serving' = TRUE
          /\ data' = IF run["backend"] = "new"
                     THEN [data EXCEPT !.schema = "new"] ELSE data
          /\ UNCHANGED <<run, faults>>
       \/ /\ run["backend"] = "new"
          /\ \/ data.schema = "torn" /\ UNCHANGED faults
             \/ data.schema = "old" /\ Fault
          /\ data' = [data EXCEPT !.schema = "torn"]
          /\ run' = [run EXCEPT !["backend"] = "none"]
          /\ UNCHANGED serving
    /\ UNCHANGED <<fence, links, inflight, acked, helper, install>>

\* The supervisor restarts a crashed backend at the deployed release; requests
\* that were in flight are lost unacknowledged.
ApplicationCrash ==
    /\ Fault
    /\ run["backend"] # "none"
    /\ run' = [run EXCEPT !["backend"] = links["backend"]]
    /\ serving' = FALSE
    /\ inflight' = 0
    /\ UNCHANGED <<fence, links, data, acked, helper, install>>

(***************************************************************************)
(* Adapter operations.  X is the completed operation, XPartly what a       *)
(* failure or a crash inside it may leave behind.                          *)
(***************************************************************************)

WriteMaintenance(state) ==
    /\ fence' = Written(state)
    /\ UNCHANGED <<links, run, serving, data, inflight, acked, helper, install>>

WriteMaintenancePartly(state) ==
    /\ fence' \in FailedWrites(fence, state)
    /\ UNCHANGED <<links, run, serving, data, inflight, acked, helper, install>>

\* Stop the components of S; pending work is finished before (CompleteRequest)
\* or dropped unanswered.
Stop(S) ==
    /\ run' = [c \in Components |-> IF c \in S THEN "none" ELSE run[c]]
    /\ serving' = (serving /\ "backend" \notin S)
    /\ inflight' = IF "backend" \in S THEN 0 ELSE inflight
    /\ UNCHANGED <<fence, links, data, acked, helper, install>>

\* Mutant: only the web front end is stopped.
StopWebOnly == Stop({"web"})

StopApplications == Stop(Components)
StopPartly       == \E S \in SUBSET Components : Stop(S)

SwitchTo(S, release) ==
    /\ links' = [c \in Components |-> IF c \in S THEN release ELSE links[c]]
    /\ UNCHANGED <<fence, run, serving, data, inflight, acked, helper, install>>

SwitchApplications == SwitchTo(Changed, "new")
SwitchPartly       == \E S \in SUBSET Changed : SwitchTo(S, "new")

\* Start the components of S that are not running, at their deployed release.
Start(S) ==
    /\ run' = [c \in Components |->
                  IF c \in S /\ run[c] = "none" THEN links[c] ELSE run[c]]
    /\ serving' = (serving /\ run["backend"] # "none")
    /\ UNCHANGED <<fence, links, data, inflight, acked, helper, install>>

StartApplications == Start(Components)
StartPartly       == \E S \in SUBSET Components : Start(S)

\* The action of validation_start: raise allowStart, then start.
ValidationStart(S) ==
    /\ fence' = Written(Validating)
    /\ run' = [c \in Components |->
                  IF c \in S /\ run[c] = "none" THEN links[c] ELSE run[c]]
    /\ serving' = (serving /\ run["backend"] # "none")
    /\ UNCHANGED <<links, data, inflight, acked, helper, install>>

\* The release verify expects: the installed one when restored, else the plan's.
Target(c, restored) == IF c \in Changed /\ ~restored THEN "new" ELSE "old"

\* verify: links, executables and health endpoints all match the target.
Verified(restored) ==
    /\ serving
    /\ \A c \in Components : links[c] = Target(c, restored) /\ run[c] = links[c]

\* updateHelper only replaces the helper when the backend changes.
UpdateHelper ==
    /\ helper' = IF "backend" \in Changed THEN "new" ELSE helper
    /\ UNCHANGED <<fence, links, run, serving, data, inflight, acked, install>>

UpdateHelperPartly ==
    /\ helper' \in {helper, IF "backend" \in Changed THEN "new" ELSE helper}
    /\ UNCHANGED <<fence, links, run, serving, data, inflight, acked, install>>

\* commitInstallation.
Commit ==
    /\ install' = "new"
    /\ UNCHANGED <<fence, links, run, serving, data, inflight, acked, helper>>

CommitPartly ==
    /\ install' \in {install, "new"}
    /\ UNCHANGED <<fence, links, run, serving, data, inflight, acked, helper>>

\* Mutant: the installation record keeps naming the new release.
RestoreLinksOnly ==
    /\ links' = [c \in Components |-> "old"]
    /\ helper' = "old"
    /\ UNCHANGED <<fence, run, serving, data, inflight, acked, install>>

\* restoreDeployment: links, then the helper link, then the installation record.
RestoreDeployment ==
    /\ links' = [c \in Components |-> "old"]
    /\ helper' = "old"
    /\ install' = "old"
    /\ UNCHANGED <<fence, run, serving, data, inflight, acked>>

RestoreDeploymentPartly ==
    /\ \E S \in SUBSET Components :
          links' = [c \in Components |-> IF c \in S THEN "old" ELSE links[c]]
    /\ helper' \in {helper, "old"}
    /\ install' \in {install, "old"}
    /\ UNCHANGED <<fence, run, serving, data, inflight, acked>>

\* backup.restore replaces database and files; interrupted, it leaves anything.
RestoreData(snapshot) ==
    /\ data' = snapshot
    /\ UNCHANGED <<fence, links, run, serving, inflight, acked, helper, install>>

RestoreDataPartly(snapshot) ==
    /\ data' \in {data, snapshot, [snapshot EXCEPT !.schema = "torn"]}
    /\ UNCHANGED <<fence, links, run, serving, inflight, acked, helper, install>>

NoHostChange ==
    UNCHANGED <<fence, links, run, serving, data, inflight, acked, helper, install>>

\* The machine loses power and boots: supervised processes may come back at the
\* deployed release, behind waitForApplicationStart.
HostPowerLoss ==
    /\ Fault
    /\ fence' \in AfterPowerLoss(fence)
    /\ \E S \in SUBSET Components :
          run' = [c \in Components |-> IF c \in S THEN links[c] ELSE "none"]
    /\ serving' = FALSE
    /\ inflight' = 0
    /\ UNCHANGED <<links, data, acked, helper, install>>
=============================================================================
