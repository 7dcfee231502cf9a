--------------------------- MODULE DeviceRegistry ---------------------------
(***************************************************************************)
(* Which devices the console knows.  A heartbeat registers an unknown      *)
(* device; an administrator deletes one, which leaves a tombstone, bans    *)
(* its id at the rendezvous server (hbbs) and releases the id there;       *)
(* restoring the tombstone undoes this.  Handlers are sequences of         *)
(* database statements and server calls, and run next to each other.       *)
(*                                                                         *)
(* A machine is a pair of the uuid of its installation, which clones       *)
(* share, and its id.  Rows are keyed by uuid, or, with clone isolation    *)
(* on, by a digest of the pair.                                            *)
(***************************************************************************)
EXTENDS Naturals, FiniteSets

CONSTANTS Uuids, Ids,
          Heartbeats,    \* heartbeats handled at the same time
          Admins,        \* administrators' requests handled at the same time
          Operations,    \* of "delete", "restore", "status"
          MaxSwitches,   \* how often the clone isolation setting is changed
          MaxCrashes,    \* how often the process dies
          None

Machines == Uuids \X Ids
Isolated(m) == m
Keys == Uuids \cup {Isolated(m) : m \in Machines}

\* A digest is not the uuid of an installation.
ASSUME KeysApart == Uuids \cap Machines = {}

VARIABLES peers,       \* the peers table
          tombstones,  \* the device_tombstones table
          freed,       \* how often the id of a tombstone was released
          buffered,    \* ids of known devices waiting for the next flush
          switches,    \* changes of the clone isolation setting so far
          bans,        \* device ids hbbs refuses
          beats,       \* heartbeats in flight
          admins,      \* administrators' requests in flight
          crashes

vars == <<peers, tombstones, freed, buffered, switches, bans, beats, admins, crashes>>
tables == <<peers, tombstones, freed>>

(* isDeviceCloneIsolationEnabled: off unless switched on. *)
Isolation == switches % 2 = 1

Peer == [here: BOOLEAN, id: Ids \cup {None}, disabled: BOOLEAN]
NoPeer == [here |-> FALSE, id |-> None, disabled |-> FALSE]

Tombstone == [here: BOOLEAN, id: Ids \cup {None}, banned: BOOLEAN,
              releaseRequested: BOOLEAN, idReleased: BOOLEAN]
NoTombstone == [here |-> FALSE, id |-> None, banned |-> FALSE,
                releaseRequested |-> FALSE, idReleased |-> FALSE]

Beat == [op: {"idle", "resolve", "legacy", "find", "tombstone", "save"},
         machine: Machines \cup {None}, key: Keys \cup {None},
         late: BOOLEAN]   \* history: its machine has been deleted since before it came
NoBeat == [op |-> "idle", machine |-> None, key |-> None, late |-> FALSE]

Admin == [op: {"idle", "delete", "ban", "release", "patch", "unban", "retry", "remove",
               "status", "sync"},
          key: Keys \cup {None}, id: Ids \cup {None},
          ban: BOOLEAN, release: BOOLEAN,        \* what was asked for
          banned: BOOLEAN, released: BOOLEAN]    \* what was achieved
NoAdmin == [op |-> "idle", key |-> None, id |-> None, ban |-> FALSE, release |-> FALSE,
            banned |-> FALSE, released |-> FALSE]

Init ==
    /\ peers = [k \in Keys |-> NoPeer]
    /\ tombstones = [k \in Keys |-> NoTombstone]
    /\ freed = [k \in Keys |-> 0]
    /\ buffered = [k \in Keys |-> None]
    /\ switches = 0 /\ bans = {} /\ crashes = 0
    /\ beats = [h \in Heartbeats |-> NoBeat]
    /\ admins = [a \in Admins |-> NoAdmin]

-----------------------------------------------------------------------------
(* handleHeartbeat. *)
Beats(h, op) == beats[h].op = op
Goto(h, op)  == beats' = [beats EXCEPT ![h].op = op]
Ends(h)      == beats' = [beats EXCEPT ![h] = NoBeat]
FindAs(h, k) == beats' = [beats EXCEPT ![h].op = "find", ![h].key = k]

(* With isolation on, a tombstone from before it was on turns the device   *)
(* away under its old key.                                                 *)
LegacyTombstone(m) == tombstones[m[1]].here /\ tombstones[m[1]].id = m[2]

Deleted(m) == LegacyTombstone(m) \/ tombstones[Isolated(m)].here

(* A heartbeat that is under way as machine m. *)
Arrives(h, m) ==
    beats' = [beats EXCEPT ![h] =
        [op |-> IF Isolation THEN "resolve" ELSE "find", machine |-> m,
         key |-> IF Isolation THEN None ELSE m[1], late |-> Deleted(m)]]

(* Mutant: the tombstones from before isolation are not looked at. *)
HeartbeatUnchecked(h, m) ==
    /\ Beats(h, "idle")
    /\ Arrives(h, m)
    /\ UNCHANGED <<tables, buffered, switches, bans, admins, crashes>>

HandleHeartbeat(h, m) ==
    /\ Beats(h, "idle")
    /\ Isolation => ~LegacyTombstone(m)
    /\ Arrives(h, m)
    /\ UNCHANGED <<tables, buffered, switches, bans, admins, crashes>>

(* resolveDeviceUuid: the row of the pair, else the old row if it has the  *)
(* same id, else a new row of the pair.                                    *)
ResolveIsolated(h) ==
    LET m == beats[h].machine
    IN /\ Beats(h, "resolve")
       /\ IF peers[Isolated(m)].here THEN FindAs(h, Isolated(m)) ELSE Goto(h, "legacy")
       /\ UNCHANGED <<tables, buffered, switches, bans, admins, crashes>>

ResolveLegacy(h) ==
    LET m == beats[h].machine
    IN /\ Beats(h, "legacy")
       /\ FindAs(h, IF peers[m[1]].here /\ peers[m[1]].id = m[2] THEN m[1] ELSE Isolated(m))
       /\ UNCHANGED <<tables, buffered, switches, bans, admins, crashes>>

FindPeer(h) ==
    LET k == beats[h].key
    IN /\ Beats(h, "find")
       /\ IF peers[k].here
          THEN Ends(h) /\ buffered' = [buffered EXCEPT ![k] = beats[h].machine[2]]
          ELSE Goto(h, "tombstone") /\ UNCHANGED buffered
       /\ UNCHANGED <<tables, switches, bans, admins, crashes>>

CheckTombstone(h) ==
    /\ Beats(h, "tombstone")
    /\ IF tombstones[beats[h].key].here THEN Ends(h) ELSE Goto(h, "save")
    /\ UNCHANGED <<tables, buffered, switches, bans, admins, crashes>>

(* The new row is saved, or its id if another heartbeat came first. *)
Register(h) ==
    LET k == beats[h].key
    IN /\ Beats(h, "save")
       /\ peers' = [peers EXCEPT ![k].here = TRUE, ![k].id = beats[h].machine[2]]
       /\ Ends(h)
       /\ UNCHANGED <<tombstones, freed, buffered, switches, bans, admins, crashes>>

(* Mutant: the flush saves the row instead of updating it. *)
FlushSaving(k) ==
    /\ buffered[k] # None
    /\ peers' = [peers EXCEPT ![k].here = TRUE, ![k].id = buffered[k]]
    /\ buffered' = [buffered EXCEPT ![k] = None]
    /\ UNCHANGED <<tombstones, freed, switches, bans, beats, admins, crashes>>

(* The flush updates rows that are still there. *)
Flush(k) ==
    /\ buffered[k] # None
    /\ peers' = [peers EXCEPT ![k].id = IF peers[k].here THEN buffered[k] ELSE @]
    /\ buffered' = [buffered EXCEPT ![k] = None]
    /\ UNCHANGED <<tombstones, freed, switches, bans, beats, admins, crashes>>

SetCloneIsolation ==
    /\ switches < MaxSwitches
    /\ switches' = switches + 1
    /\ UNCHANGED <<tables, buffered, bans, beats, admins, crashes>>

-----------------------------------------------------------------------------
(* Administrators.  A call of hbbs is tried once; it may fail, and then    *)
(* what was asked for is reported as not enforced.  A call whose answer is *)
(* lost counts as failed although hbbs has acted.                          *)
Calls == {c \in [acted: BOOLEAN, enforced: BOOLEAN] : c.enforced => c.acted}

(* Released more than once is all the same. *)
MaxFreed == 2
Release(k, acted) ==
    freed' = [freed EXCEPT ![k] = IF acted /\ @ < MaxFreed THEN @ + 1 ELSE @]

Runs(a, op) == admins[a].op = op
Then(a, op) == admins' = [admins EXCEPT ![a].op = op]
Done(a)     == admins' = [admins EXCEPT ![a] = NoAdmin]

(* deleteDevice: the access check reads the row and its id ... *)
DeleteDevice(a, k, ban, release) ==
    /\ "delete" \in Operations
    /\ Runs(a, "idle") /\ peers[k].here
    /\ admins' = [admins EXCEPT ![a] = [NoAdmin EXCEPT !.op = "delete", !.key = k,
                      !.id = peers[k].id, !.ban = ban, !.release = release]]
    /\ UNCHANGED <<tables, buffered, switches, bans, beats, crashes>>

AfterDelete(a) == IF admins[a].ban THEN "ban" ELSE IF admins[a].release THEN "release" ELSE "idle"

(* ... one transaction deletes it and leaves the tombstone ... *)
CommitDelete(a) ==
    LET k == admins[a].key
    IN /\ Runs(a, "delete")
       /\ IF peers[k].here
          THEN /\ tombstones' = [tombstones EXCEPT ![k].here = TRUE, ![k].id = admins[a].id]
               /\ peers' = [peers EXCEPT ![k] = NoPeer]
               /\ freed' = [freed EXCEPT ![k] = IF tombstones[k].here THEN @ ELSE 0]
               /\ IF AfterDelete(a) = "idle" THEN Done(a) ELSE Then(a, AfterDelete(a))
          ELSE Done(a) /\ UNCHANGED tables
       /\ UNCHANGED <<buffered, switches, bans, beats, crashes>>

(* ... then hbbs is asked to ban the id ... *)
BanDevice(a) ==
    /\ Runs(a, "ban")
    /\ \E call \in Calls :
          /\ bans' = IF call.acted THEN bans \cup {admins[a].id} ELSE bans
          /\ admins' = [admins EXCEPT ![a].banned = call.enforced,
                            ![a].op = IF admins[a].release THEN "release" ELSE "patch"]
    /\ UNCHANGED <<tables, buffered, switches, beats, crashes>>

(* ... and to release it ... *)
ReleaseDeviceId(a) ==
    /\ Runs(a, "release")
    /\ \E call \in Calls :
          /\ Release(admins[a].key, call.acted)
          /\ admins' = [admins EXCEPT ![a].released = call.enforced, ![a].op = "patch"]
    /\ UNCHANGED <<peers, tombstones, buffered, switches, bans, beats, crashes>>

(* ... and what was achieved is recorded in the tombstone. *)
Recorded(t, r) ==
    [t EXCEPT !.banned = @ \/ r.banned, !.releaseRequested = @ \/ r.release,
              !.idReleased = @ \/ r.released]

PatchTombstone(a) ==
    LET k == admins[a].key
    IN /\ Runs(a, "patch")
       /\ tombstones' = [tombstones EXCEPT ![k] =
              IF @.here THEN Recorded(@, admins[a]) ELSE @]
       /\ Done(a)
       /\ UNCHANGED <<peers, freed, buffered, switches, bans, beats, crashes>>

-----------------------------------------------------------------------------
(* Mutant: a release that was asked for is retried whatever came of it. *)
RetriesAlways(t) == t.releaseRequested

(* restoreTombstone: what is left to do follows from the copy read. *)
Retries(t) == t.releaseRequested /\ ~t.idReleased

RestoreTombstone(a, k) ==
    LET t == tombstones[k]
    IN /\ "restore" \in Operations
       /\ Runs(a, "idle") /\ t.here
       /\ admins' = [admins EXCEPT ![a] = [NoAdmin EXCEPT !.key = k, !.id = t.id,
                         !.op = IF t.banned THEN "unban" ELSE IF Retries(t) THEN "retry"
                                ELSE "remove",
                         !.release = Retries(t)]]
       /\ UNCHANGED <<tables, buffered, switches, bans, beats, crashes>>

(* Mutant: the tombstone goes even when the ban could not be lifted. *)
UnbanAnyway(a) ==
    /\ Runs(a, "unban")
    /\ bans' \in {bans, bans \ {admins[a].id}}
    /\ Then(a, IF admins[a].release THEN "retry" ELSE "remove")
    /\ UNCHANGED <<tables, buffered, switches, beats, crashes>>

(* A ban that cannot be lifted leaves the tombstone for another try. *)
UnbanDevice(a) ==
    /\ Runs(a, "unban")
    /\ \E call \in Calls :
          /\ bans' = IF call.acted THEN bans \ {admins[a].id} ELSE bans
          /\ IF call.enforced
             THEN Then(a, IF admins[a].release THEN "retry" ELSE "remove")
             ELSE Done(a)
    /\ UNCHANGED <<tables, buffered, switches, beats, crashes>>

RetryRelease(a) ==
    /\ Runs(a, "retry")
    /\ \E call \in Calls : Release(admins[a].key, call.acted)
    /\ Then(a, "remove")
    /\ UNCHANGED <<peers, tombstones, buffered, switches, bans, beats, crashes>>

RemoveTombstone(a) ==
    /\ Runs(a, "remove")
    /\ tombstones' = [tombstones EXCEPT ![admins[a].key] = NoTombstone]
    /\ Done(a)
    /\ beats' = [h \in Heartbeats |->
          [beats[h] EXCEPT !.late =
              @ /\ admins[a].key \notin {beats[h].machine[1], Isolated(beats[h].machine)}]]
    /\ UNCHANGED <<peers, freed, buffered, switches, bans, crashes>>

-----------------------------------------------------------------------------
(* updateDeviceStatus: the row, then the ban policy of hbbs. *)
UpdateDeviceStatus(a, k, disabled) ==
    /\ "status" \in Operations
    /\ Runs(a, "idle") /\ peers[k].here
    /\ admins' = [admins EXCEPT ![a] = [NoAdmin EXCEPT !.op = "status", !.key = k,
                      !.id = peers[k].id, !.ban = disabled]]
    /\ UNCHANGED <<tables, buffered, switches, bans, beats, crashes>>

CommitStatus(a) ==
    LET k == admins[a].key
    IN /\ Runs(a, "status")
       /\ IF peers[k].here
          THEN Then(a, "sync") /\ peers' = [peers EXCEPT ![k].disabled = admins[a].ban]
          ELSE Done(a) /\ UNCHANGED peers
       /\ UNCHANGED <<tombstones, freed, buffered, switches, bans, beats, crashes>>

SyncDeviceBans(a) ==
    /\ Runs(a, "sync")
    /\ \/ bans' = bans
       \/ bans' = IF admins[a].ban THEN bans \cup {admins[a].id} ELSE bans \ {admins[a].id}
    /\ Done(a)
    /\ UNCHANGED <<tables, buffered, switches, beats, crashes>>

(* The process dies: requests and buffers are gone, tables and hbbs stay. *)
Crash ==
    /\ crashes < MaxCrashes
    /\ crashes' = crashes + 1
    /\ beats' = [h \in Heartbeats |-> NoBeat]
    /\ admins' = [a \in Admins |-> NoAdmin]
    /\ buffered' = [k \in Keys |-> None]
    /\ UNCHANGED <<tables, switches, bans>>

Next ==
    \/ \E h \in Heartbeats :
          \/ \E m \in Machines : HandleHeartbeat(h, m)
          \/ ResolveIsolated(h) \/ ResolveLegacy(h) \/ FindPeer(h)
          \/ CheckTombstone(h) \/ Register(h)
    \/ \E a \in Admins :
          \/ \E k \in Keys :
                \/ \E ban, release \in BOOLEAN : DeleteDevice(a, k, ban, release)
                \/ RestoreTombstone(a, k)
                \/ \E disabled \in BOOLEAN : UpdateDeviceStatus(a, k, disabled)
          \/ CommitDelete(a) \/ BanDevice(a) \/ ReleaseDeviceId(a) \/ PatchTombstone(a)
          \/ UnbanDevice(a) \/ RetryRelease(a) \/ RemoveTombstone(a)
          \/ CommitStatus(a) \/ SyncDeviceBans(a)
    \/ \E k \in Keys : Flush(k)
    \/ SetCloneIsolation
    \/ Crash

Spec == Init /\ [][Next]_vars

-----------------------------------------------------------------------------
(* Every table and every request in flight has its type. *)
TypeOK ==
    /\ peers \in [Keys -> Peer]
    /\ tombstones \in [Keys -> Tombstone]
    /\ freed \in [Keys -> 0..MaxFreed]
    /\ buffered \in [Keys -> Ids \cup {None}]
    /\ switches \in 0..MaxSwitches /\ bans \subseteq Ids
    /\ beats \in [Heartbeats -> Beat]
    /\ admins \in [Admins -> Admin]
    /\ crashes \in 0..MaxCrashes

(* A deleted device stays deleted: neither a buffered update nor a crash   *)
(* between the steps of a deletion, nor a heartbeat that was under way,    *)
(* brings its row back beside the tombstone.                               *)
DeletedStaysDeleted == \A k \in Keys : tombstones[k].here => ~peers[k].here

(* A heartbeat that comes after its machine was deleted registers nothing, *)
(* under the old key or the isolated one, whatever else is under way and   *)
(* although isolation is switched on meanwhile.                            *)
LateHeartbeatTurnedAway == \A h \in Heartbeats : beats[h].late => ~Beats(h, "save")

(* A release that the tombstone records is never repeated, neither by the  *)
(* restore nor after a crash: by then a replacement machine may have       *)
(* claimed the id, and releasing it again would take the id from it.       *)
RecordedReleaseNotRepeated ==
    [][\A k \in Keys : tombstones[k].here /\ tombstones[k].idReleased
                          => freed'[k] <= freed[k]]_vars

(* The tombstone is the only record of a ban to lift: it goes only when    *)
(* hbbs no longer refuses the id, whatever failed or was lost before.      *)
RestoreLiftsBan ==
    [][\A k \in Keys : tombstones[k].banned /\ ~tombstones'[k].here
                          => tombstones[k].id \notin bans']_vars
=============================================================================
