----------------------------- MODULE Strategies -----------------------------
(***************************************************************************)
(* Strategies (sets of client options) and the caches they are served      *)
(* from.  A strategy is assigned to a device, to the user the device is    *)
(* bound to, or to the device's group, and the first of these that has one *)
(* counts.  A heartbeat of a known device asks for its strategy: the       *)
(* answer of an earlier heartbeat is remembered per device, and the rows   *)
(* of strategies are remembered too.  Whoever changes a row a strategy is  *)
(* found by is to forget what is remembered.                               *)
(***************************************************************************)
EXTENDS Naturals, FiniteSets

CONSTANTS Devices, Owners, PeerGroups,   \* rows of three tables
          MaxStrategies, \* how many strategies are created
          Resolutions,   \* heartbeats being answered at the same time
          MaxEdits,      \* how often a strategy is edited; one of them at most is
          Nothing,       \* no strategy, user, group or row
          Removed,       \* a guid is not used again
          Unknown        \* nothing is remembered

Guids == 1..MaxStrategies

VARIABLES strategies,    \* the strategies table: the edits of a row, Nothing or Removed
          peers,         \* devices: strategyGuid, userGuid and deviceGroupGuid
          assigned,      \* strategyGuid of each user and device group
          objectCache,   \* strategyObjectCache
          deviceCache,   \* deviceStrategyCache
          resolving,     \* heartbeats in flight
          change,        \* the administrator's request in flight
          lapsed         \* history: devices whose memory has been left behind a change

tables == <<strategies, peers, assigned>>
caches == <<objectCache, deviceCache>>
vars == <<tables, caches, resolving, change, lapsed>>

Absent == [here |-> FALSE, strategy |-> Nothing, user |-> Nothing, group |-> Nothing]
Present == [Absent EXCEPT !.here = TRUE]

NoResolution == [op |-> "idle", device |-> Nothing, peer |-> Absent, level |-> "device",
                 guid |-> Nothing, edits |-> Nothing, overtaken |-> FALSE]
NoChange == [op |-> "idle", devices |-> {}, guid |-> Nothing]

Init ==
    /\ strategies = [s \in Guids |-> Nothing]
    /\ peers = [d \in Devices |-> Present]
    /\ assigned = [x \in Owners \cup PeerGroups |-> [here |-> TRUE, strategy |-> Nothing]]
    /\ objectCache = [s \in Guids |-> Nothing]
    /\ deviceCache = [d \in Devices |-> Unknown]
    /\ resolving = [b \in Resolutions |-> NoResolution]
    /\ change = NoChange
    /\ lapsed = {}

StrategyAssumption ==
    /\ {MaxStrategies, MaxEdits} \subseteq Nat
    /\ Owners \cap PeerGroups = {}
    /\ {Nothing, Removed, Unknown} \cap Nat = {} /\ Nothing \notin {Removed, Unknown}
    /\ Nothing \notin Devices \cup Owners \cup PeerGroups

Exists(s) == s # Nothing /\ strategies[s] \notin {Nothing, Removed}
StrategyOf(x) == IF x # Nothing /\ assigned[x].here THEN assigned[x].strategy ELSE Nothing

-----------------------------------------------------------------------------
(* handleHeartbeat and findStrategyForPeer: the device's row is read ...   *)
ReadPeer(b, d) ==
    /\ resolving[b].op = "idle" /\ peers[d].here
    /\ resolving' = [resolving EXCEPT ![b] = [NoResolution EXCEPT !.op = "lookup",
                         !.device = d, !.peer = peers[d]]]
    /\ UNCHANGED <<tables, caches, change, lapsed>>

(* What the caches answer; a strategy only the device cache knows counts as *)
(* unknown.                                                                 *)
Remembered(d) ==
    CASE deviceCache[d] = Unknown -> Unknown
      [] deviceCache[d] = Nothing -> Nothing
      [] OTHER -> IF objectCache[deviceCache[d]] = Nothing THEN Unknown
                  ELSE <<deviceCache[d], objectCache[deviceCache[d]]>>

LookUp(b) ==
    /\ resolving[b].op = "lookup"
    /\ resolving' = [resolving EXCEPT ![b] =
          IF Remembered(resolving[b].device) # Unknown THEN NoResolution
          ELSE [@ EXCEPT !.op = "strategy", !.guid = resolving[b].peer.strategy,
                         !.peer.strategy = Nothing]]
    /\ UNCHANGED <<tables, caches, change, lapsed>>

(* resolveStrategyForPeer: where nothing is found, the next level is tried. *)
(* What is not read again is dropped from the copy.                         *)
ToRemember(r, s, edits) ==
    [r EXCEPT !.op = "fill", !.guid = s, !.edits = edits, !.peer = Absent, !.level = "device"]

Deeper(r) ==
    CASE r.level = "device" -> [r EXCEPT !.op = "owner", !.level = "user", !.guid = Nothing]
      [] r.level = "user"   -> [r EXCEPT !.op = "owner", !.level = "group", !.guid = Nothing]
      [] r.level = "group"  -> ToRemember(r, Nothing, Nothing)

ReadStrategy(b) ==
    LET r == resolving[b]
    IN /\ r.op = "strategy"
       /\ resolving' = [resolving EXCEPT ![b] =
             IF Exists(r.guid) THEN ToRemember(r, r.guid, strategies[r.guid]) ELSE Deeper(r)]
       /\ UNCHANGED <<tables, caches, change, lapsed>>

(* The user and the group are those of the copy of the device's row. *)
ReadOwner(b) ==
    LET r == resolving[b]
    IN /\ r.op = "owner"
       /\ resolving' = [resolving EXCEPT ![b] =
             [r EXCEPT !.op = "strategy", !.guid = StrategyOf(r.peer[r.level]),
                       !.peer[r.level] = Nothing]]
       /\ UNCHANGED <<tables, caches, change, lapsed>>

(* ... and what was found is remembered and sent. *)
Remember(b) ==
    LET r == resolving[b]
    IN /\ r.op = "fill"
       /\ objectCache' = IF r.guid = Nothing THEN objectCache
                         ELSE [objectCache EXCEPT ![r.guid] = r.edits]
       /\ deviceCache' = [deviceCache EXCEPT ![r.device] = r.guid]
       /\ lapsed' = IF r.overtaken THEN Devices ELSE lapsed
       /\ resolving' = [resolving EXCEPT ![b] = NoResolution]
       /\ UNCHANGED <<tables, change>>

-----------------------------------------------------------------------------
(* Changes of the rows: one request at a time, and what it is to forget    *)
(* once its statement is committed.  Heartbeats in flight are overtaken.   *)
Overtaken ==
    resolving' = [b \in Resolutions |->
        [resolving[b] EXCEPT !.overtaken = resolving[b].op # "idle"]]

Commits(op, devices, s) ==
    /\ change.op = "idle"
    /\ change' = [op |-> op, devices |-> devices, guid |-> s]
    /\ Overtaken
    /\ UNCHANGED <<caches, lapsed>>

(* Changes that forget nothing: the devices they touch are left behind.    *)
Silently(devices) ==
    /\ change.op = "idle"
    /\ lapsed' = lapsed \cup devices
    /\ Overtaken
    /\ UNCHANGED <<caches, change>>

CreateStrategy(s) ==
    /\ change.op = "idle" /\ strategies[s] = Nothing
    /\ \A earlier \in 1..(s - 1) : strategies[earlier] # Nothing
    /\ strategies' = [strategies EXCEPT ![s] = 0]
    /\ UNCHANGED <<peers, assigned, caches, resolving, change, lapsed>>

UpdateStrategy(s) ==
    /\ Exists(s) /\ strategies[s] < MaxEdits
    /\ \A other \in Guids \ {s} : Exists(other) => strategies[other] = 0
    /\ strategies' = [strategies EXCEPT ![s] = @ + 1]
    /\ Commits("publish", {}, s)
    /\ UNCHANGED <<peers, assigned>>

(* The foreign keys of devices, users and groups are set to null. *)
DeleteStrategy(s) ==
    /\ Exists(s)
    /\ strategies' = [strategies EXCEPT ![s] = Removed]
    /\ peers' = [d \in Devices |->
          [peers[d] EXCEPT !.strategy = IF @ = s THEN Nothing ELSE @]]
    /\ assigned' = [x \in DOMAIN assigned |->
          [assigned[x] EXCEPT !.strategy = IF @ = s THEN Nothing ELSE @]]
    /\ Commits("drop", {}, s)

AssignStrategy(s) ==
    /\ Exists(s)
    /\ Commits("forget", Devices, Nothing)
    /\ \/ \E d \in Devices :
             /\ peers[d].here
             /\ peers' = [peers EXCEPT ![d].strategy = s]
             /\ UNCHANGED assigned
       \/ \E x \in DOMAIN assigned :
             /\ assigned[x].here
             /\ assigned' = [assigned EXCEPT ![x].strategy = s]
             /\ UNCHANGED peers
    /\ UNCHANGED strategies

(* Only targets the strategy is assigned to; the others are reported. *)
UnassignStrategy(s) ==
    /\ Exists(s)
    /\ Commits("forget", Devices, Nothing)
    /\ \/ \E d \in Devices :
             /\ peers[d].strategy = s
             /\ peers' = [peers EXCEPT ![d].strategy = Nothing]
             /\ UNCHANGED assigned
       \/ \E x \in DOMAIN assigned :
             /\ assigned[x].strategy = s
             /\ assigned' = [assigned EXCEPT ![x].strategy = Nothing]
             /\ UNCHANGED peers
    /\ UNCHANGED strategies

(* updateDevice: its user, its group and its strategy, each optional. *)
UpdateDevice(d) ==
    /\ peers[d].here
    /\ \/ \E u \in {x \in Owners : assigned[x].here} \cup {Nothing} :
             peers' = [peers EXCEPT ![d].user = u]
       \/ \E s \in {x \in Guids : Exists(x)} \cup {Nothing} :
             peers' = [peers EXCEPT ![d].strategy = s]
    /\ Commits("forget", {d}, Nothing)
    /\ UNCHANGED <<strategies, assigned>>

AddToGroup(d, g) ==
    /\ peers[d].here /\ assigned[g].here
    /\ peers' = [peers EXCEPT ![d].group = g]
    /\ Commits("forget", {d}, Nothing)
    /\ UNCHANGED <<strategies, assigned>>

RemoveFromGroup(d, g) ==
    /\ peers[d].group = g
    /\ peers' = [peers EXCEPT ![d].group = Nothing]
    /\ Commits("forget", {d}, Nothing)
    /\ UNCHANGED <<strategies, assigned>>

DeleteDeviceGroup(g) ==
    /\ assigned[g].here
    /\ assigned' = [assigned EXCEPT ![g] = [here |-> FALSE, strategy |-> Nothing]]
    /\ peers' = [d \in Devices |->
          [peers[d] EXCEPT !.group = IF @ = g THEN Nothing ELSE @]]
    /\ Commits("forget", {d \in Devices : peers[d].group = g}, Nothing)
    /\ UNCHANGED strategies

(* createSysinfo with a preset group, a login or logout on the device, a   *)
(* deleted user (whose devices stay bound), and a deleted device that      *)
(* registers again: none of them forgets anything.                         *)
AddToPresetGroup(d, g) ==
    /\ peers[d].here /\ assigned[g].here
    /\ peers' = [peers EXCEPT ![d].group = g]
    /\ Silently({d})
    /\ UNCHANGED <<strategies, assigned>>

BindDevice(d) ==
    /\ peers[d].here
    /\ \E u \in {x \in Owners : assigned[x].here} \cup {Nothing} :
          peers' = [peers EXCEPT ![d].user = u]
    /\ Silently({d})
    /\ UNCHANGED <<strategies, assigned>>

DeleteUser(u) ==
    /\ assigned[u].here
    /\ assigned' = [assigned EXCEPT ![u] = [here |-> FALSE, strategy |-> Nothing]]
    /\ Silently({d \in Devices : peers[d].user = u})
    /\ UNCHANGED <<strategies, peers>>

DeleteDevice(d) ==
    /\ peers[d].here
    /\ peers' = [peers EXCEPT ![d] = Absent]
    /\ Silently({d})
    /\ UNCHANGED <<strategies, assigned>>

RegisterDevice(d) ==
    /\ ~peers[d].here
    /\ peers' = [peers EXCEPT ![d] = Present]
    /\ UNCHANGED <<strategies, assigned, caches, resolving, change, lapsed>>

-----------------------------------------------------------------------------
(* After the commit. *)
Publish ==
    /\ change.op = "publish"
    /\ objectCache' = [objectCache EXCEPT ![change.guid] = strategies[change.guid]]
    /\ change' = NoChange
    /\ UNCHANGED <<tables, deviceCache, resolving, lapsed>>

(* Mutant: the devices remember the deleted strategy. *)
DropObject ==
    /\ change.op = "drop"
    /\ objectCache' = objectCache
    /\ change' = NoChange
    /\ UNCHANGED <<tables, deviceCache, resolving, lapsed>>

Drop ==
    LET with == {d \in Devices : deviceCache[d] = change.guid}
    IN /\ change.op = "drop"
       /\ objectCache' = [objectCache EXCEPT ![change.guid] = Nothing]
       /\ deviceCache' = [d \in Devices |-> IF d \in with THEN Unknown ELSE deviceCache[d]]
       /\ lapsed' = lapsed \ with
       /\ change' = NoChange
       /\ UNCHANGED <<tables, resolving>>

(* invalidateDeviceStrategyCache. *)
Forget ==
    /\ change.op = "forget"
    /\ deviceCache' = [d \in Devices |->
          IF d \in change.devices THEN Unknown ELSE deviceCache[d]]
    /\ lapsed' = lapsed \ change.devices
    /\ change' = NoChange
    /\ UNCHANGED <<tables, objectCache, resolving>>

Next ==
    \/ \E b \in Resolutions :
          \/ \E d \in Devices : ReadPeer(b, d)
          \/ LookUp(b) \/ ReadStrategy(b) \/ ReadOwner(b) \/ Remember(b)
    \/ \E s \in Guids :
          \/ CreateStrategy(s) \/ UpdateStrategy(s) \/ DeleteStrategy(s)
          \/ AssignStrategy(s) \/ UnassignStrategy(s)
    \/ \E d \in Devices :
          \/ UpdateDevice(d) \/ BindDevice(d) \/ DeleteDevice(d) \/ RegisterDevice(d)
          \/ \E g \in PeerGroups :
                \/ AddToGroup(d, g) \/ RemoveFromGroup(d, g) \/ AddToPresetGroup(d, g)
    \/ \E g \in PeerGroups : DeleteDeviceGroup(g)
    \/ \E u \in Owners : DeleteUser(u)
    \/ Publish \/ Drop \/ Forget

Spec == Init /\ [][Next]_vars

-----------------------------------------------------------------------------
Found(s) == IF Exists(s) THEN <<s, strategies[s]>> ELSE Nothing
Assigned(d) ==
    LET p == peers[d]
    IN IF Exists(p.strategy) THEN Found(p.strategy)
       ELSE IF Exists(StrategyOf(p.user)) THEN Found(StrategyOf(p.user))
       ELSE Found(StrategyOf(p.group))

(* What is remembered for a device is what its rows say, the latest edit   *)
(* included, whichever of the device, its user or its group the strategy   *)
(* came from and whatever was assigned, edited, moved or deleted since:    *)
(* unless a heartbeat in flight was overtaken by a change, or a change     *)
(* that forgets nothing was made, since the device was last forgotten.     *)
MemoryFollowsRows ==
    \A d \in Devices : change.op = "idle" /\ peers[d].here /\ d \notin lapsed
                          => Remembered(d) \in {Unknown, Assigned(d)}
=============================================================================
