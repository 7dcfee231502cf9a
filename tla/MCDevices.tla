------------------------------ MODULE MCDevices ------------------------------
(* Devices on small instances: their registry, the buffers of their        *)
(* heartbeats, their strategies, and the audit log of their connections    *)
(* and files.  A behaviour uses the operations of one of these parts, and  *)
(* the others stay as they are.                                            *)
EXTENDS DeviceRegistry

CONSTANTS Parts,     \* of "registry", "heartbeats", "strategies", "connections", "files"
          Devices, Conns, MaxReports, MaxDeletions,
          Owners, PeerGroups, MaxStrategies, Resolutions, MaxEdits, Nothing, Removed, Unknown,
          Links, Nonces, Reporters, MaxRows, MaxRequests, MaxCleanups

VARIABLES part,
          rows, connections, peerBuffer, connsBuffer, flushingPeers, flushingConns, flushing,
          inFlight, pending, asked, phase, attempt, failures, reports, deletions,
          updated, reported, accepted,
          strategies, devices, assigned, objectCache, deviceCache, resolving, change, lapsed,
          auditRows, audits, handling, requests, cleanups, answers, done, overlapped

Buffer == INSTANCE HeartbeatBuffer WITH beats <- inFlight
Strategy == INSTANCE Strategies WITH peers <- devices
Audit == INSTANCE Audits WITH connections <- auditRows

ASSUME BuffersBounded == Buffer!BufferAssumption
ASSUME StrategiesBounded == Strategy!StrategyAssumption
ASSUME AuditsBounded == Audit!AuditAssumption

bufferVars == <<rows, connections, peerBuffer, connsBuffer, flushingPeers, flushingConns, flushing,
                inFlight, pending, asked, phase, attempt, failures, reports, deletions,
                updated, reported, accepted>>
strategyVars ==
    <<strategies, devices, assigned, objectCache, deviceCache, resolving, change, lapsed>>
auditVars == <<auditRows, audits, handling, requests, cleanups, answers, done, overlapped>>

PartsInit == part \in Parts /\ Init /\ Buffer!Init /\ Strategy!Init /\ Audit!Init
PartsNext ==
    \/ part = "registry" /\ Next /\ UNCHANGED <<part, bufferVars, strategyVars, auditVars>>
    \/ part = "heartbeats" /\ Buffer!Next /\ UNCHANGED <<part, vars, strategyVars, auditVars>>
    \/ part = "strategies" /\ Strategy!Next /\ UNCHANGED <<part, vars, bufferVars, auditVars>>
    \/ part = "connections" /\ Audit!NextOfConnections
       /\ UNCHANGED <<part, vars, bufferVars, strategyVars>>
    \/ part = "files" /\ Audit!NextOfAudits /\ UNCHANGED <<part, vars, bufferVars, strategyVars>>
PartsSpec == PartsInit /\ [][PartsNext]_<<part, vars, bufferVars, strategyVars, auditVars>>

(* See HeartbeatBuffer: reads show the connections a device reported last. *)
LatestConnectionsShown == Buffer!LatestConnectionsShown

(* See HeartbeatBuffer: neither a failed flush nor a stop loses fields.    *)
FieldsKept == Buffer!FieldsKept

(* See Strategies: what findStrategyForPeer remembers follows the rows.    *)
MemoryFollowsRows == Strategy!MemoryFollowsRows

(* See Audits: a report that is sent again is recorded once, and those of  *)
(* a connection come together.                                             *)
ReportsRecorded == Audit!ReportsRecorded
=============================================================================
