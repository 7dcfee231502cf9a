--------------------------- MODULE HeartbeatBuffer --------------------------
(***************************************************************************)
(* What known devices report between two flushes.  Heartbeats put the      *)
(* device's fields and its open connections in two buffers; a periodic     *)
(* flush moves both to the database in one transaction and puts them back  *)
(* when it fails; a stop of the process flushes up to three times.  Reads  *)
(* of open connections prefer the buffers.  Administrators queue forced    *)
(* disconnects, which every heartbeat delivers again until obeyed.         *)
(***************************************************************************)
EXTENDS Naturals, FiniteSets

CONSTANTS Devices, Conns,
          MaxReports,     \* heartbeats in all
          MaxDeletions,   \* deletions of a device
          None

BufferAssumption ==
    /\ MaxReports \in Nat /\ MaxDeletions \in Nat
    /\ None \notin Nat

Attempts == 3     \* flushes of onModuleDestroy

VARIABLES rows,           \* peers table: 0 without a row, else the report it shows
          connections,    \* active_connections table
          peerBuffer, connsBuffer,          \* the buffers
          flushingPeers, flushingConns,     \* the snapshots of a flush
          flushing,       \* whether a flush is under way
          beats,          \* heartbeat in flight, after the lookup of its row
          pending,        \* the disconnect store
          asked,          \* connections of a disconnect request, checked, not yet queued
          phase,          \* "running", "stopping", "closed"
          attempt, failures,                \* of onModuleDestroy
          reports, deletions,
          updated, reported, accepted  \* history: what the device said last, at all
                                       \* and before the stop, while it had a row

buffers == <<peerBuffer, connsBuffer, flushingPeers, flushingConns, flushing>>
stop    == <<phase, attempt, failures, accepted>>
bounds  == <<reports, deletions>>
vars == <<rows, connections, buffers, beats, pending, asked, stop, bounds, updated, reported>>

Empty == [d \in Devices |-> None]
Lists == (SUBSET Conns) \cup {None}    \* None: a report without a list

NoBeat == [number |-> 0, conns |-> None, known |-> FALSE]

Init ==
    /\ rows = [d \in Devices |-> 0] /\ connections = [d \in Devices |-> {}]
    /\ peerBuffer = Empty /\ connsBuffer = Empty
    /\ flushingPeers = Empty /\ flushingConns = Empty /\ flushing = FALSE
    /\ beats = [d \in Devices |-> NoBeat]
    /\ pending = [d \in Devices |-> {}] /\ asked = [d \in Devices |-> {}]
    /\ phase = "running" /\ attempt = 1 /\ failures = 0
    /\ reports = 0 /\ deletions = 0
    /\ updated = Empty /\ reported = Empty /\ accepted = Empty

-----------------------------------------------------------------------------
(* A heartbeat looks for the row of its device ... *)
HandleHeartbeat(d, conns) ==
    /\ phase # "closed" /\ reports < MaxReports /\ beats[d] = NoBeat
    /\ reports' = reports + 1
    /\ beats' = [beats EXCEPT ![d] = [number |-> reports', conns |-> conns, known |-> rows[d] # 0]]
    /\ UNCHANGED <<rows, connections, buffers, pending, asked, stop, deletions, updated, reported>>

(* ... registers it, or buffers its fields; then it buffers the open       *)
(* connections and drops the disconnects they show to be done.             *)
Reports(d, there) ==
    /\ IF beats[d].conns = None
       THEN UNCHANGED <<connsBuffer, reported, pending>>
       ELSE /\ connsBuffer' = [connsBuffer EXCEPT ![d] = beats[d].conns]
            /\ reported' = [reported EXCEPT ![d] = IF there THEN beats[d].conns ELSE @]
            /\ pending' = [pending EXCEPT ![d] = @ \cap beats[d].conns]
    /\ beats' = [beats EXCEPT ![d] = NoBeat]

BufferReport(d) ==
    /\ beats[d].number > 0 /\ beats[d].known
    /\ peerBuffer' = [peerBuffer EXCEPT ![d] = beats[d].number]
    /\ updated' = [updated EXCEPT ![d] = IF rows[d] # 0 THEN beats[d].number ELSE @]
    /\ Reports(d, rows[d] # 0)
    /\ UNCHANGED <<rows, connections, flushingPeers, flushingConns, flushing, asked, stop, bounds>>

RegisterDevice(d) ==
    /\ beats[d].number > 0 /\ ~beats[d].known
    /\ rows' = [rows EXCEPT ![d] = beats[d].number]
    /\ Reports(d, TRUE)
    /\ UNCHANGED <<connections, peerBuffer, flushingPeers, flushingConns, flushing, asked, stop,
                   bounds, updated>>

(* The row of a device goes, and its connections with it. *)
DeleteDevice(d) ==
    /\ rows[d] # 0 /\ deletions < MaxDeletions
    /\ deletions' = deletions + 1
    /\ rows' = [rows EXCEPT ![d] = 0]
    /\ connections' = [connections EXCEPT ![d] = {}]
    /\ updated' = [updated EXCEPT ![d] = None]
    /\ reported' = [reported EXCEPT ![d] = None]
    /\ accepted' = [accepted EXCEPT ![d] = None]
    /\ UNCHANGED <<buffers, beats, pending, asked, phase, attempt, failures, reports>>

-----------------------------------------------------------------------------
(* flush: both buffers are taken and emptied ... *)
Buffered == peerBuffer # Empty \/ connsBuffer # Empty

TakeSnapshot ==
    /\ flushing' = TRUE
    /\ flushingPeers' = peerBuffer /\ flushingConns' = connsBuffer
    /\ peerBuffer' = Empty /\ connsBuffer' = Empty

ScheduledFlush ==
    /\ phase # "closed" /\ ~flushing /\ Buffered
    /\ TakeSnapshot
    /\ UNCHANGED <<rows, connections, beats, pending, asked, stop, bounds, updated, reported>>

FlushEnds ==
    flushing' = FALSE /\ flushingPeers' = Empty /\ flushingConns' = Empty

(* ... written in one transaction, for the rows that are still there ... *)
FlushCommits ==
    /\ flushing /\ phase # "closed"
    /\ rows' = [d \in Devices |->
          IF rows[d] # 0 /\ flushingPeers[d] # None THEN flushingPeers[d] ELSE rows[d]]
    /\ connections' = [d \in Devices |->
          IF rows[d] # 0 /\ flushingConns[d] # None THEN flushingConns[d] ELSE connections[d]]
    /\ FlushEnds
    /\ UNCHANGED <<peerBuffer, connsBuffer, beats, pending, asked, stop, bounds, updated, reported>>

(* ... or put back, where nothing newer has come. *)
PutBack(buffer, snapshot) ==
    [d \in Devices |-> IF buffer[d] = None THEN snapshot[d] ELSE buffer[d]]

FlushFails ==
    /\ flushing /\ phase # "closed"
    /\ peerBuffer' = PutBack(peerBuffer, flushingPeers)
    /\ connsBuffer' = PutBack(connsBuffer, flushingConns)
    /\ FlushEnds
    /\ failures' = IF phase = "stopping" /\ failures < Attempts THEN failures + 1 ELSE failures
    /\ UNCHANGED <<rows, connections, beats, pending, asked, phase, attempt, accepted,
                   bounds, updated, reported>>

-----------------------------------------------------------------------------
(* onModuleDestroy.  Requests are still served meanwhile. *)
ModuleDestroy ==
    /\ phase = "running"
    /\ phase' = "stopping"
    /\ accepted' = updated
    /\ UNCHANGED <<rows, connections, buffers, beats, pending, asked, attempt, failures, bounds,
                   updated, reported>>

(* Mutant: the stop does not wait for a flush under way. *)
DestroyUnawaited ==
    /\ phase = "stopping" /\ ~Buffered
    /\ phase' = "closed"
    /\ UNCHANGED <<rows, connections, buffers, beats, pending, asked, attempt, failures, accepted,
                   bounds, updated, reported>>

(* Once no flush is under way it ends with the buffers empty or the        *)
(* attempts used up ...                                                    *)
DestroyEnds ==
    /\ phase = "stopping" /\ ~flushing
    /\ Buffered => attempt > Attempts
    /\ phase' = "closed"
    /\ UNCHANGED <<rows, connections, buffers, beats, pending, asked, attempt, failures, accepted,
                   bounds, updated, reported>>

(* ... else it flushes once more. *)
DestroyFlush ==
    /\ phase = "stopping" /\ ~flushing /\ Buffered /\ attempt <= Attempts
    /\ attempt' = attempt + 1
    /\ TakeSnapshot
    /\ UNCHANGED <<rows, connections, beats, pending, asked, phase, failures, accepted, bounds,
                   updated, reported>>

-----------------------------------------------------------------------------
(* Mutant: reads look in the buffer and the table only. *)
ActiveUnflushed(d) ==
    IF connsBuffer[d] # None THEN connsBuffer[d] ELSE connections[d]

(* getActiveConnectionIds *)
ActiveConnectionIds(d) ==
    IF connsBuffer[d] # None THEN connsBuffer[d]
    ELSE IF flushingConns[d] # None THEN flushingConns[d]
    ELSE connections[d]

(* disconnectDevice: the ids are checked, and after another check of the   *)
(* administrator's rights queued.                                          *)
DisconnectDevice(d) ==
    /\ phase # "closed" /\ rows[d] # 0 /\ asked[d] = {}
    /\ \E ids \in (SUBSET ActiveConnectionIds(d)) \ {{}} : asked' = [asked EXCEPT ![d] = ids]
    /\ UNCHANGED <<rows, connections, buffers, beats, pending, stop, bounds, updated, reported>>

AddPendingDisconnects(d) ==
    /\ phase # "closed" /\ asked[d] # {}
    /\ pending' = IF rows[d] # 0 THEN [pending EXCEPT ![d] = @ \cup asked[d]] ELSE pending
    /\ asked' = [asked EXCEPT ![d] = {}]
    /\ UNCHANGED <<rows, connections, buffers, beats, stop, bounds, updated, reported>>

Next ==
    \/ \E d \in Devices :
          \/ \E conns \in Lists : HandleHeartbeat(d, conns)
          \/ BufferReport(d) \/ RegisterDevice(d) \/ DeleteDevice(d)
          \/ DisconnectDevice(d) \/ AddPendingDisconnects(d)
    \/ ScheduledFlush \/ FlushCommits \/ FlushFails
    \/ ModuleDestroy \/ DestroyFlush \/ DestroyEnds

Spec == Init /\ [][Next]_vars

-----------------------------------------------------------------------------
(* Every table, buffer and counter has its type. *)
TypeOK ==
    /\ rows \in [Devices -> 0..MaxReports]
    /\ connections \in [Devices -> SUBSET Conns]
    /\ peerBuffer \in [Devices -> 1..MaxReports \cup {None}]
    /\ connsBuffer \in [Devices -> Lists]
    /\ flushingPeers \in [Devices -> 1..MaxReports \cup {None}]
    /\ flushingConns \in [Devices -> Lists]
    /\ flushing \in BOOLEAN
    /\ beats \in [Devices -> [number: 0..MaxReports, conns: Lists, known: BOOLEAN]]
    /\ pending \in [Devices -> SUBSET Conns] /\ asked \in [Devices -> SUBSET Conns]
    /\ phase \in {"running", "stopping", "closed"}
    /\ attempt \in 1..Attempts + 1 /\ failures \in 0..Attempts
    /\ reports \in 0..MaxReports /\ deletions \in 0..MaxDeletions
    /\ updated \in [Devices -> 1..MaxReports \cup {None}]
    /\ reported \in [Devices -> Lists]
    /\ accepted \in [Devices -> 1..MaxReports \cup {None}]

(* getActiveConnectionIds shows the connections the device reported last,  *)
(* before, during and after a flush, whether it commits or fails.          *)
LatestConnectionsShown ==
    \A d \in Devices : reported[d] # None => ActiveConnectionIds(d) = reported[d]

(* The newest fields of a device are never lost on the way to its row: a   *)
(* flush that fails does not put older ones over them, and a stop loses    *)
(* none that were accepted before it began, unless all three flushes fail. *)
FieldsKept ==
    /\ \A d \in Devices : updated[d] # None =>
           updated[d] = IF peerBuffer[d] # None THEN peerBuffer[d]
                        ELSE IF flushingPeers[d] # None THEN flushingPeers[d]
                        ELSE rows[d]
    /\ (phase = "closed" /\ failures < Attempts)
           => \A d \in Devices : accepted[d] # None => rows[d] >= accepted[d]
=============================================================================
