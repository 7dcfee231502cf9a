---------------------------- MODULE DeviceProofs ----------------------------
(***************************************************************************)
(* Devices: the newest report is kept and shown, the audit log records a   *)
(* report once, what is remembered of strategies follows the rows, and     *)
(* what is deleted stays deleted, with its bans and releases accounted for.*)
(***************************************************************************)
EXTENDS MCDevices, FiniteSetTheorems, TLAPS

(***************************************************************************)
(* The heartbeat buffer.                                                   *)
(***************************************************************************)

\* A flush that is not under way has no snapshot.
NoSnapshot == ~flushing => flushingPeers = Buffer!Empty /\ flushingConns = Buffer!Empty

\* What is remembered of a device is remembered as long as it has a row.
OnlyWithRow(d) == rows[d] = 0 => updated[d] = None /\ reported[d] = None /\ accepted[d] = None

\* The report in flight is newer than whatever is kept of its device, ...
Newer(n, x) == x = None \/ x < n
InFlightNewest(d) ==
    inFlight[d].number > 0 =>
        /\ Newer(inFlight[d].number, updated[d]) /\ Newer(inFlight[d].number, peerBuffer[d])
        /\ Newer(inFlight[d].number, flushingPeers[d]) /\ rows[d] < inFlight[d].number
        /\ inFlight[d].known \/ rows[d] = 0
ReportsNewest(d) ==
    /\ inFlight[d].number <= reports /\ rows[d] <= reports
    /\ updated[d] # None => updated[d] <= reports
    /\ peerBuffer[d] # None => peerBuffer[d] <= reports
    /\ flushingPeers[d] # None => flushingPeers[d] <= reports

\* ... the buffer than the snapshot, and both than the row: unless they are
\* from before the device was deleted, and then nothing is remembered of it.
InOrder(d) ==
    /\ flushingPeers[d] # None /\ peerBuffer[d] # None => flushingPeers[d] < peerBuffer[d]
    /\ updated[d] # None /\ (peerBuffer[d] # None \/ flushingPeers[d] # None)
          => rows[d] < updated[d]

Newest(d) == IF peerBuffer[d] # None THEN peerBuffer[d]
             ELSE IF flushingPeers[d] # None THEN flushingPeers[d] ELSE rows[d]
NewestKept(d) == updated[d] # None => updated[d] = Newest(d)

\* What was accepted before the stop is in the row, or on its way there and
\* not behind anything older.
InRow(d) == accepted[d] # None => rows[d] >= accepted[d]
AcceptedKept(d) ==
    accepted[d] # None =>
        /\ phase # "running" /\ updated[d] # None /\ accepted[d] <= updated[d]
        /\ rows[d] >= accepted[d] /\ flushingPeers[d] # None => flushingPeers[d] >= accepted[d]
InSnapshot(d) ==
    accepted[d] # None =>
        IF flushingPeers[d] # None THEN flushingPeers[d] >= accepted[d] ELSE rows[d] >= accepted[d]

\* While the console stops, the attempts that have ended have failed, or all
\* that was accepted is in the rows.
StopProgress ==
    /\ phase = "running" => attempt = 1 /\ failures = 0
    /\ phase = "stopping" =>
          \/ \A d \in Devices : InRow(d)
          \/ failures >= attempt - 1
          \/ flushing /\ failures >= attempt - 2 /\ \A d \in Devices : InSnapshot(d)
    /\ phase = "closed" /\ failures < Buffer!Attempts => \A d \in Devices : InRow(d)

ReportKept(d) ==
    /\ OnlyWithRow(d) /\ InFlightNewest(d) /\ ReportsNewest(d) /\ InOrder(d)
    /\ NewestKept(d) /\ AcceptedKept(d)

BufferIInv ==
    /\ Buffer!TypeOK /\ NoSnapshot /\ StopProgress /\ Buffer!LatestConnectionsShown
    /\ \A d \in Devices : ReportKept(d)

(***************************************************************************)
(* The types.                                                              *)
(***************************************************************************)

LEMMA BufferTypesInit == Buffer!Init => Buffer!TypeOK
  <1> SUFFICES ASSUME Buffer!Init PROVE Buffer!TypeOK
    OBVIOUS
  <1> USE BuffersBounded DEF Buffer!BufferAssumption, Buffer!Init
  <1>1. /\ rows \in [Devices -> 0..MaxReports] /\ connections \in [Devices -> SUBSET Conns]
        /\ pending \in [Devices -> SUBSET Conns] /\ asked \in [Devices -> SUBSET Conns]
    OBVIOUS
  <1>2. /\ Buffer!Empty \in [Devices -> 1..MaxReports \cup {None}]
        /\ Buffer!Empty \in [Devices -> Buffer!Lists]
    BY DEF Buffer!Empty, Buffer!Lists
  <1>3. inFlight \in [Devices -> [number: 0..MaxReports, conns: Buffer!Lists, known: BOOLEAN]]
    BY DEF Buffer!NoBeat, Buffer!Lists
  <1>4. /\ phase \in {"running", "stopping", "closed"} /\ flushing \in BOOLEAN
        /\ attempt \in 1..Buffer!Attempts + 1 /\ failures \in 0..Buffer!Attempts
        /\ reports \in 0..MaxReports /\ deletions \in 0..MaxDeletions
    <2>1. phase = "running" /\ flushing \in BOOLEAN
      OBVIOUS
    <2>2. attempt = 1 /\ failures = 0 /\ reports = 0 /\ deletions = 0
      OBVIOUS
    <2> HIDE DEF Buffer!Init
    <2> QED
      BY <2>1, <2>2 DEF Buffer!Attempts
  <1>5. /\ peerBuffer \in [Devices -> 1..MaxReports \cup {None}]
        /\ flushingPeers \in [Devices -> 1..MaxReports \cup {None}]
        /\ updated \in [Devices -> 1..MaxReports \cup {None}]
        /\ accepted \in [Devices -> 1..MaxReports \cup {None}]
        /\ connsBuffer \in [Devices -> Buffer!Lists]
        /\ flushingConns \in [Devices -> Buffer!Lists]
        /\ reported \in [Devices -> Buffer!Lists]
    BY <1>2
  <1> HIDE DEF Buffer!Init
  <1> QED
    BY <1>1, <1>3, <1>4, <1>5 DEF Buffer!TypeOK

\* What the end of a heartbeat does to the buffer of connections, and to the
\* queue of disconnects.
LEMMA ReportsTyped ==
    ASSUME Buffer!TypeOK, NEW d \in Devices, NEW there \in BOOLEAN, Buffer!Reports(d, there)
    PROVE  /\ connsBuffer' \in [Devices -> Buffer!Lists] /\ reported' \in [Devices -> Buffer!Lists]
           /\ pending' \in [Devices -> SUBSET Conns]
           /\ inFlight' \in [Devices -> [number: 0..MaxReports, conns: Buffer!Lists,
                                         known: BOOLEAN]]
  <1>1. inFlight' \in [Devices -> [number: 0..MaxReports, conns: Buffer!Lists, known: BOOLEAN]]
    <2>1. Buffer!NoBeat \in [number: 0..MaxReports, conns: Buffer!Lists, known: BOOLEAN]
      BY BuffersBounded DEF Buffer!NoBeat, Buffer!Lists, Buffer!BufferAssumption
    <2> QED
      BY <2>1 DEF Buffer!Reports, Buffer!TypeOK
  <1>2. CASE inFlight[d].conns = None
    BY <1>1, <1>2 DEF Buffer!Reports, Buffer!TypeOK
  <1>3. CASE inFlight[d].conns # None
    <2>1. inFlight[d].conns \in SUBSET Conns /\ inFlight[d].conns \in Buffer!Lists
      BY <1>3 DEF Buffer!TypeOK, Buffer!Lists
    <2>2. connsBuffer' \in [Devices -> Buffer!Lists] /\ reported' \in [Devices -> Buffer!Lists]
      BY <1>3, <2>1 DEF Buffer!Reports, Buffer!TypeOK
    <2>3. pending' \in [Devices -> SUBSET Conns]
      BY <1>3, <2>1 DEF Buffer!Reports, Buffer!TypeOK
    <2> QED
      BY <1>1, <2>2, <2>3
  <1> QED
    BY <1>2, <1>3

LEMMA HeartbeatTyped ==
    ASSUME Buffer!TypeOK, NEW d \in Devices,
           \/ \E conns \in Buffer!Lists : Buffer!HandleHeartbeat(d, conns)
           \/ Buffer!BufferReport(d) \/ Buffer!RegisterDevice(d)
    PROVE  Buffer!TypeOK'
  <1> USE BuffersBounded DEF Buffer!BufferAssumption, Buffer!TypeOK, Buffer!Lists, Buffer!NoBeat,
                         Buffer!buffers, Buffer!stop, Buffer!bounds
  <1>1. ASSUME NEW conns \in Buffer!Lists, Buffer!HandleHeartbeat(d, conns) PROVE Buffer!TypeOK'
    BY <1>1 DEF Buffer!HandleHeartbeat
  <1>2. CASE Buffer!BufferReport(d)
    <2>1. (rows[d] # 0) \in BOOLEAN /\ Buffer!Reports(d, rows[d] # 0)
      BY <1>2 DEF Buffer!BufferReport
    <2>2. /\ connsBuffer' \in [Devices -> Buffer!Lists] /\ reported' \in [Devices -> Buffer!Lists]
          /\ pending' \in [Devices -> SUBSET Conns]
          /\ inFlight' \in [Devices -> [number: 0..MaxReports, conns: Buffer!Lists,
                                        known: BOOLEAN]]
      BY <2>1, ReportsTyped
    <2>3. inFlight[d].number \in 1..MaxReports
      BY <1>2 DEF Buffer!BufferReport
    <2>4. /\ peerBuffer' \in [Devices -> 1..MaxReports \cup {None}]
          /\ updated' \in [Devices -> 1..MaxReports \cup {None}]
      BY <1>2, <2>3 DEF Buffer!BufferReport
    <2> QED
      BY <1>2, <2>2, <2>4 DEF Buffer!BufferReport
  <1>3. CASE Buffer!RegisterDevice(d)
    <2>1. /\ connsBuffer' \in [Devices -> Buffer!Lists] /\ reported' \in [Devices -> Buffer!Lists]
          /\ pending' \in [Devices -> SUBSET Conns]
          /\ inFlight' \in [Devices -> [number: 0..MaxReports, conns: Buffer!Lists,
                                        known: BOOLEAN]]
      BY <1>3, ReportsTyped DEF Buffer!RegisterDevice
    <2>2. rows' \in [Devices -> 0..MaxReports]
      BY <1>3 DEF Buffer!RegisterDevice
    <2> QED
      BY <1>3, <2>1, <2>2 DEF Buffer!RegisterDevice
  <1> QED
    BY <1>1, <1>2, <1>3

LEMMA RequestTyped ==
    ASSUME Buffer!TypeOK, NEW d \in Devices,
           \/ Buffer!DeleteDevice(d) \/ Buffer!DisconnectDevice(d)
           \/ Buffer!AddPendingDisconnects(d)
    PROVE  Buffer!TypeOK'
  <1> USE BuffersBounded DEF Buffer!BufferAssumption, Buffer!TypeOK, Buffer!Lists, Buffer!buffers,
                             Buffer!stop,
                         Buffer!bounds
  <1>1. CASE Buffer!DeleteDevice(d)
    BY <1>1 DEF Buffer!DeleteDevice
  <1>2. CASE Buffer!DisconnectDevice(d)
    <2>1. Buffer!ActiveConnectionIds(d) \in SUBSET Conns
      BY DEF Buffer!ActiveConnectionIds
    <2> QED
      BY <1>2, <2>1 DEF Buffer!DisconnectDevice
  <1>3. CASE Buffer!AddPendingDisconnects(d)
    BY <1>3 DEF Buffer!AddPendingDisconnects
  <1> QED
    BY <1>1, <1>2, <1>3

LEMMA FlushTyped ==
    ASSUME Buffer!TypeOK,
           \/ Buffer!ScheduledFlush \/ Buffer!FlushCommits \/ Buffer!FlushFails
           \/ Buffer!ModuleDestroy \/ Buffer!DestroyFlush \/ Buffer!DestroyEnds
    PROVE  Buffer!TypeOK'
  <1> USE BuffersBounded DEF Buffer!BufferAssumption, Buffer!TypeOK, Buffer!Lists, Buffer!buffers,
                             Buffer!stop,
                         Buffer!bounds, Buffer!Empty, Buffer!Attempts
  <1>1. CASE Buffer!ScheduledFlush
    BY <1>1 DEF Buffer!ScheduledFlush, Buffer!TakeSnapshot
  <1>2. CASE Buffer!FlushCommits
    <2>1. rows' \in [Devices -> 0..MaxReports] /\ connections' \in [Devices -> SUBSET Conns]
      BY <1>2 DEF Buffer!FlushCommits
    <2>2. UNCHANGED <<peerBuffer, connsBuffer, inFlight, pending, asked, phase, attempt, failures,
                      accepted, reports, deletions, updated, reported>>
      BY <1>2 DEF Buffer!FlushCommits
    <2>3. flushing' = FALSE /\ flushingPeers' = Buffer!Empty /\ flushingConns' = Buffer!Empty
      BY <1>2 DEF Buffer!FlushCommits, Buffer!FlushEnds
    <2> QED
      BY <2>1, <2>2, <2>3
  <1>3. CASE Buffer!FlushFails
    <2>0. /\ \A d \in Devices : Buffer!PutBack(peerBuffer, flushingPeers)[d]
                                    \in 1..MaxReports \cup {None}
          /\ \A d \in Devices : Buffer!PutBack(connsBuffer, flushingConns)[d]
                                    \in (SUBSET Conns) \cup {None}
      BY DEF Buffer!PutBack
    <2>1. /\ peerBuffer' \in [Devices -> 1..MaxReports \cup {None}]
          /\ connsBuffer' \in [Devices -> (SUBSET Conns) \cup {None}]
      <3>1. peerBuffer' = Buffer!PutBack(peerBuffer, flushingPeers)
            /\ connsBuffer' = Buffer!PutBack(connsBuffer, flushingConns)
        BY <1>3 DEF Buffer!FlushFails
      <3> QED
        BY <2>0, <3>1 DEF Buffer!PutBack
    <2>2. UNCHANGED <<rows, connections, inFlight, pending, asked, phase, attempt, accepted,
                      reports, deletions, updated, reported>>
      BY <1>3 DEF Buffer!FlushFails
    <2>3. flushing' = FALSE /\ flushingPeers' = Buffer!Empty /\ flushingConns' = Buffer!Empty
      BY <1>3 DEF Buffer!FlushFails, Buffer!FlushEnds
    <2>4. failures' \in 0..3
      BY <1>3 DEF Buffer!FlushFails
    <2>5. /\ flushingPeers' \in [Devices -> 1..MaxReports \cup {None}]
          /\ flushingConns' \in [Devices -> (SUBSET Conns) \cup {None}]
      BY <2>3
    <2> QED
      BY <2>1, <2>2, <2>3, <2>4, <2>5
  <1>4. CASE Buffer!ModuleDestroy
    BY <1>4 DEF Buffer!ModuleDestroy
  <1>5. CASE Buffer!DestroyFlush
    BY <1>5 DEF Buffer!DestroyFlush, Buffer!TakeSnapshot
  <1>6. CASE Buffer!DestroyEnds
    BY <1>6 DEF Buffer!DestroyEnds
  <1> QED
    BY <1>1, <1>2, <1>3, <1>4, <1>5, <1>6

(***************************************************************************)
(* What was reported is kept, step by step.                                *)
(***************************************************************************)

LEMMA DeviceTypes ==
    ASSUME Buffer!TypeOK, NEW e \in Devices
    PROVE  /\ rows[e] \in Nat /\ inFlight[e].number \in Nat /\ reports \in Nat
           /\ peerBuffer[e] # None => peerBuffer[e] \in Nat /\ peerBuffer[e] > 0
           /\ flushingPeers[e] # None => flushingPeers[e] \in Nat /\ flushingPeers[e] > 0
           /\ updated[e] # None => updated[e] \in Nat /\ updated[e] > 0
           /\ accepted[e] # None => accepted[e] \in Nat /\ accepted[e] > 0
  BY BuffersBounded DEF Buffer!TypeOK, Buffer!BufferAssumption

LEMMA KeptInit == Buffer!Init => BufferIInv
  <1> SUFFICES ASSUME Buffer!Init PROVE BufferIInv
    OBVIOUS
  <1>1. ASSUME NEW d \in Devices PROVE ReportKept(d)
    <2>1. /\ rows[d] = 0 /\ updated[d] = None /\ reported[d] = None /\ accepted[d] = None
          /\ peerBuffer[d] = None /\ flushingPeers[d] = None
          /\ inFlight[d].number = 0 /\ reports = 0
      BY <1>1 DEF Buffer!Init, Buffer!Empty, Buffer!NoBeat
    <2> QED
      BY <2>1 DEF ReportKept, OnlyWithRow, InFlightNewest, ReportsNewest, InOrder, NewestKept,
                  AcceptedKept
  <1>2. NoSnapshot /\ StopProgress /\ Buffer!LatestConnectionsShown
    BY DEF Buffer!Init, Buffer!Empty, NoSnapshot, StopProgress, Buffer!LatestConnectionsShown
  <1> QED
    BY <1>1, <1>2, BufferTypesInit DEF BufferIInv

LEMMA HandleKept ==
    ASSUME BufferIInv, NEW d \in Devices, NEW conns \in Buffer!Lists,
           Buffer!HandleHeartbeat(d, conns)
    PROVE  BufferIInv'
  <1>0. Buffer!TypeOK /\ Buffer!TypeOK'
    BY HeartbeatTyped DEF BufferIInv
  <1>1. UNCHANGED <<rows, connections, peerBuffer, connsBuffer, flushingPeers, flushingConns,
                    flushing, phase, attempt, failures, accepted, updated, reported>>
    BY DEF Buffer!HandleHeartbeat, Buffer!buffers, Buffer!stop
  <1>2. NoSnapshot' /\ StopProgress' /\ Buffer!LatestConnectionsShown'
    BY <1>1 DEF BufferIInv, NoSnapshot, StopProgress, InRow, InSnapshot,
                Buffer!LatestConnectionsShown, Buffer!ActiveConnectionIds
  <1>3. ASSUME NEW e \in Devices PROVE ReportKept(e)'
    <2>1. ReportKept(e)
      BY DEF BufferIInv
    <2>2. reports' = reports + 1
      BY DEF Buffer!HandleHeartbeat
    <2>3. CASE e # d
      <3>1. inFlight'[e] = inFlight[e]
        BY <2>3, <1>0 DEF Buffer!HandleHeartbeat, Buffer!TypeOK
      <3>2. ReportsNewest(e)'
        BY <1>0, <1>1, <2>1, <2>2, <3>1, DeviceTypes DEF ReportKept, ReportsNewest
      <3>3. InFlightNewest(e)'
        BY <1>1, <2>1, <3>1 DEF ReportKept, InFlightNewest, Newer
      <3> QED
        BY <1>1, <2>1, <3>2, <3>3
        DEF ReportKept, OnlyWithRow, InOrder, NewestKept, Newest, AcceptedKept
    <2>4. CASE e = d
      <3>1. inFlight'[e] = [number |-> reports + 1, conns |-> conns, known |-> rows[e] # 0]
        BY <2>2, <2>4, <1>0 DEF Buffer!HandleHeartbeat, Buffer!TypeOK
      <3>2. inFlight'[e].number = reports + 1 /\ (inFlight'[e].known \/ rows[e] = 0)
        <4>1. inFlight'[e].number = reports + 1
          BY <3>1
        <4>2. inFlight'[e].known = (rows[e] # 0)
          BY <3>1
        <4>3. inFlight'[e].known \/ rows[e] = 0
          BY <4>2, Zenon
        <4> QED
          BY <4>1, <4>3
      <3>3. ReportsNewest(e)'
        BY <1>0, <1>1, <2>1, <2>2, <3>2, DeviceTypes DEF ReportKept, ReportsNewest
      <3>4. InFlightNewest(e)'
        BY <1>0, <1>1, <2>1, <3>2, DeviceTypes
        DEF ReportKept, ReportsNewest, InFlightNewest, Newer
      <3> QED
        BY <1>1, <2>1, <3>3, <3>4
        DEF ReportKept, OnlyWithRow, InOrder, NewestKept, Newest, AcceptedKept
    <2> QED
      BY <2>3, <2>4
  <1> QED
    BY <1>0, <1>2, <1>3 DEF BufferIInv

LEMMA BufferKept ==
    ASSUME BufferIInv, NEW d \in Devices, Buffer!BufferReport(d)
    PROVE  BufferIInv'
  <1>0. Buffer!TypeOK /\ Buffer!TypeOK'
    BY HeartbeatTyped DEF BufferIInv
  <1>1. /\ UNCHANGED <<rows, connections, flushingPeers, flushingConns, flushing, phase, attempt,
                       failures, accepted, reports>>
        /\ peerBuffer' = [peerBuffer EXCEPT ![d] = inFlight[d].number]
        /\ updated' = [updated EXCEPT ![d] = IF rows[d] # 0 THEN inFlight[d].number ELSE @]
        /\ inFlight' = [inFlight EXCEPT ![d] = Buffer!NoBeat]
        /\ inFlight[d].number > 0
    BY DEF Buffer!BufferReport, Buffer!Reports, Buffer!stop, Buffer!bounds
  <1>2. NoSnapshot' /\ StopProgress'
    BY <1>1 DEF BufferIInv, NoSnapshot, StopProgress, InRow, InSnapshot
  <1>3. Buffer!LatestConnectionsShown'
    <2> SUFFICES ASSUME NEW e \in Devices, reported'[e] # None
                 PROVE  Buffer!ActiveConnectionIds(e)' = reported'[e]
      BY DEF Buffer!LatestConnectionsShown
    <2>1. reported[e] # None => Buffer!ActiveConnectionIds(e) = reported[e]
      BY DEF BufferIInv, Buffer!LatestConnectionsShown
    <2>2. CASE inFlight[d].conns = None
      BY <1>1, <2>1, <2>2 DEF Buffer!BufferReport, Buffer!Reports, Buffer!ActiveConnectionIds
    <2>3. CASE inFlight[d].conns # None
      <3>1. /\ connsBuffer' = [connsBuffer EXCEPT ![d] = inFlight[d].conns]
            /\ reported' = [reported EXCEPT ![d] = IF rows[d] # 0 THEN inFlight[d].conns ELSE @]
        BY <2>3 DEF Buffer!BufferReport, Buffer!Reports
      <3>2. rows[d] = 0 => reported[d] = None
        BY DEF BufferIInv, ReportKept, OnlyWithRow
      <3> QED
        BY <1>0, <1>1, <2>1, <2>3, <3>1, <3>2 DEF Buffer!ActiveConnectionIds, Buffer!TypeOK
    <2> QED
      BY <2>2, <2>3
  <1>4. ASSUME NEW e \in Devices PROVE ReportKept(e)'
    <2>1. ReportKept(e)
      BY DEF BufferIInv
    <2>2. rows'[e] = 0 => reported'[e] = None
      <3>1. rows[d] = 0 => reported' = reported \/ reported' = [reported EXCEPT ![d] = @]
        BY DEF Buffer!BufferReport, Buffer!Reports
      <3>2. CASE e = d
        BY <1>0, <1>1, <2>1, <3>1, <3>2 DEF ReportKept, OnlyWithRow, Buffer!TypeOK
      <3>3. CASE e # d
        <4>1. reported'[e] = reported[e]
          BY <1>0, <3>3 DEF Buffer!BufferReport, Buffer!Reports, Buffer!TypeOK
        <4> QED
          BY <1>1, <2>1, <4>1 DEF ReportKept, OnlyWithRow
      <3> QED
        BY <3>2, <3>3
    <2>3. CASE e # d
      <3>1. /\ inFlight'[e] = inFlight[e] /\ peerBuffer'[e] = peerBuffer[e]
            /\ updated'[e] = updated[e]
        BY <1>0, <1>1, <2>3 DEF Buffer!TypeOK
      <3> QED
        BY <1>0, <1>1, <2>1, <2>2, <3>1, DeviceTypes
        DEF ReportKept, OnlyWithRow, InFlightNewest, Newer, ReportsNewest, InOrder, NewestKept,
            Newest,
            AcceptedKept
    <2>4. CASE e = d
      <3>1. /\ inFlight'[e].number = 0 /\ peerBuffer'[e] = inFlight[e].number
            /\ updated'[e] = IF rows[e] # 0 THEN inFlight[e].number ELSE updated[e]
            /\ inFlight[e].number > 0
        BY <1>0, <1>1, <2>4 DEF Buffer!TypeOK, Buffer!NoBeat
      <3>2. inFlight[e].number # None
        BY <1>0, DeviceTypes, BuffersBounded DEF Buffer!BufferAssumption
      <3> QED
        BY <1>0, <1>1, <2>1, <2>2, <3>1, <3>2, DeviceTypes
        DEF ReportKept, OnlyWithRow, InFlightNewest, Newer, ReportsNewest, InOrder, NewestKept,
            Newest,
            AcceptedKept
    <2> QED
      BY <2>3, <2>4
  <1> QED
    BY <1>0, <1>2, <1>3, <1>4 DEF BufferIInv

LEMMA RegisterKept ==
    ASSUME BufferIInv, NEW d \in Devices, Buffer!RegisterDevice(d)
    PROVE  BufferIInv'
  <1>0. Buffer!TypeOK /\ Buffer!TypeOK'
    BY HeartbeatTyped DEF BufferIInv
  <1>1. /\ UNCHANGED <<connections, peerBuffer, flushingPeers, flushingConns, flushing, phase,
                       attempt, failures, accepted, reports, updated>>
        /\ rows' = [rows EXCEPT ![d] = inFlight[d].number]
        /\ inFlight' = [inFlight EXCEPT ![d] = Buffer!NoBeat]
        /\ inFlight[d].number > 0 /\ ~inFlight[d].known
    BY DEF Buffer!RegisterDevice, Buffer!Reports, Buffer!stop, Buffer!bounds
  <1>2. /\ rows[d] = 0 /\ updated[d] = None /\ reported[d] = None /\ accepted[d] = None
        /\ inFlight[d].number \in Nat
    BY <1>0, <1>1, DeviceTypes DEF BufferIInv, ReportKept, InFlightNewest, OnlyWithRow
  <1>3. ASSUME NEW e \in Devices
        PROVE  (InRow(e) => InRow(e)') /\ (InSnapshot(e) => InSnapshot(e)')
    <2>1. e # d => rows'[e] = rows[e]
      BY <1>0, <1>1 DEF Buffer!TypeOK
    <2> QED
      BY <1>1, <1>2, <2>1 DEF InRow, InSnapshot
  <1>4. NoSnapshot' /\ StopProgress'
    <2>1. NoSnapshot'
      BY <1>1 DEF BufferIInv, NoSnapshot
    <2>2. StopProgress
      BY DEF BufferIInv
    <2> QED
      BY <1>1, <1>3, <2>1, <2>2 DEF StopProgress
  <1>5. Buffer!LatestConnectionsShown'
    <2> SUFFICES ASSUME NEW e \in Devices, reported'[e] # None
                 PROVE  Buffer!ActiveConnectionIds(e)' = reported'[e]
      BY DEF Buffer!LatestConnectionsShown
    <2>1. reported[e] # None => Buffer!ActiveConnectionIds(e) = reported[e]
      BY DEF BufferIInv, Buffer!LatestConnectionsShown
    <2>2. CASE inFlight[d].conns = None
      BY <1>1, <2>1, <2>2 DEF Buffer!RegisterDevice, Buffer!Reports, Buffer!ActiveConnectionIds
    <2>3. CASE inFlight[d].conns # None
      <3>1. /\ connsBuffer' = [connsBuffer EXCEPT ![d] = inFlight[d].conns]
            /\ reported' = [reported EXCEPT ![d] = inFlight[d].conns]
        BY <2>3 DEF Buffer!RegisterDevice, Buffer!Reports
      <3> QED
        BY <1>0, <1>1, <2>1, <2>3, <3>1 DEF Buffer!ActiveConnectionIds, Buffer!TypeOK
    <2> QED
      BY <2>2, <2>3
  <1>6. ASSUME NEW e \in Devices PROVE ReportKept(e)'
    <2>1. ReportKept(e)
      BY DEF BufferIInv
    <2>2. CASE e # d
      <3>1. /\ inFlight'[e] = inFlight[e] /\ rows'[e] = rows[e] /\ reported'[e] = reported[e]
        BY <1>0, <1>1, <2>2 DEF Buffer!TypeOK, Buffer!RegisterDevice, Buffer!Reports
      <3> QED
        BY <1>1, <2>1, <3>1
        DEF ReportKept, OnlyWithRow, InFlightNewest, Newer, ReportsNewest, InOrder, NewestKept,
            Newest,
            AcceptedKept
    <2>3. CASE e = d
      <3>1. inFlight'[e].number = 0 /\ rows'[e] = inFlight[e].number
        BY <1>0, <1>1, <2>3 DEF Buffer!TypeOK, Buffer!NoBeat
      <3> QED
        BY <1>0, <1>1, <1>2, <2>1, <2>3, <3>1, DeviceTypes
        DEF ReportKept, OnlyWithRow, InFlightNewest, Newer, ReportsNewest, InOrder, NewestKept,
            Newest,
            AcceptedKept
    <2> QED
      BY <2>2, <2>3
  <1> QED
    BY <1>0, <1>4, <1>5, <1>6 DEF BufferIInv

LEMMA DeletionKept ==
    ASSUME BufferIInv, NEW d \in Devices, Buffer!DeleteDevice(d)
    PROVE  BufferIInv'
  <1>0. Buffer!TypeOK /\ Buffer!TypeOK'
    BY RequestTyped DEF BufferIInv
  <1>1. /\ UNCHANGED <<peerBuffer, connsBuffer, flushingPeers, flushingConns, flushing, inFlight,
                       phase, attempt, failures, reports>>
        /\ rows' = [rows EXCEPT ![d] = 0]
        /\ connections' = [connections EXCEPT ![d] = {}]
        /\ updated' = [updated EXCEPT ![d] = None]
        /\ reported' = [reported EXCEPT ![d] = None]
        /\ accepted' = [accepted EXCEPT ![d] = None]
    BY DEF Buffer!DeleteDevice, Buffer!buffers
  <1>2. /\ rows'[d] = 0 /\ updated'[d] = None /\ reported'[d] = None /\ accepted'[d] = None
        /\ \A e \in Devices \ {d} :
              /\ rows'[e] = rows[e] /\ updated'[e] = updated[e] /\ reported'[e] = reported[e]
              /\ accepted'[e] = accepted[e] /\ connections'[e] = connections[e]
    BY <1>0, <1>1 DEF Buffer!TypeOK
  <1>3. ASSUME NEW e \in Devices
        PROVE  (InRow(e) => InRow(e)') /\ (InSnapshot(e) => InSnapshot(e)')
    BY <1>1, <1>2 DEF InRow, InSnapshot
  <1>4. NoSnapshot' /\ StopProgress'
    <2>1. NoSnapshot'
      BY <1>1 DEF BufferIInv, NoSnapshot
    <2>2. StopProgress
      BY DEF BufferIInv
    <2> QED
      BY <1>1, <1>3, <2>1, <2>2 DEF StopProgress
  <1>5. Buffer!LatestConnectionsShown'
    BY <1>1, <1>2 DEF BufferIInv, Buffer!LatestConnectionsShown, Buffer!ActiveConnectionIds
  <1>6. ASSUME NEW e \in Devices PROVE ReportKept(e)'
    <2>1. ReportKept(e)
      BY DEF BufferIInv
    <2>2. CASE e # d
      BY <1>1, <1>2, <2>1, <2>2
      DEF ReportKept, OnlyWithRow, InFlightNewest, Newer, ReportsNewest, InOrder, NewestKept,
          Newest,
          AcceptedKept
    <2>3. CASE e = d
      BY <1>0, <1>1, <1>2, <2>1, <2>3, DeviceTypes
      DEF ReportKept, OnlyWithRow, InFlightNewest, Newer, ReportsNewest, InOrder, NewestKept,
          Newest,
          AcceptedKept
    <2> QED
      BY <2>2, <2>3
  <1> QED
    BY <1>0, <1>4, <1>5, <1>6 DEF BufferIInv

LEMMA DisconnectKept ==
    ASSUME BufferIInv, NEW d \in Devices,
           Buffer!DisconnectDevice(d) \/ Buffer!AddPendingDisconnects(d)
    PROVE  BufferIInv'
  <1>0. Buffer!TypeOK'
    BY RequestTyped DEF BufferIInv
  <1>1. UNCHANGED <<rows, connections, peerBuffer, connsBuffer, flushingPeers, flushingConns,
                    flushing, inFlight, phase, attempt, failures, accepted, reports, updated,
                    reported>>
    BY DEF Buffer!DisconnectDevice, Buffer!AddPendingDisconnects, Buffer!buffers, Buffer!stop,
           Buffer!bounds
  <1>2. NoSnapshot' /\ StopProgress' /\ Buffer!LatestConnectionsShown'
    BY <1>1 DEF BufferIInv, NoSnapshot, StopProgress, InRow, InSnapshot,
                Buffer!LatestConnectionsShown, Buffer!ActiveConnectionIds
  <1>3. ASSUME NEW e \in Devices PROVE ReportKept(e)'
    <2>1. ReportKept(e)
      BY DEF BufferIInv
    <2> QED
      BY <1>1, <2>1
      DEF ReportKept, OnlyWithRow, InFlightNewest, Newer, ReportsNewest, InOrder, NewestKept,
          Newest,
          AcceptedKept
  <1> QED
    BY <1>0, <1>2, <1>3 DEF BufferIInv

\* A flush takes the buffers.
LEMMA SnapshotKept ==
    ASSUME BufferIInv, ~flushing, Buffer!TakeSnapshot, Buffer!TypeOK',
           UNCHANGED <<rows, connections, inFlight, accepted, reports, updated, reported, phase>>
    PROVE  /\ NoSnapshot' /\ Buffer!LatestConnectionsShown'
           /\ \A e \in Devices : ReportKept(e)' /\ InSnapshot(e)'
  <1>0. Buffer!TypeOK
    BY DEF BufferIInv
  <1>1. \A e \in Devices : flushingPeers[e] = None /\ flushingConns[e] = None
    BY DEF BufferIInv, NoSnapshot, Buffer!Empty
  <1>2. \A e \in Devices :
           /\ peerBuffer'[e] = None /\ connsBuffer'[e] = None
           /\ flushingPeers'[e] = peerBuffer[e] /\ flushingConns'[e] = connsBuffer[e]
    BY DEF Buffer!TakeSnapshot, Buffer!Empty
  <1>3. NoSnapshot'
    BY DEF NoSnapshot, Buffer!TakeSnapshot
  <1>4. Buffer!LatestConnectionsShown'
    BY <1>1, <1>2 DEF BufferIInv, Buffer!LatestConnectionsShown, Buffer!ActiveConnectionIds
  <1>5. ASSUME NEW e \in Devices PROVE ReportKept(e)' /\ InSnapshot(e)'
    <2>1. ReportKept(e)
      BY DEF BufferIInv
    <2>2. /\ flushingPeers[e] = None /\ peerBuffer'[e] = None
          /\ flushingPeers'[e] = peerBuffer[e]
      BY <1>1, <1>2
    <2>3. ReportKept(e)'
      BY <1>0, <2>1, <2>2, DeviceTypes
      DEF ReportKept, OnlyWithRow, InFlightNewest, Newer, ReportsNewest, InOrder, NewestKept,
          Newest,
          AcceptedKept
    <2>4. InSnapshot(e)'
      BY <1>0, <2>1, <2>2, DeviceTypes DEF ReportKept, AcceptedKept, NewestKept, Newest,
                                           InSnapshot
    <2> QED
      BY <2>3, <2>4
  <1> QED
    BY <1>3, <1>4, <1>5

LEMMA ScheduledKept ==
    ASSUME BufferIInv, Buffer!ScheduledFlush
    PROVE  BufferIInv'
  <1>0. Buffer!TypeOK'
    BY FlushTyped DEF BufferIInv
  <1>1. /\ ~flushing /\ Buffer!TakeSnapshot
        /\ UNCHANGED <<rows, connections, inFlight, accepted, reports, updated, reported, phase>>
        /\ UNCHANGED <<attempt, failures>>
    BY DEF Buffer!ScheduledFlush, Buffer!stop, Buffer!bounds
  <1>2. /\ NoSnapshot' /\ Buffer!LatestConnectionsShown'
        /\ \A e \in Devices : ReportKept(e)' /\ InSnapshot(e)'
    BY <1>0, <1>1, SnapshotKept
  <1>3. StopProgress'
    BY <1>1 DEF BufferIInv, StopProgress, InRow
  <1> QED
    BY <1>0, <1>2, <1>3 DEF BufferIInv

LEMMA DestroyFlushKept ==
    ASSUME BufferIInv, Buffer!DestroyFlush
    PROVE  BufferIInv'
  <1>0. Buffer!TypeOK /\ Buffer!TypeOK'
    BY FlushTyped DEF BufferIInv
  <1>1. /\ ~flushing /\ Buffer!TakeSnapshot /\ phase = "stopping" /\ attempt' = attempt + 1
        /\ UNCHANGED <<rows, connections, inFlight, accepted, reports, updated, reported, phase>>
        /\ failures' = failures
    BY DEF Buffer!DestroyFlush, Buffer!bounds
  <1>2. /\ NoSnapshot' /\ Buffer!LatestConnectionsShown'
        /\ \A e \in Devices : ReportKept(e)' /\ InSnapshot(e)'
    BY <1>0, <1>1, SnapshotKept
  <1>3. StopProgress'
    <2>1. attempt \in Nat /\ failures \in Nat
      BY <1>0 DEF Buffer!TypeOK, Buffer!Attempts
    <2>2. flushing'
      BY <1>1 DEF Buffer!TakeSnapshot
    <2>3. (\A d \in Devices : InRow(d)) \/ failures >= attempt - 1
      BY <1>1 DEF BufferIInv, StopProgress
    <2>4. CASE \A d \in Devices : InRow(d)
      BY <1>1, <2>4 DEF StopProgress, InRow
    <2>5. CASE failures >= attempt - 1
      BY <1>1, <1>2, <2>1, <2>2, <2>5 DEF StopProgress
    <2> QED
      BY <2>3, <2>4, <2>5
  <1> QED
    BY <1>0, <1>2, <1>3 DEF BufferIInv

LEMMA CommitKept ==
    ASSUME BufferIInv, Buffer!FlushCommits
    PROVE  BufferIInv'
  <1>0. Buffer!TypeOK /\ Buffer!TypeOK'
    BY FlushTyped DEF BufferIInv
  <1>1. UNCHANGED <<peerBuffer, connsBuffer, inFlight, phase, attempt, failures, accepted, reports,
                    updated, reported>>
    BY DEF Buffer!FlushCommits, Buffer!stop, Buffer!bounds
  <1>2. /\ flushing /\ phase # "closed" /\ flushing' = FALSE
        /\ flushingPeers' = Buffer!Empty /\ flushingConns' = Buffer!Empty
    BY DEF Buffer!FlushCommits, Buffer!FlushEnds
  <1>3. \A e \in Devices :
           /\ flushingPeers'[e] = None /\ flushingConns'[e] = None
            /\ rows'[e] = IF rows[e] # 0 /\ flushingPeers[e] # None
                          THEN flushingPeers[e] ELSE rows[e]
           /\ connections'[e] = IF rows[e] # 0 /\ flushingConns[e] # None THEN flushingConns[e]
                                ELSE connections[e]
    BY <1>2 DEF Buffer!FlushCommits, Buffer!Empty
  <1>4. NoSnapshot'
    BY <1>2 DEF NoSnapshot
  <1>5. Buffer!LatestConnectionsShown'
    <2> SUFFICES ASSUME NEW e \in Devices, reported'[e] # None
                 PROVE  Buffer!ActiveConnectionIds(e)' = reported'[e]
      BY DEF Buffer!LatestConnectionsShown
    <2>1. rows[e] # 0 /\ Buffer!ActiveConnectionIds(e) = reported[e]
      BY <1>1 DEF BufferIInv, ReportKept, OnlyWithRow, Buffer!LatestConnectionsShown
    <2> QED
      BY <1>1, <1>3, <2>1 DEF Buffer!ActiveConnectionIds
  <1>6. ASSUME NEW e \in Devices PROVE ReportKept(e)' /\ (InRow(e) \/ InSnapshot(e) => InRow(e)')
    <2>1. ReportKept(e)
      BY DEF BufferIInv
    <2>2. /\ flushingPeers'[e] = None
            /\ rows'[e] = IF rows[e] # 0 /\ flushingPeers[e] # None
                          THEN flushingPeers[e] ELSE rows[e]
      BY <1>3
    <2>3. OnlyWithRow(e)' /\ InFlightNewest(e)'
      BY <1>0, <1>1, <2>1, <2>2, DeviceTypes DEF ReportKept, OnlyWithRow, InFlightNewest, Newer
    <2>4. ReportsNewest(e)'
      BY <1>0, <1>1, <2>1, <2>2, DeviceTypes DEF ReportKept, ReportsNewest
    <2>5. InOrder(e)' /\ NewestKept(e)'
      BY <1>0, <1>1, <2>1, <2>2, DeviceTypes
      DEF ReportKept, OnlyWithRow, InOrder, NewestKept, Newest
    <2>6. AcceptedKept(e)'
      BY <1>0, <1>1, <2>1, <2>2, DeviceTypes DEF ReportKept, AcceptedKept
    <2>7. InRow(e) \/ InSnapshot(e) => InRow(e)'
      BY <1>0, <1>1, <2>1, <2>2, DeviceTypes
      DEF ReportKept, OnlyWithRow, AcceptedKept, InRow, InSnapshot
    <2> QED
      BY <2>1, <2>3, <2>4, <2>5, <2>6, <2>7 DEF ReportKept
  <1>7. StopProgress'
    BY <1>1, <1>2, <1>6 DEF BufferIInv, StopProgress
  <1> QED
    BY <1>0, <1>4, <1>5, <1>6, <1>7 DEF BufferIInv

LEMMA FailureKept ==
    ASSUME BufferIInv, Buffer!FlushFails
    PROVE  BufferIInv'
  <1>0. Buffer!TypeOK /\ Buffer!TypeOK'
    BY FlushTyped DEF BufferIInv
  <1>1. UNCHANGED <<rows, connections, inFlight, phase, attempt, accepted, reports, updated,
                    reported>>
    BY DEF Buffer!FlushFails, Buffer!bounds
  <1>2. /\ flushing /\ phase # "closed" /\ flushing' = FALSE
        /\ flushingPeers' = Buffer!Empty /\ flushingConns' = Buffer!Empty
        /\ failures' = IF phase = "stopping" /\ failures < Buffer!Attempts
                       THEN failures + 1 ELSE failures
    BY DEF Buffer!FlushFails, Buffer!FlushEnds
  <1>3. \A e \in Devices :
           /\ flushingPeers'[e] = None /\ flushingConns'[e] = None
           /\ peerBuffer'[e] = IF peerBuffer[e] = None THEN flushingPeers[e] ELSE peerBuffer[e]
           /\ connsBuffer'[e] = IF connsBuffer[e] = None THEN flushingConns[e] ELSE connsBuffer[e]
    BY <1>2 DEF Buffer!FlushFails, Buffer!PutBack, Buffer!Empty
  <1>4. NoSnapshot'
    BY <1>2 DEF NoSnapshot
  <1>5. Buffer!LatestConnectionsShown'
    BY <1>1, <1>3 DEF BufferIInv, Buffer!LatestConnectionsShown, Buffer!ActiveConnectionIds
  <1>6. ASSUME NEW e \in Devices PROVE ReportKept(e)' /\ (InRow(e) => InRow(e)')
    <2>1. ReportKept(e)
      BY DEF BufferIInv
    <2>2. /\ flushingPeers'[e] = None
          /\ peerBuffer'[e] = IF peerBuffer[e] = None THEN flushingPeers[e] ELSE peerBuffer[e]
      BY <1>3
    <2>3. InFlightNewest(e)' /\ ReportsNewest(e)'
      BY <1>1, <2>1, <2>2 DEF ReportKept, ReportsNewest, InFlightNewest, Newer
    <2>4. OnlyWithRow(e)' /\ InOrder(e)' /\ NewestKept(e)' /\ AcceptedKept(e)'
      BY <1>1, <2>1, <2>2 DEF ReportKept, OnlyWithRow, InOrder, NewestKept, Newest, AcceptedKept
    <2>5. InRow(e) => InRow(e)'
      BY <1>1 DEF InRow
    <2> QED
      BY <2>1, <2>3, <2>4, <2>5 DEF ReportKept
  <1>7. StopProgress'
    <2>1. attempt \in 1..4 /\ failures \in 0..3
      BY <1>0 DEF Buffer!TypeOK, Buffer!Attempts
    <2>2. StopProgress
      BY DEF BufferIInv
    <2> QED
      BY <1>1, <1>2, <1>6, <2>1, <2>2 DEF StopProgress, Buffer!Attempts
  <1> QED
    BY <1>0, <1>4, <1>5, <1>6, <1>7 DEF BufferIInv

LEMMA DestroyKept ==
    ASSUME BufferIInv, Buffer!ModuleDestroy \/ Buffer!DestroyEnds
    PROVE  BufferIInv'
  <1>0. Buffer!TypeOK /\ Buffer!TypeOK'
    BY FlushTyped DEF BufferIInv
  <1>1. UNCHANGED <<rows, connections, peerBuffer, connsBuffer, flushingPeers, flushingConns,
                    flushing, inFlight, attempt, failures, reports, updated, reported>>
    BY DEF Buffer!ModuleDestroy, Buffer!DestroyEnds, Buffer!buffers, Buffer!bounds
  <1>2. NoSnapshot' /\ Buffer!LatestConnectionsShown'
    BY <1>1 DEF BufferIInv, NoSnapshot, Buffer!LatestConnectionsShown, Buffer!ActiveConnectionIds
  <1>3. CASE Buffer!ModuleDestroy
    <2>1. phase = "running" /\ phase' = "stopping" /\ accepted' = updated
      BY <1>3 DEF Buffer!ModuleDestroy
    <2>2. ASSUME NEW e \in Devices PROVE ReportKept(e)'
      <3>1. ReportKept(e)
        BY DEF BufferIInv
      <3>2. /\ OnlyWithRow(e)' /\ InFlightNewest(e)' /\ ReportsNewest(e)'
            /\ InOrder(e)' /\ NewestKept(e)'
        BY <1>1, <2>1, <3>1
        DEF ReportKept, OnlyWithRow, InFlightNewest, Newer, ReportsNewest, InOrder, NewestKept,
            Newest
      <3>3. AcceptedKept(e)'
        BY <1>0, <1>1, <2>1, <3>1, DeviceTypes
        DEF ReportKept, InOrder, NewestKept, Newest, AcceptedKept
      <3> QED
        BY <3>2, <3>3 DEF ReportKept
    <2>3. StopProgress'
      BY <1>1, <2>1 DEF BufferIInv, StopProgress
    <2> QED
      BY <1>0, <1>2, <2>2, <2>3 DEF BufferIInv
  <1>4. CASE Buffer!DestroyEnds
    <2>1. /\ phase = "stopping" /\ ~flushing /\ phase' = "closed" /\ accepted' = accepted
          /\ Buffer!Buffered => attempt > Buffer!Attempts
      BY <1>4 DEF Buffer!DestroyEnds
    <2>2. ASSUME NEW e \in Devices PROVE ReportKept(e)'
      <3>1. ReportKept(e)
        BY DEF BufferIInv
      <3> QED
        BY <1>1, <2>1, <3>1
        DEF ReportKept, OnlyWithRow, InFlightNewest, Newer, ReportsNewest, InOrder, NewestKept,
            Newest,
            AcceptedKept
    <2>3. StopProgress'
      <3> SUFFICES ASSUME failures < Buffer!Attempts PROVE \A e \in Devices : InRow(e)
        BY <1>1, <2>1 DEF StopProgress, InRow
      <3>1. attempt \in 1..4 /\ failures \in 0..3
        BY <1>0 DEF Buffer!TypeOK, Buffer!Attempts
      <3>2. (\A e \in Devices : InRow(e)) \/ failures >= attempt - 1
        BY <2>1 DEF BufferIInv, StopProgress
      <3>3. CASE ~Buffer!Buffered
        <4>1. peerBuffer = Buffer!Empty /\ flushingPeers = Buffer!Empty
          BY <2>1, <3>3 DEF Buffer!Buffered, BufferIInv, NoSnapshot
        <4> SUFFICES ASSUME NEW e \in Devices PROVE InRow(e)
          OBVIOUS
        <4>2. peerBuffer[e] = None /\ flushingPeers[e] = None /\ ReportKept(e)
          BY <4>1 DEF Buffer!Empty, BufferIInv
        <4> QED
          BY <1>0, <4>2, DeviceTypes DEF ReportKept, NewestKept, Newest, AcceptedKept, InRow
      <3>4. CASE Buffer!Buffered
        BY <2>1, <3>1, <3>2, <3>4 DEF Buffer!Attempts
      <3> QED
        BY <3>3, <3>4
    <2> QED
      BY <1>0, <1>2, <2>2, <2>3 DEF BufferIInv
  <1> QED
    BY <1>3, <1>4

LEMMA BufferSteps == ASSUME BufferIInv, Buffer!Next PROVE BufferIInv'
  <1>1. ASSUME NEW d \in Devices,
               \/ \E conns \in Buffer!Lists : Buffer!HandleHeartbeat(d, conns)
               \/ Buffer!BufferReport(d) \/ Buffer!RegisterDevice(d) \/ Buffer!DeleteDevice(d)
               \/ Buffer!DisconnectDevice(d) \/ Buffer!AddPendingDisconnects(d)
        PROVE  BufferIInv'
    BY <1>1, HandleKept, BufferKept, RegisterKept, DeletionKept, DisconnectKept
  <1>2. CASE \/ Buffer!ScheduledFlush \/ Buffer!FlushCommits \/ Buffer!FlushFails
             \/ Buffer!ModuleDestroy \/ Buffer!DestroyFlush \/ Buffer!DestroyEnds
    BY <1>2, ScheduledKept, CommitKept, FailureKept, DestroyKept, DestroyFlushKept
  <1> QED
    BY <1>1, <1>2 DEF Buffer!Next

LEMMA BufferStutters == ASSUME BufferIInv, UNCHANGED bufferVars PROVE BufferIInv'
  <1>1. Buffer!TypeOK' /\ NoSnapshot' /\ StopProgress' /\ Buffer!LatestConnectionsShown'
    BY DEF bufferVars, BufferIInv, Buffer!TypeOK, NoSnapshot, StopProgress, InRow, InSnapshot,
           Buffer!LatestConnectionsShown, Buffer!ActiveConnectionIds
  <1>2. ASSUME NEW d \in Devices PROVE ReportKept(d)'
    <2>1. ReportKept(d)
      BY DEF BufferIInv
    <2> QED
      BY <2>1 DEF bufferVars, ReportKept, OnlyWithRow, InFlightNewest, Newer, ReportsNewest,
                  InOrder, NewestKept, Newest, AcceptedKept
  <1> QED
    BY <1>1, <1>2 DEF BufferIInv

LEMMA BufferInvariant == PartsSpec => []BufferIInv
  <1>1. PartsInit => BufferIInv
    BY KeptInit DEF PartsInit
  <1>2. BufferIInv /\ [PartsNext]_<<part, vars, bufferVars, strategyVars, auditVars>> => BufferIInv'
    BY BufferSteps, BufferStutters DEF PartsNext
  <1> QED
    BY <1>1, <1>2, PTL DEF PartsSpec

\* getActiveConnectionIds shows the connections that a device reported last,
\* before, during and after a flush, for any number of devices and reports.
THEOREM LatestAlwaysShown == PartsSpec => []LatestConnectionsShown
  <1>1. BufferIInv => LatestConnectionsShown
    BY DEF BufferIInv, LatestConnectionsShown
  <1> QED
    BY <1>1, BufferInvariant, PTL

\* The newest fields of a device are never lost on the way to its row, and a
\* stop (onModuleDestroy) loses none it has accepted, unless every flush fails.
THEOREM FieldsAlwaysKept == PartsSpec => []FieldsKept
  <1>1. BufferIInv => FieldsKept
    <2> SUFFICES ASSUME BufferIInv PROVE Buffer!FieldsKept
      BY DEF FieldsKept
    <2>1. \A d \in Devices : NewestKept(d)
      BY DEF BufferIInv, ReportKept
    <2>2. phase = "closed" /\ failures < Buffer!Attempts => \A d \in Devices : InRow(d)
      BY DEF BufferIInv, StopProgress
    <2> QED
      BY <2>1, <2>2 DEF NewestKept, Newest, InRow, Buffer!FieldsKept
  <1> QED
    BY <1>1, BufferInvariant, PTL

(***************************************************************************)
(* The audit log.                                                          *)
(***************************************************************************)

AuditRequest ==
    {Audit!Idle}
    \cup [op: {"connection"}, link: Links, kind: Audit!Kinds, id: {0}]
    \cup [op: {"connection"}, link: Links, kind: Audit!Kinds \cup {"note"}, id: Audit!RowIds,
          copy: Audit!Connection]
    \cup [op: {"insert", "look again"}, nonce: Nonces]

\* A nonce has one row, and who was answered with a row was answered with that.
NonceHasOneRow ==
    \A i, j \in Audit!RowIds : audits[i] = audits[j] /\ audits[i] \in Nonces => i = j
AnswersHold == \A a \in answers : audits[a[2]] = a[1]

\* An id is not used for another connection, even when its row was deleted.
OfItsLink(q) ==
    handling[q].op = "connection" /\ handling[q].id # 0 =>
        /\ handling[q].copy.link = handling[q].link
        /\ \/ auditRows[handling[q].id] = Removed
           \/ /\ auditRows[handling[q].id] \in Audit!Connection
              /\ auditRows[handling[q].id].link = handling[q].link

SameLink(p, q) ==
    /\ handling[p].op = "connection" /\ handling[q].op = "connection"
    /\ handling[p].id = handling[q].id /\ handling[q].id # 0
    => handling[p].link = handling[q].link

\* As long as no two requests were about a connection at once: there is one at
\* most, what it has read is still so, and the row has all that was reported.
OneAbout(c) == \A p, q \in Audit!About(c) : p = q
ReadIsCurrent(c) ==
    \A q \in Audit!About(c) :
        IF handling[q].id = 0 THEN Audit!RowsOf(c) = {}
        ELSE /\ handling[q].id \in Audit!RowsOf(c)
             /\ handling[q].copy = auditRows[handling[q].id]
Together(c) ==
    \/ Audit!RowsOf(c) = {} /\ done[c] = {}
    \/ \E i \in Audit!RowIds :
          Audit!RowsOf(c) = {i} /\ auditRows[i].times = done[c] /\ done[c] # {}

AuditTyped == Audit!TypeOK /\ handling \in [Reporters -> AuditRequest]

ConnectionsKept ==
    /\ \A q \in Reporters : OfItsLink(q)
    /\ \A p, q \in Reporters : SameLink(p, q)
    /\ \A c \in Links \ overlapped : OneAbout(c) /\ ReadIsCurrent(c) /\ Together(c)

AuditIInv == AuditTyped /\ NonceHasOneRow /\ AnswersHold /\ ConnectionsKept

LEMMA AuditTypes ==
    ASSUME AuditTyped
    PROVE  /\ \A i \in Audit!RowIds :
                 /\ \/ auditRows[i] \in Audit!Connection
                    \/ auditRows[i] = Nothing \/ auditRows[i] = Removed
                 /\ audits[i] \in Nonces \/ audits[i] = Nothing \/ audits[i] = Removed
           /\ \A q \in Reporters : handling[q] \in AuditRequest
  BY DEF AuditTyped, Audit!TypeOK

LEMMA InRowsOf ==
    ASSUME AuditTyped
    PROVE  \A c, i : i \in Audit!RowsOf(c) <=>
                        /\ i \in Audit!RowIds /\ auditRows[i] \in Audit!Connection
                        /\ auditRows[i].link = c
  BY AuditTypes, AuditsBounded DEF Audit!RowsOf, Audit!Here, Audit!AuditAssumption

LEMMA RequestShapes ==
    ASSUME NEW h \in AuditRequest
    PROVE  /\ h.op \in {"idle", "connection", "insert", "look again"}
           /\ h.op = "connection" =>
                 /\ h.link \in Links /\ h.kind \in Audit!Kinds \cup {"note"}
                 /\ h.id = 0 \/ h.id \in Audit!RowIds
                 /\ h.id = 0 => h.kind \in Audit!Kinds
                 /\ h.id # 0 => h.copy \in Audit!Connection
           /\ h.op \in {"insert", "look again"} => h.nonce \in Nonces
  <1>1. CASE h = Audit!Idle
    BY <1>1 DEF Audit!Idle
  <1>2. CASE h \in [op: {"connection"}, link: Links, kind: Audit!Kinds, id: {0}]
    BY <1>2
  <1>3. CASE h \in [op: {"connection"}, link: Links, kind: Audit!Kinds \cup {"note"},
                    id: Audit!RowIds, copy: Audit!Connection]
    <2>1. h.id \in Audit!RowIds /\ h.id # 0
      BY <1>3 DEF Audit!RowIds
    <2> QED
      BY <1>3, <2>1
  <1>4. CASE h \in [op: {"insert", "look again"}, nonce: Nonces]
    BY <1>4
  <1> QED
    BY <1>1, <1>2, <1>3, <1>4 DEF AuditRequest

LEMMA ConnectionRequests ==
    ASSUME AuditTyped, NEW q \in Reporters, handling[q].op = "connection"
    PROVE  /\ handling[q].link \in Links /\ handling[q].kind \in Audit!Kinds \cup {"note"}
           /\ handling[q].id = 0 \/ handling[q].id \in Audit!RowIds
           /\ handling[q].id = 0 => handling[q].kind \in Audit!Kinds
           /\ handling[q].id # 0 => handling[q].copy \in Audit!Connection
  BY AuditTypes, RequestShapes

LEMMA InsertRequests ==
    ASSUME AuditTyped, NEW q \in Reporters, handling[q].op \in {"insert", "look again"}
    PROVE  handling[q].nonce \in Nonces
  BY AuditTypes, RequestShapes

\* What the steps of a request do to the request, they do with its type.
LEMMA TypedWith ==
    ASSUME AuditTyped, NEW q \in Reporters, NEW h \in AuditRequest,
           handling' = [handling EXCEPT ![q] = h],
           auditRows' \in [Audit!RowIds -> Audit!Connection \cup {Nothing, Removed}],
           audits' \in [Audit!RowIds -> Nonces \cup {Nothing, Removed}],
           requests' \in 0..MaxRequests, UNCHANGED cleanups,
           answers' \subseteq Nonces \X Audit!RowIds,
           done' \in [Links -> SUBSET Audit!Kinds], overlapped' \subseteq Links
    PROVE  /\ AuditTyped'
           /\ handling'[q] = h /\ \A p \in Reporters \ {q} : handling'[p] = handling[p]
  <1>1. /\ handling' \in [Reporters -> AuditRequest]
        /\ handling'[q] = h /\ \A p \in Reporters \ {q} : handling'[p] = handling[p]
    BY DEF AuditTyped
  <1>2. \A p \in Reporters : handling'[p].op \in {"idle", "connection", "insert", "look again"}
    BY <1>1, RequestShapes
  <1>3. cleanups' \in 0..MaxCleanups
    BY DEF AuditTyped, Audit!TypeOK
  <1> QED
    BY <1>1, <1>2, <1>3 DEF AuditTyped, Audit!TypeOK

LEMMA AuditInit == Audit!Init => AuditIInv
  <1> SUFFICES ASSUME Audit!Init PROVE AuditIInv
    OBVIOUS
  <1>1. AuditTyped
    <2>1. handling \in [Reporters -> AuditRequest]
      BY DEF Audit!Init, AuditRequest
    <2>2. \A q \in Reporters : handling[q].op = "idle"
      BY DEF Audit!Init, Audit!Idle
    <2>3. /\ auditRows \in [Audit!RowIds -> Audit!Connection \cup {Nothing, Removed}]
          /\ audits \in [Audit!RowIds -> Nonces \cup {Nothing, Removed}]
      BY DEF Audit!Init
    <2>4. /\ answers \subseteq Nonces \X Audit!RowIds
          /\ done \in [Links -> SUBSET Audit!Kinds] /\ overlapped \subseteq Links
      BY DEF Audit!Init
    <2>5. requests \in 0..MaxRequests /\ cleanups \in 0..MaxCleanups
      <3>1. requests = 0 /\ cleanups = 0
        BY DEF Audit!Init
      <3> QED
        BY <3>1, AuditsBounded DEF Audit!AuditAssumption
    <2> QED
      BY <2>1, <2>2, <2>3, <2>4, <2>5 DEF AuditTyped, Audit!TypeOK
  <1>2. NonceHasOneRow /\ AnswersHold
    BY AuditsBounded DEF Audit!Init, NonceHasOneRow, AnswersHold, Audit!AuditAssumption
  <1>3. \A q \in Reporters : handling[q].op = "idle"
    BY DEF Audit!Init, Audit!Idle
  <1>4. \A q \in Reporters : OfItsLink(q)
    BY <1>3 DEF OfItsLink
  <1>6. \A p, q \in Reporters : SameLink(p, q)
    BY <1>3 DEF SameLink
  <1>5. ASSUME NEW c \in Links PROVE OneAbout(c) /\ ReadIsCurrent(c) /\ Together(c)
    <2>1. Audit!About(c) = {}
      BY <1>3 DEF Audit!About
    <2>2. Audit!RowsOf(c) = {}
      BY DEF Audit!Init, Audit!RowsOf, Audit!Here
    <2>3. done[c] = {}
      BY DEF Audit!Init
    <2> QED
      BY <2>1, <2>2, <2>3 DEF OneAbout, ReadIsCurrent, Together
  <1> QED
    BY <1>1, <1>2, <1>4, <1>5, <1>6 DEF AuditIInv, ConnectionsKept

(***************************************************************************)
(* Connections.                                                            *)
(***************************************************************************)

LEMMA FindTyped ==
    ASSUME AuditIInv, NEW q \in Reporters, NEW c \in Links, NEW kind \in Audit!Kinds \cup {"note"},
           Audit!FindConnection(q, c, kind)
    PROVE  /\ AuditTyped'
           /\ \E h \in AuditRequest :
                 /\ handling' = [handling EXCEPT ![q] = h] /\ handling[q].op = "idle"
                 /\ h.op = "connection" /\ h.link = c
                 /\ \/ h.id = 0 /\ Audit!RowsOf(c) = {}
                    \/ h.id \in Audit!RowsOf(c) /\ h.id # 0 /\ h.copy = auditRows[h.id]
  <1>0. AuditTyped
    BY DEF AuditIInv
  <1>1. PICK h \in AuditRequest :
           /\ handling' = [handling EXCEPT ![q] = h]
           /\ h.op = "connection" /\ h.link = c
           /\ \/ h.id = 0 /\ Audit!RowsOf(c) = {}
              \/ h.id \in Audit!RowsOf(c) /\ h.id # 0 /\ h.copy = auditRows[h.id]
    <2>1. CASE Audit!RowsOf(c) = {} /\ kind # "note"
               /\ Audit!Handles(q, [op |-> "connection", link |-> c, kind |-> kind, id |-> 0])
      <3> DEFINE r == [op |-> "connection", link |-> c, kind |-> kind, id |-> 0]
      <3>1. r \in AuditRequest
        BY <2>1 DEF AuditRequest
      <3> QED
        BY <2>1, <3>1 DEF Audit!Handles
    <2>2. ASSUME NEW i \in Audit!RowsOf(c),
                 Audit!Handles(q, [op |-> "connection", link |-> c, kind |-> kind, id |-> i,
                                   copy |-> auditRows[i]])
          PROVE  \E h \in AuditRequest :
                    /\ handling' = [handling EXCEPT ![q] = h]
                    /\ h.op = "connection" /\ h.link = c
                    /\ \/ h.id = 0 /\ Audit!RowsOf(c) = {}
                       \/ h.id \in Audit!RowsOf(c) /\ h.id # 0 /\ h.copy = auditRows[h.id]
      <3> DEFINE r == [op |-> "connection", link |-> c, kind |-> kind, id |-> i,
                       copy |-> auditRows[i]]
      <3>1. i \in Audit!RowIds /\ auditRows[i] \in Audit!Connection /\ i # 0
        BY <1>0, InRowsOf DEF Audit!RowIds
      <3>2. r \in AuditRequest
        BY <3>1 DEF AuditRequest
      <3> QED
        BY <2>2, <3>1, <3>2 DEF Audit!Handles
    <2> QED
      BY <2>1, <2>2 DEF Audit!FindConnection
  <1>2. handling[q].op = "idle"
    BY DEF Audit!FindConnection, Audit!Arrives, Audit!Idle
  <1>3. requests' \in 0..MaxRequests
    <2>1. requests \in 0..MaxRequests /\ requests < MaxRequests /\ requests' = requests + 1
      BY <1>0 DEF Audit!FindConnection, Audit!Arrives, AuditTyped, Audit!TypeOK
    <2> QED
      BY <2>1, AuditsBounded DEF Audit!AuditAssumption
  <1>4. overlapped' \subseteq Links
    BY <1>0 DEF Audit!FindConnection, AuditTyped, Audit!TypeOK
  <1>5. UNCHANGED <<auditRows, audits, cleanups, answers, done>>
    BY DEF Audit!FindConnection, Audit!tables
  <1>6. /\ auditRows' \in [Audit!RowIds -> Audit!Connection \cup {Nothing, Removed}]
        /\ audits' \in [Audit!RowIds -> Nonces \cup {Nothing, Removed}]
        /\ answers' \subseteq Nonces \X Audit!RowIds /\ done' \in [Links -> SUBSET Audit!Kinds]
    BY <1>0, <1>5 DEF AuditTyped, Audit!TypeOK
  <1>8. AuditTyped'
    BY <1>0, <1>1, <1>3, <1>4, <1>5, <1>6, TypedWith
  <1> QED
    BY <1>1, <1>2, <1>8

LEMMA FindRecorded ==
    ASSUME AuditIInv, NEW q \in Reporters, NEW c \in Links, NEW kind \in Audit!Kinds \cup {"note"},
           Audit!FindConnection(q, c, kind)
    PROVE  AuditIInv'
  <1>0. AuditTyped /\ AuditTyped'
    BY FindTyped DEF AuditIInv
  <1>1. PICK h \in AuditRequest :
           /\ handling' = [handling EXCEPT ![q] = h] /\ handling[q].op = "idle"
           /\ h.op = "connection" /\ h.link = c
           /\ \/ h.id = 0 /\ Audit!RowsOf(c) = {}
              \/ h.id \in Audit!RowsOf(c) /\ h.id # 0 /\ h.copy = auditRows[h.id]
    BY FindTyped
  <1>2. /\ UNCHANGED <<auditRows, audits, cleanups, answers, done>>
        /\ overlapped' = IF Audit!About(c) = {} THEN overlapped ELSE overlapped \cup {c}
    BY DEF Audit!FindConnection, Audit!tables
  <1>3. NonceHasOneRow' /\ AnswersHold'
    BY <1>2 DEF AuditIInv, NonceHasOneRow, AnswersHold
  <1>4. handling'[q] = h /\ \A p \in Reporters \ {q} : handling'[p] = handling[p]
    BY <1>0, <1>1 DEF AuditTyped
  <1>5. ASSUME NEW p \in Reporters PROVE OfItsLink(p)'
    <2>1. CASE p = q
      BY <1>0, <1>1, <1>2, <1>4, <2>1, InRowsOf DEF OfItsLink
    <2>2. CASE p # q
      BY <1>2, <1>4, <2>2 DEF AuditIInv, ConnectionsKept, OfItsLink
    <2> QED
      BY <2>1, <2>2
  <1>7. ASSUME NEW p \in Reporters, NEW r \in Reporters PROVE SameLink(p, r)'
    <2>1. SameLink(p, r)
      BY DEF AuditIInv, ConnectionsKept
    <2>2. ASSUME NEW o \in Reporters \ {q}, handling[o].op = "connection",
                 handling[o].id = h.id, h.id # 0
          PROVE  handling[o].link = c
      <3>1. OfItsLink(o)
        BY DEF AuditIInv, ConnectionsKept
      <3>2. h.id \in Audit!RowsOf(c)
        BY <1>1, <2>2
      <3>3. auditRows[h.id] \in Audit!Connection /\ auditRows[h.id].link = c
        BY <1>0, <3>2, InRowsOf
      <3>4. auditRows[h.id] # Removed
        BY <3>3, AuditsBounded DEF Audit!AuditAssumption
      <3> QED
        BY <2>2, <3>1, <3>3, <3>4 DEF OfItsLink
    <2>3. CASE p = q /\ r = q
      BY <2>3 DEF SameLink
    <2>4. CASE p = q /\ r # q
      BY <1>1, <1>4, <2>2, <2>4 DEF SameLink
    <2>5. CASE p # q /\ r = q
      BY <1>1, <1>4, <2>2, <2>5 DEF SameLink
    <2>6. CASE p # q /\ r # q
      BY <1>4, <2>1, <2>6 DEF SameLink
    <2> QED
      BY <2>3, <2>4, <2>5, <2>6
  <1>6. ASSUME NEW d \in Links \ overlapped'
        PROVE  OneAbout(d)' /\ ReadIsCurrent(d)' /\ Together(d)'
    <2>1. d \notin overlapped /\ OneAbout(d) /\ ReadIsCurrent(d) /\ Together(d)
      BY <1>2 DEF AuditIInv, ConnectionsKept
    <2>2. Audit!RowsOf(d)' = Audit!RowsOf(d)
      BY <1>2 DEF Audit!RowsOf, Audit!Here
    <2>3. Together(d)'
      BY <1>2, <2>1, <2>2 DEF Together
    <2>4. CASE d = c
      <3>1. Audit!About(c) = {}
        BY <1>2, <2>4
      <3>2. \A p \in Reporters : p \in Audit!About(d)' => p = q
        BY <1>4, <2>4, <3>1 DEF Audit!About
      <3>3. \A p \in Audit!About(d)' : p \in Reporters
        BY DEF Audit!About
      <3> QED
        BY <1>1, <1>2, <1>4, <2>2, <2>3, <2>4, <3>2, <3>3 DEF OneAbout, ReadIsCurrent
    <2>5. CASE d # c
      <3>1. Audit!About(d)' = Audit!About(d) /\ q \notin Audit!About(d)
        BY <1>1, <1>4, <2>5 DEF Audit!About
      <3>2. \A p \in Audit!About(d) : handling'[p] = handling[p]
        BY <1>4, <3>1 DEF Audit!About
      <3> QED
        BY <1>2, <2>1, <2>2, <2>3, <3>1, <3>2 DEF OneAbout, ReadIsCurrent
    <2> QED
      BY <2>4, <2>5
  <1> QED
    BY <1>0, <1>3, <1>5, <1>6, <1>7 DEF AuditIInv, ConnectionsKept

\* A request that ends, or one about a file, leaves the connections as they are.
LEMMA ConnectionsApart ==
    ASSUME AuditIInv, UNCHANGED <<auditRows, done, overlapped>>,
           \A p \in Reporters : handling'[p] = handling[p] \/ handling'[p].op # "connection"
    PROVE  ConnectionsKept'
  <1>1. ASSUME NEW p \in Reporters PROVE OfItsLink(p)'
    BY DEF AuditIInv, ConnectionsKept, OfItsLink
  <1>2. ASSUME NEW p \in Reporters, NEW r \in Reporters PROVE SameLink(p, r)'
    BY DEF AuditIInv, ConnectionsKept, SameLink
  <1>3. ASSUME NEW c \in Links \ overlapped'
        PROVE  OneAbout(c)' /\ ReadIsCurrent(c)' /\ Together(c)'
    <2>1. OneAbout(c) /\ ReadIsCurrent(c) /\ Together(c)
      BY DEF AuditIInv, ConnectionsKept
    <2>2. Audit!RowsOf(c)' = Audit!RowsOf(c)
      BY DEF Audit!RowsOf, Audit!Here
    <2>3. \A p \in Audit!About(c)' : p \in Audit!About(c) /\ handling'[p] = handling[p]
      BY DEF Audit!About
    <2> QED
      BY <2>1, <2>2, <2>3 DEF OneAbout, ReadIsCurrent, Together
  <1> QED
    BY <1>1, <1>2, <1>3 DEF ConnectionsKept

LEMMA BecomesTyped ==
    ASSUME AuditIInv, NEW q \in Reporters, handling[q].op = "connection"
    PROVE  LET h == handling[q]
               row == Audit!Becomes(h)
           IN /\ row \in Audit!Connection /\ row.link = h.link
              /\ h.id = 0 => row.times = {h.kind} /\ {h.kind} \cap Audit!Kinds = {h.kind}
              /\ h.id # 0 => row.times = h.copy.times \cup ({h.kind} \cap Audit!Kinds)
  <1> DEFINE h == handling[q]
  <1>0. AuditTyped /\ OfItsLink(q)
    BY DEF AuditIInv, ConnectionsKept
  <1>1. /\ h.link \in Links /\ h.kind \in Audit!Kinds \cup {"note"}
        /\ h.id = 0 => h.kind \in Audit!Kinds
        /\ h.id # 0 => h.copy \in Audit!Connection
    BY <1>0, ConnectionRequests
  <1>2. CASE h.id = 0
    BY <1>1, <1>2 DEF Audit!Becomes, Audit!Connection
  <1>3. CASE h.id # 0 /\ h.kind = "note"
    <2>1. {"note"} \cap Audit!Kinds = {}
      BY DEF Audit!Kinds
    <2>2. h.copy \in Audit!Connection /\ h.copy.link = h.link
      BY <1>0, <1>1, <1>3 DEF OfItsLink
    <2>3. Audit!Becomes(h) = [h.copy EXCEPT !.note = TRUE]
      BY <1>3 DEF Audit!Becomes
    <2> QED
      BY <1>3, <2>1, <2>2, <2>3 DEF Audit!Connection
  <1>4. CASE h.id # 0 /\ h.kind # "note"
    <2>1. h.kind \in Audit!Kinds /\ {h.kind} \cap Audit!Kinds = {h.kind}
      BY <1>1, <1>4
    <2>2. h.copy \in Audit!Connection /\ h.copy.link = h.link
      BY <1>0, <1>1, <1>4 DEF OfItsLink
    <2>3. Audit!Becomes(h) =
             [h.copy EXCEPT !.times = h.copy.times \cup {h.kind}, !.last = h.kind]
      BY <1>4 DEF Audit!Becomes
    <2> QED
      BY <1>4, <2>1, <2>2, <2>3 DEF Audit!Connection
  <1> QED
    BY <1>2, <1>3, <1>4

LEMMA SaveRecorded ==
    ASSUME AuditIInv, NEW q \in Reporters, Audit!SaveConnection(q) PROVE AuditIInv'
  <1> DEFINE h == handling[q]
             row == Audit!Becomes(h)
  <1>0. AuditTyped /\ h.op = "connection" /\ OfItsLink(q)
    BY DEF AuditIInv, ConnectionsKept, Audit!SaveConnection
  <1>1. PICK i \in IF h.id = 0 THEN Audit!FreshId(auditRows) ELSE {h.id} :
           IF Audit!Conflicts(row, i) THEN UNCHANGED <<auditRows, done>>
           ELSE /\ auditRows' = [auditRows EXCEPT ![i] = row]
                /\ done' = [done EXCEPT ![h.link] = @ \cup ({h.kind} \cap Audit!Kinds)]
    BY DEF Audit!SaveConnection
  <1>2. /\ handling' = [handling EXCEPT ![q] = Audit!Idle]
        /\ UNCHANGED <<requests, audits, cleanups, answers, overlapped>>
    BY DEF Audit!SaveConnection, Audit!Handles
  <1>3. /\ row \in Audit!Connection /\ row.link = h.link
        /\ h.id = 0 => row.times = {h.kind} /\ {h.kind} \cap Audit!Kinds = {h.kind}
        /\ h.id # 0 => row.times = h.copy.times \cup ({h.kind} \cap Audit!Kinds)
    BY <1>0, BecomesTyped
  <1>4. h.link \in Links /\ i \in Audit!RowIds
    BY <1>0, <1>1, ConnectionRequests DEF Audit!FreshId
  <1>5. \/ h.id = 0 /\ auditRows[i] = Nothing
        \/ h.id # 0 /\ i = h.id /\ auditRows[i] = Removed
        \/ /\ h.id # 0 /\ i = h.id /\ auditRows[i] \in Audit!Connection
           /\ auditRows[i].link = h.link
    BY <1>0, <1>1 DEF Audit!FreshId, OfItsLink
  <1>6. /\ auditRows' \in [Audit!RowIds -> Audit!Connection \cup {Nothing, Removed}]
        /\ done' \in [Links -> SUBSET Audit!Kinds]
    <2>1. /\ auditRows \in [Audit!RowIds -> Audit!Connection \cup {Nothing, Removed}]
          /\ done \in [Links -> SUBSET Audit!Kinds]
      BY <1>0 DEF AuditTyped, Audit!TypeOK
    <2>2. [auditRows EXCEPT ![i] = row]
             \in [Audit!RowIds -> Audit!Connection \cup {Nothing, Removed}]
      BY <1>3, <2>1
    <2>3. [done EXCEPT ![h.link] = @ \cup ({h.kind} \cap Audit!Kinds)]
             \in [Links -> SUBSET Audit!Kinds]
      BY <2>1
    <2> QED
      BY <1>1, <2>1, <2>2, <2>3
  <1>7. /\ audits' \in [Audit!RowIds -> Nonces \cup {Nothing, Removed}]
        /\ requests' \in 0..MaxRequests /\ overlapped' \subseteq Links
        /\ answers' \subseteq Nonces \X Audit!RowIds
    BY <1>0, <1>2 DEF AuditTyped, Audit!TypeOK
  <1>8. Audit!Idle \in AuditRequest /\ Audit!Idle.op = "idle"
    BY DEF AuditRequest, Audit!Idle
  <1>9. /\ AuditTyped' /\ handling'[q] = Audit!Idle
        /\ \A p \in Reporters \ {q} : handling'[p] = handling[p]
    BY <1>0, <1>2, <1>6, <1>7, <1>8, TypedWith
  <1>10. NonceHasOneRow' /\ AnswersHold'
    BY <1>2 DEF AuditIInv, NonceHasOneRow, AnswersHold
  <1>11. CASE Audit!Conflicts(row, i)
    <2>1. ConnectionsKept'
      BY <1>1, <1>2, <1>8, <1>9, <1>11, ConnectionsApart
    <2> QED
      BY <1>9, <1>10, <2>1 DEF AuditIInv
  <1>12. CASE ~Audit!Conflicts(row, i)
    <2>1. auditRows' = [auditRows EXCEPT ![i] = row]
      BY <1>1, <1>12
    <2>2. done' = [done EXCEPT ![h.link] = @ \cup ({h.kind} \cap Audit!Kinds)]
      BY <1>1, <1>12
    <2>3. auditRows'[i] = row /\ \A j \in Audit!RowIds \ {i} : auditRows'[j] = auditRows[j]
      BY <1>0, <1>4, <2>1 DEF AuditTyped, Audit!TypeOK
    <2>4. \A p \in Reporters : handling'[p].op = "connection" => p # q /\ handling'[p] = handling[p]
      BY <1>8, <1>9
    <2>5. ASSUME NEW p \in Reporters PROVE OfItsLink(p)'
      <3>1. SUFFICES ASSUME handling'[p].op = "connection", handling'[p].id # 0
                     PROVE  OfItsLink(p)'
        BY DEF OfItsLink
      <3>2. p # q /\ handling'[p] = handling[p] /\ OfItsLink(p) /\ SameLink(p, q)
        BY <2>4, <3>1 DEF AuditIInv, ConnectionsKept
      <3>3. handling[p].id \in Audit!RowIds
        BY <1>0, <3>1, <3>2, ConnectionRequests
      <3>4. CASE handling[p].id # i
        BY <2>3, <3>1, <3>2, <3>3, <3>4 DEF OfItsLink
      <3>5. CASE handling[p].id = i
        <4>1. h.id = i
          BY <1>5, <3>1, <3>2, <3>5, AuditsBounded DEF OfItsLink, Audit!AuditAssumption
        <4>2. handling[p].link = h.link
          BY <1>0, <3>1, <3>2, <3>5, <4>1 DEF SameLink
        <4> QED
          BY <1>3, <2>3, <3>1, <3>2, <3>5, <4>2 DEF OfItsLink
      <3> QED
        BY <3>4, <3>5
    <2>6. ASSUME NEW p \in Reporters, NEW r \in Reporters PROVE SameLink(p, r)'
      BY <2>4 DEF AuditIInv, ConnectionsKept, SameLink
    <2>7. ASSUME NEW c \in Links \ overlapped'
          PROVE  OneAbout(c)' /\ ReadIsCurrent(c)' /\ Together(c)'
      <3>0. OneAbout(c) /\ ReadIsCurrent(c) /\ Together(c)
        BY <1>2 DEF AuditIInv, ConnectionsKept
      <3>1. CASE c # h.link
        <4>1. Audit!RowsOf(c)' = Audit!RowsOf(c) /\ i \notin Audit!RowsOf(c)
          <5>1. i \notin Audit!RowsOf(c)
            BY <1>0, <1>5, <3>1, InRowsOf, AuditsBounded DEF Audit!AuditAssumption
          <5>2. i \notin Audit!RowsOf(c)'
            BY <1>3, <1>9, <2>3, <3>1 DEF Audit!RowsOf
          <5>3. \A j : j \in Audit!RowsOf(c)' <=> j \in Audit!RowsOf(c)
            BY <2>3, <5>1, <5>2 DEF Audit!RowsOf, Audit!Here
          <5> QED
            BY <5>1, <5>3
        <4>2. \A j \in Audit!RowsOf(c) : auditRows'[j] = auditRows[j]
          BY <2>3, <4>1 DEF Audit!RowsOf, Audit!Here
        <4>3. done'[c] = done[c]
          BY <1>0, <2>2, <3>1 DEF AuditTyped, Audit!TypeOK
        <4>4. \A p \in Audit!About(c)' : p \in Audit!About(c) /\ handling'[p] = handling[p]
          BY <2>4 DEF Audit!About
        <4>5. OneAbout(c)'
          BY <3>0, <4>4 DEF OneAbout
        <4>6. ReadIsCurrent(c)'
          BY <3>0, <4>1, <4>2, <4>4 DEF ReadIsCurrent
        <4>7. Together(c)'
          BY <3>0, <4>1, <4>2, <4>3 DEF Together
        <4> QED
          BY <4>5, <4>6, <4>7
      <3>2. CASE c = h.link
        <4>1. q \in Audit!About(c)
          BY <1>0, <3>2 DEF Audit!About
        <4>2. Audit!About(c)' = {}
          BY <2>4, <3>0, <4>1 DEF Audit!About, OneAbout
        <4>3. done'[c] = done[c] \cup ({h.kind} \cap Audit!Kinds)
          BY <1>0, <2>2, <3>2 DEF AuditTyped, Audit!TypeOK
        <4>4. i \in Audit!RowsOf(c)'
          <5>1. auditRows'[i] \notin {Nothing, Removed}
            BY <1>3, <2>3, AuditsBounded DEF Audit!AuditAssumption
          <5> QED
            BY <1>3, <1>4, <2>3, <3>2, <5>1 DEF Audit!RowsOf, Audit!Here
        <4>5. \A j : j # i => (j \in Audit!RowsOf(c)' <=> j \in Audit!RowsOf(c))
          BY <2>3 DEF Audit!RowsOf, Audit!Here
        <4>6. CASE h.id = 0
          <5>1. Audit!RowsOf(c) = {} /\ done[c] = {}
            BY <3>0, <4>1, <4>6 DEF ReadIsCurrent, Together
          <5>2. Audit!RowsOf(c)' = {i}
            BY <4>4, <4>5, <5>1
          <5>3. auditRows'[i].times = done'[c] /\ done'[c] # {}
            BY <1>3, <2>3, <4>3, <4>6, <5>1
          <5> QED
            BY <1>4, <4>2, <5>2, <5>3 DEF OneAbout, ReadIsCurrent, Together
        <4>7. CASE h.id # 0
          <5>1. i = h.id /\ i \in Audit!RowsOf(c) /\ h.copy = auditRows[i]
            BY <1>1, <3>0, <4>1, <4>7 DEF ReadIsCurrent
          <5>2. Audit!RowsOf(c) = {i} /\ auditRows[i].times = done[c] /\ done[c] # {}
            BY <3>0, <5>1 DEF Together
          <5>3. Audit!RowsOf(c)' = {i}
            BY <4>4, <4>5, <5>2
          <5>4. auditRows'[i].times = done'[c] /\ done'[c] # {}
            BY <1>3, <2>3, <4>3, <4>7, <5>1, <5>2
          <5> QED
            BY <1>4, <4>2, <5>3, <5>4 DEF OneAbout, ReadIsCurrent, Together
        <4> QED
          BY <4>6, <4>7
      <3> QED
        BY <3>1, <3>2
    <2> QED
      BY <1>9, <1>10, <2>5, <2>6, <2>7 DEF AuditIInv, ConnectionsKept
  <1> QED
    BY <1>11, <1>12

LEMMA CleanUpRecorded == ASSUME AuditIInv, Audit!CleanUpConnections PROVE AuditIInv'
  <1>0. AuditTyped
    BY DEF AuditIInv
  <1> DEFINE linksOf(old) == {auditRows[i].link : i \in old}
  <1>1. PICK old \in (SUBSET Audit!Here(auditRows)) \ {{}} :
           /\ auditRows' = [i \in Audit!RowIds |-> IF i \in old THEN Removed ELSE auditRows[i]]
           /\ done' = [c \in Links |-> IF c \in linksOf(old) THEN {} ELSE done[c]]
           /\ overlapped' = overlapped \cup {c \in linksOf(old) : Audit!About(c) # {}}
    BY DEF Audit!CleanUpConnections
  <1>2. /\ cleanups < MaxCleanups /\ cleanups' = cleanups + 1
        /\ UNCHANGED <<requests, audits, handling, answers>>
    BY DEF Audit!CleanUpConnections
  <1>3. \A i \in old : i \in Audit!RowIds /\ auditRows[i] \in Audit!Connection
    BY <1>0, <1>1, AuditTypes DEF Audit!Here
  <1>4. linksOf(old) \subseteq Links
    BY <1>3 DEF Audit!Connection
  <1>5. AuditTyped'
    <2>1. cleanups' \in 0..MaxCleanups
      <3>1. cleanups \in 0..MaxCleanups
        BY <1>0 DEF AuditTyped, Audit!TypeOK
      <3> QED
        BY <1>2, <3>1, AuditsBounded DEF Audit!AuditAssumption
    <2>2. auditRows' \in [Audit!RowIds -> Audit!Connection \cup {Nothing, Removed}]
      BY <1>0, <1>1 DEF AuditTyped, Audit!TypeOK
    <2>3. done' \in [Links -> SUBSET Audit!Kinds] /\ overlapped' \subseteq Links
      BY <1>0, <1>1, <1>4 DEF AuditTyped, Audit!TypeOK
    <2> QED
      BY <1>0, <1>2, <2>1, <2>2, <2>3 DEF AuditTyped, Audit!TypeOK
  <1>6. NonceHasOneRow' /\ AnswersHold'
    BY <1>2 DEF AuditIInv, NonceHasOneRow, AnswersHold
  <1>7. \A i \in Audit!RowIds : auditRows'[i] = IF i \in old THEN Removed ELSE auditRows[i]
    BY <1>1
  <1>8. ASSUME NEW p \in Reporters PROVE OfItsLink(p)'
    <2>1. OfItsLink(p)
      BY DEF AuditIInv, ConnectionsKept
    <2>2. handling[p].op = "connection" /\ handling[p].id # 0 => handling[p].id \in Audit!RowIds
      BY <1>0, ConnectionRequests
    <2> QED
      BY <1>2, <1>7, <2>1, <2>2 DEF OfItsLink
  <1>9. ASSUME NEW p \in Reporters, NEW r \in Reporters PROVE SameLink(p, r)'
    BY <1>2 DEF AuditIInv, ConnectionsKept, SameLink
  <1>10. ASSUME NEW c \in Links \ overlapped'
         PROVE  OneAbout(c)' /\ ReadIsCurrent(c)' /\ Together(c)'
    <2>1. OneAbout(c) /\ ReadIsCurrent(c) /\ Together(c)
      BY <1>1 DEF AuditIInv, ConnectionsKept
    <2>2. Audit!About(c)' = Audit!About(c)
      BY <1>2 DEF Audit!About
    <2>3. \A i : i \in Audit!RowsOf(c)' <=> i \in Audit!RowsOf(c) \ old
      BY <1>7 DEF Audit!RowsOf, Audit!Here
    <2>4. \A i \in Audit!RowsOf(c) \ old : auditRows'[i] = auditRows[i]
      BY <1>7 DEF Audit!RowsOf, Audit!Here
    <2>5. CASE c \in linksOf(old)
      <3>1. Audit!About(c) = {} /\ done'[c] = {}
        BY <1>1, <1>4, <2>5
      <3>2. PICK j \in old : auditRows[j].link = c
        BY <2>5
      <3>3. j \in Audit!RowsOf(c)
        BY <1>0, <1>3, <3>2, InRowsOf
      <3>4. Audit!RowsOf(c) = {j}
        BY <2>1, <3>3 DEF Together
      <3>5. Audit!RowsOf(c)' = {}
        BY <2>3, <3>2, <3>4
      <3> QED
        BY <2>1, <2>2, <3>1, <3>5 DEF OneAbout, ReadIsCurrent, Together
    <2>6. CASE c \notin linksOf(old)
      <3>1. \A i \in Audit!RowsOf(c) : i \notin old
        BY <2>6 DEF Audit!RowsOf
      <3>2. Audit!RowsOf(c)' = Audit!RowsOf(c)
        BY <2>3, <3>1
      <3>3. done'[c] = done[c]
        BY <1>1, <2>6
      <3>4. OneAbout(c)'
        BY <2>1, <2>2 DEF OneAbout
      <3>5. ReadIsCurrent(c)'
        BY <1>2, <2>1, <2>2, <2>4, <3>1, <3>2 DEF ReadIsCurrent
      <3>6. Together(c)'
        BY <2>1, <2>4, <3>1, <3>2, <3>3 DEF Together
      <3> QED
        BY <3>4, <3>5, <3>6
    <2> QED
      BY <2>5, <2>6
  <1> QED
    BY <1>5, <1>6, <1>8, <1>9, <1>10 DEF AuditIInv, ConnectionsKept

(***************************************************************************)
(* Files and alarms.                                                       *)
(***************************************************************************)

LEMMA FindAuditRecorded ==
    ASSUME AuditIInv, NEW q \in Reporters, NEW n \in Nonces, Audit!FindAudit(q, n)
    PROVE  AuditIInv'
  <1>0. AuditTyped /\ handling[q].op = "idle"
    BY DEF AuditIInv, Audit!FindAudit, Audit!Arrives, Audit!Idle
  <1>1. UNCHANGED <<auditRows, audits, cleanups, done, overlapped>>
    BY DEF Audit!FindAudit, Audit!tables
  <1>2. PICK h \in AuditRequest :
           h.op # "connection" /\ handling' = [handling EXCEPT ![q] = h]
    <2>1. handling[q] \in AuditRequest /\ handling[q].op # "connection"
          /\ handling = [handling EXCEPT ![q] = handling[q]]
      BY <1>0 DEF AuditTyped
    <2>2. [op |-> "insert", nonce |-> n] \in AuditRequest
      BY DEF AuditRequest
    <2>3. UNCHANGED handling \/ Audit!Handles(q, [op |-> "insert", nonce |-> n])
      BY DEF Audit!FindAudit
    <2>4. CASE UNCHANGED handling
      BY <2>1, <2>4
    <2>5. CASE Audit!Handles(q, [op |-> "insert", nonce |-> n])
      BY <2>2, <2>5 DEF Audit!Handles
    <2> QED
      BY <2>3, <2>4, <2>5
  <1>3. requests' \in 0..MaxRequests
    <2>1. requests \in 0..MaxRequests /\ requests < MaxRequests /\ requests' = requests + 1
      BY <1>0 DEF Audit!FindAudit, Audit!Arrives, AuditTyped, Audit!TypeOK
    <2> QED
      BY <2>1, AuditsBounded DEF Audit!AuditAssumption
  <1>4. answers' = answers
        \/ \E i \in Audit!RowIds : audits[i] = n /\ answers' = answers \cup {<<n, i>>}
    BY DEF Audit!FindAudit
  <1>5. answers' \subseteq Nonces \X Audit!RowIds
    <2>1. answers \subseteq Nonces \X Audit!RowIds
      BY <1>0 DEF AuditTyped, Audit!TypeOK
    <2>2. \A i \in Audit!RowIds : <<n, i>> \in Nonces \X Audit!RowIds
      OBVIOUS
    <2> QED
      BY <1>4, <2>1, <2>2
  <1>6. /\ auditRows' \in [Audit!RowIds -> Audit!Connection \cup {Nothing, Removed}]
        /\ audits' \in [Audit!RowIds -> Nonces \cup {Nothing, Removed}]
        /\ done' \in [Links -> SUBSET Audit!Kinds] /\ overlapped' \subseteq Links
    BY <1>0, <1>1 DEF AuditTyped, Audit!TypeOK
  <1>7. /\ AuditTyped' /\ handling'[q] = h
        /\ \A p \in Reporters \ {q} : handling'[p] = handling[p]
    BY <1>0, <1>1, <1>2, <1>3, <1>5, <1>6, TypedWith
  <1>8. NonceHasOneRow' /\ AnswersHold'
    BY <1>1, <1>4 DEF AuditIInv, NonceHasOneRow, AnswersHold
  <1>9. ConnectionsKept'
    BY <1>1, <1>2, <1>7, ConnectionsApart
  <1> QED
    BY <1>7, <1>8, <1>9 DEF AuditIInv

LEMMA InsertRecorded ==
    ASSUME AuditIInv, NEW q \in Reporters, Audit!InsertAudit(q) PROVE AuditIInv'
  <1> DEFINE n == handling[q].nonce
  <1>0. AuditTyped /\ n \in Nonces
    BY InsertRequests DEF AuditIInv, Audit!InsertAudit
  <1>1. UNCHANGED <<requests, auditRows, cleanups, done, overlapped>>
    BY DEF Audit!InsertAudit
  <1>2. PICK h \in AuditRequest :
           h.op # "connection" /\ handling' = [handling EXCEPT ![q] = h]
    <2>1. [op |-> "look again", nonce |-> n] \in AuditRequest
      BY <1>0 DEF AuditRequest
    <2>2. Audit!Idle \in AuditRequest /\ Audit!Idle.op # "connection"
      BY DEF AuditRequest, Audit!Idle
    <2>3. Audit!Handles(q, [op |-> "look again", nonce |-> n]) \/ Audit!Handles(q, Audit!Idle)
      BY DEF Audit!InsertAudit
    <2> QED
      BY <2>1, <2>2, <2>3 DEF Audit!Handles
  <1>3. \/ UNCHANGED <<audits, answers>>
        \/ \E i \in Audit!RowIds :
              /\ \A j \in Audit!RowIds : audits[j] # n
              /\ audits[i] = Nothing
              /\ audits' = [audits EXCEPT ![i] = n] /\ answers' = answers \cup {<<n, i>>}
    BY DEF Audit!InsertAudit, Audit!FreshId
  <1>4. /\ audits' \in [Audit!RowIds -> Nonces \cup {Nothing, Removed}]
        /\ answers' \subseteq Nonces \X Audit!RowIds
    <2>1. /\ answers \subseteq Nonces \X Audit!RowIds
          /\ audits \in [Audit!RowIds -> Nonces \cup {Nothing, Removed}]
      BY <1>0 DEF AuditTyped, Audit!TypeOK
    <2>2. \A i \in Audit!RowIds : <<n, i>> \in Nonces \X Audit!RowIds
      BY <1>0
    <2>3. CASE UNCHANGED <<audits, answers>>
      BY <2>1, <2>3
    <2>4. ASSUME NEW i \in Audit!RowIds, audits' = [audits EXCEPT ![i] = n],
                 answers' = answers \cup {<<n, i>>}
          PROVE  /\ audits' \in [Audit!RowIds -> Nonces \cup {Nothing, Removed}]
                 /\ answers' \subseteq Nonces \X Audit!RowIds
      <3>1. audits' \in [Audit!RowIds -> Nonces \cup {Nothing, Removed}]
        BY <1>0, <2>1, <2>4
      <3>2. answers' \subseteq Nonces \X Audit!RowIds
        BY <2>1, <2>2, <2>4
      <3> QED
        BY <3>1, <3>2
    <2> QED
      BY <1>3, <2>3, <2>4
  <1>5. /\ auditRows' \in [Audit!RowIds -> Audit!Connection \cup {Nothing, Removed}]
        /\ done' \in [Links -> SUBSET Audit!Kinds] /\ overlapped' \subseteq Links
        /\ requests' \in 0..MaxRequests
    BY <1>0, <1>1 DEF AuditTyped, Audit!TypeOK
  <1>6. /\ AuditTyped' /\ handling'[q] = h
        /\ \A p \in Reporters \ {q} : handling'[p] = handling[p]
    BY <1>0, <1>1, <1>2, <1>4, <1>5, TypedWith
  <1>7. NonceHasOneRow' /\ AnswersHold'
    <2>1. CASE UNCHANGED <<audits, answers>>
      BY <2>1 DEF AuditIInv, NonceHasOneRow, AnswersHold
    <2>2. ASSUME NEW i \in Audit!RowIds, \A j \in Audit!RowIds : audits[j] # n,
                 audits[i] = Nothing, audits' = [audits EXCEPT ![i] = n],
                 answers' = answers \cup {<<n, i>>}
          PROVE  NonceHasOneRow' /\ AnswersHold'
      <3>1. audits'[i] = n /\ \A j \in Audit!RowIds \ {i} : audits'[j] = audits[j]
        BY <1>0, <2>2 DEF AuditTyped, Audit!TypeOK
      <3>2. \A a \in answers : a[2] \in Audit!RowIds /\ a[1] \in Nonces /\ audits[a[2]] = a[1]
        BY <1>0 DEF AuditTyped, Audit!TypeOK, AuditIInv, AnswersHold
      <3>3. Nothing \notin Nonces
        BY AuditsBounded DEF Audit!AuditAssumption
      <3>4. \A a \in answers : a[2] # i
        BY <2>2, <3>2, <3>3
      <3>5. AnswersHold'
        BY <2>2, <3>1, <3>2, <3>4 DEF AnswersHold
      <3>6. NonceHasOneRow'
        BY <2>2, <3>1 DEF AuditIInv, NonceHasOneRow
      <3> QED
        BY <3>5, <3>6
    <2> QED
      BY <1>3, <2>1, <2>2
  <1>8. ConnectionsKept'
    BY <1>1, <1>2, <1>6, ConnectionsApart
  <1> QED
    BY <1>6, <1>7, <1>8 DEF AuditIInv

LEMMA LookAgainRecorded ==
    ASSUME AuditIInv, NEW q \in Reporters, Audit!LookAgain(q) PROVE AuditIInv'
  <1> DEFINE n == handling[q].nonce
  <1>0. AuditTyped /\ n \in Nonces
    BY InsertRequests DEF AuditIInv, Audit!LookAgain
  <1>1. UNCHANGED <<requests, auditRows, audits, cleanups, done, overlapped>>
    BY DEF Audit!LookAgain, Audit!tables
  <1>2. /\ handling' = [handling EXCEPT ![q] = Audit!Idle]
        /\ Audit!Idle \in AuditRequest /\ Audit!Idle.op # "connection"
    BY DEF Audit!LookAgain, Audit!Handles, AuditRequest, Audit!Idle
  <1>3. answers' = answers \cup {<<n, i>> : i \in {j \in Audit!RowIds : audits[j] = n}}
    BY DEF Audit!LookAgain
  <1>4. answers' \subseteq Nonces \X Audit!RowIds
    <2>1. answers \subseteq Nonces \X Audit!RowIds
      BY <1>0 DEF AuditTyped, Audit!TypeOK
    <2>2. \A i \in Audit!RowIds : <<n, i>> \in Nonces \X Audit!RowIds
      BY <1>0
    <2> QED
      BY <1>3, <2>1, <2>2
  <1>5. /\ auditRows' \in [Audit!RowIds -> Audit!Connection \cup {Nothing, Removed}]
        /\ audits' \in [Audit!RowIds -> Nonces \cup {Nothing, Removed}]
        /\ done' \in [Links -> SUBSET Audit!Kinds] /\ overlapped' \subseteq Links
        /\ requests' \in 0..MaxRequests
    BY <1>0, <1>1 DEF AuditTyped, Audit!TypeOK
  <1>6. /\ AuditTyped' /\ handling'[q] = Audit!Idle
        /\ \A p \in Reporters \ {q} : handling'[p] = handling[p]
    BY <1>0, <1>1, <1>2, <1>4, <1>5, TypedWith
  <1>7. NonceHasOneRow' /\ AnswersHold'
    BY <1>1, <1>3 DEF AuditIInv, NonceHasOneRow, AnswersHold
  <1>8. ConnectionsKept'
    BY <1>1, <1>2, <1>6, ConnectionsApart
  <1> QED
    BY <1>6, <1>7, <1>8 DEF AuditIInv

LEMMA CleanUpAuditsRecorded == ASSUME AuditIInv, Audit!CleanUpAudits PROVE AuditIInv'
  <1>0. AuditTyped
    BY DEF AuditIInv
  <1>1. PICK old \in (SUBSET Audit!Here(audits)) \ {{}} :
           /\ audits' = [i \in Audit!RowIds |-> IF i \in old THEN Removed ELSE audits[i]]
           /\ answers' = {a \in answers : a[2] \notin old}
    BY DEF Audit!CleanUpAudits
  <1>2. /\ cleanups < MaxCleanups /\ cleanups' = cleanups + 1
        /\ UNCHANGED <<requests, auditRows, handling, done, overlapped>>
    BY DEF Audit!CleanUpAudits
  <1>3. AuditTyped'
    <2>1. cleanups' \in 0..MaxCleanups
      <3>1. cleanups \in 0..MaxCleanups
        BY <1>0 DEF AuditTyped, Audit!TypeOK
      <3> QED
        BY <1>2, <3>1, AuditsBounded DEF Audit!AuditAssumption
    <2>2. /\ audits' \in [Audit!RowIds -> Nonces \cup {Nothing, Removed}]
          /\ answers' \subseteq Nonces \X Audit!RowIds
      BY <1>0, <1>1 DEF AuditTyped, Audit!TypeOK
    <2> QED
      BY <1>0, <1>2, <2>1, <2>2 DEF AuditTyped, Audit!TypeOK
  <1>4. \A i \in Audit!RowIds : audits'[i] = IF i \in old THEN Removed ELSE audits[i]
    BY <1>1
  <1>5. AnswersHold'
    <2>1. \A a \in answers : a[2] \in Audit!RowIds /\ audits[a[2]] = a[1]
      BY <1>0 DEF AuditTyped, Audit!TypeOK, AuditIInv, AnswersHold
    <2> QED
      BY <1>1, <1>4, <2>1 DEF AnswersHold
  <1>6. NonceHasOneRow'
    <2>1. Removed \notin Nonces
      BY AuditsBounded DEF Audit!AuditAssumption
    <2> QED
      BY <1>4, <2>1 DEF AuditIInv, NonceHasOneRow
  <1>7. ConnectionsKept'
    BY <1>2, ConnectionsApart
  <1> QED
    BY <1>3, <1>5, <1>6, <1>7 DEF AuditIInv

-----------------------------------------------------------------------------
LEMMA AuditInvariant == PartsSpec => []AuditIInv
  <1>1. PartsInit => AuditIInv
    BY AuditInit DEF PartsInit
  <1>2. AuditIInv /\ Audit!NextOfConnections => AuditIInv'
    BY FindRecorded, SaveRecorded, CleanUpRecorded DEF Audit!NextOfConnections
  <1>3. AuditIInv /\ Audit!NextOfAudits => AuditIInv'
    BY FindAuditRecorded, InsertRecorded, LookAgainRecorded, CleanUpAuditsRecorded
       DEF Audit!NextOfAudits
  <1>4. AuditIInv /\ UNCHANGED auditVars => AuditIInv'
    <2> SUFFICES ASSUME AuditIInv, UNCHANGED auditVars PROVE AuditIInv'
      OBVIOUS
    <2>1. UNCHANGED <<auditRows, audits, handling, requests, cleanups, answers, done, overlapped>>
      BY DEF auditVars
    <2>2. ConnectionsKept'
      BY <2>1, ConnectionsApart
    <2>3. AuditTyped' /\ NonceHasOneRow' /\ AnswersHold'
      BY <2>1 DEF AuditIInv, AuditTyped, Audit!TypeOK, NonceHasOneRow, AnswersHold
    <2> QED
      BY <2>2, <2>3 DEF AuditIInv
  <1>5. AuditIInv /\ [PartsNext]_<<part, vars, bufferVars, strategyVars, auditVars>> => AuditIInv'
    BY <1>2, <1>3, <1>4 DEF PartsNext
  <1> QED
    BY <1>1, <1>5, PTL DEF PartsSpec

\* upsertConnectionAudit, auditFile and auditAlarm: a report that is repeated,
\* reordered or sent again at the same time has one row, which its answers name,
\* and the reports of a connection, unless two were handled at once, are together
\* in one row: for any number of connections, reports, requests and cleanups.
THEOREM ReportsAlwaysRecorded == PartsSpec => []ReportsRecorded
  <1>1. AuditIInv => ReportsRecorded
    <2> SUFFICES ASSUME AuditIInv PROVE Audit!ReportsRecorded
      BY DEF ReportsRecorded
    <2>0. AuditTyped
      BY DEF AuditIInv
    <2>1. ASSUME NEW a \in answers, NEW i \in Audit!RowIds PROVE audits[i] = a[1] <=> i = a[2]
      BY <2>0, <2>1 DEF AuditIInv, NonceHasOneRow, AnswersHold, AuditTyped, Audit!TypeOK
    <2>2. ASSUME NEW c \in Links \ overlapped
          PROVE  /\ Cardinality(Audit!RowsOf(c)) = IF done[c] = {} THEN 0 ELSE 1
                 /\ \A i \in Audit!RowsOf(c) : auditRows[i].times = done[c]
      <3>1. Together(c)
        BY DEF AuditIInv, ConnectionsKept
      <3>2. CASE Audit!RowsOf(c) = {} /\ done[c] = {}
        BY <3>2, FS_EmptySet
      <3>3. ASSUME NEW i \in Audit!RowIds, Audit!RowsOf(c) = {i}, auditRows[i].times = done[c],
                   done[c] # {}
            PROVE  /\ Cardinality(Audit!RowsOf(c)) = 1
                   /\ \A j \in Audit!RowsOf(c) : auditRows[j].times = done[c]
        BY <3>3, FS_Singleton
      <3> QED
        BY <3>1, <3>2, <3>3 DEF Together
    <2> QED
      <3>1. \A S : Audit!Cardinality(S) = Cardinality(S)
        BY DEF Audit!Cardinality, Cardinality
      <3> QED
        BY ONLY <2>1, <2>2, <3>1 DEF Audit!ReportsRecorded
  <1> QED
    BY <1>1, AuditInvariant, PTL

(***************************************************************************)
(* Strategies.                                                             *)
(***************************************************************************)

Reference == Strategy!Guids \cup {Nothing}
DeviceRow == [here: BOOLEAN, strategy: Reference, user: Owners \cup {Nothing},
              group: PeerGroups \cup {Nothing}]
Resolution ==
    [op: {"idle", "lookup", "strategy", "owner", "fill"}, device: Devices \cup {Nothing},
     peer: DeviceRow, level: {"device", "user", "group"}, guid: Reference,
     edits: Nat \cup {Nothing}, overtaken: BOOLEAN]

StrategyTyped ==
    /\ strategies \in [Strategy!Guids -> Nat \cup {Nothing, Removed}]
    /\ devices \in [Devices -> DeviceRow]
    /\ assigned \in [Owners \cup PeerGroups -> [here: BOOLEAN, strategy: Reference]]
    /\ objectCache \in [Strategy!Guids -> Nat \cup {Nothing}]
    /\ deviceCache \in [Devices -> Reference \cup {Unknown}]
    /\ resolving \in [Resolutions -> Resolution]
    /\ change \in [op: {"idle", "publish", "drop", "forget"}, devices: SUBSET Devices,
                   guid: Reference]
    /\ change.op \in {"publish", "drop"} => change.guid \in Strategy!Guids
    /\ change.op = "publish" => strategies[change.guid] # Removed
    /\ lapsed \subseteq Devices

\* The foreign keys of devices, users and groups.
RefersToRow(s) == s # Nothing => Strategy!Exists(s)
StrategyKeys ==
    /\ \A d \in Devices : RefersToRow(devices[d].strategy)
    /\ \A x \in Owners \cup PeerGroups : RefersToRow(assigned[x].strategy)

\* The strategy of a device: that of the first level that has one.
AtLevel(d, level) ==
    IF level = "device" THEN devices[d].strategy ELSE Strategy!StrategyOf(devices[d][level])
Chosen(d) ==
    IF AtLevel(d, "device") # Nothing THEN AtLevel(d, "device")
    ELSE IF AtLevel(d, "user") # Nothing THEN AtLevel(d, "user") ELSE AtLevel(d, "group")

\* What a heartbeat no change has overtaken has read is still so.
CopyCurrent(r) ==
    LET d == r.device
    IN /\ r.op = "lookup" => r.peer = devices[d]
       /\ r.op = "owner" => r.peer[r.level] = devices[d][r.level]
       /\ r.level = "device" => r.peer.user = devices[d].user
       /\ r.level # "group" => r.peer.group = devices[d].group
LevelsTried(r) ==
    /\ r.op = "lookup" => r.level = "device"
    /\ r.level # "device" => AtLevel(r.device, "device") = Nothing
    /\ r.level = "group" => AtLevel(r.device, "user") = Nothing
    /\ r.op = "strategy" => r.guid = AtLevel(r.device, r.level)
FoundCurrent(r) ==
    r.guid = Chosen(r.device) /\ (r.guid # Nothing => r.edits = strategies[r.guid])
ReadSoFar(r) ==
    ~r.overtaken =>
        /\ devices[r.device].here
        /\ IF r.op = "fill" THEN FoundCurrent(r) ELSE CopyCurrent(r) /\ LevelsTried(r)
Answering(r) == r.device \in Devices /\ (r.op = "owner" => r.level # "device")
ResolutionKept(b) ==
    resolving[b].op # "idle" => Answering(resolving[b]) /\ ReadSoFar(resolving[b])

\* What is remembered is so, or what is to be forgotten after a commit.
ToForget(d) ==
    \/ change.op = "forget" /\ d \in change.devices
    \/ change.op = "drop" /\ deviceCache[d] = change.guid
DeviceMemory(d) ==
    \/ deviceCache[d] = Unknown
    \/ devices[d].here /\ deviceCache[d] = Chosen(d)
    \/ ToForget(d)
ObjectMemory(s) ==
    \/ s = Nothing \/ s = Unknown
    \/ objectCache[s] = Nothing \/ objectCache[s] = strategies[s]
    \/ change.op \in {"publish", "drop"} /\ change.guid = s
MemoryKept(d) == d \in lapsed \/ (DeviceMemory(d) /\ ObjectMemory(deviceCache[d]))

StrategyIInv ==
    /\ StrategyTyped /\ StrategyKeys
    /\ \A b \in Resolutions : ResolutionKept(b)
    /\ \A d \in Devices : MemoryKept(d)

LEMMA StrategyTypes ==
    ASSUME StrategyTyped
    PROVE  /\ \A d \in Devices :
                 /\ devices[d] \in DeviceRow /\ deviceCache[d] \in Reference \cup {Unknown}
           /\ \A x \in Owners \cup PeerGroups :
                 assigned[x] \in [here: BOOLEAN, strategy: Reference]
           /\ \A s \in Strategy!Guids : /\ strategies[s] \in Nat \cup {Nothing, Removed}
                                        /\ objectCache[s] \in Nat \cup {Nothing}
           /\ \A b \in Resolutions : resolving[b] \in Resolution
  BY DEF StrategyTyped

LEMMA GuidFacts ==
    /\ \A s \in Strategy!Guids : s \in Nat /\ s # Nothing /\ s # Unknown
    /\ Nothing # Unknown /\ Nothing # Removed /\ Nothing \notin Nat /\ Removed \notin Nat
    /\ Nothing \notin Devices \cup Owners \cup PeerGroups
    /\ \A x : x \in Owners => x \notin PeerGroups
  <1>1. /\ {MaxStrategies, MaxEdits} \subseteq Nat
        /\ {Nothing, Removed, Unknown} \cap Nat = {} /\ Nothing \notin {Removed, Unknown}
        /\ Nothing \notin Devices \cup Owners \cup PeerGroups
        /\ Owners \cap PeerGroups = {}
    BY StrategiesBounded DEF Strategy!StrategyAssumption
  <1>2. \A s \in Strategy!Guids : s \in Nat
    BY <1>1 DEF Strategy!Guids
  <1>3. /\ Nothing \notin Nat /\ Removed \notin Nat /\ Unknown \notin Nat
        /\ Nothing # Removed /\ Nothing # Unknown
    BY <1>1
  <1> QED
    BY <1>1, <1>2, <1>3

\* The rows the strategy of a device is found by.
LEMMA LevelTypes ==
    ASSUME StrategyTyped, NEW d \in Devices, NEW level \in {"user", "group"}
    PROVE  /\ devices[d][level] \in Owners \cup PeerGroups \cup {Nothing}
           /\ AtLevel(d, level) \in Reference
           /\ AtLevel(d, level) = Strategy!StrategyOf(devices[d][level])
  <1>1. devices[d] \in DeviceRow
    BY StrategyTypes
  <1>2. devices[d][level] \in Owners \cup PeerGroups \cup {Nothing}
    BY <1>1 DEF DeviceRow
  <1>3. AtLevel(d, level) = Strategy!StrategyOf(devices[d][level])
    BY DEF AtLevel
  <1>4. \A x \in Owners \cup PeerGroups : assigned[x].strategy \in Reference
    BY StrategyTypes
  <1>5. Nothing \in Reference
    BY DEF Reference
  <1> QED
    BY <1>2, <1>3, <1>4, <1>5 DEF Strategy!StrategyOf

LEMMA ChosenTyped ==
    ASSUME StrategyTyped, StrategyKeys, NEW d \in Devices
    PROVE  /\ Chosen(d) \in Reference
           /\ \A level \in {"device", "user", "group"} :
                 AtLevel(d, level) \in Reference /\ RefersToRow(AtLevel(d, level))
           /\ RefersToRow(Chosen(d))
  <1>1. AtLevel(d, "device") \in Reference /\ RefersToRow(AtLevel(d, "device"))
    BY StrategyTypes DEF AtLevel, StrategyKeys, DeviceRow
  <1>2. ASSUME NEW level \in {"user", "group"}
        PROVE  AtLevel(d, level) \in Reference /\ RefersToRow(AtLevel(d, level))
    <2>1. AtLevel(d, level) \in Reference
      BY LevelTypes
    <2>2. AtLevel(d, level) = Strategy!StrategyOf(devices[d][level])
          /\ devices[d][level] \in Owners \cup PeerGroups \cup {Nothing}
      BY LevelTypes
    <2>3. RefersToRow(AtLevel(d, level))
      BY <2>2 DEF Strategy!StrategyOf, StrategyKeys, RefersToRow
    <2> QED
      BY <2>1, <2>3
  <1> QED
    BY <1>1, <1>2 DEF Chosen

\* It changes only with the device's row, its user or its group.
LEMMA ChosenKept ==
    ASSUME StrategyTyped, NEW d \in Devices, devices'[d] = devices[d],
           \A level \in {"user", "group"} :
              devices[d][level] # Nothing =>
                 assigned'[devices[d][level]] = assigned[devices[d][level]]
    PROVE  Chosen(d)' = Chosen(d)
  <1>1. AtLevel(d, "device")' = AtLevel(d, "device")
    BY DEF AtLevel
  <1>2. \A level \in {"user", "group"} : AtLevel(d, level)' = AtLevel(d, level)
    BY DEF AtLevel, Strategy!StrategyOf
  <1> QED
    BY <1>1, <1>2 DEF Chosen

LEMMA StrategyInit == Strategy!Init => StrategyIInv
  <1> SUFFICES ASSUME Strategy!Init PROVE StrategyIInv
    OBVIOUS
  <1>1. Strategy!Absent \in DeviceRow /\ Strategy!Present \in DeviceRow
    BY DEF Strategy!Absent, Strategy!Present, DeviceRow, Reference
  <1>2. Strategy!NoResolution \in Resolution /\ Strategy!NoResolution.op = "idle"
    BY <1>1 DEF Strategy!NoResolution, Resolution, Reference
  <1>3. StrategyTyped
    <2>1. strategies \in [Strategy!Guids -> Nat \cup {Nothing, Removed}]
      BY DEF Strategy!Init
    <2>2. devices \in [Devices -> DeviceRow]
      BY <1>1 DEF Strategy!Init
    <2>3. assigned \in [Owners \cup PeerGroups -> [here: BOOLEAN, strategy: Reference]]
      BY DEF Strategy!Init, Reference
    <2>4. /\ objectCache \in [Strategy!Guids -> Nat \cup {Nothing}]
          /\ deviceCache \in [Devices -> Reference \cup {Unknown}]
      BY DEF Strategy!Init
    <2>5. resolving \in [Resolutions -> Resolution]
      BY <1>2 DEF Strategy!Init
    <2>6. change = [op |-> "idle", devices |-> {}, guid |-> Nothing] /\ lapsed = {}
      BY DEF Strategy!Init, Strategy!NoChange
    <2> QED
      BY <2>1, <2>2, <2>3, <2>4, <2>5, <2>6 DEF StrategyTyped, Reference
  <1>4. StrategyKeys
    <2>1. \A d \in Devices : devices[d].strategy = Nothing
      BY DEF Strategy!Init, Strategy!Present, Strategy!Absent
    <2>2. \A x \in Owners \cup PeerGroups : assigned[x].strategy = Nothing
      BY DEF Strategy!Init
    <2> QED
      BY <2>1, <2>2 DEF StrategyKeys, RefersToRow
  <1>5. \A b \in Resolutions : ResolutionKept(b)
    BY <1>2 DEF Strategy!Init, ResolutionKept
  <1>6. \A d \in Devices : MemoryKept(d)
    BY DEF Strategy!Init, MemoryKept, DeviceMemory, ObjectMemory
  <1> QED
    BY <1>3, <1>4, <1>5, <1>6 DEF StrategyIInv

(***************************************************************************)
(* Heartbeats.                                                             *)
(***************************************************************************)

LEMMA OneResolution ==
    ASSUME StrategyIInv, NEW b \in Resolutions, NEW r \in Resolution,
           resolving' = [resolving EXCEPT ![b] = r],
           r.op # "idle" => Answering(r) /\ ReadSoFar(r),
           UNCHANGED <<strategies, devices, assigned>>
    PROVE  /\ resolving' \in [Resolutions -> Resolution]
           /\ \A c \in Resolutions : ResolutionKept(c)'
  <1>1. resolving \in [Resolutions -> Resolution]
    BY DEF StrategyIInv, StrategyTyped
  <1>2. /\ resolving' \in [Resolutions -> Resolution] /\ resolving'[b] = r
        /\ \A c \in Resolutions \ {b} : resolving'[c] = resolving[c]
    BY <1>1
  <1>3. ASSUME NEW x PROVE ReadSoFar(x)' <=> ReadSoFar(x)
    BY DEF ReadSoFar, FoundCurrent, CopyCurrent, LevelsTried, Chosen, AtLevel,
           Strategy!StrategyOf
  <1>4. ASSUME NEW c \in Resolutions PROVE ResolutionKept(c)'
    <2>1. CASE c = b
      <3>1. r.op # "idle" => Answering(r) /\ ReadSoFar(r)'
        BY <1>3
      <3> QED
        BY <1>2, <2>1, <3>1 DEF ResolutionKept, Answering, ReadSoFar, FoundCurrent, CopyCurrent,
                                LevelsTried
    <2>2. CASE c # b
      <3>1. ResolutionKept(c)
        BY DEF StrategyIInv
      <3> QED
        BY <1>2, <2>2, <3>1 DEF ResolutionKept, Answering, ReadSoFar, FoundCurrent, CopyCurrent,
           LevelsTried, Chosen, AtLevel, Strategy!StrategyOf
    <2> QED
      BY <2>1, <2>2
  <1> QED
    BY <1>2, <1>4

\* Whoever only reads leaves what is remembered as it is.
LEMMA ReadingKept ==
    ASSUME StrategyIInv, NEW b \in Resolutions, NEW r \in Resolution,
           resolving' = [resolving EXCEPT ![b] = r],
           r.op # "idle" => Answering(r) /\ ReadSoFar(r),
           UNCHANGED <<strategies, devices, assigned, objectCache, deviceCache, change, lapsed>>
    PROVE  StrategyIInv'
  <1>1. /\ resolving' \in [Resolutions -> Resolution]
        /\ \A c \in Resolutions : ResolutionKept(c)'
    BY OneResolution
  <1>2. StrategyTyped'
    BY <1>1 DEF StrategyIInv, StrategyTyped
  <1>3. StrategyKeys'
    BY DEF StrategyIInv, StrategyKeys, RefersToRow, Strategy!Exists
  <1>4. ASSUME NEW d \in Devices PROVE MemoryKept(d)'
    <2>1. MemoryKept(d)
      BY DEF StrategyIInv
    <2> QED
      BY <2>1 DEF MemoryKept, DeviceMemory, ObjectMemory, ToForget, Chosen, AtLevel,
                  Strategy!StrategyOf
  <1> QED
    BY <1>1, <1>2, <1>3, <1>4 DEF StrategyIInv

LEMMA NoResolutionTyped ==
    /\ Strategy!Absent \in DeviceRow /\ Strategy!Present \in DeviceRow
    /\ Strategy!NoResolution \in Resolution /\ Strategy!NoResolution.op = "idle"
    /\ Strategy!NoResolution.level = "device" /\ ~Strategy!NoResolution.overtaken
  <1>1. Strategy!Absent \in DeviceRow /\ Strategy!Present \in DeviceRow
    BY DEF Strategy!Absent, Strategy!Present, DeviceRow, Reference
  <1> QED
    BY <1>1 DEF Strategy!NoResolution, Resolution, Reference

LEMMA ReadPeerKept ==
    ASSUME StrategyIInv, NEW b \in Resolutions, NEW d \in Devices, Strategy!ReadPeer(b, d)
    PROVE  StrategyIInv'
  <1> DEFINE r == [Strategy!NoResolution EXCEPT !.op = "lookup", !.device = d, !.peer = devices[d]]
  <1>1. /\ resolving' = [resolving EXCEPT ![b] = r] /\ devices[d].here
        /\ UNCHANGED <<strategies, devices, assigned, objectCache, deviceCache, change, lapsed>>
    BY DEF Strategy!ReadPeer, Strategy!tables, Strategy!caches
  <1>2. devices[d] \in DeviceRow
    BY StrategyTypes DEF StrategyIInv
  <1>3. /\ r \in Resolution /\ r.op = "lookup" /\ r.device = d /\ r.peer = devices[d]
        /\ r.level = "device" /\ ~r.overtaken
    BY <1>2, NoResolutionTyped DEF Resolution
  <1>4. ReadSoFar(r)
    BY <1>1, <1>3 DEF ReadSoFar, CopyCurrent, LevelsTried
  <1> HIDE DEF r
  <1> QED
    BY <1>1, <1>3, <1>4, ReadingKept DEF Answering

LEMMA LookUpKept ==
    ASSUME StrategyIInv, NEW b \in Resolutions, Strategy!LookUp(b) PROVE StrategyIInv'
  <1> DEFINE o == resolving[b]
             r == [o EXCEPT !.op = "strategy", !.guid = o.peer.strategy, !.peer.strategy = Nothing]
  <1>0. o \in Resolution /\ o.op = "lookup" /\ o.device \in Devices /\ ReadSoFar(o)
    BY StrategyTypes DEF StrategyIInv, Strategy!LookUp, ResolutionKept, Answering
  <1>1. /\ resolving' = [resolving EXCEPT ![b] = Strategy!NoResolution]
           \/ resolving' = [resolving EXCEPT ![b] = r]
        /\ UNCHANGED <<strategies, devices, assigned, objectCache, deviceCache, change, lapsed>>
    BY DEF Strategy!LookUp, Strategy!tables, Strategy!caches
  <1>2. /\ r \in Resolution /\ r.op = "strategy" /\ r.device = o.device /\ r.level = o.level
        /\ r.guid = o.peer.strategy /\ r.peer.user = o.peer.user /\ r.peer.group = o.peer.group
        /\ r.overtaken = o.overtaken
    <2>1. o.peer \in DeviceRow
      BY <1>0 DEF Resolution
    <2>2. [o.peer EXCEPT !.strategy = Nothing] \in DeviceRow /\ o.peer.strategy \in Reference
      BY <2>1 DEF DeviceRow, Reference
    <2> QED
      BY <1>0, <2>1, <2>2 DEF Resolution, DeviceRow
  <1>3. ReadSoFar(r)
    <2> SUFFICES ASSUME ~o.overtaken PROVE ReadSoFar(r)
      BY <1>2 DEF ReadSoFar
    <2>1. o.peer = devices[o.device] /\ o.level = "device" /\ devices[o.device].here
      BY <1>0 DEF ReadSoFar, CopyCurrent, LevelsTried
    <2> HIDE DEF r
    <2> QED
      BY <1>2, <2>1 DEF ReadSoFar, CopyCurrent, LevelsTried, AtLevel
  <1> HIDE DEF r
  <1>4. CASE resolving' = [resolving EXCEPT ![b] = Strategy!NoResolution]
    BY <1>1, <1>4, NoResolutionTyped, ReadingKept DEF Answering
  <1>5. CASE resolving' = [resolving EXCEPT ![b] = r]
    BY <1>0, <1>1, <1>2, <1>3, <1>5, ReadingKept DEF Answering
  <1> QED
    BY <1>1, <1>4, <1>5

LEMMA ReadStrategyKept ==
    ASSUME StrategyIInv, NEW b \in Resolutions, Strategy!ReadStrategy(b) PROVE StrategyIInv'
  <1> DEFINE o == resolving[b]
  <1>0. /\ o \in Resolution /\ o.op = "strategy" /\ o.device \in Devices /\ ReadSoFar(o)
        /\ StrategyTyped /\ StrategyKeys
    BY StrategyTypes DEF StrategyIInv, Strategy!ReadStrategy, ResolutionKept, Answering
  <1>1. /\ resolving' = [resolving EXCEPT ![b] =
              IF Strategy!Exists(o.guid)
              THEN Strategy!ToRemember(o, o.guid, strategies[o.guid]) ELSE Strategy!Deeper(o)]
        /\ UNCHANGED <<strategies, devices, assigned, objectCache, deviceCache, change, lapsed>>
    BY DEF Strategy!ReadStrategy, Strategy!tables, Strategy!caches
  <1>2. ~o.overtaken => devices[o.device].here /\ CopyCurrent(o) /\ LevelsTried(o)
    BY <1>0 DEF ReadSoFar
  <1>3. ~o.overtaken => o.guid = AtLevel(o.device, o.level) /\ RefersToRow(o.guid)
    BY <1>0, <1>2, ChosenTyped DEF LevelsTried, Resolution
  <1>4. o.level \in {"device", "user", "group"} /\ o.guid \in Reference
    BY <1>0 DEF Resolution
  <1>5. CASE Strategy!Exists(o.guid)
    <2> DEFINE r == Strategy!ToRemember(o, o.guid, strategies[o.guid])
    <2>1. strategies[o.guid] \in Nat /\ o.guid # Nothing
      BY <1>0, <1>4, <1>5, StrategyTypes DEF Strategy!Exists, Reference
    <2>2. /\ r \in Resolution /\ r.op = "fill" /\ r.device = o.device /\ r.guid = o.guid
          /\ r.edits = strategies[o.guid] /\ r.overtaken = o.overtaken
      BY <1>0, <1>4, <2>1, NoResolutionTyped DEF Strategy!ToRemember, Resolution
    <2>3. ~o.overtaken => o.guid = Chosen(o.device)
      BY <1>2, <1>3, <1>4, <2>1 DEF LevelsTried, Chosen
    <2> HIDE DEF r
    <2>4. ReadSoFar(r)
      BY <1>2, <2>2, <2>3 DEF ReadSoFar, FoundCurrent
    <2>5. resolving' = [resolving EXCEPT ![b] = r]
      BY <1>1, <1>5 DEF r
    <2> QED
      BY <1>0, <1>1, <2>2, <2>4, <2>5, ReadingKept DEF Answering
  <1>6. CASE ~Strategy!Exists(o.guid)
    <2> DEFINE r == Strategy!Deeper(o)
    <2>1. ~o.overtaken => AtLevel(o.device, o.level) = Nothing
      BY <1>3, <1>6 DEF RefersToRow
    <2>2. CASE o.level = "device"
      <3>1. r = [o EXCEPT !.op = "owner", !.level = "user", !.guid = Nothing]
        BY <2>2 DEF Strategy!Deeper
      <3>2. /\ r \in Resolution /\ r.op = "owner" /\ r.device = o.device /\ r.level = "user"
            /\ r.peer = o.peer /\ r.overtaken = o.overtaken
        BY <1>0, <3>1 DEF Resolution, Reference
      <3> HIDE DEF r
      <3>3. ReadSoFar(r)
        BY <1>2, <2>1, <2>2, <3>2 DEF ReadSoFar, CopyCurrent, LevelsTried
      <3>4. resolving' = [resolving EXCEPT ![b] = r]
        BY <1>1, <1>6 DEF r
      <3> QED
        BY <1>0, <1>1, <3>2, <3>3, <3>4, ReadingKept DEF Answering
    <2>3. CASE o.level = "user"
      <3>1. r = [o EXCEPT !.op = "owner", !.level = "group", !.guid = Nothing]
        BY <2>3 DEF Strategy!Deeper
      <3>2. /\ r \in Resolution /\ r.op = "owner" /\ r.device = o.device /\ r.level = "group"
            /\ r.peer = o.peer /\ r.overtaken = o.overtaken
        BY <1>0, <3>1 DEF Resolution, Reference
      <3> HIDE DEF r
      <3>3. ReadSoFar(r)
        BY <1>2, <2>1, <2>3, <3>2 DEF ReadSoFar, CopyCurrent, LevelsTried
      <3>4. resolving' = [resolving EXCEPT ![b] = r]
        BY <1>1, <1>6 DEF r
      <3> QED
        BY <1>0, <1>1, <3>2, <3>3, <3>4, ReadingKept DEF Answering
    <2>4. CASE o.level = "group"
      <3>1. r = Strategy!ToRemember(o, Nothing, Nothing)
        BY <2>4 DEF Strategy!Deeper
      <3>2. /\ r \in Resolution /\ r.op = "fill" /\ r.device = o.device /\ r.guid = Nothing
            /\ r.overtaken = o.overtaken
        BY <1>0, <3>1, NoResolutionTyped DEF Strategy!ToRemember, Resolution, Reference
      <3>3. ~o.overtaken => Chosen(o.device) = Nothing
        BY <1>2, <2>1, <2>4 DEF LevelsTried, Chosen
      <3> HIDE DEF r
      <3>4. ReadSoFar(r)
        BY <1>2, <3>2, <3>3 DEF ReadSoFar, FoundCurrent
      <3>5. resolving' = [resolving EXCEPT ![b] = r]
        BY <1>1, <1>6 DEF r
      <3> QED
        BY <1>0, <1>1, <3>2, <3>4, <3>5, ReadingKept DEF Answering
    <2> QED
      BY <1>4, <2>2, <2>3, <2>4
  <1> QED
    BY <1>5, <1>6

LEMMA ReadOwnerKept ==
    ASSUME StrategyIInv, NEW b \in Resolutions, Strategy!ReadOwner(b) PROVE StrategyIInv'
  <1> DEFINE o == resolving[b]
             r == [o EXCEPT !.op = "strategy", !.guid = Strategy!StrategyOf(o.peer[o.level]),
                            !.peer[o.level] = Nothing]
  <1>0. /\ o \in Resolution /\ o.op = "owner" /\ o.device \in Devices /\ ReadSoFar(o)
        /\ StrategyTyped
    BY StrategyTypes DEF StrategyIInv, Strategy!ReadOwner, ResolutionKept, Answering
  <1>1. /\ resolving' = [resolving EXCEPT ![b] = r]
        /\ UNCHANGED <<strategies, devices, assigned, objectCache, deviceCache, change, lapsed>>
    BY DEF Strategy!ReadOwner, Strategy!tables, Strategy!caches
  <1>2. o.level \in {"device", "user", "group"} /\ o.peer \in DeviceRow
    BY <1>0 DEF Resolution
  <1>3. o.level = "user" \/ o.level = "group"
    BY <1>0, <1>2 DEF StrategyIInv, ResolutionKept, Answering
  <1>4. o.peer[o.level] \in Owners \cup PeerGroups \cup {Nothing}
    BY <1>2, <1>3 DEF DeviceRow
  <1>5. Strategy!StrategyOf(o.peer[o.level]) \in Reference
    BY <1>0, <1>4, StrategyTypes DEF Strategy!StrategyOf, Reference
  <1>6. [o.peer EXCEPT ![o.level] = Nothing] \in DeviceRow
    BY <1>2, <1>3 DEF DeviceRow
  <1>7. /\ r \in Resolution /\ r.op = "strategy" /\ r.device = o.device /\ r.level = o.level
        /\ r.guid = Strategy!StrategyOf(o.peer[o.level]) /\ r.overtaken = o.overtaken
        /\ r.peer = [o.peer EXCEPT ![o.level] = Nothing]
    BY <1>0, <1>5, <1>6 DEF Resolution
  <1> HIDE DEF r
  <1>8. ReadSoFar(r)
    <2> SUFFICES ASSUME ~o.overtaken PROVE ReadSoFar(r)
      BY <1>7 DEF ReadSoFar
    <2>1. devices[o.device].here /\ CopyCurrent(o) /\ LevelsTried(o)
      BY <1>0 DEF ReadSoFar
    <2>2. r.guid = AtLevel(o.device, o.level)
      BY <1>0, <1>3, <1>7, <2>1 DEF CopyCurrent, AtLevel
    <2>3. o.level = "user" => r.peer.group = o.peer.group
      BY <1>2, <1>7 DEF DeviceRow
    <2>4. CopyCurrent(r)
      BY <1>3, <1>7, <2>1, <2>3 DEF CopyCurrent
    <2>5. LevelsTried(r)
      BY <1>0, <1>3, <1>7, <2>1, <2>2 DEF LevelsTried
    <2> QED
      BY <1>7, <2>1, <2>4, <2>5 DEF ReadSoFar
  <1> QED
    BY <1>0, <1>1, <1>3, <1>7, <1>8, ReadingKept DEF Answering, StrategyIInv, ResolutionKept

LEMMA RememberKept ==
    ASSUME StrategyIInv, NEW b \in Resolutions, Strategy!Remember(b) PROVE StrategyIInv'
  <1> DEFINE o == resolving[b]
  <1>0. /\ o \in Resolution /\ o.op = "fill" /\ o.device \in Devices /\ ReadSoFar(o)
        /\ StrategyTyped /\ StrategyKeys
    BY StrategyTypes DEF StrategyIInv, Strategy!Remember, ResolutionKept, Answering
  <1>1. /\ objectCache' = IF o.guid = Nothing THEN objectCache
                          ELSE [objectCache EXCEPT ![o.guid] = o.edits]
        /\ deviceCache' = [deviceCache EXCEPT ![o.device] = o.guid]
        /\ lapsed' = IF o.overtaken THEN Devices ELSE lapsed
        /\ resolving' = [resolving EXCEPT ![b] = Strategy!NoResolution]
        /\ UNCHANGED <<strategies, devices, assigned, change>>
    BY DEF Strategy!Remember, Strategy!tables
  <1>2. /\ resolving' \in [Resolutions -> Resolution]
        /\ \A c \in Resolutions : ResolutionKept(c)'
    BY <1>1, NoResolutionTyped, OneResolution
  <1>3. o.guid \in Reference /\ o.edits \in Nat \cup {Nothing}
    BY <1>0 DEF Resolution
  <1>4. StrategyTyped'
    <2>1. objectCache' \in [Strategy!Guids -> Nat \cup {Nothing}]
      BY <1>0, <1>1, <1>3 DEF StrategyTyped, Reference
    <2>2. deviceCache' \in [Devices -> Reference \cup {Unknown}]
      BY <1>0, <1>1, <1>3 DEF StrategyTyped
    <2>3. lapsed' \subseteq Devices
      BY <1>0, <1>1 DEF StrategyTyped
    <2> QED
      BY <1>0, <1>1, <1>2, <2>1, <2>2, <2>3 DEF StrategyTyped
  <1>5. StrategyKeys'
    BY <1>0, <1>1 DEF StrategyKeys, RefersToRow, Strategy!Exists
  <1>6. ASSUME NEW d \in Devices PROVE MemoryKept(d)'
    <2> SUFFICES ASSUME ~o.overtaken, d \notin lapsed
                 PROVE  DeviceMemory(d)' /\ ObjectMemory(deviceCache[d])'
      BY <1>1 DEF MemoryKept
    <2>1. /\ devices[o.device].here /\ o.guid = Chosen(o.device)
          /\ o.guid # Nothing => o.edits = strategies[o.guid]
      BY <1>0 DEF ReadSoFar, FoundCurrent
    <2>2. DeviceMemory(d) /\ ObjectMemory(deviceCache[d])
      BY DEF StrategyIInv, MemoryKept
    <2>3. Chosen(d)' = Chosen(d)
      BY <1>0, <1>1, ChosenKept
    <2>4. deviceCache'[o.device] = o.guid
          /\ \A x \in Devices \ {o.device} : deviceCache'[x] = deviceCache[x]
      BY <1>0, <1>1 DEF StrategyTyped
    <2>5. DeviceMemory(d)'
      BY <1>1, <2>1, <2>2, <2>3, <2>4 DEF DeviceMemory, ToForget
    <2>6. ObjectMemory(deviceCache[d])'
      <3> DEFINE s == deviceCache'[d]
      <3>1. s = o.guid \/ s = deviceCache[d]
        BY <2>4
      <3>2. CASE s = o.guid
        <4>1. s # Nothing => objectCache'[s] = strategies'[s]
          BY <1>0, <1>1, <1>3, <2>1, <3>2 DEF StrategyTyped, Reference
        <4> QED
          BY <4>1 DEF ObjectMemory
      <3>3. CASE s # o.guid /\ s = deviceCache[d]
        <4>1. s \in Strategy!Guids => objectCache'[s] = objectCache[s]
          BY <1>0, <1>1, <1>3, <3>3 DEF StrategyTyped, Reference
        <4>2. s \in Strategy!Guids \/ s = Nothing \/ s = Unknown
          BY <1>0, <3>3, StrategyTypes DEF Reference
        <4> QED
          BY <1>1, <2>2, <3>3, <4>1, <4>2 DEF ObjectMemory
      <3> QED
        BY <3>1, <3>2, <3>3
    <2> QED
      BY <2>5, <2>6
  <1> QED
    BY <1>2, <1>4, <1>5, <1>6 DEF StrategyIInv

(***************************************************************************)
(* Changes.                                                                *)
(***************************************************************************)

LEMMA OvertakenKept ==
    ASSUME StrategyIInv, Strategy!Overtaken
    PROVE  /\ resolving' \in [Resolutions -> Resolution]
           /\ \A b \in Resolutions : ResolutionKept(b)'
  <1>1. \A b \in Resolutions :
           resolving'[b] = [resolving[b] EXCEPT !.overtaken = resolving[b].op # "idle"]
    BY DEF Strategy!Overtaken
  <1>2. \A b \in Resolutions : resolving[b] \in Resolution
    BY StrategyTypes DEF StrategyIInv
  <1>3. \A b \in Resolutions :
           /\ resolving'[b] \in Resolution /\ resolving'[b].op = resolving[b].op
           /\ resolving'[b].device = resolving[b].device
           /\ resolving'[b].level = resolving[b].level
           /\ resolving'[b].overtaken = (resolving[b].op # "idle")
    <2> SUFFICES ASSUME NEW b \in Resolutions
                 PROVE  /\ resolving'[b] \in Resolution /\ resolving'[b].op = resolving[b].op
                        /\ resolving'[b].device = resolving[b].device
                        /\ resolving'[b].level = resolving[b].level
                        /\ resolving'[b].overtaken = (resolving[b].op # "idle")
      OBVIOUS
    <2> DEFINE now == resolving[b].op # "idle"
    <2>1. now \in BOOLEAN
      OBVIOUS
    <2>2. resolving'[b] = [resolving[b] EXCEPT !.overtaken = now]
      BY <1>1
    <2>3. resolving[b] \in Resolution
      BY <1>2
    <2> HIDE DEF now
    <2>4. /\ resolving'[b] \in Resolution /\ resolving'[b].op = resolving[b].op
          /\ resolving'[b].device = resolving[b].device
          /\ resolving'[b].level = resolving[b].level
      BY <2>1, <2>2, <2>3 DEF Resolution
    <2>5. resolving'[b].overtaken = now
      BY <2>2, <2>3 DEF Resolution
    <2> QED
      BY <2>4, <2>5 DEF now
  <1>4. resolving' \in [Resolutions -> Resolution]
    BY <1>3 DEF Strategy!Overtaken
  <1>5. ASSUME NEW b \in Resolutions PROVE ResolutionKept(b)'
    <2>1. ResolutionKept(b)
      BY DEF StrategyIInv
    <2>2. resolving'[b].op # "idle" => resolving'[b].overtaken
      BY <1>3
    <2> QED
      BY <1>3, <2>1, <2>2 DEF ResolutionKept, Answering, ReadSoFar
  <1> QED
    BY <1>4, <1>5

TablesTyped ==
    /\ strategies \in [Strategy!Guids -> Nat \cup {Nothing, Removed}]
    /\ devices \in [Devices -> DeviceRow]
    /\ assigned \in [Owners \cup PeerGroups -> [here: BOOLEAN, strategy: Reference]]

\* A device whose row, whose user and whose group stay as they are.
Aside(d) == devices'[d] = devices[d] /\ Chosen(d)' = Chosen(d)

LEMMA ForgetCommitted ==
    ASSUME StrategyIInv, NEW D \in SUBSET Devices, Strategy!Commits("forget", D, Nothing),
           UNCHANGED strategies, TablesTyped', StrategyKeys',
           \A d \in Devices \ D : Aside(d)
    PROVE  StrategyIInv'
  <1>1. /\ change.op = "idle" /\ UNCHANGED <<objectCache, deviceCache, lapsed>>
        /\ change' = [op |-> "forget", devices |-> D, guid |-> Nothing] /\ Strategy!Overtaken
    BY DEF Strategy!Commits, Strategy!caches
  <1>2. /\ resolving' \in [Resolutions -> Resolution]
        /\ \A b \in Resolutions : ResolutionKept(b)'
    BY <1>1, OvertakenKept
  <1>3. StrategyTyped'
    BY <1>1, <1>2 DEF StrategyIInv, StrategyTyped, TablesTyped, Reference
  <1>4. ASSUME NEW d \in Devices PROVE MemoryKept(d)'
    <2>1. MemoryKept(d)
      BY DEF StrategyIInv
    <2>2. CASE d \in D
      <3>1. ToForget(d)'
        BY <1>1, <2>2 DEF ToForget
      <3> QED
        BY <1>1, <2>1, <3>1 DEF MemoryKept, DeviceMemory, ObjectMemory
    <2>3. CASE d \notin D
      BY <1>1, <2>1, <2>3 DEF MemoryKept, DeviceMemory, ObjectMemory, ToForget, Aside
    <2> QED
      BY <2>2, <2>3
  <1> QED
    BY <1>2, <1>3, <1>4 DEF StrategyIInv

LEMMA SilentlyDone ==
    ASSUME StrategyIInv, NEW D \in SUBSET Devices, Strategy!Silently(D),
           UNCHANGED strategies, TablesTyped', StrategyKeys',
           \A d \in Devices \ D : Aside(d)
    PROVE  StrategyIInv'
  <1>1. /\ change.op = "idle" /\ UNCHANGED <<objectCache, deviceCache, change>>
        /\ lapsed' = lapsed \cup D /\ Strategy!Overtaken
    BY DEF Strategy!Silently, Strategy!caches
  <1>2. /\ resolving' \in [Resolutions -> Resolution]
        /\ \A b \in Resolutions : ResolutionKept(b)'
    BY <1>1, OvertakenKept
  <1>3. StrategyTyped'
    BY <1>1, <1>2 DEF StrategyIInv, StrategyTyped, TablesTyped
  <1>4. ASSUME NEW d \in Devices PROVE MemoryKept(d)'
    <2>1. MemoryKept(d)
      BY DEF StrategyIInv
    <2> QED
      BY <1>1, <2>1 DEF MemoryKept, DeviceMemory, ObjectMemory, ToForget, Aside
  <1> QED
    BY <1>2, <1>3, <1>4 DEF StrategyIInv

\* One device's row, or one row of a user or a group, is changed.
LEMMA DeviceChanged ==
    ASSUME StrategyIInv, NEW d \in Devices, NEW row \in DeviceRow, RefersToRow(row.strategy),
           devices' = [devices EXCEPT ![d] = row], UNCHANGED <<strategies, assigned>>
    PROVE  TablesTyped' /\ StrategyKeys' /\ \A x \in Devices \ {d} : Aside(x)
  <1>1. StrategyTyped /\ StrategyKeys
    BY DEF StrategyIInv
  <1>2. TablesTyped'
    BY <1>1 DEF StrategyTyped, TablesTyped
  <1>3. devices'[d] = row /\ \A x \in Devices \ {d} : devices'[x] = devices[x]
    BY <1>1 DEF StrategyTyped
  <1>4. StrategyKeys'
    BY <1>1, <1>3 DEF StrategyKeys, RefersToRow, Strategy!Exists
  <1>5. \A x \in Devices \ {d} : Aside(x)
    BY <1>1, <1>3, ChosenKept DEF Aside
  <1> QED
    BY <1>2, <1>4, <1>5

LEMMA AssignedChanged ==
    ASSUME StrategyIInv, NEW o \in Owners \cup PeerGroups,
           NEW row \in [here: BOOLEAN, strategy: Reference], RefersToRow(row.strategy),
           assigned' = [assigned EXCEPT ![o] = row], UNCHANGED strategies,
           devices' \in [Devices -> DeviceRow],
           \A d \in Devices : devices'[d].strategy = devices[d].strategy
    PROVE  /\ TablesTyped' /\ StrategyKeys'
           /\ \A d \in Devices :
                 devices'[d] = devices[d] /\ devices[d].user # o /\ devices[d].group # o => Aside(d)
  <1>1. StrategyTyped /\ StrategyKeys
    BY DEF StrategyIInv
  <1>2. TablesTyped'
    BY <1>1 DEF StrategyTyped, TablesTyped
  <1>3. assigned'[o] = row /\ \A x \in (Owners \cup PeerGroups) \ {o} : assigned'[x] = assigned[x]
    BY <1>1 DEF StrategyTyped
  <1>4. StrategyKeys'
    BY <1>1, <1>3 DEF StrategyKeys, RefersToRow, Strategy!Exists
  <1>5. ASSUME NEW d \in Devices, devices'[d] = devices[d], devices[d].user # o,
               devices[d].group # o
        PROVE  Aside(d)
    <2>1. devices[d] \in DeviceRow
      BY <1>1, StrategyTypes
    <2>2. ASSUME NEW level \in {"user", "group"}, devices[d][level] # Nothing
          PROVE  assigned'[devices[d][level]] = assigned[devices[d][level]]
      <3>1. devices[d][level] \in (Owners \cup PeerGroups) \ {o}
        BY <1>5, <2>1, <2>2 DEF DeviceRow
      <3> QED
        BY <1>3, <3>1
    <2> QED
      BY <1>1, <1>5, <2>2, ChosenKept DEF Aside
  <1> QED
    BY <1>2, <1>4, <1>5

LEMMA UpdateDeviceKept ==
    ASSUME StrategyIInv, NEW d \in Devices,
           \/ Strategy!UpdateDevice(d)
           \/ \E g \in PeerGroups : Strategy!AddToGroup(d, g) \/ Strategy!RemoveFromGroup(d, g)
    PROVE  StrategyIInv'
  <1>0. devices[d] \in DeviceRow /\ RefersToRow(devices[d].strategy)
    BY StrategyTypes DEF StrategyIInv, StrategyKeys
  <1>1. Strategy!Commits("forget", {d}, Nothing) /\ UNCHANGED <<strategies, assigned>>
    BY DEF Strategy!UpdateDevice, Strategy!AddToGroup, Strategy!RemoveFromGroup
  <1>2. PICK row \in DeviceRow :
           RefersToRow(row.strategy) /\ devices' = [devices EXCEPT ![d] = row]
    <2>1. \/ \E u \in Owners \cup {Nothing} : devices' = [devices EXCEPT ![d].user = u]
          \/ \E g \in PeerGroups \cup {Nothing} : devices' = [devices EXCEPT ![d].group = g]
          \/ \E s \in Reference : RefersToRow(s) /\ devices' = [devices EXCEPT ![d].strategy = s]
      BY DEF Strategy!UpdateDevice, Strategy!AddToGroup, Strategy!RemoveFromGroup, Reference,
             RefersToRow
    <2>2. ASSUME NEW u \in Owners \cup {Nothing}, devices' = [devices EXCEPT ![d].user = u]
          PROVE  \E row \in DeviceRow :
                    RefersToRow(row.strategy) /\ devices' = [devices EXCEPT ![d] = row]
      <3> DEFINE r == [devices[d] EXCEPT !.user = u]
      <3>1. r \in DeviceRow /\ RefersToRow(r.strategy)
        BY <1>0, <2>2 DEF DeviceRow
      <3> QED
        BY <2>2, <3>1
    <2>3. ASSUME NEW g \in PeerGroups \cup {Nothing}, devices' = [devices EXCEPT ![d].group = g]
          PROVE  \E row \in DeviceRow :
                    RefersToRow(row.strategy) /\ devices' = [devices EXCEPT ![d] = row]
      <3> DEFINE r == [devices[d] EXCEPT !.group = g]
      <3>1. r \in DeviceRow /\ RefersToRow(r.strategy)
        BY <1>0, <2>3 DEF DeviceRow
      <3> QED
        BY <2>3, <3>1
    <2>4. ASSUME NEW s \in Reference, RefersToRow(s), devices' = [devices EXCEPT ![d].strategy = s]
          PROVE  \E row \in DeviceRow :
                    RefersToRow(row.strategy) /\ devices' = [devices EXCEPT ![d] = row]
      <3> DEFINE r == [devices[d] EXCEPT !.strategy = s]
      <3>1. r \in DeviceRow /\ RefersToRow(r.strategy)
        BY <1>0, <2>4 DEF DeviceRow
      <3> QED
        BY <2>4, <3>1
    <2> QED
      BY <2>1, <2>2, <2>3, <2>4
  <1>3. TablesTyped' /\ StrategyKeys' /\ \A x \in Devices \ {d} : Aside(x)
    BY <1>1, <1>2, DeviceChanged
  <1> QED
    BY <1>1, <1>3, ForgetCommitted

LEMMA AssignKept ==
    ASSUME StrategyIInv, NEW s \in Strategy!Guids,
           Strategy!AssignStrategy(s) \/ Strategy!UnassignStrategy(s)
    PROVE  StrategyIInv'
  <1>1. Strategy!Commits("forget", Devices, Nothing) /\ UNCHANGED strategies
    BY DEF Strategy!AssignStrategy, Strategy!UnassignStrategy
  <1>2. PICK to \in Reference :
           /\ RefersToRow(to)
           /\ \/ \E d \in Devices :
                    devices' = [devices EXCEPT ![d].strategy = to] /\ UNCHANGED assigned
              \/ \E x \in DOMAIN assigned :
                    assigned' = [assigned EXCEPT ![x].strategy = to] /\ UNCHANGED devices
    BY DEF Strategy!AssignStrategy, Strategy!UnassignStrategy, Reference, RefersToRow
  <1>3. TablesTyped' /\ StrategyKeys'
    <2>1. ASSUME NEW d \in Devices, devices' = [devices EXCEPT ![d].strategy = to],
                 UNCHANGED assigned
          PROVE  TablesTyped' /\ StrategyKeys'
      <3> DEFINE r == [devices[d] EXCEPT !.strategy = to]
      <3>1. devices[d] \in DeviceRow
        BY StrategyTypes DEF StrategyIInv
      <3>2. r \in DeviceRow /\ RefersToRow(r.strategy) /\ devices' = [devices EXCEPT ![d] = r]
        BY <1>2, <2>1, <3>1 DEF DeviceRow
      <3> HIDE DEF r
      <3> QED
        BY <1>1, <2>1, <3>2, DeviceChanged
    <2>2. ASSUME NEW x \in DOMAIN assigned, assigned' = [assigned EXCEPT ![x].strategy = to],
                 UNCHANGED devices
          PROVE  TablesTyped' /\ StrategyKeys'
      <3> DEFINE r == [assigned[x] EXCEPT !.strategy = to]
      <3>1. x \in Owners \cup PeerGroups /\ devices' \in [Devices -> DeviceRow]
        BY <2>2 DEF StrategyIInv, StrategyTyped
      <3>2. assigned[x] \in [here: BOOLEAN, strategy: Reference]
        BY <3>1, StrategyTypes DEF StrategyIInv
      <3>3. /\ r \in [here: BOOLEAN, strategy: Reference] /\ RefersToRow(r.strategy)
            /\ assigned' = [assigned EXCEPT ![x] = r]
        BY <1>2, <2>2, <3>2
      <3> HIDE DEF r
      <3> QED
        BY <1>1, <2>2, <3>1, <3>3, AssignedChanged
    <2> QED
      BY <1>2, <2>1, <2>2
  <1> QED
    BY <1>1, <1>3, ForgetCommitted

LEMMA SilentDeviceKept ==
    ASSUME StrategyIInv, NEW d \in Devices,
           \/ Strategy!BindDevice(d) \/ Strategy!DeleteDevice(d)
           \/ \E g \in PeerGroups : Strategy!AddToPresetGroup(d, g)
    PROVE  StrategyIInv'
  <1>0. devices[d] \in DeviceRow /\ RefersToRow(devices[d].strategy)
    BY StrategyTypes DEF StrategyIInv, StrategyKeys
  <1>1. Strategy!Silently({d}) /\ UNCHANGED <<strategies, assigned>>
    BY DEF Strategy!BindDevice, Strategy!DeleteDevice, Strategy!AddToPresetGroup
  <1>2. PICK row \in DeviceRow :
           RefersToRow(row.strategy) /\ devices' = [devices EXCEPT ![d] = row]
    <2>1. \/ \E u \in Owners \cup {Nothing} : devices' = [devices EXCEPT ![d].user = u]
          \/ \E g \in PeerGroups \cup {Nothing} : devices' = [devices EXCEPT ![d].group = g]
          \/ devices' = [devices EXCEPT ![d] = Strategy!Absent]
      BY DEF Strategy!BindDevice, Strategy!DeleteDevice, Strategy!AddToPresetGroup
    <2>2. ASSUME NEW u \in Owners \cup {Nothing}, devices' = [devices EXCEPT ![d].user = u]
          PROVE  \E row \in DeviceRow :
                    RefersToRow(row.strategy) /\ devices' = [devices EXCEPT ![d] = row]
      <3> DEFINE r == [devices[d] EXCEPT !.user = u]
      <3>1. r \in DeviceRow /\ RefersToRow(r.strategy)
        BY <1>0, <2>2 DEF DeviceRow
      <3> QED
        BY <2>2, <3>1
    <2>3. ASSUME NEW g \in PeerGroups \cup {Nothing}, devices' = [devices EXCEPT ![d].group = g]
          PROVE  \E row \in DeviceRow :
                    RefersToRow(row.strategy) /\ devices' = [devices EXCEPT ![d] = row]
      <3> DEFINE r == [devices[d] EXCEPT !.group = g]
      <3>1. r \in DeviceRow /\ RefersToRow(r.strategy)
        BY <1>0, <2>3 DEF DeviceRow
      <3> QED
        BY <2>3, <3>1
    <2>4. Strategy!Absent \in DeviceRow /\ RefersToRow(Strategy!Absent.strategy)
      BY NoResolutionTyped DEF Strategy!Absent, RefersToRow
    <2> QED
      BY <2>1, <2>2, <2>3, <2>4
  <1>3. TablesTyped' /\ StrategyKeys' /\ \A x \in Devices \ {d} : Aside(x)
    BY <1>1, <1>2, DeviceChanged
  <1> QED
    BY <1>1, <1>3, SilentlyDone

LEMMA DeleteUserKept ==
    ASSUME StrategyIInv, NEW u \in Owners, Strategy!DeleteUser(u) PROVE StrategyIInv'
  <1> DEFINE D == {d \in Devices : devices[d].user = u}
             row == [here |-> FALSE, strategy |-> Nothing]
  <1>1. /\ assigned' = [assigned EXCEPT ![u] = row] /\ Strategy!Silently(D)
        /\ UNCHANGED <<strategies, devices>>
    BY DEF Strategy!DeleteUser
  <1>2. row \in [here: BOOLEAN, strategy: Reference] /\ RefersToRow(row.strategy)
    BY DEF Reference, RefersToRow
  <1>3. devices' \in [Devices -> DeviceRow]
        /\ \A d \in Devices : devices'[d].strategy = devices[d].strategy
    BY <1>1 DEF StrategyIInv, StrategyTyped
  <1>4. \A d \in Devices : devices[d].group # u
    BY GuidFacts, StrategyTypes DEF StrategyIInv, DeviceRow
  <1> HIDE DEF row
  <1>5. /\ TablesTyped' /\ StrategyKeys'
        /\ \A d \in Devices :
              devices'[d] = devices[d] /\ devices[d].user # u /\ devices[d].group # u => Aside(d)
    BY <1>1, <1>2, <1>3, AssignedChanged
  <1>6. \A d \in Devices \ D : Aside(d)
    BY <1>1, <1>4, <1>5
  <1> QED
    BY <1>1, <1>5, <1>6, SilentlyDone

LEMMA DeleteDeviceGroupKept ==
    ASSUME StrategyIInv, NEW g \in PeerGroups, Strategy!DeleteDeviceGroup(g) PROVE StrategyIInv'
  <1> DEFINE D == {d \in Devices : devices[d].group = g}
             row == [here |-> FALSE, strategy |-> Nothing]
  <1>1. /\ assigned' = [assigned EXCEPT ![g] = row] /\ Strategy!Commits("forget", D, Nothing)
        /\ devices' = [d \in Devices |->
                [devices[d] EXCEPT !.group = IF devices[d].group = g THEN Nothing
                                             ELSE devices[d].group]]
        /\ UNCHANGED strategies
    BY DEF Strategy!DeleteDeviceGroup
  <1>2. row \in [here: BOOLEAN, strategy: Reference] /\ RefersToRow(row.strategy)
    BY DEF Reference, RefersToRow
  <1>3. \A d \in Devices : devices[d] \in DeviceRow
    BY StrategyTypes DEF StrategyIInv
  <1>4. \A d \in Devices :
           /\ devices'[d] \in DeviceRow /\ devices'[d].strategy = devices[d].strategy
           /\ devices[d].group # g => devices'[d] = devices[d]
    BY <1>1, <1>3 DEF DeviceRow
  <1>5. devices' \in [Devices -> DeviceRow]
    BY <1>1, <1>4
  <1>6. \A d \in Devices : devices[d].user # g
    BY <1>3, GuidFacts DEF DeviceRow
  <1> HIDE DEF row
  <1>7. /\ TablesTyped' /\ StrategyKeys'
        /\ \A d \in Devices :
              devices'[d] = devices[d] /\ devices[d].user # g /\ devices[d].group # g => Aside(d)
    BY <1>1, <1>2, <1>4, <1>5, AssignedChanged
  <1>8. \A d \in Devices \ D : Aside(d)
    BY <1>4, <1>6, <1>7
  <1> QED
    BY <1>1, <1>7, <1>8, ForgetCommitted

\* A device that registers again has no strategy, and none is remembered for it.
LEMMA RegisterDeviceKept ==
    ASSUME StrategyIInv, NEW d \in Devices, Strategy!RegisterDevice(d) PROVE StrategyIInv'
  <1>1. /\ ~devices[d].here /\ devices' = [devices EXCEPT ![d] = Strategy!Present]
        /\ UNCHANGED <<strategies, assigned, objectCache, deviceCache, resolving, change, lapsed>>
    BY DEF Strategy!RegisterDevice, Strategy!caches
  <1>2. Strategy!Present \in DeviceRow /\ RefersToRow(Strategy!Present.strategy)
    BY NoResolutionTyped DEF Strategy!Present, Strategy!Absent, RefersToRow
  <1>3. TablesTyped' /\ StrategyKeys' /\ \A x \in Devices \ {d} : Aside(x)
    BY <1>1, <1>2, DeviceChanged
  <1>4. StrategyTyped'
    BY <1>1, <1>3 DEF StrategyIInv, StrategyTyped, TablesTyped
  <1>5. ASSUME NEW b \in Resolutions PROVE ResolutionKept(b)'
    <2>1. ResolutionKept(b)
      BY DEF StrategyIInv
    <2> DEFINE r == resolving[b]
    <2>2. CASE r.op = "idle" \/ r.overtaken
      BY <1>1, <2>1, <2>2 DEF ResolutionKept, Answering, ReadSoFar
    <2>3. CASE r.op # "idle" /\ ~r.overtaken
      <3>1. PICK x \in Devices \ {d} : x = r.device
        BY <1>1, <2>1, <2>3 DEF ResolutionKept, Answering, ReadSoFar
      <3>2. devices'[x] = devices[x] /\ Chosen(x)' = Chosen(x)
        BY <1>3 DEF Aside
      <3>3. \A level : AtLevel(x, level)' = AtLevel(x, level)
        BY <1>1, <3>2 DEF AtLevel, Strategy!StrategyOf
      <3>4. Answering(r) /\ devices[x].here
            /\ IF r.op = "fill" THEN FoundCurrent(r) ELSE CopyCurrent(r) /\ LevelsTried(r)
        BY <2>1, <2>3, <3>1 DEF ResolutionKept, ReadSoFar
      <3>5. resolving'[b] = r /\ resolving'[b].device = x
        BY <1>1, <3>1
      <3>6. FoundCurrent(r) => FoundCurrent(resolving[b])'
        BY <1>1, <3>1, <3>2, <3>5 DEF FoundCurrent
      <3>7. CopyCurrent(r) => CopyCurrent(resolving[b])'
        BY <1>1, <3>1, <3>2, <3>5 DEF CopyCurrent
      <3>8. LevelsTried(r) => LevelsTried(resolving[b])'
        BY <1>1, <3>1, <3>3, <3>5 DEF LevelsTried
      <3> QED
        BY <1>1, <2>3, <3>2, <3>4, <3>5, <3>6, <3>7, <3>8 DEF ResolutionKept, Answering, ReadSoFar
    <2> QED
      BY <2>2, <2>3
  <1>6. ASSUME NEW x \in Devices PROVE MemoryKept(x)'
    <2>1. MemoryKept(x)
      BY DEF StrategyIInv
    <2>2. CASE x = d
      BY <1>1, <2>1, <2>2 DEF MemoryKept, DeviceMemory, ObjectMemory, ToForget
    <2>3. CASE x # d
      BY <1>1, <1>3, <2>1, <2>3 DEF MemoryKept, DeviceMemory, ObjectMemory, ToForget, Aside
    <2> QED
      BY <2>2, <2>3
  <1> QED
    BY <1>3, <1>4, <1>5, <1>6 DEF StrategyIInv

\* A strategy that is created is one nothing refers to yet.
LEMMA CreateStrategyKept ==
    ASSUME StrategyIInv, NEW s \in Strategy!Guids, Strategy!CreateStrategy(s)
    PROVE  StrategyIInv'
  <1>1. /\ change.op = "idle" /\ strategies[s] = Nothing
        /\ strategies' = [strategies EXCEPT ![s] = 0]
        /\ UNCHANGED <<devices, assigned, objectCache, deviceCache, resolving, change, lapsed>>
    BY DEF Strategy!CreateStrategy, Strategy!caches
  <1>2. StrategyTyped /\ StrategyKeys
    BY DEF StrategyIInv
  <1>3. /\ strategies'[s] = 0
        /\ \A x \in Strategy!Guids \ {s} : strategies'[x] = strategies[x]
    BY <1>1, <1>2 DEF StrategyTyped
  <1>4. StrategyTyped'
    BY <1>1, <1>2 DEF StrategyTyped
  <1>5. ASSUME NEW x \in Reference, RefersToRow(x)
        PROVE  /\ x # s /\ RefersToRow(x)'
               /\ x # Nothing => strategies'[x] = strategies[x]
    <2>1. x # s
      BY <1>1, <1>5, GuidFacts DEF RefersToRow, Strategy!Exists
    <2> QED
      BY <1>3, <1>5, <2>1 DEF RefersToRow, Strategy!Exists, Reference
  <1>6. StrategyKeys'
    <2>1. /\ \A d \in Devices : devices[d].strategy \in Reference
          /\ \A x \in Owners \cup PeerGroups : assigned[x].strategy \in Reference
      BY <1>2, StrategyTypes DEF DeviceRow
    <2>2. ASSUME NEW d \in Devices PROVE RefersToRow(devices[d].strategy)'
      BY <1>1, <1>2, <1>5, <2>1 DEF StrategyKeys, RefersToRow, Strategy!Exists
    <2>3. ASSUME NEW x \in Owners \cup PeerGroups PROVE RefersToRow(assigned[x].strategy)'
      BY <1>1, <1>2, <1>5, <2>1 DEF StrategyKeys, RefersToRow, Strategy!Exists
    <2> QED
      BY <2>2, <2>3 DEF StrategyKeys
  <1>7. ASSUME NEW d \in Devices
        PROVE  /\ Chosen(d)' = Chosen(d)
               /\ Chosen(d) # s
               /\ Chosen(d) # Nothing => strategies'[Chosen(d)] = strategies[Chosen(d)]
    <2>1. Chosen(d)' = Chosen(d)
      BY <1>1, <1>2, ChosenKept
    <2>2. Chosen(d) \in Reference /\ RefersToRow(Chosen(d))
      BY <1>2, ChosenTyped
    <2> QED
      BY <1>5, <2>1, <2>2
  <1>8. ASSUME NEW b \in Resolutions PROVE ResolutionKept(b)'
    <2>1. ResolutionKept(b)
      BY DEF StrategyIInv
    <2> DEFINE r == resolving[b]
    <2>2. CASE r.op = "idle" \/ r.overtaken
      BY <1>1, <2>1, <2>2 DEF ResolutionKept, Answering, ReadSoFar
    <2>3. CASE r.op # "idle" /\ ~r.overtaken
      <3>1. PICK x \in Devices : x = r.device
        BY <2>1, <2>3 DEF ResolutionKept, Answering
      <3>2. \A level : AtLevel(x, level)' = AtLevel(x, level)
        BY <1>1 DEF AtLevel, Strategy!StrategyOf
      <3>3. Answering(r) /\ devices[x].here
            /\ IF r.op = "fill" THEN FoundCurrent(r) ELSE CopyCurrent(r) /\ LevelsTried(r)
        BY <2>1, <2>3, <3>1 DEF ResolutionKept, ReadSoFar
      <3>4. resolving'[b] = r /\ resolving'[b].device = x
        BY <1>1, <3>1
      <3>5. FoundCurrent(r) => FoundCurrent(resolving[b])'
        BY <1>7, <3>1, <3>4 DEF FoundCurrent
      <3>6. CopyCurrent(r) => CopyCurrent(resolving[b])'
        BY <1>1, <3>1, <3>4 DEF CopyCurrent
      <3>7. LevelsTried(r) => LevelsTried(resolving[b])'
        BY <1>1, <3>1, <3>2, <3>4 DEF LevelsTried
      <3> QED
        BY <1>1, <2>3, <3>1, <3>3, <3>4, <3>5, <3>6, <3>7
           DEF ResolutionKept, Answering, ReadSoFar
    <2> QED
      BY <2>2, <2>3
  <1>9. ASSUME NEW d \in Devices PROVE MemoryKept(d)'
    <2>1. MemoryKept(d)
      BY DEF StrategyIInv
    <2>2. CASE d \in lapsed
      BY <1>1, <2>2 DEF MemoryKept
    <2>3. CASE d \notin lapsed
      <3>1. deviceCache[d] = Unknown \/ (devices[d].here /\ deviceCache[d] = Chosen(d))
        BY <1>1, <2>1, <2>3 DEF MemoryKept, DeviceMemory, ToForget
      <3>2. DeviceMemory(d)'
        BY <1>1, <1>7, <3>1 DEF DeviceMemory
      <3>3. ObjectMemory(deviceCache[d])
        BY <2>1, <2>3 DEF MemoryKept
      <3>4. ObjectMemory(deviceCache[d])'
        BY <1>1, <1>7, <3>1, <3>3 DEF ObjectMemory
      <3> QED
        BY <3>2, <3>4 DEF MemoryKept
    <2> QED
      BY <2>2, <2>3
  <1> QED
    BY <1>4, <1>6, <1>8, <1>9 DEF StrategyIInv

LEMMA UpdateStrategyKept ==
    ASSUME StrategyIInv, NEW s \in Strategy!Guids, Strategy!UpdateStrategy(s)
    PROVE  StrategyIInv'
  <1>1. /\ change.op = "idle" /\ change' = [op |-> "publish", devices |-> {}, guid |-> s]
        /\ Strategy!Exists(s) /\ strategies' = [strategies EXCEPT ![s] = strategies[s] + 1]
        /\ Strategy!Overtaken
        /\ UNCHANGED <<devices, assigned, objectCache, deviceCache, lapsed>>
    BY DEF Strategy!UpdateStrategy, Strategy!Commits, Strategy!caches
  <1>2. StrategyTyped /\ StrategyKeys
    BY DEF StrategyIInv
  <1>3. /\ resolving' \in [Resolutions -> Resolution]
        /\ \A b \in Resolutions : ResolutionKept(b)'
    BY <1>1, OvertakenKept
  <1>4. strategies[s] \in Nat
    BY <1>1, <1>2, StrategyTypes DEF Strategy!Exists
  <1>5. strategies' \in [Strategy!Guids -> Nat \cup {Nothing, Removed}]
    BY <1>1, <1>2, <1>4 DEF StrategyTyped
  <1>6. StrategyTyped'
    <2>1. strategies'[s] # Removed
      BY <1>1, <1>2, <1>4, GuidFacts DEF StrategyTyped
    <2> QED
      BY <1>1, <1>2, <1>3, <1>5, <2>1 DEF StrategyTyped, Reference
  <1>7. /\ strategies'[s] \in Nat
        /\ \A x \in Strategy!Guids \ {s} : strategies'[x] = strategies[x]
    BY <1>1, <1>2, <1>4 DEF StrategyTyped
  <1>8. \A x \in Reference : RefersToRow(x) => RefersToRow(x)'
    BY <1>7, GuidFacts DEF Reference, RefersToRow, Strategy!Exists
  <1>9. StrategyKeys'
    <2>1. /\ \A d \in Devices : devices[d].strategy \in Reference
          /\ \A x \in Owners \cup PeerGroups : assigned[x].strategy \in Reference
      BY <1>2, StrategyTypes DEF DeviceRow
    <2>2. ASSUME NEW d \in Devices PROVE RefersToRow(devices[d].strategy)'
      BY <1>1, <1>2, <1>8, <2>1 DEF StrategyKeys, RefersToRow, Strategy!Exists
    <2>3. ASSUME NEW x \in Owners \cup PeerGroups PROVE RefersToRow(assigned[x].strategy)'
      BY <1>1, <1>2, <1>8, <2>1 DEF StrategyKeys, RefersToRow, Strategy!Exists
    <2> QED
      BY <2>2, <2>3 DEF StrategyKeys
  <1>10. ASSUME NEW d \in Devices PROVE MemoryKept(d)'
    <2>1. MemoryKept(d)
      BY DEF StrategyIInv
    <2>2. Chosen(d)' = Chosen(d)
      BY <1>1, <1>2, ChosenKept
    <2>3. DeviceMemory(d) => DeviceMemory(d)'
      BY <1>1, <2>2 DEF DeviceMemory, ToForget
    <2>4. deviceCache[d] \in Strategy!Guids \cup {Nothing, Unknown}
      BY <1>2, StrategyTypes DEF Reference
    <2>5. ObjectMemory(deviceCache[d]) => ObjectMemory(deviceCache[d])'
      BY <1>1, <1>7, <2>4 DEF ObjectMemory
    <2> QED
      BY <1>1, <2>1, <2>3, <2>5 DEF MemoryKept
  <1> QED
    BY <1>3, <1>6, <1>9, <1>10 DEF StrategyIInv

LEMMA DeleteStrategyKept ==
    ASSUME StrategyIInv, NEW s \in Strategy!Guids, Strategy!DeleteStrategy(s)
    PROVE  StrategyIInv'
  <1> DEFINE Cleared(x) == IF x = s THEN Nothing ELSE x
  <1>1. /\ change.op = "idle" /\ change' = [op |-> "drop", devices |-> {}, guid |-> s]
        /\ strategies' = [strategies EXCEPT ![s] = Removed]
        /\ devices' = [d \in Devices |->
                [devices[d] EXCEPT !.strategy = Cleared(devices[d].strategy)]]
        /\ assigned' = [x \in DOMAIN assigned |->
                [assigned[x] EXCEPT !.strategy = Cleared(assigned[x].strategy)]]
        /\ Strategy!Overtaken /\ UNCHANGED <<objectCache, deviceCache, lapsed>>
    BY DEF Strategy!DeleteStrategy, Strategy!Commits, Strategy!caches
  <1>2. StrategyTyped /\ StrategyKeys
    BY DEF StrategyIInv
  <1>3. /\ resolving' \in [Resolutions -> Resolution]
        /\ \A b \in Resolutions : ResolutionKept(b)'
    BY <1>1, OvertakenKept
  <1>4. \A x \in Reference : Cleared(x) \in Reference
    BY DEF Reference
  <1>5. ASSUME NEW d \in Devices
        PROVE  /\ devices[d] \in DeviceRow /\ devices'[d] \in DeviceRow
               /\ devices'[d].strategy = Cleared(devices[d].strategy)
               /\ devices'[d].user = devices[d].user /\ devices'[d].group = devices[d].group
               /\ devices'[d].here = devices[d].here
    <2>1. devices[d] \in DeviceRow
      BY <1>2, StrategyTypes
    <2>2. devices[d].strategy \in Reference /\ Cleared(devices[d].strategy) \in Reference
      BY <1>4, <2>1 DEF DeviceRow
    <2>3. devices'[d] = [devices[d] EXCEPT !.strategy = Cleared(devices[d].strategy)]
      BY <1>1
    <2> HIDE DEF Cleared
    <2> QED
      BY <2>1, <2>2, <2>3 DEF DeviceRow
  <1>6. ASSUME NEW x \in Owners \cup PeerGroups
        PROVE  /\ assigned[x] \in [here: BOOLEAN, strategy: Reference]
               /\ assigned'[x] \in [here: BOOLEAN, strategy: Reference]
               /\ assigned'[x].strategy = Cleared(assigned[x].strategy)
               /\ assigned'[x].here = assigned[x].here
    <2>1. assigned[x] \in [here: BOOLEAN, strategy: Reference] /\ x \in DOMAIN assigned
      BY <1>2, StrategyTypes DEF StrategyTyped
    <2>2. Cleared(assigned[x].strategy) \in Reference
      BY <1>4, <2>1
    <2>3. assigned'[x] = [assigned[x] EXCEPT !.strategy = Cleared(assigned[x].strategy)]
      BY <1>1, <2>1
    <2> HIDE DEF Cleared
    <2> QED
      BY <2>1, <2>2, <2>3
  <1>7. StrategyTyped'
    <2>1. strategies' \in [Strategy!Guids -> Nat \cup {Nothing, Removed}]
      BY <1>1, <1>2 DEF StrategyTyped
    <2>2. devices' \in [Devices -> DeviceRow]
      BY <1>1, <1>5
    <2>3. assigned' \in [Owners \cup PeerGroups -> [here: BOOLEAN, strategy: Reference]]
      BY <1>1, <1>2, <1>6 DEF StrategyTyped
    <2>4. change' \in [op: {"idle", "publish", "drop", "forget"}, devices: SUBSET Devices,
                       guid: Reference]
          /\ change'.guid \in Strategy!Guids
      BY <1>1 DEF Reference
    <2> QED
      BY <1>1, <1>2, <1>3, <2>1, <2>2, <2>3, <2>4 DEF StrategyTyped
  <1>8. \A x \in Strategy!Guids \ {s} : strategies'[x] = strategies[x]
    BY <1>1, <1>2 DEF StrategyTyped
  <1>9. \A x \in Reference : RefersToRow(x) => RefersToRow(Cleared(x))'
    BY <1>8 DEF Reference, RefersToRow, Strategy!Exists
  <1>10. StrategyKeys'
    <2>1. ASSUME NEW d \in Devices PROVE RefersToRow(devices[d].strategy)'
      <3>1. devices[d].strategy \in Reference /\ RefersToRow(devices[d].strategy)
        BY <1>2, <1>5 DEF StrategyKeys, DeviceRow
      <3> QED
        BY <1>5, <1>9, <3>1 DEF RefersToRow, Strategy!Exists
    <2>2. ASSUME NEW x \in Owners \cup PeerGroups PROVE RefersToRow(assigned[x].strategy)'
      <3>1. assigned[x].strategy \in Reference /\ RefersToRow(assigned[x].strategy)
        BY <1>2, <1>6 DEF StrategyKeys
      <3> QED
        BY <1>6, <1>9, <3>1 DEF RefersToRow, Strategy!Exists
    <2> QED
      BY <2>1, <2>2 DEF StrategyKeys
  <1>11. ASSUME NEW d \in Devices PROVE Chosen(d) = s \/ Chosen(d)' = Chosen(d)
    <2>1. AtLevel(d, "device")' = Cleared(AtLevel(d, "device"))
      BY <1>5 DEF AtLevel
    <2>2. ASSUME NEW level \in {"user", "group"}
          PROVE  AtLevel(d, level)' = Cleared(AtLevel(d, level))
      <3>1. devices[d][level] \in Owners \cup PeerGroups \cup {Nothing}
        BY <1>2, LevelTypes
      <3>2. devices'[d][level] = devices[d][level]
        BY <1>5
      <3>3. Cleared(Nothing) = Nothing
        OBVIOUS
      <3> HIDE DEF Cleared
      <3> QED
        BY <1>6, <3>1, <3>2, <3>3 DEF AtLevel, Strategy!StrategyOf
    <2> QED
      BY <2>1, <2>2 DEF Chosen
  <1>12. ASSUME NEW d \in Devices PROVE MemoryKept(d)'
    <2>1. MemoryKept(d)
      BY DEF StrategyIInv
    <2>2. CASE deviceCache[d] = s
      <3>1. ToForget(d)' /\ ObjectMemory(deviceCache[d])'
        BY <1>1, <2>2 DEF ToForget, ObjectMemory
      <3> QED
        BY <3>1 DEF MemoryKept, DeviceMemory
    <2>3. CASE deviceCache[d] # s
      <3>1. deviceCache[d] \in Strategy!Guids \cup {Nothing, Unknown}
        BY <1>2, StrategyTypes DEF Reference
      <3>2. DeviceMemory(d) => DeviceMemory(d)'
        BY <1>1, <1>5, <1>11, <2>3 DEF DeviceMemory, ToForget
      <3>3. ObjectMemory(deviceCache[d]) => ObjectMemory(deviceCache[d])'
        BY <1>1, <1>8, <2>3, <3>1 DEF ObjectMemory
      <3> QED
        BY <1>1, <2>1, <3>2, <3>3 DEF MemoryKept
    <2> QED
      BY <2>2, <2>3
  <1> QED
    BY <1>3, <1>7, <1>10, <1>12 DEF StrategyIInv

(***************************************************************************)
(* After the commit.                                                       *)
(***************************************************************************)

LEMMA CachesOnly ==
    ASSUME StrategyIInv, UNCHANGED <<strategies, devices, assigned, resolving>>,
           StrategyTyped', \A d \in Devices : MemoryKept(d)'
    PROVE  StrategyIInv'
  <1>1. StrategyKeys'
    BY DEF StrategyIInv, StrategyKeys, RefersToRow, Strategy!Exists
  <1>2. ASSUME NEW b \in Resolutions PROVE ResolutionKept(b)'
    <2>1. ResolutionKept(b)
      BY DEF StrategyIInv
    <2> QED
      BY <2>1 DEF ResolutionKept, Answering, ReadSoFar, FoundCurrent, CopyCurrent, LevelsTried,
                  Chosen, AtLevel, Strategy!StrategyOf
  <1> QED
    BY <1>1, <1>2 DEF StrategyIInv

LEMMA PublishKept == ASSUME StrategyIInv, Strategy!Publish PROVE StrategyIInv'
  <1>1. /\ change.op = "publish"
        /\ objectCache' = [objectCache EXCEPT ![change.guid] = strategies[change.guid]]
        /\ change' = [op |-> "idle", devices |-> {}, guid |-> Nothing]
        /\ UNCHANGED <<strategies, devices, assigned, deviceCache, resolving, lapsed>>
    BY DEF Strategy!Publish, Strategy!tables, Strategy!NoChange
  <1>2. StrategyTyped /\ change.guid \in Strategy!Guids
    BY <1>1 DEF StrategyIInv, StrategyTyped
  <1>3. \A s \in Strategy!Guids :
           objectCache'[s] = IF s = change.guid THEN strategies[s] ELSE objectCache[s]
    BY <1>1, <1>2 DEF StrategyTyped
  <1>4. StrategyTyped'
    <2>1. objectCache' \in [Strategy!Guids -> Nat \cup {Nothing}]
      <3>1. strategies[change.guid] \in Nat \cup {Nothing}
        BY <1>1, <1>2, StrategyTypes DEF StrategyTyped
      <3> QED
        BY <1>1, <1>2, <3>1 DEF StrategyTyped
    <2> QED
      BY <1>1, <1>2, <2>1 DEF StrategyTyped, Reference
  <1>5. ASSUME NEW d \in Devices PROVE MemoryKept(d)'
    <2>1. MemoryKept(d)
      BY DEF StrategyIInv
    <2>2. Chosen(d)' = Chosen(d)
      BY <1>1, <1>2, ChosenKept
    <2>3. deviceCache[d] \in Strategy!Guids \cup {Nothing, Unknown}
      BY <1>2, StrategyTypes DEF Reference
    <2>4. DeviceMemory(d) => DeviceMemory(d)'
      BY <1>1, <2>2 DEF DeviceMemory, ToForget
    <2>5. ObjectMemory(deviceCache[d]) => ObjectMemory(deviceCache[d])'
      BY <1>1, <1>3, <2>3 DEF ObjectMemory
    <2> QED
      BY <1>1, <2>1, <2>4, <2>5 DEF MemoryKept
  <1> QED
    BY <1>1, <1>4, <1>5, CachesOnly

LEMMA DropKept == ASSUME StrategyIInv, Strategy!Drop PROVE StrategyIInv'
  <1>1. /\ change.op = "drop"
        /\ objectCache' = [objectCache EXCEPT ![change.guid] = Nothing]
        /\ deviceCache' = [d \in Devices |-> IF deviceCache[d] = change.guid THEN Unknown
                                             ELSE deviceCache[d]]
        /\ lapsed' = lapsed \ {d \in Devices : deviceCache[d] = change.guid}
        /\ change' = [op |-> "idle", devices |-> {}, guid |-> Nothing]
        /\ UNCHANGED <<strategies, devices, assigned, resolving>>
    BY DEF Strategy!Drop, Strategy!tables, Strategy!NoChange
  <1>2. StrategyTyped /\ change.guid \in Strategy!Guids
    BY <1>1 DEF StrategyIInv, StrategyTyped
  <1>3. \A s \in Strategy!Guids :
           objectCache'[s] = IF s = change.guid THEN Nothing ELSE objectCache[s]
    BY <1>1, <1>2 DEF StrategyTyped
  <1>4. StrategyTyped'
    <2>1. objectCache' \in [Strategy!Guids -> Nat \cup {Nothing}]
      BY <1>1, <1>2 DEF StrategyTyped
    <2>2. deviceCache' \in [Devices -> Reference \cup {Unknown}]
      BY <1>1, <1>2 DEF StrategyTyped
    <2> QED
      BY <1>1, <1>2, <2>1, <2>2 DEF StrategyTyped, Reference
  <1>5. ASSUME NEW d \in Devices PROVE MemoryKept(d)'
    <2>1. MemoryKept(d)
      BY DEF StrategyIInv
    <2>2. CASE deviceCache[d] = change.guid
      <3>1. deviceCache'[d] = Unknown
        BY <1>1, <2>2
      <3> QED
        BY <3>1 DEF MemoryKept, DeviceMemory, ObjectMemory
    <2>3. CASE deviceCache[d] # change.guid
      <3>1. deviceCache'[d] = deviceCache[d] /\ (d \in lapsed => d \in lapsed')
        BY <1>1, <2>3
      <3>2. deviceCache[d] \in Strategy!Guids \cup {Nothing, Unknown}
        BY <1>2, StrategyTypes DEF Reference
      <3>3. Chosen(d)' = Chosen(d)
        BY <1>1, <1>2, ChosenKept
      <3>4. DeviceMemory(d) => DeviceMemory(d)'
        BY <1>1, <2>3, <3>1, <3>3 DEF DeviceMemory, ToForget
      <3>5. ObjectMemory(deviceCache[d]) => ObjectMemory(deviceCache[d])'
        BY <1>1, <1>3, <2>3, <3>1, <3>2 DEF ObjectMemory
      <3> QED
        BY <2>1, <3>1, <3>4, <3>5 DEF MemoryKept
    <2> QED
      BY <2>2, <2>3
  <1> QED
    BY <1>1, <1>4, <1>5, CachesOnly

LEMMA ForgetKept == ASSUME StrategyIInv, Strategy!Forget PROVE StrategyIInv'
  <1>1. /\ change.op = "forget"
        /\ deviceCache' = [d \in Devices |-> IF d \in change.devices THEN Unknown
                                             ELSE deviceCache[d]]
        /\ lapsed' = lapsed \ change.devices
        /\ change' = [op |-> "idle", devices |-> {}, guid |-> Nothing]
        /\ UNCHANGED <<strategies, devices, assigned, objectCache, resolving>>
    BY DEF Strategy!Forget, Strategy!tables, Strategy!NoChange
  <1>2. StrategyTyped
    BY DEF StrategyIInv
  <1>3. StrategyTyped'
    <2>1. deviceCache' \in [Devices -> Reference \cup {Unknown}]
      BY <1>1, <1>2 DEF StrategyTyped
    <2> QED
      BY <1>1, <1>2, <2>1 DEF StrategyTyped, Reference
  <1>4. ASSUME NEW d \in Devices PROVE MemoryKept(d)'
    <2>1. MemoryKept(d)
      BY DEF StrategyIInv
    <2>2. CASE d \in change.devices
      <3>1. deviceCache'[d] = Unknown
        BY <1>1, <2>2
      <3> QED
        BY <3>1 DEF MemoryKept, DeviceMemory, ObjectMemory
    <2>3. CASE d \notin change.devices
      <3>1. deviceCache'[d] = deviceCache[d] /\ (d \in lapsed => d \in lapsed')
        BY <1>1, <2>3
      <3>2. Chosen(d)' = Chosen(d)
        BY <1>1, <1>2, ChosenKept
      <3>3. DeviceMemory(d) => DeviceMemory(d)'
        BY <1>1, <2>3, <3>1, <3>2 DEF DeviceMemory, ToForget
      <3>4. ObjectMemory(deviceCache[d]) => ObjectMemory(deviceCache[d])'
        BY <1>1, <3>1 DEF ObjectMemory
      <3> QED
        BY <2>1, <3>1, <3>3, <3>4 DEF MemoryKept
    <2> QED
      BY <2>2, <2>3
  <1> QED
    BY <1>1, <1>3, <1>4, CachesOnly

-----------------------------------------------------------------------------
LEMMA StrategySteps == ASSUME StrategyIInv, Strategy!Next PROVE StrategyIInv'
  <1>1. ASSUME NEW b \in Resolutions,
               \/ \E d \in Devices : Strategy!ReadPeer(b, d)
               \/ Strategy!LookUp(b) \/ Strategy!ReadStrategy(b) \/ Strategy!ReadOwner(b)
               \/ Strategy!Remember(b)
        PROVE  StrategyIInv'
    BY <1>1, ReadPeerKept, LookUpKept, ReadStrategyKept, ReadOwnerKept, RememberKept
  <1>2. ASSUME NEW s \in Strategy!Guids,
               \/ Strategy!CreateStrategy(s) \/ Strategy!UpdateStrategy(s)
               \/ Strategy!DeleteStrategy(s) \/ Strategy!AssignStrategy(s)
               \/ Strategy!UnassignStrategy(s)
        PROVE  StrategyIInv'
    BY <1>2, CreateStrategyKept, UpdateStrategyKept, DeleteStrategyKept, AssignKept
  <1>3. ASSUME NEW d \in Devices,
               \/ Strategy!UpdateDevice(d) \/ Strategy!BindDevice(d) \/ Strategy!DeleteDevice(d)
               \/ Strategy!RegisterDevice(d)
               \/ \E g \in PeerGroups :
                     \/ Strategy!AddToGroup(d, g) \/ Strategy!RemoveFromGroup(d, g)
                     \/ Strategy!AddToPresetGroup(d, g)
        PROVE  StrategyIInv'
    BY <1>3, UpdateDeviceKept, SilentDeviceKept, RegisterDeviceKept
  <1>4. ASSUME NEW g \in PeerGroups, Strategy!DeleteDeviceGroup(g) PROVE StrategyIInv'
    BY <1>4, DeleteDeviceGroupKept
  <1>5. ASSUME NEW u \in Owners, Strategy!DeleteUser(u) PROVE StrategyIInv'
    BY <1>5, DeleteUserKept
  <1>6. CASE Strategy!Publish \/ Strategy!Drop \/ Strategy!Forget
    BY <1>6, PublishKept, DropKept, ForgetKept
  <1> QED
    BY <1>1, <1>2, <1>3, <1>4, <1>5, <1>6 DEF Strategy!Next

LEMMA StrategyInvariant == PartsSpec => []StrategyIInv
  <1>1. PartsInit => StrategyIInv
    BY StrategyInit DEF PartsInit
  <1>2. StrategyIInv /\ UNCHANGED strategyVars => StrategyIInv'
    <2> SUFFICES ASSUME StrategyIInv, UNCHANGED strategyVars PROVE StrategyIInv'
      OBVIOUS
    <2>1. UNCHANGED <<strategies, devices, assigned, objectCache, deviceCache, resolving, change,
                      lapsed>>
      BY DEF strategyVars
    <2>2. StrategyTyped'
      BY <2>1 DEF StrategyIInv, StrategyTyped
    <2>3. ASSUME NEW d \in Devices PROVE MemoryKept(d)'
      <3>1. MemoryKept(d)
        BY DEF StrategyIInv
      <3> QED
        BY <2>1, <3>1 DEF MemoryKept, DeviceMemory, ObjectMemory, ToForget, Chosen, AtLevel,
                          Strategy!StrategyOf
    <2> QED
      BY <2>1, <2>2, <2>3, CachesOnly
  <1>3. StrategyIInv /\ [PartsNext]_<<part, vars, bufferVars, strategyVars, auditVars>>
            => StrategyIInv'
    BY <1>2, StrategySteps DEF PartsNext
  <1> QED
    BY <1>1, <1>3, PTL DEF PartsSpec

\* findStrategyForPeer: what is remembered for a device is the strategy of the
\* first of its row, its user and its group that has one, with its last edit,
\* unless a heartbeat was overtaken by a change or a change that forgets nothing
\* was made: for any number of devices, users, groups, strategies and heartbeats.
THEOREM MemoryAlwaysFollows == PartsSpec => []MemoryFollowsRows
  <1>1. StrategyIInv => MemoryFollowsRows
    <2> SUFFICES ASSUME StrategyIInv, NEW d \in Devices, change.op = "idle", devices[d].here,
                        d \notin lapsed
                 PROVE  Strategy!Remembered(d) \in {Unknown, Strategy!Assigned(d)}
      BY DEF MemoryFollowsRows, Strategy!MemoryFollowsRows
    <2>1. StrategyTyped /\ StrategyKeys /\ DeviceMemory(d) /\ ObjectMemory(deviceCache[d])
      BY DEF StrategyIInv, MemoryKept
    <2>2. deviceCache[d] = Unknown \/ deviceCache[d] = Chosen(d)
      BY <2>1 DEF DeviceMemory, ToForget
    <2>3. Chosen(d) \in Reference /\ RefersToRow(Chosen(d))
      BY <2>1, ChosenTyped
    <2>4. Strategy!Assigned(d) =
             IF Chosen(d) = Nothing THEN Nothing ELSE <<Chosen(d), strategies[Chosen(d)]>>
      <3>1. \A level \in {"device", "user", "group"} :
               Strategy!Exists(AtLevel(d, level)) <=> AtLevel(d, level) # Nothing
        BY <2>1, ChosenTyped DEF RefersToRow, Strategy!Exists
      <3>2. /\ AtLevel(d, "device") = devices[d].strategy
            /\ AtLevel(d, "user") = Strategy!StrategyOf(devices[d].user)
            /\ AtLevel(d, "group") = Strategy!StrategyOf(devices[d].group)
        BY DEF AtLevel
      <3> QED
        BY <3>1, <3>2 DEF Strategy!Assigned, Strategy!Found, Chosen
    <2>5. CASE deviceCache[d] = Unknown
      BY <2>5 DEF Strategy!Remembered
    <2>6. CASE deviceCache[d] = Nothing
      BY <2>2, <2>4, <2>6, GuidFacts DEF Strategy!Remembered
    <2>7. CASE deviceCache[d] \notin {Unknown, Nothing}
      <3>1. deviceCache[d] = Chosen(d)
        BY <2>2, <2>7
      <3>2. objectCache[deviceCache[d]] = Nothing
            \/ objectCache[deviceCache[d]] = strategies[deviceCache[d]]
        BY <2>1, <2>7 DEF ObjectMemory
      <3> QED
        BY <2>4, <2>7, <3>1, <3>2 DEF Strategy!Remembered
    <2> QED
      BY <2>5, <2>6, <2>7
  <1> QED
    BY <1>1, StrategyInvariant, PTL

(***************************************************************************)
(* Registration and deletion.                                              *)
(***************************************************************************)

\* What a heartbeat and a request carry at each of their steps.
BeatShaped(h) ==
    LET b == beats[h]
    IN /\ b.op = "idle" => ~b.late
       /\ b.op # "idle" => b.machine \in Machines
       /\ b.op \in {"find", "tombstone", "save"} => b.key \in {b.machine[1], Isolated(b.machine)}
AdminShaped(a) ==
    /\ admins[a].op # "idle" => admins[a].key \in Keys
    /\ admins[a].op \in {"release", "retry"} => admins[a].release

RegistryTyped ==
    /\ peers \in [Keys -> Peer] /\ tombstones \in [Keys -> Tombstone]
    /\ freed \in [Keys -> 0..MaxFreed] /\ buffered \in [Keys -> Ids \cup {None}]
    /\ switches \in Nat
    /\ beats \in [Heartbeats -> Beat] /\ admins \in [Admins -> Admin]
    /\ \A h \in Heartbeats : BeatShaped(h)
    /\ \A a \in Admins : AdminShaped(a)
    /\ \A k \in Keys : ~tombstones[k].here => tombstones[k] = NoTombstone

LEMMA RegistryTypes ==
    ASSUME RegistryTyped
    PROVE  /\ \A k \in Keys : /\ peers[k] \in Peer /\ tombstones[k] \in Tombstone
                              /\ freed[k] \in 0..MaxFreed /\ buffered[k] \in Ids \cup {None}
           /\ \A h \in Heartbeats : beats[h] \in Beat /\ BeatShaped(h)
           /\ \A a \in Admins : admins[a] \in Admin /\ AdminShaped(a)
  BY DEF RegistryTyped

LEMMA KeyFacts ==
    /\ \A m \in Machines : /\ m[1] \in Uuids /\ m[1] \in Keys /\ m[2] \in Ids
                           /\ Isolated(m) \in Keys /\ Isolated(m) \notin Uuids
    /\ Uuids \subseteq Keys
  BY KeysApart DEF Machines, Keys, Isolated

LEMMA NothingTyped ==
    /\ NoPeer \in Peer /\ ~NoPeer.here
    /\ NoTombstone \in Tombstone /\ ~NoTombstone.here /\ ~NoTombstone.banned
    /\ ~NoTombstone.idReleased
    /\ NoBeat \in Beat /\ NoBeat.op = "idle" /\ ~NoBeat.late
    /\ NoAdmin \in Admin /\ NoAdmin.op = "idle"
  BY DEF NoPeer, Peer, NoTombstone, Tombstone, NoBeat, Beat, NoAdmin, Admin

LEMMA RegistryInit == Init => RegistryTyped
  <1> SUFFICES ASSUME Init PROVE RegistryTyped
    OBVIOUS
  <1>1. peers \in [Keys -> Peer] /\ tombstones \in [Keys -> Tombstone]
    BY NothingTyped DEF Init
  <1>2. freed \in [Keys -> 0..MaxFreed] /\ buffered \in [Keys -> Ids \cup {None}]
    BY DEF Init, MaxFreed
  <1>3. switches \in Nat
    BY DEF Init
  <1>4. beats \in [Heartbeats -> Beat] /\ admins \in [Admins -> Admin]
    BY NothingTyped DEF Init
  <1>5. \A h \in Heartbeats : BeatShaped(h)
    BY NothingTyped DEF Init, BeatShaped
  <1>6. \A a \in Admins : AdminShaped(a)
    BY NothingTyped DEF Init, AdminShaped
  <1>7. \A k \in Keys : tombstones[k] = NoTombstone
    BY DEF Init
  <1> QED
    BY <1>1, <1>2, <1>3, <1>4, <1>5, <1>6, <1>7 DEF RegistryTyped

(***************************************************************************)
(* Heartbeats.                                                             *)
(***************************************************************************)

LEMMA BeatTyped ==
    ASSUME RegistryTyped, NEW h \in Heartbeats, NEW b \in Beat,
           beats' = [beats EXCEPT ![h] = b],
           b.op = "idle" => ~b.late, b.op # "idle" => b.machine \in Machines,
           b.op \in {"find", "tombstone", "save"} => b.key \in {b.machine[1], Isolated(b.machine)},
           peers' \in [Keys -> Peer], buffered' \in [Keys -> Ids \cup {None}],
           UNCHANGED <<tombstones, freed, switches, admins>>
    PROVE  /\ RegistryTyped' /\ beats'[h] = b
           /\ \A g \in Heartbeats \ {h} : beats'[g] = beats[g]
  <1>1. /\ beats' \in [Heartbeats -> Beat] /\ beats'[h] = b
        /\ \A g \in Heartbeats \ {h} : beats'[g] = beats[g]
    BY DEF RegistryTyped
  <1>2. ASSUME NEW g \in Heartbeats PROVE BeatShaped(g)'
    <2>1. CASE g = h
      BY <1>1, <2>1 DEF BeatShaped
    <2>2. CASE g # h
      BY <1>1, <2>2 DEF RegistryTyped, BeatShaped
    <2> QED
      BY <2>1, <2>2
  <1>3. \A a \in Admins : AdminShaped(a)'
    BY DEF RegistryTyped, AdminShaped
  <1> QED
    BY <1>1, <1>2, <1>3 DEF RegistryTyped

\* Where the steps of a heartbeat lead it.
Looks(h, b) ==
    LET m == beats[h].machine
    IN /\ UNCHANGED <<peers, tombstones, switches>>
       /\ \/ /\ Beats(h, "idle") /\ b.machine \in Machines
             /\ Isolation => ~LegacyTombstone(b.machine) /\ b.op = "resolve"
             /\ ~Isolation => b.op = "find" /\ b.key = b.machine[1]
             /\ b.late = Deleted(b.machine)
          \/ Beats(h, "resolve") /\ b = [beats[h] EXCEPT !.op = "legacy"]
          \/ /\ Beats(h, "resolve") \/ Beats(h, "legacy")
             /\ b = [beats[h] EXCEPT !.op = "find", !.key = Isolated(m)]
          \/ /\ Beats(h, "legacy") /\ peers[m[1]].here
             /\ b = [beats[h] EXCEPT !.op = "find", !.key = m[1]]
          \/ /\ Beats(h, "find") /\ ~peers[beats[h].key].here
             /\ b = [beats[h] EXCEPT !.op = "tombstone"]
          \/ /\ Beats(h, "tombstone") /\ ~tombstones[beats[h].key].here
             /\ b = [beats[h] EXCEPT !.op = "save"]

\* Or it ends, and then the row it saves is all that it changes.
EndsWith(h, b) ==
    /\ b = NoBeat /\ UNCHANGED <<tombstones, switches>>
    /\ \A k \in Keys : peers'[k].here <=> (peers[k].here \/ (Beats(h, "save") /\ beats[h].key = k))

BeatMoves(h) ==
    \E b \in Beat : /\ beats'[h] = b /\ \A g \in Heartbeats \ {h} : beats'[g] = beats[g]
                    /\ Looks(h, b) \/ EndsWith(h, b)

LEMMA HandleTyped ==
    ASSUME RegistryTyped, NEW h \in Heartbeats, NEW m \in Machines, HandleHeartbeat(h, m)
    PROVE  RegistryTyped' /\ BeatMoves(h)
  <1> DEFINE late == Deleted(m)
             b == [op |-> IF Isolation THEN "resolve" ELSE "find", machine |-> m,
                   key |-> IF Isolation THEN None ELSE m[1], late |-> late]
  <1>1. /\ Beats(h, "idle") /\ (Isolation => ~LegacyTombstone(m))
        /\ beats' = [beats EXCEPT ![h] = b]
        /\ UNCHANGED <<peers, tombstones, freed, buffered, switches, admins>>
    BY DEF HandleHeartbeat, Arrives, tables
  <1>2. late \in BOOLEAN
    BY DEF Deleted
  <1>3. m[1] \in Keys
    BY KeyFacts
  <1> HIDE DEF late
  <1>4. /\ b \in Beat /\ b.machine = m /\ b.late = late
        /\ Isolation => b.op = "resolve"
        /\ ~Isolation => b.op = "find" /\ b.key = m[1]
        /\ b.op # "idle" /\ b.op \notin {"tombstone", "save"}
    BY <1>2, <1>3 DEF Beat
  <1>5. b.op = "find" => b.key = m[1]
    BY <1>4
  <1> HIDE DEF b
  <1>6. peers' \in [Keys -> Peer] /\ buffered' \in [Keys -> Ids \cup {None}]
    BY <1>1 DEF RegistryTyped
  <1>7. /\ RegistryTyped' /\ beats'[h] = b
        /\ \A g \in Heartbeats \ {h} : beats'[g] = beats[g]
    BY <1>1, <1>4, <1>5, <1>6, BeatTyped
  <1>8. Looks(h, b)
    <2>1. b.late = Deleted(b.machine)
      BY <1>4 DEF late
    <2> QED
      BY <1>1, <1>4, <2>1 DEF Looks
  <1> QED
    BY <1>4, <1>7, <1>8 DEF BeatMoves

LEMMA LookTyped ==
    ASSUME RegistryTyped, NEW h \in Heartbeats,
           ResolveIsolated(h) \/ ResolveLegacy(h)
    PROVE  RegistryTyped' /\ BeatMoves(h)
  <1> DEFINE o == beats[h]
             m == o.machine
  <1>1. o \in Beat /\ BeatShaped(h) /\ (Beats(h, "resolve") \/ Beats(h, "legacy"))
    BY RegistryTypes DEF ResolveIsolated, ResolveLegacy
  <1>2. m \in Machines /\ m[1] \in Keys /\ Isolated(m) \in Keys
    BY <1>1, KeyFacts DEF BeatShaped, Beats
  <1>3. UNCHANGED <<peers, tombstones, freed, buffered, switches, admins>>
    BY DEF ResolveIsolated, ResolveLegacy, tables
  <1>4. PICK b \in {[o EXCEPT !.op = "legacy"], [o EXCEPT !.op = "find", !.key = Isolated(m)],
                    [o EXCEPT !.op = "find", !.key = m[1]]} :
           beats' = [beats EXCEPT ![h] = b] /\ Looks(h, b)
    <2>1. CASE ResolveIsolated(h) /\ peers[Isolated(m)].here
      BY <1>3, <2>1 DEF ResolveIsolated, FindAs, Looks
    <2>2. CASE ResolveIsolated(h) /\ ~peers[Isolated(m)].here
      BY <1>3, <2>2 DEF ResolveIsolated, Goto, Looks
    <2>3. CASE ResolveLegacy(h) /\ peers[m[1]].here /\ peers[m[1]].id = m[2]
      BY <1>3, <2>3 DEF ResolveLegacy, FindAs, Looks
    <2>4. CASE ResolveLegacy(h) /\ ~(peers[m[1]].here /\ peers[m[1]].id = m[2])
      BY <1>3, <2>4 DEF ResolveLegacy, FindAs, Looks
    <2> QED
      BY <2>1, <2>2, <2>3, <2>4
  <1>5. /\ b \in Beat /\ b.op \in {"legacy", "find"} /\ b.machine = m
        /\ b.op = "find" => b.key \in {m[1], Isolated(m)}
    BY <1>1, <1>2, <1>4 DEF Beat
  <1>6. peers' \in [Keys -> Peer] /\ buffered' \in [Keys -> Ids \cup {None}]
    BY <1>3 DEF RegistryTyped
  <1>7. /\ RegistryTyped' /\ beats'[h] = b
        /\ \A g \in Heartbeats \ {h} : beats'[g] = beats[g]
    BY <1>2, <1>3, <1>4, <1>5, <1>6, BeatTyped
  <1> QED
    BY <1>4, <1>5, <1>7 DEF BeatMoves

LEMMA FindPeerTyped ==
    ASSUME RegistryTyped, NEW h \in Heartbeats,
           FindPeer(h) \/ CheckTombstone(h) \/ Register(h)
    PROVE  RegistryTyped' /\ BeatMoves(h)
  <1> DEFINE o == beats[h]
             k == o.key
  <1>1. o \in Beat /\ BeatShaped(h) /\ o.op \in {"find", "tombstone", "save"}
    BY RegistryTypes DEF FindPeer, CheckTombstone, Register, Beats
  <1>2. /\ o.machine \in Machines /\ k \in {o.machine[1], Isolated(o.machine)} /\ k \in Keys
        /\ o.machine[2] \in Ids
    BY <1>1, KeyFacts DEF BeatShaped
  <1>3. UNCHANGED <<tombstones, freed, switches, admins>>
    BY DEF FindPeer, CheckTombstone, Register, tables
  <1>4. peers' \in [Keys -> Peer]
    <2>1. peers \in [Keys -> Peer] /\ peers[k] \in Peer
      BY <1>2, RegistryTypes DEF RegistryTyped
    <2>2. [peers[k] EXCEPT !.here = TRUE, !.id = o.machine[2]] \in Peer
      BY <1>2, <2>1 DEF Peer
    <2>3. peers' = peers
          \/ peers' = [peers EXCEPT ![k] = [peers[k] EXCEPT !.here = TRUE, !.id = o.machine[2]]]
      BY <1>2, <2>1 DEF FindPeer, CheckTombstone, Register, tables
    <2> QED
      BY <2>1, <2>2, <2>3
  <1>5. buffered' \in [Keys -> Ids \cup {None}]
    BY <1>2 DEF FindPeer, CheckTombstone, Register, RegistryTyped
  <1>6. PICK b \in {NoBeat, [o EXCEPT !.op = "tombstone"], [o EXCEPT !.op = "save"]} :
           beats' = [beats EXCEPT ![h] = b] /\ (Looks(h, b) \/ EndsWith(h, b))
    <2>1. CASE FindPeer(h) /\ peers[k].here
      BY <1>2, <1>3, <2>1 DEF FindPeer, Ends, EndsWith, tables, Beats
    <2>2. CASE FindPeer(h) /\ ~peers[k].here
      BY <1>3, <2>2 DEF FindPeer, Goto, Looks, tables
    <2>3. CASE CheckTombstone(h) /\ tombstones[k].here
      BY <1>2, <1>3, <2>3 DEF CheckTombstone, Ends, EndsWith, tables, Beats
    <2>4. CASE CheckTombstone(h) /\ ~tombstones[k].here
      BY <1>3, <2>4 DEF CheckTombstone, Goto, Looks, tables
    <2>5. CASE Register(h)
      <3>1. \A j \in Keys : peers[j] \in Peer
        BY RegistryTypes
      <3>2. \A j \in Keys \ {k} : peers'[j] = peers[j]
        BY <1>2, <2>5 DEF Register, RegistryTyped
      <3>3. peers'[k].here
        BY <1>2, <2>5, <3>1 DEF Register, RegistryTyped, Peer
      <3>4. EndsWith(h, NoBeat)
        BY <1>3, <2>5, <3>2, <3>3 DEF EndsWith, Register
      <3> QED
        BY <2>5, <3>4 DEF Register, Ends
    <2> QED
      BY <2>1, <2>2, <2>3, <2>4, <2>5
  <1>7. /\ b \in Beat /\ b.op \in {"idle", "tombstone", "save"}
        /\ b.op = "idle" => ~b.late
        /\ b.op # "idle" => b.machine = o.machine /\ b.key = k
    BY <1>1, <1>6, NothingTyped DEF Beat
  <1>8. /\ RegistryTyped' /\ beats'[h] = b
        /\ \A g \in Heartbeats \ {h} : beats'[g] = beats[g]
    BY <1>2, <1>3, <1>4, <1>5, <1>6, <1>7, BeatTyped
  <1> QED
    BY <1>6, <1>7, <1>8 DEF BeatMoves

(***************************************************************************)
(* Administrators.                                                         *)
(***************************************************************************)

\* What the other steps leave of the heartbeats and of the rows: a row goes
\* for a tombstone, and a tombstone with it what is known of its machine.
BeatRests(h) ==
    \/ beats'[h] = NoBeat
    \/ /\ beats'[h].op = beats[h].op /\ beats'[h].machine = beats[h].machine
       /\ beats'[h].key = beats[h].key
       /\ beats'[h].late => beats[h].late
Buried(k) ==
    /\ peers'[k].here => peers[k].here
    /\ peers[k].here /\ ~peers'[k].here => tombstones'[k].here
    /\ tombstones'[k].here => tombstones[k].here \/ (peers[k].here /\ ~peers'[k].here)
    /\ tombstones[k].here /\ ~tombstones'[k].here =>
          \A h \in Heartbeats :
             beats'[h].late => k \notin {beats'[h].machine[1], Isolated(beats'[h].machine)}
Ages ==
    /\ \A h \in Heartbeats : BeatRests(h)
    /\ \A k \in Keys : Buried(k)
    /\ switches' \in Nat /\ switches <= switches'

LEMMA AdminTyped ==
    ASSUME RegistryTyped, NEW a \in Admins, NEW r \in Admin,
           admins' = [admins EXCEPT ![a] = r],
           r.op # "idle" => r.key \in Keys, r.op \in {"release", "retry"} => r.release,
           peers' \in [Keys -> Peer], tombstones' \in [Keys -> Tombstone],
           freed' \in [Keys -> 0..MaxFreed],
           \A k \in Keys : ~tombstones'[k].here => tombstones'[k] = NoTombstone,
           UNCHANGED <<buffered, switches, beats>>
    PROVE  /\ RegistryTyped' /\ admins'[a] = r
           /\ \A b \in Admins \ {a} : admins'[b] = admins[b]
  <1>1. /\ admins' \in [Admins -> Admin] /\ admins'[a] = r
        /\ \A b \in Admins \ {a} : admins'[b] = admins[b]
    BY DEF RegistryTyped
  <1>2. ASSUME NEW b \in Admins PROVE AdminShaped(b)'
    <2>1. CASE b = a
      BY <1>1, <2>1 DEF AdminShaped
    <2>2. CASE b # a
      BY <1>1, <2>2 DEF RegistryTyped, AdminShaped
    <2> QED
      BY <2>1, <2>2
  <1>3. \A h \in Heartbeats : BeatShaped(h)'
    BY DEF RegistryTyped, BeatShaped
  <1> QED
    BY <1>1, <1>2, <1>3 DEF RegistryTyped

\* A request that reads, or calls hbbs, leaves the rows as they are.
LEMMA AdminReads ==
    ASSUME RegistryTyped, NEW a \in Admins, NEW r \in Admin,
           admins' = [admins EXCEPT ![a] = r],
           r.op # "idle" => r.key \in Keys, r.op \in {"release", "retry"} => r.release,
           freed' \in [Keys -> 0..MaxFreed],
           UNCHANGED <<peers, tombstones, buffered, switches, beats>>
    PROVE  /\ RegistryTyped' /\ Ages /\ admins'[a] = r
           /\ \A b \in Admins \ {a} : admins'[b] = admins[b]
  <1>1. /\ peers' \in [Keys -> Peer] /\ tombstones' \in [Keys -> Tombstone]
        /\ \A k \in Keys : ~tombstones'[k].here => tombstones'[k] = NoTombstone
    BY DEF RegistryTyped
  <1>2. /\ RegistryTyped' /\ admins'[a] = r
        /\ \A b \in Admins \ {a} : admins'[b] = admins[b]
    BY <1>1, AdminTyped
  <1>3. Ages
    BY DEF RegistryTyped, Ages, BeatRests, Buried
  <1> QED
    BY <1>2, <1>3

\* A step of a request concerns the key and the id of the request.
AdminMoves(a) ==
    /\ \A b \in Admins \ {a} : admins'[b] = admins[b]
    /\ Runs(a, "idle") => UNCHANGED <<tombstones, freed, bans>>
    /\ \A k \in Keys \ {admins[a].key} : tombstones'[k] = tombstones[k] /\ freed'[k] <= freed[k]
    /\ bans' \subseteq bans \cup {admins[a].id}

LEMMA BeginTyped ==
    ASSUME RegistryTyped, NEW a \in Admins, NEW k \in Keys,
           \/ \E ban, release \in BOOLEAN : DeleteDevice(a, k, ban, release)
           \/ \E disabled \in BOOLEAN : UpdateDeviceStatus(a, k, disabled)
    PROVE  /\ RegistryTyped' /\ Ages /\ AdminMoves(a)
           /\ admins'[a].op \in {"delete", "status"}
  <1>1. /\ Runs(a, "idle")
        /\ UNCHANGED <<peers, tombstones, freed, buffered, switches, bans, beats>>
    BY DEF DeleteDevice, UpdateDeviceStatus, tables
  <1>2. peers[k].id \in Ids \cup {None}
    BY RegistryTypes DEF Peer
  <1>3. PICK r \in Admin :
           /\ admins' = [admins EXCEPT ![a] = r]
           /\ r.op \in {"delete", "status"} /\ r.key = k
    <2>1. ASSUME NEW ban \in BOOLEAN, NEW release \in BOOLEAN, DeleteDevice(a, k, ban, release)
          PROVE  \E r \in Admin : /\ admins' = [admins EXCEPT ![a] = r]
                                  /\ r.op \in {"delete", "status"} /\ r.key = k
      <3> DEFINE r == [NoAdmin EXCEPT !.op = "delete", !.key = k, !.id = peers[k].id, !.ban = ban,
                                      !.release = release]
      <3>1. r \in Admin /\ r.op = "delete" /\ r.key = k
        BY <1>2, NothingTyped DEF NoAdmin, Admin
      <3> QED
        BY <2>1, <3>1 DEF DeleteDevice
    <2>2. ASSUME NEW disabled \in BOOLEAN, UpdateDeviceStatus(a, k, disabled)
          PROVE  \E r \in Admin : /\ admins' = [admins EXCEPT ![a] = r]
                                  /\ r.op \in {"delete", "status"} /\ r.key = k
      <3> DEFINE r == [NoAdmin EXCEPT !.op = "status", !.key = k, !.id = peers[k].id,
                                      !.ban = disabled]
      <3>1. r \in Admin /\ r.op = "status" /\ r.key = k
        BY <1>2, NothingTyped DEF NoAdmin, Admin
      <3> QED
        BY <2>2, <3>1 DEF UpdateDeviceStatus
    <2> QED
      BY <2>1, <2>2
  <1>4. freed' \in [Keys -> 0..MaxFreed]
    BY <1>1 DEF RegistryTyped
  <1>5. /\ RegistryTyped' /\ Ages /\ admins'[a] = r
        /\ \A b \in Admins \ {a} : admins'[b] = admins[b]
    BY <1>1, <1>3, <1>4, AdminReads
  <1>6. \A j \in Keys : freed'[j] <= freed[j]
    BY <1>1 DEF RegistryTyped, MaxFreed
  <1> QED
    BY <1>1, <1>3, <1>5, <1>6 DEF AdminMoves

LEMMA CommitDeleteTyped ==
    ASSUME RegistryTyped, NEW a \in Admins, CommitDelete(a)
    PROVE  /\ RegistryTyped' /\ Ages /\ AdminMoves(a)
           /\ admins'[a].op \in {"idle", "ban", "release"}
           /\ admins'[a].op # "idle" =>
                 peers[admins[a].key].here /\ admins'[a].key = admins[a].key
           /\ \A k \in Keys : /\ tombstones'[k].idReleased = tombstones[k].idReleased
                              /\ tombstones[k].here => tombstones'[k].here
                              /\ freed'[k] <= freed[k]
  <1> DEFINE o == admins[a]
             k == o.key
             dead == [tombstones[k] EXCEPT !.here = TRUE, !.id = o.id]
  <1>1. o \in Admin /\ k \in Keys /\ o.op = "delete"
    BY RegistryTypes DEF CommitDelete, Runs, AdminShaped
  <1>2. /\ o.id \in Ids \cup {None} /\ tombstones[k] \in Tombstone
        /\ \A j \in Keys : freed[j] \in 0..MaxFreed /\ peers[j] \in Peer
    BY <1>1, RegistryTypes DEF Admin
  <1>3. UNCHANGED <<buffered, switches, bans, beats>>
    BY DEF CommitDelete
  <1>4. dead \in Tombstone /\ dead.here /\ dead.idReleased = tombstones[k].idReleased
    BY <1>2 DEF Tombstone
  <1>5. PICK r \in Admin :
           /\ admins' = [admins EXCEPT ![a] = r]
           /\ r.op \in {"idle", "ban", "release"}
           /\ r.op # "idle" => peers[k].here /\ r.key = k
           /\ r.op = "release" => r.release
    <2>1. CASE Done(a)
      BY <2>1, NothingTyped DEF Done
    <2>2. CASE peers[k].here /\ AfterDelete(a) # "idle" /\ Then(a, AfterDelete(a))
      <3> DEFINE next == AfterDelete(a)
                 r == [o EXCEPT !.op = next]
      <3>1. next \in {"ban", "release"} /\ (next = "release" => o.release)
        BY <2>2 DEF AfterDelete
      <3> HIDE DEF next
      <3>2. r \in Admin /\ r.op = next /\ r.key = k /\ r.release = o.release
        BY <1>1, <3>1 DEF Admin
      <3>3. admins' = [admins EXCEPT ![a] = r]
        BY <1>1, <2>2 DEF Then, next
      <3> QED
        BY <2>2, <3>1, <3>2, <3>3
    <2> QED
      BY <2>1, <2>2 DEF CommitDelete
  <1>6. \/ UNCHANGED <<peers, tombstones, freed>>
        \/ /\ peers[k].here /\ tombstones' = [tombstones EXCEPT ![k] = dead]
           /\ peers' = [peers EXCEPT ![k] = NoPeer]
           /\ freed' = [freed EXCEPT ![k] = IF tombstones[k].here THEN freed[k] ELSE 0]
    BY <1>1 DEF CommitDelete, tables, RegistryTyped
  <1> HIDE DEF dead
  <1>7. /\ peers' \in [Keys -> Peer] /\ tombstones' \in [Keys -> Tombstone]
        /\ freed' \in [Keys -> 0..MaxFreed]
        /\ \A j \in Keys : ~tombstones'[j].here => tombstones'[j] = NoTombstone
    <2>1. CASE UNCHANGED <<peers, tombstones, freed>>
      BY <2>1 DEF RegistryTyped
    <2>2. CASE /\ tombstones' = [tombstones EXCEPT ![k] = dead]
               /\ peers' = [peers EXCEPT ![k] = NoPeer]
               /\ freed' = [freed EXCEPT ![k] = IF tombstones[k].here THEN freed[k] ELSE 0]
      <3>1. peers' \in [Keys -> Peer]
        BY <2>2, NothingTyped DEF RegistryTyped
      <3>2. /\ tombstones' \in [Keys -> Tombstone]
            /\ \A j \in Keys : ~tombstones'[j].here => tombstones'[j] = NoTombstone
        BY <1>4, <2>2 DEF RegistryTyped
      <3>3. freed' \in [Keys -> 0..MaxFreed]
        <4> DEFINE n == IF tombstones[k].here THEN freed[k] ELSE 0
        <4>1. n \in 0..MaxFreed
          BY <1>1, <1>2 DEF MaxFreed
        <4>2. freed \in [Keys -> 0..MaxFreed]
          BY DEF RegistryTyped
        <4>3. freed' = [freed EXCEPT ![k] = n]
          BY <2>2
        <4> HIDE DEF n
        <4> QED
          BY <4>1, <4>2, <4>3
      <3> QED
        BY <3>1, <3>2, <3>3
    <2> QED
      BY <1>6, <2>1, <2>2
  <1>8. /\ RegistryTyped' /\ admins'[a] = r
        /\ \A b \in Admins \ {a} : admins'[b] = admins[b]
    BY <1>1, <1>3, <1>5, <1>7, AdminTyped
  <1>9. \A j \in Keys : Buried(j) /\ tombstones'[j].idReleased = tombstones[j].idReleased
                        /\ freed'[j] <= freed[j]
    <2> SUFFICES ASSUME NEW j \in Keys
                 PROVE  Buried(j) /\ tombstones'[j].idReleased = tombstones[j].idReleased
                        /\ freed'[j] <= freed[j]
      OBVIOUS
    <2>1. CASE UNCHANGED <<peers, tombstones, freed>>
      BY <1>2, <2>1 DEF Buried, MaxFreed
    <2>2. CASE /\ peers[k].here /\ tombstones' = [tombstones EXCEPT ![k] = dead]
               /\ peers' = [peers EXCEPT ![k] = NoPeer]
               /\ freed' = [freed EXCEPT ![k] = IF tombstones[k].here THEN freed[k] ELSE 0]
      <3>1. freed'[j] <= freed[j]
        BY <1>2, <2>2 DEF RegistryTyped, MaxFreed
      <3>2. CASE j = k
        BY <1>1, <1>4, <2>2, <3>1, <3>2, NothingTyped DEF RegistryTyped, Buried
      <3>3. CASE j # k
        BY <1>1, <1>4, <2>2, <3>1, <3>3, NothingTyped DEF RegistryTyped, Buried
      <3> QED
        BY <3>2, <3>3
    <2> QED
      BY <1>6, <2>1, <2>2
  <1>10. Ages
    BY <1>3, <1>9 DEF Ages, BeatRests, RegistryTyped
  <1>11. AdminMoves(a)
    <2>1. \A j \in Keys \ {k} : tombstones'[j] = tombstones[j]
      BY <1>1, <1>6 DEF RegistryTyped
    <2> QED
      BY <1>1, <1>3, <1>8, <1>9, <2>1 DEF AdminMoves, Runs
  <1>12. \A j \in Keys : tombstones[j].here => tombstones'[j].here
    BY <1>1, <1>4, <1>6 DEF RegistryTyped
  <1> QED
    BY <1>5, <1>8, <1>9, <1>10, <1>11, <1>12

LEMMA ReleaseTyped ==
    ASSUME RegistryTyped, NEW k \in Keys, NEW acted \in BOOLEAN, Release(k, acted)
    PROVE  /\ freed' \in [Keys -> 0..MaxFreed]
           /\ \A j \in Keys \ {k} : freed'[j] <= freed[j]
  <1> DEFINE n == IF acted /\ freed[k] < MaxFreed THEN freed[k] + 1 ELSE freed[k]
  <1>1. freed \in [Keys -> 0..MaxFreed]
    BY DEF RegistryTyped
  <1>2. n \in 0..MaxFreed
    BY <1>1 DEF MaxFreed
  <1>3. freed' = [freed EXCEPT ![k] = n]
    BY <1>1 DEF Release
  <1> HIDE DEF n
  <1>4. freed' \in [Keys -> 0..MaxFreed]
    BY <1>1, <1>2, <1>3
  <1>5. \A j \in Keys \ {k} : freed'[j] <= freed[j]
    BY <1>1, <1>3 DEF MaxFreed
  <1> QED
    BY <1>4, <1>5

\* The calls of hbbs, and a restore that begins.
LEMMA CallTyped ==
    ASSUME RegistryTyped, NEW a \in Admins,
           \/ BanDevice(a) \/ ReleaseDeviceId(a) \/ UnbanDevice(a) \/ RetryRelease(a)
           \/ SyncDeviceBans(a)
    PROVE  /\ RegistryTyped' /\ Ages /\ AdminMoves(a)
           /\ UNCHANGED tombstones
           /\ admins'[a].op \in {"idle", "release", "patch", "retry", "remove"}
           /\ admins'[a].op # "idle" =>
                 /\ admins'[a].key = admins[a].key /\ admins'[a].id = admins[a].id
                 /\ admins'[a].release = admins[a].release
                 /\ Runs(a, "ban") \/ Runs(a, "release") \/ Runs(a, "unban") \/ Runs(a, "retry")
           /\ admins'[a].op \in {"retry", "remove"} =>
                 \/ Runs(a, "unban") /\ admins[a].id \notin bans'
                 \/ Runs(a, "retry") /\ bans' = bans
           /\ \A k \in Keys : freed'[k] <= freed[k] \/ ((Runs(a, "release") \/ Runs(a, "retry"))
                                                        /\ k = admins[a].key)
  <1> DEFINE o == admins[a]
  <1>1. o \in Admin /\ o.key \in Keys /\ o.op \in {"ban", "release", "unban", "retry", "sync"}
        /\ (o.op \in {"release", "retry"} => o.release)
    BY RegistryTypes DEF BanDevice, ReleaseDeviceId, UnbanDevice, RetryRelease, SyncDeviceBans,
                         Runs, AdminShaped
  <1>2. UNCHANGED <<peers, tombstones, buffered, switches, beats>>
    BY DEF BanDevice, ReleaseDeviceId, UnbanDevice, RetryRelease, SyncDeviceBans, tables
  <1>3. PICK r \in Admin :
           /\ admins' = [admins EXCEPT ![a] = r]
           /\ r.op \in {"idle", "release", "patch", "retry", "remove"}
           /\ r.op # "idle" => /\ r.key = o.key /\ r.id = o.id /\ r.release = o.release
                               /\ o.op \in {"ban", "release", "unban", "retry"}
           /\ r.op \in {"release", "retry"} => r.release
           /\ r.op \in {"retry", "remove"} => \/ o.op = "unban" /\ o.id \notin bans'
                                              \/ o.op = "retry" /\ bans' = bans
    <2>1. ASSUME NEW call \in Calls, BanDevice(a),
                 admins' = [admins EXCEPT ![a].banned = call.enforced,
                                   ![a].op = IF o.release THEN "release" ELSE "patch"]
          PROVE  \E r \in Admin :
                    /\ admins' = [admins EXCEPT ![a] = r] /\ r.op \in {"release", "patch"}
                    /\ r.key = o.key /\ r.id = o.id /\ r.release = o.release
                    /\ r.op = "release" => r.release
      <3> DEFINE next == IF o.release THEN "release" ELSE "patch"
                 r == [o EXCEPT !.banned = call.enforced, !.op = next]
      <3>1. next \in {"release", "patch"} /\ (next = "release" => o.release)
        OBVIOUS
      <3>2. call.enforced \in BOOLEAN
        BY DEF Calls
      <3>3. admins' = [admins EXCEPT ![a] = r]
        BY <1>1, <2>1 DEF RegistryTyped
      <3> HIDE DEF next
      <3>4. r \in Admin /\ r.op = next /\ r.key = o.key /\ r.id = o.id /\ r.release = o.release
        BY <1>1, <3>1, <3>2 DEF Admin
      <3> QED
        BY <3>1, <3>3, <3>4
    <2>2. ASSUME NEW call \in Calls, ReleaseDeviceId(a),
                 admins' = [admins EXCEPT ![a].released = call.enforced, ![a].op = "patch"]
          PROVE  \E r \in Admin :
                    /\ admins' = [admins EXCEPT ![a] = r] /\ r.op = "patch"
                    /\ r.key = o.key /\ r.id = o.id /\ r.release = o.release
      <3> DEFINE r == [o EXCEPT !.released = call.enforced, !.op = "patch"]
      <3>1. call.enforced \in BOOLEAN
        BY DEF Calls
      <3>2. admins' = [admins EXCEPT ![a] = r]
        BY <1>1, <2>2 DEF RegistryTyped
      <3>3. r \in Admin /\ r.op = "patch" /\ r.key = o.key /\ r.id = o.id /\ r.release = o.release
        BY <1>1, <3>1 DEF Admin
      <3> QED
        BY <3>2, <3>3
    <2>3. ASSUME NEW next \in {"retry", "remove"}, Then(a, next)
          PROVE  /\ [o EXCEPT !.op = next] \in Admin
                 /\ admins' = [admins EXCEPT ![a] = [o EXCEPT !.op = next]]
                 /\ [o EXCEPT !.op = next].op = next /\ [o EXCEPT !.op = next].key = o.key
                 /\ [o EXCEPT !.op = next].id = o.id
                 /\ [o EXCEPT !.op = next].release = o.release
      BY <1>1, <2>3 DEF Then, Admin, RegistryTyped
    <2>4. CASE Done(a)
      BY <2>4, NothingTyped DEF Done
    <2>5. CASE BanDevice(a)
      BY <2>1, <2>5 DEF BanDevice, Runs
    <2>6. CASE ReleaseDeviceId(a)
      BY <2>2, <2>6 DEF ReleaseDeviceId, Runs
    <2>7. CASE UnbanDevice(a) /\ ~Done(a)
      <3>1. PICK call \in Calls :
               /\ bans' = IF call.acted THEN bans \ {o.id} ELSE bans
               /\ call.enforced /\ Then(a, IF o.release THEN "retry" ELSE "remove")
        BY <2>7 DEF UnbanDevice
      <3>2. call.acted
        BY <3>1 DEF Calls
      <3>3. o.id \notin bans' /\ o.op = "unban"
        BY <2>7, <3>1, <3>2 DEF UnbanDevice, Runs
      <3>4. CASE o.release
        BY <2>3, <3>1, <3>3, <3>4
      <3>5. CASE ~o.release
        BY <2>3, <3>1, <3>3, <3>5
      <3> QED
        BY <3>4, <3>5
    <2>8. CASE RetryRelease(a)
      <3>1. Then(a, "remove") /\ o.op = "retry" /\ bans' = bans
        BY <2>8 DEF RetryRelease, Runs
      <3> QED
        BY <2>3, <3>1
    <2>9. CASE SyncDeviceBans(a)
      BY <2>4, <2>9 DEF SyncDeviceBans
    <2> QED
      BY <2>4, <2>5, <2>6, <2>7, <2>8, <2>9
  <1>4. /\ freed' \in [Keys -> 0..MaxFreed]
        /\ \A k \in Keys : freed'[k] <= freed[k] \/ (o.op \in {"release", "retry"} /\ k = o.key)
    <2>1. CASE UNCHANGED freed
      BY <2>1 DEF RegistryTyped, MaxFreed
    <2>2. CASE ReleaseDeviceId(a) \/ RetryRelease(a)
      <3>1. PICK call \in Calls : Release(o.key, call.acted)
        BY <2>2 DEF ReleaseDeviceId, RetryRelease
      <3>2. call.acted \in BOOLEAN
        BY DEF Calls
      <3>3. o.op \in {"release", "retry"}
        BY <2>2 DEF ReleaseDeviceId, RetryRelease, Runs
      <3> QED
        BY <1>1, <3>1, <3>2, <3>3, ReleaseTyped
    <2> QED
      BY <2>1, <2>2 DEF BanDevice, UnbanDevice, SyncDeviceBans, tables
  <1>5. /\ RegistryTyped' /\ Ages /\ admins'[a] = r
        /\ \A b \in Admins \ {a} : admins'[b] = admins[b]
    BY <1>1, <1>2, <1>3, <1>4, AdminReads
  <1>6. bans' \subseteq bans \cup {o.id}
    BY DEF BanDevice, ReleaseDeviceId, UnbanDevice, RetryRelease, SyncDeviceBans
  <1>7. AdminMoves(a)
    BY <1>1, <1>2, <1>4, <1>5, <1>6 DEF AdminMoves, Runs
  <1> QED
    BY <1>2, <1>3, <1>4, <1>5, <1>7 DEF Runs

LEMMA RestoreTyped ==
    ASSUME RegistryTyped, NEW a \in Admins, NEW k \in Keys, RestoreTombstone(a, k)
    PROVE  /\ RegistryTyped' /\ Ages /\ AdminMoves(a)
           /\ UNCHANGED <<tombstones, bans, freed>>
           /\ admins'[a].op \in {"unban", "retry", "remove"}
           /\ admins'[a].key = k /\ admins'[a].id = tombstones[k].id
           /\ admins'[a].release => ~tombstones[k].idReleased
           /\ admins'[a].op \in {"retry", "remove"} => ~tombstones[k].banned
  <1> DEFINE t == tombstones[k]
             left == Retries(t)
             next == IF t.banned THEN "unban" ELSE IF left THEN "retry" ELSE "remove"
             r == [NoAdmin EXCEPT !.key = k, !.id = t.id, !.op = next, !.release = left]
  <1>1. /\ Runs(a, "idle") /\ admins' = [admins EXCEPT ![a] = r]
        /\ UNCHANGED <<peers, tombstones, freed, buffered, switches, bans, beats>>
    BY DEF RestoreTombstone, tables
  <1>2. t \in Tombstone
    BY RegistryTypes
  <1>3. left \in BOOLEAN /\ (left => ~t.idReleased)
    BY <1>2 DEF Retries, Tombstone
  <1>4. next \in {"unban", "retry", "remove"} /\ (next = "retry" => left)
        /\ (next \in {"retry", "remove"} => ~t.banned)
    OBVIOUS
  <1> HIDE DEF left, next
  <1>5. /\ r \in Admin /\ r.key = k /\ r.id = t.id /\ r.op = next
    BY <1>2, <1>3, <1>4, NothingTyped DEF Admin, NoAdmin, Tombstone
  <1>6. r.release = left
    BY <1>3 DEF NoAdmin
  <1> HIDE DEF r
  <1>7. r.op \in {"release", "retry"} => r.release
    BY <1>4, <1>5, <1>6
  <1>8. freed' \in [Keys -> 0..MaxFreed] /\ \A j \in Keys : freed'[j] <= freed[j]
    BY <1>1 DEF RegistryTyped, MaxFreed
  <1>9. /\ RegistryTyped' /\ Ages /\ admins'[a] = r
        /\ \A b \in Admins \ {a} : admins'[b] = admins[b]
    BY <1>1, <1>5, <1>7, <1>8, AdminReads
  <1>10. AdminMoves(a)
    BY <1>1, <1>8, <1>9 DEF AdminMoves
  <1> QED
    BY <1>1, <1>3, <1>4, <1>5, <1>6, <1>9, <1>10

LEMMA PatchTyped ==
    ASSUME RegistryTyped, NEW a \in Admins, PatchTombstone(a)
    PROVE  /\ RegistryTyped' /\ Ages /\ AdminMoves(a) /\ Runs(a, "idle")'
           /\ UNCHANGED freed /\ \A k \in Keys : tombstones[k].here => tombstones'[k].here
  <1> DEFINE k == admins[a].key
             t == tombstones[k]
             new == IF t.here THEN Recorded(t, admins[a]) ELSE t
  <1>1. admins[a] \in Admin /\ k \in Keys /\ admins[a].op = "patch" /\ t \in Tombstone
    BY RegistryTypes DEF PatchTombstone, Runs, AdminShaped
  <1>2. /\ tombstones' = [tombstones EXCEPT ![k] = new] /\ Done(a)
        /\ UNCHANGED <<peers, freed, buffered, switches, bans, beats>>
    BY <1>1 DEF PatchTombstone, RegistryTyped
  <1>3. new \in Tombstone /\ (new.here <=> t.here) /\ (~new.here => new = t)
    <2>1. CASE t.here
      <3> DEFINE banned == t.banned \/ admins[a].banned
                 wanted == t.releaseRequested \/ admins[a].release
                 released == t.idReleased \/ admins[a].released
      <3>1. banned \in BOOLEAN /\ wanted \in BOOLEAN /\ released \in BOOLEAN
        OBVIOUS
      <3>2. new = [t EXCEPT !.banned = banned, !.releaseRequested = wanted, !.idReleased = released]
        BY <2>1 DEF Recorded
      <3> HIDE DEF banned, wanted, released
      <3>3. new \in Tombstone /\ new.here = t.here
        BY <1>1, <3>1, <3>2 DEF Tombstone
      <3> QED
        BY <2>1, <3>3
    <2>2. CASE ~t.here
      BY <1>1, <2>2
    <2> QED
      BY <2>1, <2>2
  <1> HIDE DEF new
  <1>4. /\ peers' \in [Keys -> Peer] /\ tombstones' \in [Keys -> Tombstone]
        /\ freed' \in [Keys -> 0..MaxFreed]
        /\ \A j \in Keys : ~tombstones'[j].here => tombstones'[j] = NoTombstone
    <2>1. tombstones' \in [Keys -> Tombstone]
      BY <1>2, <1>3 DEF RegistryTyped
    <2>2. \A j \in Keys : ~tombstones'[j].here => tombstones'[j] = NoTombstone
      BY <1>1, <1>2, <1>3 DEF RegistryTyped
    <2> QED
      BY <1>2, <2>1, <2>2 DEF RegistryTyped
  <1>5. /\ RegistryTyped' /\ admins'[a] = NoAdmin
        /\ \A b \in Admins \ {a} : admins'[b] = admins[b]
    BY <1>2, <1>4, NothingTyped, AdminTyped DEF Done
  <1>6. \A j \in Keys : tombstones'[j].here <=> tombstones[j].here
    BY <1>1, <1>2, <1>3 DEF RegistryTyped
  <1>7. Ages
    BY <1>2, <1>6 DEF Ages, BeatRests, Buried, RegistryTyped
  <1>8. AdminMoves(a)
    <2>1. \A j \in Keys \ {k} : tombstones'[j] = tombstones[j]
      BY <1>1, <1>2 DEF RegistryTyped
    <2>2. \A j \in Keys : freed'[j] <= freed[j]
      BY <1>2 DEF RegistryTyped, MaxFreed
    <2> QED
      BY <1>1, <1>2, <1>5, <2>1, <2>2 DEF AdminMoves, Runs
  <1> QED
    BY <1>2, <1>5, <1>6, <1>7, <1>8, NothingTyped DEF Runs

LEMMA RemoveTyped ==
    ASSUME RegistryTyped, NEW a \in Admins, RemoveTombstone(a)
    PROVE  /\ RegistryTyped' /\ Ages /\ AdminMoves(a) /\ Runs(a, "idle")'
           /\ Runs(a, "remove") /\ UNCHANGED <<freed, bans>>
           /\ tombstones'[admins[a].key] = NoTombstone
  <1> DEFINE k == admins[a].key
             stays(h) == beats[h].late
                         /\ k \notin {beats[h].machine[1], Isolated(beats[h].machine)}
  <1>1. admins[a] \in Admin /\ k \in Keys /\ Runs(a, "remove")
    BY RegistryTypes DEF RemoveTombstone, Runs, AdminShaped
  <1>2. /\ tombstones' = [tombstones EXCEPT ![k] = NoTombstone] /\ Done(a)
        /\ beats' = [h \in Heartbeats |-> [beats[h] EXCEPT !.late = stays(h)]]
        /\ UNCHANGED <<peers, freed, buffered, switches, bans>>
    BY DEF RemoveTombstone
  <1>3. ASSUME NEW h \in Heartbeats
        PROVE  /\ beats'[h] \in Beat /\ beats'[h].op = beats[h].op
               /\ beats'[h].machine = beats[h].machine /\ beats'[h].key = beats[h].key
               /\ beats'[h].late = stays(h)
    <2> DEFINE s == stays(h)
    <2>1. s \in BOOLEAN /\ beats[h] \in Beat
      BY RegistryTypes
    <2>2. beats'[h] = [beats[h] EXCEPT !.late = s]
      BY <1>2
    <2> HIDE DEF s
    <2>3. /\ beats'[h] \in Beat /\ beats'[h].op = beats[h].op
          /\ beats'[h].machine = beats[h].machine /\ beats'[h].key = beats[h].key
      BY <2>1, <2>2 DEF Beat
    <2>4. beats'[h].late = s
      BY <2>1, <2>2 DEF Beat
    <2> QED
      BY <2>3, <2>4 DEF s
  <1> HIDE DEF stays
  <1>4. tombstones'[k] = NoTombstone /\ \A j \in Keys \ {k} : tombstones'[j] = tombstones[j]
    BY <1>1, <1>2 DEF RegistryTyped
  <1>5. /\ admins' \in [Admins -> Admin] /\ admins'[a] = NoAdmin
        /\ \A b \in Admins \ {a} : admins'[b] = admins[b]
    BY <1>2, NothingTyped DEF Done, RegistryTyped
  <1>6. beats' \in [Heartbeats -> Beat]
    BY <1>2, <1>3
  <1>7. ASSUME NEW h \in Heartbeats PROVE BeatShaped(h)' /\ BeatRests(h)
    <2>1. BeatShaped(h)
      BY RegistryTypes
    <2>2. beats'[h].late => beats[h].late
      BY <1>3 DEF stays
    <2> QED
      BY <1>3, <2>1, <2>2 DEF BeatShaped, BeatRests
  <1>8. \A b \in Admins : AdminShaped(b)'
    BY <1>5, NothingTyped DEF RegistryTyped, AdminShaped
  <1>9. RegistryTyped'
    <2>1. tombstones' \in [Keys -> Tombstone]
      BY <1>2, NothingTyped DEF RegistryTyped
    <2>2. \A j \in Keys : ~tombstones'[j].here => tombstones'[j] = NoTombstone
      BY <1>4 DEF RegistryTyped
    <2> QED
      BY <1>2, <1>5, <1>6, <1>7, <1>8, <2>1, <2>2 DEF RegistryTyped
  <1>10. ASSUME NEW j \in Keys PROVE Buried(j)
    <2>1. CASE j = k
      <3>1. \A h \in Heartbeats :
               beats'[h].late => k \notin {beats'[h].machine[1], Isolated(beats'[h].machine)}
        BY <1>3 DEF stays
      <3> QED
        BY <1>2, <1>4, <2>1, <3>1, NothingTyped DEF Buried
    <2>2. CASE j # k
      BY <1>2, <1>4, <2>2 DEF Buried
    <2> QED
      BY <2>1, <2>2
  <1>11. Ages
    BY <1>2, <1>7, <1>10 DEF Ages, RegistryTyped
  <1>12. AdminMoves(a)
    <2>1. \A j \in Keys : freed'[j] <= freed[j]
      BY <1>2 DEF RegistryTyped, MaxFreed
    <2> QED
      BY <1>1, <1>2, <1>4, <1>5, <2>1 DEF AdminMoves, Runs
  <1> QED
    BY <1>1, <1>2, <1>4, <1>5, <1>9, <1>11, <1>12, NothingTyped DEF Runs

LEMMA StatusTyped ==
    ASSUME RegistryTyped, NEW a \in Admins, CommitStatus(a)
    PROVE  /\ RegistryTyped' /\ Ages /\ AdminMoves(a) /\ UNCHANGED <<tombstones, freed, bans>>
           /\ admins'[a].op \in {"idle", "sync"}
  <1> DEFINE o == admins[a]
             k == o.key
  <1>1. o \in Admin /\ k \in Keys /\ o.op = "status" /\ o.ban \in BOOLEAN
    BY RegistryTypes DEF CommitStatus, Runs, AdminShaped, Admin
  <1>2. UNCHANGED <<tombstones, freed, buffered, switches, bans, beats>>
    BY DEF CommitStatus
  <1>3. PICK r \in Admin :
           /\ admins' = [admins EXCEPT ![a] = r] /\ r.op \in {"idle", "sync"}
           /\ r.op # "idle" => r.key = k
    <2>1. CASE Done(a)
      BY <2>1, NothingTyped DEF Done
    <2>2. CASE Then(a, "sync")
      <3> DEFINE r == [o EXCEPT !.op = "sync"]
      <3>1. r \in Admin /\ r.op = "sync" /\ r.key = k
        BY <1>1 DEF Admin
      <3> QED
        BY <2>2, <3>1 DEF Then
    <2> QED
      BY <2>1, <2>2 DEF CommitStatus
  <1>4. /\ peers' \in [Keys -> Peer]
        /\ \A j \in Keys : peers'[j].here = peers[j].here
    <2>1. peers \in [Keys -> Peer] /\ peers[k] \in Peer
      BY <1>1 DEF RegistryTyped
    <2> DEFINE row == [peers[k] EXCEPT !.disabled = o.ban]
    <2>2. row \in Peer
      BY <1>1, <2>1 DEF Peer
    <2>3. row.here = peers[k].here
      BY <2>1 DEF Peer
    <2>4. peers' = peers \/ peers' = [peers EXCEPT ![k] = row]
      BY <1>1 DEF CommitStatus
    <2> HIDE DEF row
    <2> QED
      BY <1>1, <2>1, <2>2, <2>3, <2>4
  <1>5. /\ tombstones' \in [Keys -> Tombstone] /\ freed' \in [Keys -> 0..MaxFreed]
        /\ \A j \in Keys : ~tombstones'[j].here => tombstones'[j] = NoTombstone
    BY <1>2 DEF RegistryTyped
  <1>6. /\ RegistryTyped' /\ admins'[a] = r
        /\ \A b \in Admins \ {a} : admins'[b] = admins[b]
    BY <1>1, <1>2, <1>3, <1>4, <1>5, AdminTyped
  <1>7. Ages
    BY <1>2, <1>4 DEF Ages, BeatRests, Buried, RegistryTyped
  <1>8. \A j \in Keys : freed'[j] <= freed[j]
    BY <1>2 DEF RegistryTyped, MaxFreed
  <1>9. AdminMoves(a)
    BY <1>1, <1>2, <1>6, <1>8 DEF AdminMoves, Runs
  <1> QED
    BY <1>2, <1>3, <1>6, <1>7, <1>9

(***************************************************************************)
(* Flushes, the setting and crashes.                                       *)
(***************************************************************************)

LEMMA OtherTyped ==
    ASSUME RegistryTyped, (\E k \in Keys : Flush(k)) \/ SetCloneIsolation \/ Crash
    PROVE  /\ RegistryTyped' /\ Ages /\ UNCHANGED <<tombstones, freed, bans>>
           /\ admins' = admins \/ \A a \in Admins : admins'[a] = NoAdmin
  <1>1. CASE SetCloneIsolation
    <2>1. /\ UNCHANGED <<peers, tombstones, freed, buffered, bans, beats, admins>>
          /\ switches' = switches + 1
      BY <1>1 DEF SetCloneIsolation, tables
    <2>2. switches \in Nat
      BY DEF RegistryTyped
    <2>3. RegistryTyped'
      BY <2>1, <2>2 DEF RegistryTyped, BeatShaped, AdminShaped
    <2>4. Ages
      BY <2>1, <2>2 DEF Ages, BeatRests, Buried
    <2> QED
      BY <2>1, <2>3, <2>4
  <1>2. CASE Crash
    <2>1. /\ UNCHANGED <<peers, tombstones, freed, switches, bans>>
          /\ beats' = [h \in Heartbeats |-> NoBeat] /\ admins' = [a \in Admins |-> NoAdmin]
          /\ buffered' = [k \in Keys |-> None]
      BY <1>2 DEF Crash, tables
    <2>2. /\ beats' \in [Heartbeats -> Beat] /\ admins' \in [Admins -> Admin]
          /\ buffered' \in [Keys -> Ids \cup {None}]
      BY <2>1, NothingTyped
    <2>3. /\ \A h \in Heartbeats : BeatShaped(h)' /\ beats'[h] = NoBeat
          /\ \A a \in Admins : AdminShaped(a)' /\ admins'[a] = NoAdmin
      BY <2>1, NothingTyped DEF BeatShaped, AdminShaped
    <2>4. RegistryTyped'
      BY <2>1, <2>2, <2>3 DEF RegistryTyped
    <2>5. Ages
      BY <2>1, <2>3 DEF Ages, BeatRests, Buried, RegistryTyped
    <2> QED
      BY <2>1, <2>3, <2>4, <2>5
  <1>3. ASSUME NEW k \in Keys, Flush(k)
        PROVE  RegistryTyped' /\ Ages /\ UNCHANGED <<tombstones, freed, bans, admins>>
    <2> DEFINE id == IF peers[k].here THEN buffered[k] ELSE peers[k].id
               row == [peers[k] EXCEPT !.id = id]
    <2>1. /\ UNCHANGED <<tombstones, freed, switches, bans, beats, admins>>
          /\ buffered' = [buffered EXCEPT ![k] = None]
      BY <1>3 DEF Flush
    <2>2. peers \in [Keys -> Peer] /\ peers[k] \in Peer /\ buffered[k] \in Ids \cup {None}
      BY RegistryTypes DEF RegistryTyped
    <2>3. id \in Ids \cup {None}
      BY <2>2 DEF Peer
    <2>4. peers' = [peers EXCEPT ![k] = row]
      BY <1>3, <2>2 DEF Flush
    <2> HIDE DEF id
    <2>5. row \in Peer /\ row.here = peers[k].here
      BY <2>2, <2>3 DEF Peer
    <2> HIDE DEF row
    <2>6. peers' \in [Keys -> Peer] /\ \A j \in Keys : peers'[j].here = peers[j].here
      BY <2>2, <2>4, <2>5
    <2>7. buffered' \in [Keys -> Ids \cup {None}]
      BY <2>1 DEF RegistryTyped
    <2>8. RegistryTyped'
      BY <2>1, <2>6, <2>7 DEF RegistryTyped, BeatShaped, AdminShaped
    <2>9. Ages
      BY <2>1, <2>6 DEF Ages, BeatRests, Buried, RegistryTyped
    <2> QED
      BY <2>1, <2>8, <2>9
  <1> QED
    BY <1>1, <1>2, <1>3

-----------------------------------------------------------------------------
(* What the environment is assumed to do in some of the theorems.          *)

\* No two heartbeats register the same row at the same time, ...
Registers(h) == Beats(h, "tombstone") \/ Beats(h, "save")
OneRegistration ==
    \A g, h \in Heartbeats : g # h /\ Registers(g) /\ Registers(h) => beats[g].key # beats[h].key

\* ... and no two administrators are at work on the same row, or the same id.
RequestsApart ==
    \A a, b \in Admins :
        a # b /\ ~Runs(a, "idle") /\ ~Runs(b, "idle") =>
            admins[a].key # admins[b].key /\ admins[a].id # admins[b].id

\* A heartbeat that registers a row has found neither a row nor a tombstone.
RegistersNew(h) ==
    /\ Registers(h) => ~peers[beats[h].key].here
    /\ Beats(h, "save") => ~tombstones[beats[h].key].here
DeletionHolds == DeletedStaysDeleted /\ \A h \in Heartbeats : RegistersNew(h)

\* As long as isolation was never on, nothing has an isolated key; until it is
\* switched off again, a late heartbeat meets the tombstone or an older row.
NeverIsolated ==
    /\ \A m \in Machines : ~peers[Isolated(m)].here /\ ~tombstones[Isolated(m)].here
    /\ \A h \in Heartbeats : /\ ~Beats(h, "resolve") /\ ~Beats(h, "legacy")
                             /\ ~Beats(h, "idle") => beats[h].key \in Uuids
LateMeets(h) ==
    LET b == beats[h]
    IN b.late =>
          /\ b.op # "save"
          /\ b.op \in {"resolve", "legacy"} => tombstones[Isolated(b.machine)].here
          /\ b.op = "find" => peers[b.key].here \/ tombstones[b.key].here
          /\ b.op = "tombstone" => tombstones[b.key].here
LateKept ==
    /\ switches = 0 => NeverIsolated
    /\ switches <= 1 => \A h \in Heartbeats : LateMeets(h)

\* A request that may release the id of a tombstone found that nobody has, ...
ReleaseOpen(a) ==
    admins[a].op \in {"ban", "release", "unban", "retry"} /\ admins[a].release
        => ~tombstones[admins[a].key].idReleased

\* ... and a restore has the id of the tombstone and, once the ban is lifted,
\* nobody bans it again.
RestoreCurrent(a) ==
    /\ admins[a].op \in {"unban", "retry", "remove"}
          => tombstones[admins[a].key].id = admins[a].id
    /\ admins[a].op \in {"retry", "remove"} /\ tombstones[admins[a].key].banned
          => admins[a].id \notin bans

LEMMA HeartbeatSteps ==
    ASSUME RegistryTyped, NEW h \in Heartbeats,
           \/ \E m \in Machines : HandleHeartbeat(h, m)
           \/ ResolveIsolated(h) \/ ResolveLegacy(h) \/ FindPeer(h)
           \/ CheckTombstone(h) \/ Register(h)
    PROVE  RegistryTyped' /\ BeatMoves(h) /\ UNCHANGED <<tombstones, freed, bans, admins>>
  <1>1. UNCHANGED <<tombstones, freed, bans, admins>>
    BY DEF HandleHeartbeat, ResolveIsolated, ResolveLegacy, FindPeer, CheckTombstone, Register,
           tables
  <1> QED
    BY <1>1, HandleTyped, LookTyped, FindPeerTyped

AdminStep(a) ==
    \/ \E k \in Keys :
          \/ \E ban, release \in BOOLEAN : DeleteDevice(a, k, ban, release)
          \/ RestoreTombstone(a, k)
          \/ \E disabled \in BOOLEAN : UpdateDeviceStatus(a, k, disabled)
    \/ CommitDelete(a) \/ BanDevice(a) \/ ReleaseDeviceId(a) \/ PatchTombstone(a)
    \/ UnbanDevice(a) \/ RetryRelease(a) \/ RemoveTombstone(a)
    \/ CommitStatus(a) \/ SyncDeviceBans(a)

LEMMA AdminSteps ==
    ASSUME RegistryTyped, NEW a \in Admins, AdminStep(a)
    PROVE  /\ RegistryTyped' /\ Ages /\ AdminMoves(a)
           /\ DeletedStaysDeleted /\ ReleaseOpen(a) => ReleaseOpen(a)'
           /\ RestoreCurrent(a) => RestoreCurrent(a)'
           /\ \A k \in Keys : \/ freed'[k] <= freed[k]
                              \/ k = admins[a].key /\ (Runs(a, "release") \/ Runs(a, "retry"))
           /\ \A k \in Keys : tombstones[k].here /\ ~tombstones'[k].here =>
                                 Runs(a, "remove") /\ k = admins[a].key /\ UNCHANGED bans
  <1>0. \A k \in Keys : freed[k] <= freed[k]
    BY DEF RegistryTyped, MaxFreed
  <1>1. ASSUME NEW k \in Keys,
               \/ \E ban, release \in BOOLEAN : DeleteDevice(a, k, ban, release)
               \/ \E disabled \in BOOLEAN : UpdateDeviceStatus(a, k, disabled)
        PROVE  /\ RegistryTyped' /\ Ages /\ AdminMoves(a)
               /\ admins'[a].op \in {"delete", "status"} /\ UNCHANGED <<tombstones, freed>>
    <2>1. UNCHANGED <<tombstones, freed>>
      BY <1>1 DEF DeleteDevice, UpdateDeviceStatus, tables
    <2> QED
      BY <1>1, <2>1, BeginTyped
  <1>2. CASE \E k \in Keys : \/ \E ban, release \in BOOLEAN : DeleteDevice(a, k, ban, release)
                             \/ \E disabled \in BOOLEAN : UpdateDeviceStatus(a, k, disabled)
    BY <1>0, <1>1, <1>2 DEF ReleaseOpen, RestoreCurrent
  <1>3. ASSUME NEW k \in Keys, RestoreTombstone(a, k)
        PROVE  /\ RegistryTyped' /\ Ages /\ AdminMoves(a) /\ ReleaseOpen(a)' /\ RestoreCurrent(a)'
               /\ UNCHANGED <<tombstones, freed>>
    BY <1>3, RestoreTyped DEF ReleaseOpen, RestoreCurrent
  <1>4. CASE \E k \in Keys : RestoreTombstone(a, k)
    BY <1>0, <1>3, <1>4
  <1>5. CASE CommitDelete(a)
    <2>1. admins[a].key \in Keys
      BY <1>5, RegistryTypes DEF CommitDelete, Runs, AdminShaped
    <2>2. DeletedStaysDeleted /\ admins'[a].op # "idle" => ~tombstones'[admins'[a].key].idReleased
      <3> SUFFICES ASSUME DeletedStaysDeleted, admins'[a].op # "idle"
                   PROVE  ~tombstones'[admins'[a].key].idReleased
        OBVIOUS
      <3>1. ~tombstones[admins[a].key].here
        BY <1>5, <2>1, CommitDeleteTyped DEF DeletedStaysDeleted
      <3>2. ~tombstones[admins[a].key].idReleased
        BY <2>1, <3>1, NothingTyped DEF RegistryTyped
      <3> QED
        BY <1>5, <2>1, <3>2, CommitDeleteTyped
    <2> QED
      BY <1>5, <2>2, CommitDeleteTyped DEF ReleaseOpen, RestoreCurrent
  <1>6. CASE \/ BanDevice(a) \/ ReleaseDeviceId(a) \/ UnbanDevice(a) \/ RetryRelease(a)
             \/ SyncDeviceBans(a)
    <2>1. /\ RegistryTyped' /\ Ages /\ AdminMoves(a) /\ UNCHANGED tombstones
          /\ admins'[a].op \in {"idle", "release", "patch", "retry", "remove"}
          /\ admins'[a].op # "idle" =>
                 /\ admins'[a].key = admins[a].key /\ admins'[a].id = admins[a].id
                 /\ admins'[a].release = admins[a].release
                 /\ Runs(a, "ban") \/ Runs(a, "release") \/ Runs(a, "unban") \/ Runs(a, "retry")
          /\ admins'[a].op \in {"retry", "remove"} =>
                 \/ Runs(a, "unban") /\ admins[a].id \notin bans'
                 \/ Runs(a, "retry") /\ bans' = bans
          /\ \A k \in Keys : freed'[k] <= freed[k] \/ ((Runs(a, "release") \/ Runs(a, "retry"))
                                                       /\ k = admins[a].key)
      BY <1>6, CallTyped
    <2>2. ReleaseOpen(a) => ReleaseOpen(a)'
      BY <2>1 DEF ReleaseOpen, Runs
    <2>3. RestoreCurrent(a) => RestoreCurrent(a)'
      BY <2>1 DEF RestoreCurrent, Runs
    <2> QED
      BY <2>1, <2>2, <2>3
  <1>7. CASE PatchTombstone(a)
    BY <1>0, <1>7, PatchTyped DEF ReleaseOpen, RestoreCurrent, Runs
  <1>8. CASE RemoveTombstone(a)
    <2>1. \A k \in Keys \ {admins[a].key} : tombstones'[k] = tombstones[k]
      BY <1>8, RemoveTyped DEF AdminMoves
    <2> QED
      BY <1>0, <1>8, <2>1, RemoveTyped DEF ReleaseOpen, RestoreCurrent, Runs
  <1>9. CASE CommitStatus(a)
    BY <1>0, <1>9, StatusTyped DEF ReleaseOpen, RestoreCurrent
  <1> QED
    BY <1>2, <1>4, <1>5, <1>6, <1>7, <1>8, <1>9 DEF AdminStep

\* Every step is one of a heartbeat, one of a request, or neither.
LEMMA RegistrySteps ==
    ASSUME RegistryTyped, Next
    PROVE  /\ RegistryTyped'
           /\ \/ \E h \in Heartbeats : BeatMoves(h) /\ UNCHANGED <<tombstones, freed, bans, admins>>
              \/ Ages /\ \E a \in Admins : AdminStep(a)
              \/ /\ Ages /\ UNCHANGED <<tombstones, freed, bans>>
                 /\ admins' = admins \/ \A a \in Admins : admins'[a] = NoAdmin
  <1>1. ASSUME NEW h \in Heartbeats,
               \/ \E m \in Machines : HandleHeartbeat(h, m)
               \/ ResolveIsolated(h) \/ ResolveLegacy(h) \/ FindPeer(h)
               \/ CheckTombstone(h) \/ Register(h)
        PROVE  RegistryTyped' /\ BeatMoves(h) /\ UNCHANGED <<tombstones, freed, bans, admins>>
    BY <1>1, HeartbeatSteps
  <1>2. ASSUME NEW a \in Admins, AdminStep(a) PROVE RegistryTyped' /\ Ages
    BY <1>2, AdminSteps
  <1>3. CASE (\E k \in Keys : Flush(k)) \/ SetCloneIsolation \/ Crash
    BY <1>3, OtherTyped
  <1> QED
    BY <1>1, <1>2, <1>3 DEF Next, AdminStep

LEMMA RegistryStutters == ASSUME RegistryTyped, UNCHANGED vars PROVE RegistryTyped'
  BY DEF vars, RegistryTyped, BeatShaped, AdminShaped

LEMMA RegistryInvariant == Spec => []RegistryTyped
  <1>1. RegistryTyped /\ [Next]_vars => RegistryTyped'
    BY RegistrySteps, RegistryStutters
  <1> QED
    BY <1>1, RegistryInit, PTL DEF Spec

(***************************************************************************)
(* What is deleted stays deleted.                                          *)
(***************************************************************************)

LEMMA DeletionSteps ==
    ASSUME RegistryTyped, DeletionHolds, OneRegistration, Next PROVE DeletionHolds'
  <1>0. /\ \A h \in Heartbeats : RegistersNew(h) /\ BeatShaped(h)
        /\ \A h \in Heartbeats : Registers(h) => beats[h].key \in Keys
    BY RegistryTypes, KeyFacts DEF DeletionHolds, Registers, Beats, BeatShaped
  <1>1. ASSUME NEW g \in Heartbeats, BeatMoves(g) PROVE DeletionHolds'
    <2>1. PICK b \in Beat : /\ beats'[g] = b
                            /\ \A h \in Heartbeats \ {g} : beats'[h] = beats[h]
                            /\ Looks(g, b) \/ EndsWith(g, b)
      BY <1>1 DEF BeatMoves
    <2>2. CASE Looks(g, b)
      <3>1. UNCHANGED <<peers, tombstones>>
        BY <2>2 DEF Looks
      <3>2. RegistersNew(g)'
        <4>1. beats[g] \in Beat
          BY RegistryTypes
        <4>2. CASE Beats(g, "find") /\ ~peers[beats[g].key].here
                   /\ b = [beats[g] EXCEPT !.op = "tombstone"]
          BY <2>1, <3>1, <4>1, <4>2 DEF RegistersNew, Registers, Beats, Beat
        <4>3. CASE Beats(g, "tombstone") /\ ~tombstones[beats[g].key].here
                   /\ b = [beats[g] EXCEPT !.op = "save"]
          BY <1>0, <2>1, <3>1, <4>1, <4>3 DEF RegistersNew, Registers, Beats, Beat
        <4>4. CASE b.op \in {"resolve", "legacy", "find"}
          BY <2>1, <4>4 DEF RegistersNew, Registers, Beats
        <4> QED
          BY <2>2, <4>1, <4>2, <4>3, <4>4 DEF Looks, Beat
      <3>3. \A h \in Heartbeats \ {g} : RegistersNew(h)'
        BY <1>0, <2>1, <3>1 DEF RegistersNew, Registers, Beats
      <3> QED
        BY <3>1, <3>2, <3>3 DEF DeletionHolds, DeletedStaysDeleted
    <2>3. CASE EndsWith(g, b)
      <3>1. /\ beats'[g].op = "idle" /\ UNCHANGED tombstones
            /\ \A k \in Keys :
                  peers'[k].here <=> (peers[k].here \/ (Beats(g, "save") /\ beats[g].key = k))
        BY <2>1, <2>3, NothingTyped DEF EndsWith
      <3>2. DeletedStaysDeleted'
        BY <1>0, <3>1 DEF DeletionHolds, DeletedStaysDeleted, RegistersNew
      <3>3. ASSUME NEW h \in Heartbeats \ {g} PROVE RegistersNew(h)'
        <4>1. Registers(h) /\ Beats(g, "save") => beats[g].key # beats[h].key
          BY <3>3 DEF OneRegistration, Registers
        <4> QED
          BY <1>0, <2>1, <3>1, <4>1 DEF RegistersNew, Registers, Beats
      <3>4. RegistersNew(g)'
        BY <3>1 DEF RegistersNew, Registers, Beats
      <3> QED
        BY <3>2, <3>3, <3>4 DEF DeletionHolds
    <2> QED
      BY <2>1, <2>2, <2>3
  <1>2. CASE Ages
    <2>1. DeletedStaysDeleted'
      BY <1>2 DEF Ages, Buried, DeletionHolds, DeletedStaysDeleted
    <2>2. ASSUME NEW h \in Heartbeats PROVE RegistersNew(h)'
      <3>1. CASE beats'[h] = NoBeat
        BY <3>1, NothingTyped DEF RegistersNew, Registers, Beats
      <3>2. CASE beats'[h].op = beats[h].op /\ beats'[h].key = beats[h].key
        <4>1. Registers(h) => Buried(beats[h].key)
          BY <1>0, <1>2 DEF Ages
        <4> QED
          BY <1>0, <3>2, <4>1 DEF RegistersNew, Registers, Beats, Buried
      <3> QED
        BY <1>2, <3>1, <3>2 DEF Ages, BeatRests
    <2> QED
      BY <2>1, <2>2 DEF DeletionHolds
  <1> QED
    BY <1>1, <1>2, RegistrySteps

\* deleteDevice, and the heartbeats, buffers and crashes next to it: no row is
\* beside its tombstone, for any number of heartbeats and administrators at the
\* same time, as long as no two heartbeats register the same row at once.
THEOREM DeletedForGood == Spec /\ []OneRegistration => []DeletedStaysDeleted
  <1>1. Init => DeletionHolds
    BY NothingTyped, KeyFacts DEF Init, DeletionHolds, DeletedStaysDeleted, RegistersNew,
                                  Registers,
                                  Beats
  <1>2. RegistryTyped /\ DeletionHolds /\ OneRegistration /\ [Next]_vars => DeletionHolds'
    <2>1. DeletionHolds /\ UNCHANGED vars => DeletionHolds'
      BY DEF vars, DeletionHolds, DeletedStaysDeleted, RegistersNew, Registers, Beats
    <2> QED
      BY <2>1, DeletionSteps
  <1>3. DeletionHolds => DeletedStaysDeleted
    BY DEF DeletionHolds
  <1> QED
    BY <1>1, <1>2, <1>3, RegistryInvariant, PTL DEF Spec

(***************************************************************************)
(* A late heartbeat is turned away.                                        *)
(***************************************************************************)

LEMMA IsolationOnce == switches \in Nat /\ switches <= 1 => (Isolation <=> switches = 1)
  BY DEF Isolation

LEMMA LateBeatSteps ==
    ASSUME RegistryTyped, LateKept, NEW g \in Heartbeats, BeatMoves(g), switches' <= 1
    PROVE  LateKept'
  <1>1. PICK b \in Beat : /\ beats'[g] = b
                          /\ \A h \in Heartbeats \ {g} : beats'[h] = beats[h]
                          /\ Looks(g, b) \/ EndsWith(g, b)
    BY DEF BeatMoves
  <1>2. switches' = switches /\ tombstones' = tombstones /\ switches \in Nat
    BY <1>1 DEF Looks, EndsWith, RegistryTyped
  <1>3. \A h \in Heartbeats : LateMeets(h)
    BY <1>2 DEF LateKept
  <1>4. beats[g] \in Beat /\ BeatShaped(g)
    BY RegistryTypes
  <1>5. CASE Looks(g, b)
    <2>1. UNCHANGED peers
      BY <1>5 DEF Looks
    <2>2. CASE /\ Beats(g, "idle") /\ b.machine \in Machines
               /\ Isolation => ~LegacyTombstone(b.machine) /\ b.op = "resolve"
               /\ ~Isolation => b.op = "find" /\ b.key = b.machine[1]
               /\ b.late = Deleted(b.machine)
      <3> DEFINE m == b.machine
      <3>1. CASE switches = 1
        <4>1. b.op = "resolve" /\ ~LegacyTombstone(m)
          BY <1>2, <2>2, <3>1, IsolationOnce
        <4>2. LateMeets(g)'
          BY <1>1, <1>2, <2>2, <4>1 DEF LateMeets, Deleted
        <4> QED
          BY <1>1, <1>2, <1>3, <2>1, <3>1, <4>2 DEF LateKept, LateMeets
      <3>2. CASE switches = 0
        <4>1. NeverIsolated
          BY <3>2 DEF LateKept
        <4>2. b.op = "find" /\ b.key = m[1] /\ m[1] \in Uuids
          BY <1>2, <2>2, <3>2, IsolationOnce, KeyFacts
        <4>3. LateMeets(g)'
          BY <1>1, <1>2, <2>2, <4>1, <4>2 DEF LateMeets, Deleted, LegacyTombstone, NeverIsolated
        <4>4. NeverIsolated'
          BY <1>1, <1>2, <2>1, <4>1, <4>2 DEF NeverIsolated, Beats
        <4> QED
          BY <1>1, <1>2, <1>3, <2>1, <4>3, <4>4 DEF LateKept, LateMeets
      <3> QED
        BY <1>2, <3>1, <3>2
    <2>3. CASE ~Beats(g, "idle")
      <3>1. /\ b.machine = beats[g].machine /\ b.late = beats[g].late /\ b.op # "idle"
            /\ b.op \in {"tombstone", "save"} => b.key = beats[g].key
        BY <1>4, <1>5, <2>3 DEF Looks, Beat, Beats
      <3>2. LateMeets(g)'
        <4>1. CASE b.op = "legacy"
          BY <1>1, <1>2, <1>3, <1>4, <1>5, <2>3, <3>1, <4>1 DEF LateMeets, Looks, Beats, Beat
        <4>2. CASE b.op = "find"
          BY <1>1, <1>2, <1>3, <1>4, <1>5, <2>1, <2>3, <3>1, <4>2
             DEF LateMeets, Looks, Beats, Beat
        <4>3. CASE b.op = "tombstone"
          BY <1>1, <1>2, <1>3, <1>4, <1>5, <2>3, <3>1, <4>3 DEF LateMeets, Looks, Beats, Beat
        <4>4. CASE b.op = "save"
          BY <1>1, <1>2, <1>3, <1>4, <1>5, <2>3, <3>1, <4>4 DEF LateMeets, Looks, Beats, Beat
        <4>5. b.op \in {"legacy", "find", "tombstone", "save"}
          BY <1>4, <1>5, <2>3 DEF Looks, Beats, Beat
        <4> QED
          BY <4>1, <4>2, <4>3, <4>4, <4>5
      <3>3. NeverIsolated => NeverIsolated'
        <4> SUFFICES ASSUME NeverIsolated PROVE NeverIsolated'
          OBVIOUS
        <4>1. b.op \in {"tombstone", "save"} /\ b.key \in Uuids
          BY <1>4, <1>5, <2>3 DEF Looks, NeverIsolated, Beats, Beat
        <4> QED
          BY <1>1, <1>2, <2>1, <4>1 DEF NeverIsolated, Beats
      <3> QED
        BY <1>1, <1>2, <1>3, <2>1, <3>2, <3>3 DEF LateKept, LateMeets
    <2> QED
      BY <1>5, <2>2, <2>3 DEF Looks, Beats
  <1>6. CASE EndsWith(g, b)
    <2>1. b = NoBeat
      BY <1>6 DEF EndsWith
    <2>2. \A k \in Keys :
             peers'[k].here <=> (peers[k].here \/ (Beats(g, "save") /\ beats[g].key = k))
      BY <1>6 DEF EndsWith
    <2>3. NeverIsolated => NeverIsolated'
      <3> SUFFICES ASSUME NeverIsolated PROVE NeverIsolated'
        OBVIOUS
      <3>1. Beats(g, "save") => beats[g].key \in Uuids
        BY DEF NeverIsolated, Beats
      <3>2. \A m \in Machines : ~peers'[Isolated(m)].here
        BY <2>2, <3>1, KeyFacts DEF NeverIsolated
      <3> QED
        BY <1>1, <1>2, <2>1, <3>2, NothingTyped DEF NeverIsolated, Beats
    <2>4. LateMeets(g)'
      BY <1>1, <2>1, NothingTyped DEF LateMeets
    <2>5. ASSUME NEW h \in Heartbeats \ {g} PROVE LateMeets(h)'
      <3>1. beats[h].op = "find" => beats[h].key \in Keys
        BY RegistryTypes, KeyFacts DEF BeatShaped
      <3> QED
        BY <1>1, <1>2, <1>3, <2>2, <3>1 DEF LateMeets
    <2> QED
      BY <1>2, <2>3, <2>4, <2>5 DEF LateKept
  <1> QED
    BY <1>1, <1>5, <1>6

LEMMA LateAges ==
    ASSUME RegistryTyped, LateKept, Ages, switches' <= 1
    PROVE  LateKept'
  <1>1. /\ switches \in Nat /\ switches' \in Nat /\ switches <= switches'
        /\ \A h \in Heartbeats : BeatRests(h) /\ BeatShaped(h)
        /\ \A k \in Keys : Buried(k)
    BY RegistryTypes DEF Ages, RegistryTyped
  <1>2. switches' = 0 => NeverIsolated'
    <2> SUFFICES ASSUME switches' = 0 PROVE NeverIsolated'
      OBVIOUS
    <2>1. NeverIsolated
      BY <1>1 DEF LateKept
    <2>2. \A m \in Machines : ~peers'[Isolated(m)].here /\ ~tombstones'[Isolated(m)].here
      BY <1>1, <2>1, KeyFacts DEF NeverIsolated, Buried
    <2>3. ASSUME NEW h \in Heartbeats
          PROVE  /\ ~Beats(h, "resolve")' /\ ~Beats(h, "legacy")'
                 /\ ~Beats(h, "idle")' => beats'[h].key \in Uuids
      <3>1. BeatRests(h)
        BY <1>1
      <3> QED
        BY <2>1, <3>1, NothingTyped DEF NeverIsolated, BeatRests, Beats
    <2> QED
      BY <2>2, <2>3 DEF NeverIsolated
  <1>3. ASSUME NEW h \in Heartbeats PROVE LateMeets(h)'
    <2>1. BeatRests(h) /\ BeatShaped(h) /\ LateMeets(h)
      BY <1>1 DEF LateKept
    <2>2. CASE beats'[h] = NoBeat
      BY <2>2, NothingTyped DEF LateMeets
    <2>3. CASE /\ beats'[h].op = beats[h].op /\ beats'[h].machine = beats[h].machine
               /\ beats'[h].key = beats[h].key
               /\ beats'[h].late => beats[h].late
      <3> SUFFICES ASSUME beats'[h].late PROVE LateMeets(h)'
        BY DEF LateMeets
      <3> DEFINE m == beats[h].machine
                 k == beats[h].key
      <3>1. beats[h].late /\ beats[h].op # "save" /\ beats[h].op # "idle"
        BY <2>1, <2>3 DEF LateMeets, BeatShaped
      <3>2. m \in Machines /\ Isolated(m) \in Keys
        BY <2>1, <3>1, KeyFacts DEF BeatShaped
      <3>3. tombstones[Isolated(m)].here => tombstones'[Isolated(m)].here
        BY <1>1, <2>3, <3>2 DEF Buried
      <3>4. CASE beats[h].op \in {"resolve", "legacy"}
        BY <2>1, <2>3, <3>1, <3>3, <3>4 DEF LateMeets
      <3>5. CASE beats[h].op \in {"find", "tombstone"}
        <4>1. k \in {m[1], Isolated(m)} /\ k \in Keys
          BY <2>1, <3>2, <3>5, KeyFacts DEF BeatShaped
        <4>2. tombstones[k].here => tombstones'[k].here
          BY <1>1, <2>3, <4>1 DEF Buried
        <4>3. peers[k].here => peers'[k].here \/ tombstones'[k].here
          BY <1>1, <4>1 DEF Buried
        <4> QED
          BY <2>1, <2>3, <3>1, <3>5, <4>2, <4>3 DEF LateMeets
      <3> QED
        BY <2>3, <3>1, <3>4, <3>5 DEF LateMeets
    <2> QED
      BY <2>1, <2>2, <2>3 DEF BeatRests
  <1> QED
    BY <1>2, <1>3 DEF LateKept

\* handleHeartbeat and the deletion next to it: a heartbeat that comes after its
\* machine was deleted saves no row, under the old key or the isolated one, for
\* any number of heartbeats and requests, until clone isolation, once on, has
\* been switched off again.
THEOREM LateTurnedAway == Spec => [](switches <= 1 => LateHeartbeatTurnedAway)
  <1>1. Init => LateKept
    <2> SUFFICES ASSUME Init PROVE LateKept
      OBVIOUS
    <2>1. \A h \in Heartbeats : beats[h] = NoBeat
      BY DEF Init
    <2>2. \A k \in Keys : ~peers[k].here /\ ~tombstones[k].here
      BY NothingTyped DEF Init
    <2> QED
      BY <2>1, <2>2, NothingTyped, KeyFacts DEF LateKept, NeverIsolated, LateMeets, Beats
  <1>2. RegistryTyped /\ LateKept /\ [Next]_vars => LateKept'
    <2> SUFFICES ASSUME RegistryTyped, LateKept, [Next]_vars PROVE LateKept'
      OBVIOUS
    <2>1. CASE UNCHANGED vars
      BY <2>1 DEF vars, LateKept, NeverIsolated, LateMeets, Beats
    <2>2. CASE Next /\ switches' <= 1
      BY <2>2, RegistrySteps, LateBeatSteps, LateAges
    <2>3. CASE Next /\ ~(switches' <= 1)
      <3>1. switches' \in Nat
        BY <2>3, RegistrySteps DEF RegistryTyped
      <3>2. switches' # 0
        BY <2>3, <3>1
      <3> QED
        BY <2>3, <3>2 DEF LateKept
    <2> QED
      BY <2>1, <2>2, <2>3
  <1>3. LateKept => (switches <= 1 => LateHeartbeatTurnedAway)
    BY DEF LateKept, LateMeets, LateHeartbeatTurnedAway, Beats
  <1> QED
    BY <1>1, <1>2, <1>3, RegistryInvariant, PTL DEF Spec

(***************************************************************************)
(* What a deletion did at hbbs, and what a restore does there.             *)
(***************************************************************************)

\* A step of one request leaves another on its course: it works on another row
\* and another id.
LEMMA OthersApart ==
    ASSUME RegistryTyped, RequestsApart, NEW a \in Admins, AdminMoves(a), NEW b \in Admins \ {a}
    PROVE  /\ ReleaseOpen(b) => ReleaseOpen(b)'
           /\ RestoreCurrent(b) => RestoreCurrent(b)'
  <1>1. admins'[b] = admins[b] /\ AdminShaped(b)
    BY RegistryTypes DEF AdminMoves
  <1>2. CASE Runs(a, "idle")
    BY <1>1, <1>2 DEF AdminMoves, ReleaseOpen, RestoreCurrent
  <1>3. CASE admins[b].op = "idle"
    BY <1>1, <1>3 DEF ReleaseOpen, RestoreCurrent
  <1>4. CASE ~Runs(a, "idle") /\ admins[b].op # "idle"
    <2>1. admins[a].key # admins[b].key /\ admins[a].id # admins[b].id
      BY <1>4 DEF RequestsApart, Runs
    <2>2. tombstones'[admins[b].key] = tombstones[admins[b].key]
      BY <1>1, <1>4, <2>1 DEF AdminMoves, AdminShaped
    <2>3. admins[b].id \in bans' => admins[b].id \in bans
      BY <2>1 DEF AdminMoves
    <2> QED
      BY <1>1, <2>2, <2>3 DEF ReleaseOpen, RestoreCurrent
  <1> QED
    BY <1>2, <1>3, <1>4

RequestsOpen == \A a \in Admins : ReleaseOpen(a)
RestoresCurrent == \A a \in Admins : RestoreCurrent(a)

\* The steps between the requests change neither the tombstones nor the bans.
LEMMA BetweenRequests ==
    ASSUME UNCHANGED <<tombstones, bans>>,
           admins' = admins \/ \A a \in Admins : admins'[a] = NoAdmin
    PROVE  /\ RequestsOpen => RequestsOpen'
           /\ RestoresCurrent => RestoresCurrent'
  <1>1. NoAdmin.op = "idle"
    BY NothingTyped
  <1> QED
    BY <1>1 DEF RequestsOpen, RestoresCurrent, ReleaseOpen, RestoreCurrent

LEMMA RequestSteps ==
    ASSUME RegistryTyped, RequestsApart, Next
    PROVE  /\ DeletedStaysDeleted /\ RequestsOpen => RequestsOpen'
           /\ RestoresCurrent => RestoresCurrent'
  <1>1. ASSUME NEW a \in Admins, AdminStep(a)
        PROVE  /\ DeletedStaysDeleted /\ RequestsOpen => RequestsOpen'
               /\ RestoresCurrent => RestoresCurrent'
    <2>1. /\ AdminMoves(a)
          /\ DeletedStaysDeleted /\ ReleaseOpen(a) => ReleaseOpen(a)'
          /\ RestoreCurrent(a) => RestoreCurrent(a)'
      BY <1>1, AdminSteps
    <2>2. \A b \in Admins \ {a} : /\ ReleaseOpen(b) => ReleaseOpen(b)'
                                  /\ RestoreCurrent(b) => RestoreCurrent(b)'
      BY <2>1, OthersApart
    <2> QED
      BY <2>1, <2>2 DEF RequestsOpen, RestoresCurrent
  <1>2. CASE UNCHANGED <<tombstones, bans>>
             /\ (admins' = admins \/ \A a \in Admins : admins'[a] = NoAdmin)
    BY <1>2, BetweenRequests
  <1> QED
    BY <1>1, <1>2, RegistrySteps

\* A release is only sent for a tombstone that does not record one.
LEMMA ReleaseSteps ==
    ASSUME RegistryTyped, RequestsOpen, Next, NEW k \in Keys,
           tombstones[k].here, tombstones[k].idReleased
    PROVE  freed'[k] <= freed[k]
  <1>1. freed[k] <= freed[k]
    BY DEF RegistryTyped, MaxFreed
  <1>2. ASSUME NEW a \in Admins, AdminStep(a) PROVE freed'[k] <= freed[k]
    <2>1. \/ freed'[k] <= freed[k]
          \/ k = admins[a].key /\ (Runs(a, "release") \/ Runs(a, "retry"))
      BY <1>2, AdminSteps
    <2>2. AdminShaped(a) /\ ReleaseOpen(a)
      BY RegistryTypes DEF RequestsOpen
    <2> QED
      BY <2>1, <2>2 DEF AdminShaped, ReleaseOpen, Runs
  <1>3. CASE UNCHANGED freed
    BY <1>1, <1>3
  <1> QED
    BY <1>2, <1>3, RegistrySteps

\* deleteDevice and restoreTombstone: hbbs is never asked again to release an id
\* whose release the tombstone records, for any number of requests at the same
\* time, as long as they work on different rows and ids.
THEOREM ReleasedOnce ==
    Spec /\ []OneRegistration /\ []RequestsApart => RecordedReleaseNotRepeated
  <1>1. Init => RequestsOpen
    BY NothingTyped DEF Init, RequestsOpen, ReleaseOpen
  <1>2. RegistryTyped /\ RequestsApart /\ DeletedStaysDeleted /\ RequestsOpen /\ [Next]_vars
            => RequestsOpen'
    <2>1. RequestsOpen /\ UNCHANGED vars => RequestsOpen'
      BY DEF vars, RequestsOpen, ReleaseOpen
    <2> QED
      BY <2>1, RequestSteps
  <1>3. RegistryTyped /\ RequestsOpen /\ [Next]_vars =>
            [\A k \in Keys : tombstones[k].here /\ tombstones[k].idReleased
                                => freed'[k] <= freed[k]]_vars
    BY ReleaseSteps
  <1> QED
    BY <1>1, <1>2, <1>3, RegistryInvariant, DeletedForGood, PTL DEF Spec,
                                                                    RecordedReleaseNotRepeated

\* A tombstone goes only with the restore that lifted its ban.
LEMMA RemovalSteps ==
    ASSUME RegistryTyped, RestoresCurrent, Next, NEW k \in Keys,
           tombstones[k].banned, ~tombstones'[k].here
    PROVE  tombstones[k].id \notin bans'
  <1>1. tombstones[k].here
    BY NothingTyped DEF RegistryTyped
  <1>2. PICK a \in Admins : AdminStep(a)
    BY <1>1, RegistrySteps
  <1>3. Runs(a, "remove") /\ k = admins[a].key /\ UNCHANGED bans
    BY <1>1, <1>2, AdminSteps
  <1>4. RestoreCurrent(a)
    BY DEF RestoresCurrent
  <1> QED
    BY <1>3, <1>4 DEF RestoreCurrent, Runs

\* restoreTombstone: a tombstone that records a ban goes only when hbbs no longer
\* refuses its id, for any number of requests at the same time, as long as they
\* work on different rows and ids.
THEOREM BansLifted == Spec /\ []RequestsApart => RestoreLiftsBan
  <1>1. Init => RestoresCurrent
    BY NothingTyped DEF Init, RestoresCurrent, RestoreCurrent
  <1>2. RegistryTyped /\ RequestsApart /\ RestoresCurrent /\ [Next]_vars => RestoresCurrent'
    <2>1. RestoresCurrent /\ UNCHANGED vars => RestoresCurrent'
      BY DEF vars, RestoresCurrent, RestoreCurrent
    <2> QED
      BY <2>1, RequestSteps
  <1>3. RegistryTyped /\ RestoresCurrent /\ [Next]_vars =>
            [\A k \in Keys : tombstones[k].banned /\ ~tombstones'[k].here
                                => tombstones[k].id \notin bans']_vars
    BY RemovalSteps
  <1> QED
    BY <1>1, <1>2, <1>3, RegistryInvariant, PTL DEF Spec, RestoreLiftsBan

=============================================================================
