SPECIFICATION PartsSpec
CONSTANTS
    Parts = {"registry", "heartbeats", "strategies", "connections", "files"}
    None = None
    Nothing = Nothing
    Removed = Removed
    Unknown = Unknown
    Uuids = {m1}
    Ids = {i1}
    Heartbeats = {h1}
    Admins = {a1}
    Operations = {"delete", "restore", "status"}
    MaxSwitches = 1
    MaxCrashes = 1
    Devices = {d1}
    Conns = {c1, c2}
    MaxReports = 3
    MaxDeletions = 1
    Owners = {o1}
    PeerGroups = {g1}
    MaxStrategies = 2
    Resolutions = {b1}
    MaxEdits = 1
    Links = {k1, k2}
    Nonces = {n1, n2}
    Reporters = {q1, q2}
    MaxRows = 2
    MaxRequests = 4
    MaxCleanups = 1
INVARIANT DeletedStaysDeleted
INVARIANT LateHeartbeatTurnedAway
INVARIANT LatestConnectionsShown
INVARIANT FieldsKept
INVARIANT MemoryFollowsRows
INVARIANT ReportsRecorded
PROPERTY RecordedReleaseNotRepeated
PROPERTY RestoreLiftsBan
CHECK_DEADLOCK FALSE
