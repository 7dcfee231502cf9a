SPECIFICATION Spec
CONSTANTS
    Uuids = {u1}
    Ids = {i1}
    Heartbeats = {h1, h2}
    Admins = {a1}
    Operations = {"delete"}
    MaxSwitches = 0
    MaxCrashes = 0
    None = None
INVARIANT DeletedStaysDeleted
