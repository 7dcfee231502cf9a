SPECIFICATION Spec
CONSTANTS
    Users = {u1}
    Tokens = {t1}
    Guids = {g1, g2}
    Channels = {c1, c2, c3}
    Relays = {r1, r2}
    MaxSessions = 2
    MaxPerUser = 2
    MaxTimeouts = 0
    MaxProfile = 0
SYMMETRY Symmetry
CHECK_DEADLOCK FALSE
INVARIANT FileWithinDesktop
INVARIANT ForwardsForLive
INVARIANT ActiveHasRelay
