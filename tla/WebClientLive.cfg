SPECIFICATION FairSpec
CONSTANTS
    Users = {u1}
    Tokens = {t1}
    Guids = {g1, g2}
    Channels = {c1}
    Relays = {r1}
    MaxSessions = 2
    MaxPerUser = 1
    MaxTimeouts = 2
    MaxProfile = 1
INVARIANT WithinLimits
INVARIANT NoneFromBeforeTimeout
PROPERTY RevokedEnds
PROPERTY OverdueEnds
CHECK_DEADLOCK FALSE
