SPECIFICATION PartsSpec
CONSTANTS
    Users = {u1}
    Sessions = {s1}
    Tokens = {t1}
    Resets = {r1}
    Requests = {p1, p2}
    None = None
    Parts = {"requests"}
    Processes = {x1}
    MaxFailures = 0
    Nobody = Nobody
    Scenarios <- MCDisabling
PROPERTY DisabledNotServed
CHECK_DEADLOCK FALSE
