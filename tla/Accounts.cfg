SPECIFICATION PartsSpec
CONSTANTS
    Users = {u1}
    Sessions = {s1, s2}
    Tokens = {t1, t2}
    Resets = {r1}
    Requests = {p1, p2}
    None = None
    Parts = {"requests", "startup"}
    Processes = {x1, x2}
    MaxFailures = 2
    Nobody = Nobody
    Scenarios <- MCScenarios
SYMMETRY Symmetry
INVARIANT UsedOnce
INVARIANT BoundSecretProven
INVARIANT StaysMigratable
INVARIANT ServesWhole
PROPERTY PasswordNotUndone
PROPERTY RevokedForGood
CHECK_DEADLOCK FALSE
