SPECIFICATION Spec
CONSTANTS
    Users = {u1, u2}
    Groups = {g1, g2}
    Default = g1
    Profiles = {b1}
    Personals = {b2, b3}
    Rules = {r1, r2}
    Requests = {p1, p2}
    Devices = {d1}
    Entries = {e1, e2}
    Tags = {t1, t2}
    Names = {n1, n2}
    None = None
    Everyone = Everyone
    SharedConnection = TRUE
    Scenarios = {{"alone", "create", "rules", "users"},
                 {"create", "update", "transfer", "delete"},
                 {"create", "addPeer", "deletePeers", "delete", n1},
                 {"create", "addPeer", "updatePeer", "tags", n1},
                 {"create", "preset", "tags", "delete", n1},
                 {"create", "tags", n1, n2},
                 {"alone", "personal", "addPeer", "tags", n1},
                 {"alone", "personal", "legacy", "tags", n1}, {"personal", "legacy", "updatePeer", n1},
                 {"alone", "personal", "legacy", "addPeer", n1}}
SYMMETRY Symmetry
INVARIANT ListAgreesWithCheck
INVARIANT LinksWithinBook
PROPERTY OthersUntouched
CHECK_DEADLOCK FALSE
