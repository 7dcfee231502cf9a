SPECIFICATION Spec
CONSTANTS
    Owner = Owner
    Users = {u1, u2}
    r1 = r1
    Roles = {r1, r2}
    DeviceGroups = {g1, g2}
    Requests = {p1}
    None = None
    Everywhere = Everywhere
    Codes <- MCCodes
    Scoped <- MCScoped
    Requires <- MCRequires
    Assign = "roles.assign"
    Manage = "users.status"
    AssignStrategies = "strategies.assign"
    RoleRows <- MCRoleRows
    Damaged <- MCDamaged
    Scenarios = {{"roles", "redefine"}, {"roles", "people"}, {"roles", "deleteRole", "damaged"}}
SYMMETRY Symmetry
INVARIANT ScopesAgree
INVARIANT OffersAreAccepted
PROPERTY DelegationBounded
CHECK_DEADLOCK FALSE
