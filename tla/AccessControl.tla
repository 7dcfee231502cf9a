---------------------------- MODULE AccessControl ----------------------------
(***************************************************************************)
(* Roles and permissions of the console.  The owner defines roles; a role  *)
(* is assigned to a user everywhere or for some device groups.  A user who *)
(* may assign roles can pass on what he holds himself.  A transaction      *)
(* reads, decides and then writes; neither of the two databases keeps what *)
(* others write in between from it (SQLite: one connection for all, MySQL: *)
(* repeatable reads without locks).                                        *)
(***************************************************************************)
EXTENDS Naturals

CONSTANTS Owner, Users, Roles, DeviceGroups, Requests, None, Everywhere,
          Codes,         \* the assignable permissions of the catalog
          Scoped,        \* those that can be held for a device group
          Requires,      \* what a permission needs beside it in its role
          Assign,        \* roles.assign
          Manage,        \* users.status and users.delete
          AssignStrategies,   \* strategies.assign
          RoleRows,      \* what the owner may make of each role
          Damaged,       \* sets of permissions found in rows of an older version
          Scenarios      \* sets of operations; a behaviour uses those of one

ASSUME CatalogAssumption ==
    /\ Scoped \subseteq Codes /\ {Assign, Manage} \subseteq Codes \ Scoped
    /\ AssignStrategies \in Scoped
    /\ Requires \in [Codes -> SUBSET Codes]
    /\ RoleRows \in [Roles -> SUBSET [here: {TRUE}, codes: SUBSET Codes, protected: BOOLEAN]]
    /\ Damaged \subseteq SUBSET Codes
    /\ Owner \notin Users /\ Everywhere \notin DeviceGroups

VARIABLES scenario,
          accounts,   \* the users table: "active", "disabled" or "gone"
          roles,      \* the roles and role_permissions tables
          groups,     \* the device_groups table
          assigned,   \* user_role_assignments and their device groups
          requests,   \* replacements of roles and changes of users in flight
          update      \* the owner's update of a role in flight

vars == <<scenario, accounts, roles, groups, assigned, requests, update>>

(* A scope is {} (not assigned), {Everywhere} or a set of device groups. *)
Scopes == (SUBSET DeviceGroups) \cup {{Everywhere}}
Role == [here: BOOLEAN, codes: SUBSET Codes, protected: BOOLEAN]
NoRole == [here |-> FALSE, codes |-> {}, protected |-> FALSE]

Existing == {r \in Roles : roles[r].here}
RolesOf(u) == {r \in Roles : assigned[u][r] # {}}
Wanted(W) == {r \in Roles : W[r] # {}}
People == Users \cup {Owner}
Active(u) == accounts[u] = "active"
Exists(u) == accounts[u] # "gone"

-----------------------------------------------------------------------------
(* filterEffectivePermissionCodes. *)
Filtered(codes) == {c \in codes : Requires[c] \subseteq codes}
Effective(r) == Filtered(roles[r].codes)
OnlyScoped(r) == Effective(r) # {} /\ Effective(r) \subseteq Scoped

Widest(scope) == IF Everywhere \in scope THEN {Everywhere} ELSE scope

(* Mutant: a scoped assignment grants whatever its role holds. *)
MatchesAny(u, r, c) == c \in Effective(r)

(* The assignments that grant a permission. *)
Matches(u, r, c) ==
    c \in Effective(r) /\ (assigned[u][r] = {Everywhere} \/ c \in Scoped)

(* computePermissionScope: where a user holds a permission. *)
PermissionScope(u, c) ==
    IF u = Owner THEN {Everywhere}
    ELSE Widest(UNION {assigned[u][r] : r \in {q \in RolesOf(u) : Matches(u, q, c)}})

Held(u) == [c \in Codes |-> PermissionScope(u, c)]

(* getEffectivePermissions: all that a user holds, as the console shows it. *)
EffectivePermissions(u) ==
    LET granted == {pair \in Codes \X (DeviceGroups \cup {Everywhere}) :
                        \E r \in RolesOf(u) :
                            /\ pair[1] \in Effective(r) /\ pair[2] \in assigned[u][r]
                            /\ ~(pair[2] # Everywhere /\ pair[1] \notin Scoped)}
    IN [c \in {pair[1] : pair \in granted} |->
            Widest({pair[2] : pair \in {q \in granted : q[1] = c}})]

(* loadAssignments and effectiveScopes: the same on the page of a user. *)
EffectiveScope(u, c) ==
    LET holding == {r \in RolesOf(u) :
                        c \in (IF assigned[u][r] = {Everywhere} THEN Effective(r)
                               ELSE Effective(r) \cap Scoped)}
    IN IF \E r \in holding : assigned[u][r] = {Everywhere} THEN {Everywhere}
       ELSE UNION {assigned[u][r] : r \in holding}

(* requirePermission and requireSuperAdmin. *)
MayUse(u, c) == Active(u) /\ PermissionScope(u, c) # {}

(* computeIsProtectedUser. *)
Protected(u) == u = Owner \/ (\E r \in RolesOf(u) : roles[r].protected)

(* assertDeviceAccess, assertDevicesAccess and, for devices and device      *)
(* groups, assertStrategyTargets: devices are given by their device groups, *)
(* None for a device in no group.                                           *)
MayActOn(a, c, G) ==
    /\ MayUse(a, c)
    /\ PermissionScope(a, c) = {Everywhere} \/ G \subseteq PermissionScope(a, c)

(* assertStrategyTargets for users. *)
MayAssignToUsers(a, T) ==
    /\ MayUse(a, AssignStrategies) /\ PermissionScope(a, AssignStrategies) = {Everywhere}
    /\ \A t \in T : Exists(t)
    /\ (\E t \in T : Protected(t)) => a = Owner

(* getStrategyTargetCandidates: the devices, by their groups, and the       *)
(* users the console lists; protected users are marked.                     *)
DeviceTargets(a) ==
    {g \in groups \cup {None} : Everywhere \in PermissionScope(a, AssignStrategies)
                                    \/ g \in PermissionScope(a, AssignStrategies)}
UserTargets(a) ==
    {<<t, Protected(t)>> : t \in {u \in People : MayAssignToUsers(a, {}) /\ Exists(u)
                                                    /\ (u = Owner => a = Owner)}}

-----------------------------------------------------------------------------
(* getRoleEligibility: what the console offers an actor for a target. *)
Locked(r) == roles[r].protected \/ Assign \in Effective(r)

GlobalAllowed(a, r) ==
    a = Owner \/ (Effective(r) # {} /\ (\A c \in Effective(r) :
                        PermissionScope(a, c) = {Everywhere}))

(* Mutant: a group is offered when one permission is held for it. *)
AllowedAnyGroup(a, r) ==
    IF ~OnlyScoped(r) THEN {}
    ELSE {g \in groups : \E c \in Effective(r) : a = Owner
                            \/ PermissionScope(a, c) \cap {g, Everywhere} # {}}

(* The device groups for which the actor holds all the role's permissions. *)
AllowedGroups(a, r) ==
    IF ~OnlyScoped(r) THEN {}
    ELSE {g \in groups : \A c \in Effective(r) : a = Owner
                            \/ PermissionScope(a, c) \in {{}, {Everywhere}}
                            \/ g \in PermissionScope(a, c)}

CanAssign(a, t, r) ==
    /\ t # Owner
    /\ a # Owner =>
          /\ a # t /\ ~Protected(t) /\ ~Locked(r)
          /\ \A c \in Effective(r) :
                LET scope == PermissionScope(a, c)
                IN scope # {} /\ (Everywhere \in scope \/ c \in Scoped)
    /\ GlobalAllowed(a, r) \/ AllowedGroups(a, r) # {}

Offered(a, t, r) ==
    IF ~CanAssign(a, t, r) THEN {}
    ELSE (IF GlobalAllowed(a, r) THEN {{Everywhere}} ELSE {})
            \cup ((SUBSET AllowedGroups(a, r)) \ {{}})

-----------------------------------------------------------------------------
(* The parts of replaceUserRoles that it checks twice, the second time     *)
(* inside the transaction.                                                 *)
RolesFit(W) ==
    \A r \in Wanted(W) : roles[r].here /\ (W[r] \subseteq DeviceGroups => OnlyScoped(r))
GroupsFit(W) == \A r \in Wanted(W) : W[r] \ {Everywhere} \subseteq groups
MayReplace(a, t) ==
    /\ MayUse(a, Assign) /\ Exists(t) /\ t # Owner
    /\ a # Owner => a # t /\ ~Protected(t)
WithinScope(a, W) ==
    \A r \in Wanted(W) : \A c \in Effective(r) :
        LET scope == PermissionScope(a, c)
        IN scope = {Everywhere} \/ (scope # {} /\ W[r] \subseteq scope)

(* Before the transaction. *)
PreChecks(a, t, W) ==
    /\ MayReplace(a, t) /\ RolesFit(W) /\ GroupsFit(W)
    /\ a # Owner =>
          /\ \A r \in RolesOf(t) : CanAssign(a, t, r) \/ r \in Wanted(W)
          /\ \A r \in Wanted(W) : CanAssign(a, t, r) \/ r \in RolesOf(t)
          /\ WithinScope(a, W)

(* Mutant: what the actor holds is not looked up again. *)
DecidesUnbounded(a, t, W) ==
    /\ MayReplace(a, t) /\ RolesFit(W) /\ GroupsFit(W)
    /\ a # Owner => (\A r \in Wanted(W) : ~Locked(r)) /\ (\A r \in RolesOf(t) :
                        r \in Wanted(W) \/ ~Locked(r))

(* In the transaction. *)
Decides(a, t, W) ==
    /\ MayReplace(a, t) /\ RolesFit(W) /\ GroupsFit(W)
    /\ a # Owner =>
          /\ \A r \in Wanted(W) : ~Locked(r)
          /\ \A r \in RolesOf(t) : r \in Wanted(W) \/ ~Locked(r)
          /\ WithinScope(a, W)

-----------------------------------------------------------------------------
(* held and seen remember, for the properties, what the actor held and     *)
(* what the roles contained when the transaction decided.                  *)
Request == [op: {"idle", "checked", "decided", "status", "delete"},
            actor: Users \cup {Owner, None}, target: Users \cup {None},
            wanted: [Roles -> Scopes],
            held: [Codes -> Scopes], seen: [Roles -> SUBSET Codes]]
NoRequest == [op |-> "idle", actor |-> None, target |-> None,
              wanted |-> [r \in Roles |-> {}],
              held |-> [c \in Codes |-> {}], seen |-> [r \in Roles |-> {}]]

Goes(p, q) == requests' = [requests EXCEPT ![p] = q]
Ends(p) == Goes(p, NoRequest)
Idle(p) == requests[p].op = "idle"

(* replaceUserRoles up to its transaction. *)
CheckReplacement(p, a, t, W) ==
    /\ "roles" \in scenario /\ Idle(p) /\ PreChecks(a, t, W)
    /\ Goes(p, [NoRequest EXCEPT !.op = "checked", !.actor = a, !.target = t, !.wanted = W])
    /\ UNCHANGED <<scenario, accounts, roles, groups, assigned, update>>

DecideReplacement(p) ==
    LET q == requests[p]
    IN /\ q.op = "checked"
       /\ IF Decides(q.actor, q.target, q.wanted)
          THEN Goes(p, [q EXCEPT !.op = "decided",
                          !.held = Held(q.actor),
                          !.seen = [r \in Roles |-> Effective(r)]])
          ELSE Ends(p)
       /\ UNCHANGED <<scenario, accounts, roles, groups, assigned, update>>

(* All assignments of the user are replaced; a foreign key refuses when    *)
(* the user, a role or a device group is gone.                             *)
WriteReplacement(p) ==
    LET q == requests[p]
    IN /\ q.op = "decided"
       /\ assigned' = IF /\ Exists(q.target)
                         /\ Wanted(q.wanted) \subseteq Existing /\ GroupsFit(q.wanted)
                      THEN [assigned EXCEPT ![q.target] = q.wanted] ELSE assigned
       /\ Ends(p)
       /\ UNCHANGED <<scenario, accounts, roles, groups, update>>

(* validatePermissions. *)
Complete(codes) == codes \subseteq Codes /\ (\A c \in codes : Requires[c] \subseteq codes)

(* ensureScopedAssignmentsRemainValid. *)
AssignmentsFit(r, codes) ==
    \/ codes # {} /\ codes \subseteq Scoped
    \/ \A u \in Users : assigned[u][r] \in {{}, {Everywhere}}

(* createRole. *)
CreateRole(r, row) ==
    /\ "roles" \in scenario /\ ~roles[r].here /\ row \in RoleRows[r]
    /\ Complete(row.codes)
    /\ roles' = [roles EXCEPT ![r] = row]
    /\ UNCHANGED <<scenario, accounts, groups, assigned, requests, update>>

(* updateRole: new permissions must suit the assignments there are; then   *)
(* the rows are replaced.                                                  *)
CheckRole(r, row) ==
    /\ "redefine" \in scenario /\ update = None
    /\ roles[r].here /\ row \in RoleRows[r]
    /\ row.codes # roles[r].codes => Complete(row.codes) /\ AssignmentsFit(r, row.codes)
    /\ update' = [role |-> r, row |-> row]
    /\ UNCHANGED <<scenario, accounts, roles, groups, assigned, requests>>

WriteRole ==
    /\ update # None
    /\ roles' = [roles EXCEPT ![update.role] = update.row]
    /\ update' = None
    /\ UNCHANGED <<scenario, accounts, groups, assigned, requests>>

(* deleteRole takes its assignments with it. *)
DeleteRole(r) ==
    /\ "deleteRole" \in scenario /\ roles[r].here
    /\ roles' = [roles EXCEPT ![r] = NoRole]
    /\ assigned' = [u \in People |-> [assigned[u] EXCEPT ![r] = {}]]
    /\ UNCHANGED <<scenario, accounts, groups, requests, update>>

(* A device group that a role is assigned for is not deleted. *)
DeleteDeviceGroup(g) ==
    /\ "deleteRole" \in scenario /\ g \in groups
    /\ \A u \in Users, r \in Roles : g \notin assigned[u][r]
    /\ groups' = groups \ {g}
    /\ UNCHANGED <<scenario, accounts, roles, assigned, requests, update>>

(* updateUser, batchUpdateStatus and deleteUser: assertUserMutation in the *)
(* transaction, then the write.                                            *)
DecideUser(p, a, t, op) ==
    /\ "people" \in scenario /\ Idle(p) /\ MayUse(a, Manage) /\ accounts[t] # "gone"
    /\ Protected(t) => a = Owner
    /\ Goes(p, [NoRequest EXCEPT !.op = op, !.actor = a, !.target = t])
    /\ UNCHANGED <<scenario, accounts, roles, groups, assigned, update>>

WriteUser(p) ==
    LET q == requests[p]
        Toggled == [gone |-> "gone", active |-> "disabled", disabled |-> "active"]
    IN /\ \/ /\ q.op = "status"
             /\ accounts' = [accounts EXCEPT ![q.target] = Toggled[@]]
             /\ UNCHANGED assigned
          \/ /\ q.op = "delete"
             /\ accounts' = [accounts EXCEPT ![q.target] = "gone"]
             /\ assigned' = [assigned EXCEPT ![q.target] = [r \in Roles |-> {}]]
       /\ Ends(p)
       /\ UNCHANGED <<scenario, roles, groups, update>>

-----------------------------------------------------------------------------
Init ==
    /\ scenario \in Scenarios
    /\ accounts = [u \in People |-> "active"]
    /\ roles \in [Roles -> {NoRole} \cup
                    [here: {TRUE}, protected: {FALSE},
                     codes: IF "damaged" \in scenario THEN Damaged ELSE {}]]
    /\ groups = DeviceGroups
    /\ assigned = [u \in People |-> [r \in Roles |-> {}]]
    /\ requests = [p \in Requests |-> NoRequest]
    /\ update = None

Next ==
    \/ \E p \in Requests :
          \/ DecideReplacement(p) \/ WriteReplacement(p)
          \/ WriteUser(p)
          \/ \E a \in People, t \in Users :
                \/ \E W \in [Roles -> Scopes] : CheckReplacement(p, a, t, W)
                \/ \E op \in {"status", "delete"} : DecideUser(p, a, t, op)
    \/ WriteRole
    \/ \E r \in Roles :
          \/ DeleteRole(r)
          \/ \E row \in RoleRows[r] : CreateRole(r, row) \/ CheckRole(r, row)
    \/ \E g \in DeviceGroups : DeleteDeviceGroup(g)

Spec == Init /\ [][Next]_vars

-----------------------------------------------------------------------------
(* A delegate passes on nothing he did not hold when his request was       *)
(* decided, for no device group he did not hold it for, whatever was       *)
(* revoked since the console offered him the role; more than that a user   *)
(* gets only where the owner changed the role after the decision           *)
(* (replaceUserRoles: the checks repeated inside the transaction).         *)
DelegationBounded ==
    [][\A p \in Requests, t \in Users :
        LET q == requests[p]
        IN (q.op = "decided" /\ requests'[p] # q /\ q.actor # Owner /\ q.target = t) =>
            \A c \in Codes :
                LET gained == PermissionScope(t, c)' \ PermissionScope(t, c)
                IN \/ gained \subseteq q.held[c] \/ q.held[c] = {Everywhere}
                   \/ \E r \in Wanted(q.wanted) : c \in Effective(r) \ q.seen[r]]_vars

(* The places that compute where a user holds a permission agree, and so   *)
(* do the checks of a batch of devices with what the console shows; a      *)
(* permission that is no device permission is held everywhere or nowhere,  *)
(* also when a role was redefined between the check and the write of a     *)
(* scoped assignment and when rows of an older version lack what a         *)
(* permission requires.                                                    *)
ScopesAgree ==
    \A u \in Users :
        LET all == EffectivePermissions(u)
        IN \A c \in Codes :
            LET scope == PermissionScope(u, c)
            IN /\ scope = IF c \in DOMAIN all THEN all[c] ELSE {}
               /\ scope = EffectiveScope(u, c)
               /\ c \in Scoped => \A G \in {{g, h} : g, h \in groups \cup {None}} :
                     MayActOn(u, c, G) <=> /\ Active(u) /\ scope # {}
                                           /\ scope = {Everywhere} \/ G \subseteq all[c]
               /\ c \notin Scoped => scope \in {{}, {Everywhere}}

(* What the console offers to assign is accepted, and what is accepted has *)
(* been offered (getRoleEligibility and replaceUserRoles decide this by    *)
(* different code, and so do getStrategyTargetCandidates and               *)
(* assertStrategyTargets).                                                 *)
OffersAreAccepted ==
    /\ \A a \in People : MayUse(a, AssignStrategies) =>
          /\ {g \in groups \cup {None} : MayActOn(a, AssignStrategies, {g})} = DeviceTargets(a)
          /\ {t \in People : MayAssignToUsers(a, {t})} =
                {pair[1] : pair \in {q \in UserTargets(a) : a = Owner \/ ~q[2]}}
    /\ \A a \in People, t \in Users :
        MayUse(a, Assign) /\ Exists(t) /\ (\A q \in RolesOf(t) : CanAssign(a, t, q)) =>
            \A r \in Existing :
                LET Only(scope) == [q \in Roles |-> IF q = r THEN scope ELSE {}]
                    Accepted(W) == PreChecks(a, t, W) /\ Decides(a, t, W)
                IN Offered(a, t, r) = {scope \in Scopes \ {{}} : Accepted(Only(scope))}
=============================================================================
