------------------------- MODULE AccessControlProofs -------------------------
(***************************************************************************)
(* Roles and permissions: the places that compute a permission agree, and  *)
(* nobody passes on more than he held.                                     *)
(***************************************************************************)
EXTENDS AccessControl, TLAPS

USE CatalogAssumption

AccessTyped ==
    /\ roles \in [Roles -> Role]
    /\ groups \subseteq DeviceGroups
    /\ assigned \in [People -> [Roles -> Scopes]]
    /\ requests \in [Requests -> Request]
    /\ update \in {None} \cup [role: Roles, row: Role]

\* A checked request is of a person, and its decision found him holding all that
\* the roles contained.
DecidedWithin(q) ==
    /\ q.op = "checked" => q.actor \in People
    /\ q.op = "decided" /\ q.actor # Owner =>
        \A r \in Wanted(q.wanted) : \A c \in q.seen[r] :
            q.held[c] = {Everywhere} \/ q.wanted[r] \subseteq q.held[c]

AccessIInv ==
    /\ AccessTyped
    /\ \A p \in Requests : DecidedWithin(requests[p])

(***************************************************************************)
(* Scopes.                                                                 *)
(***************************************************************************)

LEMMA ScopeShapes ==
    /\ {} \in Scopes /\ {Everywhere} \in Scopes
    /\ \A scope \in Scopes : Everywhere \in scope => scope = {Everywhere}
    /\ \A scope \in Scopes : scope # {Everywhere} => scope \subseteq DeviceGroups
  <1>1. \A scope \in Scopes : scope = {Everywhere} \/ scope \subseteq DeviceGroups
    BY DEF Scopes
  <1>2. {} \in Scopes /\ {Everywhere} \in Scopes
    BY DEF Scopes
  <1> QED
    BY <1>1, <1>2

\* The union of some scopes, as a scope.
LEMMA WidestIsScope ==
    ASSUME NEW S, \A scope \in S : scope \in Scopes
    PROVE  /\ Widest(UNION S) \in Scopes
           /\ Everywhere \in UNION S => Widest(UNION S) = {Everywhere}
           /\ Everywhere \notin UNION S => Widest(UNION S) = UNION S
  <1>1. CASE Everywhere \in UNION S
    BY <1>1, ScopeShapes DEF Widest
  <1>2. CASE Everywhere \notin UNION S
    <2>1. \A scope \in S : scope \subseteq DeviceGroups
      BY <1>2, ScopeShapes
    <2> QED
      BY <1>2, <2>1 DEF Widest, Scopes
  <1> QED
    BY <1>1, <1>2

\* The scopes of the assignments that grant a permission.
Granting(u, c) == {assigned[u][r] : r \in {q \in RolesOf(u) : Matches(u, q, c)}}

LEMMA GrantingTyped ==
    ASSUME AccessTyped, NEW u \in People, NEW c
    PROVE  /\ \A scope \in Granting(u, c) : scope \in Scopes /\ scope # {}
           /\ c \notin Scoped => \A scope \in Granting(u, c) : scope = {Everywhere}
  BY DEF Granting, RolesOf, Matches, AccessTyped

LEMMA ScopeOfUser ==
    ASSUME AccessTyped, NEW u \in Users, NEW c
    PROVE  /\ PermissionScope(u, c) = Widest(UNION Granting(u, c))
           /\ Everywhere \in UNION Granting(u, c) => PermissionScope(u, c) = {Everywhere}
           /\ Everywhere \notin UNION Granting(u, c) =>
                 PermissionScope(u, c) = UNION Granting(u, c)
  <1>1. u # Owner /\ u \in People
    BY DEF People
  <1>2. PermissionScope(u, c) = Widest(UNION Granting(u, c))
    BY <1>1 DEF PermissionScope, Granting
  <1> QED
    BY <1>1, <1>2, GrantingTyped, WidestIsScope

LEMMA ScopeTyped ==
    ASSUME AccessTyped, NEW u \in People, NEW c PROVE PermissionScope(u, c) \in Scopes
  <1>1. CASE u = Owner
    BY <1>1, ScopeShapes DEF PermissionScope
  <1>2. CASE u # Owner
    <2>1. PermissionScope(u, c) = Widest(UNION Granting(u, c))
      BY <1>2 DEF PermissionScope, Granting
    <2> QED
      BY <2>1, GrantingTyped, WidestIsScope
  <1> QED
    BY <1>1, <1>2

(***************************************************************************)
(* The places that compute where a permission is held.                     *)
(***************************************************************************)

\* getEffectivePermissions collects pairs of a permission and a place.
Granted(u) ==
    {pair \in Codes \X (DeviceGroups \cup {Everywhere}) :
        \E r \in RolesOf(u) :
            /\ pair[1] \in Effective(r) /\ pair[2] \in assigned[u][r]
            /\ ~(pair[2] # Everywhere /\ pair[1] \notin Scoped)}

LEMMA GrantedPairs ==
    ASSUME AccessTyped, NEW u \in Users, NEW c \in Codes
    PROVE  \A g : <<c, g>> \in Granted(u) <=> g \in UNION Granting(u, c)
  <1> SUFFICES ASSUME NEW g PROVE <<c, g>> \in Granted(u) <=> g \in UNION Granting(u, c)
    OBVIOUS
  <1>1. \A r \in Roles : assigned[u][r] \in Scopes
    BY DEF AccessTyped, People
  <1>2. <<c, g>> \in Granted(u) <=>
            /\ g \in DeviceGroups \cup {Everywhere}
            /\ \E r \in RolesOf(u) : /\ c \in Effective(r) /\ g \in assigned[u][r]
                                     /\ ~(g # Everywhere /\ c \notin Scoped)
    BY DEF Granted
  <1>3. g \in UNION Granting(u, c) <=>
            \E r \in RolesOf(u) : Matches(u, r, c) /\ g \in assigned[u][r]
    BY DEF Granting
  <1>4. ASSUME NEW r \in RolesOf(u), g \in assigned[u][r]
        PROVE  /\ g \in DeviceGroups \cup {Everywhere}
               /\ Matches(u, r, c) <=>
                    c \in Effective(r) /\ ~(g # Everywhere /\ c \notin Scoped)
    <2>1. assigned[u][r] \in Scopes
      BY <1>1 DEF RolesOf
    <2>2. g = Everywhere <=> assigned[u][r] = {Everywhere}
      BY <1>4, <2>1, ScopeShapes
    <2>3. g \in DeviceGroups \cup {Everywhere}
      BY <1>4, <2>1, ScopeShapes
    <2> QED
      BY <1>4, <2>2, <2>3 DEF Matches
  <1> QED
    BY <1>2, <1>3, <1>4

LEMMA EffectiveAgrees ==
    ASSUME AccessTyped, NEW u \in Users, NEW c \in Codes
    PROVE  LET all == EffectivePermissions(u)
           IN PermissionScope(u, c) = IF c \in DOMAIN all THEN all[c] ELSE {}
  <1> DEFINE G == Granted(u)
             all == EffectivePermissions(u)
  <1>1. all = [d \in {pair[1] : pair \in G} |-> Widest({pair[2] : pair \in {q \in G : q[1] = d}})]
    BY DEF EffectivePermissions, Granted
  <1>2. \A pair \in G : pair = <<pair[1], pair[2]>>
    BY DEF Granted
  <1> HIDE DEF G
  <1>3. \A g : <<c, g>> \in G <=> g \in UNION Granting(u, c)
    BY GrantedPairs DEF G
  <1>4. {pair[2] : pair \in {q \in G : q[1] = c}} = UNION Granting(u, c)
    <2>1. \A g : g \in {pair[2] : pair \in {q \in G : q[1] = c}} <=> <<c, g>> \in G
      BY <1>2
    <2> QED
      BY <1>3, <2>1
  <1>5. c \in DOMAIN all <=> UNION Granting(u, c) # {}
    <2>1. c \in DOMAIN all <=> \E pair \in G : pair[1] = c
      BY <1>1
    <2>2. (\E pair \in G : pair[1] = c) <=> \E g : <<c, g>> \in G
      BY <1>2
    <2> QED
      BY <1>3, <2>1, <2>2
  <1>6. CASE c \in DOMAIN all
    <2>1. all[c] = Widest(UNION Granting(u, c))
      BY <1>1, <1>4, <1>6
    <2> QED
      BY <1>6, <2>1, ScopeOfUser
  <1>7. CASE c \notin DOMAIN all
    BY <1>5, <1>7, ScopeOfUser
  <1> QED
    BY <1>6, <1>7

LEMMA PageAgrees ==
    ASSUME AccessTyped, NEW u \in Users, NEW c \in Codes
    PROVE  PermissionScope(u, c) = EffectiveScope(u, c)
  <1> DEFINE holding == {r \in RolesOf(u) :
                          c \in (IF assigned[u][r] = {Everywhere} THEN Effective(r)
                                 ELSE Effective(r) \cap Scoped)}
  <1>1. holding = {q \in RolesOf(u) : Matches(u, q, c)}
    BY DEF Matches
  <1>2. EffectiveScope(u, c) = IF \E r \in holding : assigned[u][r] = {Everywhere}
                               THEN {Everywhere} ELSE UNION Granting(u, c)
    BY <1>1 DEF EffectiveScope, Granting
  <1>3. (\E r \in holding : assigned[u][r] = {Everywhere}) <=> Everywhere \in UNION Granting(u, c)
    <2>1. u \in People
      BY DEF People
    <2>2. (\E r \in holding : assigned[u][r] = {Everywhere}) <=> {Everywhere} \in Granting(u, c)
      BY <1>1 DEF Granting
    <2>3. Everywhere \in UNION Granting(u, c) <=> {Everywhere} \in Granting(u, c)
      <3>1. \A scope \in Granting(u, c) : Everywhere \in scope => scope = {Everywhere}
        BY <2>1, GrantingTyped, ScopeShapes
      <3> DEFINE S == Granting(u, c)
      <3> HIDE DEF S
      <3>2. ASSUME Everywhere \in UNION S PROVE {Everywhere} \in S
        <4>1. PICK scope \in S : Everywhere \in scope
          BY <3>2
        <4>2. scope = {Everywhere}
          BY <3>1, <4>1 DEF S
        <4> QED
          BY <4>1, <4>2
      <3>3. ASSUME {Everywhere} \in S PROVE Everywhere \in UNION S
        BY <3>3
      <3> QED
        BY <3>2, <3>3 DEF S
    <2> QED
      BY <2>2, <2>3
  <1> QED
    BY <1>2, <1>3, ScopeOfUser

LEMMA TypedScopesAgree == AccessTyped => ScopesAgree
  <1> SUFFICES ASSUME AccessTyped, NEW u \in Users, NEW c \in Codes
               PROVE  LET all == EffectivePermissions(u)
                          scope == PermissionScope(u, c)
                      IN /\ scope = IF c \in DOMAIN all THEN all[c] ELSE {}
                         /\ scope = EffectiveScope(u, c)
                         /\ c \in Scoped => \A G \in {{g, h} : g, h \in groups \cup {None}} :
                               MayActOn(u, c, G) <=> /\ Active(u) /\ scope # {}
                                                     /\ scope = {Everywhere} \/ G \subseteq all[c]
                         /\ c \notin Scoped => scope \in {{}, {Everywhere}}
    BY DEF ScopesAgree
  <1> DEFINE all == EffectivePermissions(u)
             scope == PermissionScope(u, c)
  <1>1. scope = IF c \in DOMAIN all THEN all[c] ELSE {}
    BY EffectiveAgrees
  <1>2. scope = EffectiveScope(u, c)
    BY PageAgrees
  <1>3. ASSUME NEW G
        PROVE  MayActOn(u, c, G) <=> /\ Active(u) /\ scope # {}
                                     /\ scope = {Everywhere} \/ G \subseteq all[c]
    BY <1>1 DEF MayActOn, MayUse
  <1>4. c \notin Scoped => scope \in {{}, {Everywhere}}
    BY ScopeOfUser, GrantingTyped DEF People
  <1> QED
    BY <1>1, <1>2, <1>3, <1>4

(***************************************************************************)
(* What the console offers.                                                *)
(***************************************************************************)

LEMMA TargetsAgree ==
    ASSUME AccessTyped, NEW a \in People, MayUse(a, AssignStrategies)
    PROVE  /\ {g \in groups \cup {None} : MayActOn(a, AssignStrategies, {g})} = DeviceTargets(a)
           /\ {t \in People : MayAssignToUsers(a, {t})} =
                {pair[1] : pair \in {q \in UserTargets(a) : a = Owner \/ ~q[2]}}
  <1> DEFINE scope == PermissionScope(a, AssignStrategies)
  <1>1. Everywhere \in scope <=> scope = {Everywhere}
    BY ScopeTyped, ScopeShapes
  <1>2. {g \in groups \cup {None} : MayActOn(a, AssignStrategies, {g})} = DeviceTargets(a)
    BY <1>1 DEF MayActOn, DeviceTargets
  <1>3. \A t \in People : MayAssignToUsers(a, {t}) <=>
            /\ MayAssignToUsers(a, {}) /\ Exists(t) /\ (t = Owner => a = Owner)
            /\ a = Owner \/ ~Protected(t)
    BY DEF MayAssignToUsers, Protected
  <1>4. \A t : t \in {pair[1] : pair \in {q \in UserTargets(a) : a = Owner \/ ~q[2]}} <=>
            /\ t \in People /\ MayAssignToUsers(a, {}) /\ Exists(t) /\ (t = Owner => a = Owner)
            /\ a = Owner \/ ~Protected(t)
    <2> DEFINE A == {u \in People : MayAssignToUsers(a, {}) /\ Exists(u) /\ (u = Owner => a = Owner)}
               F == {q \in UserTargets(a) : a = Owner \/ ~q[2]}
    <2>1. UserTargets(a) = {<<t, Protected(t)>> : t \in A}
      BY DEF UserTargets
    <2>2. \A t : <<t, Protected(t)>>[1] = t /\ (<<t, Protected(t)>>[2] <=> Protected(t))
      OBVIOUS
    <2>3. \A t \in A : (a = Owner \/ ~Protected(t)) => <<t, Protected(t)>> \in F
      BY <2>1, <2>2, Zenon
    <2>4. \A q \in F : \E t \in A : q = <<t, Protected(t)>> /\ (a = Owner \/ ~Protected(t))
      BY <2>1, <2>2, Zenon
    <2> HIDE DEF F
    <2>5. ASSUME NEW t \in {pair[1] : pair \in F} PROVE t \in A /\ (a = Owner \/ ~Protected(t))
      <3>1. PICK q \in F : t = q[1]
        OBVIOUS
      <3>2. PICK s \in A : q = <<s, Protected(s)>> /\ (a = Owner \/ ~Protected(s))
        BY <2>4
      <3>3. t = s
        BY <2>2, <3>1, <3>2
      <3> QED
        BY <3>2, <3>3
    <2>6. ASSUME NEW t \in A, a = Owner \/ ~Protected(t) PROVE t \in {pair[1] : pair \in F}
      <3>1. <<t, Protected(t)>> \in F /\ <<t, Protected(t)>>[1] = t
        BY <2>2, <2>3, <2>6
      <3> QED
        BY <3>1, Zenon
    <2> QED
      BY <2>5, <2>6 DEF F
  <1> QED
    BY <1>2, <1>3, <1>4

Only(r, scope) == [q \in Roles |-> IF q = r THEN scope ELSE {}]

LEMMA OnlyWants ==
    ASSUME NEW r \in Roles, NEW scope, scope # {}
    PROVE  Wanted(Only(r, scope)) = {r} /\ Only(r, scope)[r] = scope
  BY DEF Wanted, Only

LEMMA OwnersScope == \A c : PermissionScope(Owner, c) = {Everywhere}
  BY DEF PermissionScope

\* A role is offered for the scopes for which its assignment is accepted.
LEMMA OfferedIsAccepted ==
    ASSUME AccessTyped, NEW a \in People, NEW t \in Users, NEW r \in Existing,
           MayUse(a, Assign), Exists(t), \A q \in RolesOf(t) : CanAssign(a, t, q),
           NEW scope \in Scopes, scope # {}
    PROVE  scope \in Offered(a, t, r) <=>
               PreChecks(a, t, Only(r, scope)) /\ Decides(a, t, Only(r, scope))
  <1> DEFINE W == Only(r, scope)
  <1>0. /\ t # Owner /\ r \in Roles /\ roles[r].here
        /\ Wanted(W) = {r} /\ W[r] = scope
    BY OnlyWants DEF Existing
  <1> HIDE DEF W
  <1>1. /\ RolesFit(W) <=> (scope \subseteq DeviceGroups => OnlyScoped(r))
        /\ GroupsFit(W) <=> scope \ {Everywhere} \subseteq groups
        /\ WithinScope(a, W) <=>
              \A c \in Effective(r) : \/ PermissionScope(a, c) = {Everywhere}
                                      \/ /\ PermissionScope(a, c) # {}
                                         /\ scope \subseteq PermissionScope(a, c)
    BY <1>0 DEF RolesFit, GroupsFit, WithinScope
  <1>2. \A c : /\ PermissionScope(a, c) \in Scopes
               /\ Everywhere \in PermissionScope(a, c) => PermissionScope(a, c) = {Everywhere}
    BY ScopeTyped, ScopeShapes
  <1>3. CanAssign(a, t, r) => Effective(r) # {} \/ a = Owner
    BY DEF CanAssign, GlobalAllowed, AllowedGroups, OnlyScoped
  <1>4. CASE scope = {Everywhere}
    <2>1. ~(scope \subseteq DeviceGroups) /\ scope \ {Everywhere} \subseteq groups
      BY <1>4
    <2>2. scope \in Offered(a, t, r) <=> CanAssign(a, t, r) /\ GlobalAllowed(a, r)
      BY <1>4, <2>1 DEF Offered, AllowedGroups, AccessTyped
    <2>3. WithinScope(a, W) <=> \A c \in Effective(r) : PermissionScope(a, c) = {Everywhere}
      BY <1>1, <1>2, <1>4
    <2>4. CASE a = Owner
      <3>1. GlobalAllowed(a, r) /\ CanAssign(a, t, r)
        BY <1>0, <2>4 DEF CanAssign, GlobalAllowed
      <3>2. PreChecks(a, t, W) /\ Decides(a, t, W)
        BY <1>0, <1>1, <2>1, <2>4 DEF PreChecks, Decides, MayReplace
      <3> QED
        BY <2>2, <3>1, <3>2 DEF W
    <2>5. CASE a # Owner
      <3>1. ASSUME CanAssign(a, t, r), GlobalAllowed(a, r)
            PROVE  PreChecks(a, t, W) /\ Decides(a, t, W)
        <4>1. WithinScope(a, W)
          BY <2>3, <2>5, <3>1 DEF GlobalAllowed
        <4>2. MayReplace(a, t) /\ ~Locked(r) /\ \A q \in RolesOf(t) : ~Locked(q)
          BY <1>0, <2>5, <3>1 DEF MayReplace, CanAssign
        <4> QED
          BY <1>0, <1>1, <2>1, <3>1, <4>1, <4>2 DEF PreChecks, Decides
      <3>2. ASSUME PreChecks(a, t, W) PROVE CanAssign(a, t, r) /\ GlobalAllowed(a, r)
        <4>1. CanAssign(a, t, r) /\ WithinScope(a, W)
          BY <1>0, <2>5, <3>2 DEF PreChecks
        <4> QED
          BY <1>3, <2>3, <2>5, <4>1 DEF GlobalAllowed
      <3> QED
        BY <2>2, <3>1, <3>2 DEF W
    <2> QED
      BY <2>4, <2>5
  <1>5. CASE scope # {Everywhere}
    <2>1. scope \subseteq DeviceGroups /\ scope \ {Everywhere} = scope
      BY <1>5, ScopeShapes
    <2>2. scope \in Offered(a, t, r) <=> CanAssign(a, t, r) /\ scope \subseteq AllowedGroups(a, r)
      BY <1>5 DEF Offered
    <2>3. scope \subseteq AllowedGroups(a, r) <=>
              /\ OnlyScoped(r) /\ scope \subseteq groups
              /\ \A g \in scope : \A c \in Effective(r) :
                    a = Owner \/ PermissionScope(a, c) \in {{}, {Everywhere}}
                              \/ g \in PermissionScope(a, c)
      BY DEF AllowedGroups
    <2>4. CASE a = Owner
      <3>1. scope \subseteq AllowedGroups(a, r) <=> OnlyScoped(r) /\ scope \subseteq groups
        BY <2>3, <2>4
      <3>2. CanAssign(a, t, r)
        BY <1>0, <2>4 DEF CanAssign, GlobalAllowed
      <3>3. PreChecks(a, t, W) /\ Decides(a, t, W) <=> OnlyScoped(r) /\ scope \subseteq groups
        BY <1>0, <1>1, <2>1, <2>4 DEF PreChecks, Decides, MayReplace
      <3> QED
        BY <2>2, <3>1, <3>2, <3>3 DEF W
    <2>5. CASE a # Owner
      <3>1. ASSUME CanAssign(a, t, r), scope \subseteq AllowedGroups(a, r)
            PROVE  PreChecks(a, t, W) /\ Decides(a, t, W)
        <4>1. \A c \in Effective(r) : PermissionScope(a, c) # {}
          BY <2>5, <3>1 DEF CanAssign
        <4>2. WithinScope(a, W)
          BY <1>1, <2>3, <2>5, <3>1, <4>1
        <4>3. MayReplace(a, t) /\ ~Locked(r) /\ \A q \in RolesOf(t) : ~Locked(q)
          BY <1>0, <2>5, <3>1 DEF MayReplace, CanAssign
        <4> QED
          BY <1>0, <1>1, <2>1, <2>3, <3>1, <4>2, <4>3 DEF PreChecks, Decides
      <3>2. ASSUME PreChecks(a, t, W)
            PROVE  CanAssign(a, t, r) /\ scope \subseteq AllowedGroups(a, r)
        <4>1. CanAssign(a, t, r) /\ WithinScope(a, W) /\ RolesFit(W) /\ GroupsFit(W)
          BY <1>0, <2>5, <3>2 DEF PreChecks
        <4> QED
          BY <1>1, <2>1, <2>3, <4>1
      <3> QED
        BY <2>2, <3>1, <3>2 DEF W
    <2> QED
      BY <2>4, <2>5
  <1> QED
    BY <1>4, <1>5

LEMMA TypedOffersAccepted == AccessTyped => OffersAreAccepted
  <1> SUFFICES ASSUME AccessTyped PROVE OffersAreAccepted
    OBVIOUS
  <1>1. ASSUME NEW a \in People, NEW t \in Users, MayUse(a, Assign), Exists(t),
               \A q \in RolesOf(t) : CanAssign(a, t, q), NEW r \in Existing
        PROVE  Offered(a, t, r) = {scope \in Scopes \ {{}} :
                   PreChecks(a, t, Only(r, scope)) /\ Decides(a, t, Only(r, scope))}
    <2>1. Offered(a, t, r) \subseteq Scopes \ {{}}
      <3>1. AllowedGroups(a, r) \subseteq DeviceGroups
        BY DEF AllowedGroups, AccessTyped
      <3> QED
        BY <3>1 DEF Offered, Scopes
    <2> QED
      BY <1>1, <2>1, OfferedIsAccepted
  <1> QED
    BY <1>1, TargetsAgree DEF OffersAreAccepted, Only

(***************************************************************************)
(* The steps.                                                              *)
(***************************************************************************)

LEMMA RequestShapes ==
    /\ NoRole \in Role
    /\ NoRequest \in Request
    /\ NoRequest.op = "idle"
  BY ScopeShapes DEF NoRole, Role, NoRequest, Request

\* A request goes on; the others stay as they are.
LEMMA GoneOn ==
    ASSUME AccessIInv, NEW p \in Requests, NEW q \in Request, Goes(p, q), DecidedWithin(q)
    PROVE  /\ requests' \in [Requests -> Request]
           /\ \A s \in Requests : DecidedWithin(requests'[s])
  BY DEF AccessIInv, AccessTyped, Goes

LEMMA HeldTyped ==
    ASSUME AccessTyped, NEW a \in People PROVE Held(a) \in [Codes -> Scopes]
  BY ScopeTyped DEF Held

LEMMA DecideKeeps ==
    ASSUME AccessIInv, NEW p \in Requests, DecideReplacement(p) PROVE AccessIInv'
  <1> DEFINE q == requests[p]
  <1>0. q \in Request /\ q.op = "checked" /\ AccessTyped
    BY DEF AccessIInv, AccessTyped, DecideReplacement
  <1>1. UNCHANGED <<scenario, accounts, roles, groups, assigned, update>>
    BY DEF DecideReplacement
  <1>2. CASE Ends(p)
    BY <1>1, <1>2, RequestShapes, GoneOn DEF Ends, DecidedWithin, AccessIInv, AccessTyped
  <1>3. CASE /\ Decides(q.actor, q.target, q.wanted)
             /\ Goes(p, [q EXCEPT !.op = "decided", !.held = Held(q.actor),
                                  !.seen = [r \in Roles |-> Effective(r)]])
    <2> PICK s : s = [q EXCEPT !.op = "decided", !.held = Held(q.actor),
                               !.seen = [r \in Roles |-> Effective(r)]]
      OBVIOUS
    <2>1. q.actor \in People
      BY <1>0 DEF AccessIInv, DecidedWithin
    <2>2. Held(q.actor) \in [Codes -> Scopes]
      BY <1>0, <2>1, HeldTyped
    <2>3. [r \in Roles |-> Effective(r)] \in [Roles -> SUBSET Codes]
      BY <1>0 DEF AccessTyped, Role, Effective, Filtered
    <2>4. /\ s \in Request /\ s.held = Held(q.actor) /\ s.actor = q.actor
          /\ s.wanted = q.wanted /\ \A r \in Roles : s.seen[r] = Effective(r)
      BY <1>0, <2>2, <2>3 DEF Request
    <2>5. s.actor # Owner => WithinScope(s.actor, s.wanted)
      BY <1>3, <2>4 DEF Decides
    <2>6. \A r \in Roles : Effective(r) \subseteq Codes
      BY <2>3
    <2>7. DecidedWithin(s)
      BY <2>4, <2>5, <2>6 DEF DecidedWithin, WithinScope, Held, Wanted
    <2> QED
      BY <1>1, <1>3, <2>4, <2>7, GoneOn DEF AccessIInv, AccessTyped
  <1> QED
    BY <1>2, <1>3 DEF DecideReplacement

LEMMA AccessIInvNext == AccessIInv /\ [Next]_vars => AccessIInv'
  <1> SUFFICES ASSUME AccessIInv, [Next]_vars PROVE AccessIInv'
    OBVIOUS
  <1>0. AccessTyped
    BY DEF AccessIInv
  <1>1. CASE UNCHANGED vars
    BY <1>1 DEF vars, AccessIInv, AccessTyped
  <1>2. ASSUME NEW p \in Requests, NEW a \in People, NEW t \in Users,
               NEW W \in [Roles -> Scopes], CheckReplacement(p, a, t, W)
        PROVE  AccessIInv'
    <2> PICK q : q = [NoRequest EXCEPT !.op = "checked", !.actor = a, !.target = t, !.wanted = W]
      OBVIOUS
    <2>1. q \in Request /\ q.op = "checked" /\ q.actor = a
      BY RequestShapes DEF Request, NoRequest, People
    <2>2. requests' \in [Requests -> Request] /\ \A s \in Requests : DecidedWithin(requests'[s])
      BY <1>2, <2>1, GoneOn DEF CheckReplacement, DecidedWithin
    <2> QED
      BY <1>0, <1>2, <2>2 DEF CheckReplacement, AccessIInv, AccessTyped
  <1>3. ASSUME NEW p \in Requests, DecideReplacement(p) PROVE AccessIInv'
    BY <1>3, DecideKeeps
  <1>4. ASSUME NEW p \in Requests, Ends(p) 
        PROVE  requests' \in [Requests -> Request] /\ \A s \in Requests : DecidedWithin(requests'[s])
    BY <1>4, RequestShapes, GoneOn DEF Ends, DecidedWithin
  <1>5. ASSUME NEW p \in Requests, WriteReplacement(p) PROVE AccessIInv'
    <2>1. assigned' \in [People -> [Roles -> Scopes]]
      BY <1>0, <1>5 DEF WriteReplacement, AccessTyped, Request
    <2> QED
      BY <1>0, <1>4, <1>5, <2>1 DEF WriteReplacement, AccessIInv, AccessTyped
  <1>6. ASSUME NEW p \in Requests, WriteUser(p) PROVE AccessIInv'
    <2>1. [r \in Roles |-> {}] \in [Roles -> Scopes]
      BY ScopeShapes
    <2>2. assigned' \in [People -> [Roles -> Scopes]]
      BY <1>0, <1>6, <2>1 DEF WriteUser, AccessTyped
    <2>3. Ends(p) /\ UNCHANGED <<roles, groups, update>>
      BY <1>6 DEF WriteUser
    <2> QED
      BY <1>0, <1>4, <2>2, <2>3 DEF AccessIInv, AccessTyped
  <1>7. ASSUME NEW p \in Requests, NEW a \in People, NEW t \in Users,
               NEW op \in {"status", "delete"}, DecideUser(p, a, t, op)
        PROVE  AccessIInv'
    <2> PICK q : q = [NoRequest EXCEPT !.op = op, !.actor = a, !.target = t]
      OBVIOUS
    <2>1. q \in Request /\ q.op = op
      BY RequestShapes DEF Request, NoRequest, People
    <2>2. requests' \in [Requests -> Request] /\ \A s \in Requests : DecidedWithin(requests'[s])
      BY <1>7, <2>1, GoneOn DEF DecideUser, DecidedWithin
    <2> QED
      BY <1>0, <1>7, <2>2 DEF DecideUser, AccessIInv, AccessTyped
  <1>8. CASE WriteRole
    BY <1>0, <1>8 DEF WriteRole, AccessIInv, AccessTyped
  <1>9. ASSUME NEW r \in Roles, NEW row \in RoleRows[r], CreateRole(r, row) \/ CheckRole(r, row)
        PROVE  AccessIInv'
    <2>1. RoleRows[r] \subseteq [here: {TRUE}, codes: SUBSET Codes, protected: BOOLEAN]
      OBVIOUS
    <2>2. row \in Role
      BY <2>1 DEF Role
    <2>3. [role |-> r, row |-> row] \in [role: Roles, row: Role]
      BY <2>2
    <2> QED
      BY <1>0, <1>9, <2>2, <2>3 DEF CreateRole, CheckRole, AccessIInv, AccessTyped
  <1>10. ASSUME NEW r \in Roles, DeleteRole(r) PROVE AccessIInv'
    <2>1. assigned' \in [People -> [Roles -> Scopes]]
      BY <1>0, <1>10, ScopeShapes DEF DeleteRole, AccessTyped
    <2> QED
      BY <1>0, <1>10, <2>1, RequestShapes DEF DeleteRole, AccessIInv, AccessTyped
  <1>11. ASSUME NEW g \in DeviceGroups, DeleteDeviceGroup(g) PROVE AccessIInv'
    BY <1>0, <1>11 DEF DeleteDeviceGroup, AccessIInv, AccessTyped
  <1> QED
    BY <1>1, <1>2, <1>3, <1>5, <1>6, <1>7, <1>8, <1>9, <1>10, <1>11 DEF Next

LEMMA AccessInvariant == Spec => []AccessIInv
  <1>1. Init => AccessIInv
    <2> SUFFICES ASSUME Init PROVE AccessIInv
      OBVIOUS
    <2>1. roles \in [Roles -> Role]
      BY RequestShapes DEF Init, Role
    <2>2. assigned \in [People -> [Roles -> Scopes]]
      BY ScopeShapes DEF Init
    <2> QED
      BY <2>1, <2>2, RequestShapes DEF Init, AccessIInv, AccessTyped, DecidedWithin
  <1> QED
    BY <1>1, AccessIInvNext, PTL DEF Spec

\* Four computations of where a user holds a permission give the same answer.
THEOREM PermissionsAgree == Spec => []ScopesAgree
  BY AccessInvariant, TypedScopesAgree, PTL DEF AccessIInv

\* The console offers a role, or a target, exactly where a request for it passes.
THEOREM OffersMatchChecks == Spec => []OffersAreAccepted
  BY AccessInvariant, TypedOffersAccepted, PTL DEF AccessIInv

(***************************************************************************)
(* Delegation.                                                             *)
(***************************************************************************)

\* Only its write takes a decided request any further.
LEMMA DecidedIsWritten ==
    ASSUME AccessTyped, Next, NEW p \in Requests, requests[p].op = "decided",
           requests'[p] # requests[p]
    PROVE  WriteReplacement(p)
  <1>1. ASSUME NEW s \in Requests, NEW q, Goes(s, q) PROVE s = p
    BY <1>1 DEF Goes, AccessTyped
  <1>2. ASSUME NEW s \in Requests, DecideReplacement(s) \/ WriteUser(s) PROVE FALSE
    BY <1>1, <1>2 DEF DecideReplacement, WriteUser, Ends
  <1>3. ASSUME NEW s \in Requests, NEW a, NEW t,
               \/ \E W \in [Roles -> Scopes] : CheckReplacement(s, a, t, W)
               \/ \E op \in {"status", "delete"} : DecideUser(s, a, t, op)
        PROVE  FALSE
    BY <1>1, <1>3 DEF CheckReplacement, DecideUser, Idle
  <1>4. ASSUME NEW s \in Requests, WriteReplacement(s) PROVE WriteReplacement(p)
    BY <1>1, <1>4 DEF WriteReplacement, Ends
  <1> QED
    BY <1>2, <1>3, <1>4
    DEF Next, WriteRole, DeleteRole, CreateRole, CheckRole, DeleteDeviceGroup

LEMMA ScopesThen ==
    AccessTyped =>
        \A u \in Users, c \in Codes :
            /\ Everywhere \in UNION Granting(u, c) => PermissionScope(u, c) = {Everywhere}
            /\ Everywhere \notin UNION Granting(u, c) =>
                  PermissionScope(u, c) = UNION Granting(u, c)
  BY ScopeOfUser

LEMMA ScopesNext ==
    AccessTyped' =>
        (\A u \in Users, c \in Codes :
            /\ Everywhere \in UNION Granting(u, c) => PermissionScope(u, c) = {Everywhere}
            /\ Everywhere \notin UNION Granting(u, c) =>
                  PermissionScope(u, c) = UNION Granting(u, c))'
  BY ScopesThen, PTL

\* What the written assignments grant was held, or came into a role since.
LEMMA GainedWasHeld ==
    ASSUME AccessIInv, AccessIInv', NEW p \in Requests, NEW t \in Users, NEW c \in Codes,
           WriteReplacement(p), requests[p].actor # Owner, requests[p].target = t
    PROVE  LET q == requests[p]
               gained == PermissionScope(t, c)' \ PermissionScope(t, c)
           IN \/ gained \subseteq q.held[c] \/ q.held[c] = {Everywhere}
              \/ \E r \in Wanted(q.wanted) : c \in Effective(r) \ q.seen[r]
  <1> PICK q : q = requests[p]
    OBVIOUS
  <1>1. q \in Request /\ q.op = "decided" /\ q.actor # Owner /\ q.target = t
    BY DEF AccessIInv, AccessTyped, WriteReplacement
  <1>2. CASE assigned' = assigned
    <2>1. PermissionScope(t, c)' = PermissionScope(t, c)
      BY <1>2 DEF WriteReplacement, PermissionScope, RolesOf, Matches, Effective
    <2> QED
      BY <2>1
  <1>3. CASE assigned' = [assigned EXCEPT ![t] = q.wanted]
    <2> SUFFICES ASSUME q.held[c] # {Everywhere},
                        \A r \in Wanted(q.wanted) : c \notin Effective(r) \ q.seen[r]
                 PROVE  PermissionScope(t, c)' \subseteq q.held[c]
      OBVIOUS
    <2>1. assigned'[t] = q.wanted /\ roles' = roles
      BY <1>3 DEF AccessIInv, AccessTyped, People, WriteReplacement
    <2>2. \A r \in Roles : r \in RolesOf(t)' /\ Matches(t, r, c)' =>
              /\ r \in Wanted(q.wanted) /\ c \in Effective(r)
      BY <2>1 DEF RolesOf, Matches, Effective, Wanted
    <2>3. \A r \in Roles : r \in RolesOf(t)' /\ Matches(t, r, c)' =>
              q.wanted[r] \subseteq q.held[c]
      BY <1>1, <2>2 DEF AccessIInv, DecidedWithin
    <2>4. Granting(t, c)' = {assigned'[t][r] : r \in {s \in RolesOf(t)' : Matches(t, s, c)'}}
      BY DEF Granting
    <2>5. UNION Granting(t, c)' \subseteq q.held[c]
      BY <2>1, <2>3, <2>4 DEF RolesOf
    <2>6. /\ AccessTyped'
          /\ Everywhere \in UNION Granting(t, c)' => PermissionScope(t, c)' = {Everywhere}
          /\ Everywhere \notin UNION Granting(t, c)' =>
                PermissionScope(t, c)' = UNION Granting(t, c)'
      BY ScopesNext DEF AccessIInv
    <2> QED
      BY <2>5, <2>6
  <1> QED
    BY <1>1, <1>2, <1>3 DEF WriteReplacement

\* A decision that has become stale still passes on nothing the actor did not hold.
THEOREM NothingBeyondHeld == Spec => DelegationBounded
  <1>1. AccessIInv /\ AccessIInv' /\ [Next]_vars =>
          [\A p \in Requests, t \in Users :
            LET q == requests[p]
            IN (q.op = "decided" /\ requests'[p] # q /\ q.actor # Owner /\ q.target = t) =>
                \A c \in Codes :
                    LET gained == PermissionScope(t, c)' \ PermissionScope(t, c)
                    IN \/ gained \subseteq q.held[c] \/ q.held[c] = {Everywhere}
                       \/ \E r \in Wanted(q.wanted) : c \in Effective(r) \ q.seen[r]]_vars
    BY DecidedIsWritten, GainedWasHeld DEF AccessIInv
  <1> QED
    BY <1>1, AccessInvariant, PTL DEF Spec, DelegationBounded
=============================================================================
