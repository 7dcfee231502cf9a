-------------------------- MODULE WebClientSession --------------------------
(***************************************************************************)
(* The grants of the browser client                                        *)
(* (src/modules/web-client/web-client-session.service.ts).                 *)
(*                                                                         *)
(* The service runs on one thread; an action is the code between two       *)
(* awaits.  What an awaited authorization.validate answers is true of some *)
(* moment of the wait: was keeps what held when it began.                  *)
(*                                                                         *)
(* Time is the age of a session: 0, 1 once a session that is not active is *)
(* overdue (120 s), 2 once it expired.  Target, peer and ticket values are *)
(* left out: a ticket is the grant and the phase it is good for.           *)
(***************************************************************************)
EXTENDS Naturals, FiniteSets

CONSTANTS
    Users, Tokens,   \* accounts and their logins (actor.id, actor.jti)
    Guids,           \* grants; each is used by one call of create
    Channels,        \* sockets of the gateway
    Relays,          \* relay identifiers a rendezvous server answers
    MaxSessions,     \* 256 in the code
    MaxPerUser,      \* 8 in the code
    MaxTimeouts,     \* bound: verifications that miss their 5 s
    MaxProfile       \* bound: changes of the configuration

ASSUME WebClientBounds == {MaxSessions, MaxPerUser, MaxTimeouts, MaxProfile} \subseteq Nat

VARIABLES
    sessions,      \* the sessions map
    tickets,       \* the tickets map, as pairs of grant and phase
    creates,       \* the calls of create
    reservations,  \* places held by calls of create, by user
    epoch,         \* verificationEpoch
    late,          \* size of pendingTimeouts
    round,         \* the revalidation in progress
    stopped,       \* onModuleDestroy ran
    granted,       \* logins the database authorizes
    profile        \* identity of the configuration

sessionVars == <<sessions, tickets, creates, reservations, epoch, late, round,
                 stopped, granted, profile>>

Actors == [id : Users, jti : Tokens]
Phases == {"rendezvous", "relay"}
NoOne  == [kind |-> "none"]

\* Identifiers are random strings.
ASSUME Identifiers == NoOne \notin Guids \union Relays

Session ==
    [kind : {"desktop", "file"}, actor : Actors, parent : Guids \union {NoOne},
     profile : 0..MaxProfile, active : BOOLEAN, relay : Relays \union {NoOne},
     sockets : SUBSET Channels, age : 0..2, epoch : 0..MaxTimeouts]

Call ==
    [pc : {"parent", "validate", "record", "denied"}, kind : {"desktop", "file"},
     actor : Actors, parent : Guids \union {NoOne}, was : BOOLEAN,
     profile : 0..MaxProfile, epoch : 0..MaxTimeouts]

Unused == [pc |-> "unused"]
Over   == [pc |-> "over"]

Live == {g \in Guids : sessions[g] # NoOne}

InTime(g) == sessions[g].age = 0 \/ (sessions[g].age = 1 /\ sessions[g].active)

\* current: a session that may still be used.
Current(g) == g \in Live /\ ~stopped /\ InTime(g)

Owned(g, actor) == Current(g) /\ sessions[g].actor = actor

(***************************************************************************)
(* Ending sessions.                                                        *)
(***************************************************************************)

\* invalidate: all of S leave the map with their tickets.  The callbacks that
\* close their sockets follow in the same step (WebClientGateway).
Invalidate(S) ==
    /\ sessions' = [g \in Guids |-> IF g \in S THEN NoOne ELSE sessions[g]]
    /\ tickets' = {t \in tickets : t[1] \notin S}

\* Mutant: the file sessions of a desktop are left to themselves.
AloneOf(g) == {g} \intersect Live

Family(g) == {x \in Live : x = g \/ (g \in Live /\ sessions[x].parent = g)}

CloseGrant(g) == Invalidate(Family(g))

NoClose == UNCHANGED <<sessions, tickets>>

\* ensureValid after its await: the login is authorized, the configuration is
\* the one of the grant, the desktop of a file session is active.
Verifies(g, was) ==
    /\ Current(g)
    /\ was \/ granted[sessions[g].actor]
    /\ sessions[g].profile = profile
    /\ sessions[g].kind = "file" =>
          LET p == sessions[g].parent
          IN  Current(p) /\ sessions[p].active /\ sessions[p].actor = sessions[g].actor

\* A call of end by the owner or an administrator; a failed ensureValid of
\* report or requireOwnedActive closes in the same way.
End(g) ==
    /\ g \in Live
    /\ CloseGrant(g)
    /\ UNCHANGED <<creates, reservations, epoch, late, round, stopped, granted, profile>>

\* A withDeadline misses its 5 s (any call may wait in one): every session
\* ends; the call itself fails in its own next step.
VerificationTimeout ==
    /\ epoch < MaxTimeouts
    /\ epoch' = epoch + 1 /\ late' = late + 1
    /\ Invalidate(Live)
    /\ UNCHANGED <<creates, reservations, round, stopped, granted, profile>>

\* The answer of an operation that timed out comes in.
LateSettles ==
    /\ late > 0 /\ late' = late - 1
    /\ UNCHANGED <<sessions, tickets, creates, reservations, epoch, round, stopped,
                   granted, profile>>

(***************************************************************************)
(* create and createFile.                                                  *)
(***************************************************************************)

UserSessions(u) == Cardinality({g \in Live : sessions[g].actor.id = u})

\* Mutant: the limits do not count requests in progress.
MayReserveSessions(u) == Cardinality(Live) < MaxSessions /\ UserSessions(u) < MaxPerUser

\* The places that calls of create hold: their number is the sum over users.
Places == UNION {{u} \X (1..reservations[u]) : u \in Users}

\* reserve.
MayReserve(u) ==
    /\ Cardinality(Live) + Cardinality(Places) < MaxSessions
    /\ UserSessions(u) + reservations[u] < MaxPerUser

ToCreate(g, pc, was) ==
    creates' = [creates EXCEPT ![g].pc = pc, ![g].was = was]

\* Refusals before the reservation change nothing; a desktop that cannot be the
\* parent and a configuration that is off are found out after it.
CreateStart(g, actor, kind, parent) ==
    /\ creates[g] = Unused
    /\ ~stopped /\ late = 0
    /\ MayReserve(actor.id)
    /\ reservations' = [reservations EXCEPT ![actor.id] = @ + 1]
    /\ LET first == CASE kind = "desktop" -> "validate"
                      [] kind = "file" /\ sessions[parent].kind = "desktop"
                                       /\ sessions[parent].active -> "parent"
                      [] OTHER -> "denied"
       IN  \E pc \in {first, "denied"} :
              creates' = [creates EXCEPT ![g] =
                 [pc |-> pc, kind |-> kind, actor |-> actor, parent |-> parent,
                  was |-> granted[actor], profile |-> profile, epoch |-> epoch]]
    /\ NoClose
    /\ UNCHANGED <<epoch, late, round, stopped, granted, profile>>

CreateDesktop == \E g \in Guids, a \in Actors : CreateStart(g, a, "desktop", NoOne)

CreateFile == \E g \in Guids, a \in Actors, p \in Guids :
                 Owned(p, a) /\ CreateStart(g, a, "file", p)

\* ensureValid of the parent answers.
CreateParentChecked(g) ==
    /\ creates[g].pc = "parent"
    /\ LET p == creates[g].parent
       IN  \/ Verifies(p, creates[g].was) /\ NoClose
              /\ ToCreate(g, "validate", granted[creates[g].actor])
           \/ CloseGrant(p) /\ ToCreate(g, "denied", FALSE)
    /\ UNCHANGED <<reservations, epoch, late, round, stopped, granted, profile>>

\* authorization.validate answers.
CreateValidated(g) ==
    /\ creates[g].pc = "validate"
    /\ \/ (creates[g].was \/ granted[creates[g].actor]) /\ ToCreate(g, "record", FALSE)
       \/ ToCreate(g, "denied", FALSE)
    /\ NoClose
    /\ UNCHANGED <<reservations, epoch, late, round, stopped, granted, profile>>

\* releaseReservation.
Release(g) ==
    LET u == creates[g].actor.id
    IN  /\ reservations' = [reservations EXCEPT ![u] = @ - 1]
        /\ creates' = [creates EXCEPT ![g] = Over]

\* Mutant: only a verification still pending refuses the session.
StillAvailableNow(g) ==
    /\ ~stopped /\ late = 0
    /\ creates[g].profile = profile
    /\ creates[g].kind = "file" => creates[g].parent \in Live

\* What create checks again once everything it waited for is done.
StillAvailable(g) ==
    /\ ~stopped /\ late = 0
    /\ creates[g].epoch = epoch
    /\ creates[g].profile = profile
    /\ creates[g].kind = "file" => creates[g].parent \in Live

\* The request_allowed audit answers: the session and its tickets appear, or the
\* request is denied (the audit failed, the session is no longer available).
CreateRecorded(g) ==
    /\ creates[g].pc = "record"
    /\ \/ /\ StillAvailable(g)
          /\ sessions' = [sessions EXCEPT ![g] =
                [kind |-> creates[g].kind, actor |-> creates[g].actor,
                 parent |-> creates[g].parent, profile |-> creates[g].profile,
                 active |-> FALSE, relay |-> NoOne, sockets |-> {}, age |-> 0,
                 epoch |-> creates[g].epoch]]
          /\ tickets' = tickets \union ({g} \X Phases)
          /\ Release(g)
       \/ ToCreate(g, "denied", FALSE) /\ NoClose /\ UNCHANGED reservations
    /\ UNCHANGED <<epoch, late, round, stopped, granted, profile>>

\* The denial audit answers or fails; only now the place is given back.
CreateDenied(g) ==
    /\ creates[g].pc = "denied"
    /\ Release(g)
    /\ NoClose
    /\ UNCHANGED <<epoch, late, round, stopped, granted, profile>>

CreateStep(g) == \/ CreateParentChecked(g) \/ CreateValidated(g)
                 \/ CreateRecorded(g) \/ CreateDenied(g)

(***************************************************************************)
(* revalidateSessions, every 15 s.                                         *)
(***************************************************************************)

NoRound == [on |-> FALSE, todo |-> {}, at |-> NoOne, was |-> FALSE]

RoundStart ==
    /\ ~round.on /\ ~stopped
    /\ round' = [NoRound EXCEPT !.on = TRUE, !.todo = Live]
    /\ NoClose
    /\ UNCHANGED <<creates, reservations, epoch, late, stopped, granted, profile>>

\* Mutant: only sessions in their time are looked at.
RoundNextInTime ==
    /\ round.on /\ round.at = NoOne
    /\ \E g \in round.todo :
          /\ round' = IF g \in Live /\ InTime(g)
                      THEN [round EXCEPT !.todo = @ \ {g}, !.at = g,
                                         !.was = granted[sessions[g].actor]]
                      ELSE [round EXCEPT !.todo = @ \ {g}]
          /\ NoClose
    /\ UNCHANGED <<creates, reservations, epoch, late, stopped, granted, profile>>

\* The next session of the round: gone, over its time, or verified.
RoundNext ==
    /\ round.on /\ round.at = NoOne
    /\ \E g \in round.todo :
          IF g \in Live /\ InTime(g)
          THEN /\ NoClose
               /\ round' = [round EXCEPT !.todo = @ \ {g}, !.at = g,
                                         !.was = granted[sessions[g].actor]]
          ELSE /\ CloseGrant(g)
               /\ round' = [round EXCEPT !.todo = @ \ {g}]
    /\ UNCHANGED <<creates, reservations, epoch, late, stopped, granted, profile>>

\* Mutant: a session whose check fails is left for the next round.
RoundCheckedLenient ==
    /\ round.on /\ round.at # NoOne
    /\ round' = [round EXCEPT !.at = NoOne]
    /\ NoClose
    /\ UNCHANGED <<creates, reservations, epoch, late, stopped, granted, profile>>

RoundChecked ==
    /\ round.on /\ round.at # NoOne
    /\ (Verifies(round.at, round.was) /\ NoClose) \/ CloseGrant(round.at)
    /\ round' = [round EXCEPT !.at = NoOne]
    /\ UNCHANGED <<creates, reservations, epoch, late, stopped, granted, profile>>

RoundEnd ==
    /\ round.on /\ round.todo = {} /\ round.at = NoOne
    /\ round' = NoRound
    /\ NoClose
    /\ UNCHANGED <<creates, reservations, epoch, late, stopped, granted, profile>>

RoundStep == RoundStart \/ RoundNext \/ RoundChecked \/ RoundEnd

(***************************************************************************)
(* The world: logins and permissions are revoked, settings change, time    *)
(* passes.                                                                 *)
(***************************************************************************)

Revoke(a) ==
    /\ granted[a] /\ granted' = [granted EXCEPT ![a] = FALSE]
    /\ NoClose
    /\ UNCHANGED <<creates, reservations, epoch, late, round, stopped, profile>>

ChangeProfile ==
    /\ profile < MaxProfile /\ profile' = profile + 1
    /\ NoClose
    /\ UNCHANGED <<creates, reservations, epoch, late, round, stopped, granted>>

Age(g) ==
    /\ g \in Live /\ sessions[g].age < 2
    /\ sessions' = [sessions EXCEPT ![g].age = @ + 1]
    /\ UNCHANGED <<tickets, creates, reservations, epoch, late, round, stopped,
                   granted, profile>>

SessionInit ==
    /\ sessions = [g \in Guids |-> NoOne]
    /\ tickets = {}
    /\ creates = [g \in Guids |-> Unused]
    /\ reservations = [u \in Users |-> 0]
    /\ epoch = 0 /\ late = 0
    /\ round = NoRound
    /\ stopped = FALSE
    /\ granted = [a \in Actors |-> TRUE]
    /\ profile = 0

SessionTypeOK ==
    /\ sessions \in [Guids -> Session \union {NoOne}]
    /\ tickets \subseteq Guids \X Phases
    /\ creates \in [Guids -> Call \union {Unused, Over}]
    /\ reservations \in [Users -> Nat]
    /\ epoch \in 0..MaxTimeouts /\ late \in 0..MaxTimeouts
    /\ round \in [on : BOOLEAN, todo : SUBSET Guids, at : Guids \union {NoOne}, was : BOOLEAN]
    /\ stopped \in BOOLEAN
    /\ granted \in [Actors -> BOOLEAN]
    /\ profile \in 0..MaxProfile
=============================================================================
