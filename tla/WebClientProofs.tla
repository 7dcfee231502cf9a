--------------------------- MODULE WebClientProofs ---------------------------
(***************************************************************************)
(* The grants of the browser client: bytes are only forwarded for sessions *)
(* that live, file sessions live within their desktop, active sessions     *)
(* have their relay, and none survives a verification that timed out.      *)
(***************************************************************************)
EXTENDS WebClientGateway, FiniteSetTheorems, TLAPS

(***************************************************************************)
(* The invariant: the sessions and the calls that make them,               *)
(***************************************************************************)

SessionsTyped == sessions \in [Guids -> Session \union {NoOne}]

\* All but the counts of places.
ServiceTyped ==
    /\ SessionsTyped
    /\ creates \in [Guids -> Call \union {Unused, Over}]
    /\ epoch \in 0..MaxTimeouts /\ late \in Nat /\ late <= epoch
    /\ round \in [on : BOOLEAN, todo : SUBSET Guids, at : Guids \union {NoOne}, was : BOOLEAN]
    /\ stopped \in BOOLEAN
    /\ granted \in [Actors -> BOOLEAN]
    /\ profile \in 0..MaxProfile

\* An active desktop of the actor: the parent a file session may have.
DesktopOf(p, actor) ==
    sessions[p].kind = "desktop" /\ sessions[p].active /\ sessions[p].actor = actor

FamilyOK(g) ==
    /\ creates[g] = Over
    /\ sessions[g].kind = "desktop" => sessions[g].parent = NoOne
    /\ sessions[g].kind = "file" =>
          sessions[g].parent \in Live /\ DesktopOf(sessions[g].parent, sessions[g].actor)

FamiliesOK == \A g \in Live : FamilyOK(g)

InFlight(g) == creates[g].pc \in {"parent", "validate", "record"}

\* The desktop of a call was there when the call began; it may be gone, but
\* no other comes in its place.
CallOK(g) ==
    /\ creates[g].kind = "desktop" => creates[g].parent = NoOne
    /\ creates[g].kind = "file" =>
          /\ creates[g].parent \in Guids /\ creates[creates[g].parent] = Over
          /\ creates[g].parent \in Live => DesktopOf(creates[g].parent, creates[g].actor)

CallsOK == \A g \in Guids : InFlight(g) => CallOK(g)

ServiceIInv == ServiceTyped /\ FamiliesOK /\ CallsOK /\ NoneFromBeforeTimeout

(***************************************************************************)
(* and the channels.                                                       *)
(***************************************************************************)

ChannelsTyped == tickets \subseteq Guids \X Phases /\ channels \in [Channels -> Channel]

\* Stages in which a channel has the ticket it used, and may yet go on with it.
Holding == {"authorizing", "rejecting", "claimed"} \union Claimed

\* The sockets of the live sessions are their channels.
Linked ==
    /\ \A c \in Channels : channels[c].stage \in Claimed =>
          channels[c].guid \in Live /\ c \in sessions[channels[c].guid].sockets
    /\ \A g \in Live : \A c \in sessions[g].sockets :
          channels[c].stage \in Claimed /\ channels[c].guid = g

\* Only a relay channel activates its session.
RelayStages ==
    \A c \in Channels :
       /\ channels[c].stage \in {"marking", "recording", "opened"} => channels[c].phase = "relay"
       /\ channels[c].stage \in {"opened", "opaque"} => sessions[channels[c].guid].active

\* A ticket is in the map or with one channel; grants are not made again.
TicketsOnce ==
    /\ \A t \in tickets :
          /\ creates[t[1]] = Over
          /\ \A c \in Channels : channels[c].stage \in Holding =>
                ~(channels[c].guid = t[1] /\ channels[c].phase = t[2])
    /\ \A c \in Channels : channels[c].stage \in Holding =>
          /\ channels[c].guid \in Guids /\ creates[channels[c].guid] = Over
          /\ \A d \in Channels \ {c} :
                channels[d].stage \in Holding /\ channels[d].guid = channels[c].guid
                   => channels[d].phase # channels[c].phase

ChannelsIInv == ChannelsTyped /\ Linked /\ RelayStages /\ TicketsOnce /\ ActiveHasRelay

WebIInv == ServiceIInv /\ ChannelsIInv

(***************************************************************************)
(* Changes of the sessions.                                                *)
(***************************************************************************)

\* Sessions leave, a desktop with its file sessions, and the others go on.
GoOn ==
    /\ SessionsTyped'
    /\ \A x \in Live' :
          /\ x \in Live
          /\ sessions'[x].kind = sessions[x].kind /\ sessions'[x].actor = sessions[x].actor
          /\ sessions'[x].parent = sessions[x].parent /\ sessions'[x].epoch = sessions[x].epoch
          /\ sessions[x].active => sessions'[x].active
          /\ sessions[x].parent \in Live => sessions[x].parent \in Live'

LEMMA LiveSession ==
    ASSUME SessionsTyped, NEW g \in Live
    PROVE  g \in Guids /\ sessions[g] \in Session
  BY DEF SessionsTyped, Live

\* What one invalidate takes: all sessions, or a family.
Whole(S) == S = Live \/ \E g \in Guids \union {NoOne} : S = Family(g)

LEMMA WholeIsClosed ==
    ASSUME SessionsTyped, FamiliesOK, NEW S, Whole(S)
    PROVE  /\ S \subseteq Live
           /\ \A x \in Live : sessions[x].parent \in S => x \in S
  <1>1. CASE S = Live
    BY <1>1
  <1>2. ASSUME NEW g \in Guids \union {NoOne}, S = Family(g)
        PROVE  /\ S \subseteq Live
               /\ \A x \in Live : sessions[x].parent \in S => x \in S
    <2>1. S \subseteq Live
      BY <1>2 DEF Family
    <2>2. ASSUME NEW x \in Live, sessions[x].parent \in S
          PROVE  x \in S
      <3> DEFINE p == sessions[x].parent
      <3>1. p \in Live /\ (p = g \/ (g \in Live /\ sessions[p].parent = g))
        BY <1>2, <2>2 DEF Family
      <3>2. sessions[x].kind = "file" /\ sessions[p].kind = "desktop"
        <4>1. sessions[x] \in Session /\ p \in Guids
          BY <3>1, LiveSession
        <4>2. sessions[x].kind # "desktop"
          BY <4>1, Identifiers DEF FamiliesOK, FamilyOK
        <4> QED
          BY <4>1, <4>2 DEF FamiliesOK, FamilyOK, DesktopOf, Session
      <3>3. sessions[p].parent = NoOne
        BY <3>1, <3>2 DEF FamiliesOK, FamilyOK
      <3>4. NoOne \notin Live
        BY Identifiers DEF Live
      <3>5. p = g
        BY <3>1, <3>3, <3>4
      <3> QED
        BY <1>2, <3>1, <3>5 DEF Family
    <2> QED
      BY <2>1, <2>2
  <1> QED
    BY <1>1, <1>2 DEF Whole

LEMMA InvalidateGoesOn ==
    ASSUME SessionsTyped, FamiliesOK, NEW S, Whole(S), Invalidate(S)
    PROVE  GoOn /\ tickets' \subseteq tickets /\ Live' = Live \ S
           /\ \A x \in Live' : sessions'[x] = sessions[x]
  <1>1. S \subseteq Live /\ \A x \in Live : sessions[x].parent \in S => x \in S
    BY WholeIsClosed
  <1>2. SessionsTyped'
    BY DEF SessionsTyped, Invalidate
  <1>3. Live' = Live \ S /\ \A x \in Live' : sessions'[x] = sessions[x]
    BY DEF Live, Invalidate
  <1> QED
    BY <1>1, <1>2, <1>3 DEF GoOn, Invalidate

\* One session changes.
LEMMA ChangeGoesOn ==
    ASSUME SessionsTyped, NEW g \in Live, NEW q \in Session,
           q.kind = sessions[g].kind, q.actor = sessions[g].actor,
           q.parent = sessions[g].parent, q.epoch = sessions[g].epoch,
           sessions[g].active => q.active,
           sessions' = [sessions EXCEPT ![g] = q]
    PROVE  GoOn /\ Live' = Live
           /\ \A x \in Live : sessions'[x] = IF x = g THEN q ELSE sessions[x]
  <1>1. g \in Guids /\ q # NoOne
    BY DEF Live, Session, NoOne
  <1>2. SessionsTyped' /\ \A x \in Guids : sessions'[x] = IF x = g THEN q ELSE sessions[x]
    BY <1>1 DEF SessionsTyped
  <1>3. Live' = Live
    BY <1>1, <1>2 DEF Live
  <1> QED
    BY <1>1, <1>2, <1>3 DEF GoOn, Live

LEMMA DetachGoesOn ==
    ASSUME SessionsTyped, NEW c \in Channels, sessions' = Detached(c)
    PROVE  GoOn /\ Live' = Live
           /\ \A x \in Live : /\ sessions'[x].sockets = sessions[x].sockets \ {c}
                              /\ sessions'[x].active = sessions[x].active
                              /\ sessions'[x].relay = sessions[x].relay
  <1>1. ASSUME NEW x \in Live
        PROVE  /\ x \in Guids /\ sessions'[x] \in Session /\ sessions'[x] # NoOne
               /\ sessions'[x].kind = sessions[x].kind /\ sessions'[x].actor = sessions[x].actor
               /\ sessions'[x].parent = sessions[x].parent
               /\ sessions'[x].epoch = sessions[x].epoch
               /\ sessions'[x].active = sessions[x].active
               /\ sessions'[x].relay = sessions[x].relay
               /\ sessions'[x].sockets = sessions[x].sockets \ {c}
    <2>1. x \in Guids /\ sessions[x] \in Session
      BY LiveSession
    <2>2. sessions'[x] = [sessions[x] EXCEPT !.sockets = sessions[x].sockets \ {c}]
      BY <2>1 DEF Detached
    <2>3. sessions'[x] \in Session
      BY <2>1, <2>2 DEF Session
    <2>4. sessions'[x] # NoOne
      BY <2>3 DEF Session, NoOne
    <2> QED
      BY <2>1, <2>2, <2>3, <2>4 DEF Session
  <1>2. SessionsTyped'
    BY <1>1 DEF SessionsTyped, Detached
  <1>3. \A x \in Guids \ Live : sessions'[x] = NoOne
    BY DEF Detached
  <1>4. Live' = Live
    <2>1. \A x \in Guids : sessions'[x] # NoOne <=> x \in Live
      BY <1>1, <1>3
    <2> QED
      BY <2>1 DEF Live
  <1> QED
    BY <1>1, <1>2, <1>4 DEF GoOn

(***************************************************************************)
(* Steps of the service and what they leave of its invariant.              *)
(***************************************************************************)

\* Calls go on with what they asked for, or are denied, or over.
CallsGoOn ==
    /\ creates' \in [Guids -> Call \union {Unused, Over}]
    /\ \A x \in Guids :
          /\ creates[x] = Over => creates'[x] = Over
          /\ InFlight(x)' =>
                /\ InFlight(x) /\ creates'[x].kind = creates[x].kind
                /\ creates'[x].parent = creates[x].parent
                /\ creates'[x].actor = creates[x].actor

LEMMA FamiliesGoOn == ASSUME FamiliesOK, GoOn, CallsGoOn PROVE FamiliesOK'
  <1> SUFFICES ASSUME NEW g \in Live' PROVE FamilyOK(g)'
    BY DEF FamiliesOK
  <1>1. g \in Live /\ g \in Guids /\ FamilyOK(g)
    BY DEF FamiliesOK, GoOn, Live
  <1> QED
    BY <1>1 DEF FamilyOK, DesktopOf, GoOn, CallsGoOn

LEMMA CallsStayOK == ASSUME CallsOK, GoOn, CallsGoOn PROVE CallsOK'
  <1> SUFFICES ASSUME NEW g \in Guids, InFlight(g)' PROVE CallOK(g)'
    BY DEF CallsOK
  <1>1. /\ InFlight(g) /\ creates'[g].kind = creates[g].kind
        /\ creates'[g].parent = creates[g].parent /\ creates'[g].actor = creates[g].actor
    BY DEF CallsGoOn
  <1>2. CallOK(g)
    BY <1>1 DEF CallsOK
  <1> QED
    BY <1>1, <1>2 DEF CallOK, DesktopOf, GoOn, CallsGoOn

\* A step in which sessions and calls only go on, and no clock moves.
LEMMA ServiceGoesOn ==
    ASSUME ServiceIInv, GoOn, CallsGoOn, UNCHANGED <<epoch, late, stopped>>,
           round' \in [on : BOOLEAN, todo : SUBSET Guids, at : Guids \union {NoOne},
                       was : BOOLEAN],
           granted' \in [Actors -> BOOLEAN], profile' \in 0..MaxProfile
    PROVE  ServiceIInv'
  <1>1. ServiceTyped'
    BY DEF ServiceIInv, ServiceTyped, GoOn, CallsGoOn
  <1>2. NoneFromBeforeTimeout'
    BY DEF ServiceIInv, NoneFromBeforeTimeout, GoOn
  <1> QED
    BY <1>1, <1>2, FamiliesGoOn, CallsStayOK DEF ServiceIInv

LEMMA SameCalls == ASSUME ServiceTyped, UNCHANGED creates PROVE CallsGoOn
  BY DEF ServiceTyped, CallsGoOn, InFlight

LEMMA SameSessions == ASSUME ServiceTyped, UNCHANGED sessions PROVE GoOn /\ Live' = Live
  BY DEF ServiceTyped, SessionsTyped, GoOn, Live

\* Steps of the gateway.
LEMMA GatewayLeavesService ==
    ASSUME ServiceIInv, GoOn, Service PROVE ServiceIInv'
  BY ServiceGoesOn, SameCalls DEF Service, ServiceIInv, ServiceTyped

\* What closeGrant does to the sessions.
LEMMA CloseGrantGoesOn ==
    ASSUME ServiceIInv, NEW g \in Guids \union {NoOne}, CloseGrant(g)
    PROVE  GoOn
  BY InvalidateGoesOn DEF CloseGrant, Whole, ServiceIInv, ServiceTyped

LEMMA RoundServiceStep ==
    ASSUME ServiceIInv, RoundStep PROVE GoOn /\ ServiceIInv'
  <1> DEFINE Rounds == [on : BOOLEAN, todo : SUBSET Guids, at : Guids \union {NoOne},
                        was : BOOLEAN]
  <1>1. ServiceTyped /\ round \in Rounds /\ granted \in [Actors -> BOOLEAN]
        /\ Live \subseteq Guids
    BY DEF ServiceIInv, ServiceTyped, Live
  <1>2. UNCHANGED <<creates, epoch, late, stopped, granted, profile>>
    BY DEF RoundStep, RoundStart, RoundNext, RoundChecked, RoundEnd
  <1>3. GoOn
    BY <1>1, SameSessions, CloseGrantGoesOn
       DEF RoundStep, RoundStart, RoundNext, RoundChecked, RoundEnd, NoClose
  <1>4. round' \in Rounds
    <2>1. CASE RoundStart
      BY <1>1, <2>1 DEF RoundStart, NoRound
    <2>2. CASE RoundNext
      <3>1. PICK g \in round.todo :
               \/ round' = [round EXCEPT !.todo = @ \ {g}]
               \/ /\ round' = [round EXCEPT !.todo = @ \ {g}, !.at = g,
                                            !.was = granted[sessions[g].actor]]
                  /\ g \in Live
        BY <2>2 DEF RoundNext
      <3>2. g \in Guids
        BY <1>1
      <3>3. g \in Live => granted[sessions[g].actor] \in BOOLEAN
        BY <1>1, LiveSession DEF ServiceTyped, Session
      <3> QED
        BY <1>1, <3>1, <3>2, <3>3
    <2>3. CASE RoundChecked
      BY <1>1, <2>3 DEF RoundChecked
    <2>4. CASE RoundEnd
      BY <2>4 DEF RoundEnd, NoRound
    <2> QED
      BY <2>1, <2>2, <2>3, <2>4 DEF RoundStep
  <1> QED
    BY <1>1, <1>2, <1>3, <1>4, ServiceGoesOn, SameCalls DEF ServiceTyped

\* A call goes on to the next stage of the same request, or is over.
LEMMA ToCreateGoesOn ==
    ASSUME ServiceIInv, NEW g \in Guids, creates[g] \in Call,
           NEW pc \in {"validate", "record", "denied"}, NEW was \in BOOLEAN,
           ToCreate(g, pc, was), pc # "denied" => InFlight(g)
    PROVE  CallsGoOn
  <1> DEFINE q == [creates[g] EXCEPT !.pc = pc, !.was = was]
  <1>1. q \in Call /\ q.pc = pc /\ q.kind = creates[g].kind /\ q.parent = creates[g].parent
        /\ q.actor = creates[g].actor
    BY DEF Call
  <1>2. creates' = [creates EXCEPT ![g] = q]
    BY DEF ToCreate
  <1>3. creates[g] # Over
    BY DEF Call, Over
  <1> HIDE DEF q
  <1>4. creates' \in [Guids -> Call \union {Unused, Over}]
        /\ \A x \in Guids : creates'[x] = IF x = g THEN q ELSE creates[x]
    BY <1>1, <1>2 DEF ServiceIInv, ServiceTyped
  <1> QED
    BY <1>1, <1>3, <1>4 DEF CallsGoOn, InFlight

LEMMA ReleaseGoesOn ==
    ASSUME ServiceIInv, NEW g \in Guids, Release(g) PROVE CallsGoOn
  <1>1. creates' = [creates EXCEPT ![g] = Over]
    BY DEF Release
  <1> QED
    BY <1>1 DEF CallsGoOn, InFlight, Over, ServiceIInv, ServiceTyped

\* A call in progress is typed.
LEMMA CallTyped ==
    ASSUME ServiceIInv, NEW g \in Guids,
           creates[g].pc \in {"parent", "validate", "record", "denied"}
    PROVE  creates[g] \in Call /\ creates[g].actor \in Actors
           /\ creates[g].parent \in Guids \union {NoOne}
  BY DEF ServiceIInv, ServiceTyped, Unused, Over, Call

LEMMA CreateStartStep ==
    ASSUME ServiceIInv, NEW g \in Guids, NEW a \in Actors, NEW kind \in {"desktop", "file"},
           NEW p \in Guids \union {NoOne}, CreateStart(g, a, kind, p),
           kind = "desktop" => p = NoOne,
           kind = "file" => Owned(p, a)
    PROVE  ServiceIInv'
  <1> PICK pc \in {"validate", "parent", "denied"} :
        /\ creates' = [creates EXCEPT ![g] =
              [pc |-> pc, kind |-> kind, actor |-> a, parent |-> p,
               was |-> granted[a], profile |-> profile, epoch |-> epoch]]
        /\ pc \in {"validate", "parent"} /\ kind = "file" =>
              sessions[p].kind = "desktop" /\ sessions[p].active
    BY DEF CreateStart
  <1> DEFINE q == [pc |-> pc, kind |-> kind, actor |-> a, parent |-> p,
                   was |-> granted[a], profile |-> profile, epoch |-> epoch]
  <1>1. UNCHANGED <<sessions, epoch, late, round, stopped, granted, profile>> /\ creates[g] = Unused
    BY DEF CreateStart, NoClose
  <1>2. q \in Call
    BY DEF Call, ServiceIInv, ServiceTyped
  <1>3. /\ q.pc = pc /\ q.kind = kind /\ q.actor = a /\ q.parent = p
    OBVIOUS
  <1> HIDE DEF q
  <1>4. creates' = [creates EXCEPT ![g] = q]
    BY DEF q
  <1>5. creates' \in [Guids -> Call \union {Unused, Over}]
        /\ \A x \in Guids : creates'[x] = IF x = g THEN q ELSE creates[x]
    BY <1>2, <1>4 DEF ServiceIInv, ServiceTyped
  <1>6. Live' = Live
    BY <1>1 DEF Live
  <1>7. creates[g] # Over
    BY <1>1 DEF Unused, Over
  <1>8. FamiliesOK'
    BY <1>1, <1>5, <1>6, <1>7 DEF ServiceIInv, FamiliesOK, FamilyOK, DesktopOf, Live
  <1>9. CallsOK'
    <2> SUFFICES ASSUME NEW x \in Guids, InFlight(x)' PROVE CallOK(x)'
      BY DEF CallsOK
    <2>1. CASE x # g
      BY <1>1, <1>5, <1>6, <1>7, <2>1 DEF ServiceIInv, CallsOK, CallOK, InFlight, DesktopOf
    <2>2. CASE x = g
      <3>1. CASE kind = "desktop"
        BY <1>3, <1>5, <2>2, <3>1 DEF CallOK
      <3>2. CASE kind = "file"
        <4>1. p \in Live /\ DesktopOf(p, a) /\ creates[p] = Over /\ p \in Guids
          BY <1>3, <1>5, <2>2, <3>2
             DEF Owned, Current, DesktopOf, InFlight, ServiceIInv, FamiliesOK, FamilyOK, Live
        <4>2. p # g
          BY <4>1, <1>7
        <4> QED
          BY <1>1, <1>3, <1>5, <2>2, <3>2, <4>1, <4>2 DEF CallOK, DesktopOf
      <3> QED
        BY <3>1, <3>2
    <2> QED
      BY <2>1, <2>2
  <1>10. ServiceTyped' /\ NoneFromBeforeTimeout'
    BY <1>1, <1>5, <1>6 DEF ServiceIInv, ServiceTyped, SessionsTyped, NoneFromBeforeTimeout
  <1> QED
    BY <1>8, <1>9, <1>10 DEF ServiceIInv

\* A session is made by a call whose desktop, if it has one, still lives.
LEMMA CreateRecordedStep ==
    ASSUME ServiceIInv, NEW g \in Guids, CreateRecorded(g) PROVE ServiceIInv'
  <1>1. UNCHANGED <<epoch, late, round, stopped, granted, profile>> /\ creates[g].pc = "record"
    BY DEF CreateRecorded
  <1>2. creates[g] \in Call /\ InFlight(g)
    BY <1>1, CallTyped DEF InFlight
  <1>3. CASE ToCreate(g, "denied", FALSE) /\ NoClose
    <2>1. CallsGoOn /\ GoOn
      BY <1>2, <1>3, ToCreateGoesOn, SameSessions DEF NoClose, ServiceIInv
    <2> QED
      BY <1>1, <2>1, ServiceGoesOn DEF ServiceIInv, ServiceTyped
  <1>4. CASE StillAvailable(g) /\ Release(g)
             /\ sessions' = [sessions EXCEPT ![g] =
                [kind |-> creates[g].kind, actor |-> creates[g].actor,
                 parent |-> creates[g].parent, profile |-> creates[g].profile,
                 active |-> FALSE, relay |-> NoOne, sockets |-> {}, age |-> 0,
                 epoch |-> creates[g].epoch]]
    <2> DEFINE q == [kind |-> creates[g].kind, actor |-> creates[g].actor,
                     parent |-> creates[g].parent, profile |-> creates[g].profile,
                     active |-> FALSE, relay |-> NoOne, sockets |-> {}, age |-> 0,
                     epoch |-> creates[g].epoch]
    <2>1. q \in Session
      BY <1>2 DEF Session, Call
    <2>2. /\ q.kind = creates[g].kind /\ q.actor = creates[g].actor
          /\ q.parent = creates[g].parent /\ q.epoch = creates[g].epoch
      OBVIOUS
    <2>3. sessions' = [sessions EXCEPT ![g] = q]
      BY <1>4
    <2> HIDE DEF q
    <2>4. SessionsTyped' /\ \A x \in Guids : sessions'[x] = IF x = g THEN q ELSE sessions[x]
      BY <2>1, <2>3 DEF ServiceIInv, ServiceTyped, SessionsTyped
    <2>5. Live' = Live \union {g} /\ g \notin Live
      <3>1. q # NoOne /\ creates[g] # Over
        BY <1>2, <2>1 DEF Session, NoOne, Call, Over
      <3> QED
        BY <2>4, <3>1 DEF Live, ServiceIInv, FamiliesOK, FamilyOK
    <2>6. CallsGoOn /\ creates'[g] = Over
      BY <1>4, ReleaseGoesOn DEF Release, ServiceIInv, ServiceTyped
    <2>7. creates[g].kind = "file" =>
             creates[g].parent \in Live /\ DesktopOf(creates[g].parent, creates[g].actor)
      BY <1>2, <1>4 DEF StillAvailable, ServiceIInv, CallsOK, CallOK
    <2>8. FamiliesOK'
      <3> SUFFICES ASSUME NEW x \in Live' PROVE FamilyOK(x)'
        BY DEF FamiliesOK
      <3>1. CASE x # g
        BY <2>4, <2>5, <2>6, <3>1 DEF ServiceIInv, FamiliesOK, FamilyOK, DesktopOf, CallsGoOn, Live
      <3>2. CASE x = g
        BY <1>2, <2>2, <2>4, <2>5, <2>6, <2>7, <3>2 DEF ServiceIInv, CallsOK, CallOK, FamilyOK, DesktopOf, Live
      <3> QED
        BY <3>1, <3>2
    <2>9. CallsOK'
      <3> SUFFICES ASSUME NEW x \in Guids, InFlight(x)' PROVE CallOK(x)'
      BY DEF CallsOK
      <3>1. /\ InFlight(x) /\ creates'[x].kind = creates[x].kind
            /\ creates'[x].parent = creates[x].parent /\ creates'[x].actor = creates[x].actor
        BY <2>6 DEF CallsGoOn
      <3>2. creates[g] # Over
        BY <1>2 DEF Call, Over
      <3> QED
        BY <2>4, <2>5, <2>6, <3>1, <3>2 DEF CallsGoOn, ServiceIInv, CallsOK, CallOK, FamilyOK, DesktopOf
    <2>10. NoneFromBeforeTimeout'
      BY <1>1, <1>4, <2>2, <2>4, <2>5
         DEF StillAvailable, ServiceIInv, ServiceTyped, NoneFromBeforeTimeout, Live
    <2>11. ServiceTyped'
      BY <1>1, <2>4, <2>6 DEF ServiceIInv, ServiceTyped, CallsGoOn
    <2> QED
      BY <2>8, <2>9, <2>10, <2>11 DEF ServiceIInv
  <1> QED
    BY <1>3, <1>4 DEF CreateRecorded

\* The other steps of the service.
LEMMA CallStep ==
    ASSUME ServiceIInv, NEW g \in Guids, CreateStep(g) PROVE ServiceIInv'
  <1>1. ServiceTyped /\ granted \in [Actors -> BOOLEAN] /\ profile \in 0..MaxProfile
    BY DEF ServiceIInv, ServiceTyped
  <1>2. CASE CreateParentChecked(g)
    <2>1. creates[g] \in Call /\ InFlight(g)
          /\ creates[g].actor \in Actors /\ creates[g].parent \in Guids \union {NoOne}
      BY <1>2, CallTyped DEF CreateParentChecked, InFlight
    <2>2. CallsGoOn
      <3>1. granted[creates[g].actor] \in BOOLEAN
        BY <1>1, <2>1
      <3> QED
        BY <1>2, <2>1, <3>1, ToCreateGoesOn DEF CreateParentChecked
    <2>3. GoOn
      BY <1>1, <1>2, <2>1, SameSessions, CloseGrantGoesOn DEF CreateParentChecked, NoClose
    <2> QED
      BY <1>1, <1>2, <2>2, <2>3, ServiceGoesOn DEF CreateParentChecked, ServiceTyped
  <1>3. CASE CreateValidated(g)
    <2>1. creates[g] \in Call /\ InFlight(g)
      BY <1>3, CallTyped DEF CreateValidated, InFlight
    <2>2. CallsGoOn /\ GoOn
      BY <1>1, <1>3, <2>1, ToCreateGoesOn, SameSessions DEF CreateValidated, NoClose
    <2> QED
      BY <1>1, <1>3, <2>2, ServiceGoesOn DEF CreateValidated, ServiceTyped
  <1>4. CASE CreateDenied(g)
    <2>1. CallsGoOn /\ GoOn
      BY <1>1, <1>4, ReleaseGoesOn, SameSessions DEF CreateDenied, NoClose
    <2> QED
      BY <1>1, <1>4, <2>1, ServiceGoesOn DEF CreateDenied, ServiceTyped
  <1> QED
    BY <1>2, <1>3, <1>4, CreateRecordedStep DEF CreateStep

LEMMA WorldStep ==
    ASSUME ServiceIInv,
           \/ \E g \in Guids : End(g) \/ Age(g)
           \/ LateSettles \/ ChangeProfile \/ \E a \in Actors : Revoke(a)
    PROVE  GoOn /\ ServiceIInv'
  <1>1. ServiceTyped
    BY DEF ServiceIInv
  <1>2. ASSUME NEW g \in Guids, End(g) PROVE GoOn /\ ServiceIInv'
    BY <1>1, <1>2, CloseGrantGoesOn, SameCalls, ServiceGoesOn DEF End, ServiceTyped
  <1>3. ASSUME NEW g \in Guids, Age(g) PROVE GoOn /\ ServiceIInv'
    <2> DEFINE q == [sessions[g] EXCEPT !.age = @ + 1]
    <2>1. sessions[g] \in Session /\ g \in Live /\ sessions[g].age < 2
      BY <1>1, <1>3, LiveSession DEF Age, ServiceTyped
    <2>2. /\ q \in Session /\ q.kind = sessions[g].kind /\ q.actor = sessions[g].actor
          /\ q.parent = sessions[g].parent /\ q.epoch = sessions[g].epoch
          /\ q.active = sessions[g].active
      BY <2>1 DEF Session
    <2>3. sessions' = [sessions EXCEPT ![g] = q]
      BY <1>3 DEF Age
    <2> HIDE DEF q
    <2>4. GoOn
      BY <1>1, <2>1, <2>2, <2>3, ChangeGoesOn DEF ServiceTyped
    <2> QED
      BY <1>1, <1>3, <2>4, SameCalls, ServiceGoesOn DEF Age, ServiceTyped
  <1>4. CASE LateSettles
    <2>1. GoOn /\ CallsGoOn /\ Live' = Live
      BY <1>1, <1>4, SameSessions, SameCalls DEF LateSettles
    <2>2. ServiceTyped'
      BY <1>4 DEF ServiceIInv, ServiceTyped, SessionsTyped, LateSettles
    <2>3. NoneFromBeforeTimeout'
      BY <1>1, <1>4, <2>1 DEF ServiceIInv, ServiceTyped, NoneFromBeforeTimeout, LateSettles
    <2> QED
      BY <2>1, <2>2, <2>3, FamiliesGoOn, CallsStayOK DEF ServiceIInv
  <1>5. CASE ChangeProfile
    BY <1>1, <1>5, SameSessions, SameCalls, ServiceGoesOn, WebClientBounds
       DEF ChangeProfile, NoClose, ServiceTyped
  <1>6. ASSUME NEW a \in Actors, Revoke(a) PROVE GoOn /\ ServiceIInv'
    <2>1. granted' \in [Actors -> BOOLEAN]
      BY <1>1, <1>6 DEF Revoke, ServiceTyped
    <2> QED
      BY <1>1, <1>6, <2>1, SameSessions, SameCalls, ServiceGoesOn DEF Revoke, NoClose, ServiceTyped
  <1> QED
    BY <1>2, <1>3, <1>4, <1>5, <1>6

\* A verification times out, or the server stops: no session is left.
LEMMA AllEndStep ==
    ASSUME ServiceIInv, VerificationTimeout \/ Shutdown PROVE GoOn /\ ServiceIInv'
  <1>1. ServiceTyped /\ FamiliesOK
    BY DEF ServiceIInv
  <1>2. Invalidate(Live) /\ UNCHANGED <<creates, round, granted, profile>>
    BY DEF VerificationTimeout, Shutdown
  <1>3. GoOn /\ Live' = {}
    BY <1>1, <1>2, InvalidateGoesOn DEF Whole, ServiceTyped
  <1>4. CallsGoOn
    BY <1>1, <1>2, SameCalls
  <1>5. ServiceTyped'
    <2>1. epoch' \in 0..MaxTimeouts /\ late' \in Nat /\ late' <= epoch' /\ stopped' \in BOOLEAN
      <3>1. CASE VerificationTimeout
        BY <1>1, <3>1, WebClientBounds DEF ServiceTyped, VerificationTimeout
      <3>2. CASE Shutdown
        BY <1>1, <3>2 DEF ServiceTyped, Shutdown
      <3> QED
        BY <3>1, <3>2
    <2> QED
      BY <1>1, <1>2, <1>3, <2>1 DEF ServiceTyped, GoOn
  <1>6. NoneFromBeforeTimeout'
    BY <1>3 DEF NoneFromBeforeTimeout
  <1> QED
    BY <1>3, <1>4, <1>5, <1>6, FamiliesGoOn, CallsStayOK DEF ServiceIInv

LEMMA ServiceStepOK == ASSUME ServiceIInv, ServiceStep PROVE ServiceIInv'
  <1>1. CASE CreateDesktop
    <2> PICK g \in Guids, a \in Actors : CreateStart(g, a, "desktop", NoOne)
      BY <1>1 DEF CreateDesktop
    <2> QED
      BY CreateStartStep
  <1>2. CASE CreateFile
    <2> PICK g \in Guids, a \in Actors, p \in Guids :
              Owned(p, a) /\ CreateStart(g, a, "file", p)
      BY <1>2 DEF CreateFile
    <2> QED
      BY CreateStartStep
  <1> QED
    BY <1>1, <1>2, CallStep, WorldStep, RoundServiceStep, AllEndStep DEF ServiceStep

(***************************************************************************)
(* Sessions that end take their channels along.                            *)
(***************************************************************************)

\* A channel goes on, unless its session is in S, or leaves off.
EndsWith(S, d) ==
    \/ /\ channels'[d] = channels[d]
       /\ channels[d].stage \in Claimed => channels[d].guid \notin S
    \/ /\ channels'[d].guid = channels[d].guid /\ channels'[d].phase = channels[d].phase
       /\ channels'[d].stage \notin Claimed
       /\ channels'[d].stage \in Holding => channels[d].stage \in Holding
       /\ channels[d].stage \in Claimed => channels[d].guid \in S

OverStaysOver == \A x \in Guids : creates[x] = Over => creates'[x] = Over

LEMMA EndChannels ==
    ASSUME WebIInv, NEW S, Whole(S), Invalidate(S), OverStaysOver,
           channels' \in [Channels -> Channel], \A d \in Channels : EndsWith(S, d)
    PROVE  ChannelsIInv'
  <1>0. SessionsTyped /\ FamiliesOK /\ ChannelsIInv
    BY DEF WebIInv, ServiceIInv, ServiceTyped
  <1>1. /\ tickets' \subseteq tickets /\ Live' = Live \ S
        /\ \A x \in Live' : sessions'[x] = sessions[x]
    BY <1>0, InvalidateGoesOn
  <1>2. ChannelsTyped'
    BY <1>0, <1>1 DEF ChannelsIInv, ChannelsTyped
  <1>3. Linked'
    <2>1. ASSUME NEW c \in Channels, channels'[c].stage \in Claimed
          PROVE  channels'[c].guid \in Live' /\ c \in sessions'[channels'[c].guid].sockets
      BY <1>0, <1>1, <2>1 DEF EndsWith, ChannelsIInv, Linked
    <2>2. ASSUME NEW g \in Live', NEW c \in sessions'[g].sockets
          PROVE  channels'[c].stage \in Claimed /\ channels'[c].guid = g
      <3>1. g \in Live /\ g \notin S /\ c \in sessions[g].sockets
        BY <1>1
      <3>2. channels[c].stage \in Claimed /\ channels[c].guid = g /\ c \in Channels
        BY <1>0, <3>1, LiveSession DEF ChannelsIInv, Linked, Session
      <3> QED
        BY <3>1, <3>2 DEF EndsWith
    <2> QED
      BY <2>1, <2>2 DEF Linked
  <1>4. RelayStages'
    <2> SUFFICES ASSUME NEW c \in Channels, channels'[c].stage \in Claimed
                 PROVE  channels'[c] = channels[c]
                        /\ sessions'[channels[c].guid] = sessions[channels[c].guid]
      BY <1>0 DEF RelayStages, ChannelsIInv, Claimed
    <2> QED
      BY <1>0, <1>1 DEF EndsWith, ChannelsIInv, Linked
  <1>5. TicketsOnce'
    <2>1. \A d \in Channels :
             /\ channels'[d].guid = channels[d].guid /\ channels'[d].phase = channels[d].phase
             /\ channels'[d].stage \in Holding => channels[d].stage \in Holding
      BY DEF EndsWith
    <2>2. \A t \in tickets : t[1] \in Guids
      BY <1>0 DEF ChannelsIInv, ChannelsTyped
    <2> QED
      BY <1>0, <1>1, <2>1, <2>2 DEF ChannelsIInv, TicketsOnce, OverStaysOver
  <1>6. ActiveHasRelay'
    <2>1. ASSUME NEW g \in Live', sessions'[g].active
          PROVE  \E c \in Channels : /\ channels'[c].guid = g /\ channels'[c].phase = "relay"
                                     /\ channels'[c].stage \in {"opened", "opaque"}
      <3>1. g \in Live /\ g \notin S /\ sessions[g].active
        BY <1>1, <2>1
      <3> PICK c \in Channels : /\ channels[c].guid = g /\ channels[c].phase = "relay"
                                /\ channels[c].stage \in {"opened", "opaque"}
        BY <1>0, <3>1 DEF ChannelsIInv, ActiveHasRelay
      <3> QED
        BY <3>1 DEF EndsWith, Claimed
    <2>2. \A g, h \in Live' :
             sessions'[g].relay # NoOne /\ sessions'[g].relay = sessions'[h].relay => g = h
      BY <1>0, <1>1 DEF ChannelsIInv, ActiveHasRelay
    <2> QED
      BY <2>1, <2>2 DEF ActiveHasRelay
  <1> QED
    BY <1>2, <1>3, <1>4, <1>5, <1>6 DEF ChannelsIInv

LEMMA StoppedChannel ==
    ASSUME NEW ch \in Channel
    PROVE  /\ Stopped(ch) \in Channel
           /\ Stopped(ch).guid = ch.guid /\ Stopped(ch).phase = ch.phase
           /\ Stopped(ch).stage \in {"abandoned", "closed"}
  BY DEF Stopped, Channel, Stages

\* The close callbacks stop exactly the channels of the sessions that ended.
LEMMA CallbacksEnd ==
    ASSUME WebIInv, NEW S, Whole(S), Invalidate(S), OverStaysOver,
           NEW chs \in [Channels -> Channel], AfterCallbacks(chs),
           \A d \in Channels :
              \/ chs[d] = channels[d]
              \/ /\ chs[d].guid = channels[d].guid /\ chs[d].phase = channels[d].phase
                 /\ chs[d].stage \notin Claimed
                 /\ chs[d].stage \in Holding => channels[d].stage \in Holding
                 /\ channels[d].stage \in Claimed => channels[d].guid \in S
    PROVE  ChannelsIInv'
  <1>0. SessionsTyped /\ FamiliesOK /\ ChannelsIInv
    BY DEF WebIInv, ServiceIInv, ServiceTyped
  <1>1. S \subseteq Live /\ Live \subseteq Guids
    BY <1>0, WholeIsClosed DEF Live
  <1>2. \A d \in Channels :
           d \in Closing <=> channels[d].stage \in Claimed /\ channels[d].guid \in S
    <2>1. \A x \in Live : sessions'[x] = NoOne <=> x \in S
      BY <1>1 DEF Invalidate, Live
    <2>2. \A d : d \in Closing <=> \E x \in S : d \in sessions[x].sockets
      BY <1>1, <2>1 DEF Closing
    <2> QED
      BY <1>0, <1>1, <2>2 DEF ChannelsIInv, Linked
  <1>3. channels' = [c \in Channels |-> IF c \in Closing THEN Stopped(chs[c]) ELSE chs[c]]
    BY DEF AfterCallbacks
  <1>4. channels' \in [Channels -> Channel]
    BY <1>3, StoppedChannel
  <1>5. \A d \in Channels : EndsWith(S, d)
    <2> SUFFICES ASSUME NEW d \in Channels PROVE EndsWith(S, d)
      OBVIOUS
    <2>1. CASE d \in Closing
      <3>1. channels'[d] = Stopped(chs[d]) /\ chs[d] \in Channel
        BY <1>3, <2>1
      <3>2. channels'[d].guid = chs[d].guid /\ channels'[d].phase = chs[d].phase
            /\ channels'[d].stage \in {"abandoned", "closed"}
        BY <3>1, StoppedChannel
      <3> QED
        BY <1>2, <2>1, <3>2 DEF EndsWith, Claimed, Holding
    <2>2. CASE d \notin Closing
      BY <1>2, <1>3, <2>2 DEF EndsWith
    <2> QED
      BY <2>1, <2>2
  <1> QED
    BY <1>4, <1>5, EndChannels

(***************************************************************************)
(* Steps that end no session.                                              *)
(***************************************************************************)

\* No callbacks.
LEMMA NoCallbacks ==
    ASSUME Live \subseteq Live', NEW chs \in [Channels -> Channel], AfterCallbacks(chs)
    PROVE  channels' = chs
  <1>1. Closing = {}
    BY DEF Closing, Live
  <1> QED
    BY <1>1 DEF AfterCallbacks

\* One channel moves on.
LEMMA MoveChannel ==
    ASSUME WebIInv, UNCHANGED <<sessions, tickets, creates>>,
           NEW c \in Channels, NEW stage \in Stages, NEW was \in BOOLEAN, Move(c, stage, was),
           stage \in Claimed <=> channels[c].stage \in Claimed,
           stage \in Holding => channels[c].stage \in Holding,
           stage \in {"marking", "recording"} => channels[c].phase = "relay",
           stage \in {"opened", "opaque"} <=> channels[c].stage \in {"opened", "opaque"},
           stage # "opened"
    PROVE  ChannelsIInv'
  <1>0. ChannelsIInv /\ channels[c] \in Channel /\ Live' = Live
    BY DEF WebIInv, ChannelsIInv, ChannelsTyped, Live
  <1> DEFINE q == [channels[c] EXCEPT !.stage = stage, !.was = was]
             chs == [channels EXCEPT ![c] = q]
  <1>1. q \in Channel /\ q.stage = stage /\ q.guid = channels[c].guid /\ q.phase = channels[c].phase
    BY <1>0 DEF Channel
  <1>2. [channels EXCEPT ![c].stage = stage, ![c].was = was] = chs
    BY <1>0 DEF ChannelsIInv, ChannelsTyped
  <1> HIDE DEF q
  <1>3. chs \in [Channels -> Channel]
    BY <1>0, <1>1 DEF ChannelsIInv, ChannelsTyped
  <1>4. channels' = chs
    BY <1>0, <1>2, <1>3, NoCallbacks DEF Move
  <1>5. \A d \in Channels : channels'[d] = IF d = c THEN q ELSE channels[d]
    BY <1>0, <1>4 DEF ChannelsIInv, ChannelsTyped
  <1>6. ChannelsTyped'
    BY <1>0, <1>3, <1>4 DEF ChannelsIInv, ChannelsTyped
  <1>7. Linked'
    <2>1. \A g \in Live : sessions[g].sockets \subseteq Channels
      BY LiveSession DEF WebIInv, ServiceIInv, ServiceTyped, Session
    <2> QED
      BY <1>0, <1>1, <1>5, <2>1 DEF ChannelsIInv, Linked
  <1>8. RelayStages'
    BY <1>0, <1>1, <1>5 DEF ChannelsIInv, RelayStages
  <1>9. TicketsOnce'
    BY <1>0, <1>1, <1>5 DEF ChannelsIInv, TicketsOnce
  <1>10. ActiveHasRelay'
    BY <1>0, <1>1, <1>5 DEF ChannelsIInv, ActiveHasRelay
  <1> QED
    BY <1>6, <1>7, <1>8, <1>9, <1>10 DEF ChannelsIInv

\* Sessions go on, and some are new: the channels have nothing to do with it.
Adds(N) ==
    /\ N \subseteq Guids
    /\ \A x \in N : creates[x] # Over /\ creates'[x] = Over
    /\ Live' = Live \union N
    /\ \A x \in Live : /\ sessions'[x].sockets = sessions[x].sockets
                       /\ sessions'[x].active = sessions[x].active
                       /\ sessions'[x].relay = sessions[x].relay
    /\ \A x \in N : /\ sessions'[x].sockets = {} /\ sessions'[x].active = FALSE
                    /\ sessions'[x].relay = NoOne
    /\ tickets' \subseteq tickets \union (N \X Phases)

LEMMA QuietChannels ==
    ASSUME WebIInv, UNCHANGED channels, OverStaysOver, NEW N, Adds(N)
    PROVE  ChannelsIInv'
  <1> USE DEF Adds
  <1>0. ChannelsIInv /\ \A x \in N : x \notin Live
    BY DEF WebIInv, ServiceIInv, FamiliesOK, FamilyOK
  <1>1. ChannelsTyped'
    BY <1>0 DEF ChannelsIInv, ChannelsTyped
  <1>2. Linked'
    BY <1>0 DEF ChannelsIInv, Linked
  <1>3. RelayStages'
    BY <1>0 DEF ChannelsIInv, RelayStages, Linked, Claimed
  <1>4. TicketsOnce'
    <2>1. ASSUME NEW t \in tickets' PROVE t \in tickets \/ t[1] \in N
      OBVIOUS
    <2>2. \A t \in tickets : t[1] \in Guids
      BY <1>0 DEF ChannelsIInv, ChannelsTyped
    <2> QED
      BY <1>0, <2>1, <2>2 DEF ChannelsIInv, TicketsOnce, OverStaysOver
  <1>5. ActiveHasRelay'
    BY <1>0 DEF ChannelsIInv, ActiveHasRelay
  <1> QED
    BY <1>1, <1>2, <1>3, <1>4, <1>5 DEF ChannelsIInv

LEMMA SameChannels ==
    ASSUME WebIInv, UNCHANGED <<channels, tickets>>, OverStaysOver, Live' = Live,
           \A x \in Live : /\ sessions'[x].sockets = sessions[x].sockets
                           /\ sessions'[x].active = sessions[x].active
                           /\ sessions'[x].relay = sessions[x].relay
    PROVE  ChannelsIInv'
  <1>1. Adds({})
    BY DEF Adds
  <1> QED
    BY <1>1, QuietChannels

\* A channel moves on with its session: it is attached, activates it or
\* binds its relay.
ChangesWith(c, g, stage, q) ==
    /\ channels[c].guid = g
    /\ channels[c].stage \in Holding \ {"opened", "opaque"}
    /\ stage \in Claimed \ {"opaque"} /\ Move(c, stage, FALSE)
    /\ stage \in {"marking", "recording", "opened"} => channels[c].phase = "relay"
    /\ sessions' = [sessions EXCEPT ![g] = q]
    /\ q.kind = sessions[g].kind /\ q.actor = sessions[g].actor
    /\ q.parent = sessions[g].parent /\ q.epoch = sessions[g].epoch
    /\ q.sockets = sessions[g].sockets \union {c}
    /\ IF stage = "opened" THEN q.active ELSE q.active = sessions[g].active
    /\ q.relay = sessions[g].relay \/ \A h \in Live : sessions[h].relay # q.relay
    /\ UNCHANGED <<tickets, creates>>

LEMMA ChangeBoth ==
    ASSUME WebIInv, NEW c \in Channels, NEW g \in Live, NEW stage, NEW q \in Session,
           ChangesWith(c, g, stage, q)
    PROVE  GoOn /\ ChannelsIInv'
  <1> USE DEF ChangesWith
  <1>0. ChannelsIInv /\ SessionsTyped /\ channels \in [Channels -> Channel]
    BY DEF WebIInv, ServiceIInv, ServiceTyped, ChannelsIInv, ChannelsTyped
  <1>1. GoOn /\ Live' = Live
        /\ \A x \in Live : sessions'[x] = IF x = g THEN q ELSE sessions[x]
    BY <1>0, ChangeGoesOn
  <1> DEFINE ch == [channels[c] EXCEPT !.stage = stage, !.was = FALSE]
             chs == [channels EXCEPT ![c] = ch]
  <1>2. ch \in Channel /\ ch.stage = stage /\ ch.guid = g /\ ch.phase = channels[c].phase
    BY <1>0 DEF Channel, Claimed, Stages
  <1>3. [channels EXCEPT ![c].stage = stage, ![c].was = FALSE] = chs
    BY <1>0
  <1> HIDE DEF ch
  <1>4. channels' = chs
    BY <1>0, <1>1, <1>2, <1>3, NoCallbacks DEF Move
  <1>5. \A d \in Channels : channels'[d] = IF d = c THEN ch ELSE channels[d]
    BY <1>0, <1>4
  <1>6. ChannelsTyped'
    BY <1>0, <1>2, <1>4 DEF ChannelsIInv, ChannelsTyped
  <1>7. Linked'
    <2>1. \A x \in Live : sessions[x].sockets \subseteq Channels
      BY <1>0, LiveSession DEF Session
    <2> QED
      BY <1>0, <1>1, <1>2, <1>5, <2>1 DEF ChannelsIInv, Linked
  <1>8. RelayStages'
    BY <1>0, <1>1, <1>2, <1>5 DEF ChannelsIInv, RelayStages, Linked, Claimed
  <1>9. TicketsOnce'
    BY <1>0, <1>2, <1>5 DEF ChannelsIInv, TicketsOnce, Holding
  <1>10. ActiveHasRelay'
    <2>1. ASSUME NEW x \in Live', sessions'[x].active
          PROVE  \E d \in Channels : /\ channels'[d].guid = x /\ channels'[d].phase = "relay"
                                     /\ channels'[d].stage \in {"opened", "opaque"}
      <3>1. CASE x = g /\ stage = "opened"
        BY <1>2, <1>5, <3>1
      <3>2. CASE ~(x = g /\ stage = "opened")
        <4>1. x \in Live /\ sessions[x].active
          BY <1>1, <2>1, <3>2
        <4> QED
          BY <1>0, <1>5, <4>1 DEF ChannelsIInv, ActiveHasRelay
      <3> QED
        BY <3>1, <3>2
    <2>2. ASSUME NEW x \in Live', NEW y \in Live',
                 sessions'[x].relay # NoOne, sessions'[x].relay = sessions'[y].relay
          PROVE  x = y
      BY <1>0, <1>1, <2>2 DEF ChannelsIInv, ActiveHasRelay
    <2> QED
      BY <2>1, <2>2 DEF ActiveHasRelay
  <1> QED
    BY <1>1, <1>6, <1>7, <1>8, <1>9, <1>10 DEF ChannelsIInv

\* The ticket a channel uses is nobody else's any more.
LEMMA TicketStep ==
    ASSUME WebIInv, NEW c \in Channels, ReceiveTicket(c) PROVE ChannelsIInv'
  <1>0. ChannelsIInv /\ channels \in [Channels -> Channel] /\ SessionsTyped
        /\ granted \in [Actors -> BOOLEAN] /\ tickets \subseteq Guids \X Phases
    BY DEF WebIInv, ServiceIInv, ServiceTyped, ChannelsIInv, ChannelsTyped
  <1> PICK t \in tickets :
          /\ tickets' = tickets \ {t}
          /\ \/ /\ Current(t[1])
                /\ channels' = [channels EXCEPT ![c] =
                      [stage |-> "authorizing", guid |-> t[1], phase |-> t[2],
                       was |-> granted[sessions[t[1]].actor]]]
             \/ channels' = [channels EXCEPT ![c].stage = "closed"]
    BY DEF ReceiveTicket
  <1>1. UNCHANGED <<sessions, creates>> /\ channels[c].stage = "ticket" /\ Live' = Live
    BY DEF ReceiveTicket, Service, Live
  <1>2. PICK ch \in Channel :
          /\ channels' = [channels EXCEPT ![c] = ch]
          /\ \/ ch.stage = "authorizing" /\ ch.guid = t[1] /\ ch.phase = t[2]
             \/ ch.stage = "closed"
    <2>1. CASE Current(t[1]) /\ channels' = [channels EXCEPT ![c] =
                      [stage |-> "authorizing", guid |-> t[1], phase |-> t[2],
                       was |-> granted[sessions[t[1]].actor]]]
      <3> DEFINE ch == [stage |-> "authorizing", guid |-> t[1], phase |-> t[2],
                        was |-> granted[sessions[t[1]].actor]]
      <3>1. t[1] \in Guids /\ t[2] \in Phases
        BY <1>0
      <3>2. granted[sessions[t[1]].actor] \in BOOLEAN
        BY <1>0, <2>1, LiveSession DEF Current, Session
      <3>3. ch \in Channel
        BY <3>1, <3>2 DEF Channel, Stages
      <3> QED
        BY <2>1, <3>3
    <2>2. CASE channels' = [channels EXCEPT ![c].stage = "closed"]
      <3> DEFINE ch == [channels[c] EXCEPT !.stage = "closed"]
      <3>1. ch \in Channel /\ ch.stage = "closed"
        BY <1>0 DEF Channel, Stages
      <3>2. channels' = [channels EXCEPT ![c] = ch]
        BY <1>0, <2>2
      <3> QED
        BY <3>1, <3>2
    <2> QED
      BY <2>1, <2>2
  <1>3. \A d \in Channels : channels'[d] = IF d = c THEN ch ELSE channels[d]
    BY <1>0, <1>2
  <1>4. ch.stage \notin Claimed /\ channels[c].stage \notin Holding
    BY <1>1, <1>2 DEF Claimed, Holding
  <1>5. ChannelsTyped'
    BY <1>0, <1>2 DEF ChannelsTyped
  <1>6. Linked'
    <2>1. \A g \in Live : sessions[g].sockets \subseteq Channels
      BY <1>0, LiveSession DEF Session
    <2>2. \A g \in Live : c \notin sessions[g].sockets
      BY <1>0, <1>4 DEF ChannelsIInv, Linked, Holding
    <2> QED
      BY <1>0, <1>1, <1>3, <1>4, <2>1, <2>2 DEF ChannelsIInv, Linked
  <1>7. RelayStages'
    BY <1>0, <1>1, <1>3, <1>4 DEF ChannelsIInv, RelayStages, Claimed
  <1>8. TicketsOnce'
    <2>1. \A x, y \in tickets : x[1] = y[1] /\ x[2] = y[2] => x = y
      BY <1>0
    <2>2. t[1] \in Guids /\ creates[t[1]] = Over
      BY <1>0 DEF ChannelsIInv, TicketsOnce
    <2>3. \A d \in Channels : channels'[d].stage \in Holding =>
             \/ d # c /\ channels'[d] = channels[d]
             \/ d = c /\ channels'[d].guid = t[1] /\ channels'[d].phase = t[2]
      BY <1>2, <1>3 DEF Holding, Claimed
    <2>4. \A d \in Channels : channels[d].stage \in Holding =>
             ~(channels[d].guid = t[1] /\ channels[d].phase = t[2])
      BY <1>0 DEF ChannelsIInv, TicketsOnce
    <2>5. ASSUME NEW u \in tickets'
          PROVE  /\ creates'[u[1]] = Over
                 /\ \A d \in Channels : channels'[d].stage \in Holding =>
                      ~(channels'[d].guid = u[1] /\ channels'[d].phase = u[2])
      BY <1>0, <1>1, <2>1, <2>3, <2>5 DEF ChannelsIInv, TicketsOnce
    <2>6. ASSUME NEW d \in Channels, channels'[d].stage \in Holding
          PROVE  /\ channels'[d].guid \in Guids /\ creates'[channels'[d].guid] = Over
                 /\ \A e \in Channels \ {d} :
                       channels'[e].stage \in Holding /\ channels'[e].guid = channels'[d].guid
                          => channels'[e].phase # channels'[d].phase
      BY <1>0, <1>1, <2>2, <2>3, <2>4, <2>6 DEF ChannelsIInv, TicketsOnce
    <2> QED
      BY <2>5, <2>6 DEF TicketsOnce
  <1>9. ActiveHasRelay'
    BY <1>0, <1>1, <1>3 DEF ChannelsIInv, ActiveHasRelay
  <1> QED
    BY <1>5, <1>6, <1>7, <1>8, <1>9 DEF ChannelsIInv

\* stop without the grant, of a channel that does not carry its session.
LEMMA StopKeepingStep ==
    ASSUME WebIInv, NEW c \in Channels, StopKeeping(c),
           channels[c].stage \notin Claimed \ {"replied"}
    PROVE  GoOn /\ ChannelsIInv'
  <1>0. ChannelsIInv /\ channels \in [Channels -> Channel] /\ SessionsTyped
    BY DEF WebIInv, ServiceIInv, ServiceTyped, ChannelsIInv, ChannelsTyped
  <1>1. GoOn /\ Live' = Live
        /\ \A x \in Live : /\ sessions'[x].sockets = sessions[x].sockets \ {c}
                           /\ sessions'[x].active = sessions[x].active
                           /\ sessions'[x].relay = sessions[x].relay
    BY <1>0, DetachGoesOn DEF StopKeeping
  <1> DEFINE ch == Stopped(channels[c])
             chs == [channels EXCEPT ![c] = ch]
  <1>2. ch \in Channel /\ ch.stage \in {"abandoned", "closed"}
    BY <1>0, StoppedChannel
  <1>3. [channels EXCEPT ![c] = Stopped(@)] = chs
    BY <1>0
  <1> HIDE DEF ch
  <1>4. channels' = chs
    BY <1>0, <1>1, <1>2, <1>3, NoCallbacks DEF StopKeeping
  <1>5. \A d \in Channels : channels'[d] = IF d = c THEN ch ELSE channels[d]
    BY <1>0, <1>4
  <1>6. ch.stage \notin Claimed /\ ch.stage \notin Holding
    BY <1>2 DEF Claimed, Holding
  <1>7. UNCHANGED <<tickets, creates>>
    BY DEF StopKeeping, Service
  <1>8. ChannelsTyped'
    BY <1>0, <1>2, <1>4, <1>7 DEF ChannelsIInv, ChannelsTyped
  <1>9. Linked'
    <2>1. \A x \in Live : sessions[x].sockets \subseteq Channels
      BY <1>0, LiveSession DEF Session
    <2> QED
      BY <1>0, <1>1, <1>5, <1>6, <2>1 DEF ChannelsIInv, Linked
  <1>10. RelayStages'
    <2>1. ASSUME NEW d \in Channels, channels'[d].stage \in Claimed
          PROVE  d # c /\ channels'[d] = channels[d] /\ channels[d].guid \in Live
      BY <1>0, <1>5, <1>6, <2>1 DEF ChannelsIInv, Linked
    <2> QED
      BY <1>0, <1>1, <2>1 DEF ChannelsIInv, RelayStages, Claimed
  <1>11. TicketsOnce'
    BY <1>0, <1>5, <1>6, <1>7 DEF ChannelsIInv, TicketsOnce
  <1>12. ActiveHasRelay'
    <2>1. channels[c].stage \notin {"opened", "opaque"}
      BY DEF Claimed
    <2> QED
      BY <1>0, <1>1, <1>5, <2>1 DEF ChannelsIInv, ActiveHasRelay
  <1> QED
    BY <1>1, <1>8, <1>9, <1>10, <1>11, <1>12 DEF ChannelsIInv

\* A channel, not one that carries its session, ends its grant and goes on
\* at another stage; or it stays where it is until the callback stops it.
LEMMA CloseAndMove ==
    ASSUME WebIInv, NEW c \in Channels, CloseGrant(channels[c].guid), Service,
           NEW stage \in Stages, Move(c, stage, FALSE),
           \/ stage = channels[c].stage /\ channels[c].stage \in Claimed
           \/ /\ channels[c].stage \notin Claimed /\ stage \notin Claimed
              /\ stage \in Holding => channels[c].stage \in Holding
    PROVE  GoOn /\ ChannelsIInv'
  <1> DEFINE g == channels[c].guid
             ch == [channels[c] EXCEPT !.stage = stage, !.was = FALSE]
             chs == [channels EXCEPT ![c] = ch]
  <1>0. ServiceIInv /\ SessionsTyped /\ FamiliesOK /\ ChannelsIInv
        /\ channels \in [Channels -> Channel]
    BY DEF WebIInv, ServiceIInv, ServiceTyped, ChannelsIInv, ChannelsTyped
  <1>1. g \in Guids \union {NoOne}
    BY <1>0 DEF Channel
  <1>2. Whole(Family(g)) /\ Invalidate(Family(g)) /\ GoOn
    BY <1>0, <1>1, CloseGrantGoesOn DEF Whole, CloseGrant
  <1>3. ch \in Channel /\ ch.stage = stage /\ ch.guid = g /\ ch.phase = channels[c].phase
    BY <1>0 DEF Channel
  <1>4. AfterCallbacks(chs)
    <2>1. [channels EXCEPT ![c].stage = stage, ![c].was = FALSE] = chs
      BY <1>0
    <2> QED
      BY <2>1 DEF Move
  <1>5. chs \in [Channels -> Channel] /\ \A d \in Channels : chs[d] = IF d = c THEN ch ELSE channels[d]
    BY <1>0, <1>3
  <1>6. OverStaysOver
    BY DEF Service, OverStaysOver
  <1>7. CASE channels[c].stage \notin Claimed /\ stage \notin Claimed
             /\ (stage \in Holding => channels[c].stage \in Holding)
    <2> HIDE DEF ch, chs
    <2> QED
      BY <1>2, <1>3, <1>4, <1>5, <1>6, <1>7, CallbacksEnd
  <1>8. CASE stage = channels[c].stage /\ channels[c].stage \in Claimed
    \* Its own session is among those that end: the callback stops it.
    <2>1. g \in Live /\ g \in Family(g) /\ c \in sessions[g].sockets
      BY <1>0, <1>8 DEF ChannelsIInv, Linked, Family
    <2>2. c \in Closing
      <3>1. sessions'[g] = NoOne
        BY <1>2, <2>1 DEF Invalidate, Live
      <3> QED
        BY <2>1, <3>1 DEF Closing
    <2>3. channels' = [d \in Channels |-> IF d \in Closing THEN Stopped(chs[d]) ELSE chs[d]]
      BY <1>4 DEF AfterCallbacks
    <2>4. Stopped(ch).guid = g /\ Stopped(ch).phase = channels[c].phase
          /\ Stopped(ch).stage \in {"abandoned", "closed"} /\ Stopped(ch) \in Channel
      BY <1>3, StoppedChannel
    <2>5. \A d \in Channels :
             d \in Closing <=> channels[d].stage \in Claimed /\ channels[d].guid \in Family(g)
      <3>1. \A x \in Live : sessions'[x] = NoOne <=> x \in Family(g)
        BY <1>2 DEF Invalidate, Live, Family
      <3>2. Family(g) \subseteq Live
        BY DEF Family
      <3> QED
        BY <1>0, <3>1, <3>2 DEF ChannelsIInv, Linked, Closing
    <2> HIDE DEF ch, chs
    <2>6. channels' \in [Channels -> Channel]
      BY <1>5, <2>3, StoppedChannel
    <2>7. \A d \in Channels : EndsWith(Family(g), d)
      <3> SUFFICES ASSUME NEW d \in Channels PROVE EndsWith(Family(g), d)
        OBVIOUS
      <3>1. CASE d = c
        BY <1>5, <2>1, <2>2, <2>3, <2>4, <3>1 DEF EndsWith, Claimed, Holding
      <3>2. CASE d # c /\ d \in Closing
        <4>1. channels'[d] = Stopped(channels[d]) /\ channels[d] \in Channel
          BY <1>0, <1>5, <2>3, <3>2
        <4> QED
          BY <2>5, <3>2, <4>1, StoppedChannel DEF EndsWith, Claimed, Holding
      <3>3. CASE d # c /\ d \notin Closing
        BY <1>5, <2>3, <2>5, <3>3 DEF EndsWith
      <3> QED
        BY <3>1, <3>2, <3>3
    <2> QED
      BY <1>2, <1>6, <2>6, <2>7, EndChannels
  <1> QED
    BY <1>7, <1>8, <1>2

\* stop with the grant.
LEMMA StopEndingStep ==
    ASSUME WebIInv, NEW c \in Channels, StopEnding(c), channels[c].stage \in Claimed
    PROVE  GoOn /\ ChannelsIInv'
  <1> DEFINE g == channels[c].guid
             chs == [channels EXCEPT ![c] = Stopped(channels[c])]
  <1>0. ServiceIInv /\ ChannelsIInv /\ channels \in [Channels -> Channel]
    BY DEF WebIInv, ChannelsIInv, ChannelsTyped
  <1>1. g \in Live /\ g \in Guids /\ g \in Family(g)
    BY <1>0 DEF ChannelsIInv, Linked, Family, Live
  <1>2. Whole(Family(g)) /\ Invalidate(Family(g)) /\ GoOn
    BY <1>0, <1>1, CloseGrantGoesOn DEF StopEnding, Whole, CloseGrant
  <1>3. /\ Stopped(channels[c]) \in Channel
        /\ Stopped(channels[c]).guid = g /\ Stopped(channels[c]).phase = channels[c].phase
        /\ Stopped(channels[c]).stage \in {"abandoned", "closed"}
    BY <1>0, StoppedChannel
  <1>4. AfterCallbacks(chs)
    <2>1. [channels EXCEPT ![c] = Stopped(@)] = chs
      BY <1>0
    <2> QED
      BY <2>1 DEF StopEnding
  <1>5. chs \in [Channels -> Channel]
        /\ \A d \in Channels : chs[d] = IF d = c THEN Stopped(channels[c]) ELSE channels[d]
    BY <1>0, <1>3
  <1>6. OverStaysOver
    BY DEF StopEnding, Service, OverStaysOver
  <1> HIDE DEF chs
  <1>7. \A d \in Channels :
           \/ chs[d] = channels[d]
           \/ /\ chs[d].guid = channels[d].guid /\ chs[d].phase = channels[d].phase
              /\ chs[d].stage \notin Claimed
              /\ chs[d].stage \in Holding => channels[d].stage \in Holding
              /\ channels[d].stage \in Claimed => channels[d].guid \in Family(g)
    BY <1>1, <1>3, <1>5 DEF Claimed, Holding
  <1> QED
    BY <1>2, <1>4, <1>5, <1>6, <1>7, CallbacksEnd

LEMMA TicketCheckStep ==
    ASSUME WebIInv, NEW c \in Channels,
           TicketChecked(c) \/ Rejected(c) \/ Attach(c) \/ Abandon(c) \/ Upgrade(c)
    PROVE  GoOn /\ ChannelsIInv'
  <1>0. SessionsTyped /\ ServiceTyped /\ ChannelsIInv
    BY DEF WebIInv, ServiceIInv, ServiceTyped
  <1>1. CASE TicketChecked(c)
    <2>1. CASE NoClose /\ Move(c, "claimed", FALSE)
      BY <1>0, <1>1, <2>1, SameSessions, MoveChannel
         DEF TicketChecked, NoClose, Service, Stages, Claimed, Holding
    <2>2. CASE CloseGrant(channels[c].guid) /\ Move(c, "rejecting", FALSE)
      BY <1>1, <2>2, CloseAndMove DEF TicketChecked, Stages, Claimed, Holding
    <2> QED
      BY <1>1, <2>1, <2>2 DEF TicketChecked
  <1>2. CASE Rejected(c)
    BY <1>2, StopKeepingStep DEF Rejected, Claimed
  <1>3. CASE Attach(c)
    <2> DEFINE g == channels[c].guid
    <2>1. CASE Current(g) /\ sessions' = [sessions EXCEPT ![g].sockets = @ \union {c}]
               /\ Move(c, "request", FALSE) /\ UNCHANGED tickets /\ Service
      <3> DEFINE q == [sessions[g] EXCEPT !.sockets = @ \union {c}]
      <3>1. g \in Live /\ sessions[g] \in Session
        BY <1>0, <2>1, LiveSession DEF Current
      <3>2. /\ q \in Session /\ q.kind = sessions[g].kind /\ q.actor = sessions[g].actor
            /\ q.parent = sessions[g].parent /\ q.epoch = sessions[g].epoch
            /\ q.sockets = sessions[g].sockets \union {c}
            /\ q.active = sessions[g].active /\ q.relay = sessions[g].relay
        BY <3>1 DEF Session
      <3>3. sessions' = [sessions EXCEPT ![g] = q]
        BY <2>1
      <3>4. /\ channels[c].stage \in Holding \ {"opened", "opaque"} /\ "request" \in Claimed
            /\ UNCHANGED <<tickets, creates>>
        BY <1>3, <2>1 DEF Attach, Holding, Claimed, Service
      <3> HIDE DEF q
      <3>5. ChangesWith(c, g, "request", q)
        BY <2>1, <3>2, <3>3, <3>4 DEF ChangesWith
      <3> QED
        BY <3>1, <3>2, <3>5, ChangeBoth
    <2>2. CASE CloseGrant(g) /\ Move(c, "closed", FALSE) /\ Service
      BY <1>3, <2>2, CloseAndMove DEF Attach, Stages, Claimed, Holding
    <2> QED
      BY <1>3, <2>1, <2>2 DEF Attach
  <1>4. CASE Abandon(c)
    BY <1>4, CloseAndMove DEF Abandon, Stages, Claimed, Holding
  <1>5. CASE Upgrade(c)
    <2>1. channels[c].stage = "none"
      BY <1>5 DEF Upgrade, NewChannel
    <2> QED
      BY <1>0, <1>5, <2>1, SameSessions, MoveChannel
         DEF Upgrade, NoClose, Service, Stages, Claimed, Holding
  <1> QED
    BY <1>1, <1>2, <1>3, <1>4, <1>5

\* What is granted to the actor of a live session is known.
LEMMA GrantedTyped ==
    ASSUME ServiceTyped, NEW g \in Live PROVE granted[sessions[g].actor] \in BOOLEAN
  BY LiveSession DEF ServiceTyped, Session

LEMMA RequestStep ==
    ASSUME WebIInv, NEW c \in Channels,
           ReceiveRequest(c) \/ RequestChecked(c) \/ Connected(c) \/ Opened(c)
    PROVE  GoOn /\ ChannelsIInv'
  <1>0. ServiceTyped /\ ChannelsIInv
    BY DEF WebIInv, ServiceIInv
  <1>1. CASE ReceiveRequest(c)
    <2>1. granted[sessions[channels[c].guid].actor] \in BOOLEAN
      BY <1>0, <1>1, GrantedTyped DEF ReceiveRequest, Current
    <2> QED
      BY <1>0, <1>1, <2>1, SameSessions, MoveChannel
         DEF ReceiveRequest, NoClose, Service, Stages, Claimed, Holding
  <1>2. CASE RequestChecked(c)
    <2>1. CASE NoClose /\ Move(c, "connecting", FALSE)
      BY <1>0, <1>2, <2>1, SameSessions, MoveChannel
         DEF RequestChecked, NoClose, Service, Stages, Claimed, Holding
    <2>2. CASE CloseGrant(channels[c].guid) /\ Move(c, "checking", FALSE)
      BY <1>2, <2>2, CloseAndMove DEF RequestChecked, Stages, Claimed
    <2> QED
      BY <1>2, <2>1, <2>2 DEF RequestChecked
  <1>3. CASE Connected(c)
    <2>1. CASE Move(c, "reply", FALSE)
      BY <1>0, <1>3, <2>1, SameSessions, MoveChannel
         DEF Connected, NoClose, Service, Stages, Claimed, Holding
    <2>2. CASE /\ channels[c].phase = "relay" /\ Current(channels[c].guid)
               /\ Move(c, "marking", granted[sessions[channels[c].guid].actor])
      <3>1. granted[sessions[channels[c].guid].actor] \in BOOLEAN
        BY <1>0, <2>2, GrantedTyped DEF Current
      <3> QED
        BY <1>0, <1>3, <2>2, <3>1, SameSessions, MoveChannel
           DEF Connected, NoClose, Service, Stages, Claimed, Holding
    <2> QED
      BY <1>3, <2>1, <2>2 DEF Connected
  <1>4. CASE Opened(c)
    BY <1>0, <1>4, SameSessions, MoveChannel
       DEF Opened, NoClose, Service, Stages, Claimed, Holding
  <1> QED
    BY <1>1, <1>2, <1>3, <1>4

LEMMA RelayStep ==
    ASSUME WebIInv, NEW c \in Channels,
           MarkChecked(c) \/ MarkRecorded(c) \/ ReceiveReply(c)
    PROVE  GoOn /\ ChannelsIInv'
  <1> DEFINE g == channels[c].guid
  <1>0. SessionsTyped /\ ServiceTyped /\ ChannelsIInv
    BY DEF WebIInv, ServiceIInv, ServiceTyped
  <1>1. CASE MarkChecked(c)
    <2>1. CASE NoClose /\ Move(c, "recording", FALSE)
      <3>1. channels[c].phase = "relay"
        BY <1>0, <1>1 DEF MarkChecked, ChannelsIInv, RelayStages
      <3> QED
        BY <1>0, <1>1, <2>1, <3>1, SameSessions, MoveChannel
           DEF MarkChecked, NoClose, Service, Stages, Claimed, Holding
    <2>2. CASE CloseGrant(g) /\ Move(c, "marking", FALSE)
      BY <1>1, <2>2, CloseAndMove DEF MarkChecked, Stages, Claimed
    <2> QED
      BY <1>1, <2>1, <2>2 DEF MarkChecked
  <1>2. CASE MarkRecorded(c)
    <2>1. CASE /\ Current(g) /\ sessions' = [sessions EXCEPT ![g].active = TRUE]
               /\ Move(c, "opened", FALSE) /\ UNCHANGED tickets
      <3> DEFINE q == [sessions[g] EXCEPT !.active = TRUE]
      <3>1. g \in Live /\ sessions[g] \in Session /\ c \in sessions[g].sockets
        BY <1>0, <1>2, <2>1, LiveSession
           DEF Current, MarkRecorded, ChannelsIInv, Linked, Claimed
      <3>2. /\ q \in Session /\ q.kind = sessions[g].kind /\ q.actor = sessions[g].actor
            /\ q.parent = sessions[g].parent /\ q.epoch = sessions[g].epoch
            /\ q.sockets = sessions[g].sockets
            /\ q.active = TRUE /\ q.relay = sessions[g].relay
        BY <3>1 DEF Session
      <3>3. q.sockets = sessions[g].sockets \union {c}
        BY <3>1, <3>2
      <3>4. sessions' = [sessions EXCEPT ![g] = q]
        BY <2>1
      <3>5. channels[c].phase = "relay"
        BY <1>0, <1>2 DEF MarkRecorded, ChannelsIInv, RelayStages
      <3>6. /\ channels[c].stage \in Holding \ {"opened", "opaque"} /\ "opened" \in Claimed
            /\ UNCHANGED <<tickets, creates>>
        BY <1>2, <2>1 DEF MarkRecorded, Holding, Claimed, Service
      <3> HIDE DEF q
      <3>7. ChangesWith(c, g, "opened", q)
        BY <2>1, <3>2, <3>3, <3>4, <3>5, <3>6 DEF ChangesWith
      <3> QED
        BY <3>1, <3>2, <3>7, ChangeBoth
    <2>2. CASE CloseGrant(g) /\ Move(c, "recording", FALSE)
      BY <1>2, <2>2, CloseAndMove DEF MarkRecorded, Stages, Claimed
    <2> QED
      BY <1>2, <2>1, <2>2 DEF MarkRecorded
  <1>3. CASE ReceiveReply(c)
    <2>1. ASSUME NEW r \in Relays, Current(g), MayBind(g, r),
                 sessions' = [sessions EXCEPT ![g].relay = r],
                 Move(c, "replied", FALSE), UNCHANGED tickets
          PROVE  GoOn /\ ChannelsIInv'
      <3> DEFINE q == [sessions[g] EXCEPT !.relay = r]
      <3>1. g \in Live /\ sessions[g] \in Session /\ c \in sessions[g].sockets
        BY <1>0, <1>3, <2>1, LiveSession
           DEF Current, ReceiveReply, ChannelsIInv, Linked, Claimed
      <3>2. /\ q \in Session /\ q.kind = sessions[g].kind /\ q.actor = sessions[g].actor
            /\ q.parent = sessions[g].parent /\ q.epoch = sessions[g].epoch
            /\ q.sockets = sessions[g].sockets
            /\ q.active = sessions[g].active /\ q.relay = r
        BY <3>1 DEF Session
      <3>3. q.sockets = sessions[g].sockets \union {c}
        BY <3>1, <3>2
      <3>4. sessions' = [sessions EXCEPT ![g] = q]
        BY <2>1
      <3>5. /\ channels[c].stage \in Holding \ {"opened", "opaque"} /\ "replied" \in Claimed
            /\ UNCHANGED <<tickets, creates>>
        BY <1>3, <2>1 DEF ReceiveReply, Holding, Claimed, Service
      <3>6. \A h \in Live : sessions[h].relay # q.relay
        BY <2>1, <3>2 DEF MayBind
      <3> HIDE DEF q
      <3>7. ChangesWith(c, g, "replied", q)
        BY <2>1, <3>2, <3>3, <3>4, <3>5, <3>6 DEF ChangesWith
      <3> QED
        BY <3>1, <3>2, <3>7, ChangeBoth
    <2>2. CASE NoClose /\ Move(c, "refused", FALSE)
      BY <1>0, <1>3, <2>2, SameSessions, MoveChannel
         DEF ReceiveReply, NoClose, Service, Stages, Claimed, Holding
    <2> QED
      BY <1>3, <2>1, <2>2 DEF ReceiveReply
  <1> QED
    BY <1>1, <1>2, <1>3

(***************************************************************************)
(* The service's steps, for the channels.                                  *)
(***************************************************************************)

\* A call that is over stays so.
LEMMA CallsStayOver ==
    ASSUME ServiceIInv, ServiceStep \/ Shutdown PROVE OverStaysOver
  <1>0. creates \in [Guids -> Call \union {Unused, Over}]
    BY DEF ServiceIInv, ServiceTyped
  <1>1. ASSUME NEW g \in Guids, NEW q, creates[g] # Over \/ q = Over,
               creates' = [creates EXCEPT ![g] = q]
        PROVE  OverStaysOver
    BY <1>0, <1>1 DEF OverStaysOver
  <1>2. ASSUME NEW g \in Guids, CreateStep(g) PROVE OverStaysOver
    <2>1. CASE Release(g)
      BY <1>1, <2>1 DEF Release
    <2>2. ASSUME NEW pc, NEW was, ToCreate(g, pc, was),
                 creates[g].pc \in {"parent", "validate", "record"}
          PROVE  OverStaysOver
      <3>1. creates[g] # Over
        BY <2>2 DEF Over
      <3>2. creates' = [creates EXCEPT ![g] = [creates[g] EXCEPT !.pc = pc, !.was = was]]
        BY <2>2 DEF ToCreate
      <3> QED
        BY <1>1, <3>1, <3>2
    <2> QED
      BY <1>2, <2>1, <2>2
         DEF CreateStep, CreateParentChecked, CreateValidated, CreateRecorded, CreateDenied
  <1>3. ASSUME CreateDesktop \/ CreateFile PROVE OverStaysOver
    <2>1. Unused # Over
      BY DEF Unused, Over
    <2> QED
      BY <1>1, <1>3, <2>1 DEF CreateDesktop, CreateFile, CreateStart
  <1>4. ASSUME UNCHANGED creates PROVE OverStaysOver
    BY <1>4 DEF OverStaysOver
  <1> QED
    BY <1>2, <1>3, <1>4
       DEF ServiceStep, End, Age, RoundStep, RoundStart, RoundNext, RoundChecked, RoundEnd,
           VerificationTimeout, LateSettles, Revoke, ChangeProfile, Shutdown

\* A step that touches neither sessions nor tickets.
LEMMA NoCloseChannels ==
    ASSUME WebIInv, OverStaysOver, NoClose, AfterCallbacks(channels) PROVE ChannelsIInv'
  <1>1. Live' = Live
    BY DEF NoClose, Live
  <1>2. channels' = channels
    BY <1>1, NoCallbacks DEF WebIInv, ChannelsIInv, ChannelsTyped
  <1> QED
    BY <1>1, <1>2, SameChannels DEF NoClose

\* A step that ends sessions.
LEMMA CloseChannels ==
    ASSUME WebIInv, OverStaysOver, NEW S, Whole(S), Invalidate(S), AfterCallbacks(channels)
    PROVE  ChannelsIInv'
  BY CallbacksEnd DEF WebIInv, ChannelsIInv, ChannelsTyped

LEMMA CloseGrantChannels ==
    ASSUME WebIInv, OverStaysOver, NEW g \in Guids \union {NoOne}, CloseGrant(g),
           AfterCallbacks(channels)
    PROVE  ChannelsIInv'
  BY CloseChannels DEF CloseGrant, Whole

LEMMA NewSessionChannels ==
    ASSUME WebIInv, NEW g \in Guids, CreateRecorded(g), AfterCallbacks(channels), OverStaysOver
    PROVE  ChannelsIInv'
  <1>0. ServiceIInv /\ SessionsTyped /\ channels \in [Channels -> Channel]
    BY DEF WebIInv, ServiceIInv, ServiceTyped, ChannelsIInv, ChannelsTyped
  <1>1. CASE NoClose
    BY <1>1, NoCloseChannels
  <1>2. CASE /\ sessions' = [sessions EXCEPT ![g] =
                [kind |-> creates[g].kind, actor |-> creates[g].actor,
                 parent |-> creates[g].parent, profile |-> creates[g].profile,
                 active |-> FALSE, relay |-> NoOne, sockets |-> {}, age |-> 0,
                 epoch |-> creates[g].epoch]]
             /\ tickets' = tickets \union ({g} \X Phases) /\ Release(g)
    <2> DEFINE q == [kind |-> creates[g].kind, actor |-> creates[g].actor,
                     parent |-> creates[g].parent, profile |-> creates[g].profile,
                     active |-> FALSE, relay |-> NoOne, sockets |-> {}, age |-> 0,
                     epoch |-> creates[g].epoch]
    <2>1. q.sockets = {} /\ q.active = FALSE /\ q.relay = NoOne
      OBVIOUS
    <2>2. q # NoOne
      <3>1. creates[g].kind \in {"desktop", "file"}
        BY <1>0, CallTyped DEF CreateRecorded, Call
      <3> QED
        BY <3>1 DEF NoOne
    <2>3. sessions' = [sessions EXCEPT ![g] = q]
      BY <1>2
    <2> HIDE DEF q
    <2>4. \A x \in Guids : sessions'[x] = IF x = g THEN q ELSE sessions[x]
      BY <1>0, <2>3 DEF SessionsTyped
    <2>5. Live' = Live \union {g}
      BY <2>2, <2>4 DEF Live
    <2>6. creates[g] # Over /\ creates'[g] = Over /\ g \notin Live
      BY <1>0, <1>2 DEF CreateRecorded, Release, Over, ServiceIInv, ServiceTyped,
                        FamiliesOK, FamilyOK
    <2>7. channels' = channels
      BY <1>0, <2>5, NoCallbacks
    <2>8. \A x \in Live : sessions'[x] = sessions[x]
      BY <2>4, <2>6 DEF Live
    <2>9. \A x \in {g} : /\ sessions'[x].sockets = {} /\ sessions'[x].active = FALSE
                         /\ sessions'[x].relay = NoOne
      BY <2>1, <2>4
    <2>10. Adds({g})
      BY <1>2, <2>5, <2>6, <2>8, <2>9 DEF Adds
    <2> QED
      BY <2>7, <2>10, QuietChannels
  <1> QED
    BY <1>1, <1>2 DEF CreateRecorded

LEMMA ServiceStepChannels ==
    ASSUME WebIInv, ServiceStep PROVE ChannelsIInv'
  <1>0. ServiceIInv /\ ServiceTyped /\ SessionsTyped /\ OverStaysOver /\ AfterCallbacks(channels)
    BY CallsStayOver DEF WebIInv, ServiceIInv, ServiceTyped, ServiceStep
  <1>1. ASSUME NEW g \in Guids, CreateStep(g) PROVE ChannelsIInv'
    <2>1. CASE CreateParentChecked(g)
      <3>1. creates[g].parent \in Guids \union {NoOne}
        BY <1>0, <2>1, CallTyped DEF CreateParentChecked
      <3> QED
        BY <1>0, <2>1, <3>1, NoCloseChannels, CloseGrantChannels DEF CreateParentChecked
    <2>2. CASE CreateValidated(g) \/ CreateDenied(g)
      BY <1>0, <2>2, NoCloseChannels DEF CreateValidated, CreateDenied
    <2> QED
      BY <1>0, <1>1, <2>1, <2>2, NewSessionChannels DEF CreateStep
  <1>2. ASSUME NEW g \in Guids, End(g) PROVE ChannelsIInv'
    BY <1>0, <1>2, CloseGrantChannels DEF End
  <1>3. ASSUME NEW g \in Guids, Age(g) PROVE ChannelsIInv'
    <2> DEFINE q == [sessions[g] EXCEPT !.age = @ + 1]
    <2>1. g \in Live /\ sessions[g] \in Session /\ sessions[g].age < 2
      BY <1>0, <1>3, LiveSession DEF Age
    <2>2. /\ q \in Session /\ q.kind = sessions[g].kind /\ q.actor = sessions[g].actor
          /\ q.parent = sessions[g].parent /\ q.epoch = sessions[g].epoch
          /\ q.active = sessions[g].active
          /\ q.sockets = sessions[g].sockets /\ q.relay = sessions[g].relay
      BY <2>1 DEF Session
    <2>3. sessions' = [sessions EXCEPT ![g] = q]
      BY <1>3 DEF Age
    <2> HIDE DEF q
    <2>4. Live' = Live /\ \A x \in Live : sessions'[x] = IF x = g THEN q ELSE sessions[x]
      BY <1>0, <2>1, <2>2, <2>3, ChangeGoesOn
    <2>5. channels' = channels
      BY <1>0, <2>4, NoCallbacks DEF WebIInv, ChannelsIInv, ChannelsTyped
    <2>6. UNCHANGED <<tickets, creates>>
      BY <1>3 DEF Age
    <2>7. \A x \in Live : /\ sessions'[x].sockets = sessions[x].sockets
                          /\ sessions'[x].active = sessions[x].active
                          /\ sessions'[x].relay = sessions[x].relay
      BY <2>2, <2>4
    <2> QED
      BY <1>0, <2>4, <2>5, <2>6, <2>7, SameChannels
  <1>4. CASE RoundStep
    <2>1. round.todo \subseteq Guids /\ round.at \in Guids \union {NoOne}
      BY <1>0 DEF ServiceTyped
    <2> QED
      BY <1>0, <1>4, <2>1, NoCloseChannels, CloseGrantChannels
         DEF RoundStep, RoundStart, RoundNext, RoundChecked, RoundEnd
  <1>5. CASE VerificationTimeout
    BY <1>0, <1>5, CloseChannels DEF VerificationTimeout, Whole
  <1>6. CASE CreateDesktop \/ CreateFile \/ LateSettles \/ ChangeProfile
             \/ \E a \in Actors : Revoke(a)
    BY <1>0, <1>6, NoCloseChannels
       DEF CreateDesktop, CreateFile, CreateStart, LateSettles, ChangeProfile, Revoke, NoClose
  <1> QED
    BY <1>1, <1>2, <1>3, <1>4, <1>5, <1>6 DEF ServiceStep

LEMMA ShutdownChannels == ASSUME WebIInv, Shutdown PROVE ChannelsIInv'
  <1>0. channels \in [Channels -> Channel] /\ SessionsTyped /\ Linked
    BY DEF WebIInv, ServiceIInv, ServiceTyped, ChannelsIInv, ChannelsTyped
  <1>1. Whole(Live) /\ Invalidate(Live) /\ OverStaysOver
    BY CallsStayOver DEF Shutdown, Whole, WebIInv
  <1>2. ASSUME NEW d \in Channels
        PROVE  /\ channels'[d] \in Channel
               /\ channels'[d] = IF IsOpen(d) THEN Stopped(channels[d]) ELSE channels[d]
    BY <1>0, StoppedChannel DEF Shutdown
  <1>3. channels' \in [Channels -> Channel]
    BY <1>2 DEF Shutdown
  <1>4. ASSUME NEW d \in Channels PROVE EndsWith(Live, d)
    <2>1. CASE IsOpen(d)
      <3>1. channels[d].stage \in Claimed => channels[d].guid \in Live
        BY <1>0 DEF Linked
      <3> QED
        BY <1>0, <1>2, <2>1, <3>1, StoppedChannel DEF EndsWith, Claimed, Holding
    <2>2. CASE ~IsOpen(d)
      BY <1>2, <2>2 DEF IsOpen, EndsWith, Claimed
    <2> QED
      BY <2>1, <2>2
  <1> QED
    BY <1>1, <1>3, <1>4, EndChannels

(***************************************************************************)
(* The theorems.                                                           *)
(***************************************************************************)

LEMMA InitWebIInv == Init => WebIInv
  <1> SUFFICES ASSUME Init PROVE WebIInv
    OBVIOUS
  <1> USE DEF Init, SessionInit
  <1>1. Live = {} /\ SessionsTyped
    BY DEF Live, SessionsTyped
  <1>2. ServiceTyped
    <2>1. creates \in [Guids -> Call \union {Unused, Over}]
      OBVIOUS
    <2>2. granted \in [Actors -> BOOLEAN]
      OBVIOUS
    <2>3. round \in [on : BOOLEAN, todo : SUBSET Guids, at : Guids \union {NoOne}, was : BOOLEAN]
      BY DEF NoRound
    <2>4. epoch \in 0..MaxTimeouts /\ late \in Nat /\ late <= epoch /\ profile \in 0..MaxProfile
      BY WebClientBounds
    <2>5. stopped \in BOOLEAN
      OBVIOUS
    <2> QED
      BY <1>1, <2>1, <2>2, <2>3, <2>4, <2>5 DEF ServiceTyped
  <1>3. FamiliesOK /\ CallsOK /\ NoneFromBeforeTimeout
    BY <1>1 DEF FamiliesOK, CallsOK, InFlight, Unused, NoneFromBeforeTimeout
  <1>4. \A c \in Channels : channels[c] = NewChannel /\ channels[c].stage = "none"
    BY DEF NewChannel
  <1>5. ChannelsTyped
    BY DEF ChannelsTyped, NewChannel, Channel, Stages
  <1>6. Linked /\ RelayStages /\ TicketsOnce /\ ActiveHasRelay
    BY <1>1, <1>4 DEF Linked, RelayStages, TicketsOnce, ActiveHasRelay, Claimed, Holding
  <1> QED
    BY <1>2, <1>3, <1>5, <1>6 DEF WebIInv, ServiceIInv, ChannelsIInv

\* A step of a channel lets the sessions go on or end.
LEMMA ChannelSessions ==
    ASSUME WebIInv, NEW c \in Channels,
           Upgrade(c) \/ ChannelStep(c) \/ ChannelCloses(c) \/ ChannelFails(c)
    PROVE  Service /\ GoOn /\ ChannelsIInv'
  <1>0. ServiceTyped
    BY DEF WebIInv, ServiceIInv
  <1>1. Service
    BY DEF Upgrade, ChannelStep, ChannelCloses, ChannelFails, StopEnding, StopKeeping,
         ReceiveTicket, TicketChecked, Rejected, Attach, Abandon, ReceiveRequest,
         RequestChecked, Connected, MarkChecked, MarkRecorded, Opened, ReceiveReply
  <1>2. CASE ReceiveTicket(c)
    BY <1>0, <1>1, <1>2, TicketStep, SameSessions DEF ReceiveTicket
  <1>3. CASE ChannelCloses(c)
    BY <1>1, <1>3, StopEndingStep, StopKeepingStep DEF ChannelCloses
  <1>4. CASE ChannelFails(c)
    BY <1>1, <1>4, StopEndingStep DEF ChannelFails, Claimed
  <1> QED
    BY <1>1, <1>2, <1>3, <1>4, TicketCheckStep, RequestStep, RelayStep DEF ChannelStep

LEMMA NextWebIInv == WebIInv /\ [Next]_vars => WebIInv'
  <1> SUFFICES ASSUME WebIInv, [Next]_vars PROVE WebIInv'
    OBVIOUS
  <1>0. ServiceIInv /\ ServiceTyped
    BY DEF WebIInv, ServiceIInv
  <1>1. CASE ServiceStep
    BY <1>0, <1>1, ServiceStepOK, ServiceStepChannels DEF WebIInv
  <1>2. CASE Shutdown
    BY <1>0, <1>2, AllEndStep, ShutdownChannels DEF WebIInv
  <1>3. ASSUME NEW c \in Channels,
               Upgrade(c) \/ ChannelStep(c) \/ ChannelCloses(c) \/ ChannelFails(c)
        PROVE  WebIInv'
    BY <1>0, <1>3, ChannelSessions, GatewayLeavesService DEF WebIInv
  <1>4. CASE UNCHANGED vars
    <2>1. NoClose /\ UNCHANGED channels /\ Live' = Live
      BY <1>4 DEF vars, sessionVars, NoClose, Live
    <2>2. ServiceIInv'
      BY <1>0, <1>4, SameSessions, SameCalls, ServiceGoesOn DEF vars, sessionVars, ServiceTyped
    <2>3. OverStaysOver
      BY <1>4 DEF vars, sessionVars, OverStaysOver
    <2> QED
      BY <2>1, <2>2, <2>3, SameChannels DEF NoClose, WebIInv
  <1> QED
    BY <1>1, <1>2, <1>3, <1>4 DEF Next

LEMMA WebInvariant == Spec => []WebIInv
  BY InitWebIInv, NextWebIInv, PTL DEF Spec

\* A file session never outlives its desktop session, nor is it made for
\* another one or for another user's.
THEOREM FilesWithinDesktops == Spec => []FileWithinDesktop
  <1>1. WebIInv => FileWithinDesktop
    BY DEF WebIInv, ServiceIInv, FamiliesOK, FamilyOK, DesktopOf, FileWithinDesktop
  <1> QED
    BY <1>1, WebInvariant, PTL

\* A channel is only used for a session that lives, is known to it, and no
\* ticket is used by two channels.
THEOREM ForwardsOnlyForLive == Spec => []ForwardsForLive
  <1>1. WebIInv => ForwardsForLive
    <2> SUFFICES ASSUME WebIInv, NEW c \in Channels, channels[c].stage \in Claimed
                 PROVE  /\ channels[c].guid \in Live
                        /\ c \in sessions[channels[c].guid].sockets
                        /\ channels[c].stage = "opaque" => sessions[channels[c].guid].active
                        /\ \A d \in Channels \ {c} :
                              channels[d].stage \in Claimed /\ channels[d].guid = channels[c].guid
                                 => channels[d].phase # channels[c].phase
      BY DEF ForwardsForLive
    <2> QED
      BY DEF WebIInv, ChannelsIInv, Linked, RelayStages, TicketsOnce, Holding
  <1> QED
    BY <1>1, WebInvariant, PTL

\* An active session has the relay channel that activated it, and its relay
\* for itself.
THEOREM ActiveKeepsRelay == Spec => []ActiveHasRelay
  <1>1. WebIInv => ActiveHasRelay
    BY DEF WebIInv, ChannelsIInv
  <1> QED
    BY <1>1, WebInvariant, PTL

\* No session survives a verification that timed out, and none is made while
\* the answer is still out.
THEOREM NoneSurvivesTimeout == Spec => []NoneFromBeforeTimeout
  <1>1. WebIInv => NoneFromBeforeTimeout
    BY DEF WebIInv, ServiceIInv
  <1> QED
    BY <1>1, WebInvariant, PTL

(***************************************************************************)
(* The limits.                                                             *)
(***************************************************************************)

UserLive(u) == {g \in Live : sessions[g].actor.id = u}

\* Calls of create that hold a place for a user.
Calls(u) == {g \in Guids : /\ creates[g].pc \in {"parent", "validate", "record", "denied"}
                           /\ creates[g].actor.id = u}

\* Every place is held by a call, and there are no more than allowed together
\* with the sessions.
LimitsIInv ==
    /\ reservations \in [Users -> Nat]
    /\ \A u \in Users :
          /\ IsFiniteSet(Calls(u)) /\ Cardinality(Calls(u)) = reservations[u]
          /\ IsFiniteSet(UserLive(u))
          /\ Cardinality(UserLive(u)) + reservations[u] <= MaxPerUser
    /\ IsFiniteSet(Live) /\ IsFiniteSet(Places)
    /\ Cardinality(Live) + Cardinality(Places) <= MaxSessions

LEMMA LimitsNat == MaxSessions \in Nat /\ MaxPerUser \in Nat
  BY WebClientBounds

SamePlaces == UNCHANGED reservations /\ \A u \in Users : Calls(u)' = Calls(u)

\* Sessions only leave, and places stay.
LEMMA FewerSessions ==
    ASSUME LimitsIInv, GoOn, SamePlaces
    PROVE  LimitsIInv'
  <1>1. IsFiniteSet(Live') /\ Cardinality(Live') <= Cardinality(Live)
        /\ Cardinality(Live') \in Nat /\ Cardinality(Live) \in Nat
    <2>1. Live' \subseteq Live
      BY DEF GoOn
    <2> QED
      BY <2>1, FS_Subset, FS_CardinalityType DEF LimitsIInv
  <1>2. ASSUME NEW u \in Users
        PROVE  IsFiniteSet(UserLive(u)') /\ Cardinality(UserLive(u)') <= Cardinality(UserLive(u))
               /\ Cardinality(UserLive(u)') \in Nat /\ Cardinality(UserLive(u)) \in Nat
    <2>1. UserLive(u)' \subseteq UserLive(u)
      BY DEF GoOn, UserLive
    <2> QED
      BY <2>1, FS_Subset, FS_CardinalityType DEF LimitsIInv
  <1>3. Places' = Places
    BY DEF Places, SamePlaces
  <1>4. Cardinality(Places) \in Nat
    BY FS_CardinalityType DEF LimitsIInv
  <1>5. \A u \in Users :
          /\ IsFiniteSet(Calls(u)') /\ Cardinality(Calls(u)') = reservations'[u]
          /\ Cardinality(UserLive(u)') + reservations'[u] <= MaxPerUser
    BY <1>2, LimitsNat DEF LimitsIInv, SamePlaces
  <1>6. Cardinality(Live') + Cardinality(Places') <= MaxSessions
    BY <1>1, <1>3, <1>4, LimitsNat DEF LimitsIInv
  <1> QED
    BY <1>1, <1>2, <1>3, <1>5, <1>6 DEF LimitsIInv, SamePlaces

\* One place more for a user is one more of all.
LEMMA PlaceTaken ==
    ASSUME LimitsIInv, NEW u \in Users,
           reservations' = [reservations EXCEPT ![u] = @ + 1]
    PROVE  IsFiniteSet(Places') /\ Cardinality(Places') = Cardinality(Places) + 1
  <1> DEFINE new == <<u, reservations[u] + 1>>
  <1>1. reservations[u] \in Nat /\ \A v \in Users : reservations[v] \in Nat
    BY DEF LimitsIInv
  <1>2. \A v \in Users : reservations'[v] = IF v = u THEN reservations[u] + 1 ELSE reservations[v]
    BY DEF LimitsIInv
  <1>3. new \notin Places
    BY <1>1 DEF Places
  <1>4. Places' = Places \union {new}
    <2>1. \A v \in Users : {v} \X (1..reservations'[v])
             = IF v = u THEN ({u} \X (1..reservations[u])) \union {new}
                        ELSE {v} \X (1..reservations[v])
      <3> SUFFICES ASSUME NEW v \in Users
                   PROVE  {v} \X (1..reservations'[v])
                            = IF v = u THEN ({u} \X (1..reservations[u])) \union {new}
                                       ELSE {v} \X (1..reservations[v])
        OBVIOUS
      <3>1. 1..(reservations[u] + 1) = (1..reservations[u]) \union {reservations[u] + 1}
        BY <1>1
      <3> QED
        BY <1>2, <3>1
    <2> QED
      BY <2>1 DEF Places
  <1> QED
    BY <1>3, <1>4, FS_AddElement DEF LimitsIInv

\* One place less likewise.
LEMMA PlaceReleased ==
    ASSUME LimitsIInv, NEW u \in Users, reservations[u] >= 1,
           reservations' = [reservations EXCEPT ![u] = @ - 1]
    PROVE  IsFiniteSet(Places') /\ Cardinality(Places') = Cardinality(Places) - 1
  <1> DEFINE old == <<u, reservations[u]>>
  <1>1. reservations[u] \in Nat /\ \A v \in Users : reservations[v] \in Nat
    BY DEF LimitsIInv
  <1>2. \A v \in Users : reservations'[v] = IF v = u THEN reservations[u] - 1 ELSE reservations[v]
    BY DEF LimitsIInv
  <1>3. old \in Places
    BY <1>1 DEF Places
  <1>4. Places' = Places \ {old}
    <2>1. \A v \in Users : {v} \X (1..reservations'[v])
             = ({v} \X (1..reservations[v])) \ {old}
      <3> SUFFICES ASSUME NEW v \in Users
                   PROVE  {v} \X (1..reservations'[v]) = ({v} \X (1..reservations[v])) \ {old}
        OBVIOUS
      <3>1. 1..(reservations[u] - 1) = (1..reservations[u]) \ {reservations[u]}
        BY <1>1
      <3> QED
        BY <1>2, <3>1
    <2> QED
      BY <2>1 DEF Places
  <1> QED
    BY <1>3, <1>4, FS_RemoveElement DEF LimitsIInv

\* reserve: there was room for one more.
LEMMA ReserveStep ==
    ASSUME ServiceIInv, LimitsIInv, NEW g \in Guids, NEW a \in Actors,
           NEW kind \in {"desktop", "file"}, NEW p, CreateStart(g, a, kind, p)
    PROVE  LimitsIInv'
  <1> DEFINE u == a.id
  <1>0. u \in Users
    BY DEF Actors
  <1>1. /\ creates[g] = Unused /\ MayReserve(u)
        /\ reservations' = [reservations EXCEPT ![u] = @ + 1]
        /\ UNCHANGED sessions
        /\ \E pc \in {"validate", "parent", "denied"} :
              creates' = [creates EXCEPT ![g] =
                 [pc |-> pc, kind |-> kind, actor |-> a, parent |-> p,
                  was |-> granted[a], profile |-> profile, epoch |-> epoch]]
    BY DEF CreateStart, NoClose
  <1>2. /\ \A x \in Guids \ {g} : creates'[x] = creates[x]
        /\ creates'[g].pc \in {"parent", "validate", "record", "denied"} /\ creates'[g].actor = a
    BY <1>1 DEF ServiceIInv, ServiceTyped
  <1>3. Live' = Live /\ \A v \in Users : UserLive(v)' = UserLive(v)
    BY <1>1 DEF Live, UserLive
  <1>4. \A v \in Users : reservations'[v] = IF v = u THEN reservations[u] + 1 ELSE reservations[v]
    BY <1>1 DEF LimitsIInv
  <1>5. ASSUME NEW v \in Users
        PROVE  IsFiniteSet(Calls(v)') /\ Cardinality(Calls(v)') = reservations'[v]
    <2>1. g \notin Calls(v)
      BY <1>1 DEF Calls, Unused
    <2>2. CASE v = u
      <3>1. Calls(v)' = Calls(v) \union {g}
        BY <1>2, <2>2 DEF Calls
      <3> QED
        BY <1>4, <2>1, <2>2, <3>1, FS_AddElement DEF LimitsIInv
    <2>3. CASE v # u
      <3>1. Calls(v)' = Calls(v)
        BY <1>2, <2>1, <2>3 DEF Calls
      <3> QED
        BY <1>4, <2>3, <3>1 DEF LimitsIInv
    <2> QED
      BY <2>2, <2>3
  <1>6. /\ IsFiniteSet(Places') /\ Cardinality(Places') = Cardinality(Places) + 1
    BY <1>0, <1>1, PlaceTaken
  <1>7. /\ Cardinality(Live) \in Nat /\ Cardinality(Places) \in Nat
        /\ \A v \in Users : Cardinality(UserLive(v)) \in Nat
    BY FS_CardinalityType DEF LimitsIInv
  <1>8. Cardinality(Live') + Cardinality(Places') <= MaxSessions
    BY <1>1, <1>3, <1>6, <1>7, LimitsNat DEF MayReserve
  <1>9. \A v \in Users : Cardinality(UserLive(v)') + reservations'[v] <= MaxPerUser
    <2>1. Cardinality(UserLive(u)) + reservations[u] < MaxPerUser
      BY <1>1 DEF MayReserve, UserSessions, UserLive
    <2> QED
      BY <1>0, <1>3, <1>4, <1>7, <2>1, LimitsNat DEF LimitsIInv
  <1>10. reservations' \in [Users -> Nat]
    BY <1>0, <1>1 DEF LimitsIInv
  <1> QED
    BY <1>3, <1>5, <1>6, <1>8, <1>9, <1>10 DEF LimitsIInv

\* releaseReservation: the call had a place, which becomes that of the session
\* it made, if it made one.
LEMMA ReleaseStep ==
    ASSUME ServiceIInv, LimitsIInv, NEW g \in Guids, Release(g),
           creates[g].pc \in {"parent", "validate", "record", "denied"},
           \/ UNCHANGED sessions
           \/ /\ Live' = Live \union {g} /\ g \notin Live
              /\ \A x \in Live : sessions'[x] = sessions[x]
              /\ sessions'[g].actor = creates[g].actor
    PROVE  LimitsIInv'
  <1> DEFINE u == creates[g].actor.id
  <1>0. u \in Users
    BY CallTyped DEF Actors
  <1>1. /\ reservations' = [reservations EXCEPT ![u] = @ - 1]
        /\ \A x \in Guids : creates'[x] = IF x = g THEN Over ELSE creates[x]
    BY DEF Release, ServiceIInv, ServiceTyped
  <1>2. g \in Calls(u)
    BY DEF Calls
  <1>3. reservations[u] \in Nat /\ reservations[u] >= 1
    BY <1>0, <1>2, FS_EmptySet DEF LimitsIInv
  <1>4. \A v \in Users : reservations'[v] = IF v = u THEN reservations[u] - 1 ELSE reservations[v]
    BY <1>1 DEF LimitsIInv
  <1>5. ASSUME NEW v \in Users
        PROVE  IsFiniteSet(Calls(v)') /\ Cardinality(Calls(v)') = reservations'[v]
    <2>1. Calls(v)' = Calls(v) \ {g}
      BY <1>1 DEF Calls, Over
    <2>2. CASE v = u
      BY <1>2, <1>4, <2>1, <2>2, FS_RemoveElement DEF LimitsIInv
    <2>3. CASE v # u
      <3>1. g \notin Calls(v)
        BY <2>3 DEF Calls
      <3> QED
        BY <1>4, <2>1, <2>3, <3>1 DEF LimitsIInv
    <2> QED
      BY <2>2, <2>3
  <1>6. IsFiniteSet(Places') /\ Cardinality(Places') = Cardinality(Places) - 1
    BY <1>0, <1>1, <1>3, PlaceReleased
  <1>7. /\ Cardinality(Live) \in Nat /\ Cardinality(Places) \in Nat
        /\ \A v \in Users : Cardinality(UserLive(v)) \in Nat
    BY FS_CardinalityType DEF LimitsIInv
  <1>8. /\ IsFiniteSet(Live') /\ Cardinality(Live') \in {Cardinality(Live), Cardinality(Live) + 1}
    <2>1. CASE UNCHANGED sessions
      BY <2>1 DEF Live, LimitsIInv
    <2>2. CASE Live' = Live \union {g} /\ g \notin Live
      BY <2>2, FS_AddElement DEF LimitsIInv
    <2> QED
      BY <2>1, <2>2
  <1>9. ASSUME NEW v \in Users
        PROVE  /\ IsFiniteSet(UserLive(v)')
               /\ Cardinality(UserLive(v)') + reservations'[v]
                     <= Cardinality(UserLive(v)) + reservations[v]
    <2>0. reservations[v] \in Nat
      BY DEF LimitsIInv
    <2>1. CASE UserLive(v)' = UserLive(v)
      BY <1>3, <1>4, <1>7, <2>0, <2>1 DEF LimitsIInv
    <2>2. CASE v = u /\ UserLive(v)' = UserLive(v) \union {g} /\ g \notin UserLive(v)
      <3>1. IsFiniteSet(UserLive(v)')
            /\ Cardinality(UserLive(v)') = Cardinality(UserLive(v)) + 1
        BY <2>2, FS_AddElement DEF LimitsIInv
      <3>2. reservations'[v] = reservations[v] - 1
        BY <1>4, <2>2
      <3> QED
        BY <1>7, <2>0, <3>1, <3>2
    <2>3. \/ UserLive(v)' = UserLive(v)
          \/ v = u /\ UserLive(v)' = UserLive(v) \union {g} /\ g \notin UserLive(v)
      <3>1. CASE UNCHANGED sessions
        BY <3>1 DEF UserLive, Live
      <3>2. CASE /\ Live' = Live \union {g} /\ g \notin Live
                 /\ \A x \in Live : sessions'[x] = sessions[x]
                 /\ sessions'[g].actor = creates[g].actor
        BY <3>2 DEF UserLive
      <3> QED
        BY <3>1, <3>2
    <2> QED
      BY <2>1, <2>2, <2>3
  <1>10. Cardinality(Live') + Cardinality(Places') <= MaxSessions
    BY <1>6, <1>7, <1>8, LimitsNat DEF LimitsIInv
  <1>11. \A v \in Users : Cardinality(UserLive(v)') + reservations'[v] <= MaxPerUser
    <2> SUFFICES ASSUME NEW v \in Users
                 PROVE  Cardinality(UserLive(v)') + reservations'[v] <= MaxPerUser
      OBVIOUS
    <2>1. Cardinality(UserLive(v)') \in Nat /\ reservations'[v] \in Int /\ reservations[v] \in Nat
      BY <1>3, <1>4, <1>9, FS_CardinalityType DEF LimitsIInv
    <2> QED
      BY <1>7, <1>9, <2>1, LimitsNat DEF LimitsIInv
  <1>12. reservations' \in [Users -> Nat]
    BY <1>0, <1>1, <1>3 DEF LimitsIInv
  <1> QED
    BY <1>5, <1>6, <1>8, <1>9, <1>10, <1>11, <1>12 DEF LimitsIInv

\* A call that goes on keeps its place.
CallGoesOn(g) ==
    /\ creates[g].pc \in {"parent", "validate", "record", "denied"}
    /\ \E pc \in {"validate", "record", "denied"} : \E was : ToCreate(g, pc, was)

LEMMA KeepsPlace ==
    ASSUME ServiceIInv, NEW g \in Guids, CallGoesOn(g)
    PROVE  \A u \in Users : Calls(u)' = Calls(u)
  <1> PICK pc \in {"validate", "record", "denied"} : \E was : ToCreate(g, pc, was)
    BY DEF CallGoesOn
  <1> PICK was : ToCreate(g, pc, was)
    OBVIOUS
  <1>1. creates[g] \in Call
    BY CallTyped DEF CallGoesOn
  <1> DEFINE q == [creates[g] EXCEPT !.pc = pc, !.was = was]
  <1>2. q.pc = pc /\ q.actor = creates[g].actor
    BY <1>1 DEF Call
  <1>3. creates' = [creates EXCEPT ![g] = q]
    BY DEF ToCreate
  <1> HIDE DEF q
  <1>4. \A x \in Guids : creates'[x] = IF x = g THEN q ELSE creates[x]
    BY <1>3 DEF ServiceIInv, ServiceTyped
  <1> QED
    BY <1>2, <1>4 DEF Calls, CallGoesOn

LEMMA CreateLimits ==
    ASSUME ServiceIInv, LimitsIInv, NEW g \in Guids, CreateStep(g) PROVE LimitsIInv'
  <1>0. SessionsTyped /\ ServiceTyped
    BY DEF ServiceIInv, ServiceTyped
  <1>1. CASE CreateParentChecked(g)
    <2>1. creates[g].parent \in Guids \union {NoOne}
      BY <1>1, CallTyped DEF CreateParentChecked
    <2>2. GoOn
      BY <1>0, <1>1, <2>1, SameSessions, CloseGrantGoesOn DEF CreateParentChecked, NoClose
    <2>3. CallGoesOn(g)
      BY <1>1 DEF CreateParentChecked, CallGoesOn
    <2>4. SamePlaces
      BY <1>1, <2>3, KeepsPlace DEF CreateParentChecked, SamePlaces
    <2> QED
      BY <2>2, <2>4, FewerSessions
  <1>2. CASE CreateValidated(g)
    <2>0. CallGoesOn(g)
      BY <1>2 DEF CreateValidated, CallGoesOn
    <2>1. SamePlaces
      BY <1>2, <2>0, KeepsPlace DEF CreateValidated, SamePlaces
    <2>2. GoOn
      BY <1>0, <1>2, SameSessions DEF CreateValidated, NoClose
    <2> QED
      BY <2>1, <2>2, FewerSessions
  <1>3. CASE CreateDenied(g)
    BY <1>3, ReleaseStep DEF CreateDenied, NoClose
  <1>4. CASE CreateRecorded(g)
    <2>1. CASE ToCreate(g, "denied", FALSE) /\ NoClose /\ UNCHANGED reservations
      <3>0. CallGoesOn(g)
        BY <1>4, <2>1 DEF CreateRecorded, CallGoesOn
      <3>1. SamePlaces
        BY <2>1, <3>0, KeepsPlace DEF SamePlaces
      <3>2. GoOn
        BY <1>0, <2>1, SameSessions DEF NoClose
      <3> QED
        BY <3>1, <3>2, FewerSessions
    <2>2. CASE /\ sessions' = [sessions EXCEPT ![g] =
                    [kind |-> creates[g].kind, actor |-> creates[g].actor,
                     parent |-> creates[g].parent, profile |-> creates[g].profile,
                     active |-> FALSE, relay |-> NoOne, sockets |-> {}, age |-> 0,
                     epoch |-> creates[g].epoch]]
               /\ Release(g)
      <3> DEFINE q == [kind |-> creates[g].kind, actor |-> creates[g].actor,
                       parent |-> creates[g].parent, profile |-> creates[g].profile,
                       active |-> FALSE, relay |-> NoOne, sockets |-> {}, age |-> 0,
                       epoch |-> creates[g].epoch]
      <3>1. q.actor = creates[g].actor
        OBVIOUS
      <3>2. q # NoOne
        <4>1. creates[g].kind \in {"desktop", "file"}
          BY <1>4, CallTyped DEF CreateRecorded, Call
        <4> QED
          BY <4>1 DEF NoOne
      <3>3. sessions' = [sessions EXCEPT ![g] = q]
        BY <2>2
      <3> HIDE DEF q
      <3>4. \A x \in Guids : sessions'[x] = IF x = g THEN q ELSE sessions[x]
        BY <1>0, <3>3 DEF SessionsTyped
      <3>5. g \notin Live
        <4>1. creates[g] # Over
          BY <1>4 DEF CreateRecorded, Over
        <4> QED
          BY <4>1 DEF ServiceIInv, FamiliesOK, FamilyOK
      <3>6. Live' = Live \union {g} /\ \A x \in Live : sessions'[x] = sessions[x]
        BY <3>2, <3>4, <3>5 DEF Live
      <3> QED
        BY <1>4, <2>2, <3>1, <3>4, <3>5, <3>6, ReleaseStep DEF CreateRecorded
    <2> QED
      BY <1>4, <2>1, <2>2 DEF CreateRecorded
  <1> QED
    BY <1>1, <1>2, <1>3, <1>4 DEF CreateStep

LEMMA InitLimits == Init => LimitsIInv
  <1> SUFFICES ASSUME Init PROVE LimitsIInv
    OBVIOUS
  <1> USE DEF Init, SessionInit
  <1>1. Live = {} /\ \A u \in Users : UserLive(u) = {}
    BY DEF Live, UserLive
  <1>2. \A u \in Users : Calls(u) = {}
    BY DEF Calls, Unused
  <1>3. Places = {}
    BY DEF Places
  <1> QED
    BY <1>1, <1>2, <1>3, FS_EmptySet, LimitsNat DEF LimitsIInv

LEMMA NextLimits == WebIInv /\ LimitsIInv /\ [Next]_vars => LimitsIInv'
  <1> SUFFICES ASSUME WebIInv, LimitsIInv, [Next]_vars PROVE LimitsIInv'
    OBVIOUS
  <1>0. ServiceIInv /\ ServiceTyped
    BY DEF WebIInv, ServiceIInv
  <1>1. ASSUME GoOn, UNCHANGED <<creates, reservations>> PROVE LimitsIInv'
    BY <1>1, FewerSessions DEF Calls, SamePlaces
  <1>2. CASE ServiceStep
    <2>1. CASE CreateDesktop
      <3> PICK g \in Guids, a \in Actors : CreateStart(g, a, "desktop", NoOne)
        BY <2>1 DEF CreateDesktop
      <3> QED
        BY <1>0, ReserveStep
    <2>2. CASE CreateFile
      <3> PICK g \in Guids, a \in Actors, p \in Guids : CreateStart(g, a, "file", p)
        BY <2>2 DEF CreateFile
      <3> QED
        BY <1>0, ReserveStep
    <2>3. CASE \E g \in Guids : CreateStep(g)
      BY <1>0, <2>3, CreateLimits
    <2>4. CASE \/ \E g \in Guids : End(g) \/ Age(g)
               \/ LateSettles \/ ChangeProfile \/ \E a \in Actors : Revoke(a)
      BY <1>0, <1>1, <2>4, WorldStep DEF End, Age, LateSettles, ChangeProfile, Revoke
    <2>5. CASE RoundStep
      BY <1>0, <1>1, <2>5, RoundServiceStep
         DEF RoundStep, RoundStart, RoundNext, RoundChecked, RoundEnd
    <2>6. CASE VerificationTimeout
      BY <1>0, <1>1, <2>6, AllEndStep DEF VerificationTimeout
    <2> QED
      BY <1>2, <2>1, <2>2, <2>3, <2>4, <2>5, <2>6 DEF ServiceStep
  <1>3. CASE Shutdown
    BY <1>0, <1>1, <1>3, AllEndStep DEF Shutdown
  <1>4. ASSUME NEW c \in Channels,
               Upgrade(c) \/ ChannelStep(c) \/ ChannelCloses(c) \/ ChannelFails(c)
        PROVE  LimitsIInv'
    BY <1>1, <1>4, ChannelSessions DEF Service
  <1>5. CASE UNCHANGED vars
    BY <1>0, <1>1, <1>5, SameSessions DEF vars, sessionVars
  <1> QED
    BY <1>2, <1>3, <1>4, <1>5 DEF Next

\* The limits of 256 sessions and 8 for a user hold, however many requests are
\* decided at the same time.
THEOREM LimitsHold == Spec => []WithinLimits
  <1>1. LimitsIInv => WithinLimits
    <2> SUFFICES ASSUME LimitsIInv PROVE WithinLimits
      OBVIOUS
    <2>1. /\ Cardinality(Live) \in Nat /\ Cardinality(Places) \in Nat
          /\ \A u \in Users : Cardinality(UserLive(u)) \in Nat /\ reservations[u] \in Nat
      BY FS_CardinalityType DEF LimitsIInv
    <2> QED
      BY <2>1, LimitsNat DEF LimitsIInv, WithinLimits, UserSessions, UserLive
  <1> QED
    BY <1>1, InitLimits, NextLimits, WebInvariant, PTL DEF Spec
=============================================================================
