-------------------------- MODULE WebClientGateway --------------------------
(***************************************************************************)
(* The sockets of the browser client                                       *)
(* (src/modules/web-client/web-client.gateway.ts) and the grants they use. *)
(*                                                                         *)
(* stage follows Channel.stage; its "authorizing" and "opening" are split  *)
(* at their awaits:                                                        *)
(*   authorizing  consumeTicket waits for ensureValid                      *)
(*   rejecting    it failed and waits for the termination audit            *)
(*   claimed      it returned, authorize has not resumed                   *)
(*   checking     openUpstream waits for ensureValid                       *)
(*   connecting   it waits for the upstream socket                         *)
(*   marking, recording   markRelayOpen waits for ensureValid, its audit   *)
(*   opened       it returned, openUpstream has not resumed                *)
(* "replied" and "refused" are "reply" with an answer.  A stopped channel  *)
(* is "closed", or "abandoned" while consumeTicket still waits for it.     *)
(***************************************************************************)
EXTENDS WebClientSession

VARIABLE channels

vars == <<sessionVars, channels>>

Stages == {"none", "ticket", "authorizing", "rejecting", "claimed", "request",
           "checking", "connecting", "marking", "recording", "opened", "opaque",
           "reply", "replied", "refused", "abandoned", "closed"}

Channel == [stage : Stages, guid : Guids \union {NoOne},
            phase : Phases \union {"none"}, was : BOOLEAN]

NewChannel == [stage |-> "none", guid |-> NoOne, phase |-> "none", was |-> FALSE]

\* Stages in which channel.claim is set and the channel is not stopped.
Claimed == {"request", "checking", "connecting", "marking", "recording", "opened",
            "opaque", "reply", "replied", "refused"}

IsOpen(c) == channels[c].stage \notin {"none", "abandoned", "closed"}

Stopped(ch) == [ch EXCEPT !.stage =
                   IF @ \in {"authorizing", "claimed", "abandoned"} THEN "abandoned" ELSE "closed"]

(***************************************************************************)
(* The close callbacks of invalidate: a channel attached to a session that *)
(* left the map is stopped, and keeps the (dead) grant out of it.          *)
(***************************************************************************)
Closing == UNION {sessions[g].sockets : g \in {x \in Live : sessions'[x] = NoOne}}

\* The channels after a step that makes chs of them by itself.
AfterCallbacks(chs) ==
    \E closing \in {Closing} :
       channels' = [c \in Channels |-> IF c \in closing THEN Stopped(chs[c]) ELSE chs[c]]

Move(c, stage, was) ==
    AfterCallbacks([channels EXCEPT ![c].stage = stage, ![c].was = was])

\* detach.
Detached(c) == [g \in Guids |-> IF g \in Live THEN [sessions[g] EXCEPT !.sockets = @ \ {c}]
                                              ELSE NoOne]

Service == UNCHANGED <<creates, reservations, epoch, late, round, stopped, granted, profile>>

\* stop with the grant: closeGrant takes the family of the session along.
StopEnding(c) ==
    /\ CloseGrant(channels[c].guid)
    /\ AfterCallbacks([channels EXCEPT ![c] = Stopped(@)])
    /\ Service

\* stop that keeps the grant, or has none.
StopKeeping(c) ==
    /\ sessions' = Detached(c)
    /\ AfterCallbacks([channels EXCEPT ![c] = Stopped(@)])
    /\ UNCHANGED tickets
    /\ Service

(***************************************************************************)
(* A channel.                                                              *)
(***************************************************************************)

Upgrade(c) ==
    /\ ~stopped /\ channels[c] = NewChannel
    /\ NoClose /\ Service
    /\ Move(c, "ticket", FALSE)

\* consumeTicket up to its await: the ticket goes first.  A ticket that is
\* unknown, too old or early (no relay bound yet) stops the channel.
ReceiveTicket(c) ==
    /\ channels[c].stage = "ticket"
    /\ \E t \in tickets :
          /\ tickets' = tickets \ {t}
          /\ \/ /\ Current(t[1]) /\ (t[2] = "relay" => sessions[t[1]].relay # NoOne)
                /\ channels' = [channels EXCEPT ![c] =
                      [stage |-> "authorizing", guid |-> t[1], phase |-> t[2],
                       was |-> granted[sessions[t[1]].actor]]]
             \/ channels' = [channels EXCEPT ![c].stage = "closed"]
    /\ UNCHANGED sessions
    /\ Service

\* consumeTicket resumes.
TicketChecked(c) ==
    /\ channels[c].stage = "authorizing"
    /\ \/ Verifies(channels[c].guid, channels[c].was) /\ NoClose /\ Move(c, "claimed", FALSE)
       \/ CloseGrant(channels[c].guid) /\ Move(c, "rejecting", FALSE)
    /\ Service

Rejected(c) ==
    /\ channels[c].stage = "rejecting"
    /\ StopKeeping(c)

\* Mutant: the claim is taken for a live session.
AttachAnyway(c) ==
    /\ channels[c].stage = "claimed"
    /\ IF channels[c].guid \in Live
       THEN sessions' = [sessions EXCEPT ![channels[c].guid].sockets = @ \union {c}]
       ELSE UNCHANGED sessions
    /\ Move(c, "request", FALSE)
    /\ UNCHANGED tickets
    /\ Service

\* authorize resumes with the claim: attach, or give the grant up.
Attach(c) ==
    /\ channels[c].stage = "claimed"
    /\ LET g == channels[c].guid
       IN  IF Current(g) /\ Cardinality(sessions[g].sockets) < 2
           THEN /\ sessions' = [sessions EXCEPT ![g].sockets = @ \union {c}]
                /\ Move(c, "request", FALSE)
                /\ UNCHANGED tickets
                /\ Service
           ELSE /\ CloseGrant(g)
                /\ Move(c, "closed", FALSE)
                /\ Service

\* consumeTicket returns or fails for a channel that was stopped meanwhile: the
\* grant ends either way.
Abandon(c) ==
    /\ channels[c].stage = "abandoned"
    /\ CloseGrant(channels[c].guid)
    /\ Move(c, "closed", FALSE)
    /\ Service

\* A valid first request; openUpstream calls ensureValid.
ReceiveRequest(c) ==
    /\ channels[c].stage = "request" /\ Current(channels[c].guid)
    /\ NoClose
    /\ Move(c, "checking", granted[sessions[channels[c].guid].actor])
    /\ Service

RequestChecked(c) ==
    /\ channels[c].stage = "checking"
    /\ \/ Verifies(channels[c].guid, channels[c].was) /\ NoClose /\ Move(c, "connecting", FALSE)
       \/ CloseGrant(channels[c].guid) /\ Move(c, "checking", FALSE)
    /\ Service

\* The upstream socket opens; a relay goes on with markRelayOpen.
Connected(c) ==
    /\ channels[c].stage = "connecting"
    /\ NoClose
    /\ \/ channels[c].phase = "rendezvous" /\ Move(c, "reply", FALSE)
       \/ /\ channels[c].phase = "relay" /\ Current(channels[c].guid)
          /\ Move(c, "marking", granted[sessions[channels[c].guid].actor])
    /\ Service

MarkChecked(c) ==
    /\ channels[c].stage = "marking"
    /\ LET g == channels[c].guid
       IN  \/ /\ Verifies(g, channels[c].was)
              /\ ~sessions[g].active /\ sessions[g].relay # NoOne
              /\ NoClose /\ Move(c, "recording", FALSE)
           \/ CloseGrant(g) /\ Move(c, "marking", FALSE)
    /\ Service

\* The gateway_open audit answers: the session is active, or ends.
MarkRecorded(c) ==
    /\ channels[c].stage = "recording"
    /\ LET g == channels[c].guid
       IN  \/ /\ Current(g)
              /\ sessions' = [sessions EXCEPT ![g].active = TRUE]
              /\ Move(c, "opened", FALSE)
              /\ UNCHANGED tickets
           \/ CloseGrant(g) /\ Move(c, "recording", FALSE)
    /\ Service

\* openUpstream resumes and forwards the request.
Opened(c) ==
    /\ channels[c].stage = "opened"
    /\ NoClose /\ Service
    /\ Move(c, "opaque", FALSE)

\* bindRelay.
MayBind(g, r) ==
    /\ sessions[g].relay = NoOne
    /\ \A h \in Live : sessions[h].relay # r

\* The one answer of the rendezvous server.
ReceiveReply(c) ==
    /\ channels[c].stage = "reply"
    /\ \/ \E r \in Relays :
             /\ Current(channels[c].guid) /\ MayBind(channels[c].guid, r)
             /\ sessions' = [sessions EXCEPT ![channels[c].guid].relay = r]
             /\ Move(c, "replied", FALSE)
             /\ UNCHANGED tickets
       \/ NoClose /\ Move(c, "refused", FALSE)
    /\ Service

\* Mutant: the grant outlives its relay channel too.
ChannelHandsOver(c) ==
    /\ IsOpen(c)
    /\ IF channels[c].stage \in Claimed \ {"replied", "opaque"} THEN StopEnding(c)
                                                                ELSE StopKeeping(c)

\* The socket closes, at either side: after a positive answer the grant is
\* handed over to the relay channel.
ChannelCloses(c) ==
    /\ IsOpen(c)
    /\ IF channels[c].stage \in Claimed \ {"replied"} THEN StopEnding(c) ELSE StopKeeping(c)

\* An error, a handshake timer, a protocol violation or an overload.
ChannelFails(c) ==
    /\ channels[c].stage = "replied"
    /\ StopEnding(c)

ChannelStep(c) ==
    \/ ReceiveTicket(c) \/ TicketChecked(c) \/ Rejected(c) \/ Attach(c) \/ Abandon(c)
    \/ ReceiveRequest(c) \/ RequestChecked(c) \/ Connected(c)
    \/ MarkChecked(c) \/ MarkRecorded(c) \/ Opened(c) \/ ReceiveReply(c)

\* onModuleDestroy of the service and of the gateway, in one tick.
Shutdown ==
    /\ ~stopped /\ stopped' = TRUE
    /\ Invalidate(Live)
    /\ channels' = [c \in Channels |-> IF IsOpen(c) THEN Stopped(channels[c]) ELSE channels[c]]
    /\ UNCHANGED <<creates, reservations, epoch, late, round, granted, profile>>

\* The steps of the service, with the callbacks they cause.
ServiceStep ==
    /\ \/ CreateDesktop \/ CreateFile
       \/ \E g \in Guids : CreateStep(g) \/ End(g) \/ Age(g)
       \/ RoundStep
       \/ VerificationTimeout \/ LateSettles
       \/ \E a \in Actors : Revoke(a)
       \/ ChangeProfile
    /\ AfterCallbacks(channels)

Init ==
    /\ SessionInit
    /\ channels = [c \in Channels |-> NewChannel]

Next ==
    \/ ServiceStep
    \/ \E c \in Channels : Upgrade(c) \/ ChannelStep(c) \/ ChannelCloses(c) \/ ChannelFails(c)
    \/ Shutdown

Spec == Init /\ [][Next]_vars

\* Calls resume (withDeadline bounds every wait) and the timer starts rounds.
FairSpec ==
    /\ Spec
    /\ \A g \in Guids : WF_vars(CreateStep(g) /\ AfterCallbacks(channels))
    /\ WF_vars(RoundStep /\ AfterCallbacks(channels))

(***************************************************************************)
(* Properties.                                                             *)
(***************************************************************************)

\* Every variable has its type.
TypeOK == SessionTypeOK /\ channels \in [Channels -> Channel]

\* The limits hold whatever number of requests is decided at the same time.
WithinLimits ==
    /\ Cardinality(Live) <= MaxSessions
    /\ \A u \in Users : UserSessions(u) <= MaxPerUser

\* A verification that missed its deadline leaves no session behind and its late
\* answer revives none: every session was verified after the last timeout.
NoneFromBeforeTimeout ==
    /\ \A g \in Live : sessions[g].epoch = epoch
    /\ late > 0 \/ stopped => Live = {}

\* A file session lives within the active desktop session of its owner.
FileWithinDesktop ==
    \A g \in Live : sessions[g].kind = "file" =>
       LET p == sessions[g].parent
       IN  p \in Live /\ sessions[p].active /\ sessions[p].actor = sessions[g].actor

\* Bytes are only forwarded for a session that is in the map: however it ended,
\* its channels were closed with it.  And no two channels use the same ticket,
\* whatever handshakes are in progress.
ForwardsForLive ==
    \A c \in Channels : channels[c].stage \in Claimed =>
       /\ channels[c].guid \in Live /\ c \in sessions[channels[c].guid].sockets
       /\ channels[c].stage = "opaque" => sessions[channels[c].guid].active
       /\ \A d \in Channels \ {c} :
             channels[d].stage \in Claimed /\ channels[d].guid = channels[c].guid
                => channels[d].phase # channels[c].phase

\* An active session has its relay channel: one that lost it does not stay and
\* count against the limits.  No two live sessions share a relay.
ActiveHasRelay ==
    /\ \A g \in Live : sessions[g].active =>
          \E c \in Channels : /\ channels[c].guid = g /\ channels[c].phase = "relay"
                              /\ channels[c].stage \in {"opened", "opaque"}
    /\ \A g, h \in Live :
          sessions[g].relay # NoOne /\ sessions[g].relay = sessions[h].relay => g = h

\* A revoked login loses its sessions for good: the revalidation finds those
\* that were granted, or still being granted, when it was revoked.
RevokedEnds ==
    \A a \in Actors : ~granted[a] ~> [](\A g \in Live : sessions[g].actor # a)

\* A session over its time, or not used in time, does not hold its place forever.
OverdueEnds == \A g \in Guids : (g \in Live /\ ~InTime(g)) ~> g \notin Live
=============================================================================
