---------------------------- MODULE AccountProofs ----------------------------
(***************************************************************************)
(* Accounts: a second step logs in once, a token stays revoked, a secret   *)
(* that counts was proven, and a password is set by nobody else.           *)
(***************************************************************************)
EXTENDS MCAccounts, TLAPS

(***************************************************************************)
(* The invariant.                                                          *)
(***************************************************************************)

\* TypeOK without the requests.
Tables ==
    /\ scenario \in Scenarios
    /\ users \in [Users -> Row]
    /\ secrets \in Secrets \cup {0} /\ proven \subseteq Secrets
    /\ credentials \subseteq Users
    /\ invitations \in [Users -> {"none", "open", "used"}]
    /\ loginSessions \in [Sessions -> LoginSession]
    /\ userTokens \in [Tokens -> UserToken]
    /\ resetTokens \in [Resets -> ResetToken]
    /\ resetUses \in [Resets -> Nat]
    /\ barred \subseteq Users

\* What rows say about their user.
Owned ==
    /\ \A s \in Sessions : loginSessions[s].method = "passkey_reg" => loginSessions[s].user \in Users
    /\ \A r \in Resets : resetTokens[r].state = "open" => resetTokens[r].user \in Users

\* What a request in flight is about, and that a change of status sets no password.
OnUsers == {"link", "confirm", "passkey_reg", "verify", "counter", "register", "status",
            "lastPasskey"}
OnSession == {"verify", "counter", "mark", "register", "registered"}

RequestOK(q) ==
    /\ q.op \in OnUsers => q.user \in Users
    /\ q.op \in OnSession => q.key \in Sessions
    /\ q.op = "factor" => q.key = None
    /\ q.op = "issue" => q.key \in Sessions \cup {None}
    /\ q.op = "status" => q.new.password = q.row.password

RequestsOK ==
    /\ requests \in [Requests -> Request]
    /\ \A p \in Requests : RequestOK(requests[p])

\* Secrets in rows, and in the copies of rows that will be saved.
SecretsOK ==
    /\ \A u \in Users : users[u].tfaSecret \in proven \cup {0}
    /\ \A p \in Requests : requests[p].new.tfaSecret \in proven \cup {0}

AccountIInv == Tables /\ Owned /\ RequestsOK /\ SecretsOK

(***************************************************************************)
(* What a step can do to each table.                                       *)
(***************************************************************************)

UserEffect ==
    \/ users' = users
    \/ \E p \in Requests : SaveUser(p) \/ CommitUser(p) \/ ConfirmReset(p)
    \/ \E u \in Users :
          \/ \E pw \in Passwords : CreateUser(u, pw)
          \/ InviteUser(u) \/ DeleteUser(u)
    \/ \E U \in SUBSET Users, status \in {"active", "disabled"} : BatchUpdateStatus(U, status)

OtherEffect ==
    /\ scenario' = scenario
    /\ secrets' \in Secrets \cup {0}
    /\ proven' \subseteq Secrets /\ proven \subseteq proven'
    /\ credentials' \subseteq Users
    /\ invitations' \in [Users -> {"none", "open", "used"}]
    /\ barred' \subseteq Users

\* A session is opened once, and a used one stays used.
SessionKept(s) ==
    /\ loginSessions'[s].user = loginSessions[s].user
    /\ loginSessions'[s].method = loginSessions[s].method
    /\ loginSessions[s].state = "used" => loginSessions'[s].state = "used"

SessionOpened(s) ==
    /\ loginSessions[s] = FreeSession
    /\ loginSessions'[s].state = "unused"
    /\ loginSessions'[s].method = "passkey_reg" => loginSessions'[s].user \in Users

SessionEffect ==
    /\ loginSessions' \in [Sessions -> LoginSession]
    /\ \A s \in Sessions : SessionKept(s) \/ SessionOpened(s)

\* A token is issued once, and only withdrawn after that.
TokenKept(t) ==
    /\ userTokens'[t].user = userTokens[t].user
    /\ userTokens'[t].via = userTokens[t].via
    /\ \/ userTokens'[t].state = userTokens[t].state
       \/ userTokens'[t].state \in {"revoked", "deleted"}

TokenEffect ==
    /\ userTokens' \in [Tokens -> UserToken]
    /\ \/ \A t \in Tokens : TokenKept(t)
       \/ \E p \in Requests, t \in Tokens : GenerateToken(p, t)

\* A link is used once.
ResetKept(r) ==
    /\ resetTokens[r].state \notin {"free", "open", "expired"}
           => resetTokens'[r].state \notin {"free", "open", "expired"}
    /\ resetUses'[r] = resetUses[r]

ResetSpent(r) ==
    /\ resetTokens[r].state \in {"open", "expired"} /\ resetTokens'[r].state = "used"
    /\ resetUses'[r] = resetUses[r] + 1

ResetEffect ==
    /\ resetTokens' \in [Resets -> ResetToken]
    /\ resetUses' \in [Resets -> Nat]
    /\ \A r \in Resets :
          /\ ResetKept(r) \/ ResetSpent(r)
          /\ resetTokens'[r].state = "open" => resetTokens'[r].user \in Users

\* One request moves on; it comes to issue a token by marking a session or without one.
Moves(p, next) ==
    /\ next \in Request /\ RequestOK(next)
    /\ next.new.tfaSecret \in proven' \cup {0}
    /\ next.op = "issue" => (next.key = None \/ MarkSessionUsed(p))
    /\ requests' = [requests EXCEPT ![p] = next]

RequestEffect ==
    \/ requests' = requests
    \/ \E p \in Requests : \E next : Moves(p, next)

Effects ==
    /\ UserEffect /\ OtherEffect /\ SessionEffect /\ TokenEffect /\ ResetEffect
    /\ RequestEffect

-----------------------------------------------------------------------------
LEMMA SameTypes ==
    scenario' = scenario =>
        /\ Row' = Row /\ Request' = Request /\ Secrets' = Secrets /\ Passwords' = Passwords
        /\ SharedConnection' = SharedConnection
  BY DEF Row, Request, Secrets, Passwords, Info, SharedConnection

LEMMA KeptSessions ==
    ASSUME Tables, Owned, loginSessions' = loginSessions PROVE SessionEffect
  BY DEF Tables, Owned, SessionEffect, SessionKept

LEMMA KeptTokens ==
    ASSUME Tables, userTokens' = userTokens PROVE TokenEffect
  BY DEF Tables, TokenEffect, TokenKept

LEMMA KeptResets ==
    ASSUME Tables, Owned, resetTokens' = resetTokens, resetUses' = resetUses PROVE ResetEffect
  BY DEF Tables, Owned, ResetEffect, ResetKept

LEMMA KeptRows ==
    ASSUME Tables, UNCHANGED <<rows, barred>> PROVE UserEffect /\ OtherEffect
  BY DEF Tables, rows, UserEffect, OtherEffect

LEMMA Quiet ==
    ASSUME Tables, Owned, UNCHANGED <<rows, logins, barred>>
    PROVE  UserEffect /\ OtherEffect /\ SessionEffect /\ TokenEffect /\ ResetEffect
  <1>1. UNCHANGED <<rows, barred>> /\ UNCHANGED logins
    OBVIOUS
  <1> QED
    BY <1>1, KeptRows, KeptSessions, KeptTokens, KeptResets DEF logins

\* Ways a request moves.
LEMMA IdleTyped ==
    /\ NoRow \in Row /\ Idle \in Request /\ RequestOK(Idle)
    /\ Idle.new.tfaSecret = 0 /\ Idle.op = "idle"
  <1>1. NoInfo \in Info
    BY DEF NoInfo, Info
  <1>2. NoRow \in Row /\ NoRow.tfaSecret = 0
    BY <1>1 DEF NoRow, Row, Status
  <1>3. Idle.new = NoRow /\ Idle.op = "idle"
    BY DEF Idle
  <1>4. Idle \in Request
    <2>1. ASSUME NEW op \in Operations, NEW row \in Row
          PROVE  [op |-> op, user |-> None, key |-> None, row |-> row, new |-> row] \in Request
      BY DEF Request
    <2>2. "idle" \in Operations
      BY DEF Operations
    <2> QED
      BY <1>2, <2>1, <2>2 DEF Idle
  <1> QED
    BY <1>2, <1>3, <1>4 DEF RequestOK, OnUsers, OnSession

LEMMA NoRowSecret == NoRow.tfaSecret = 0
  BY DEF NoRow

LEMMA Finishes ==
    ASSUME NEW p \in Requests, Finish(p) PROVE RequestEffect
  <1>1. Moves(p, Idle)
    BY IdleTyped DEF Moves, Finish
  <1> QED
    BY <1>1 DEF RequestEffect

LEMMA Continues ==
    ASSUME AccountIInv, proven \subseteq proven', NEW p \in Requests, NEW op \in Operations,
           Continue(p, op),
           op \in OnUsers => requests[p].user \in Users,
           op \in OnSession => requests[p].key \in Sessions,
           op \notin {"factor", "status"},
           op = "issue" => \/ requests[p].key = None
                           \/ requests[p].key \in Sessions /\ MarkSessionUsed(p)
    PROVE  RequestEffect
  <1> DEFINE next == [requests[p] EXCEPT !.op = op]
  <1>1. requests[p] \in Request /\ requests \in [Requests -> Request]
    BY DEF AccountIInv, RequestsOK
  <1>2. /\ next \in Request /\ next.op = op /\ next.key = requests[p].key
        /\ next.new = requests[p].new /\ next.user = requests[p].user
    BY <1>1 DEF Request
  <1>3. requests' = [requests EXCEPT ![p] = next]
    BY <1>1 DEF Continue
  <1>4. next.new.tfaSecret \in proven' \cup {0}
    BY <1>2 DEF AccountIInv, SecretsOK
  <1>5. RequestOK(next)
    BY <1>2 DEF RequestOK
  <1>6. Moves(p, next)
    BY <1>2, <1>3, <1>4, <1>5 DEF Moves
  <1> QED
    BY <1>6 DEF RequestEffect

LEMMA Begins ==
    ASSUME NEW p \in Requests, NEW operation, NEW next \in Request, Begin(p, operation, next),
           RequestOK(next), next.new.tfaSecret \in proven' \cup {0}, next.op # "issue"
    PROVE  RequestEffect
  BY DEF Begin, RequestEffect, Moves

\* A request that reads nothing but its user, its key and its operation.
LEMMA BeginsPlain ==
    ASSUME NEW p \in Requests, NEW operation, NEW op \in Operations, NEW u \in Users \cup {None},
           NEW k \in Sessions \cup Tokens \cup Resets \cup {None},
           Begin(p, operation, [Idle EXCEPT !.op = op, !.user = u, !.key = k]),
           op \in OnUsers => u \in Users, op \in OnSession => k \in Sessions,
           op \notin {"factor", "status", "issue"}
    PROVE  RequestEffect
  <1> DEFINE next == [Idle EXCEPT !.op = op, !.user = u, !.key = k]
  <1>1. /\ next \in Request /\ next.op = op /\ next.new.tfaSecret = 0
        /\ next.user = u /\ next.key = k
    BY IdleTyped DEF Request
  <1>2. RequestOK(next)
    BY <1>1 DEF RequestOK
  <1> QED
    BY <1>1, <1>2, Begins

LEMMA BeginsFor ==
    ASSUME NEW p \in Requests, NEW operation, NEW op \in Operations, NEW u \in Users,
           Begin(p, operation, [Idle EXCEPT !.op = op, !.user = u]),
           op \notin {"factor", "status", "issue"} \cup OnSession
    PROVE  RequestEffect
  <1> DEFINE next == [Idle EXCEPT !.op = op, !.user = u]
  <1>1. next \in Request /\ next.op = op /\ next.new.tfaSecret = 0 /\ next.user = u
    BY IdleTyped DEF Request
  <1>2. RequestOK(next)
    BY <1>1 DEF RequestOK
  <1> QED
    BY <1>1, <1>2, Begins

\* A request that keeps a copy of its user's row and an edit of it.
LEMMA Edits ==
    ASSUME AccountIInv, proven \subseteq proven', NEW p \in Requests, NEW operation \in Operations,
           NEW u \in Users, NEW new \in Row, Edit(p, operation, u, new),
           new.tfaSecret \in proven' \cup {0},
           operation \notin {"issue", "factor"} \cup OnSession,
           operation = "status" => new.password = users[u].password
    PROVE  RequestEffect
  <1> DEFINE next == [Idle EXCEPT !.op = operation, !.user = u, !.row = users[u], !.new = new]
  <1>1. users[u] \in Row
    BY DEF AccountIInv, Tables
  <1>2. next \in Request /\ next.op = operation /\ next.new = new /\ next.row = users[u]
         /\ next.user = u
    BY <1>1, IdleTyped DEF Request
  <1>3. RequestOK(next)
    BY <1>2 DEF RequestOK
  <1>4. Begin(p, operation, next)
    BY DEF Edit
  <1> QED
    BY <1>2, <1>3, <1>4, Begins

-----------------------------------------------------------------------------
(* Signing in, action by action. *)
LEMMA Passing ==
    ASSUME AccountIInv, UNCHANGED <<rows, logins, barred>>, RequestEffect PROVE Effects
  BY Quiet DEF Effects, AccountIInv

LEMMA LocalLoginSteps ==
    ASSUME AccountIInv, NEW p \in Requests, NEW u \in Users, LocalLogin(p, u)
    PROVE  Effects
  <1> DEFINE next == [Idle EXCEPT !.op = "factor", !.user = u, !.row = users[u]]
  <1>1. users[u] \in Row
    BY DEF AccountIInv, Tables
  <1>2. next \in Request /\ next.op = "factor" /\ next.new = NoRow /\ next.user = u /\ next.key = None
    <2>1. "factor" \in Operations /\ Idle.new = NoRow /\ Idle.key = None
      BY DEF Idle, Operations
    <2> QED
      BY <1>1, <2>1, IdleTyped DEF Request
  <1>3. RequestOK(next)
    BY <1>2 DEF RequestOK, OnUsers, OnSession
  <1>4. Begin(p, "login", next) /\ UNCHANGED <<rows, logins, barred>>
    BY DEF LocalLogin
  <1>5. next.new.tfaSecret = 0
    BY <1>2 DEF NoRow
  <1>6. RequestEffect
    BY <1>2, <1>3, <1>4, <1>5, Begins
  <1> QED
    BY <1>4, <1>6, Passing

LEMMA WithoutTyped ==
    ASSUME AccountIInv, NEW U, loginSessions' = SessionsWithout(U) PROVE SessionEffect
  <1>1. \A s \in Sessions : loginSessions[s] \in LoginSession
    BY DEF AccountIInv, Tables
  <1>2. ASSUME NEW s \in Sessions PROVE loginSessions'[s] \in LoginSession /\ SessionKept(s)
    <2>1. CASE loginSessions[s].user \in U /\ loginSessions[s].state \in {"unused", "expired"}
      <3>1. loginSessions'[s] = [loginSessions[s] EXCEPT !.state = "deleted"]
        BY <2>1 DEF SessionsWithout
      <3> QED
        BY <1>1, <2>1, <3>1 DEF LoginSession, SessionKept
    <2>2. CASE ~(loginSessions[s].user \in U /\ loginSessions[s].state \in {"unused", "expired"})
      BY <1>1, <2>2 DEF SessionsWithout, SessionKept
    <2> QED
      BY <2>1, <2>2
  <1>3. loginSessions' \in [Sessions -> LoginSession]
    BY <1>2 DEF SessionsWithout
  <1> QED
    BY <1>2, <1>3 DEF SessionEffect

LEMMA RevokedTyped ==
    ASSUME AccountIInv, NEW U, userTokens' = TokensRevoked(U) PROVE TokenEffect
  <1>1. \A t \in Tokens : userTokens[t] \in UserToken
    BY DEF AccountIInv, Tables
  <1>2. ASSUME NEW t \in Tokens PROVE userTokens'[t] \in UserToken /\ TokenKept(t)
    <2>1. CASE userTokens[t].user \in U /\ userTokens[t].state = "live"
      <3>1. userTokens'[t] = [userTokens[t] EXCEPT !.state = "revoked"]
        BY <2>1 DEF TokensRevoked
      <3> QED
        BY <1>1, <2>1, <3>1 DEF UserToken, TokenKept
    <2>2. CASE ~(userTokens[t].user \in U /\ userTokens[t].state = "live")
      BY <1>1, <2>2 DEF TokensRevoked, TokenKept
    <2> QED
      BY <2>1, <2>2
  <1>3. userTokens' \in [Tokens -> UserToken]
    BY <1>2 DEF TokensRevoked
  <1> QED
    BY <1>2, <1>3 DEF TokenEffect

LEMMA RevokingTyped ==
    ASSUME AccountIInv, NEW U, RevokeActiveTokens(U) PROVE SessionEffect /\ TokenEffect
  BY WithoutTyped, RevokedTyped DEF RevokeActiveTokens

\* Only one of the other tables changes.
LEMMA OnlySessions ==
    ASSUME AccountIInv, UNCHANGED <<rows, userTokens, resetTokens, resetUses, barred>>,
           SessionEffect, RequestEffect
    PROVE  Effects
  BY KeptRows, KeptTokens, KeptResets DEF Effects, AccountIInv

LEMMA OnlyTokens ==
    ASSUME AccountIInv, UNCHANGED <<rows, loginSessions, resetTokens, resetUses, barred>>,
           TokenEffect, RequestEffect
    PROVE  Effects
  BY KeptRows, KeptSessions, KeptResets DEF Effects, AccountIInv

LEMMA OnlyResets ==
    ASSUME AccountIInv, UNCHANGED <<rows, loginSessions, userTokens, barred>>,
           ResetEffect, RequestEffect
    PROVE  Effects
  BY KeptRows, KeptSessions, KeptTokens DEF Effects, AccountIInv

LEMMA OnlyRows ==
    ASSUME AccountIInv, UNCHANGED logins, UserEffect, OtherEffect, RequestEffect
    PROVE  Effects
  BY KeptSessions, KeptTokens, KeptResets DEF Effects, AccountIInv, logins

LEMMA Stays ==
    ASSUME AccountIInv, NEW p \in Requests
    PROVE  requests[p] \in Request /\ RequestOK(requests[p])
  BY DEF AccountIInv, RequestsOK

\* One session changes its state.
LEMMA SessionMarked ==
    ASSUME AccountIInv, NEW s, NEW state \in {"used", "expired"},
           loginSessions[s].state = "unused",
           loginSessions' = [loginSessions EXCEPT ![s].state = state]
    PROVE  SessionEffect
  <1>1. loginSessions \in [Sessions -> LoginSession]
    BY DEF AccountIInv, Tables
  <1>2. ASSUME NEW r \in Sessions PROVE loginSessions'[r] \in LoginSession /\ SessionKept(r)
    <2>1. CASE r = s
      <3>1. loginSessions'[r] = [loginSessions[r] EXCEPT !.state = state]
        BY <1>1, <2>1
      <3>2. loginSessions[r] \in LoginSession
        BY <1>1
      <3> QED
        BY <2>1, <3>1, <3>2 DEF LoginSession, SessionKept
    <2>2. CASE r # s
      BY <1>1, <2>2 DEF SessionKept
    <2> QED
      BY <2>1, <2>2
  <1>3. loginSessions' \in [Sessions -> LoginSession]
    BY <1>1, <1>2
  <1> QED
    BY <1>2, <1>3 DEF SessionEffect

LEMMA ChooseFactorSteps ==
    ASSUME AccountIInv, NEW p \in Requests, ChooseFactor(p) PROVE Effects
  <1> DEFINE u == requests[p].user
             factor == SecondFactor(requests[p].row, u \in credentials)
  <1>1. requests[p].op = "factor" /\ requests[p].key = None
    BY Stays DEF ChooseFactor, RequestOK
  <1>2. UNCHANGED <<rows, userTokens, resetTokens, resetUses, barred>>
    BY DEF ChooseFactor
  <1>3. proven \subseteq proven'
    BY <1>2 DEF rows
  <1>4. factor \in {"email", "passkey_tfa", "tfa", "enforce_tfa", "none"}
    BY DEF SecondFactor
  <1>5. SessionEffect
    BY WithoutTyped, KeptSessions DEF ChooseFactor, AccountIInv
  <1>6. Finish(p) \/ (\E op \in {"issue", "email", "passkey_tfa", "tfa"} : Continue(p, op))
    <2> HIDE DEF factor
    <2> QED
      BY <1>4 DEF ChooseFactor, factor
  <1>7. RequestEffect
    <2>1. ASSUME NEW op \in {"issue", "email", "passkey_tfa", "tfa"}, Continue(p, op)
          PROVE  RequestEffect
      <3>1. op \in Operations /\ op \notin OnUsers \cup OnSession \cup {"factor", "status"}
        BY DEF Operations, Methods, OnUsers, OnSession
      <3> QED
        BY <1>1, <1>3, <2>1, <3>1, Continues
    <2> QED
      BY <1>6, <2>1, Finishes
  <1> QED
    BY <1>2, <1>5, <1>7, OnlySessions

LEMMA CreateSessionSteps ==
    ASSUME AccountIInv, NEW p \in Requests, NEW s \in Sessions, CreateSession(p, s) PROVE Effects
  <1> DEFINE opened == [state |-> "unused", user |-> requests[p].user, method |-> requests[p].op]
  <1>1. loginSessions \in [Sessions -> LoginSession]
    BY DEF AccountIInv, Tables
  <1>2. requests[p].user \in Users \cup {None} /\ requests[p].op \in Methods
    BY Stays DEF Request, CreateSession
  <1>3. requests[p].op = "passkey_reg" => requests[p].user \in Users
    BY Stays DEF RequestOK, OnUsers
  <1>4. opened \in LoginSession
    BY <1>2 DEF LoginSession
  <1>5. loginSessions[s] = FreeSession
    BY DEF CreateSession, Unused
  <1>6. loginSessions' = [loginSessions EXCEPT ![s] = opened]
    BY DEF CreateSession
  <1>7. SessionOpened(s)
    BY <1>1, <1>3, <1>5, <1>6 DEF SessionOpened
  <1>8. \A r \in Sessions \ {s} : SessionKept(r)
    BY <1>1, <1>6 DEF SessionKept
  <1>9. SessionEffect
    BY <1>1, <1>4, <1>6, <1>7, <1>8 DEF SessionEffect
  <1> QED
    BY <1>9, OnlySessions, Finishes DEF CreateSession

LEMMA SessionExpiresSteps ==
    ASSUME AccountIInv, NEW s \in Sessions, SessionExpires(s) PROVE Effects
  <1>1. SessionEffect
    BY SessionMarked DEF SessionExpires
  <1>2. RequestEffect
    BY DEF SessionExpires, RequestEffect
  <1> QED
    BY <1>1, <1>2, OnlySessions DEF SessionExpires

LEMMA BeginAuthLoginSteps ==
    ASSUME AccountIInv, NEW p \in Requests, BeginAuthLogin(p) PROVE Effects
  <1> DEFINE next == [Idle EXCEPT !.op = "passkey"]
  <1>1. Begin(p, "passkey", next) /\ UNCHANGED <<rows, logins, barred>>
    BY DEF BeginAuthLogin
  <1>2. "passkey" \in Operations
    BY DEF Operations, Methods
  <1>3. next \in Request /\ next.op = "passkey" /\ next.new.tfaSecret = 0
    BY <1>2, IdleTyped DEF Request
  <1>4. RequestOK(next)
    BY <1>3 DEF RequestOK, OnUsers, OnSession
  <1> QED
    BY <1>1, <1>3, <1>4, Begins, Passing

LEMMA FindSessionSteps ==
    ASSUME AccountIInv, NEW p \in Requests, NEW s \in Sessions, NEW u \in Users,
           FindSession(p, s, u)
    PROVE  Effects
  <1>1. "verify" \in Operations \ {"factor", "status", "issue"}
    BY DEF Operations
  <1> QED
    BY <1>1, BeginsPlain, Passing DEF FindSession

LEMMA VerifySecondSteps ==
    ASSUME AccountIInv, NEW p \in Requests, VerifySecond(p) PROVE Effects
  <1>1. requests[p].user \in Users /\ requests[p].key \in Sessions
    BY Stays DEF RequestOK, VerifySecond, OnUsers, OnSession
  <1>2. {"counter", "mark"} \subseteq Operations \ {"factor", "status", "issue"}
    BY DEF Operations
  <1>3. UNCHANGED <<rows, logins, barred>>
    BY DEF VerifySecond
  <1>4. proven \subseteq proven'
    BY <1>3 DEF rows
  <1>5. Finish(p) \/ Continue(p, "counter") \/ Continue(p, "mark")
    BY DEF VerifySecond
  <1>6. RequestEffect
    BY <1>1, <1>2, <1>4, <1>5, Finishes, Continues
  <1> QED
    BY <1>3, <1>6, Passing

LEMMA SaveCounterSteps ==
    ASSUME AccountIInv, NEW p \in Requests, SaveCounter(p) PROVE Effects
  <1>1. requests[p].user \in Users /\ requests[p].key \in Sessions
    BY Stays DEF RequestOK, SaveCounter, OnUsers, OnSession
  <1>2. "mark" \in Operations \ ({"factor", "status", "issue"} \cup OnUsers)
    BY DEF Operations, OnUsers
  <1>3. UserEffect /\ OtherEffect
    BY <1>1 DEF SaveCounter, UserEffect, OtherEffect, AccountIInv, Tables
  <1>4. RequestEffect
    BY <1>1, <1>2, Continues DEF SaveCounter
  <1> QED
    BY <1>3, <1>4, OnlyRows DEF SaveCounter

LEMMA MarkSessionUsedSteps ==
    ASSUME AccountIInv, NEW p \in Requests, MarkSessionUsed(p) PROVE Effects
  <1>1. requests[p].key \in Sessions
    BY Stays DEF RequestOK, MarkSessionUsed, OnSession
  <1>2. "issue" \in Operations \ ({"factor", "status"} \cup OnUsers \cup OnSession)
    BY DEF Operations, OnUsers, OnSession
  <1>3. UNCHANGED <<rows, userTokens, resetTokens, resetUses, barred>>
    BY DEF MarkSessionUsed
  <1>4. SessionEffect
    BY SessionMarked, KeptSessions DEF MarkSessionUsed, AccountIInv
  <1>5. proven \subseteq proven'
    BY <1>3 DEF rows
  <1>6. Finish(p) \/ Continue(p, "issue")
    BY DEF MarkSessionUsed
  <1>7. RequestEffect
    BY <1>1, <1>2, <1>5, <1>6, Finishes, Continues
  <1> QED
    BY <1>3, <1>4, <1>7, OnlySessions

LEMMA GenerateTokenSteps ==
    ASSUME AccountIInv, NEW p \in Requests, NEW t \in Tokens, GenerateToken(p, t) PROVE Effects
  <1> DEFINE issued == [state |-> "live", user |-> requests[p].user, via |-> requests[p].key]
  <1>1. userTokens \in [Tokens -> UserToken]
    BY DEF AccountIInv, Tables
  <1>2. requests[p].user \in Users \cup {None} /\ requests[p].key \in Sessions \cup {None}
    BY Stays DEF Request, RequestOK, GenerateToken
  <1>3. issued \in UserToken
    BY <1>2 DEF UserToken
  <1>4. userTokens' = userTokens \/ userTokens' = [userTokens EXCEPT ![t] = issued]
    BY DEF GenerateToken
  <1>5. userTokens' \in [Tokens -> UserToken]
    BY <1>1, <1>3, <1>4
  <1>6. TokenEffect
    BY <1>5 DEF TokenEffect
  <1>7. /\ UNCHANGED <<rows, loginSessions, resetTokens, resetUses, barred>>
        /\ Finish(p)
    BY DEF GenerateToken
  <1> QED
    BY <1>6, <1>7, OnlyTokens, Finishes

LEMMA ValidateTokenSteps ==
    ASSUME AccountIInv, NEW p \in Requests, NEW t \in Tokens, ValidateToken(p, t) PROVE Effects
  <1>1. "validated" \in Operations \ ({"factor", "status", "issue"} \cup OnUsers \cup OnSession)
    BY DEF Operations, OnUsers, OnSession
  <1>2. userTokens[t].user \in Users \cup {None}
    BY DEF AccountIInv, Tables, UserToken
  <1> QED
    BY <1>1, <1>2, BeginsPlain, Passing DEF ValidateToken

LEMMA CheckAccountSteps ==
    ASSUME AccountIInv, NEW p \in Requests, CheckAccount(p) PROVE Effects
  <1>1. "serve" \in Operations \ ({"factor", "status", "issue"} \cup OnUsers \cup OnSession)
    BY DEF Operations, OnUsers, OnSession
  <1>2. UNCHANGED <<rows, logins, barred>>
    BY DEF CheckAccount
  <1>3. proven \subseteq proven'
    BY <1>2 DEF rows
  <1>4. RequestEffect
    BY <1>1, <1>3, Finishes, Continues DEF CheckAccount
  <1> QED
    BY <1>2, <1>4, Passing

LEMMA ServeSteps ==
    ASSUME AccountIInv, NEW p \in Requests, Serve(p) PROVE Effects
  BY Finishes, Passing DEF Serve

\* Some tokens are withdrawn, the others stay what they are.
LEMMA TokensWithdrawn ==
    ASSUME AccountIInv, NEW T, NEW state \in {"revoked", "deleted"},
           userTokens' = [t \in Tokens |->
               IF t \in T THEN [userTokens[t] EXCEPT !.state = state] ELSE userTokens[t]]
    PROVE  TokenEffect
  <1>1. \A t \in Tokens : userTokens[t] \in UserToken
    BY DEF AccountIInv, Tables
  <1>2. ASSUME NEW t \in Tokens PROVE userTokens'[t] \in UserToken /\ TokenKept(t)
    <2>1. CASE t \in T
      <3>1. userTokens'[t] = [userTokens[t] EXCEPT !.state = state]
        BY <2>1
      <3> QED
        BY <1>1, <3>1 DEF UserToken, TokenKept
    <2>2. CASE t \notin T
      BY <1>1, <2>2 DEF TokenKept
    <2> QED
      BY <2>1, <2>2
  <1>3. userTokens' \in [Tokens -> UserToken]
    BY <1>2
  <1> QED
    BY <1>2, <1>3 DEF TokenEffect

LEMMA TokenWithdrawn ==
    ASSUME AccountIInv, NEW t, NEW state \in {"revoked", "deleted"},
           userTokens' = [userTokens EXCEPT ![t].state = state]
    PROVE  TokenEffect
  <1>1. userTokens \in [Tokens -> UserToken]
    BY DEF AccountIInv, Tables
  <1>2. userTokens' = [x \in Tokens |->
            IF x \in {t} THEN [userTokens[x] EXCEPT !.state = state] ELSE userTokens[x]]
    BY <1>1
  <1> QED
    BY <1>2, TokensWithdrawn

LEMMA LogoutSteps ==
    ASSUME AccountIInv, NEW p \in Requests, NEW T \in SUBSET Tokens, Logout(p, T) PROVE Effects
  <1>1. TokenEffect
    BY TokensWithdrawn DEF Logout
  <1>2. RequestEffect
    BY DEF Logout, RequestEffect
  <1> QED
    BY <1>1, <1>2, OnlyTokens DEF Logout

LEMMA RevokeSessionSteps ==
    ASSUME AccountIInv, NEW p \in Requests, NEW t \in Tokens, RevokeSession(p, t) PROVE Effects
  <1> DEFINE op == IF userTokens[t].state = "live" THEN "revoke" ELSE "again"
  <1>1. op \in Operations \ ({"factor", "status", "issue"} \cup OnUsers \cup OnSession)
    BY DEF Operations, OnUsers, OnSession
  <1>2. userTokens[t].user \in Users \cup {None}
    BY DEF AccountIInv, Tables, UserToken
  <1>3. /\ Begin(p, "revoke", [Idle EXCEPT !.op = op, !.user = userTokens[t].user, !.key = t])
        /\ UNCHANGED <<rows, logins, barred>>
    BY DEF RevokeSession
  <1> HIDE DEF op
  <1> QED
    BY <1>1, <1>2, <1>3, BeginsPlain, Passing

LEMMA SaveRevokedSteps ==
    ASSUME AccountIInv, NEW p \in Requests, SaveRevoked(p) PROVE Effects
  <1>1. TokenEffect
    BY TokenWithdrawn, KeptTokens DEF SaveRevoked, FlagSaved, AccountIInv
  <1> QED
    BY <1>1, OnlyTokens, Finishes DEF SaveRevoked

LEMMA CleanupSteps ==
    ASSUME AccountIInv, NEW t \in Tokens, HandleCleanupExpiredTokens(t) PROVE Effects
  <1>1. TokenEffect
    BY TokenWithdrawn DEF HandleCleanupExpiredTokens
  <1>2. RequestEffect
    BY DEF HandleCleanupExpiredTokens, RequestEffect
  <1> QED
    BY <1>1, <1>2, OnlyTokens DEF HandleCleanupExpiredTokens

LEMMA RequestResetSteps ==
    ASSUME AccountIInv, NEW p \in Requests, NEW u \in Users, RequestReset(p, u) PROVE Effects
  <1>1. "link" \in Operations \ ({"factor", "status", "issue"} \cup OnSession)
    BY DEF Operations, OnSession
  <1>2. UNCHANGED <<rows, loginSessions, userTokens, resetUses, barred>>
    BY DEF RequestReset
  <1>3. \A r \in Resets : resetTokens[r] \in ResetToken
    BY DEF AccountIInv, Tables
  <1>4. ASSUME NEW r \in Resets
        PROVE  /\ resetTokens'[r] \in ResetToken /\ ResetKept(r)
               /\ resetTokens'[r].state = "open" => resetTokens'[r].user \in Users
    <2>1. CASE resetTokens[r].user = u
      <3>1. resetTokens'[r] = [resetTokens[r] EXCEPT !.state = "deleted"]
        BY <2>1 DEF RequestReset
      <3> QED
        BY <1>2, <1>3, <3>1 DEF ResetToken, ResetKept
    <2>2. CASE resetTokens[r].user # u
      BY <1>2, <1>3, <2>2 DEF RequestReset, ResetKept, AccountIInv, Owned
    <2> QED
      BY <2>1, <2>2
  <1>5. resetTokens' \in [Resets -> ResetToken] /\ resetUses' \in [Resets -> Nat]
    BY <1>2, <1>4 DEF RequestReset, AccountIInv, Tables
  <1>6. ResetEffect
    BY <1>4, <1>5 DEF ResetEffect
  <1>7. RequestEffect
    BY <1>1, BeginsFor DEF RequestReset
  <1> QED
    BY <1>2, <1>6, <1>7, OnlyResets

LEMMA SaveResetSteps ==
    ASSUME AccountIInv, NEW p \in Requests, NEW r \in Resets, SaveReset(p, r) PROVE Effects
  <1> DEFINE opened == [state |-> "open", user |-> requests[p].user]
  <1>1. requests[p].user \in Users
    BY Stays DEF RequestOK, SaveReset, OnUsers
  <1>2. opened \in ResetToken /\ opened.state = "open" /\ opened.user \in Users
    BY <1>1 DEF ResetToken
  <1>3. resetTokens \in [Resets -> ResetToken] /\ resetUses \in [Resets -> Nat]
    BY DEF AccountIInv, Tables
  <1>4. resetTokens' = [resetTokens EXCEPT ![r] = opened] /\ resetUses' = resetUses
    BY DEF SaveReset
  <1>5. resetTokens[r].state = "free"
    BY DEF SaveReset, FreeReset
  <1> HIDE DEF opened
  <1>6. resetTokens' \in [Resets -> ResetToken] /\ resetUses' \in [Resets -> Nat]
    BY <1>2, <1>3, <1>4
  <1>7. \A x \in Resets : ResetKept(x)
    BY <1>3, <1>4, <1>5 DEF ResetKept
  <1>8. \A x \in Resets : resetTokens'[x].state = "open" => resetTokens'[x].user \in Users
    BY <1>2, <1>3, <1>4 DEF AccountIInv, Owned
  <1>9. ResetEffect
    BY <1>6, <1>7, <1>8 DEF ResetEffect
  <1> QED
    BY <1>9, OnlyResets, Finishes DEF SaveReset

LEMMA ResetExpiresSteps ==
    ASSUME AccountIInv, NEW r \in Resets, ResetExpires(r) PROVE Effects
  <1>1. resetTokens \in [Resets -> ResetToken] /\ resetUses \in [Resets -> Nat]
    BY DEF AccountIInv, Tables
  <1>2. /\ resetTokens' = [resetTokens EXCEPT ![r].state = "expired"]
        /\ resetTokens[r].state = "open" /\ resetUses' = resetUses
    BY DEF ResetExpires
  <1>3. resetTokens' \in [Resets -> ResetToken] /\ resetUses' \in [Resets -> Nat]
    BY <1>1, <1>2 DEF ResetToken
  <1>4. \A x \in Resets : ResetKept(x)
    BY <1>1, <1>2 DEF ResetKept
  <1>5. \A x \in Resets : resetTokens'[x].state = "open" => resetTokens'[x].user \in Users
    BY <1>1, <1>2 DEF AccountIInv, Owned, ResetToken
  <1>6. ResetEffect
    BY <1>3, <1>4, <1>5 DEF ResetEffect
  <1>7. RequestEffect
    BY DEF ResetExpires, RequestEffect
  <1> QED
    BY <1>6, <1>7, OnlyResets DEF ResetExpires

LEMMA ReadResetSteps ==
    ASSUME AccountIInv, NEW p \in Requests, NEW r \in Resets, NEW pw \in Passwords,
           ReadReset(p, r, pw)
    PROVE  Effects
  <1> DEFINE u == resetTokens[r].user
             new == [users[u] EXCEPT !.password = pw]
             next == [op |-> "confirm", user |-> u, key |-> r, row |-> users[u], new |-> new]
  <1>1. u \in Users /\ users[u] \in Row /\ users[u].tfaSecret \in proven \cup {0}
    BY DEF ReadReset, AccountIInv, Owned, Tables, SecretsOK
  <1>2. new \in Row /\ new.tfaSecret = users[u].tfaSecret
    BY <1>1 DEF Row
  <1>3. "confirm" \in Operations \ ({"factor", "status", "issue"} \cup OnSession)
    BY DEF Operations, OnSession
  <1>4. Begin(p, "reset", next) /\ UNCHANGED <<rows, logins, barred>>
    BY DEF ReadReset
  <1>5. proven' = proven
    BY <1>4 DEF rows
  <1> HIDE DEF new
  <1>6. next \in Request /\ next.op = "confirm" /\ next.user = u /\ next.new = new
    BY <1>1, <1>2, <1>3 DEF Request
  <1>7. RequestOK(next)
    BY <1>1, <1>3, <1>6 DEF RequestOK
  <1>8. RequestEffect
    BY <1>1, <1>2, <1>3, <1>4, <1>5, <1>6, <1>7, Begins
  <1> QED
    BY <1>4, <1>8, Passing

LEMMA ConfirmResetSteps ==
    ASSUME AccountIInv, NEW p \in Requests, ConfirmReset(p) PROVE Effects
  <1> DEFINE r == requests[p].key
  <1>1. resetTokens \in [Resets -> ResetToken] /\ resetUses \in [Resets -> Nat]
    BY DEF AccountIInv, Tables
  <1>2. UserEffect /\ OtherEffect
    BY DEF ConfirmReset, UserEffect, OtherEffect, AccountIInv, Tables
  <1>3. CASE LinkStillUnused(r)
    <2>1. /\ resetTokens[r].state \in {"open", "expired"}
          /\ resetTokens' = [resetTokens EXCEPT ![r].state = "used"]
          /\ resetUses' = [resetUses EXCEPT ![r] = resetUses[r] + 1]
          /\ \E U : RevokeActiveTokens(U)
      BY <1>3 DEF ConfirmReset, LinkStillUnused
    <2>2. resetTokens' \in [Resets -> ResetToken]
      BY <1>1, <2>1 DEF ResetToken
    <2>3. resetUses' \in [Resets -> Nat]
      <3>1. ASSUME NEW x \in Resets PROVE resetUses'[x] \in Nat
        BY <1>1, <2>1
      <3> QED
        BY <1>1, <2>1, <3>1
    <2>4. \A x \in Resets : ResetKept(x) \/ ResetSpent(x)
      BY <1>1, <2>1 DEF ResetKept, ResetSpent
    <2>5. \A x \in Resets : resetTokens'[x].state = "open" => resetTokens'[x].user \in Users
      BY <1>1, <2>1 DEF AccountIInv, Owned
    <2>6. ResetEffect
      BY <2>2, <2>3, <2>4, <2>5 DEF ResetEffect
    <2>7. SessionEffect /\ TokenEffect
      BY <2>1, RevokingTyped
    <2> QED
      BY <1>2, <2>6, <2>7, Finishes DEF ConfirmReset, Effects
  <1>4. CASE ~LinkStillUnused(r)
    BY <1>2, <1>4, KeptSessions, KeptTokens, KeptResets, Finishes
       DEF ConfirmReset, Effects, AccountIInv, logins
  <1> QED
    BY <1>3, <1>4

-----------------------------------------------------------------------------
(* Changes of a row, action by action. *)
LEMMA RowTyped ==
    ASSUME AccountIInv, NEW u \in Users
    PROVE  /\ users[u] \in Row /\ users[u].info \in Info
           /\ users[u].tfaSecret \in proven \cup {0} /\ users[u].tfaSecret \in Secrets \cup {0}
           /\ users[u].password \in Passwords \cup {0}
  <1>1. users[u] \in Row
    BY DEF AccountIInv, Tables
  <1> QED
    BY <1>1 DEF Row, AccountIInv, SecretsOK

\* What an edit may be called.
EditOps == Operations \ ({"issue", "factor"} \cup OnSession)

LEMMA EditNames ==
    {"profile", "setupTfa", "bindTfa", "disableTfa", "passkeyTfa", "accept", "password",
     "security", "status"} \subseteq EditOps
  BY DEF EditOps, Operations, OnSession

LEMMA EditsOnly ==
    ASSUME AccountIInv, UNCHANGED <<rows, logins, barred>>, NEW p \in Requests,
           NEW operation \in EditOps, NEW u \in Users, NEW new \in Row, Edit(p, operation, u, new),
           new.tfaSecret \in proven \cup {0},
           operation = "status" => new.password = users[u].password
    PROVE  Effects
  <1>1. proven' = proven
    BY DEF rows
  <1> QED
    BY <1>1, Edits, Passing DEF EditOps

LEMMA UpdateCurrentUserSteps ==
    ASSUME AccountIInv, NEW p \in Requests, NEW u \in Users, UpdateCurrentUser(p, u) PROVE Effects
  BY RowTyped, EditNames, EditsOnly DEF UpdateCurrentUser

LEMMA SetupTfaSteps ==
    ASSUME AccountIInv, NEW p \in Requests, NEW u \in Users, SetupTfa(p, u) PROVE Effects
  <1> DEFINE new == [users[u] EXCEPT !.info.pending = secrets + 1]
  <1>1. scenario.secrets \in Nat /\ secrets \in Secrets \cup {0}
    BY ScenarioAssumption DEF AccountIInv, Tables
  <1>2. secrets < scenario.secrets
    BY DEF SetupTfa
  <1>3. secrets + 1 \in Secrets
    BY <1>1, <1>2 DEF Secrets
  <1>4. [users[u].info EXCEPT !.pending = secrets + 1] \in Info
    BY <1>3, RowTyped DEF Info
  <1>5. new \in Row /\ new.tfaSecret = users[u].tfaSecret
    BY <1>4, RowTyped DEF Row
  <1>6. UserEffect /\ OtherEffect
    BY <1>3 DEF SetupTfa, UserEffect, OtherEffect, AccountIInv, Tables
  <1>7. Edit(p, "setupTfa", u, new) /\ proven' = proven
    BY DEF SetupTfa
  <1> HIDE DEF new
  <1>8. RequestEffect
    BY <1>5, <1>7, RowTyped, EditNames, Edits DEF EditOps
  <1> QED
    BY <1>6, <1>8, OnlyRows DEF SetupTfa

LEMMA VerifyAndBindTfaSteps ==
    ASSUME AccountIInv, NEW p \in Requests, NEW u \in Users, VerifyAndBindTfa(p, u) PROVE Effects
  <1> DEFINE new == Bound(users[u])
             pending == users[u].info.pending
  <1>1. pending \in Secrets \cup {0} /\ pending # 0
    BY RowTyped DEF Info, VerifyAndBindTfa
  <1>2. [users[u].info EXCEPT !.pending = 0] \in Info
    BY RowTyped DEF Info
  <1>3. new \in Row /\ new.tfaSecret = pending
    BY <1>1, <1>2, RowTyped DEF Row, Bound
  <1>4. proven' = proven \cup {pending}
    BY DEF VerifyAndBindTfa
  <1>5. UserEffect /\ OtherEffect
    BY <1>1, <1>4 DEF VerifyAndBindTfa, UserEffect, OtherEffect, AccountIInv, Tables
  <1>6. Edit(p, "bindTfa", u, new)
    BY DEF VerifyAndBindTfa
  <1> HIDE DEF new, pending
  <1>7. RequestEffect
    BY <1>3, <1>4, <1>6, EditNames, Edits DEF EditOps
  <1> QED
    BY <1>5, <1>7, OnlyRows DEF VerifyAndBindTfa

LEMMA DisableTfaSteps ==
    ASSUME AccountIInv, NEW p \in Requests, NEW u \in Users, DisableTfa(p, u) PROVE Effects
  <1> DEFINE new == [users[u] EXCEPT !.tfaSecret = 0]
  <1>1. new \in Row /\ new.tfaSecret = 0
    BY RowTyped DEF Row
  <1>2. Edit(p, "disableTfa", u, new) /\ UNCHANGED <<rows, logins, barred>>
    BY DEF DisableTfa
  <1> HIDE DEF new
  <1> QED
    BY <1>1, <1>2, EditNames, EditsOnly

LEMMA SetPasskeyTfaEnabledSteps ==
    ASSUME AccountIInv, NEW p \in Requests, NEW u \in Users, NEW on \in BOOLEAN,
           SetPasskeyTfaEnabled(p, u, on)
    PROVE  Effects
  <1> DEFINE new == [users[u] EXCEPT !.info.passkey = on]
  <1>1. [users[u].info EXCEPT !.passkey = on] \in Info
    BY RowTyped DEF Info
  <1>2. new \in Row /\ new.tfaSecret = users[u].tfaSecret
    BY <1>1, RowTyped DEF Row
  <1>3. Edit(p, "passkeyTfa", u, new) /\ UNCHANGED <<rows, logins, barred>>
    BY DEF SetPasskeyTfaEnabled
  <1> HIDE DEF new
  <1> QED
    BY <1>2, <1>3, RowTyped, EditNames, EditsOnly

LEMMA AcceptInvitationSteps ==
    ASSUME AccountIInv, NEW p \in Requests, NEW u \in Users, NEW pw \in Passwords,
           AcceptInvitation(p, u, pw)
    PROVE  Effects
  <1> DEFINE new == [users[u] EXCEPT !.password = pw, !.status = "active"]
  <1>1. new \in Row /\ new.tfaSecret = users[u].tfaSecret
    BY RowTyped DEF Row, Status
  <1>2. Edit(p, "accept", u, new) /\ UNCHANGED <<rows, logins, barred>>
    BY DEF AcceptInvitation
  <1> HIDE DEF new
  <1> QED
    BY <1>1, <1>2, RowTyped, EditNames, EditsOnly

LEMMA ChangePasswordSteps ==
    ASSUME AccountIInv, NEW p \in Requests, NEW u \in Users, NEW pw \in Passwords,
           ChangePassword(p, u, pw)
    PROVE  Effects
  <1> DEFINE new == [users[u] EXCEPT !.password = pw]
  <1>1. new \in Row /\ new.tfaSecret = users[u].tfaSecret
    BY RowTyped DEF Row
  <1>2. Edit(p, "password", u, new) /\ UNCHANGED <<rows, logins, barred>>
    BY DEF ChangePassword
  <1> HIDE DEF new
  <1> QED
    BY <1>1, <1>2, RowTyped, EditNames, EditsOnly

LEMMA UpdateUserSecuritySteps ==
    ASSUME AccountIInv, NEW p \in Requests, NEW u \in Users, NEW pw \in Passwords,
           NEW enforce \in BOOLEAN, NEW email \in BOOLEAN,
           UpdateUserSecurity(p, u, enforce, email, pw)
    PROVE  Effects
  <1> DEFINE new == [users[u] EXCEPT !.info.enforce = enforce, !.info.email = email,
                                     !.password = pw]
  <1>1. [users[u].info EXCEPT !.enforce = enforce, !.email = email] \in Info
    BY RowTyped DEF Info
  <1>2. new = [users[u] EXCEPT !.info = [users[u].info EXCEPT !.enforce = enforce, !.email = email],
                               !.password = pw]
    BY RowTyped DEF Row, Info
  <1>3. new \in Row /\ new.tfaSecret = users[u].tfaSecret
    BY <1>1, <1>2, RowTyped DEF Row
  <1>4. Edit(p, "security", u, new) /\ UNCHANGED <<rows, logins, barred>>
    BY DEF UpdateUserSecurity
  <1> HIDE DEF new
  <1> QED
    BY <1>3, <1>4, RowTyped, EditNames, EditsOnly

LEMMA UpdateUserSteps ==
    ASSUME AccountIInv, NEW p \in Requests, NEW u \in Users, NEW status \in {"active", "disabled"},
           UpdateUser(p, u, status)
    PROVE  Effects
  <1> DEFINE new == [users[u] EXCEPT !.status = status]
  <1>1. new \in Row /\ new.tfaSecret = users[u].tfaSecret /\ new.password = users[u].password
    BY RowTyped DEF Row, Status
  <1>2. Edit(p, "status", u, new) /\ UNCHANGED <<rows, logins, barred>>
    BY DEF UpdateUser
  <1> HIDE DEF new
  <1> QED
    BY <1>1, <1>2, RowTyped, EditNames, EditsOnly

LEMMA SaveUserSteps ==
    ASSUME AccountIInv, NEW p \in Requests, SaveUser(p) PROVE Effects
  <1>1. "accepted" \in Operations \ ({"factor", "status", "issue"} \cup OnUsers \cup OnSession)
    BY DEF Operations, OnUsers, OnSession
  <1>2. UserEffect /\ OtherEffect
    BY DEF SaveUser, UserEffect, OtherEffect, AccountIInv, Tables
  <1>3. RequestEffect
    BY <1>1, Finishes, Continues DEF SaveUser
  <1> QED
    BY <1>2, <1>3, OnlyRows DEF SaveUser

LEMMA MarkInvitationUsedSteps ==
    ASSUME AccountIInv, NEW p \in Requests, MarkInvitationUsed(p) PROVE Effects
  <1>1. invitations' \in [Users -> {"none", "open", "used"}]
    BY DEF MarkInvitationUsed, AccountIInv, Tables
  <1>2. UserEffect /\ OtherEffect
    BY <1>1 DEF MarkInvitationUsed, UserEffect, OtherEffect, AccountIInv, Tables
  <1> QED
    BY <1>2, OnlyRows, Finishes DEF MarkInvitationUsed

LEMMA BeginRegistrationSteps ==
    ASSUME AccountIInv, NEW p \in Requests, NEW u \in Users, BeginRegistration(p, u) PROVE Effects
  <1>1. "passkey_reg" \in Operations \ ({"factor", "status", "issue"} \cup OnSession)
    BY DEF Operations, Methods, OnSession
  <1> QED
    BY <1>1, BeginsFor, Passing DEF BeginRegistration

LEMMA VerifyRegistrationSteps ==
    ASSUME AccountIInv, NEW p \in Requests, NEW s \in Sessions, VerifyRegistration(p, s)
    PROVE  Effects
  <1>1. "register" \in Operations \ {"factor", "status", "issue"}
    BY DEF Operations
  <1>2. loginSessions[s].user \in Users
    BY DEF VerifyRegistration, AccountIInv, Owned
  <1> QED
    BY <1>1, <1>2, BeginsPlain, Passing DEF VerifyRegistration

LEMMA SaveCredentialSteps ==
    ASSUME AccountIInv, NEW p \in Requests, SaveCredential(p) PROVE Effects
  <1>1. requests[p].user \in Users /\ requests[p].key \in Sessions
    BY Stays DEF RequestOK, SaveCredential, OnUsers, OnSession
  <1>2. "registered" \in Operations \ ({"factor", "status", "issue"} \cup OnUsers)
    BY DEF Operations, OnUsers
  <1>3. UserEffect /\ OtherEffect
    BY <1>1 DEF SaveCredential, UserEffect, OtherEffect, AccountIInv, Tables
  <1>4. RequestEffect
    BY <1>1, <1>2, Continues DEF SaveCredential
  <1> QED
    BY <1>3, <1>4, OnlyRows DEF SaveCredential

LEMMA MarkRegistrationUsedSteps ==
    ASSUME AccountIInv, NEW p \in Requests, MarkRegistrationUsed(p) PROVE Effects
  <1> DEFINE s == requests[p].key
  <1>1. loginSessions \in [Sessions -> LoginSession]
    BY DEF AccountIInv, Tables
  <1>2. s \in Sessions
    BY Stays DEF RequestOK, MarkRegistrationUsed, OnSession
  <1>3. ASSUME loginSessions[s].state = "unused" PROVE SessionEffect
    <2>1. loginSessions' = [loginSessions EXCEPT ![s].state = "used"]
      BY <1>1, <1>2, <1>3 DEF MarkRegistrationUsed
    <2> QED
      BY <1>3, <2>1, SessionMarked
  <1>4. ASSUME loginSessions[s].state # "unused" PROVE SessionEffect
    <2>1. [loginSessions[s] EXCEPT !.state = loginSessions[s].state] = loginSessions[s]
      BY <1>1, <1>2 DEF LoginSession
    <2>2. loginSessions' = loginSessions
      BY <1>1, <1>2, <1>4, <2>1 DEF MarkRegistrationUsed
    <2> QED
      BY <2>2, KeptSessions DEF AccountIInv
  <1> QED
    BY <1>3, <1>4, OnlySessions, Finishes DEF MarkRegistrationUsed

LEMMA DeleteCredentialSteps ==
    ASSUME AccountIInv, NEW p \in Requests, NEW u \in Users, DeleteCredential(p, u) PROVE Effects
  <1>1. "lastPasskey" \in Operations \ ({"factor", "status", "issue"} \cup OnSession)
    BY DEF Operations, OnSession
  <1>2. UserEffect /\ OtherEffect
    BY DEF DeleteCredential, UserEffect, OtherEffect, AccountIInv, Tables
  <1>3. RequestEffect
    BY <1>1, BeginsFor DEF DeleteCredential
  <1> QED
    BY <1>2, <1>3, OnlyRows DEF DeleteCredential

LEMMA SwitchPasskeyOffSteps ==
    ASSUME AccountIInv, NEW p \in Requests, SwitchPasskeyOff(p) PROVE Effects
  <1> DEFINE u == requests[p].user
             new == [users[u] EXCEPT !.info.passkey = FALSE]
             next == [requests[p] EXCEPT !.op = "passkeyTfa", !.row = users[u], !.new = new]
  <1>1. UNCHANGED <<rows, logins, barred>>
    BY DEF SwitchPasskeyOff
  <1>2. proven' = proven
    BY <1>1 DEF rows
  <1>3. CASE Exists(u) /\ u \notin credentials /\ u \in Users
    <2>1. [users[u].info EXCEPT !.passkey = FALSE] \in Info
      BY <1>3, RowTyped DEF Info
    <2>2. new \in Row /\ new.tfaSecret = users[u].tfaSecret
      BY <1>3, <2>1, RowTyped DEF Row
    <2>3. requests' = [requests EXCEPT ![p] = next]
      BY <1>3, Stays DEF SwitchPasskeyOff, AccountIInv, RequestsOK
    <2> HIDE DEF new
    <2>4. "passkeyTfa" \in Operations \ ({"issue", "factor", "status"} \cup OnSession \cup OnUsers)
      BY DEF Operations, OnSession, OnUsers
    <2>5. next \in Request /\ next.op = "passkeyTfa" /\ next.new = new
      BY <1>3, <2>2, <2>4, Stays, RowTyped DEF Request
    <2>6. RequestOK(next)
      BY <2>4, <2>5 DEF RequestOK
    <2>7. Moves(p, next)
      BY <1>2, <1>3, <2>2, <2>3, <2>4, <2>5, <2>6, RowTyped DEF Moves
    <2> QED
      BY <1>1, <2>7, Passing DEF RequestEffect
  <1>4. CASE ~(Exists(u) /\ u \notin credentials)
    BY <1>1, <1>4, Finishes, Passing DEF SwitchPasskeyOff
  <1>5. u \in Users
    BY Stays DEF SwitchPasskeyOff, RequestOK, OnUsers
  <1> QED
    BY <1>3, <1>4, <1>5

LEMMA CreateUserSteps ==
    ASSUME AccountIInv, NEW u \in Users, NEW pw \in Passwords, CreateUser(u, pw) PROVE Effects
  <1>1. UserEffect /\ OtherEffect
    BY DEF CreateUser, UserEffect, OtherEffect, AccountIInv, Tables
  <1>2. RequestEffect /\ UNCHANGED logins
    BY DEF CreateUser, RequestEffect
  <1> QED
    BY <1>1, <1>2, OnlyRows

LEMMA InviteUserSteps ==
    ASSUME AccountIInv, NEW u \in Users, InviteUser(u) PROVE Effects
  <1>1. invitations' \in [Users -> {"none", "open", "used"}]
    BY DEF InviteUser, AccountIInv, Tables
  <1>2. UserEffect /\ OtherEffect
    BY <1>1 DEF InviteUser, UserEffect, OtherEffect, AccountIInv, Tables
  <1>3. RequestEffect /\ UNCHANGED logins
    BY DEF InviteUser, RequestEffect
  <1> QED
    BY <1>2, <1>3, OnlyRows

LEMMA DeleteUserSteps ==
    ASSUME AccountIInv, NEW u \in Users, DeleteUser(u) PROVE Effects
  <1> DEFINE T == {t \in Tokens : userTokens[t].user = u}
  <1>1. UserEffect /\ OtherEffect
    BY DEF DeleteUser, UserEffect, OtherEffect, AccountIInv, Tables
  <1>2. SessionEffect
    BY WithoutTyped DEF DeleteUser
  <1>3. userTokens' = [t \in Tokens |->
            IF t \in T THEN [userTokens[t] EXCEPT !.state = "deleted"] ELSE userTokens[t]]
    BY DEF DeleteUser
  <1>4. TokenEffect
    BY <1>3, TokensWithdrawn
  <1>5. RequestEffect
    BY DEF DeleteUser, RequestEffect
  <1>6. ResetEffect
    BY KeptResets DEF DeleteUser, AccountIInv
  <1> QED
    BY <1>1, <1>2, <1>4, <1>5, <1>6 DEF Effects

LEMMA CommitUserSteps ==
    ASSUME AccountIInv, NEW p \in Requests, CommitUser(p) PROVE Effects
  <1>1. requests[p].op = "status" => requests[p].user \in Users
    BY Stays DEF RequestOK, OnUsers
  <1>2. barred' \subseteq Users
    BY <1>1 DEF CommitUser, BarredAfter, AccountIInv, Tables
  <1>3. UserEffect /\ OtherEffect
    BY <1>2 DEF CommitUser, UserEffect, OtherEffect, AccountIInv, Tables
  <1>4. SessionEffect /\ TokenEffect
    BY RevokingTyped, KeptSessions, KeptTokens DEF CommitUser, AccountIInv
  <1>5. ResetEffect /\ RequestEffect
    BY KeptResets, Finishes DEF CommitUser, AccountIInv
  <1> QED
    BY <1>3, <1>4, <1>5 DEF Effects

LEMMA BatchUpdateStatusSteps ==
    ASSUME AccountIInv, NEW U \in SUBSET Users, NEW status \in {"active", "disabled"},
           BatchUpdateStatus(U, status)
    PROVE  Effects
  <1>1. barred' \subseteq Users
    BY DEF BatchUpdateStatus, AccountIInv, Tables
  <1>2. UserEffect /\ OtherEffect
    BY <1>1 DEF BatchUpdateStatus, UserEffect, OtherEffect, AccountIInv, Tables
  <1>3. SessionEffect /\ TokenEffect
    BY RevokingTyped, KeptSessions, KeptTokens DEF BatchUpdateStatus, AccountIInv
  <1>4. ResetEffect /\ RequestEffect
    BY KeptResets DEF BatchUpdateStatus, AccountIInv, RequestEffect
  <1> QED
    BY <1>2, <1>3, <1>4 DEF Effects

LEMMA ForceLogoutSteps ==
    ASSUME AccountIInv, NEW U \in SUBSET Users, ForceLogout(U) PROVE Effects
  <1>1. SessionEffect /\ TokenEffect
    BY RevokingTyped DEF ForceLogout
  <1>2. ResetEffect /\ RequestEffect /\ UserEffect /\ OtherEffect
    BY KeptResets, KeptRows DEF ForceLogout, AccountIInv, RequestEffect
  <1> QED
    BY <1>1, <1>2 DEF Effects

-----------------------------------------------------------------------------
LEMMA NextEffects ==
    ASSUME AccountIInv, Next PROVE Effects
  <1>1. CASE SignIn
    <2>1. ASSUME NEW p \in Requests, NEW u \in Users, LocalLogin(p, u) \/ RequestReset(p, u)
          PROVE  Effects
      BY <2>1, LocalLoginSteps, RequestResetSteps
    <2>2. ASSUME NEW p \in Requests,
                 \/ ChooseFactor(p) \/ BeginAuthLogin(p) \/ VerifySecond(p) \/ SaveCounter(p)
                 \/ MarkSessionUsed(p)
          PROVE  Effects
      BY <2>2, ChooseFactorSteps, BeginAuthLoginSteps, VerifySecondSteps, SaveCounterSteps,
         MarkSessionUsedSteps
    <2>3. ASSUME NEW p \in Requests,
                 CheckAccount(p) \/ Serve(p) \/ SaveRevoked(p) \/ ConfirmReset(p)
          PROVE  Effects
      BY <2>3, CheckAccountSteps, ServeSteps, SaveRevokedSteps, ConfirmResetSteps
    <2>4. ASSUME NEW p \in Requests, NEW s \in Sessions,
                 CreateSession(p, s) \/ \E u \in Users : FindSession(p, s, u)
          PROVE  Effects
      BY <2>4, CreateSessionSteps, FindSessionSteps
    <2>5. ASSUME NEW p \in Requests, NEW t \in Tokens,
                 GenerateToken(p, t) \/ ValidateToken(p, t) \/ RevokeSession(p, t)
          PROVE  Effects
      BY <2>5, GenerateTokenSteps, ValidateTokenSteps, RevokeSessionSteps
    <2>6. ASSUME NEW p \in Requests, NEW T \in SUBSET Tokens, Logout(p, T)
          PROVE  Effects
      BY <2>6, LogoutSteps
    <2>7. ASSUME NEW p \in Requests, NEW r \in Resets,
                 SaveReset(p, r) \/ \E pw \in Passwords : ReadReset(p, r, pw)
          PROVE  Effects
      BY <2>7, SaveResetSteps, ReadResetSteps
    <2>8. ASSUME \/ \E s \in Sessions : SessionExpires(s)
                 \/ \E t \in Tokens : HandleCleanupExpiredTokens(t)
                 \/ \E r \in Resets : ResetExpires(r)
          PROVE  Effects
      BY <2>8, SessionExpiresSteps, CleanupSteps, ResetExpiresSteps
    <2> QED
      BY <1>1, <2>1, <2>2, <2>3, <2>4, <2>5, <2>6, <2>7, <2>8 DEF SignIn
  <1>2. CASE Update
    <2>1. ASSUME NEW p \in Requests,
                 \/ SaveUser(p) \/ MarkInvitationUsed(p) \/ SwitchPasskeyOff(p) \/ CommitUser(p)
                 \/ SaveCredential(p) \/ MarkRegistrationUsed(p)
          PROVE  Effects
      BY <2>1, SaveUserSteps, MarkInvitationUsedSteps, SwitchPasskeyOffSteps, CommitUserSteps,
         SaveCredentialSteps, MarkRegistrationUsedSteps
    <2>2. ASSUME NEW p \in Requests, NEW s \in Sessions, VerifyRegistration(p, s)
          PROVE  Effects
      BY <2>2, VerifyRegistrationSteps
    <2>3. ASSUME NEW p \in Requests, NEW u \in Users,
                 \/ UpdateCurrentUser(p, u) \/ SetupTfa(p, u) \/ VerifyAndBindTfa(p, u)
                 \/ DisableTfa(p, u) \/ BeginRegistration(p, u) \/ DeleteCredential(p, u)
          PROVE  Effects
      BY <2>3, UpdateCurrentUserSteps, SetupTfaSteps, VerifyAndBindTfaSteps, DisableTfaSteps,
         BeginRegistrationSteps, DeleteCredentialSteps
    <2>4. ASSUME NEW p \in Requests, NEW u \in Users,
                 \/ \E on \in BOOLEAN : SetPasskeyTfaEnabled(p, u, on)
                 \/ \E status \in {"active", "disabled"} : UpdateUser(p, u, status)
          PROVE  Effects
      BY <2>4, SetPasskeyTfaEnabledSteps, UpdateUserSteps
    <2>5. ASSUME NEW p \in Requests, NEW u \in Users, NEW pw \in Passwords,
                 \/ AcceptInvitation(p, u, pw) \/ ChangePassword(p, u, pw)
                 \/ \E enforce, email \in BOOLEAN : UpdateUserSecurity(p, u, enforce, email, pw)
          PROVE  Effects
      BY <2>5, AcceptInvitationSteps, ChangePasswordSteps, UpdateUserSecuritySteps
    <2>6. ASSUME NEW u \in Users,
                 \/ \E pw \in Passwords : CreateUser(u, pw)
                 \/ InviteUser(u) \/ DeleteUser(u)
          PROVE  Effects
      BY <2>6, CreateUserSteps, InviteUserSteps, DeleteUserSteps
    <2>7. ASSUME NEW U \in SUBSET Users,
                 \/ ForceLogout(U)
                 \/ \E status \in {"active", "disabled"} : BatchUpdateStatus(U, status)
          PROVE  Effects
      BY <2>7, ForceLogoutSteps, BatchUpdateStatusSteps
    <2> QED
      BY <1>2, <2>1, <2>2, <2>3, <2>4, <2>5, <2>6, <2>7 DEF Update
  <1> QED
    BY <1>1, <1>2 DEF Next

-----------------------------------------------------------------------------
(* Saving a copy of a row. *)
LEMMA MergeTyped ==
    ASSUME NEW old \in Row, NEW new \in Row, NEW columns
    PROVE  /\ Merge(old, new, columns) \in Row
           /\ Merge(old, new, columns).tfaSecret
                 = IF "tfaSecret" \in columns THEN new.tfaSecret ELSE old.tfaSecret
           /\ Merge(old, new, columns).password
                 = IF "password" \in columns THEN new.password ELSE old.password
  <1> DEFINE m == Merge(old, new, columns)
  <1>1. DOMAIN old = {"status", "password", "tfaSecret", "info"}
    BY DEF Row
  <1>2. m = [c \in {"status", "password", "tfaSecret", "info"} |->
                IF c \in columns THEN new[c] ELSE old[c]]
    BY <1>1 DEF Merge
  <1>3. m = [status |-> m.status, password |-> m.password, tfaSecret |-> m.tfaSecret,
             info |-> m.info]
    BY <1>2
  <1>4. /\ m.status = IF "status" \in columns THEN new.status ELSE old.status
        /\ m.info = IF "info" \in columns THEN new.info ELSE old.info
        /\ m.tfaSecret = IF "tfaSecret" \in columns THEN new.tfaSecret ELSE old.tfaSecret
        /\ m.password = IF "password" \in columns THEN new.password ELSE old.password
    BY <1>2
  <1> HIDE DEF m
  <1>5. m.status \in Status /\ m.info \in Info
    BY <1>4 DEF Row
  <1>6. m.password \in Passwords \cup {0} /\ m.tfaSecret \in Secrets \cup {0}
    BY <1>4 DEF Row
  <1>7. m \in Row
    BY <1>3, <1>5, <1>6 DEF Row
  <1> QED
    BY <1>4, <1>7 DEF m

LEMMA SavedTyped ==
    ASSUME AccountIInv, NEW u \in Users, NEW new \in Row, new.tfaSecret \in proven \cup {0},
           NEW columns
    PROVE  /\ SavedRow(u, new, columns) \in Row
           /\ SavedRow(u, new, columns).tfaSecret \in proven \cup {0}
           /\ (Exists(u) /\ "password" \notin columns)
                 => SavedRow(u, new, columns).password = users[u].password
  <1> DEFINE old == IF Exists(u) THEN users[u] ELSE NoRow
  <1>1. old \in Row /\ old.tfaSecret \in proven \cup {0}
    BY RowTyped, IdleTyped, NoRowSecret
  <1>2. SavedRow(u, new, columns) = Merge(old, new, columns)
    BY DEF SavedRow
  <1>3. Exists(u) => old = users[u]
    OBVIOUS
  <1> HIDE DEF old
  <1> QED
    BY <1>1, <1>2, <1>3, MergeTyped

LEMMA SavedInTransactionTyped ==
    ASSUME AccountIInv, NEW u \in Users, NEW old, NEW new \in Row,
           new.tfaSecret \in proven \cup {0}, NEW columns
    PROVE  /\ SavedInTransaction(u, old, new, columns) \in Row
           /\ SavedInTransaction(u, old, new, columns).tfaSecret \in proven \cup {0}
           /\ (Exists(u) /\ "password" \notin columns)
                 => SavedInTransaction(u, old, new, columns).password = users[u].password
  <1> DEFINE written == {c \in columns : new[c] # old[c]}
  <1>1. CASE SharedConnection
    BY <1>1, SavedTyped DEF SavedInTransaction
  <1>2. CASE ~SharedConnection /\ Exists(u)
    <2>1. SavedInTransaction(u, old, new, columns) = Merge(users[u], new, written)
      BY <1>2 DEF SavedInTransaction
    <2>2. "password" \notin columns => "password" \notin written
      OBVIOUS
    <2> HIDE DEF written
    <2> QED
      BY <2>1, <2>2, RowTyped, MergeTyped
  <1>3. CASE ~SharedConnection /\ ~Exists(u)
    BY <1>3, RowTyped DEF SavedInTransaction
  <1> QED
    BY <1>1, <1>2, <1>3

\* What a step makes of a user's row.
RowEffect(u) ==
    /\ users'[u] \in Row
    /\ users'[u].tfaSecret \in proven' \cup {0}
    /\ (Exists(u) /\ users'[u].status # "deleted" /\ users'[u].password # users[u].password)
           => \E p \in Requests : PasswordChanges(p) /\ requests[p].user = u

LEMMA CopyTyped ==
    ASSUME AccountIInv, NEW p \in Requests
    PROVE  requests[p].new \in Row /\ requests[p].new.tfaSecret \in proven \cup {0}
  BY Stays DEF Request, AccountIInv, SecretsOK

\* A handler that sets a password is over, or past setting it, when it has.
LEMMA Settled ==
    ASSUME AccountIInv, NEW p \in Requests,
           requests[p].op \in {"accept", "password", "security", "confirm"},
           Finish(p) \/ Continue(p, "accepted")
    PROVE  PasswordChanges(p)
  <1>1. requests \in [Requests -> Request] /\ requests[p] \in Request
    BY DEF AccountIInv, RequestsOK
  <1>2. requests'[p].op \in {"idle", "accepted"}
    BY <1>1, IdleTyped DEF Finish, Continue, Request
  <1> QED
    BY <1>2 DEF PasswordChanges

LEMMA SaveUserRows ==
    ASSUME AccountIInv, NEW p \in Requests, SaveUser(p), NEW u \in Users PROVE RowEffect(u)
  <1> DEFINE r == requests[p]
             saved == SavedRow(r.user, r.new, Loaded(r.op))
  <1>1. users \in [Users -> Row] /\ proven' = proven
    BY DEF AccountIInv, Tables, SaveUser
  <1>2. users' = [users EXCEPT ![r.user] = saved]
    BY DEF SaveUser
  <1>3. CASE u = r.user
    <2>1. users'[u] = saved
      BY <1>1, <1>2, <1>3
    <2>2. /\ saved \in Row /\ saved.tfaSecret \in proven \cup {0}
          /\ (Exists(u) /\ "password" \notin Loaded(r.op)) => saved.password = users[u].password
      BY <1>3, CopyTyped, SavedTyped
    <2>3. r.op = "accept" \/ "password" \notin Loaded(r.op)
      BY DEF Loaded, Plain, WithTfa
    <2>4. r.op = "accept" => PasswordChanges(p)
      BY Settled DEF SaveUser
    <2> QED
      BY <1>1, <1>3, <2>1, <2>2, <2>3, <2>4 DEF RowEffect
  <1>4. CASE u # r.user
    <2>1. users'[u] = users[u]
      BY <1>1, <1>2, <1>4
    <2> QED
      BY <1>1, <2>1, RowTyped DEF RowEffect
  <1> QED
    BY <1>3, <1>4

\* A row saved in a transaction.
LEMMA TransactionRows ==
    ASSUME AccountIInv, NEW p \in Requests, NEW u \in Users, NEW columns, proven' = proven,
           users' = [users EXCEPT ![requests[p].user] =
               SavedInTransaction(requests[p].user, requests[p].row, requests[p].new, columns)],
           "password" \in columns => PasswordChanges(p)
    PROVE  RowEffect(u)
  <1> DEFINE r == requests[p]
             saved == SavedInTransaction(r.user, r.row, r.new, columns)
  <1>1. users \in [Users -> Row]
    BY DEF AccountIInv, Tables
  <1>2. CASE u = r.user
    <2>1. users'[u] = saved
      BY <1>1, <1>2
    <2>2. /\ saved \in Row /\ saved.tfaSecret \in proven \cup {0}
          /\ (Exists(u) /\ "password" \notin columns) => saved.password = users[u].password
      BY <1>2, CopyTyped, SavedInTransactionTyped
    <2> QED
      BY <1>2, <2>1, <2>2 DEF RowEffect
  <1>3. CASE u # r.user
    <2>1. users'[u] = users[u]
      BY <1>1, <1>3
    <2> QED
      BY <1>1, <2>1, RowTyped DEF RowEffect
  <1> QED
    BY <1>2, <1>3

LEMMA CommitUserRows ==
    ASSUME AccountIInv, NEW p \in Requests, CommitUser(p), NEW u \in Users PROVE RowEffect(u)
  <1>1. requests[p].op = "status" => "password" \notin TransactionColumns(requests[p])
    BY Stays DEF RequestOK, TransactionColumns, Plain
  <1>2. requests[p].op # "status" => PasswordChanges(p)
    BY Settled DEF CommitUser
  <1> QED
    BY <1>1, <1>2, TransactionRows DEF CommitUser

LEMMA ConfirmResetRows ==
    ASSUME AccountIInv, NEW p \in Requests, ConfirmReset(p), NEW u \in Users PROVE RowEffect(u)
  <1>1. PasswordChanges(p)
    BY Settled DEF ConfirmReset
  <1>2. CASE users' = users
    BY <1>2, RowTyped DEF RowEffect, ConfirmReset
  <1>3. CASE users' # users
    BY <1>1, <1>3, TransactionRows DEF ConfirmReset
  <1> QED
    BY <1>2, <1>3

LEMMA RowEffects ==
    ASSUME AccountIInv, Effects, NEW u \in Users PROVE RowEffect(u)
  <1>1. users \in [Users -> Row] /\ proven \subseteq proven' /\ UserEffect
    BY DEF AccountIInv, Tables, Effects, OtherEffect
  <1>2. CASE users' = users
    BY <1>1, <1>2, RowTyped DEF RowEffect
  <1>3. CASE \E p \in Requests : SaveUser(p) \/ CommitUser(p) \/ ConfirmReset(p)
    BY <1>3, SaveUserRows, CommitUserRows, ConfirmResetRows
  <1>4. ASSUME NEW v \in Users, NEW row \in Row, users' = [users EXCEPT ![v] = row],
               row.tfaSecret = 0, ~Exists(v) \/ row.status = "deleted"
        PROVE  RowEffect(u)
    <2>1. CASE u = v
      BY <1>1, <1>4, <2>1 DEF RowEffect
    <2>2. CASE u # v
      BY <1>1, <1>4, <2>2, RowTyped DEF RowEffect
    <2> QED
      BY <2>1, <2>2
  <1>5. ASSUME NEW v \in Users, NEW pw \in Passwords, CreateUser(v, pw) PROVE RowEffect(u)
    <2>1. [NoRow EXCEPT !.status = "active", !.password = pw] \in Row
      BY IdleTyped DEF Row, Status
    <2>2. ~Exists(v)
      BY <1>5 DEF CreateUser, Exists, NoRow
    <2>3. [NoRow EXCEPT !.status = "active", !.password = pw].tfaSecret = 0
      BY DEF NoRow
    <2>4. users' = [users EXCEPT ![v] = [NoRow EXCEPT !.status = "active", !.password = pw]]
      BY <1>5 DEF CreateUser
    <2> QED
      BY <1>4, <2>1, <2>2, <2>3, <2>4
  <1>6. ASSUME NEW v \in Users, InviteUser(v) PROVE RowEffect(u)
    <2>1. [NoRow EXCEPT !.status = "unverified"] \in Row
      BY IdleTyped DEF Row, Status
    <2>2. ~Exists(v)
      BY <1>6 DEF InviteUser, Exists, NoRow
    <2>3. [NoRow EXCEPT !.status = "unverified"].tfaSecret = 0
      BY DEF NoRow
    <2>4. users' = [users EXCEPT ![v] = [NoRow EXCEPT !.status = "unverified"]]
      BY <1>6 DEF InviteUser
    <2> QED
      BY <1>4, <2>1, <2>2, <2>3, <2>4
  <1>7. ASSUME NEW v \in Users, DeleteUser(v) PROVE RowEffect(u)
    <2>1. [NoRow EXCEPT !.status = "deleted"] \in Row
      BY IdleTyped DEF Row, Status
    <2> QED
      BY <1>4, <1>7, <2>1 DEF DeleteUser, NoRow
  <1>8. ASSUME NEW U \in SUBSET Users, NEW status \in {"active", "disabled"},
               BatchUpdateStatus(U, status)
        PROVE  RowEffect(u)
    <2>1. users'[u] = IF u \in U THEN [users[u] EXCEPT !.status = status] ELSE users[u]
      BY <1>8 DEF BatchUpdateStatus
    <2>2. [users[u] EXCEPT !.status = status] \in Row
      BY RowTyped DEF Row, Status
    <2>3. /\ [users[u] EXCEPT !.status = status].password = users[u].password
          /\ [users[u] EXCEPT !.status = status].tfaSecret = users[u].tfaSecret
      BY RowTyped DEF Row
    <2> QED
      BY <1>1, <2>1, <2>2, <2>3, RowTyped DEF RowEffect
  <1> QED
    BY <1>1, <1>2, <1>3, <1>5, <1>6, <1>7, <1>8 DEF UserEffect

-----------------------------------------------------------------------------
(* The invariant is inductive. *)
LEMMA UsersShape ==
    ASSUME AccountIInv, Effects PROVE users' = [u \in Users |-> users'[u]]
  <1>1. users = [u \in Users |-> users[u]] /\ UserEffect
    BY DEF AccountIInv, Tables, Effects
  <1>2. ASSUME NEW u, NEW row, users' = [users EXCEPT ![u] = row]
        PROVE  users' = [x \in Users |-> users'[x]]
    BY <1>1, <1>2
  <1>3. ASSUME NEW p \in Requests, SaveUser(p) \/ CommitUser(p) \/ ConfirmReset(p)
        PROVE  users' = [x \in Users |-> users'[x]]
    BY <1>1, <1>2, <1>3 DEF SaveUser, CommitUser, ConfirmReset
  <1>4. ASSUME NEW v \in Users,
               \/ \E pw \in Passwords : CreateUser(v, pw)
               \/ InviteUser(v) \/ DeleteUser(v)
        PROVE  users' = [x \in Users |-> users'[x]]
    BY <1>2, <1>4 DEF CreateUser, InviteUser, DeleteUser
  <1>5. ASSUME NEW U \in SUBSET Users, NEW status \in {"active", "disabled"},
               BatchUpdateStatus(U, status)
        PROVE  users' = [x \in Users |-> users'[x]]
    BY <1>5 DEF BatchUpdateStatus
  <1> QED
    BY <1>1, <1>3, <1>4, <1>5 DEF UserEffect

LEMMA MovedRequests ==
    ASSUME AccountIInv, Effects
    PROVE  /\ requests' \in [Requests -> Request]
           /\ \A p \in Requests : RequestOK(requests'[p])
           /\ \A p \in Requests : requests'[p].new.tfaSecret \in proven' \cup {0}
  <1>1. requests \in [Requests -> Request] /\ proven \subseteq proven' /\ RequestEffect
    BY DEF AccountIInv, RequestsOK, Effects, OtherEffect
  <1>2. CASE requests' = requests
    BY <1>1, <1>2, Stays DEF AccountIInv, SecretsOK
  <1>3. ASSUME NEW p \in Requests, NEW next, Moves(p, next), NEW q \in Requests
        PROVE  /\ requests' = [requests EXCEPT ![p] = next]
               /\ requests'[q] \in Request /\ RequestOK(requests'[q])
               /\ requests'[q].new.tfaSecret \in proven' \cup {0}
    <2>1. /\ next \in Request /\ RequestOK(next) /\ next.new.tfaSecret \in proven' \cup {0}
          /\ requests' = [requests EXCEPT ![p] = next]
      BY <1>3 DEF Moves
    <2>2. CASE q = p
      BY <1>1, <2>1, <2>2
    <2>3. CASE q # p
      <3>1. requests'[q] = requests[q]
        BY <1>1, <2>1, <2>3
      <3> QED
        BY <1>1, <2>1, <3>1, Stays DEF AccountIInv, SecretsOK
    <2> QED
      BY <2>2, <2>3
  <1> QED
    BY <1>1, <1>2, <1>3 DEF RequestEffect

LEMMA AccountInit == Init => AccountIInv
  <1> SUFFICES ASSUME Init PROVE AccountIInv
    OBVIOUS
  <1>1. FreeSession \in LoginSession /\ FreeToken \in UserToken /\ FreeReset \in ResetToken
    BY DEF FreeSession, LoginSession, FreeToken, UserToken, FreeReset, ResetToken
  <1>2. Tables
    BY <1>1, IdleTyped DEF Init, Tables
  <1>3. Owned
    BY NoneAssumption DEF Init, Owned, FreeSession, FreeReset, Methods
  <1>4. RequestsOK /\ SecretsOK
    BY IdleTyped, NoRowSecret DEF Init, RequestsOK, SecretsOK
  <1> QED
    BY <1>2, <1>3, <1>4 DEF AccountIInv

LEMMA AccountNext ==
    ASSUME AccountIInv, Effects PROVE AccountIInv'
  <1>1. scenario' = scenario /\ OtherEffect /\ SessionEffect /\ TokenEffect /\ ResetEffect
    BY DEF Effects, OtherEffect
  <1>2. Row' = Row /\ Request' = Request /\ Secrets' = Secrets
    BY <1>1, SameTypes
  <1>3. users' \in [Users -> Row]
    BY UsersShape, RowEffects DEF RowEffect
  <1>4. Tables'
    BY <1>1, <1>2, <1>3
       DEF Tables, AccountIInv, OtherEffect, SessionEffect, TokenEffect, ResetEffect
  <1>5. Owned'
    <2>1. ASSUME NEW s \in Sessions, loginSessions'[s].method = "passkey_reg"
          PROVE  loginSessions'[s].user \in Users
      BY <1>1, <2>1 DEF SessionEffect, SessionKept, SessionOpened, AccountIInv, Owned
    <2> QED
      BY <1>1, <2>1 DEF Owned, ResetEffect
  <1>6. RequestsOK'
    BY <1>2, MovedRequests DEF RequestsOK, RequestOK
  <1>7. SecretsOK'
    BY MovedRequests, RowEffects DEF RowEffect, SecretsOK
  <1> QED
    BY <1>4, <1>5, <1>6, <1>7 DEF AccountIInv

LEMMA AccountStutter ==
    ASSUME AccountIInv, UNCHANGED vars PROVE Effects
  <1>1. RequestEffect
    BY DEF vars, RequestEffect
  <1> QED
    BY <1>1, Passing DEF vars

LEMMA AccountSteps == AccountIInv /\ [Next]_vars => Effects
  BY NextEffects, AccountStutter

LEMMA AccountInvariant == Spec => []AccountIInv
  <1>1. AccountIInv /\ [Next]_vars => AccountIInv'
    BY AccountSteps, AccountNext
  <1> QED
    BY <1>1, AccountInit, PTL DEF Spec

(* Every table and every request in flight has its type.                   *)
THEOREM AccountTypes == Spec => []TypeOK
  <1>1. AccountIInv => TypeOK
    BY DEF AccountIInv, Tables, RequestsOK, TypeOK
  <1> QED
    BY <1>1, AccountInvariant, PTL

(* The secret of a second factor that counts was shown to be known, also   *)
(* when setup, verification and disabling of it overlap (setupTfa,         *)
(* verifyAndBindTfa).                                                      *)
THEOREM SecretsAreProven == Spec => []BoundSecretProven
  <1>1. AccountIInv => BoundSecretProven
    BY DEF AccountIInv, SecretsOK, BoundSecretProven
  <1> QED
    BY <1>1, AccountInvariant, PTL

(* A token that was revoked or cleaned up never works again, whatever      *)
(* stale copy of its row another request saves (revokeSession).            *)
THEOREM RevokedStays == Spec => RevokedForGood
  <1>1. AccountIInv /\ [Next]_vars
            => [\A t \in Tokens : userTokens[t].state \in {"revoked", "deleted"}
                                     => userTokens'[t].state # "live"]_vars
    <2> SUFFICES ASSUME AccountIInv, [Next]_vars, NEW t \in Tokens,
                        userTokens[t].state \in {"revoked", "deleted"}
                 PROVE  userTokens'[t].state # "live"
      OBVIOUS
    <2>1. TokenEffect
      BY AccountSteps DEF Effects
    <2>2. CASE \A x \in Tokens : TokenKept(x)
      BY <2>2 DEF TokenKept
    <2>3. ASSUME NEW p \in Requests, NEW x \in Tokens, GenerateToken(p, x)
          PROVE  userTokens'[t].state # "live"
      <3>1. userTokens \in [Tokens -> UserToken]
        BY DEF AccountIInv, Tables
      <3>2. CASE userTokens' = userTokens
        BY <3>2
      <3>3. CASE userTokens' # userTokens
        <4>1. userTokens[x] = FreeToken
          BY <2>3, <3>3 DEF GenerateToken, Unused
        <4>2. t # x
          BY <4>1 DEF FreeToken
        <4>3. userTokens'[t] = userTokens[t]
          BY <2>3, <3>1, <4>2 DEF GenerateToken
        <4> QED
          BY <4>3
      <3> QED
        BY <3>2, <3>3
    <2> QED
      BY <2>1, <2>2, <2>3 DEF TokenEffect
  <1> QED
    BY <1>1, AccountInvariant, PTL DEF Spec, RevokedForGood

(* A late save of profile, status or second factor never undoes a change   *)
(* of the password made meanwhile (updateCurrentUser, updateUser).         *)
THEOREM PasswordsStay == Spec => PasswordNotUndone
  <1>1. AccountIInv /\ [Next]_vars
            => [\A u \in Users :
                  (Exists(u) /\ Exists(u)' /\ users'[u].password # users[u].password)
                      => \E p \in Requests : PasswordChanges(p) /\ requests[p].user = u]_vars
    BY AccountSteps, RowEffects DEF RowEffect, Exists
  <1> QED
    BY <1>1, AccountInvariant, PTL DEF Spec, PasswordNotUndone

-----------------------------------------------------------------------------
(* A second step logs in once.                                             *)

\* The sessions a request or a token stands for.
Issuing(p) == requests[p].op = "issue" /\ requests[p].key # None

OnceIInv ==
    /\ \A t \in Tokens : userTokens[t].via # None =>
          /\ loginSessions[userTokens[t].via].state = "used"
          /\ \A other \in Tokens \ {t} : userTokens[other].via # userTokens[t].via
    /\ \A p \in Requests : Issuing(p) =>
          /\ loginSessions[requests[p].key].state = "used"
          /\ \A t \in Tokens : userTokens[t].via # requests[p].key
          /\ \A q \in Requests \ {p} : Issuing(q) => requests[q].key # requests[p].key

ResetIInv ==
    \A r \in Resets :
       /\ resetTokens[r].state \in {"free", "open", "expired"} => resetUses[r] = 0
       /\ resetUses[r] <= 1

LEMMA ResetNext ==
    ASSUME AccountIInv, Effects, ResetIInv PROVE ResetIInv'
  <1>1. ASSUME NEW r \in Resets
        PROVE  /\ resetTokens'[r].state \in {"free", "open", "expired"} => resetUses'[r] = 0
               /\ resetUses'[r] <= 1
    <2>1. ResetKept(r) \/ ResetSpent(r)
      BY DEF Effects, ResetEffect
    <2>2. resetUses[r] \in Nat /\ resetUses[r] <= 1
          /\ (resetTokens[r].state \in {"free", "open", "expired"} => resetUses[r] = 0)
      BY DEF AccountIInv, Tables, ResetIInv
    <2>3. CASE ResetKept(r)
      BY <2>2, <2>3 DEF ResetKept
    <2>4. CASE ResetSpent(r)
      BY <2>2, <2>4 DEF ResetSpent
    <2> QED
      BY <2>1, <2>3, <2>4
  <1> QED
    BY <1>1 DEF ResetIInv

\* What a used session leads to.
LEMMA UsedStays ==
    ASSUME AccountIInv, Effects, NEW s \in Sessions, loginSessions[s].state = "used"
    PROVE  loginSessions'[s].state = "used"
  BY DEF Effects, SessionEffect, SessionKept, SessionOpened, FreeSession

LEMMA KeyTyped ==
    ASSUME AccountIInv
    PROVE  /\ \A t \in Tokens : userTokens[t].via \in Sessions \cup {None}
           /\ \A p \in Requests : Issuing(p) => requests[p].key \in Sessions
  BY Stays DEF AccountIInv, Tables, UserToken, Issuing, RequestOK

\* Who is about to issue a token: as before, without a session, or having marked one.
LEMMA IssuingSteps ==
    ASSUME AccountIInv, Effects, NEW q \in Requests, Issuing(q)'
    PROVE  \/ Issuing(q) /\ requests'[q] = requests[q]
           \/ MarkSessionUsed(q) /\ requests'[q].key = requests[q].key
  <1>1. requests \in [Requests -> Request] /\ RequestEffect
    BY DEF AccountIInv, RequestsOK, Effects
  <1>2. CASE requests' = requests
    BY <1>2 DEF Issuing
  <1>3. ASSUME NEW p \in Requests, NEW next, Moves(p, next)
        PROVE  \/ Issuing(q) /\ requests'[q] = requests[q]
               \/ MarkSessionUsed(q) /\ requests'[q].key = requests[q].key
    <2>1. requests' = [requests EXCEPT ![p] = next]
      BY <1>3 DEF Moves
    <2>2. CASE q # p
      BY <1>1, <2>1, <2>2 DEF Issuing
    <2>3. CASE q = p
      <3>1. requests'[q] = next /\ next.op = "issue" /\ next.key # None
        BY <1>1, <2>1, <2>3 DEF Issuing
      <3>2. MarkSessionUsed(q)
        BY <1>3, <2>3, <3>1 DEF Moves
      <3>3. Continue(q, "issue") \/ Finish(q)
        BY <3>2 DEF MarkSessionUsed
      <3>4. requests[q] \in Request
        BY <1>1
      <3>5. CASE Continue(q, "issue")
        <4>1. requests'[q] = [requests[q] EXCEPT !.op = "issue"]
          BY <1>1, <3>5 DEF Continue
        <4> QED
          BY <3>2, <3>4, <4>1 DEF Request
      <3>6. CASE Finish(q)
        <4>1. requests'[q] = Idle
          BY <1>1, <3>6 DEF Finish
        <4> QED
          BY <3>1, <4>1, IdleTyped
      <3> QED
        BY <3>3, <3>5, <3>6
    <2> QED
      BY <2>2, <2>3
  <1> QED
    BY <1>1, <1>2, <1>3 DEF RequestEffect

\* OnceIInv in parts.
TokenOnce(t) ==
    userTokens[t].via # None =>
       /\ loginSessions[userTokens[t].via].state = "used"
       /\ \A other \in Tokens \ {t} : userTokens[other].via # userTokens[t].via

RequestOnce(p) ==
    Issuing(p) =>
       /\ loginSessions[requests[p].key].state = "used"
       /\ \A t \in Tokens : userTokens[t].via # requests[p].key
       /\ \A q \in Requests \ {p} : Issuing(q) => requests[q].key # requests[p].key

LEMMA OnceParts ==
    OnceIInv <=> (\A t \in Tokens : TokenOnce(t)) /\ (\A p \in Requests : RequestOnce(p))
  BY DEF OnceIInv, TokenOnce, RequestOnce

LEMMA OncePartsPrimed ==
    OnceIInv' <=> ((\A t \in Tokens : TokenOnce(t)) /\ (\A p \in Requests : RequestOnce(p)))'
  BY OnceParts, PTL

\* Who was about to issue a token and still is.
StillIssuing(q) == Issuing(q)' => Issuing(q) /\ requests'[q] = requests[q]

\* No token is issued and no request comes to issue one.
LEMMA OnceQuiet ==
    ASSUME AccountIInv, Effects, OnceIInv,
           \A t \in Tokens : userTokens'[t].via = userTokens[t].via,
           \A q \in Requests : StillIssuing(q)
    PROVE  OnceIInv'
  <1>1. ASSUME NEW t \in Tokens PROVE TokenOnce(t)'
    <2>1. TokenOnce(t)
      BY OnceParts
    <2> QED
      BY <2>1, KeyTyped, UsedStays DEF TokenOnce
  <1>2. ASSUME NEW p \in Requests, Issuing(p)' PROVE RequestOnce(p)'
    <2>1. RequestOnce(p) /\ Issuing(p) /\ requests'[p] = requests[p]
      BY <1>2, OnceParts DEF StillIssuing
    <2>2. loginSessions'[requests[p].key].state = "used"
      BY <2>1, KeyTyped, UsedStays DEF RequestOnce
    <2>3. \A q \in Requests \ {p} : Issuing(q)' => requests'[q].key # requests'[p].key
      BY <2>1 DEF RequestOnce, StillIssuing
    <2> QED
      BY <2>1, <2>2, <2>3 DEF RequestOnce
  <1>3. \A p \in Requests : RequestOnce(p)'
    BY <1>2 DEF RequestOnce
  <1> QED
    BY <1>1, <1>3, OncePartsPrimed

\* A request marks its session.
LEMMA OnceMarked ==
    ASSUME AccountIInv, Effects, OnceIInv, NEW p \in Requests, MarkSessionUsed(p), Issuing(p)'
    PROVE  OnceIInv'
  <1> DEFINE s == requests[p].key
  <1>1. requests \in [Requests -> Request] /\ loginSessions \in [Sessions -> LoginSession]
    BY DEF AccountIInv, RequestsOK, Tables
  <1>2. s \in Sessions
    BY Stays DEF RequestOK, MarkSessionUsed, OnSession
  <1>3. ~Finish(p)
    <2>1. ASSUME Finish(p) PROVE FALSE
      <3>1. requests'[p] = Idle
        BY <1>1, <2>1 DEF Finish
      <3> QED
        BY <3>1, IdleTyped DEF Issuing
    <2> QED
      BY <2>1
  <1>4. /\ loginSessions[s].state = "unused"
        /\ loginSessions' = [loginSessions EXCEPT ![s].state = "used"]
        /\ Continue(p, "issue") /\ userTokens' = userTokens
    BY <1>3 DEF MarkSessionUsed
  <1>5. loginSessions'[s].state = "used"
    BY <1>1, <1>2, <1>4 DEF LoginSession
  <1>6. requests[p] \in Request /\ requests'[p] = [requests[p] EXCEPT !.op = "issue"]
    BY <1>1, <1>4 DEF Continue
  <1>7. requests'[p].key = s /\ \A q \in Requests \ {p} : requests'[q] = requests[q]
    BY <1>1, <1>4, <1>6 DEF Request, Continue
  <1>8. \A t \in Tokens : userTokens[t].via # s
    BY <1>2, <1>4, NoneAssumption, OnceParts DEF TokenOnce
  <1>9. \A q \in Requests : Issuing(q) => requests[q].key # s
    BY <1>4, OnceParts DEF RequestOnce
  <1>10. \A q \in Requests \ {p} : Issuing(q)' => Issuing(q)
    BY <1>7 DEF Issuing
  <1>11. ASSUME NEW t \in Tokens PROVE TokenOnce(t)'
    <2>1. TokenOnce(t)
      BY OnceParts
    <2> QED
      BY <1>4, <2>1, KeyTyped, UsedStays DEF TokenOnce
  <1>12. RequestOnce(p)'
    BY <1>4, <1>5, <1>7, <1>8, <1>9, <1>10 DEF RequestOnce
  <1>13. ASSUME NEW q \in Requests \ {p}, Issuing(q)' PROVE RequestOnce(q)'
    <2>1. RequestOnce(q) /\ Issuing(q) /\ requests'[q] = requests[q]
      BY <1>7, <1>10, <1>13, OnceParts
    <2>2. loginSessions'[requests[q].key].state = "used"
      BY <2>1, KeyTyped, UsedStays DEF RequestOnce
    <2>3. \A x \in Requests \ {q} : Issuing(x)' => requests'[x].key # requests'[q].key
      BY <1>7, <1>9, <1>10, <2>1 DEF RequestOnce
    <2> QED
      BY <1>4, <2>1, <2>2, <2>3 DEF RequestOnce
  <1>14. \A q \in Requests : RequestOnce(q)'
    BY <1>12, <1>13 DEF RequestOnce
  <1> QED
    BY <1>11, <1>14, OncePartsPrimed

\* A token is issued.
LEMMA OnceIssued ==
    ASSUME AccountIInv, Effects, OnceIInv, NEW p \in Requests, NEW t \in Tokens,
           GenerateToken(p, t), userTokens' # userTokens,
           \A q \in Requests : StillIssuing(q)
    PROVE  OnceIInv'
  <1> DEFINE s == requests[p].key
             issued == [state |-> "live", user |-> requests[p].user, via |-> s]
  <1>1. requests \in [Requests -> Request] /\ userTokens \in [Tokens -> UserToken]
    BY DEF AccountIInv, RequestsOK, Tables
  <1>2. /\ requests[p].op = "issue" /\ userTokens' = [userTokens EXCEPT ![t] = issued]
        /\ Finish(p) /\ loginSessions' = loginSessions
    BY DEF GenerateToken
  <1>3. userTokens'[t].via = s /\ \A x \in Tokens \ {t} : userTokens'[x] = userTokens[x]
    BY <1>1, <1>2
  <1>4. ~Issuing(p)'
    <2>1. requests'[p] = Idle
      BY <1>1, <1>2 DEF Finish
    <2> QED
      BY <2>1, IdleTyped DEF Issuing
  <1>5. s # None => Issuing(p)
    BY <1>2 DEF Issuing
  <1>6. RequestOnce(p)
    BY OnceParts
  <1>7. TokenOnce(t)'
    BY <1>2, <1>3, <1>5, <1>6 DEF TokenOnce, RequestOnce
  <1>8. ASSUME NEW x \in Tokens \ {t} PROVE TokenOnce(x)'
    <2>1. TokenOnce(x)
      BY OnceParts
    <2> QED
      BY <1>2, <1>3, <1>5, <1>6, <2>1 DEF TokenOnce, RequestOnce
  <1>9. ASSUME NEW q \in Requests, Issuing(q)' PROVE RequestOnce(q)'
    <2>1. q # p /\ Issuing(q) /\ requests'[q] = requests[q] /\ RequestOnce(q)
      BY <1>4, <1>9, OnceParts DEF StillIssuing
    <2>2. requests[q].key # None
      BY <2>1 DEF Issuing
    <2>3. \A x \in Tokens : userTokens'[x].via # requests[q].key
      BY <1>3, <1>5, <1>6, <2>1, <2>2 DEF RequestOnce
    <2>4. \A x \in Requests \ {q} : Issuing(x)' => requests'[x].key # requests'[q].key
      BY <2>1 DEF RequestOnce, StillIssuing
    <2> QED
      BY <1>2, <2>1, <2>3, <2>4 DEF RequestOnce
  <1>10. \A q \in Requests : RequestOnce(q)'
    BY <1>9 DEF RequestOnce
  <1> QED
    BY <1>7, <1>8, <1>10, OncePartsPrimed

LEMMA OnceNext ==
    ASSUME AccountIInv, Effects, OnceIInv PROVE OnceIInv'
  <1>1. CASE \E p \in Requests : MarkSessionUsed(p) /\ Issuing(p)'
    BY <1>1, OnceMarked
  <1>2. CASE ~\E p \in Requests : MarkSessionUsed(p) /\ Issuing(p)'
    <2>1. \A q \in Requests : StillIssuing(q)
      BY <1>2, IssuingSteps DEF StillIssuing
    <2>2. CASE \A t \in Tokens : userTokens'[t].via = userTokens[t].via
      BY <2>1, <2>2, OnceQuiet
    <2>3. CASE ~\A t \in Tokens : userTokens'[t].via = userTokens[t].via
      <3>1. userTokens' # userTokens
        BY <2>3
      <3>2. \E p \in Requests, t \in Tokens : GenerateToken(p, t)
        BY <2>3 DEF Effects, TokenEffect, TokenKept
      <3> QED
        BY <2>1, <3>1, <3>2, OnceIssued
    <2> QED
      BY <2>2, <2>3
  <1> QED
    BY <1>1, <1>2

(* A second step logs in at most once, and not when its session was        *)
(* deleted while it was under way (the conditional update in               *)
(* markSessionUsed); a reset link sets a password once (confirmReset).     *)
THEOREM SecondStepsUsedOnce == Spec => []UsedOnce
  <1>1. Init => OnceIInv /\ ResetIInv
    BY IdleTyped DEF Init, OnceIInv, ResetIInv, Issuing, FreeToken
  <1>2. AccountIInv /\ OnceIInv /\ ResetIInv /\ [Next]_vars => OnceIInv' /\ ResetIInv'
    BY AccountSteps, OnceNext, ResetNext
  <1>3. OnceIInv /\ ResetIInv => UsedOnce
    BY DEF OnceIInv, ResetIInv, UsedOnce
  <1> QED
    BY <1>1, <1>2, <1>3, AccountInvariant, PTL DEF Spec

-----------------------------------------------------------------------------
(***************************************************************************)
(* The start.  Whatever stops, and wherever, a server that serves has      *)
(* everything, and the next migration finds a database that it accepts.    *)
(* Boot is the instance of Startup.                                        *)
(***************************************************************************)

(***************************************************************************)
(* The parts of the schema.                                                *)
(***************************************************************************)

LEMMA SchemaByMigration ==
    /\ Boot!Brings(1) = {"users", "groups"} /\ Boot!Brings(2) = {"default index"}
    /\ Boot!Brings(3) = {"resets"} /\ Boot!Brings(4) = {"tombstones"}
    /\ Boot!Brings(5) = {"requested", "released"}
    /\ Boot!SchemaParts = Boot!Brings(1) \union Boot!Brings(2) \union Boot!Brings(3)
          \union Boot!Brings(4) \union Boot!Brings(5)
  <1>1. /\ Boot!Brings(1) = {"users", "groups"} /\ Boot!Brings(2) = {"default index"}
        /\ Boot!Brings(3) = {"resets"} /\ Boot!Brings(4) = {"tombstones"}
        /\ Boot!Brings(5) = {"requested", "released"}
    BY DEF Boot!Brings
  <1>2. Boot!Migrations = {1, 2, 3, 4, 5}
    BY DEF Boot!Migrations
  <1>3. Boot!SchemaParts = Boot!Brings(1) \union Boot!Brings(2) \union Boot!Brings(3)
           \union Boot!Brings(4) \union Boot!Brings(5)
    BY <1>2 DEF Boot!SchemaParts
  <1> QED
    BY <1>1, <1>3

LEMMA PartOf == \A m \in Boot!Migrations : Boot!Brings(m) \subseteq Boot!SchemaParts
  BY DEF Boot!SchemaParts

\* The next migration is the first of those that are not recorded.
LEMMA CurrentIsFirst ==
    ASSUME recorded \subseteq Boot!Migrations, Boot!Pending # {}
    PROVE  Boot!Current \in Boot!Pending /\ \A n \in Boot!Pending : Boot!Current <= n
  <1>1. Boot!Pending \subseteq {1, 2, 3, 4, 5}
    BY DEF Boot!Pending, Boot!Migrations
  <1>2. \E m \in Boot!Pending : \A n \in Boot!Pending : m <= n
    <2>1. CASE 1 \in Boot!Pending
      BY <1>1, <2>1
    <2>2. CASE 1 \notin Boot!Pending /\ 2 \in Boot!Pending
      BY <1>1, <2>2
    <2>3. CASE 1 \notin Boot!Pending /\ 2 \notin Boot!Pending /\ 3 \in Boot!Pending
      BY <1>1, <2>3
    <2>4. CASE 1 \notin Boot!Pending /\ 2 \notin Boot!Pending /\ 3 \notin Boot!Pending
               /\ 4 \in Boot!Pending
      BY <1>1, <2>4
    <2>5. CASE Boot!Pending = {5}
      BY <2>5
    <2> QED
      BY <1>1, <2>1, <2>2, <2>3, <2>4, <2>5
  <1> QED
    BY <1>2 DEF Boot!Current

(***************************************************************************)
(* The invariant.                                                          *)
(***************************************************************************)

Migrating(p) == phase[p] \in {"baseline", "repair", "adopt", "record", "run", "migrate",
                              "make index", "index made", "check"}

\* The lock on MySQL, and that there is one process of SQLite.
Guarded ==
    /\ Boot!MySQL => \A p \in Processes : Migrating(p) => lock = p
    /\ ~Boot!MySQL => \A p, q \in Processes : ~Boot!At(p, "off") /\ ~Boot!At(q, "off") => p = q

\* A recorded migration has been made.
RecordedMade == \A m \in recorded : Boot!Brings(m) \subseteq present

\* Who repairs or adopts has found a database that can be, ...
AdoptsOK(p) ==
    /\ Boot!At(p, "repair") => present # {} /\ (Boot!MySQL => odd = {})
    /\ Boot!At(p, "adopt") \/ Boot!At(p, "record") => present # {} /\ ~Boot!Drift

\* ... who migrates does so from the first migration on, ...
MigratesOK(p) ==
    /\ Boot!At(p, "run") => 1 \in recorded \/ present = {}
    /\ Boot!At(p, "migrate") => Boot!Pending # {}
       /\ (~Boot!MySQL => 1 \in recorded \/ present = {})
    /\ Boot!At(p, "make index") \/ Boot!At(p, "index made") => 1 \in recorded /\ 2 \notin recorded
    /\ Boot!At(p, "index made") => Boot!Brings(2) \subseteq present

\* ... and who starts goes on when all of that has been done.
StartsOK(p) ==
    /\ Boot!At(p, "start") => history \/ early \/ Boot!Pending = {}
    /\ phase[p] \in {"find group", "mark group", "insert group", "count owners", "find owner",
                     "insert owner", "serving"} => Boot!Pending = {}
    /\ phase[p] \in {"count owners", "find owner", "insert owner", "serving"}
          => defaultGroup = "default"
    /\ phase[p] \in {"find owner", "insert owner", "serving"} => owners <= 1
    /\ Boot!At(p, "serving") => owners = 1

StartupIInv ==
    /\ Boot!TypeOK /\ Guarded /\ RecordedMade /\ Boot!StaysMigratable
    /\ \A p \in Processes : AdoptsOK(p) /\ MigratesOK(p) /\ StartsOK(p)

(***************************************************************************)
(* The types.                                                              *)
(***************************************************************************)

Phases == {"off", "lock", "baseline", "repair", "adopt", "record", "run",
           "migrate", "make index", "index made", "check", "start", "find group", "mark group",
           "insert group",
           "count owners", "find owner", "insert owner", "serving"}

LEMMA InitTyped == ASSUME Boot!LockAssumption, Boot!Init PROVE Boot!TypeOK
  <1>1. present \subseteq Boot!SchemaParts
    <2>1. CASE present = {}
      BY <2>1
    <2>2. CASE present \in SUBSET Boot!SchemaParts
      BY <2>2
    <2>3. ASSUME NEW k \in Boot!Migrations,
                 present = Boot!Released(k) \cup IF engine = "sqlite" THEN Boot!Brings(2) ELSE {}
          PROVE  present \subseteq Boot!SchemaParts
      <3>1. \A m \in 1..k : m \in Boot!Migrations
        BY DEF Boot!Migrations
      <3>2. Boot!Released(k) \subseteq Boot!SchemaParts
        BY <3>1, PartOf DEF Boot!Released
      <3>3. Boot!Brings(2) \subseteq Boot!SchemaParts
        BY PartOf DEF Boot!Migrations
      <3> QED
        BY <2>3, <3>2, <3>3
    <2> QED
      BY <2>1, <2>2, <2>3 DEF Boot!Init
  <1>2. recorded \subseteq Boot!Migrations
    <2>1. \A k \in Boot!Migrations : 1..k \subseteq Boot!Migrations
      BY DEF Boot!Migrations
    <2> QED
      BY <2>1 DEF Boot!Init
  <1>3. defaultGroup \in {"none", "named", "default"} /\ owners \in 0..2
        /\ odd \subseteq {"column", "key"} /\ history \in BOOLEAN
    <2>1. CASE defaultGroup = "none" /\ owners = 0 /\ odd = {} /\ history = FALSE
      <3>1. owners \in 0..2 /\ defaultGroup \in {"none", "named", "default"}
        BY <2>1
      <3>2. odd \subseteq {"column", "key"} /\ history \in BOOLEAN
        BY <2>1
      <3> QED
        BY <3>1, <3>2
    <2>2. CASE /\ odd \in SUBSET {"column", "key"} /\ history = FALSE /\ owners \in 0..2
               /\ defaultGroup \in IF "groups" \in present THEN {"none", "named", "default"}
                                   ELSE {"none"}
      BY <2>2
    <2>3. CASE history = TRUE /\ odd = {} /\ defaultGroup = "default" /\ owners = 1
      BY <2>3
    <2> QED
      BY <2>1, <2>2, <2>3 DEF Boot!Init
  <1>4. phase \in [Processes -> {"off"}]
    BY DEF Boot!Init
  <1>5. /\ engine \in {"mysql", "sqlite"} /\ lock \in Processes \cup {Nobody}
        /\ early \in BOOLEAN /\ cutShort \in BOOLEAN
    BY DEF Boot!Init
  <1>6. failures \in 0..MaxFailures
    <2>1. failures = 0
      BY DEF Boot!Init
    <2> QED
      BY <2>1 DEF Boot!LockAssumption
  <1>7. phase \in [Processes -> Phases]
    BY <1>4 DEF Phases
  <1> QED
    BY <1>1, <1>2, <1>3, <1>5, <1>6, <1>7 DEF Boot!TypeOK, Phases

\* A step is one process's.
Step(p) ==
    \/ Boot!StartMigrating(p) \/ Boot!TakeLock(p) \/ Boot!LockTimesOut(p) \/ Boot!Baseline(p)
       \/ Boot!Repair(p)
    \/ Boot!CreateHistory(p) \/ Boot!RecordInitial(p) \/ Boot!RunMigrations(p)
       \/ Boot!MigrateAll(p)
    \/ Boot!RunStatement(p) \/ Boot!DropDefaultIndex(p) \/ Boot!MakeDefaultIndex(p)
       \/ Boot!RecordMigration(p)
    \/ Boot!EndMigrating(p) \/ Boot!StartEarly(p) \/ Boot!CheckPending(p)
    \/ Boot!FindDefaultGroup(p) \/ Boot!MarkGroup(p) \/ Boot!InsertGroup(p)
    \/ Boot!CountOwners(p) \/ Boot!FindOwner(p) \/ Boot!InsertOwner(p)
    \/ Boot!Stops(p)

USE DEF Boot!At, Boot!Goes, Boot!Leaves, Boot!schema, Boot!data

\* What a step changes, and which does.
LEMMA Frames ==
    ASSUME NEW p \in Processes, Step(p)
    PROVE  /\ engine' = engine
           /\ present' = present \/ Boot!Repair(p) \/ Boot!MigrateAll(p) \/ Boot!RunStatement(p)
                 \/ Boot!DropDefaultIndex(p) \/ Boot!MakeDefaultIndex(p)
           /\ recorded' = recorded \/ Boot!RecordInitial(p) \/ Boot!MigrateAll(p)
              \/ Boot!RecordMigration(p)
           /\ odd' = odd \/ Boot!Repair(p)
           /\ history' = history \/ history' = TRUE
           /\ defaultGroup' = defaultGroup \/ Boot!MarkGroup(p) \/ Boot!InsertGroup(p)
           /\ owners' = owners \/ Boot!InsertOwner(p)
           /\ failures' = failures \/ Boot!Stops(p)
           /\ early' = early \/ Boot!StartEarly(p)
           /\ cutShort' = cutShort \/ Boot!Stops(p)
           /\ lock' \in {lock, p, Nobody}
  <1> USE DEF Step, Boot!StartMigrating, Boot!TakeLock, Boot!LockTimesOut, Boot!Baseline,
              Boot!Repair, Boot!CreateHistory, Boot!RecordInitial, Boot!RunMigrations,
              Boot!MigrateAll, Boot!RunStatement, Boot!DropDefaultIndex, Boot!MakeDefaultIndex,
              Boot!RecordMigration, Boot!EndMigrating, Boot!StartEarly, Boot!CheckPending,
              Boot!FindDefaultGroup, Boot!MarkGroup, Boot!InsertGroup, Boot!CountOwners,
              Boot!FindOwner, Boot!InsertOwner, Boot!Stops
  <1>1. engine' = engine
    OBVIOUS
  <1>2. present' = present \/ Boot!Repair(p) \/ Boot!MigrateAll(p) \/ Boot!RunStatement(p)
           \/ Boot!DropDefaultIndex(p) \/ Boot!MakeDefaultIndex(p)
    OBVIOUS
  <1>3. recorded' = recorded \/ Boot!RecordInitial(p) \/ Boot!MigrateAll(p)
        \/ Boot!RecordMigration(p)
    OBVIOUS
  <1>4. odd' = odd \/ Boot!Repair(p)
    OBVIOUS
  <1>5. history' = history \/ history' = TRUE
    OBVIOUS
  <1>6. defaultGroup' = defaultGroup \/ Boot!MarkGroup(p) \/ Boot!InsertGroup(p)
    OBVIOUS
  <1>7. owners' = owners \/ Boot!InsertOwner(p)
    OBVIOUS
  <1>8. failures' = failures \/ Boot!Stops(p)
    OBVIOUS
  <1>9. early' = early \/ Boot!StartEarly(p)
    OBVIOUS
  <1>10. cutShort' = cutShort \/ Boot!Stops(p)
    OBVIOUS
  <1>11. lock' \in {lock, p, Nobody}
    OBVIOUS
  <1> QED
    BY <1>1, <1>2, <1>3, <1>4, <1>5, <1>6, <1>7, <1>8, <1>9, <1>10, <1>11

\* The phase a step leads to.
LEMMA PhaseStep ==
    ASSUME NEW p \in Processes, Step(p)
    PROVE  phase' = phase \/ \E f \in Phases : phase' = [phase EXCEPT ![p] = f]
  <1>1. CASE Boot!StartMigrating(p) \/ Boot!TakeLock(p) \/ Boot!LockTimesOut(p)
             \/ Boot!Baseline(p) \/ Boot!Repair(p)
             \/ Boot!CreateHistory(p) \/ Boot!RecordInitial(p) \/ Boot!RunMigrations(p)
                \/ Boot!MigrateAll(p)
    BY <1>1 DEF Boot!StartMigrating, Boot!TakeLock, Boot!LockTimesOut, Boot!Baseline,
                Boot!Repair, Boot!CreateHistory, Boot!RecordInitial, Boot!RunMigrations,
                Boot!MigrateAll, Phases
  <1>2. CASE Boot!RunStatement(p) \/ Boot!DropDefaultIndex(p) \/ Boot!MakeDefaultIndex(p)
             \/ Boot!RecordMigration(p)
             \/ Boot!EndMigrating(p) \/ Boot!StartEarly(p) \/ Boot!CheckPending(p)
    BY <1>2 DEF Boot!RunStatement, Boot!DropDefaultIndex, Boot!MakeDefaultIndex,
                Boot!RecordMigration, Boot!EndMigrating, Boot!StartEarly, Boot!CheckPending,
                Phases
  <1>3. CASE Boot!FindDefaultGroup(p)
    BY <1>3 DEF Boot!FindDefaultGroup, Phases
  <1>4. CASE Boot!MarkGroup(p) \/ Boot!InsertGroup(p)
             \/ Boot!CountOwners(p) \/ Boot!FindOwner(p) \/ Boot!InsertOwner(p) \/ Boot!Stops(p)
    BY <1>4 DEF Boot!MarkGroup, Boot!InsertGroup, Boot!CountOwners, Boot!FindOwner,
                Boot!InsertOwner, Boot!Stops, Phases
  <1> QED
    BY <1>1, <1>2, <1>3, <1>4 DEF Step

\* Who runs a migration has one to run.
LEMMA HasCurrent ==
    ASSUME StartupIInv
    PROVE  /\ recorded \subseteq Boot!Migrations /\ Boot!Pending \subseteq Boot!Migrations
           /\ Boot!Pending # {} => Boot!Current \in Boot!Pending
              /\ \A n \in Boot!Pending : Boot!Current <= n
  <1>1. recorded \subseteq Boot!Migrations
    BY DEF StartupIInv, Boot!TypeOK
  <1>2. Boot!Pending \subseteq Boot!Migrations
    BY DEF Boot!Pending
  <1> QED
    BY <1>1, <1>2, CurrentIsFirst

LEMMA NextTyped ==
    ASSUME Boot!LockAssumption, StartupIInv, NEW p \in Processes, Step(p)
    PROVE  Boot!TypeOK'
  <1>0. Boot!TypeOK /\ phase \in [Processes -> Phases]
    BY DEF StartupIInv, Boot!TypeOK, Phases
  <1>1. engine' = engine
    BY Frames
  <1>2. phase' \in [Processes -> Phases]
    BY <1>0, PhaseStep
  <1>3. Boot!Brings(2) \subseteq Boot!SchemaParts
    BY PartOf DEF Boot!Migrations
  <1>4. present' \subseteq Boot!SchemaParts
    <2>0. present \subseteq Boot!SchemaParts
      BY <1>0 DEF Boot!TypeOK
    <2>2. CASE Boot!Repair(p)
      <3>1. Boot!Defined \subseteq Boot!SchemaParts
        BY DEF Boot!Defined
      <3> QED
        BY <2>0, <2>2, <3>1 DEF Boot!Repair
    <2>3. CASE Boot!MigrateAll(p)
      BY <2>3 DEF Boot!MigrateAll
    <2>4. CASE Boot!RunStatement(p)
      <3>1. Boot!Pending # {}
        BY <2>4 DEF Boot!RunStatement, StartupIInv, MigratesOK
      <3>2. Boot!Brings(Boot!Current) \subseteq Boot!SchemaParts
        BY <3>1, HasCurrent, PartOf
      <3> QED
        BY <2>0, <2>4, <3>2 DEF Boot!RunStatement
    <2>5. CASE Boot!DropDefaultIndex(p) \/ Boot!MakeDefaultIndex(p)
      BY <1>3, <2>0, <2>5 DEF Boot!DropDefaultIndex, Boot!MakeDefaultIndex
    <2> QED
      BY <2>0, <2>2, <2>3, <2>4, <2>5, Frames
  <1>5. recorded' \subseteq Boot!Migrations
    <2>0. recorded \subseteq Boot!Migrations
      BY <1>0 DEF Boot!TypeOK
    <2>2. CASE Boot!RecordInitial(p)
      BY <2>0, <2>2 DEF Boot!RecordInitial, Boot!Migrations
    <2>3. CASE Boot!MigrateAll(p)
      BY <2>3 DEF Boot!MigrateAll
    <2>4. CASE Boot!RecordMigration(p)
      <3>1. Boot!Pending # {}
        <4>1. CASE Boot!At(p, "migrate")
          BY <4>1 DEF StartupIInv, MigratesOK
        <4>2. CASE Boot!At(p, "index made")
          <5>1. 2 \notin recorded
            BY <4>2 DEF StartupIInv, MigratesOK
          <5> QED
            BY <5>1 DEF Boot!Pending, Boot!Migrations
        <4>3. Boot!At(p, "migrate") \/ Boot!At(p, "index made")
          BY <2>4 DEF Boot!RecordMigration
        <4> QED
          BY <4>1, <4>2, <4>3
      <3> QED
        BY <2>0, <2>4, <3>1, HasCurrent DEF Boot!RecordMigration
    <2> QED
      BY <2>0, <2>2, <2>3, <2>4, Frames
  <1>6. lock' \in Processes \cup {Nobody}
    BY <1>0, Frames DEF Boot!TypeOK
  <1>7. odd' \subseteq {"column", "key"}
    BY <1>0, Frames DEF Boot!TypeOK, Boot!Repair
  <1>8. history' \in BOOLEAN
    BY <1>0, Frames DEF Boot!TypeOK
  <1>9. defaultGroup' \in {"none", "named", "default"}
    BY <1>0, Frames DEF Boot!TypeOK, Boot!MarkGroup, Boot!InsertGroup
  <1>10. owners' \in 0..2
    <2>1. owners \in 0..2
      BY <1>0 DEF Boot!TypeOK
    <2>2. owners' = owners \/ owners' = Boot!OwnerAdded
      BY Frames DEF Boot!InsertOwner
    <2> QED
      BY <2>1, <2>2 DEF Boot!OwnerAdded
  <1>11. failures' \in 0..MaxFailures
    <2>1. failures \in 0..MaxFailures
      BY <1>0 DEF Boot!TypeOK
    <2>2. failures' = failures \/ (failures < MaxFailures /\ failures' = failures + 1)
      <3>1. CASE failures' = failures
        BY <3>1
      <3>2. CASE Boot!Stops(p)
        BY <3>2 DEF Boot!Stops
      <3> QED
        BY <3>1, <3>2, Frames
    <2> QED
      BY <2>1, <2>2 DEF Boot!LockAssumption
  <1>12. early' \in BOOLEAN
    BY <1>0, Frames DEF Boot!TypeOK, Boot!StartEarly
  <1>13. cutShort' \in BOOLEAN
    BY <1>0, Frames DEF Boot!TypeOK, Boot!Stops
  <1> QED
    BY <1>0, <1>1, <1>2, <1>4, <1>5, <1>6, <1>7, <1>8, <1>9, <1>10, <1>11, <1>12, <1>13
    DEF Boot!TypeOK, Phases

(***************************************************************************)
(* The steps.                                                              *)
(***************************************************************************)

LEMMA InitStartup == ASSUME Boot!LockAssumption, Boot!Init PROVE StartupIInv
  <1>1. Boot!TypeOK
    BY InitTyped
  <1>2. \A p \in Processes : phase[p] = "off"
    BY DEF Boot!Init
  <1>3. Guarded
    BY <1>2 DEF Guarded, Migrating
  <1>4. RecordedMade
    <2>1. CASE recorded = {}
      BY <2>1 DEF RecordedMade
    <2>2. ASSUME NEW k \in Boot!Migrations, recorded = 1..k, Boot!Released(k) \subseteq present
          PROVE  RecordedMade
      BY <2>2 DEF RecordedMade, Boot!Released
    <2> QED
      BY <2>1, <2>2 DEF Boot!Init
  <1>5. Boot!StaysMigratable
    <2>1. \A k \in Boot!Migrations : 1 \in 1..k
      BY DEF Boot!Migrations
    <2> QED
      BY <2>1 DEF Boot!Init, Boot!StaysMigratable
  <1>6. \A p \in Processes : AdoptsOK(p) /\ MigratesOK(p) /\ StartsOK(p)
    BY <1>2 DEF AdoptsOK, MigratesOK, StartsOK
  <1> QED
    BY <1>1, <1>3, <1>4, <1>5, <1>6 DEF StartupIInv

\* Who takes the lock, keeps it and gives it back.
LEMMA LockStep ==
    ASSUME Boot!LockAssumption, StartupIInv, NEW p \in Processes, Step(p)
    PROVE  /\ Migrating(p)' => (Migrating(p) /\ lock' = lock) \/ lock' = p \/ ~Boot!MySQL
           /\ lock' = lock \/ (lock = Nobody /\ lock' = p) \/ (lock = p /\ lock' = Nobody)
           /\ Boot!At(p, "off") => Boot!MySQL \/ \A q \in Processes : Boot!At(q, "off")
           /\ \A q \in Processes \ {p} : phase'[q] = phase[q]
  <1>0. phase \in [Processes -> Phases]
    BY DEF StartupIInv, Boot!TypeOK, Phases
  <1>1. \A q \in Processes \ {p} : phase'[q] = phase[q]
    BY <1>0, PhaseStep
  <1>2. Boot!At(p, "off") => Boot!MySQL \/ \A q \in Processes : Boot!At(q, "off")
    BY DEF Step, Boot!StartMigrating, Boot!TakeLock, Boot!LockTimesOut, Boot!Baseline,
           Boot!Repair, Boot!CreateHistory, Boot!RecordInitial, Boot!RunMigrations,
           Boot!MigrateAll, Boot!RunStatement, Boot!DropDefaultIndex, Boot!MakeDefaultIndex,
           Boot!RecordMigration, Boot!EndMigrating, Boot!StartEarly, Boot!CheckPending,
           Boot!FindDefaultGroup, Boot!MarkGroup, Boot!InsertGroup, Boot!CountOwners,
           Boot!FindOwner, Boot!InsertOwner, Boot!Stops
  <1>3. lock' = lock \/ (lock = Nobody /\ lock' = p) \/ (lock = p /\ lock' = Nobody)
    BY DEF Step, Boot!StartMigrating, Boot!TakeLock, Boot!LockTimesOut, Boot!Baseline,
           Boot!Repair, Boot!CreateHistory, Boot!RecordInitial, Boot!RunMigrations,
           Boot!MigrateAll, Boot!RunStatement, Boot!DropDefaultIndex, Boot!MakeDefaultIndex,
           Boot!RecordMigration, Boot!EndMigrating, Boot!StartEarly, Boot!CheckPending,
           Boot!FindDefaultGroup, Boot!MarkGroup, Boot!InsertGroup, Boot!CountOwners,
           Boot!FindOwner, Boot!InsertOwner, Boot!Stops
  <1>4. Migrating(p)' => (Migrating(p) /\ lock' = lock) \/ lock' = p \/ ~Boot!MySQL
    <2>1. CASE Boot!StartMigrating(p) \/ Boot!TakeLock(p) \/ Boot!LockTimesOut(p)
               \/ Boot!Baseline(p) \/ Boot!Repair(p)
               \/ Boot!CreateHistory(p) \/ Boot!RecordInitial(p) \/ Boot!RunMigrations(p)
                  \/ Boot!MigrateAll(p)
      BY <1>0, <2>1 DEF Boot!StartMigrating, Boot!TakeLock, Boot!LockTimesOut, Boot!Baseline,
                        Boot!Repair, Boot!CreateHistory, Boot!RecordInitial, Boot!RunMigrations,
                        Boot!MigrateAll, Migrating
    <2>2. CASE Boot!RunStatement(p) \/ Boot!DropDefaultIndex(p) \/ Boot!MakeDefaultIndex(p)
               \/ Boot!RecordMigration(p)
      BY <1>0, <2>2 DEF Boot!RunStatement, Boot!DropDefaultIndex, Boot!MakeDefaultIndex,
                        Boot!RecordMigration, Migrating
    <2>3. CASE Boot!EndMigrating(p) \/ Boot!StartEarly(p) \/ Boot!CheckPending(p)
               \/ Boot!FindDefaultGroup(p)
      BY <1>0, <2>3 DEF Boot!EndMigrating, Boot!StartEarly, Boot!CheckPending,
                        Boot!FindDefaultGroup, Migrating
    <2>4. CASE Boot!MarkGroup(p) \/ Boot!InsertGroup(p)
               \/ Boot!CountOwners(p) \/ Boot!FindOwner(p) \/ Boot!InsertOwner(p) \/ Boot!Stops(p)
      BY <1>0, <2>4 DEF Boot!MarkGroup, Boot!InsertGroup, Boot!CountOwners, Boot!FindOwner,
                        Boot!InsertOwner, Boot!Stops, Migrating
    <2> QED
      BY <2>1, <2>2, <2>3, <2>4 DEF Step
  <1> QED
    BY <1>1, <1>2, <1>3, <1>4

LEMMA NextGuarded ==
    ASSUME Boot!LockAssumption, StartupIInv, NEW p \in Processes, Step(p) PROVE Guarded'
  <1>0. Guarded /\ Boot!MySQL' = Boot!MySQL /\ Nobody \notin Processes
    BY Frames DEF StartupIInv, Boot!MySQL, Boot!LockAssumption
  <1>1. ASSUME Boot!MySQL, NEW q \in Processes, Migrating(q)' PROVE lock' = q
    <2>1. CASE q = p
      BY <1>0, <1>1, <2>1, LockStep DEF Guarded
    <2>2. CASE q # p
      <3>1. Migrating(q)
        BY <1>1, <2>2, LockStep DEF Migrating
      <3> QED
        BY <1>0, <1>1, <2>2, <3>1, LockStep DEF Guarded
    <2> QED
      BY <2>1, <2>2
  <1>2. ASSUME ~Boot!MySQL, NEW q \in Processes, NEW r \in Processes, ~Boot!At(q, "off")',
               ~Boot!At(r, "off")'
        PROVE  q = r
    BY <1>0, <1>2, LockStep DEF Guarded
  <1> QED
    BY <1>0, <1>1, <1>2 DEF Guarded

\* What a step of one process leaves to the others.
World(p) ==
    /\ \A q \in Processes \ {p} : phase'[q] = phase[q]
    /\ engine' = engine
    /\ recorded \subseteq recorded'
    /\ history => history'
    /\ early => early'
    /\ defaultGroup = "default" => defaultGroup' = "default"
    /\ owners \in {0, 1} => owners' \in {0, 1}
    /\ owners = 1 => owners' = 1
    /\ UNCHANGED <<present, odd, recorded>> \/ Migrating(p)

LEMMA Worlds ==
    ASSUME Boot!LockAssumption, StartupIInv, NEW p \in Processes, Step(p) PROVE World(p)
  <1>1. \A q \in Processes \ {p} : phase'[q] = phase[q]
    BY LockStep
  <1>2. recorded \subseteq recorded'
    <2>1. CASE Boot!MigrateAll(p)
      BY <2>1 DEF Boot!MigrateAll, StartupIInv, Boot!TypeOK
    <2> QED
      BY <2>1, Frames DEF Boot!RecordInitial, Boot!RecordMigration
  <1>3. history => history'
    BY Frames
  <1>4. early => early'
    BY Frames DEF Boot!StartEarly
  <1>5. defaultGroup = "default" => defaultGroup' = "default"
    BY Frames DEF Boot!MarkGroup, Boot!InsertGroup
  <1>6. (owners \in {0, 1} => owners' \in {0, 1}) /\ (owners = 1 => owners' = 1)
    BY Frames DEF Boot!InsertOwner, Boot!OwnerAdded
  <1>7. UNCHANGED <<present, odd, recorded>> \/ Migrating(p)
    BY Frames DEF Migrating, Boot!Repair, Boot!MigrateAll, Boot!RunStatement,
                  Boot!DropDefaultIndex, Boot!MakeDefaultIndex, Boot!RecordInitial,
                  Boot!RecordMigration
  <1>8. engine' = engine
    BY Frames
  <1> QED
    BY <1>1, <1>2, <1>3, <1>4, <1>5, <1>6, <1>7, <1>8 DEF World

LEMMA Others ==
    ASSUME StartupIInv, NEW p \in Processes, World(p), NEW q \in Processes \ {p}
    PROVE  AdoptsOK(q)' /\ MigratesOK(q)' /\ StartsOK(q)'
  <1>0. AdoptsOK(q) /\ MigratesOK(q) /\ StartsOK(q) /\ owners \in 0..2
    BY DEF StartupIInv, Boot!TypeOK
  <1>1. phase'[q] = phase[q] /\ (Boot!MySQL' = Boot!MySQL)
    BY DEF World, Boot!MySQL
  <1>2. ASSUME UNCHANGED <<present, odd, recorded>> PROVE AdoptsOK(q)' /\ MigratesOK(q)'
    <2>1. (Boot!Drift' = Boot!Drift) /\ Boot!Pending' = Boot!Pending
      BY <1>1, <1>2 DEF Boot!Drift, Boot!Defined, Boot!Pending
    <2>2. AdoptsOK(q)'
      BY <1>0, <1>1, <1>2, <2>1 DEF AdoptsOK
    <2>3. MigratesOK(q)'
      BY <1>0, <1>1, <1>2, <2>1 DEF MigratesOK
    <2> QED
      BY <2>2, <2>3
  <1>3. ASSUME Migrating(p) PROVE AdoptsOK(q)' /\ MigratesOK(q)'
    <2>1. ~Migrating(q)
      BY <1>3 DEF StartupIInv, Guarded, Migrating
    <2> QED
      BY <1>1, <2>1 DEF AdoptsOK, MigratesOK, Migrating
  <1>4. StartsOK(q)'
    <2>1. Boot!Pending' \subseteq Boot!Pending
      BY DEF Boot!Pending, World
    <2>2. owners <= 1 => owners \in {0, 1}
      BY <1>0
    <2>3. owners' \in {0, 1} => owners' <= 1
      OBVIOUS
    <2>4. /\ Boot!At(q, "start")' => history' \/ early' \/ Boot!Pending' = {}
          /\ phase'[q] \in {"find group", "mark group", "insert group", "count owners",
                     "find owner", "insert owner", "serving"} => Boot!Pending' = {}
      BY <1>0, <1>1, <2>1 DEF StartsOK, World
    <2>5. phase'[q] \in {"count owners", "find owner", "insert owner", "serving"}
             => defaultGroup' = "default"
      BY <1>0, <1>1 DEF StartsOK, World
    <2>6. /\ phase'[q] \in {"find owner", "insert owner", "serving"} => owners' <= 1
          /\ Boot!At(q, "serving")' => owners' = 1
      BY <1>0, <1>1, <2>2, <2>3 DEF StartsOK, World
    <2> QED
      BY <2>4, <2>5, <2>6 DEF StartsOK
  <1> QED
    BY <1>2, <1>3, <1>4 DEF World

\* While a migration is at the default index, that is the one it runs.
LEMMA AtIndex ==
    ASSUME StartupIInv, 1 \in recorded, 2 \notin recorded
    PROVE  2 \in Boot!Pending /\ Boot!Current = 2
  <1>1. 2 \in Boot!Pending /\ 1 \notin Boot!Pending
    BY DEF Boot!Pending, Boot!Migrations
  <1>2. Boot!Pending # {}
    BY <1>1
  <1>3. /\ Boot!Current \in Boot!Pending /\ \A n \in Boot!Pending : Boot!Current <= n
        /\ Boot!Pending \subseteq Boot!Migrations
    BY <1>2, HasCurrent
  <1> QED
    BY <1>1, <1>3 DEF Boot!Migrations

LEMMA NextMade ==
    ASSUME Boot!LockAssumption, StartupIInv, NEW p \in Processes, Step(p) PROVE RecordedMade'
  <1>0. RecordedMade /\ recorded \subseteq Boot!Migrations /\ AdoptsOK(p) /\ MigratesOK(p)
    BY HasCurrent DEF StartupIInv
  <1>1. CASE UNCHANGED <<present, recorded>>
    BY <1>0, <1>1 DEF RecordedMade
  <1>2. CASE Boot!MigrateAll(p)
    BY <1>2, PartOf DEF Boot!MigrateAll, RecordedMade
  <1>3. CASE recorded' = recorded /\ present \subseteq present'
    BY <1>0, <1>3 DEF RecordedMade
  <1>4. CASE Boot!RecordInitial(p)
    <2>1. Boot!Brings(1) \subseteq present
      BY <1>0, <1>4, SchemaByMigration DEF Boot!RecordInitial, AdoptsOK, Boot!Drift, Boot!Defined
    <2> QED
      BY <1>0, <1>4, <2>1 DEF Boot!RecordInitial, RecordedMade
  <1>5. CASE Boot!RecordMigration(p)
    <2>1. Boot!Brings(Boot!Current) \subseteq present
      <3>1. CASE Boot!At(p, "index made")
        BY <1>0, <3>1, AtIndex DEF MigratesOK
      <3>2. CASE Boot!Brings(Boot!Current) \subseteq present
        BY <3>2
      <3> QED
        BY <1>5, <3>1, <3>2 DEF Boot!RecordMigration
    <2> QED
      BY <1>0, <1>5, <2>1 DEF Boot!RecordMigration, RecordedMade
  <1>6. CASE Boot!DropDefaultIndex(p)
    <2>1. Boot!Pending # {} /\ Boot!Current = 2
      BY <1>0, <1>6 DEF Boot!DropDefaultIndex, MigratesOK
    <2>2. 2 \notin recorded
      BY <2>1, HasCurrent DEF Boot!Pending
    <2>3. \A m \in Boot!Migrations \ {2} : Boot!Brings(m) \cap Boot!Brings(2) = {}
      <3>1. \A m \in Boot!Migrations \ {2} : m \in {1, 3, 4, 5}
        BY DEF Boot!Migrations
      <3> QED
        BY <3>1, SchemaByMigration
    <2> QED
      BY <1>0, <1>6, <2>2, <2>3 DEF Boot!DropDefaultIndex, RecordedMade
  <1>7. present \subseteq present' \/ Boot!MigrateAll(p) \/ Boot!DropDefaultIndex(p)
    BY Frames DEF Boot!Repair, Boot!RunStatement, Boot!MakeDefaultIndex
  <1>8. recorded' = recorded \/ Boot!RecordInitial(p) \/ Boot!MigrateAll(p)
        \/ Boot!RecordMigration(p)
    BY Frames
  <1> QED
    BY <1>1, <1>2, <1>3, <1>4, <1>5, <1>6, <1>7, <1>8

\* The process that takes the step: where it repairs and adopts,
LEMMA OwnAdopts ==
    ASSUME Boot!LockAssumption, StartupIInv, NEW p \in Processes, Step(p) PROVE AdoptsOK(p)'
  <1>0. /\ phase \in [Processes -> Phases] /\ AdoptsOK(p)
        /\ engine' = engine
    BY Frames DEF StartupIInv, Boot!TypeOK, Phases
  <1>1. CASE Boot!Baseline(p)
    <2>1. UNCHANGED <<present, odd>> /\ (Boot!Drift' = Boot!Drift) /\ (Boot!MySQL' = Boot!MySQL)
      BY <1>0, <1>1 DEF Boot!Baseline, Boot!Drift, Boot!Defined, Boot!MySQL
    <2>2. Boot!At(p, "repair")' => present # {} /\ Boot!Repairable
      BY <1>0, <1>1 DEF Boot!Baseline
    <2>3. Boot!At(p, "adopt")' => present # {} /\ ~Boot!Drift
      BY <1>0, <1>1 DEF Boot!Baseline
    <2>4. ~Boot!At(p, "record")'
      BY <1>0, <1>1 DEF Boot!Baseline
    <2> QED
      BY <2>1, <2>2, <2>3, <2>4 DEF AdoptsOK, Boot!Repairable
  <1>2. CASE Boot!Repair(p)
    <2>1. Boot!MySQL' = Boot!MySQL /\ (Boot!Defined' = Boot!Defined)
      BY <1>0 DEF Boot!MySQL, Boot!Defined
    <2>2. present # {} /\ (Boot!MySQL => odd = {})
      BY <1>0, <1>2 DEF Boot!Repair, AdoptsOK
    <2>3. present \subseteq present' /\ odd' = {}
      BY <1>2, <2>2 DEF Boot!Repair
    <2>4. Boot!At(p, "adopt")' => Boot!Defined \ present' = {}
      BY <1>0, <1>2 DEF Boot!Repair
    <2>5. ~Boot!At(p, "record")'
      BY <1>0, <1>2 DEF Boot!Repair
    <2>6. present' # {}
      BY <2>2, <2>3
    <2> QED
      BY <2>1, <2>3, <2>4, <2>5, <2>6 DEF AdoptsOK, Boot!Drift
  <1>3. CASE Boot!CreateHistory(p)
    <2>1. UNCHANGED <<present, odd>> /\ (Boot!Drift' = Boot!Drift)
      BY <1>0, <1>3 DEF Boot!CreateHistory, Boot!Drift, Boot!Defined, Boot!MySQL
    <2> QED
      BY <1>0, <1>3, <2>1 DEF Boot!CreateHistory, AdoptsOK
  <1>4. CASE Boot!StartMigrating(p) \/ Boot!TakeLock(p) \/ Boot!LockTimesOut(p)
             \/ Boot!RecordInitial(p) \/ Boot!RunMigrations(p) \/ Boot!MigrateAll(p)
    BY <1>0, <1>4 DEF Boot!StartMigrating, Boot!TakeLock, Boot!LockTimesOut, Boot!RecordInitial,
                      Boot!RunMigrations, Boot!MigrateAll, AdoptsOK
  <1>5. CASE Boot!RunStatement(p) \/ Boot!DropDefaultIndex(p) \/ Boot!MakeDefaultIndex(p)
             \/ Boot!RecordMigration(p)
             \/ Boot!EndMigrating(p) \/ Boot!StartEarly(p) \/ Boot!CheckPending(p)
                \/ Boot!FindDefaultGroup(p)
    BY <1>0, <1>5 DEF Boot!RunStatement, Boot!DropDefaultIndex, Boot!MakeDefaultIndex,
                      Boot!RecordMigration, Boot!EndMigrating, Boot!StartEarly,
                      Boot!CheckPending, Boot!FindDefaultGroup, AdoptsOK
  <1>6. CASE Boot!MarkGroup(p) \/ Boot!InsertGroup(p)
             \/ Boot!CountOwners(p) \/ Boot!FindOwner(p) \/ Boot!InsertOwner(p) \/ Boot!Stops(p)
    BY <1>0, <1>6 DEF Boot!MarkGroup, Boot!InsertGroup, Boot!CountOwners, Boot!FindOwner,
                      Boot!InsertOwner, Boot!Stops, AdoptsOK
  <1> QED
    BY <1>1, <1>2, <1>3, <1>4, <1>5, <1>6 DEF Step

\* where it migrates,
LEMMA OwnMigrates ==
    ASSUME Boot!LockAssumption, StartupIInv, NEW p \in Processes, Step(p) PROVE MigratesOK(p)'
  <1>0. /\ phase \in [Processes -> Phases] /\ MigratesOK(p)
        /\ engine' = engine /\ 1 \in Boot!Migrations
        /\ Boot!Pending # {} => Boot!Current \in Boot!Pending
           /\ \A n \in Boot!Pending : Boot!Current <= n
    <2>1. phase \in [Processes -> Phases] /\ MigratesOK(p)
      BY DEF StartupIInv, Boot!TypeOK, Phases
    <2>2. 1 \in Boot!Migrations
      BY DEF Boot!Migrations
    <2> QED
      BY <2>1, <2>2, Frames, HasCurrent
  <1>1. CASE Boot!StartMigrating(p) \/ Boot!TakeLock(p) \/ Boot!LockTimesOut(p) \/ Boot!Repair(p)
             \/ Boot!CreateHistory(p)
    BY <1>0, <1>1 DEF Boot!StartMigrating, Boot!TakeLock, Boot!LockTimesOut, Boot!Repair,
                      Boot!CreateHistory, MigratesOK
  <1>2. CASE Boot!Baseline(p)
    BY <1>0, <1>2 DEF Boot!Baseline, MigratesOK
  <1>3. CASE Boot!RecordInitial(p)
    BY <1>0, <1>3 DEF Boot!RecordInitial, MigratesOK
  <1>4. CASE Boot!RunMigrations(p)
    <2>1. UNCHANGED <<present, recorded>> /\ Boot!Pending' = Boot!Pending
      BY <1>4 DEF Boot!RunMigrations, Boot!Pending
    <2> QED
      BY <1>0, <1>4, <2>1 DEF Boot!RunMigrations, MigratesOK
  <1>5. CASE Boot!MigrateAll(p)
    BY <1>0, <1>5 DEF Boot!MigrateAll, MigratesOK
  <1>6. CASE Boot!RunStatement(p)
    <2>1. phase' = phase /\ Boot!At(p, "migrate") /\ Boot!Pending' = Boot!Pending /\ Boot!MySQL
          /\ Boot!MySQL'
      BY <1>0, <1>6 DEF Boot!RunStatement, Boot!Pending, Boot!MySQL
    <2> QED
      BY <1>0, <2>1 DEF MigratesOK
  <1>7. CASE Boot!DropDefaultIndex(p)
    <2>1. recorded' = recorded /\ phase'[p] = "make index" /\ Boot!Current = 2
          /\ Boot!Pending # {}
      BY <1>0, <1>7 DEF Boot!DropDefaultIndex, MigratesOK
    <2>2. 2 \notin recorded
      BY <1>0, <2>1 DEF Boot!Pending
    <2>3. 1 \in recorded
      <3>1. 1 \notin Boot!Pending
        <4>1. ASSUME 1 \in Boot!Pending PROVE FALSE
          <5>1. Boot!Current <= 1 /\ Boot!Current = 2
            BY <1>0, <2>1, <4>1
          <5>2. ~(2 <= 1)
            OBVIOUS
          <5> QED
            BY <5>1, <5>2
        <4> QED
          BY <4>1
      <3> QED
        BY <1>0, <3>1 DEF Boot!Pending
    <2> QED
      BY <2>1, <2>2, <2>3 DEF MigratesOK
  <1>8. CASE Boot!MakeDefaultIndex(p)
    BY <1>0, <1>8 DEF Boot!MakeDefaultIndex, MigratesOK
  <1>9. CASE Boot!RecordMigration(p)
    <2>1. Boot!Pending # {}
      <3>1. CASE Boot!At(p, "index made")
        BY <1>0, <3>1, AtIndex DEF MigratesOK
      <3>2. CASE Boot!At(p, "migrate")
        BY <1>0, <3>2 DEF MigratesOK
      <3>3. Boot!At(p, "migrate") \/ Boot!At(p, "index made")
        BY <1>9 DEF Boot!RecordMigration
      <3> QED
        BY <3>1, <3>2, <3>3
    <2>2. recorded' = recorded \union {Boot!Current}
          /\ Boot!Pending' = Boot!Pending \ {Boot!Current}
      BY <1>9 DEF Boot!RecordMigration, Boot!Pending
    <2>3. phase'[p] = IF Boot!Pending = {Boot!Current} THEN "check" ELSE "migrate"
      BY <1>0, <1>9 DEF Boot!RecordMigration
    <2>4. phase'[p] = "migrate" => Boot!Pending' # {}
      BY <1>0, <2>1, <2>2, <2>3
    <2>5. 1 \in recorded'
      <3>1. CASE 1 \in Boot!Pending
        <4>1. Boot!Current <= 1 /\ Boot!Current \in Boot!Migrations
          BY <1>0, <2>1, <3>1 DEF Boot!Pending
        <4> QED
          BY <2>2, <4>1 DEF Boot!Migrations
      <3>2. CASE 1 \notin Boot!Pending
        BY <1>0, <2>2, <3>2 DEF Boot!Pending
      <3> QED
        BY <3>1, <3>2
    <2> QED
      BY <2>3, <2>4, <2>5 DEF MigratesOK
  <1>10. CASE Boot!EndMigrating(p) \/ Boot!StartEarly(p) \/ Boot!CheckPending(p)
              \/ Boot!FindDefaultGroup(p)
    BY <1>0, <1>10 DEF Boot!EndMigrating, Boot!StartEarly, Boot!CheckPending,
                       Boot!FindDefaultGroup, MigratesOK
  <1>11. CASE Boot!MarkGroup(p) \/ Boot!InsertGroup(p)
             \/ Boot!CountOwners(p) \/ Boot!FindOwner(p) \/ Boot!InsertOwner(p) \/ Boot!Stops(p)
    BY <1>0, <1>11 DEF Boot!MarkGroup, Boot!InsertGroup, Boot!CountOwners, Boot!FindOwner,
                       Boot!InsertOwner, Boot!Stops, MigratesOK
  <1> QED
    BY <1>1, <1>2, <1>3, <1>4, <1>5, <1>6, <1>7, <1>8, <1>9, <1>10, <1>11 DEF Step

\* and where it starts.
LEMMA OwnStarts ==
    ASSUME Boot!LockAssumption, StartupIInv, NEW p \in Processes, Step(p) PROVE StartsOK(p)'
  <1>0. phase \in [Processes -> Phases] /\ StartsOK(p) /\ owners \in {0, 1, 2}
    <2>1. phase \in [Processes -> Phases] /\ StartsOK(p)
      BY DEF StartupIInv, Boot!TypeOK, Phases
    <2>2. owners \in 0..2
      BY DEF StartupIInv, Boot!TypeOK
    <2> QED
      BY <2>1, <2>2
  <1>1. CASE Boot!StartMigrating(p) \/ Boot!TakeLock(p) \/ Boot!LockTimesOut(p)
             \/ Boot!Baseline(p) \/ Boot!Repair(p)
             \/ Boot!CreateHistory(p) \/ Boot!RecordInitial(p) \/ Boot!RunMigrations(p)
                \/ Boot!MigrateAll(p)
    BY <1>0, <1>1 DEF Boot!StartMigrating, Boot!TakeLock, Boot!LockTimesOut, Boot!Baseline,
                      Boot!Repair, Boot!CreateHistory, Boot!RecordInitial, Boot!RunMigrations,
                      Boot!MigrateAll, StartsOK
  <1>2. CASE Boot!RunStatement(p) \/ Boot!DropDefaultIndex(p) \/ Boot!MakeDefaultIndex(p)
             \/ Boot!RecordMigration(p)
    BY <1>0, <1>2 DEF Boot!RunStatement, Boot!DropDefaultIndex, Boot!MakeDefaultIndex,
                      Boot!RecordMigration, StartsOK
  <1>3. CASE Boot!EndMigrating(p)
    <2>1. Boot!Pending' = Boot!Pending
      BY <1>3 DEF Boot!EndMigrating, Boot!Pending
    <2> QED
      BY <1>0, <1>3, <2>1 DEF Boot!EndMigrating, StartsOK
  <1>4. CASE Boot!StartEarly(p)
    BY <1>0, <1>4 DEF Boot!StartEarly, StartsOK
  <1>5. CASE Boot!CheckPending(p)
    <2>1. Boot!Pending' = Boot!Pending
      BY <1>5 DEF Boot!CheckPending, Boot!Pending
    <2> QED
      BY <1>0, <1>5, <2>1 DEF Boot!CheckPending, Boot!MayStart, StartsOK
  <1>6. CASE Boot!FindDefaultGroup(p) \/ Boot!MarkGroup(p) \/ Boot!InsertGroup(p)
    <2>1. Boot!Pending' = Boot!Pending /\ Boot!Pending = {}
      BY <1>0, <1>6 DEF Boot!FindDefaultGroup, Boot!MarkGroup, Boot!InsertGroup, StartsOK,
                        Boot!Pending
    <2>2. phase'[p] \in {"off", "mark group", "insert group", "count owners"}
      BY <1>0, <1>6 DEF Boot!FindDefaultGroup, Boot!MarkGroup, Boot!InsertGroup
    <2>3. phase'[p] = "count owners" => defaultGroup' = "default"
      BY <1>0, <1>6 DEF Boot!FindDefaultGroup, Boot!MarkGroup, Boot!InsertGroup
    <2> QED
      BY <2>1, <2>2, <2>3 DEF StartsOK
  <1>7. CASE Boot!CountOwners(p) \/ Boot!FindOwner(p) \/ Boot!InsertOwner(p)
    <2>1. /\ Boot!Pending' = Boot!Pending /\ Boot!Pending = {}
          /\ defaultGroup' = defaultGroup /\ defaultGroup = "default"
      BY <1>0, <1>7 DEF Boot!CountOwners, Boot!FindOwner, Boot!InsertOwner, StartsOK, Boot!Pending
    <2>2. phase'[p] \in {"off", "find owner", "insert owner", "serving"}
      BY <1>0, <1>7 DEF Boot!CountOwners, Boot!FindOwner, Boot!InsertOwner
    <2>3. CASE Boot!CountOwners(p)
      <3>1. owners' = owners /\ phase'[p] = IF owners > 1 THEN "off" ELSE "find owner"
        BY <1>0, <2>3 DEF Boot!CountOwners
      <3>2. ASSUME phase'[p] = "find owner" PROVE owners' <= 1
        <4>1. owners \in {0, 1, 2} /\ owners' = owners
          BY <1>0, <3>1
        <4>2. ~(owners > 1)
          BY <3>1, <3>2
        <4> QED
          BY <4>1, <4>2
      <3> QED
        BY <2>1, <3>1, <3>2 DEF StartsOK
    <2>4. CASE Boot!FindOwner(p)
      <3>1. owners' = owners /\ phase'[p] = IF owners > 0 THEN "serving" ELSE "insert owner"
        BY <1>0, <2>4 DEF Boot!FindOwner
      <3>2. owners <= 1
        BY <1>0, <2>4 DEF Boot!FindOwner, StartsOK
      <3>3. owners' <= 1
        BY <3>1, <3>2
      <3>4. ASSUME phase'[p] = "serving" PROVE owners' = 1
        <4>1. owners \in {0, 1, 2} /\ owners' = owners
          BY <1>0, <3>1
        <4>2. owners > 0
          BY <3>1, <3>4
        <4> QED
          BY <3>2, <4>1, <4>2
      <3> QED
        BY <2>1, <3>3, <3>4 DEF StartsOK
    <2>5. CASE Boot!InsertOwner(p)
      <3>1. owners' = (IF owners = 0 THEN 1 ELSE owners) /\ phase'[p] = "serving"
        BY <1>0, <2>5 DEF Boot!InsertOwner, Boot!OwnerAdded
      <3>2. owners <= 1
        BY <1>0, <2>5 DEF Boot!InsertOwner, StartsOK
      <3>3. owners' = 1
        BY <1>0, <3>1, <3>2
      <3> QED
        BY <2>1, <3>1, <3>3 DEF StartsOK
    <2> QED
      BY <1>7, <2>3, <2>4, <2>5
  <1>8. CASE Boot!Stops(p)
    BY <1>0, <1>8 DEF Boot!Stops, StartsOK
  <1> QED
    BY <1>1, <1>2, <1>3, <1>4, <1>5, <1>6, <1>7, <1>8 DEF Step

\* The next migration accepts what this step leaves.
LEMMA NextMigratable ==
    ASSUME Boot!LockAssumption, StartupIInv, NEW p \in Processes,
           Step(p) PROVE Boot!StaysMigratable'
  <1>0. /\ phase \in [Processes -> Phases] /\ World(p) /\ (Boot!MySQL' = Boot!MySQL)
        /\ AdoptsOK(p) /\ MigratesOK(p) /\ StartsOK(p) /\ Boot!StaysMigratable
        /\ engine' = engine
    BY Worlds, Frames DEF StartupIInv, Boot!TypeOK, Phases, Boot!MySQL
  <1>1. cutShort => cutShort'
    BY Frames DEF Boot!Stops
  \* a step that changes nothing of what this is about, and does not end a migration,
  <1>2. ASSUME UNCHANGED <<Boot!schema, engine>>, Boot!At(p, "migrate") => cutShort'
        PROVE  Boot!StaysMigratable'
    <2>1. Boot!Drift' = Boot!Drift
      BY <1>0, <1>2 DEF Boot!Drift, Boot!Defined
    <2> QED
      BY <1>0, <1>1, <1>2, <2>1 DEF Boot!StaysMigratable, World
  <1>3. CASE Boot!StartMigrating(p) \/ Boot!TakeLock(p) \/ Boot!LockTimesOut(p)
             \/ Boot!Baseline(p)
             \/ Boot!EndMigrating(p) \/ Boot!StartEarly(p)
    <2>1. UNCHANGED <<Boot!schema, engine>> /\ ~Boot!At(p, "migrate")
      BY <1>3 DEF Boot!StartMigrating, Boot!TakeLock, Boot!LockTimesOut, Boot!Baseline,
                  Boot!EndMigrating, Boot!StartEarly
    <2> QED
      BY <1>2, <2>1
  <1>4. CASE Boot!FindDefaultGroup(p) \/ Boot!MarkGroup(p) \/ Boot!InsertGroup(p)
             \/ Boot!CountOwners(p) \/ Boot!FindOwner(p) \/ Boot!InsertOwner(p)
    <2>1. UNCHANGED <<Boot!schema, engine>> /\ ~Boot!At(p, "migrate")
      BY <1>4 DEF Boot!FindDefaultGroup, Boot!MarkGroup, Boot!InsertGroup, Boot!CountOwners,
                  Boot!FindOwner, Boot!InsertOwner
    <2> QED
      BY <1>2, <2>1
  \* a repair only adds what is missing,
  <1>5. CASE Boot!Repair(p)
    <2>1. /\ present # {} /\ (Boot!MySQL => odd = {})
          /\ history' = history /\ recorded' = recorded
          /\ present \subseteq present' /\ odd' = {} /\ ~Boot!At(p, "migrate")
      BY <1>0, <1>5 DEF Boot!Repair, AdoptsOK
    <2>2. Boot!Drift' => Boot!Drift
      BY <1>0, <2>1 DEF Boot!Drift, Boot!Defined
    <2> QED
      BY <1>0, <1>1, <2>1, <2>2 DEF Boot!StaysMigratable, World
  \* the history is made when there is no difference left, ...
  <1>6. CASE Boot!CreateHistory(p)
    <2>1. ~Boot!Drift /\ UNCHANGED <<present, odd>>
      BY <1>0, <1>6 DEF Boot!CreateHistory, AdoptsOK
    <2>2. ~Boot!Drift'
      BY <1>0, <2>1 DEF Boot!Drift, Boot!Defined
    <2> QED
      BY <2>2 DEF Boot!StaysMigratable
  <1>7. CASE Boot!RecordInitial(p)
    BY <1>7 DEF Boot!RecordInitial, Boot!StaysMigratable
  \* ... or the database is empty, or adopted,
  <1>8. CASE Boot!RunMigrations(p)
    BY <1>0, <1>8 DEF Boot!RunMigrations, MigratesOK, Boot!StaysMigratable
  <1>9. CASE Boot!MigrateAll(p)
    BY <1>9 DEF Boot!MigrateAll, Boot!Migrations, Boot!StaysMigratable
  <1>10. CASE Boot!RunStatement(p)
    BY <1>10 DEF Boot!RunStatement, Boot!StaysMigratable
  <1>11. CASE Boot!DropDefaultIndex(p)
    <2>1. Boot!Pending # {} /\ Boot!Current = 2 /\ recorded' = recorded
      BY <1>0, <1>11 DEF Boot!DropDefaultIndex, MigratesOK
    <2>2. 1 \notin Boot!Pending
      BY <2>1, HasCurrent
    <2>3. 1 \in recorded'
      BY <2>1, <2>2 DEF Boot!Pending, Boot!Migrations
    <2> QED
      BY <2>3 DEF Boot!StaysMigratable
  <1>12. CASE Boot!MakeDefaultIndex(p)
    BY <1>0, <1>12 DEF Boot!MakeDefaultIndex, MigratesOK, Boot!StaysMigratable
  <1>13. CASE Boot!RecordMigration(p)
    <2>1. CASE 1 \in recorded
      BY <1>13, <2>1 DEF Boot!RecordMigration, Boot!StaysMigratable
    <2>2. CASE 1 \notin recorded
      <3>1. 1 \in Boot!Pending
        BY <2>2 DEF Boot!Pending, Boot!Migrations
      <3>2. Boot!Pending # {}
        BY <3>1
      <3>3. Boot!Current \in Boot!Pending /\ Boot!Current <= 1
            /\ Boot!Pending \subseteq Boot!Migrations
        BY <3>1, <3>2, HasCurrent
      <3>4. Boot!Current = 1
        BY <3>3 DEF Boot!Migrations
      <3>5. 1 \in recorded'
        BY <1>13, <3>4 DEF Boot!RecordMigration
      <3> QED
        BY <3>5 DEF Boot!StaysMigratable
    <2> QED
      BY <2>1, <2>2
  \* and a server that makes it comes after the migrations, or came before them.
  <1>14. CASE Boot!CheckPending(p)
    <2>1. UNCHANGED <<present, odd, recorded, early>> /\ ~Boot!At(p, "migrate")
      BY <1>14 DEF Boot!CheckPending
    <2>2. Boot!Drift' = Boot!Drift
      BY <1>0, <2>1 DEF Boot!Drift, Boot!Defined
    <2>3. history \/ early \/ Boot!Pending = {}
      BY <1>0, <1>14 DEF Boot!CheckPending, StartsOK
    <2>4. CASE history
      BY <1>0, <1>1, <2>1, <2>2, <2>4 DEF Boot!StaysMigratable, World
    <2>5. CASE early
      BY <2>1, <2>5 DEF Boot!StaysMigratable
    <2>6. CASE Boot!Pending = {}
      <3>1. 1 \in recorded
        BY <2>6 DEF Boot!Pending, Boot!Migrations
      <3> QED
        BY <2>1, <3>1 DEF Boot!StaysMigratable
    <2> QED
      BY <2>3, <2>4, <2>5, <2>6
  <1>15. CASE Boot!Stops(p)
    <2>1. UNCHANGED <<Boot!schema, engine>>
      BY <1>15 DEF Boot!Stops
    <2>2. CASE ~Boot!At(p, "migrate") \/ cutShort'
      BY <1>2, <2>1, <2>2
    <2>3. CASE Boot!At(p, "migrate") /\ ~cutShort'
      <3>1. 1 \in recorded \/ present = {}
        <4>1. CASE Boot!MySQL
          <5>1. ~(1 \in Boot!Pending /\ present # {})
            BY <1>15, <2>3, <4>1 DEF Boot!Stops
          <5>2. 1 \in Boot!Pending \/ 1 \in recorded
            BY DEF Boot!Pending, Boot!Migrations
          <5> QED
            BY <5>1, <5>2
        <4>2. CASE ~Boot!MySQL
          BY <1>0, <2>3, <4>2 DEF MigratesOK
        <4> QED
          BY <4>1, <4>2
      <3> QED
        BY <2>1, <3>1 DEF Boot!StaysMigratable
    <2> QED
      BY <2>2, <2>3
  <1> QED
    BY <1>3, <1>4, <1>5, <1>6, <1>7, <1>8, <1>9, <1>10, <1>11, <1>12, <1>13, <1>14, <1>15
    DEF Step

LEMMA NextStartup ==
    ASSUME Boot!LockAssumption, StartupIInv, Boot!Next \/ UNCHANGED Boot!vars
    PROVE  StartupIInv'
  <1>1. ASSUME NEW p \in Processes, Step(p) PROVE StartupIInv'
    <2>1. Boot!TypeOK' /\ Guarded' /\ RecordedMade' /\ Boot!StaysMigratable'
      BY <1>1, NextTyped, NextGuarded, NextMade, NextMigratable
    <2>2. AdoptsOK(p)' /\ MigratesOK(p)' /\ StartsOK(p)'
      BY <1>1, OwnAdopts, OwnMigrates, OwnStarts
    <2>3. \A q \in Processes \ {p} : AdoptsOK(q)' /\ MigratesOK(q)' /\ StartsOK(q)'
      BY <1>1, Worlds, Others
    <2> QED
      BY <2>1, <2>2, <2>3 DEF StartupIInv
  <1>2. CASE UNCHANGED Boot!vars
    BY <1>2 DEF Boot!vars, StartupIInv, Boot!TypeOK, Guarded, RecordedMade, Boot!StaysMigratable,
                AdoptsOK, MigratesOK, StartsOK, Migrating, Boot!MySQL, Boot!Drift, Boot!Defined,
                Boot!Pending
  <1> QED
    BY <1>1, <1>2 DEF Boot!Next, Step

LEMMA StartupInvariant == PartsSpec => []StartupIInv
  <1>1. PartsInit => StartupIInv
    BY InitStartup, LockIsFree DEF PartsInit
  <1>2. StartupIInv /\ [PartsNext]_<<part, vars, consoleVars>> => StartupIInv'
    <2> SUFFICES ASSUME StartupIInv, [PartsNext]_<<part, vars, consoleVars>>
                 PROVE  StartupIInv'
      OBVIOUS
    <2>1. Boot!Next \/ UNCHANGED Boot!vars
      BY DEF PartsNext, consoleVars, Boot!vars
    <2> QED
      BY <2>1, NextStartup, LockIsFree
  <1> QED
    BY <1>1, <1>2, PTL DEF PartsSpec

(***************************************************************************)
(* The theorems on the start.                                              *)
(***************************************************************************)

\* Wherever a migration stopped, the next one does not refuse the database
\* (repairSynchronizedSchema), with as many processes as start.
THEOREM AlwaysMigratable == PartsSpec => []StaysMigratable
  <1>1. StartupIInv => StaysMigratable
    BY DEF StartupIInv, StaysMigratable
  <1> QED
    BY <1>1, StartupInvariant, PTL

\* Who serves has the whole schema, every migration recorded, one owner and a
\* default group.
THEOREM ServesOnlyWhole == PartsSpec => []ServesWhole
  <1>1. StartupIInv => ServesWhole
    <2> SUFFICES ASSUME StartupIInv, NEW p \in Processes, Boot!At(p, "serving")
                 PROVE  /\ present = Boot!SchemaParts /\ Boot!Pending = {} /\ owners = 1
                        /\ defaultGroup = "default"
      BY DEF ServesWhole, Boot!ServesWhole
    <2>1. Boot!Pending = {} /\ owners = 1 /\ defaultGroup = "default"
      BY DEF StartupIInv, StartsOK
    <2>2. Boot!Migrations \subseteq recorded
      BY <2>1 DEF Boot!Pending
    <2>3. Boot!SchemaParts \subseteq present
      BY <2>2 DEF Boot!SchemaParts, StartupIInv, RecordedMade
    <2>4. present \subseteq Boot!SchemaParts
      BY DEF StartupIInv, Boot!TypeOK
    <2> QED
      BY <2>1, <2>3, <2>4
  <1> QED
    BY <1>1, StartupInvariant, PTL
=============================================================================
