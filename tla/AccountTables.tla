--------------------------- MODULE AccountTables ---------------------------
(***************************************************************************)
(* The tables behind sign-in: user rows, access tokens, second-step login  *)
(* sessions, password-reset links, passkeys and invitations, and the       *)
(* requests that work on them.  Every HTTP handler is a sequence of        *)
(* database statements with an await between them; what one reads it keeps *)
(* in its own copy, and other requests run in between.                     *)
(*                                                                         *)
(* A row that was read is written back by the mapper's save, which looks   *)
(* at the table again and writes every column whose value differs from the *)
(* copy: a stale copy therefore overwrites what others wrote meanwhile,    *)
(* but only in columns it had loaded.  Inside a transaction with its own   *)
(* connection (MySQL) the second look sees the transaction's snapshot and  *)
(* only edited columns are written; on the shared connection (SQLite) it   *)
(* sees the present table.                                                 *)
(***************************************************************************)
EXTENDS Naturals, FiniteSets

CONSTANTS Users,            \* accounts, by guid
          Sessions,         \* guids of login sessions
          Tokens,           \* jti of access tokens
          Resets,           \* password-reset links
          Requests,         \* requests served at the same time
          Scenarios,        \* what may be called; a behaviour keeps to one of them
          None

(* operations: the handlers that are called; shared: SQLite, not MySQL;    *)
(* sessions, tokens: how many are issued; passwords are 1..passwords, 0 is *)
(* no password; secrets: how many second-factor secrets may be generated.  *)
ASSUME ScenarioAssumption ==
    \A s \in Scenarios :
        /\ DOMAIN s = {"operations", "shared", "sessions", "tokens", "passwords", "secrets"}
        /\ s.shared \in BOOLEAN /\ s.passwords \in Nat \ {0} /\ s.secrets \in Nat
        /\ s.sessions \in 0..Cardinality(Sessions) /\ s.tokens \in 0..Cardinality(Tokens)

VARIABLES scenario,      \* the one chosen
          users,         \* the users table
          secrets,       \* how many second-factor secrets were generated
          proven,        \* secrets a right code was ever given for
          credentials,   \* who has a passkey
          invitations,   \* the invitation of an invited user
          loginSessions, \* second steps of a login
          userTokens,    \* access tokens
          resetTokens,   \* password-reset links
          resetUses,     \* how often a link has set a password
          requests,      \* requests in flight
          barred         \* disabled by an administrator, not enabled since

SharedConnection == scenario.shared
Passwords == 1..scenario.passwords
Secrets == 1..scenario.secrets

rows   == <<scenario, users, secrets, proven, credentials, invitations>>
logins == <<loginSessions, userTokens, resetTokens, resetUses>>

Info == [enforce: BOOLEAN, email: BOOLEAN, passkey: BOOLEAN, pending: Secrets \cup {0}]
NoInfo == [enforce |-> FALSE, email |-> FALSE, passkey |-> FALSE, pending |-> 0]

Status == {"none", "unverified", "disabled", "active", "deleted"}
Row == [status: Status, password: Passwords \cup {0}, tfaSecret: Secrets \cup {0}, info: Info]
NoRow == [status |-> "none", password |-> 0, tfaSecret |-> 0, info |-> NoInfo]

(* The columns a query loads: password and tfaSecret only on request. *)
Plain        == {"status", "info"}
WithTfa      == Plain \cup {"tfaSecret"}
WithPassword == Plain \cup {"password"}

Exists(u) == users[u].status \notin {"none", "deleted"}

Merge(old, new, columns) ==
    [c \in DOMAIN old |-> IF c \in columns THEN new[c] ELSE old[c]]

(* Outside a transaction: the loaded columns, or a new row if it is gone. *)
SavedRow(u, new, columns) ==
    Merge(IF Exists(u) THEN users[u] ELSE NoRow, new, columns)

(* Inside a transaction that loaded the copy old and edited it to new. *)
SavedInTransaction(u, old, new, columns) ==
    IF SharedConnection THEN SavedRow(u, new, columns)
    ELSE IF Exists(u)
         THEN Merge(users[u], new, {c \in columns : new[c] # old[c]})
         ELSE users[u]

Methods == {"email", "tfa", "passkey_tfa", "passkey", "passkey_reg"}
ASSUME NoneAssumption == None \notin Users \cup Sessions \cup Methods

LoginSession == [state: {"free", "unused", "used", "expired", "deleted"},
                 user: Users \cup {None}, method: Methods \cup {None}]
FreeSession == [state |-> "free", user |-> None, method |-> None]

UserToken == [state: {"free", "live", "revoked", "deleted"},
              user: Users \cup {None}, via: Sessions \cup {None}]
FreeToken == [state |-> "free", user |-> None, via |-> None]

ResetToken == [state: {"free", "open", "used", "expired", "deleted"},
               user: Users \cup {None}]
FreeReset == [state |-> "free", user |-> None]

(* What a request does next. *)
Operations ==
    {"idle", "factor", "issue", "verify", "counter", "mark", "validated", "serve", "revoke",
     "again", "link", "confirm", "profile", "setupTfa", "bindTfa", "disableTfa", "passkeyTfa",
     "accept", "accepted", "register", "registered", "lastPasskey", "password", "security",
     "status"} \cup Methods

Request == [op: Operations, user: Users \cup {None},
            key: Sessions \cup Tokens \cup Resets \cup {None},
            row: Row, new: Row]
Idle == [op |-> "idle", user |-> None, key |-> None, row |-> NoRow, new |-> NoRow]

(* Unused sessions of a user are deleted ... *)
SessionsWithout(U) ==
    [s \in Sessions |->
        IF loginSessions[s].user \in U /\ loginSessions[s].state \in {"unused", "expired"}
        THEN [loginSessions[s] EXCEPT !.state = "deleted"] ELSE loginSessions[s]]

(* ... and the tokens that are not revoked yet are. *)
TokensRevoked(U) ==
    [t \in Tokens |->
        IF userTokens[t].user \in U /\ userTokens[t].state = "live"
        THEN [userTokens[t] EXCEPT !.state = "revoked"] ELSE userTokens[t]]

RevokeActiveTokens(U) ==
    /\ userTokens' = TokensRevoked(U)
    /\ loginSessions' = SessionsWithout(U)

(* A row that is not in use yet, if the scenario has one left. *)
Unused(table, free, x, limit) ==
    LET spare == {y \in DOMAIN table : table[y] = free}
    IN /\ Cardinality(DOMAIN table \ spare) < limit
       /\ spare # {} /\ x = CHOOSE y \in spare : TRUE

(* A request takes a slot, moves on, or is answered. *)
Begin(p, operation, next) ==
    /\ operation \in scenario.operations
    /\ requests[p] = Idle
    /\ requests' = [requests EXCEPT ![p] = next]

Continue(p, op) == requests' = [requests EXCEPT ![p].op = op]
Finish(p)       == requests' = [requests EXCEPT ![p] = Idle]
=============================================================================
