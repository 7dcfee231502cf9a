--------------------------- MODULE AccountUpdates ---------------------------
(***************************************************************************)
(* What users and administrators change in a user's row.  The user's own   *)
(* handlers read the row, edit the copy and save it; the administrator's   *)
(* run in a transaction and revoke what was issued.                        *)
(***************************************************************************)
EXTENDS AccountTables

-----------------------------------------------------------------------------
(* createUser and register; inviteUser leaves the password to the guest. *)
CreateUser(u, password) ==
    /\ "create" \in scenario.operations
    /\ users[u] = NoRow
    /\ users' = [users EXCEPT ![u] = [NoRow EXCEPT !.status = "active", !.password = password]]
    /\ UNCHANGED <<scenario, secrets, proven, credentials, invitations, logins, requests, barred>>

InviteUser(u) ==
    /\ "invite" \in scenario.operations
    /\ users[u] = NoRow
    /\ users' = [users EXCEPT ![u] = [NoRow EXCEPT !.status = "unverified"]]
    /\ invitations' = [invitations EXCEPT ![u] = "open"]
    /\ UNCHANGED <<scenario, secrets, proven, credentials, logins, requests, barred>>

-----------------------------------------------------------------------------
(* The user's own handlers.  validateToken found the account active, which *)
(* it need not be any more: a copy of the row is taken and edited ...      *)
Edit(p, operation, u, new) ==
    /\ Exists(u)
    /\ Begin(p, operation, [Idle EXCEPT !.op = operation, !.user = u,
                                        !.row = users[u], !.new = new])

(* updateCurrentUser, uploadAvatar, deleteAvatar: columns of no interest here. *)
UpdateCurrentUser(p, u) ==
    /\ Edit(p, "profile", u, users[u])
    /\ UNCHANGED <<rows, logins, barred>>

(* setupTfa generates a secret; one in use is replaced only if enforced. *)
SetupTfa(p, u) ==
    /\ users[u].tfaSecret # 0 => users[u].info.enforce
    /\ secrets < scenario.secrets
    /\ secrets' = secrets + 1
    /\ Edit(p, "setupTfa", u, [users[u] EXCEPT !.info.pending = secrets + 1])
    /\ UNCHANGED <<scenario, users, proven, credentials, invitations, logins, barred>>

(* verifyAndBindTfa: the code is right for the pending secret of the copy. *)
Bound(row) == [row EXCEPT !.tfaSecret = row.info.pending, !.info.pending = 0]

VerifyAndBindTfa(p, u) ==
    /\ users[u].tfaSecret # 0 => users[u].info.enforce
    /\ users[u].info.pending # 0
    /\ proven' = proven \cup {users[u].info.pending}
    /\ Edit(p, "bindTfa", u, Bound(users[u]))
    /\ UNCHANGED <<scenario, users, secrets, credentials, invitations, logins, barred>>

DisableTfa(p, u) ==
    /\ users[u].tfaSecret # 0 /\ ~users[u].info.enforce
    /\ Edit(p, "disableTfa", u, [users[u] EXCEPT !.tfaSecret = 0])
    /\ UNCHANGED <<rows, logins, barred>>

(* setPasskeyTfaEnabled; its look for a passkey follows the user's query. *)
SetPasskeyTfaEnabled(p, u, enabled) ==
    /\ enabled => u \in credentials
    /\ Edit(p, "passkeyTfa", u, [users[u] EXCEPT !.info.passkey = enabled])
    /\ UNCHANGED <<rows, logins, barred>>

(* acceptInvitation: anyone with the open invitation, whatever the status. *)
AcceptInvitation(p, u, password) ==
    /\ invitations[u] = "open"
    /\ Edit(p, "accept", u, [users[u] EXCEPT !.password = password, !.status = "active"])
    /\ UNCHANGED <<rows, logins, barred>>

(* Mutant: every handler loads the password along. *)
LoadedWithPassword(op) == WithTfa \cup WithPassword

(* ... and is saved, with the columns the query had loaded. *)
Loaded(op) == CASE op \in {"setupTfa", "bindTfa", "disableTfa"} -> WithTfa
                [] op = "accept" -> WithPassword
                [] OTHER -> Plain

Saves == {"profile", "setupTfa", "bindTfa", "disableTfa", "passkeyTfa", "accept"}

(* Mutant: the secret to bind is looked up again when it is saved. *)
SaveUserLatest(p) ==
    LET r == requests[p]
        new == IF r.op = "bindTfa" THEN Bound(users[r.user]) ELSE r.new
    IN /\ r.op \in Saves
       /\ users' = [users EXCEPT ![r.user] = SavedRow(r.user, new, Loaded(r.op))]
       /\ IF r.op = "accept" THEN Continue(p, "accepted") ELSE Finish(p)
       /\ UNCHANGED <<scenario, secrets, proven, credentials, invitations, logins, barred>>

SaveUser(p) ==
    LET r == requests[p]
    IN /\ r.op \in Saves
       /\ users' = [users EXCEPT ![r.user] = SavedRow(r.user, r.new, Loaded(r.op))]
       /\ IF r.op = "accept" THEN Continue(p, "accepted") ELSE Finish(p)
       /\ UNCHANGED <<scenario, secrets, proven, credentials, invitations, logins, barred>>

MarkInvitationUsed(p) ==
    /\ requests[p].op = "accepted"
    /\ invitations' = [invitations EXCEPT ![requests[p].user] = "used"]
    /\ Finish(p)
    /\ UNCHANGED <<scenario, users, secrets, proven, credentials, logins, barred>>

-----------------------------------------------------------------------------
(* Registering a passkey: the challenge is kept in a session; the passkey  *)
(* is saved first and the session marked afterwards, which may then fail.  *)
BeginRegistration(p, u) ==
    /\ Exists(u)
    /\ Begin(p, "credential", [Idle EXCEPT !.op = "passkey_reg", !.user = u])
    /\ UNCHANGED <<rows, logins, barred>>

VerifyRegistration(p, s) ==
    /\ loginSessions[s].state = "unused" /\ loginSessions[s].method = "passkey_reg"
    /\ Begin(p, "credential",
             [Idle EXCEPT !.op = "register", !.user = loginSessions[s].user, !.key = s])
    /\ UNCHANGED <<rows, logins, barred>>

SaveCredential(p) ==
    /\ requests[p].op = "register"
    /\ credentials' = credentials \cup {requests[p].user}
    /\ Continue(p, "registered")
    /\ UNCHANGED <<scenario, users, secrets, proven, invitations, logins, barred>>

MarkRegistrationUsed(p) ==
    LET s == requests[p].key
    IN /\ requests[p].op = "registered"
       /\ loginSessions' = [loginSessions EXCEPT ![s].state =
              IF @ = "unused" THEN "used" ELSE @]
       /\ Finish(p)
       /\ UNCHANGED <<rows, userTokens, resetTokens, resetUses, barred>>

(* deleteCredential of the last passkey goes on to switch its use off. *)
DeleteCredential(p, u) ==
    /\ u \in credentials
    /\ credentials' = credentials \ {u}
    /\ Begin(p, "credential", [Idle EXCEPT !.op = "lastPasskey", !.user = u])
    /\ UNCHANGED <<scenario, users, secrets, proven, invitations, logins, barred>>

SwitchPasskeyOff(p) ==
    LET u == requests[p].user
    IN /\ requests[p].op = "lastPasskey"
       /\ IF Exists(u) /\ u \notin credentials
          THEN requests' = [requests EXCEPT ![p] =
                   [@ EXCEPT !.op = "passkeyTfa", !.row = users[u],
                             !.new = [users[u] EXCEPT !.info.passkey = FALSE]]]
          ELSE Finish(p)
       /\ UNCHANGED <<rows, logins, barred>>

-----------------------------------------------------------------------------
(* Transactions: read, edit, then save and revoke together. *)
ChangePassword(p, u, password) ==
    /\ users[u].password # 0
    /\ Edit(p, "password", u, [users[u] EXCEPT !.password = password])
    /\ UNCHANGED <<rows, logins, barred>>

(* updateUserSecurity, and batchUpdateSecurity user by user. *)
UpdateUserSecurity(p, u, enforce, email, password) ==
    /\ Edit(p, "security", u, [users[u] EXCEPT !.info.enforce = enforce,
                                               !.info.email = email, !.password = password])
    /\ UNCHANGED <<rows, logins, barred>>

UpdateUser(p, u, status) ==
    /\ Edit(p, "status", u, [users[u] EXCEPT !.status = status])
    /\ UNCHANGED <<rows, logins, barred>>

(* A password that was not given is not written. *)
TransactionColumns(r) == IF r.new.password = r.row.password THEN Plain ELSE WithPassword

(* updateUser revokes only when the status has changed from its copy. *)
MustRevoke(r) == r.op = "status" => r.new.status # r.row.status

BarredAfter(u, status) ==
    IF status = "active" THEN barred \ {u} ELSE barred \cup {u}

CommitUser(p) ==
    LET r == requests[p]
        u == r.user
    IN /\ r.op \in {"password", "security", "status"}
       /\ users' = [users EXCEPT ![u] =
              SavedInTransaction(u, r.row, r.new, TransactionColumns(r))]
       /\ IF MustRevoke(r) THEN RevokeActiveTokens({u})
          ELSE UNCHANGED <<userTokens, loginSessions>>
       /\ barred' = IF r.op = "status" THEN BarredAfter(u, r.new.status) ELSE barred
       /\ Finish(p)
       /\ UNCHANGED <<scenario, secrets, proven, credentials, invitations, resetTokens, resetUses>>

(* batchUpdateStatus updates the column itself; enabling revokes nothing. *)
BatchUpdateStatus(U, status) ==
    /\ "batch" \in scenario.operations
    /\ U # {} /\ \A u \in U : Exists(u)
    /\ users' = [u \in Users |->
           IF u \in U THEN [users[u] EXCEPT !.status = status] ELSE users[u]]
    /\ IF status = "active" THEN UNCHANGED <<userTokens, loginSessions>>
       ELSE RevokeActiveTokens(U)
    /\ barred' = IF status = "active" THEN barred \ U ELSE barred \cup U
    /\ UNCHANGED <<scenario, secrets, proven, credentials, invitations, resetTokens, resetUses,
                   requests>>

ForceLogout(U) ==
    /\ "force" \in scenario.operations
    /\ U # {} /\ \A u \in U : Exists(u)
    /\ RevokeActiveTokens(U)
    /\ UNCHANGED <<rows, resetTokens, resetUses, requests, barred>>

(* deleteUser: the tokens of the row go with it; sessions were deleted. *)
DeleteUser(u) ==
    /\ "delete" \in scenario.operations
    /\ Exists(u)
    /\ users' = [users EXCEPT ![u] = [NoRow EXCEPT !.status = "deleted"]]
    /\ loginSessions' = SessionsWithout({u})
    /\ userTokens' = [t \in Tokens |->
           IF userTokens[t].user = u THEN [userTokens[t] EXCEPT !.state = "deleted"]
           ELSE userTokens[t]]
    /\ barred' = barred \cup {u}
    /\ UNCHANGED <<scenario, secrets, proven, credentials, invitations, resetTokens, resetUses,
                   requests>>
=============================================================================
