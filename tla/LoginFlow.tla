----------------------------- MODULE LoginFlow -----------------------------
(***************************************************************************)
(* Signing in: a password, a second step (mailed code, authenticator code  *)
(* or passkey), or a passkey alone; the tokens this issues, how they are   *)
(* checked and revoked, and the reset of a forgotten password.             *)
(* Attempts with a wrong password or code change nothing and are left out. *)
(***************************************************************************)
EXTENDS AccountTables

-----------------------------------------------------------------------------
(* localLogin: one query for the user, then the comparison and the checks. *)
LocalLogin(p, u) ==
    /\ users[u].status = "active" /\ users[u].password # 0
    /\ Begin(p, "login", [Idle EXCEPT !.op = "factor", !.user = u, !.row = users[u]])
    /\ UNCHANGED <<rows, logins, barred>>

SecondFactor(row, hasPasskey) ==
    CASE row.info.email                  -> "email"
      [] row.info.passkey /\ hasPasskey  -> "passkey_tfa"
      [] row.tfaSecret # 0               -> "tfa"
      [] row.info.enforce                -> "enforce_tfa"
      [] OTHER                           -> "none"

(* The copy decides which second step follows; one is opened by deleting   *)
(* the user's unused sessions and then inserting the new one.              *)
ChooseFactor(p) ==
    LET u == requests[p].user
        factor == SecondFactor(requests[p].row, u \in credentials)
    IN /\ requests[p].op = "factor"
       /\ CASE factor = "enforce_tfa" -> Finish(p) /\ UNCHANGED loginSessions
            [] factor = "none" -> Continue(p, "issue") /\ UNCHANGED loginSessions
            [] OTHER -> Continue(p, factor) /\ loginSessions' = SessionsWithout({u})
       /\ UNCHANGED <<rows, userTokens, resetTokens, resetUses, barred>>

CreateSession(p, s) ==
    /\ requests[p].op \in Methods
    /\ Unused(loginSessions, FreeSession, s, scenario.sessions)
    /\ loginSessions' = [loginSessions EXCEPT ![s] =
           [state |-> "unused", user |-> requests[p].user, method |-> requests[p].op]]
    /\ Finish(p)
    /\ UNCHANGED <<rows, userTokens, resetTokens, resetUses, barred>>

(* beginAuthLogin: a passkey session belongs to nobody yet. *)
BeginAuthLogin(p) ==
    /\ Begin(p, "passkey", [Idle EXCEPT !.op = "passkey"])
    /\ UNCHANGED <<rows, logins, barred>>

SessionExpires(s) ==
    /\ loginSessions[s].state = "unused"
    /\ loginSessions' = [loginSessions EXCEPT ![s].state = "expired"]
    /\ UNCHANGED <<rows, userTokens, resetTokens, resetUses, barred, requests>>

(* The second step: find the session, and for a passkey its owner u, ... *)
FindSession(p, s, u) ==
    /\ loginSessions[s].state = "unused" /\ loginSessions[s].method # "passkey_reg"
    /\ IF loginSessions[s].method = "passkey" THEN u \in credentials
       ELSE /\ u = loginSessions[s].user
            /\ loginSessions[s].method = "passkey_tfa" => u \in credentials
    /\ Begin(p, "second", [Idle EXCEPT !.op = "verify", !.user = u, !.key = s])
    /\ UNCHANGED <<rows, logins, barred>>

(* ... then the user, and check the code or the signature ... *)
MayLogIn(u) == Exists(u) /\ users[u].status # "disabled"

ByPasskey(s)       == loginSessions[s].method \in {"passkey", "passkey_tfa"}
PasskeyVerified(u) == MayLogIn(u)
EmailVerified(u)   == MayLogIn(u)
TfaVerified(u)     == MayLogIn(u) /\ users[u].tfaSecret # 0

Verified(s, u) ==
    CASE ByPasskey(s)                       -> PasskeyVerified(u)
      [] loginSessions[s].method = "email"  -> EmailVerified(u)
      [] loginSessions[s].method = "tfa"    -> TfaVerified(u)

VerifySecond(p) ==
    LET u == requests[p].user
        s == requests[p].key
    IN /\ requests[p].op = "verify"
       /\ IF Verified(s, u)
          THEN Continue(p, IF ByPasskey(s) THEN "counter" ELSE "mark") ELSE Finish(p)
       /\ UNCHANGED <<rows, logins, barred>>

(* ... a passkey's signature counter is saved, which puts a passkey back   *)
(* that was deleted meanwhile ...                                          *)
SaveCounter(p) ==
    /\ requests[p].op = "counter"
    /\ credentials' = credentials \cup {requests[p].user}
    /\ Continue(p, "mark")
    /\ UNCHANGED <<scenario, users, secrets, proven, invitations, logins, barred>>

(* Mutant: the number of rows updated is not looked at. *)
MarkSessionAnyway(p) ==
    LET s == requests[p].key
    IN /\ requests[p].op = "mark"
       /\ loginSessions' = [loginSessions EXCEPT ![s].state = IF @ = "unused" THEN "used" ELSE @]
       /\ Continue(p, "issue")
       /\ UNCHANGED <<rows, userTokens, resetTokens, resetUses, barred>>

(* ... and completeLogin marks the session by a conditional update. *)
MarkSessionUsed(p) ==
    LET s == requests[p].key
    IN /\ requests[p].op = "mark"
       /\ IF loginSessions[s].state = "unused"
          THEN /\ loginSessions' = [loginSessions EXCEPT ![s].state = "used"]
               /\ Continue(p, "issue")
          ELSE Finish(p) /\ UNCHANGED loginSessions
       /\ UNCHANGED <<rows, userTokens, resetTokens, resetUses, barred>>

-----------------------------------------------------------------------------
(* generateToken: the row refers to the user, who must still exist. *)
GenerateToken(p, t) ==
    /\ requests[p].op = "issue"
    /\ IF Exists(requests[p].user)
       THEN /\ Unused(userTokens, FreeToken, t, scenario.tokens)
            /\ userTokens' = [userTokens EXCEPT ![t] =
                   [state |-> "live", user |-> requests[p].user, via |-> requests[p].key]]
       ELSE UNCHANGED userTokens
    /\ Finish(p)
    /\ UNCHANGED <<rows, loginSessions, resetTokens, resetUses, barred>>

(* A request with a token: the token's row is looked up, then its user's. *)
ValidateToken(p, t) ==
    /\ userTokens[t].state = "live"
    /\ Begin(p, "validate",
             [Idle EXCEPT !.op = "validated", !.user = userTokens[t].user, !.key = t])
    /\ UNCHANGED <<rows, logins, barred>>

CheckAccount(p) ==
    /\ requests[p].op = "validated"
    /\ IF users[requests[p].user].status = "active"
       THEN Continue(p, "serve") ELSE Finish(p)
    /\ UNCHANGED <<rows, logins, barred>>

Serve(p) ==
    /\ requests[p].op = "serve"
    /\ Finish(p)
    /\ UNCHANGED <<rows, logins, barred>>

(* logout: the token and the others of the device, in two updates. *)
Logout(p, T) ==
    /\ "logout" \in scenario.operations
    /\ requests[p] = Idle
    /\ \E u \in Users : \A t \in T : userTokens[t].user = u /\ userTokens[t].state = "live"
    /\ userTokens' = [t \in Tokens |->
           IF t \in T THEN [userTokens[t] EXCEPT !.state = "revoked"] ELSE userTokens[t]]
    /\ UNCHANGED <<rows, loginSessions, resetTokens, resetUses, requests, barred>>

(* revokeSession reads a token's row and saves it with the flag set. *)
RevokeSession(p, t) ==
    /\ userTokens[t].state \in {"live", "revoked"}
    /\ Begin(p, "revoke",
             [Idle EXCEPT !.op = IF userTokens[t].state = "live" THEN "revoke" ELSE "again",
                          !.user = userTokens[t].user, !.key = t])
    /\ UNCHANGED <<rows, logins, barred>>

(* Mutant: the row is saved without setting the flag. *)
FlagForgotten(loaded) == loaded

FlagSaved(loaded) == "revoked"

SaveRevoked(p) ==
    LET t == requests[p].key
    IN /\ requests[p].op \in {"revoke", "again"}
       /\ userTokens' = IF Exists(requests[p].user)
              THEN [userTokens EXCEPT ![t].state =
                        FlagSaved(IF requests[p].op = "revoke" THEN "live" ELSE "revoked")]
              ELSE userTokens
       /\ Finish(p)
       /\ UNCHANGED <<rows, loginSessions, resetTokens, resetUses, barred>>

(* A token runs out and the nightly clean-up deletes its row. *)
HandleCleanupExpiredTokens(t) ==
    /\ "cleanup" \in scenario.operations
    /\ userTokens[t].state \in {"live", "revoked"}
    /\ userTokens' = [userTokens EXCEPT ![t].state = "deleted"]
    /\ UNCHANGED <<rows, loginSessions, resetTokens, resetUses, requests, barred>>

-----------------------------------------------------------------------------
(* requestReset deletes the user's links, then saves the new one. *)
RequestReset(p, u) ==
    /\ users[u].status = "active"
    /\ Begin(p, "reset", [Idle EXCEPT !.op = "link", !.user = u])
    /\ resetTokens' = [r \in Resets |->
           IF resetTokens[r].user = u THEN [resetTokens[r] EXCEPT !.state = "deleted"]
           ELSE resetTokens[r]]
    /\ UNCHANGED <<rows, loginSessions, userTokens, resetUses, barred>>

SaveReset(p, r) ==
    /\ requests[p].op = "link"
    /\ resetTokens[r] = FreeReset
    /\ resetTokens' = [resetTokens EXCEPT ![r] = [state |-> "open", user |-> requests[p].user]]
    /\ Finish(p)
    /\ UNCHANGED <<rows, loginSessions, userTokens, resetUses, barred>>

ResetExpires(r) ==
    /\ resetTokens[r].state = "open"
    /\ resetTokens' = [resetTokens EXCEPT ![r].state = "expired"]
    /\ UNCHANGED <<rows, loginSessions, userTokens, resetUses, requests, barred>>

(* confirmReset, a transaction: the link and its user are read ... *)
ReadReset(p, r, password) ==
    LET u == resetTokens[r].user
    IN /\ resetTokens[r].state = "open"
       /\ users[u].status = "active"
       /\ Begin(p, "reset", [op |-> "confirm", user |-> u, key |-> r, row |-> users[u],
                             new |-> [users[u] EXCEPT !.password = password]])
       /\ UNCHANGED <<rows, logins, barred>>

(* ... the link is marked if it is still unused, the password is saved and *)
(* everything issued so far is revoked.                                    *)
LinkStillUnused(r) == resetTokens[r].state \in {"open", "expired"}

ConfirmReset(p) ==
    LET u == requests[p].user
        r == requests[p].key
    IN /\ requests[p].op = "confirm"
       /\ IF LinkStillUnused(r)
          THEN /\ resetTokens' = [resetTokens EXCEPT ![r].state = "used"]
               /\ resetUses' = [resetUses EXCEPT ![r] = @ + 1]
               /\ users' = [users EXCEPT ![u] =
                      SavedInTransaction(u, requests[p].row, requests[p].new, WithPassword)]
               /\ RevokeActiveTokens({u})
          ELSE UNCHANGED <<users, logins>>
       /\ Finish(p)
       /\ UNCHANGED <<scenario, secrets, proven, credentials, invitations, barred>>
=============================================================================
