------------------------------ MODULE Accounts ------------------------------
(***************************************************************************)
(* Accounts as a whole: every sign-in and every change of a user's row,    *)
(* with Requests of them in flight at the same time.                       *)
(***************************************************************************)
EXTENDS LoginFlow, AccountUpdates

vars == <<rows, logins, requests, barred>>

Init ==
    /\ scenario \in Scenarios
    /\ users = [u \in Users |-> NoRow]
    /\ secrets = 0 /\ proven = {} /\ credentials = {}
    /\ invitations = [u \in Users |-> "none"]
    /\ loginSessions = [s \in Sessions |-> FreeSession]
    /\ userTokens = [t \in Tokens |-> FreeToken]
    /\ resetTokens = [r \in Resets |-> FreeReset]
    /\ resetUses = [r \in Resets |-> 0]
    /\ requests = [p \in Requests |-> Idle]
    /\ barred = {}

SignIn ==
    \/ \E p \in Requests :
          \/ \E u \in Users : LocalLogin(p, u) \/ RequestReset(p, u)
          \/ ChooseFactor(p) \/ BeginAuthLogin(p) \/ VerifySecond(p) \/ SaveCounter(p)
          \/ MarkSessionUsed(p)
          \/ CheckAccount(p) \/ Serve(p) \/ SaveRevoked(p) \/ ConfirmReset(p)
          \/ \E s \in Sessions : CreateSession(p, s) \/ \E u \in Users : FindSession(p, s, u)
          \/ \E t \in Tokens : GenerateToken(p, t) \/ ValidateToken(p, t) \/ RevokeSession(p, t)
          \/ \E T \in (SUBSET Tokens) \ {{}} : Logout(p, T)
          \/ \E r \in Resets :
                SaveReset(p, r) \/ \E pw \in Passwords : ReadReset(p, r, pw)
    \/ \E s \in Sessions : SessionExpires(s)
    \/ \E t \in Tokens : HandleCleanupExpiredTokens(t)
    \/ \E r \in Resets : ResetExpires(r)

Update ==
    \/ \E p \in Requests :
          \/ SaveUser(p) \/ MarkInvitationUsed(p) \/ SwitchPasskeyOff(p) \/ CommitUser(p)
          \/ SaveCredential(p) \/ MarkRegistrationUsed(p)
          \/ \E s \in Sessions : VerifyRegistration(p, s)
          \/ \E u \in Users :
                \/ UpdateCurrentUser(p, u) \/ SetupTfa(p, u) \/ VerifyAndBindTfa(p, u)
                \/ DisableTfa(p, u) \/ BeginRegistration(p, u) \/ DeleteCredential(p, u)
                \/ \E on \in BOOLEAN : SetPasskeyTfaEnabled(p, u, on)
                \/ \E pw \in Passwords :
                      \/ AcceptInvitation(p, u, pw) \/ ChangePassword(p, u, pw)
                      \/ \E enforce, email \in BOOLEAN :
                            UpdateUserSecurity(p, u, enforce, email, pw)
                \/ \E status \in {"active", "disabled"} : UpdateUser(p, u, status)
    \/ \E u \in Users :
          \/ \E pw \in Passwords : CreateUser(u, pw)
          \/ InviteUser(u) \/ DeleteUser(u)
    \/ \E U \in SUBSET Users :
          \/ ForceLogout(U)
          \/ \E status \in {"active", "disabled"} : BatchUpdateStatus(U, status)

Next == SignIn \/ Update

Spec == Init /\ [][Next]_vars

-----------------------------------------------------------------------------
(* Every table and every request in flight has its type. *)
TypeOK ==
    /\ users \in [Users -> Row]
    /\ secrets \in Secrets \cup {0} /\ proven \subseteq Secrets
    /\ credentials \subseteq Users
    /\ invitations \in [Users -> {"none", "open", "used"}]
    /\ loginSessions \in [Sessions -> LoginSession]
    /\ userTokens \in [Tokens -> UserToken]
    /\ resetTokens \in [Resets -> ResetToken]
    /\ resetUses \in [Resets -> Nat]
    /\ requests \in [Requests -> Request]
    /\ barred \subseteq Users

(* A second step logs in at most once, and never when its session was      *)
(* deleted by a new login, a password change or a forced logout while it   *)
(* was under way (markSessionUsed in completeLogin); and a reset link sets *)
(* a password once, however many confirmations race (the conditional       *)
(* update in confirmReset).                                                *)
UsedOnce ==
    /\ \A t \in Tokens :
          LET s == userTokens[t].via
          IN s # None =>
              /\ loginSessions[s].state = "used"
              /\ \A other \in Tokens \ {t} : userTokens[other].via # s
    /\ \A r \in Resets : resetUses[r] <= 1

(* The authenticator secret a user must answer with is one the user has    *)
(* shown a code for, also when setup and verification overlap.             *)
BoundSecretProven == \A u \in Users : users[u].tfaSecret \in proven \cup {0}

(* A token that was revoked or cleaned up never works again, whatever      *)
(* stale copy of its row another request is about to save.                 *)
RevokedForGood ==
    [][\A t \in Tokens : userTokens[t].state \in {"revoked", "deleted"}
                            => userTokens'[t].state # "live"]_vars

(* Steps of the handlers that set a password. *)
PasswordChanges(p) ==
    requests[p].op \in {"accept", "password", "security", "confirm"} /\ requests'[p] # requests[p]

(* A user's own edit of profile or second factor, saved late, never undoes *)
(* a change of the password made meanwhile (the column is not loaded).     *)
PasswordNotUndone ==
    [][\A u \in Users :
        (Exists(u) /\ Exists(u)' /\ users'[u].password # users[u].password)
            => \E p \in Requests : PasswordChanges(p) /\ requests[p].user = u]_vars

(* Nothing is served for an account between its being disabled or deleted  *)
(* by an administrator and its being enabled again (validateToken).        *)
DisabledNotServed ==
    [][\A p \in Requests :
        (requests[p].op = "validated" /\ requests'[p].op = "serve")
            => requests[p].user \notin barred]_vars
=============================================================================
