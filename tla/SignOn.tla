-------------------------------- MODULE SignOn --------------------------------
(* The ways into the console that a third party vouches for, together. *)
EXTENDS OidcLogin, LdapLogin

CONSTANTS Scenarios  \* sets of operations; a behaviour uses those of one

vars == <<scenario, accountVars, oidcVars, ldapVars>>

Init ==
    /\ scenario \in Scenarios
    /\ AccountInit /\ OidcInit /\ LdapInit

Next ==
    /\ UNCHANGED scenario
    /\ \/ "provider" \in scenario /\ OidcNext /\ UNCHANGED ldapVars
       \/ LdapNext /\ UNCHANGED oidcVars
       \/ /\ \/ \E l \in Logins : AccountStep(l)
             \/ \E u \in Rows : SetStatus(u)
             \/ \E u \in Logins : DeleteUser(u)
          /\ UNCHANGED <<oidcVars, ldapVars>>

(* Requests are served to their end, time passes, the cleanup runs daily. *)
Fairness ==
    /\ \A l \in Logins :
          /\ WF_vars(UNCHANGED <<scenario, ldapVars>> /\ CallbackStep(l))
          /\ WF_vars(UNCHANGED <<scenario, oidcVars, ldapVars>> /\ AccountStep(l))
    /\ \A p \in Polls : WF_vars(UNCHANGED <<scenario, ldapVars>> /\ PollStep(p))
    /\ \A a \in Asks : WF_vars(UNCHANGED <<scenario, ldapVars>> /\ Ages(a))
    /\ WF_vars(UNCHANGED <<scenario, ldapVars>> /\ Cleanup)

Spec == Init /\ [][Next]_vars /\ Fairness

-----------------------------------------------------------------------------
(* Whoever proves to be an identity ends up in the account linked to it,   *)
(* of which there is one, and whoever knows a local password in that       *)
(* account, also when first logins of several identities that ask for the  *)
(* same name race each other, registration and the administrator           *)
(* (findOrCreateUser of OidcService and LdapService, localLogin).          *)
OwnAccount ==
    /\ \A l \in Logins :
          LET q == logins[l]
          IN q.user # None /\ Here(q.user) =>
                IF q.who \in Registered THEN q.user = q.who
                ELSE users[q.user].identity = q.who
    /\ \A u, v \in Rows :
          Here(u) /\ Here(v) /\ users[u].identity = users[v].identity =>
              u = v \/ users[u].identity = None

(* Polls get a token twice only if the user agreed twice to the same       *)
(* authorization: polls that race each other, the cleanup and a callback   *)
(* do not share one consent (queryAuth: "prevent concurrent repeated token *)
(* retrieval").  One token goes both to a page, with the callback, and to  *)
(* a poll only where the request named a page as well as a device: nothing *)
(* refuses that.                                                           *)
DeliveredOnce ==
    \A l \in Logins :
        LET a == logins[l].asked
        IN /\ given[l] > 1 => Grants(a) > 1
           /\ given[l] > 0 /\ l \in shown => asks[a].web /\ asks[a].device \in Devices

(* What is cached for an issuer is what a provider there has entered for   *)
(* it, but for an issuer an administrator is about to clear, and what two  *)
(* kinds of late writers have left: a discovery that answers after the     *)
(* settings it has read were changed or are being removed, and a save over *)
(* what another administrator has saved (getOidcConfig, OidcAdminService). *)
CacheIsCurrent ==
    \A i \in Issuers :
        \/ ~Cached(i) \/ i \in lapsed \/ Present(i, cache[i])
        \/ \E e \in Editors : edits[e].step = "clear" /\ i \in edits[e].clear

(* An authorization, with the token it may hold, is deleted in the end,    *)
(* whichever callback, poll or cleanup wrote it last, and when nobody      *)
(* fetched it or its user was deleted (OidcAuthStateCleanupService); in    *)
(* the scenarios in which time passes.                                     *)
AuthorizationsEnd ==
    \A a \in Asks :
        "time" \in scenario /\ rows[a].status # None ~> rows[a].status = None
=============================================================================
