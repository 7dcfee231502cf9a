------------------------------ MODULE LdapLogin ------------------------------
(***************************************************************************)
(* Signing in with a name and a password.  A name that is linked to the    *)
(* directory has to pass there; any other name is tried there when the     *)
(* directory is enabled, and then against the local password.  The         *)
(* settings of the directory are rows written one after the other.         *)
(***************************************************************************)
EXTENDS LinkedAccounts, Sequences

CONSTANTS Entries,    \* Entries \subseteq Identities: whom the directory knows
          Servers,    \* addresses the administrator may enter
          BaseOf      \* the search base that is right for each

ASSUME DirectoryAssumption == Entries \subseteq Identities

VARIABLES directory,  \* the ldap.* rows of system_settings
          saving      \* the rows updateLdapConfig has still to write

ldapVars == <<directory, saving>>

(* findOne({ oidcSubject: `ldap:${username}` }) and the search filter. *)
EntryNamed(name) == {e \in Entries : NameOf[e] = name}
LinkedName(name) == \E e \in EntryNamed(name) : Linked(e) # {}

(* login, handleStandardLogin: who types the name and a password of his. *)
TypeName(l, name, who, d) ==
    LET q == [NoLogin EXCEPT !.asked = name, !.who = who, !.device = d]
    IN /\ "password" \in scenario /\ Arrives(l) /\ NameOf[who] = name
       /\ Becomes(l, [q EXCEPT !.step = "ldap",
                               !.via = IF LinkedName(name) THEN "enforced" ELSE "directory"])
       /\ UNCHANGED <<users, bound, given, ldapVars>>

(* isEnabled, authenticate: the settings are read, the directory searched, *)
(* the password bound with.  A wrong password, an unknown name and a       *)
(* server that does not answer look the same after the failover. *)
Answers(who) ==
    /\ directory.enabled /\ directory.base = BaseOf[directory.server]
    /\ who \in Entries

AskDirectory(l) ==
    LET q == logins[l]
    IN /\ q.step = "ldap"
       /\ \/ /\ Answers(q.who)
             /\ \E m \in MailsOf[q.who] : Becomes(l, [q EXCEPT !.step = "find", !.mail = m])
          \/ GoesTo(l, Refusal(l))
       /\ UNCHANGED <<users, bound, given, ldapVars>>

(* findOrCreateUser: the row that was found is saved with the directory's  *)
(* address and whatever else it held when it was read. *)
SyncMail(l) ==
    LET q == logins[l]
        refused == IF Here(q.user) THEN \E u \in Rows \ {q.user} : Here(u) /\ users[u].mail = q.mail
                                   ELSE Conflict(q)
    IN /\ q.step = "sync"
       /\ \/ /\ ~refused
             /\ users' = [users EXCEPT ![q.user] =
                    [status |-> q.status, name |-> <<NameOf[q.who], q.suffix>>,
                     mail |-> q.mail, identity |-> q.who]]
             /\ GoesTo(l, "check")
          \/ refused /\ GoesTo(l, Refusal(l)) /\ UNCHANGED users
       /\ UNCHANGED <<bound, given, ldapVars>>

(* The status as it was read. *)
CheckStatus(l) ==
    LET q == logins[l]
    IN /\ q.step = "check"
       /\ GoesTo(l, IF q.status = "disabled" THEN Refusal(l) ELSE "bind")
       /\ UNCHANGED <<users, bound, given, ldapVars>>

(* localLogin: the row of that name, whose owner alone knows its password; *)
(* a linked row has none. *)
LocalLogin(l) ==
    LET q == logins[l]
        mine == {u \in Registered : Here(u) /\ users[u].name = <<q.asked, 0>> /\ u = q.who}
    IN /\ q.step = "local"
       /\ \/ \E u \in mine :
                /\ users[u].status = "active"
                /\ Becomes(l, [q EXCEPT !.step = "bind", !.via = "password", !.user = u])
          \/ /\ \A u \in mine : users[u].status # "active"
             /\ GoesTo(l, "refused")
       /\ UNCHANGED <<users, bound, given, ldapVars>>

-----------------------------------------------------------------------------
(* updateLdapConfig, setMultipleSettings. *)
UpdateLdapConfig(server, enabled) ==
    /\ "directory" \in scenario /\ saving = <<>>
    /\ saving' = <<[key |-> "server", value |-> server],
                   [key |-> "base", value |-> BaseOf[server]],
                   [key |-> "enabled", value |-> enabled]>>
    /\ UNCHANGED <<accountVars, directory>>

SaveSetting ==
    /\ saving # <<>>
    /\ directory' = [directory EXCEPT ![Head(saving).key] = Head(saving).value]
    /\ saving' = Tail(saving)
    /\ UNCHANGED accountVars

LdapInit ==
    /\ \E s \in Servers : directory = [server |-> s, base |-> BaseOf[s], enabled |-> TRUE]
    /\ saving = <<>>

PasswordStep(l) == AskDirectory(l) \/ SyncMail(l) \/ CheckStatus(l) \/ LocalLogin(l)

LdapNext ==
    \/ \E l \in Logins :
          \/ PasswordStep(l)
          \/ \E who \in Entries \cup Registered, d \in Devices : TypeName(l, NameOf[who], who, d)
    \/ \E s \in Servers, e \in BOOLEAN : UpdateLdapConfig(s, e)
    \/ SaveSetting
=============================================================================
