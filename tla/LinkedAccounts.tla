--------------------------- MODULE LinkedAccounts ---------------------------
(***************************************************************************)
(* Accounts that a third party vouches for.  A sign-in through an OpenID   *)
(* Connect provider or the directory ends in the user row linked to that   *)
(* identity (column oidcSubject) and makes the row the first time.  The    *)
(* code looks a row up, looks for a free name and inserts, with other      *)
(* requests in between: the unique indexes on username, email and          *)
(* oidcSubject decide, and a conflict is retried with another name.        *)
(***************************************************************************)
EXTENDS Naturals

CONSTANTS Registered,  \* rows made by registration; their owners have a password
          Logins,      \* sign-ins, numbered; a sign-in names the row it inserts
          Identities,  \* values of oidcSubject
          NameOf,      \* the user name an identity asks for, a registered row has
          MailsOf,     \* the e-mail addresses a third party may report for it
          MailOf,      \* that of a registered row
          Devices,
          MaxAttempts, \* maxRetries
          None

ASSUME AccountAssumption ==
    /\ Logins \subseteq Nat /\ Registered \cap Identities = {}
    /\ Registered \cap Logins = {}
    /\ MaxAttempts \in Nat \ {0}
    /\ None \notin Registered /\ None \notin Logins /\ None \notin Identities
    /\ None \notin {"active", "disabled", "provider", "authorized", "consumed"}

VARIABLES scenario,   \* the operations a behaviour uses
          users,      \* the users table
          logins,     \* sign-ins in flight
          bound,      \* the account a device is bound to (peers.userGuid)
          given       \* how often the token of a sign-in was handed out

accountVars == <<users, logins, bound, given>>

MySQL == "mysql" \in scenario
Rows == Registered \cup Logins
NoRow == [status |-> None, name |-> None, mail |-> None, identity |-> None]

NoLogin == [step |-> "new", via |-> None, asked |-> None, who |-> None, mail |-> None,
            suffix |-> 0, next |-> 1, attempt |-> 0,
            user |-> None, status |-> None, device |-> None, issuer |-> None,
            client |-> None, code |-> 0]

Here(u) == users[u].status # None
Active(l) == logins[l].step \notin {"new", "refused", "done"}
Taken(column, value) == \E u \in Rows : Here(u) /\ users[u][column] = value

(* Sign-ins are numbered in the order they arrive. *)
Arrives(l) == logins[l].step = "new" /\ \A m \in Logins : m < l => logins[m].step # "new"
Becomes(l, q) == logins' = [logins EXCEPT ![l] = q]
GoesTo(l, step) == Becomes(l, [logins[l] EXCEPT !.step = step])

(* tryLdapAuthentication: the local password is tried next, unless the     *)
(* name is linked to the directory.                                        *)
Refusal(l) == IF logins[l].via = "directory" THEN "local" ELSE "refused"

-----------------------------------------------------------------------------
(* findOne({ oidcSubject }). *)
(* Mutant: an account of that user name will do. *)
LinkedByName(id) == {u \in Rows : Here(u) /\ users[u].name = <<NameOf[id], 0>>}
Linked(id) == {u \in Rows : Here(u) /\ users[u].identity = id}

Find(l) ==
    LET q == logins[l]
    IN /\ q.step = "find"
       /\ \/ \E u \in Linked(q.who) :
                Becomes(l, [q EXCEPT !.user = u, !.status = users[u].status,
                    !.suffix = users[u].name[2],
                    !.step = IF q.via = "provider" THEN "bind"
                             ELSE IF q.mail \notin {None, users[u].mail} THEN "sync" ELSE "check"])
          \/ /\ Linked(q.who) = {}
             /\ Becomes(l, [q EXCEPT !.step = "name", !.attempt = 1])
       /\ UNCHANGED <<users, bound, given>>

(* The while loop that appends _1, _2, ... until the name is free. *)
FreeSuffix(base, from) ==
    CHOOSE k \in from..from + 2 * (MaxAttempts + 1) :
        /\ ~Taken("name", <<base, k>>)
        /\ \A j \in from..k - 1 : Taken("name", <<base, j>>)

PickName(l) ==
    LET q == logins[l]
        base == NameOf[q.who]
        k == FreeSuffix(base, q.next)
    IN /\ q.step = "name"
       /\ Becomes(l,
            IF Taken("name", <<base, q.suffix>>)
            THEN [q EXCEPT !.step = "insert", !.suffix = k, !.next = k + 1]
            ELSE [q EXCEPT !.step = "insert"])
       /\ UNCHANGED <<users, bound, given>>

(* save(user): the unique indexes.  Only the message of SQLite is taken    *)
(* for a conflict that is worth another attempt.                           *)
Conflict(q) ==
    \/ Taken("name", <<NameOf[q.who], q.suffix>>)
    \/ Taken("identity", q.who)
    \/ q.mail # None /\ Taken("mail", q.mail)

Insert(l) ==
    LET q == logins[l]
    IN /\ q.step = "insert"
       /\ \/ /\ ~Conflict(q)
             /\ users' = [users EXCEPT ![l] =
                    [status |-> "active", name |-> <<NameOf[q.who], q.suffix>>,
                     mail |-> q.mail, identity |-> q.who]]
             /\ Becomes(l, [q EXCEPT !.user = l, !.status = "active",
                    !.step = IF q.via = "provider" THEN "bind" ELSE "check"])
          \/ /\ Conflict(q) /\ ~MySQL /\ q.attempt < MaxAttempts
             /\ Becomes(l, [q EXCEPT !.step = "name", !.attempt = @ + 1,
                                     !.suffix = q.next + 1, !.next = q.next + 1])
             /\ UNCHANGED users
          \/ /\ Conflict(q) /\ (MySQL \/ q.attempt = MaxAttempts)
             /\ GoesTo(l, Refusal(l))
             /\ UNCHANGED users
       /\ UNCHANGED <<bound, given>>

-----------------------------------------------------------------------------
(* createOrUpdateDevice binds a known device; the row of the account may   *)
(* be gone, no foreign key looks after it. *)
Bind(l) ==
    LET q == logins[l]
    IN /\ q.step = "bind"
       /\ bound' = IF q.device \in Devices THEN [bound EXCEPT ![q.device] = q.user] ELSE bound
       /\ GoesTo(l, "token")
       /\ UNCHANGED <<users, given>>

(* generateToken: its row needs the row of the account.  A provider's      *)
(* token is then stored with the authorization; the others are answered.   *)
Issue(l) ==
    LET q == logins[l]
    IN /\ q.step = "token"
       /\ \/ /\ ~Here(q.user) /\ GoesTo(l, "refused") /\ UNCHANGED given
          \/ /\ Here(q.user) /\ q.via = "provider" /\ GoesTo(l, "save") /\ UNCHANGED given
          \/ /\ Here(q.user) /\ q.via # "provider" /\ GoesTo(l, "done")
             /\ given' = [given EXCEPT ![l] = @ + 1]
       /\ UNCHANGED <<users, bound>>

(* The administrator: status of an account and its removal. *)
SetStatus(u) ==
    /\ "disable" \in scenario /\ Here(u)
    /\ users' = [users EXCEPT ![u].status = IF @ = "active" THEN "disabled" ELSE "active"]
    /\ UNCHANGED <<logins, bound, given>>

DeleteUser(u) ==
    /\ "delete" \in scenario /\ Here(u)
    /\ users' = [users EXCEPT ![u] = NoRow]
    /\ UNCHANGED <<logins, bound, given>>

AccountStep(l) == Find(l) \/ PickName(l) \/ Insert(l) \/ Bind(l) \/ Issue(l)

AccountInit ==
    /\ users = [u \in Rows |->
                  IF u \in Registered
                  THEN [status |-> "active", name |-> <<NameOf[u], 0>>,
                        mail |-> MailOf[u], identity |-> None]
                  ELSE NoRow]
    /\ logins = [l \in Logins |-> NoLogin]
    /\ bound = [d \in Devices |-> None]
    /\ given = [l \in Logins |-> 0]
=============================================================================
