----------------------------- MODULE SignOnProofs -----------------------------
(***************************************************************************)
(* What is proved of SignOn: whoever proves to be an identity ends up in   *)
(* the account linked to it; a token is handed out once for each consent;  *)
(* what is cached of a provider is what is entered for it.                 *)
(***************************************************************************)
EXTENDS SignOn, FiniteSetTheorems, TLAPS

USE AccountAssumption, OidcAssumption, DirectoryAssumption, EnteredAssumption

(***************************************************************************)
(* The accounts.                                                           *)
(***************************************************************************)

LoginFields == {"step", "via", "asked", "who", "mail", "suffix", "next", "attempt",
                "user", "status", "device", "issuer", "client", "code"}

\* The tables have a row for everything they are asked about.
Shape ==
    /\ DOMAIN logins = Logins /\ \A l \in Logins : DOMAIN logins[l] = LoginFields
    /\ DOMAIN users = Rows
    /\ \A u \in Rows : DOMAIN users[u] = {"status", "name", "mail", "identity"}

\* A third party answers, or has answered, for who signs in.
Vouched(q) == q.via = "provider" \/ q.step \in {"find", "name", "insert", "sync"}

\* The account of a sign-in is that of a password's owner, or was inserted by a
\* sign-in of the same identity.
UserOf(q) ==
    \/ q.user \in Registered /\ q.user = q.who
    \/ /\ q.user \in Logins /\ q.who \in Identities
       /\ logins[q.user].who = q.who /\ logins[q.user].step # "new"

LoginOK(q) ==
    /\ Vouched(q) => q.who \in Identities
    /\ q.user # None => UserOf(q)
    /\ q.step = "sync" => q.user # None

\* A row carries the identity of the sign-in that inserted it, whoever saved it
\* since; no two rows carry one identity.
RowsOK ==
    /\ \A u \in Registered : users[u].identity = None
    /\ \A u \in Logins : Here(u) => /\ users[u].identity = logins[u].who
                                    /\ logins[u].step # "new"
                                    /\ logins[u].who \in Identities
    /\ \A u, v \in Logins : Here(u) /\ Here(v) /\ users[u].identity = users[v].identity => u = v

OwnIInv ==
    /\ Shape /\ RowsOK
    /\ \A l \in Logins : LoginOK(logins[l])
    /\ \A c \in codes : c.who \in Identities

\* A sign-in that has arrived stays that of the same person.
Steady == \A m \in Logins : logins[m].step # "new" => /\ logins'[m].step # "new"
                                                      /\ logins'[m].who = logins[m].who

\* A sign-in that goes on, and the others, which stay as they are.
LEMMA Becoming ==
    ASSUME Shape, NEW l \in Logins, NEW q, DOMAIN q = LoginFields, Becomes(l, q)
    PROVE  /\ DOMAIN logins' = Logins /\ \A m \in Logins : DOMAIN logins'[m] = LoginFields
           /\ logins'[l] = q
           /\ \A m \in Logins : m # l => logins'[m] = logins[m]
  BY DEF Shape, Becomes

\* While a sign-in goes on as the same person, what is known of all of them stays.
LEMMA LoginsKeep ==
    ASSUME OwnIInv, NEW l \in Logins, NEW q, DOMAIN q = LoginFields, Becomes(l, q),
           q.step # "new", logins[l].step # "new" => q.who = logins[l].who,
           Vouched(q) => q.who \in Identities,
           q.user # None => UserOf(q) \/ (q.user = l /\ q.who \in Identities),
           q.step = "sync" => q.user # None
    PROVE  Steady /\ \A m \in Logins : LoginOK(logins[m])'
  <1>1. /\ logins'[l] = q /\ \A m \in Logins : m # l => logins'[m] = logins[m]
    BY Becoming DEF OwnIInv
  <1>2. Steady
    BY <1>1 DEF Steady
  <1>3. ASSUME NEW m \in Logins PROVE LoginOK(logins[m])'
    <2>1. CASE m = l
      <3>1. q.user # None => /\ q.user \in Registered /\ q.user = q.who
                             \/ /\ q.user \in Logins /\ q.who \in Identities
                                /\ logins'[q.user].who = q.who /\ logins'[q.user].step # "new"
        BY <1>1, <1>2 DEF UserOf, Steady
      <3> QED
        BY <1>1, <2>1, <3>1 DEF LoginOK, Vouched, UserOf
    <2>2. CASE m # l
      <3>1. LoginOK(logins[m]) /\ logins'[m] = logins[m]
        BY <1>1, <2>2 DEF OwnIInv
      <3> QED
        BY <1>2, <3>1 DEF LoginOK, Vouched, UserOf, Steady
    <2> QED
      BY <2>1, <2>2
  <1> QED
    BY <1>2, <1>3

\* Rows nobody touched stay true of the sign-ins that inserted them.
LEMMA RowsKeep ==
    ASSUME RowsOK, UNCHANGED users, Steady
    PROVE  RowsOK'
  BY DEF RowsOK, Steady, Here

\* A sign-in that goes on without touching the table.
LEMMA OwnMoves ==
    ASSUME OwnIInv, NEW l \in Logins, NEW q, DOMAIN q = LoginFields, Becomes(l, q),
           q.step # "new", logins[l].step # "new" => q.who = logins[l].who,
           Vouched(q) => q.who \in Identities,
           q.user # None => UserOf(q), q.step = "sync" => q.user # None,
           UNCHANGED users, \A c \in codes' : c.who \in Identities
    PROVE  OwnIInv'
  <1>1. Steady /\ \A m \in Logins : LoginOK(logins[m])'
    BY LoginsKeep
  <1>2. Shape'
    BY Becoming DEF OwnIInv, Shape
  <1>3. RowsOK'
    BY <1>1, RowsKeep DEF OwnIInv
  <1> QED
    BY <1>1, <1>2, <1>3 DEF OwnIInv

\* What is known of a sign-in and its row before it goes on.
LEMMA OwnFacts ==
    ASSUME OwnIInv, NEW l \in Logins
    PROVE  /\ DOMAIN logins[l] = LoginFields /\ LoginOK(logins[l])
           /\ logins[l].user # None => UserOf(logins[l])
           /\ \A s : DOMAIN [logins[l] EXCEPT !.step = s] = LoginFields
  <1>1. DOMAIN logins[l] = LoginFields /\ LoginOK(logins[l])
    BY DEF OwnIInv, Shape
  <1>2. \A s : DOMAIN [logins[l] EXCEPT !.step = s] = LoginFields
    BY <1>1
  <1> QED
    BY <1>1, <1>2 DEF LoginOK

\* A sign-in that only takes its next step, which is not one of those a third
\* party has to vouch for.
LEMMA OwnGoes ==
    ASSUME OwnIInv, NEW l \in Logins, NEW s, GoesTo(l, s), logins[l].step # "new",
           s \notin {"new", "find", "name", "insert", "sync"},
           UNCHANGED users, \A c \in codes' : c.who \in Identities
    PROVE  OwnIInv'
  <1> DEFINE q == [logins[l] EXCEPT !.step = s]
  <1>1. /\ DOMAIN q = LoginFields /\ q.step = s /\ q.who = logins[l].who /\ q.via = logins[l].via
        /\ q.user = logins[l].user
    BY OwnFacts DEF LoginFields
  <1>2. Becomes(l, q)
    BY DEF GoesTo
  <1> HIDE DEF q
  <1>3. /\ Vouched(q) => q.who \in Identities
        /\ q.user # None => UserOf(q)
    BY <1>1, OwnFacts DEF LoginOK, Vouched, UserOf
  <1> QED
    BY <1>1, <1>2, <1>3, OwnMoves

\* A row that is found by its identity was inserted for that identity.
LEMMA OwnFind ==
    ASSUME OwnIInv, NEW l \in Logins, Find(l), UNCHANGED codes
    PROVE  OwnIInv'
  <1> DEFINE q == logins[l]
  <1>1. /\ q.step = "find" /\ q.who \in Identities /\ UNCHANGED users
        /\ DOMAIN q = LoginFields /\ (q.user # None => UserOf(q))
        /\ \A c \in codes' : c.who \in Identities
    BY OwnFacts DEF Find, LoginOK, Vouched, OwnIInv
  <1>2. CASE \E u \in Linked(q.who) :
                Becomes(l, [q EXCEPT !.user = u, !.status = users[u].status,
                    !.suffix = users[u].name[2],
                    !.step = IF q.via = "provider" THEN "bind"
                             ELSE IF q.mail \notin {None, users[u].mail} THEN "sync" ELSE "check"])
    <2>1. PICK u \in Linked(q.who), s \in {"bind", "sync", "check"} :
              Becomes(l, [q EXCEPT !.user = u, !.status = users[u].status,
                                   !.suffix = users[u].name[2], !.step = s])
      BY <1>2
    <2> DEFINE n == [q EXCEPT !.user = u, !.status = users[u].status,
                              !.suffix = users[u].name[2], !.step = s]
    <2>2. /\ DOMAIN n = LoginFields /\ n.step = s /\ n.who = q.who /\ n.user = u /\ Becomes(l, n)
      BY <1>1, <2>1 DEF LoginFields
    <2>3. u \in Logins /\ logins[u].who = q.who /\ logins[u].step # "new"
      BY <1>1, <2>1 DEF OwnIInv, RowsOK, Linked, Rows
    <2> HIDE DEF n
    <2>4. UserOf(n) /\ n.user # None /\ n.step # "new"
      BY <1>1, <2>2, <2>3 DEF UserOf
    <2> QED
      BY <1>1, <2>2, <2>4, OwnMoves
  <1>3. CASE Becomes(l, [q EXCEPT !.step = "name", !.attempt = 1])
    <2> DEFINE n == [q EXCEPT !.step = "name", !.attempt = 1]
    <2>1. DOMAIN n = LoginFields /\ n.step = "name" /\ n.who = q.who /\ n.user = q.user
      BY <1>1 DEF LoginFields
    <2> HIDE DEF n
    <2>2. n.user # None => UserOf(n)
      BY <1>1, <2>1 DEF UserOf
    <2> QED
      BY <1>1, <1>3, <2>1, <2>2, OwnMoves DEF n
  <1> QED
    BY <1>2, <1>3 DEF Find

\* Looking for a free name changes the name only.
LEMMA OwnPickName ==
    ASSUME OwnIInv, NEW l \in Logins, PickName(l), UNCHANGED codes
    PROVE  OwnIInv'
  <1> DEFINE q == logins[l]
  <1>1. /\ q.step = "name" /\ q.who \in Identities /\ UNCHANGED users
        /\ DOMAIN q = LoginFields /\ (q.user # None => UserOf(q))
        /\ \A c \in codes' : c.who \in Identities
    BY OwnFacts DEF PickName, LoginOK, Vouched, OwnIInv
  <1>2. \E x, y : \/ Becomes(l, [q EXCEPT !.step = "insert", !.suffix = x, !.next = y])
                  \/ Becomes(l, [q EXCEPT !.step = "insert"])
    BY DEF PickName
  <1>3. PICK x, y : \/ Becomes(l, [q EXCEPT !.step = "insert", !.suffix = x, !.next = y])
                    \/ Becomes(l, [q EXCEPT !.step = "insert"])
    BY <1>2
  <1>4. PICK n : /\ \/ n = [q EXCEPT !.step = "insert", !.suffix = x, !.next = y]
                    \/ n = [q EXCEPT !.step = "insert"]
                 /\ Becomes(l, n)
    BY <1>3
  <1>5. DOMAIN n = LoginFields /\ n.step = "insert" /\ n.who = q.who /\ n.user = q.user
    BY <1>1, <1>4 DEF LoginFields
  <1>6. n.user # None => UserOf(n)
    BY <1>1, <1>5 DEF UserOf
  <1> QED
    BY <1>1, <1>4, <1>5, <1>6, OwnMoves

\* Where no row has the identity yet, the inserted one is the only one.
LEMMA OwnInsert ==
    ASSUME OwnIInv, NEW l \in Logins, Insert(l), UNCHANGED codes
    PROVE  OwnIInv'
  <1> DEFINE q == logins[l]
  <1>1. /\ q.step = "insert" /\ q.who \in Identities
        /\ DOMAIN q = LoginFields /\ (q.user # None => UserOf(q))
        /\ \A c \in codes' : c.who \in Identities
    BY OwnFacts DEF Insert, LoginOK, Vouched, OwnIInv
  <1>2. CASE /\ ~Conflict(q)
             /\ users' = [users EXCEPT ![l] =
                    [status |-> "active", name |-> <<NameOf[q.who], q.suffix>>,
                     mail |-> q.mail, identity |-> q.who]]
             /\ Becomes(l, [q EXCEPT !.user = l, !.status = "active",
                    !.step = IF q.via = "provider" THEN "bind" ELSE "check"])
    <2>1. PICK s \in {"bind", "check"} :
              Becomes(l, [q EXCEPT !.user = l, !.status = "active", !.step = s])
      BY <1>2
    <2> DEFINE n == [q EXCEPT !.user = l, !.status = "active", !.step = s]
    <2>2. /\ DOMAIN n = LoginFields /\ n.step = s /\ n.who = q.who /\ n.user = l /\ Becomes(l, n)
      BY <1>1, <2>1 DEF LoginFields
    <2>3. \A u \in Rows : ~(Here(u) /\ users[u].identity = q.who)
      BY <1>2 DEF Conflict, Taken
    <2>4. /\ \A u \in Rows : u # l => users'[u] = users[u]
          /\ users'[l].identity = q.who /\ DOMAIN users' = Rows
          /\ DOMAIN users'[l] = {"status", "name", "mail", "identity"}
      BY <1>2 DEF OwnIInv, Shape, Rows
    <2> HIDE DEF n
    <2>5. Steady /\ \A m \in Logins : LoginOK(logins[m])'
      BY <1>1, <2>2, LoginsKeep
    <2>6. /\ logins'[l] = n /\ \A m \in Logins : m # l => logins'[m] = logins[m]
      BY <2>2, Becoming DEF OwnIInv
    <2>7. Shape'
      BY <2>2, <2>4, Becoming DEF OwnIInv, Shape
    <2>8. RowsOK'
      <3>1. \A u \in Registered : users'[u].identity = None
        BY <2>4 DEF OwnIInv, RowsOK, Rows
      <3>2. ASSUME NEW u \in Logins, Here(u)'
            PROVE  /\ users'[u].identity = logins'[u].who
                   /\ logins'[u].step # "new" /\ logins'[u].who \in Identities
                   /\ u # l => Here(u) /\ users[u].identity # q.who
        <4>1. CASE u = l
          BY <1>1, <2>2, <2>4, <2>6, <4>1
        <4>2. CASE u # l
          BY <2>3, <2>4, <2>6, <3>2, <4>2 DEF OwnIInv, RowsOK, Rows, Here
        <4> QED
          BY <4>1, <4>2
      <3>3. ASSUME NEW u \in Logins, NEW v \in Logins, Here(u)', Here(v)',
                   users'[u].identity = users'[v].identity
            PROVE  u = v
        <4>1. u # l => Here(u) /\ users[u].identity # q.who /\ users'[u] = users[u]
          BY <2>4, <3>2, <3>3 DEF Rows
        <4>2. v # l => Here(v) /\ users[v].identity # q.who /\ users'[v] = users[v]
          BY <2>4, <3>2, <3>3 DEF Rows
        <4> QED
          BY <2>4, <3>3, <4>1, <4>2 DEF OwnIInv, RowsOK
      <3> QED
        BY <3>1, <3>2, <3>3 DEF RowsOK
    <2> QED
      BY <1>1, <2>5, <2>7, <2>8 DEF OwnIInv
  <1>3. CASE /\ Becomes(l, [q EXCEPT !.step = "name", !.attempt = @ + 1,
                                     !.suffix = q.next + 1, !.next = q.next + 1])
             /\ UNCHANGED users
    <2> DEFINE n == [q EXCEPT !.step = "name", !.attempt = @ + 1,
                              !.suffix = q.next + 1, !.next = q.next + 1]
    <2>1. DOMAIN n = LoginFields /\ n.step = "name" /\ n.who = q.who /\ n.user = q.user
      BY <1>1 DEF LoginFields
    <2>2. Becomes(l, n)
      BY <1>3
    <2> HIDE DEF n
    <2>3. n.user # None => UserOf(n)
      BY <1>1, <2>1 DEF UserOf
    <2> QED
      BY <1>1, <1>3, <2>1, <2>2, <2>3, OwnMoves
  <1>4. CASE GoesTo(l, Refusal(l)) /\ UNCHANGED users
    <2>1. Refusal(l) \in {"local", "refused"}
      BY DEF Refusal
    <2> QED
      BY <1>1, <1>4, <2>1, OwnGoes
  <1> QED
    BY <1>2, <1>3, <1>4 DEF Insert

\* The remaining steps of a sign-in that any third party vouches for.
LEMMA OwnAccountStep ==
    ASSUME OwnIInv, NEW l \in Logins, AccountStep(l), UNCHANGED codes
    PROVE  OwnIInv'
  <1>0. \A c \in codes' : c.who \in Identities
    BY DEF OwnIInv
  <1>1. CASE Bind(l)
    BY <1>0, <1>1, OwnGoes DEF Bind
  <1>2. CASE Issue(l)
    <2>1. PICK s \in {"refused", "save", "done"} : GoesTo(l, s)
      BY <1>2 DEF Issue
    <2> QED
      BY <1>0, <1>2, <2>1, OwnGoes DEF Issue
  <1> QED
    BY <1>1, <1>2, OwnFind, OwnPickName, OwnInsert DEF AccountStep

\* A sign-in that arrives: it has no account yet.
LEMMA OwnArrives ==
    ASSUME OwnIInv, NEW l \in Logins, Arrives(l), NEW q, DOMAIN q = LoginFields, Becomes(l, q),
           q.step \notin {"new", "sync"}, q.user = None,
           Vouched(q) => q.who \in Identities,
           UNCHANGED users, UNCHANGED codes
    PROVE  OwnIInv'
  <1>1. logins[l].step = "new" /\ \A c \in codes' : c.who \in Identities
    BY DEF Arrives, OwnIInv
  <1> QED
    BY <1>1, OwnMoves

LEMMA OwnTypeName ==
    ASSUME OwnIInv, NEW l \in Logins, NEW name, NEW who, NEW d, TypeName(l, name, who, d),
           UNCHANGED codes
    PROVE  OwnIInv'
  <1>1. \E v \in {"enforced", "directory"} :
            Becomes(l, [[NoLogin EXCEPT !.asked = name, !.who = who, !.device = d]
                            EXCEPT !.step = "ldap", !.via = v])
    BY DEF TypeName
  <1>2. PICK v \in {"enforced", "directory"} :
            Becomes(l, [[NoLogin EXCEPT !.asked = name, !.who = who, !.device = d]
                            EXCEPT !.step = "ldap", !.via = v])
    BY <1>1
  <1> DEFINE q == [[NoLogin EXCEPT !.asked = name, !.who = who, !.device = d]
                            EXCEPT !.step = "ldap", !.via = v]
  <1>3. DOMAIN q = LoginFields /\ q.step = "ldap" /\ q.user = None /\ q.via = v
    BY DEF NoLogin, LoginFields
  <1>4. Becomes(l, q)
    BY <1>2
  <1> HIDE DEF q
  <1>5. ~Vouched(q)
    BY <1>3 DEF Vouched
  <1> QED
    BY <1>3, <1>4, <1>5, OwnArrives DEF TypeName

LEMMA OwnAskDirectory ==
    ASSUME OwnIInv, NEW l \in Logins, AskDirectory(l), UNCHANGED codes
    PROVE  OwnIInv'
  <1> DEFINE q == logins[l]
  <1>1. /\ q.step = "ldap" /\ UNCHANGED users /\ DOMAIN q = LoginFields
        /\ (q.user # None => UserOf(q)) /\ \A c \in codes' : c.who \in Identities
    BY OwnFacts DEF AskDirectory, OwnIInv
  <1>2. CASE /\ Answers(q.who)
             /\ \E m \in MailsOf[q.who] : Becomes(l, [q EXCEPT !.step = "find", !.mail = m])
    <2>1. PICK m : Becomes(l, [q EXCEPT !.step = "find", !.mail = m])
      BY <1>2
    <2> DEFINE n == [q EXCEPT !.step = "find", !.mail = m]
    <2>2. /\ DOMAIN n = LoginFields /\ n.step = "find" /\ n.who = q.who /\ n.user = q.user
          /\ Becomes(l, n)
      BY <1>1, <2>1 DEF LoginFields
    <2> HIDE DEF n
    <2>3. n.user # None => UserOf(n)
      BY <1>1, <2>2 DEF UserOf
    <2>4. n.who \in Identities
      BY <1>2, <2>2 DEF Answers
    <2> QED
      BY <1>1, <2>2, <2>3, <2>4, OwnMoves
  <1>3. CASE GoesTo(l, Refusal(l))
    <2>1. Refusal(l) \in {"local", "refused"}
      BY DEF Refusal
    <2> QED
      BY <1>1, <1>3, <2>1, OwnGoes
  <1> QED
    BY <1>2, <1>3 DEF AskDirectory

\* The row saved again carries the identity it was found with, also when it was
\* deleted since, for then no other row has it.
LEMMA OwnSyncMail ==
    ASSUME OwnIInv, NEW l \in Logins, SyncMail(l), UNCHANGED codes
    PROVE  OwnIInv'
  <1> DEFINE q == logins[l]
             w == q.user
             row == [status |-> q.status, name |-> <<NameOf[q.who], q.suffix>>,
                     mail |-> q.mail, identity |-> q.who]
  <1>1. /\ q.step = "sync" /\ DOMAIN q = LoginFields /\ \A c \in codes' : c.who \in Identities
        /\ q.who \in Identities
        /\ w \in Logins /\ logins[w].who = q.who /\ logins[w].step # "new"
    BY OwnFacts DEF SyncMail, OwnIInv, LoginOK, Vouched, UserOf
  <1>2. CASE users' = [users EXCEPT ![w] = row] /\ GoesTo(l, "check")
             /\ (Here(w) \/ ~Conflict(q))
    <2> DEFINE n == [q EXCEPT !.step = "check"]
    <2>1. /\ DOMAIN n = LoginFields /\ n.step = "check" /\ n.who = q.who /\ n.user = q.user
          /\ n.via = q.via /\ Becomes(l, n)
      BY <1>1, <1>2 DEF LoginFields, GoesTo
    <2> HIDE DEF n
    <2>2. (Vouched(n) => n.who \in Identities) /\ (n.user # None => UserOf(n))
      BY <1>1, <2>1 DEF UserOf
    <2>3. Steady /\ \A m \in Logins : LoginOK(logins[m])'
      BY <1>1, <2>1, <2>2, LoginsKeep
    <2>4. /\ logins'[w].who = q.who /\ logins'[w].step # "new"
      BY <1>1, <2>3 DEF Steady
    <2>5. /\ \A u \in Rows : u # w => users'[u] = users[u]
          /\ users'[w].identity = q.who /\ DOMAIN users' = Rows
          /\ DOMAIN users'[w] = {"status", "name", "mail", "identity"}
      BY <1>1, <1>2 DEF OwnIInv, Shape, Rows
    <2>6. \A u \in Logins : u # w /\ Here(u) => users[u].identity # q.who
      <3>1. CASE Here(w)
        BY <1>1, <3>1 DEF OwnIInv, RowsOK
      <3>2. CASE ~Conflict(q)
        BY <3>2 DEF Conflict, Taken, Rows
      <3> QED
        BY <1>2, <3>1, <3>2
    <2>7. Shape'
      BY <2>1, <2>5, Becoming DEF OwnIInv, Shape
    <2>8. RowsOK'
      <3>1. \A u \in Registered : users'[u].identity = None
        BY <1>1, <2>5 DEF OwnIInv, RowsOK, Rows
      <3>2. ASSUME NEW u \in Logins, Here(u)'
            PROVE  /\ users'[u].identity = logins'[u].who
                   /\ logins'[u].step # "new" /\ logins'[u].who \in Identities
                   /\ u # w => Here(u) /\ users'[u] = users[u]
        <4>1. CASE u = w
          BY <1>1, <2>4, <2>5, <4>1
        <4>2. CASE u # w
          BY <2>3, <2>5, <3>2, <4>2 DEF OwnIInv, RowsOK, Rows, Here, Steady
        <4> QED
          BY <4>1, <4>2
      <3>3. ASSUME NEW u \in Logins, NEW v \in Logins, Here(u)', Here(v)',
                   users'[u].identity = users'[v].identity
            PROVE  u = v
        <4>1. u # w => Here(u) /\ users[u].identity # q.who /\ users'[u] = users[u]
          BY <2>6, <3>2, <3>3
        <4>2. v # w => Here(v) /\ users[v].identity # q.who /\ users'[v] = users[v]
          BY <2>6, <3>2, <3>3
        <4> QED
          BY <2>5, <3>3, <4>1, <4>2 DEF OwnIInv, RowsOK
      <3> QED
        BY <3>1, <3>2, <3>3 DEF RowsOK
    <2> QED
      BY <1>1, <2>3, <2>7, <2>8 DEF OwnIInv
  <1>3. CASE GoesTo(l, Refusal(l)) /\ UNCHANGED users
    <2>1. Refusal(l) \in {"local", "refused"}
      BY DEF Refusal
    <2> QED
      BY <1>1, <1>3, <2>1, OwnGoes
  <1> QED
    BY <1>1, <1>2, <1>3 DEF SyncMail

LEMMA OwnLocalLogin ==
    ASSUME OwnIInv, NEW l \in Logins, LocalLogin(l), UNCHANGED codes
    PROVE  OwnIInv'
  <1> DEFINE q == logins[l]
  <1>1. /\ q.step = "local" /\ UNCHANGED users /\ DOMAIN q = LoginFields
        /\ \A c \in codes' : c.who \in Identities
    BY OwnFacts DEF LocalLogin, OwnIInv
  <1>2. CASE \E u \in Registered : u = q.who
                /\ Becomes(l, [q EXCEPT !.step = "bind", !.via = "password", !.user = u])
    <2>1. PICK u \in Registered : u = q.who
                /\ Becomes(l, [q EXCEPT !.step = "bind", !.via = "password", !.user = u])
      BY <1>2
    <2> DEFINE n == [q EXCEPT !.step = "bind", !.via = "password", !.user = u]
    <2>2. /\ DOMAIN n = LoginFields /\ n.step = "bind" /\ n.who = q.who /\ n.user = u
          /\ n.via = "password" /\ Becomes(l, n)
      BY <1>1, <2>1 DEF LoginFields
    <2> HIDE DEF n
    <2>3. ~Vouched(n) /\ UserOf(n)
      BY <2>1, <2>2 DEF Vouched, UserOf
    <2> QED
      BY <1>1, <2>2, <2>3, OwnMoves
  <1>3. CASE GoesTo(l, "refused")
    BY <1>1, <1>3, OwnGoes
  <1> QED
    BY <1>2, <1>3 DEF LocalLogin

LEMMA OwnLdap ==
    ASSUME OwnIInv, LdapNext, UNCHANGED codes
    PROVE  OwnIInv'
  <1>1. ASSUME NEW l \in Logins, CheckStatus(l) PROVE OwnIInv'
    <2>1. PICK s \in {"local", "refused", "bind"} : GoesTo(l, s)
      BY <1>1 DEF CheckStatus, Refusal
    <2> QED
      BY <1>1, <2>1, OwnGoes DEF CheckStatus, OwnIInv
  <1>2. ASSUME UNCHANGED <<users, logins>> PROVE OwnIInv'
    BY <1>2 DEF OwnIInv, Shape, RowsOK, LoginOK, Vouched, UserOf, Here
  <1>3. CASE \E s \in Servers, e \in BOOLEAN : UpdateLdapConfig(s, e)
    BY <1>2, <1>3 DEF UpdateLdapConfig, accountVars
  <1>4. CASE SaveSetting
    BY <1>2, <1>4 DEF SaveSetting, accountVars
  <1>5. CASE \E l \in Logins : PasswordStep(l)
    BY <1>1, <1>5, OwnAskDirectory, OwnSyncMail, OwnLocalLogin DEF PasswordStep
  <1>6. CASE \E l \in Logins : \E who \in Entries \cup Registered, d \in Devices :
                TypeName(l, NameOf[who], who, d)
    BY <1>6, OwnTypeName
  <1> QED
    BY <1>3, <1>4, <1>5, <1>6 DEF LdapNext

LEMMA OwnCallback ==
    ASSUME OwnIInv, NEW l \in Logins, NEW c \in codes, Callback(l, c)
    PROVE  OwnIInv'
  <1> DEFINE q == [NoLogin EXCEPT !.via = "provider", !.asked = c.ask, !.who = c.who,
                                  !.device = asks[c.ask].device]
  <1>1. DOMAIN q = LoginFields /\ q.user = None /\ q.who = c.who
    BY DEF NoLogin, LoginFields
  <1>2. c.who \in Identities /\ UNCHANGED <<users, codes>> /\ Arrives(l)
    BY DEF OwnIInv, Callback, oidcVars
  <1>3. \E s \in {"expire", "refused", "config"} : \E x, i, y :
            \/ Becomes(l, [q EXCEPT !.step = s])
            \/ Becomes(l, [q EXCEPT !.step = s, !.code = x, !.issuer = i, !.client = y])
    BY DEF Callback
  <1> HIDE DEF q
  <1>0. PICK s \in {"expire", "refused", "config"} : \E x, i, y :
            \/ Becomes(l, [q EXCEPT !.step = s])
            \/ Becomes(l, [q EXCEPT !.step = s, !.code = x, !.issuer = i, !.client = y])
    BY <1>3
  <1>4. PICK x, i, y :
            \/ Becomes(l, [q EXCEPT !.step = s])
            \/ Becomes(l, [q EXCEPT !.step = s, !.code = x, !.issuer = i, !.client = y])
    BY <1>0
  <1>5. PICK n : /\ \/ n = [q EXCEPT !.step = s]
                    \/ n = [q EXCEPT !.step = s, !.code = x, !.issuer = i, !.client = y]
                 /\ Becomes(l, n)
    BY <1>4
  <1>6. DOMAIN n = LoginFields /\ n.step = s /\ n.user = None /\ n.who = c.who
    BY <1>1, <1>5 DEF LoginFields
  <1> QED
    BY <1>2, <1>5, <1>6, OwnArrives

\* Whoever a code is for is known to the provider.
LEMMA OwnExchange ==
    ASSUME OwnIInv, NEW l \in Logins, Exchange(l)
    PROVE  OwnIInv'
  <1> DEFINE q == logins[l]
             code == [ask |-> q.asked, nr |-> q.code, who |-> q.who, used |-> FALSE]
  <1>1. /\ q.step = "exchange" /\ UNCHANGED users /\ DOMAIN q = LoginFields
        /\ (q.user # None => UserOf(q))
    BY OwnFacts DEF Exchange
  <1>2. \A c \in codes' : c.who \in Identities
    <2>1. CASE code \in codes /\ codes' = (codes \ {code}) \cup {[code EXCEPT !.used = TRUE]}
      <3>1. code.who \in Identities /\ [code EXCEPT !.used = TRUE].who = code.who
        BY <2>1 DEF OwnIInv
      <3> HIDE DEF code
      <3> QED
        BY <2>1, <3>1 DEF OwnIInv
    <2>2. CASE codes' = codes
      BY <2>2 DEF OwnIInv
    <2> QED
      BY <2>1, <2>2 DEF Exchange
  <1>3. CASE /\ code \in codes
             /\ \E m \in MailsOf[q.who] : Becomes(l, [q EXCEPT !.step = "find", !.mail = m])
    <2>1. PICK m : Becomes(l, [q EXCEPT !.step = "find", !.mail = m])
      BY <1>3
    <2> DEFINE n == [q EXCEPT !.step = "find", !.mail = m]
    <2>2. /\ DOMAIN n = LoginFields /\ n.step = "find" /\ n.who = q.who /\ n.user = q.user
          /\ Becomes(l, n)
      BY <1>1, <2>1 DEF LoginFields
    <2> HIDE DEF n
    <2>3. n.user # None => UserOf(n)
      BY <1>1, <2>2 DEF UserOf
    <2>4. code.who \in Identities /\ code.who = q.who
      BY <1>3 DEF OwnIInv
    <2> QED
      BY <1>1, <1>2, <2>2, <2>3, <2>4, OwnMoves
  <1>4. CASE GoesTo(l, "refused")
    BY <1>1, <1>2, <1>4, OwnGoes
  <1> QED
    BY <1>3, <1>4 DEF Exchange

\* What OidcAdminService does.
Administered ==
    \/ \E e \in Editors :
          \/ EditStep(e)
          \/ \E p \in Providers :
                \/ RemoveProvider(e, p) \/ ToggleProvider(e, p)
                \/ \E i \in Issuers, c \in Clients :
                      CreateProvider(e, p, i, c) \/ UpdateProvider(e, p, i, c)
    \/ \E i \in Issuers : DropCached(i)

LEMMA AdministersOnly ==
    ASSUME Administered
    PROVE  UNCHANGED <<accountVars, asks, stateVars>>
  <1>1. ASSUME NEW e \in Editors, EditStep(e) PROVE UNCHANGED <<accountVars, asks, stateVars>>
    BY <1>1 DEF EditStep, SaveProvider, ClearCached, DeleteProvider
  <1>2. ASSUME NEW e \in Editors, NEW p \in Providers, RemoveProvider(e, p) \/ ToggleProvider(e, p)
        PROVE  UNCHANGED <<accountVars, asks, stateVars>>
    BY <1>2 DEF RemoveProvider, ToggleProvider, WillSave
  <1>3. ASSUME NEW e \in Editors, NEW p \in Providers, NEW i \in Issuers, NEW c \in Clients,
               CreateProvider(e, p, i, c) \/ UpdateProvider(e, p, i, c)
        PROVE  UNCHANGED <<accountVars, asks, stateVars>>
    BY <1>3 DEF CreateProvider, UpdateProvider, WillSave
  <1>4. ASSUME NEW i \in Issuers, DropCached(i) PROVE UNCHANGED <<accountVars, asks, stateVars>>
    BY <1>4 DEF DropCached
  <1> QED
    BY <1>1, <1>2, <1>3, <1>4 DEF Administered

LEMMA OwnOidc ==
    ASSUME OwnIInv, OidcNext
    PROVE  OwnIInv'
  <1>1. ASSUME UNCHANGED <<users, logins>>, \A c \in codes' : c.who \in Identities
        PROVE  OwnIInv'
    BY <1>1 DEF OwnIInv, Shape, RowsOK, LoginOK, Vouched, UserOf, Here
  <1>2. \A c \in codes : c.who \in Identities
    BY DEF OwnIInv
  <1>3. ASSUME NEW a \in Asks, NEW who \in DOMAIN ProviderOf, Grant(a, who) PROVE OwnIInv'
    <2>1. PICK n : codes' = codes \cup {[ask |-> a, nr |-> n, who |-> who, used |-> FALSE]}
      BY <1>3 DEF Grant
    <2>2. \A c \in codes' : c.who \in Identities
      BY <1>2, <2>1
    <2> QED
      BY <1>1, <1>3, <2>2 DEF Grant, accountVars
  <1>4. ASSUME NEW l \in Logins, CallbackStep(l) PROVE OwnIInv'
    <2>1. CASE SaveExpired(l)
      BY <1>2, <2>1, OwnGoes DEF SaveExpired
    <2>2. CASE ConfigFromCache(l)
      <3> DEFINE q == logins[l]
                 n == [q EXCEPT !.step = "exchange", !.client = cache[q.issuer]]
      <3>1. /\ q.step = "config" /\ DOMAIN q = LoginFields /\ LoginOK(q)
            /\ UNCHANGED <<users, codes>> /\ Becomes(l, n)
        BY <2>2, OwnFacts DEF ConfigFromCache, oidcVars
      <3>2. /\ DOMAIN n = LoginFields /\ n.step = "exchange" /\ n.who = q.who
            /\ n.user = q.user /\ n.via = q.via
        BY <3>1 DEF LoginFields
      <3> HIDE DEF n
      <3>3. (Vouched(n) => n.who \in Identities) /\ (n.user # None => UserOf(n))
        BY <3>1, <3>2 DEF LoginOK, Vouched, UserOf
      <3> QED
        BY <1>2, <3>1, <3>2, <3>3, OwnMoves
    <2>3. CASE Discover(l)
      BY <1>2, <2>3, OwnGoes DEF Discover, oidcVars
    <2>4. CASE Configure(l)
      BY <1>2, <2>4, OwnGoes DEF Configure, stateVars
    <2>5. CASE SaveAuthorized(l)
      BY <1>2, <2>5, OwnGoes DEF SaveAuthorized
    <2> QED
      BY <1>4, <2>1, <2>2, <2>3, <2>4, <2>5, OwnExchange DEF CallbackStep
  <1>5. CASE \E l \in Logins : CallbackStep(l) \/ \E c \in codes : Callback(l, c)
    BY <1>4, <1>5, OwnCallback
  <1>6. CASE \E a \in Asks :
          \/ LinkStep(a) \/ Ages(a)
          \/ \E p \in Providers, d \in Devices \cup {None}, web \in BOOLEAN :
                RequestAuth(a, p, d, web)
          \/ \E p \in Polls : QueryAuth(p, a)
    BY <1>1, <1>2, <1>6 DEF LinkStep, LinkFromCache, DiscoverForLink, BuildLink, Ages,
                            RequestAuth, QueryAuth, accountVars, stateVars
  <1>7. CASE (\E p \in Polls : PollStep(p)) \/ Cleanup
    BY <1>1, <1>2, <1>7 DEF PollStep, Reread, ReadUser, Answer, Cleanup, accountVars
  <1>8. CASE Administered
    BY <1>1, <1>2, <1>8, AdministersOnly DEF accountVars, stateVars
  <1> QED
    BY <1>3, <1>5, <1>6, <1>7, <1>8 DEF OidcNext, Administered

\* The administrator changes no identity: rows go, or change their status.
LEMMA OwnAdministrator ==
    ASSUME OwnIInv, NEW u \in Rows, SetStatus(u) \/ DeleteUser(u), UNCHANGED codes
    PROVE  OwnIInv'
  <1>1. /\ DOMAIN users' = Rows /\ UNCHANGED logins
        /\ \A v \in Rows : v # u => users'[v] = users[v]
        /\ DOMAIN users'[u] = {"status", "name", "mail", "identity"}
        /\ \/ Here(u) /\ users'[u].identity = users[u].identity
           \/ users'[u].status = None /\ users'[u].identity = None
    BY DEF OwnIInv, Shape, SetStatus, DeleteUser, NoRow
  <1>2. Shape'
    BY <1>1 DEF OwnIInv, Shape
  <1>3. \A v \in Rows : Here(v)' => Here(v) /\ users'[v].identity = users[v].identity
    BY <1>1 DEF Here
  <1>4. \A v \in Registered : users'[v].identity = None
    BY <1>1 DEF OwnIInv, RowsOK, Rows
  <1>5. RowsOK'
    <2>1. \A v \in Logins : Here(v)' => /\ users'[v].identity = logins'[v].who
                                        /\ logins'[v].step # "new"
                                        /\ logins'[v].who \in Identities
      BY <1>1, <1>3 DEF OwnIInv, RowsOK, Rows
    <2>2. \A v, w \in Logins : Here(v)' /\ Here(w)' /\ users'[v].identity = users'[w].identity => v = w
      BY <1>3 DEF OwnIInv, RowsOK, Rows
    <2> QED
      BY <1>4, <2>1, <2>2 DEF RowsOK
  <1>6. \A l \in Logins : LoginOK(logins[l])'
    BY <1>1 DEF OwnIInv, LoginOK, UserOf, Vouched
  <1> QED
    BY <1>2, <1>5, <1>6 DEF OwnIInv

LEMMA OwnInit == Init => OwnIInv
  <1> SUFFICES ASSUME Init PROVE OwnIInv
    OBVIOUS
  <1>1. /\ logins = [l \in Logins |-> NoLogin] /\ codes = {}
        /\ users = [u \in Rows |->
                  IF u \in Registered
                  THEN [status |-> "active", name |-> <<NameOf[u], 0>>,
                        mail |-> MailOf[u], identity |-> None]
                  ELSE NoRow]
    BY DEF Init, AccountInit, OidcInit
  <1>2. DOMAIN NoLogin = LoginFields /\ NoLogin.user = None /\ NoLogin.step = "new" /\ NoLogin.via = None
    BY DEF NoLogin, LoginFields
  <1>3. Shape
    BY <1>1, <1>2 DEF Shape, NoRow
  <1>4. RowsOK
    BY <1>1 DEF RowsOK, Here, NoRow, Rows
  <1>5. \A l \in Logins : LoginOK(logins[l])
    BY <1>1, <1>2 DEF LoginOK, Vouched
  <1> QED
    BY <1>1, <1>3, <1>4, <1>5 DEF OwnIInv

LEMMA OwnStep == OwnIInv /\ [Next]_vars => OwnIInv'
  <1> SUFFICES ASSUME OwnIInv, [Next]_vars PROVE OwnIInv'
    OBVIOUS
  <1>1. CASE UNCHANGED vars
    BY <1>1 DEF vars, accountVars, oidcVars, OwnIInv, Shape, RowsOK, LoginOK, Vouched, UserOf, Here
  <1>2. CASE OidcNext
    BY <1>2, OwnOidc
  <1>3. CASE LdapNext /\ UNCHANGED oidcVars
    BY <1>3, OwnLdap DEF oidcVars
  <1>4. CASE /\ \/ \E l \in Logins : AccountStep(l)
                \/ \E u \in Rows : SetStatus(u)
                \/ \E u \in Logins : DeleteUser(u)
             /\ UNCHANGED oidcVars
    BY <1>4, OwnAccountStep, OwnAdministrator DEF oidcVars, Rows
  <1> QED
    BY <1>1, <1>2, <1>3, <1>4 DEF Next

(* Whoever proves to be an identity ends up in the account linked to it,   *)
(* of which there is one, however many first sign-ins of whichever         *)
(* identities race each other and the administrator (findOrCreateUser).    *)
THEOREM OwnAccountOnly == Spec => []OwnAccount
  <1>1. OwnIInv => OwnAccount
    <2> SUFFICES ASSUME OwnIInv PROVE OwnAccount
      OBVIOUS
    <2>1. ASSUME NEW l \in Logins, logins[l].user # None, Here(logins[l].user)
          PROVE  IF logins[l].who \in Registered THEN logins[l].user = logins[l].who
                 ELSE users[logins[l].user].identity = logins[l].who
      <3>1. UserOf(logins[l])
        BY <2>1, OwnFacts
      <3> QED
        BY <2>1, <3>1 DEF UserOf, OwnIInv, RowsOK
    <2>2. ASSUME NEW u \in Rows, NEW v \in Rows, Here(u), Here(v),
                 users[u].identity = users[v].identity
          PROVE  u = v \/ users[u].identity = None
      BY <2>2 DEF OwnIInv, RowsOK, Rows
    <2> QED
      BY <2>1, <2>2 DEF OwnAccount
  <1> QED
    BY <1>1, OwnInit, OwnStep, PTL DEF Spec

(***************************************************************************)
(* The tokens.  A user's consent is handed on: the code, the sign-in that  *)
(* exchanged it, the authorization its token is stored with, the poll that *)
(* took it, the client.  One consent is in one of these places.            *)
(***************************************************************************)

InFlight == {"find", "name", "insert", "bind", "token", "save"}
ByPassword == {"new", "ldap", "sync", "check", "local"}

\* Where a consent to an authorization is.
Carries(a, k, x) ==
    \/ k = "code" /\ x = 0 /\ \E c \in codes : c.ask = a /\ ~c.used
    \/ k = "login" /\ x \in Logins
       /\ logins[x].via = "provider" /\ logins[x].asked = a /\ logins[x].step \in InFlight
    \/ k = "row" /\ x = 0 /\ rows[a].status = "authorized" /\ asks[a].device \in Devices
    \/ k = "poll" /\ x \in Polls /\ polls[x].step # "idle" /\ polls[x].ask = a
    \/ k = "given" /\ x \in Logins
       /\ logins[x].via = "provider" /\ logins[x].asked = a /\ given[x] > 0

Agreed(a) == \E c \in codes : c.ask = a
OneCode(a) == \A c, d \in codes : c.ask = a /\ d.ask = a => c = d
OnePlace(a) == \A k, x, j, y : Carries(a, k, x) /\ Carries(a, j, y) => k = j /\ x = y
GivenOnce(a) ==
    \A l \in Logins : logins[l].via = "provider" /\ logins[l].asked = a => given[l] <= 1

Carried(a) ==
    /\ OneCode(a) => OnePlace(a) /\ GivenOnce(a)
    /\ \A k, x : Carries(a, k, x) => Agreed(a)

TokenOf(t, a) == t \in Logins /\ logins[t].via = "provider" /\ logins[t].asked = a

AskFields == {"step", "provider", "device", "web", "issuer", "client", "link"}

Tables ==
    /\ given \in [Logins -> Nat]
    /\ DOMAIN rows = Asks /\ \A a \in Asks : DOMAIN rows[a] = {"status", "token"}
    /\ DOMAIN asks = Asks /\ \A a \in Asks : DOMAIN asks[a] = AskFields
    /\ DOMAIN polls = Polls /\ \A p \in Polls : DOMAIN polls[p] = {"step", "ask", "token"}

CodesOK ==
    /\ IsFiniteSet(codes)
    /\ \A c, d \in codes : c.ask = d.ask /\ c.nr = d.nr => c = d
    /\ \A c \in codes : /\ c.ask \in Asks /\ asks[c.ask].step = "linked"
                        /\ c.nr \in 1..Grants(c.ask)
                        /\ c = [ask |-> c.ask, nr |-> c.nr, who |-> c.who, used |-> c.used]

TokenSignIn(q, n) ==
    /\ q.via = "provider" => q.asked \in Asks
    /\ q.via # "provider" => n <= 1 /\ (q.step # "done" => n = 0)
    /\ q.step = "save" => q.via = "provider"
    /\ q.step \in ByPassword => q.via # "provider"

\* The token of an authorization is that of a sign-in that was asked for by it.
TokensOK ==
    /\ \A l \in Logins : TokenSignIn(logins[l], given[l])
    /\ \A a \in Asks : rows[a].status \in {"authorized", "consumed"} => TokenOf(rows[a].token, a)
    /\ \A p \in Polls : /\ polls[p].step # "idle" => polls[p].ask \in Asks
                        /\ polls[p].step \in {"user", "answer"} =>
                               TokenOf(polls[p].token, polls[p].ask)

DeliverIInv ==
    /\ Tables /\ CodesOK /\ TokensOK
    /\ \A a \in Asks : Carried(a)

\* A consent that is handed on from one place to another.
HandedOn(a, k, x, j, y) ==
    \A m, z : Carries(a, m, z)' => \/ m = j /\ z = y /\ Carries(a, k, x)
                                   \/ Carries(a, m, z) /\ ~(m = k /\ z = x)

LEMMA HandsOn ==
    ASSUME NEW a, Carried(a), OneCode(a)' => OneCode(a), Agreed(a) => Agreed(a)',
           NEW k, NEW x, NEW j, NEW y, Agreed(a)' \/ HandedOn(a, k, x, j, y),
           OneCode(a)' => HandedOn(a, k, x, j, y), OneCode(a)' => GivenOnce(a)'
    PROVE  Carried(a)'
  <1>1. \A m, z : Carries(a, m, z)' => Agreed(a)'
    BY DEF Carried, HandedOn
  <1>2. OneCode(a)' => OnePlace(a)'
    <2> SUFFICES ASSUME OneCode(a)', OnePlace(a),
                        NEW m, NEW z, NEW n, NEW w, Carries(a, m, z)', Carries(a, n, w)'
                 PROVE  m = n /\ z = w
      BY DEF Carried, OnePlace
    <2>1. /\ \/ m = j /\ z = y /\ Carries(a, k, x)
             \/ Carries(a, m, z) /\ ~(m = k /\ z = x)
          /\ \/ n = j /\ w = y /\ Carries(a, k, x)
             \/ Carries(a, n, w) /\ ~(n = k /\ w = x)
      BY DEF HandedOn
    <2> QED
      BY <2>1, Zenon DEF OnePlace
  <1> QED
    BY <1>1, <1>2 DEF Carried

\* A consent that stays where it is, or is lost.
LEMMA Stays ==
    ASSUME NEW a, Carried(a), UNCHANGED codes, GivenOnce(a) => GivenOnce(a)',
           \A m, z : Carries(a, m, z)' => Carries(a, m, z)
    PROVE  Carried(a)'
  <1>1. (OneCode(a)' <=> OneCode(a)) /\ (Agreed(a)' <=> Agreed(a))
    BY DEF OneCode, Agreed
  <1>2. \A m, z : Carries(a, m, z)' => Agreed(a)'
    BY <1>1 DEF Carried
  <1>3. OneCode(a)' => OnePlace(a)' /\ GivenOnce(a)'
    BY <1>1, Zenon DEF Carried, OnePlace
  <1> QED
    BY <1>2, <1>3 DEF Carried

\* No authorization is given a token, and the rows that have one keep it, or go.
RowsFade ==
    /\ DOMAIN rows' = Asks /\ \A a \in Asks : DOMAIN rows'[a] = {"status", "token"}
    /\ \A a \in Asks : rows'[a].status \in {"authorized", "consumed"} => rows'[a] = rows[a]

LEMMA RowsStay ==
    ASSUME DeliverIInv, UNCHANGED rows
    PROVE  RowsFade
  BY DEF DeliverIInv, Tables, RowsFade

\* The tokens are those they were asked for while the sign-ins go on.
LEMMA TokensKeep ==
    ASSUME Shape, TokensOK, NEW l \in Logins, NEW q, DOMAIN q = LoginFields, Becomes(l, q),
           logins[l].via = "provider" => q.via = "provider" /\ q.asked = logins[l].asked,
           RowsFade, UNCHANGED polls, TokenSignIn(q, given'[l]),
           \A m \in Logins : m # l => given'[m] = given[m]
    PROVE  TokensOK'
  <1>1. logins'[l] = q /\ \A m \in Logins : m # l => logins'[m] = logins[m]
    BY Becoming
  <1>2. \A t, a : TokenOf(t, a) => TokenOf(t, a)'
    BY <1>1 DEF TokenOf
  <1>3. ASSUME NEW m \in Logins PROVE TokenSignIn(logins[m], given[m])'
    <2>1. CASE m = l
      BY <1>1, <2>1 DEF TokenSignIn
    <2>2. CASE m # l
      BY <1>1, <2>2 DEF TokenSignIn, TokensOK
    <2> QED
      BY <2>1, <2>2
  <1>4. \A a \in Asks : rows'[a].status \in {"authorized", "consumed"} => TokenOf(rows[a].token, a)'
    BY <1>2 DEF TokensOK, TokenOf, RowsFade
  <1>5. \A p \in Polls : /\ polls'[p].step # "idle" => polls'[p].ask \in Asks
                         /\ polls'[p].step \in {"user", "answer"} =>
                               TokenOf(polls[p].token, polls[p].ask)'
    BY <1>2 DEF TokensOK, TokenOf
  <1> QED
    BY <1>3, <1>4, <1>5 DEF TokensOK, TokenOf

\* A sign-in that goes on without taking or giving a consent.
LEMMA DeliverMoves ==
    ASSUME Shape, DeliverIInv, NEW l \in Logins, NEW q, DOMAIN q = LoginFields, Becomes(l, q),
           logins[l].via = "provider" => q.via = "provider" /\ q.asked = logins[l].asked,
           q.via = "provider" /\ q.step \in InFlight =>
               logins[l].via = "provider" /\ logins[l].step \in InFlight,
           q.via = "provider" => q.asked \in Asks,
           q.step = "save" => q.via = "provider",
           q.step \in ByPassword => q.via # "provider",
           logins[l].step # "done",
           RowsFade, UNCHANGED <<given, codes, asks, polls>>
    PROVE  DeliverIInv'
  <1>1. logins'[l] = q /\ \A m \in Logins : m # l => logins'[m] = logins[m]
    BY Becoming
  <1>2. given[l] = 0 \/ logins[l].via = "provider"
    BY DEF DeliverIInv, TokensOK, TokenSignIn
  <1>3. TokenSignIn(q, given'[l])
    BY <1>2 DEF TokenSignIn
  <1>4. TokensOK'
    BY <1>3, TokensKeep DEF DeliverIInv
  <1>5. Tables' /\ CodesOK'
    BY DEF DeliverIInv, Tables, CodesOK, Grants, RowsFade
  <1>6. ASSUME NEW a \in Asks PROVE Carried(a)'
    <2>1. ASSUME NEW m, NEW z, Carries(a, m, z)' PROVE Carries(a, m, z)
      <3>1. z \in Logins /\ z # l => logins'[z] = logins[z]
        BY <1>1
      <3>2. CASE z = l
        <4>1. m = "login" => logins[l].step \in InFlight /\ logins[l].via = "provider"
                             /\ logins[l].asked = a
          BY <1>1, <2>1, <3>2 DEF Carries
        <4> QED
          BY <1>1, <1>2, <2>1, <3>2, <4>1 DEF Carries, RowsFade
      <3>3. CASE z # l
        BY <2>1, <3>1, <3>3 DEF Carries, RowsFade
      <3> QED
        BY <3>2, <3>3
    <2>2. GivenOnce(a) => GivenOnce(a)'
      <3> SUFFICES ASSUME GivenOnce(a), NEW m \in Logins,
                          logins'[m].via = "provider", logins'[m].asked = a
                   PROVE  given'[m] <= 1
        BY DEF GivenOnce
      <3> QED
        <4>1. given'[m] = given[m] /\ given[l] = given'[l]
          OBVIOUS
        <4>2. m # l \/ logins[l].via = "provider" => logins[m].via = "provider" /\ logins[m].asked = a
          BY <1>1
        <4>3. CASE m # l \/ logins[l].via = "provider"
          BY <4>1, <4>2, <4>3 DEF GivenOnce
        <4>4. CASE given[l] = 0 /\ m = l
          BY <4>1, <4>4
        <4> QED
          BY <1>2, <4>3, <4>4
    <2>3. Carried(a)
      BY DEF DeliverIInv
    <2> QED
      BY <2>1, <2>2, <2>3, Stays
  <1> QED
    BY <1>4, <1>5, <1>6 DEF DeliverIInv

\* A sign-in that stays asked for by the same authorization, or by none.
LEMMA DeliverAs ==
    ASSUME Shape, DeliverIInv, NEW l \in Logins, NEW q, DOMAIN q = LoginFields, Becomes(l, q),
           q.via = logins[l].via, q.asked = logins[l].asked,
           q.via = "provider" =>
               q.step \notin ByPassword /\ (q.step \in InFlight => logins[l].step \in InFlight),
           q.step = "save" => q.via = "provider",
           logins[l].step # "done",
           UNCHANGED <<given, codes, rows, asks, polls>>
    PROVE  DeliverIInv'
  <1>1. logins[l].via = "provider" => logins[l].asked \in Asks
    BY DEF DeliverIInv, TokensOK, TokenSignIn
  <1> QED
    BY <1>1, RowsStay, DeliverMoves

LEMMA DeliverGoes ==
    ASSUME Shape, DeliverIInv, NEW l \in Logins, NEW s, GoesTo(l, s),
           logins[l].via = "provider" =>
               s \notin ByPassword /\ (s \in InFlight => logins[l].step \in InFlight),
           s = "save" => logins[l].via = "provider",
           logins[l].step # "done",
           UNCHANGED <<given, codes, rows, asks, polls>>
    PROVE  DeliverIInv'
  <1> DEFINE q == [logins[l] EXCEPT !.step = s]
  <1>1. /\ DOMAIN q = LoginFields /\ q.step = s
        /\ q.via = logins[l].via /\ q.asked = logins[l].asked
    BY DEF LoginFields, Shape
  <1>2. Becomes(l, q)
    BY DEF GoesTo
  <1> HIDE DEF q
  <1> QED
    BY <1>1, <1>2, DeliverAs

\* What is known of a sign-in before it goes on.
LEMMA DeliverFacts ==
    ASSUME Shape, DeliverIInv, NEW l \in Logins
    PROVE  /\ DOMAIN logins[l] = LoginFields
           /\ TokenSignIn(logins[l], given[l])
  BY DEF Shape, DeliverIInv, TokensOK

\* Until the account is bound and the token issued a consent stays with the sign-in.
LEMMA DeliverAccount ==
    ASSUME Shape, DeliverIInv, NEW l \in Logins, AccountStep(l), UNCHANGED oidcVars
    PROVE  DeliverIInv'
  <1> DEFINE q == logins[l]
  <1>0. DOMAIN q = LoginFields /\ TokenSignIn(q, given[l]) /\ UNCHANGED <<codes, rows, asks, polls>>
    BY DeliverFacts DEF oidcVars
  <1>1. CASE Find(l)
    <2>1. \E x, y, z, s :
              \/ /\ Becomes(l, [q EXCEPT !.user = x, !.status = y, !.suffix = z, !.step = s])
                 /\ s \in {"bind", "sync", "check"} /\ (q.via = "provider" => s = "bind")
              \/ Becomes(l, [q EXCEPT !.step = "name", !.attempt = 1])
      BY <1>1, Zenon DEF Find
    <2>0. PICK x, y, z, s :
              \/ /\ Becomes(l, [q EXCEPT !.user = x, !.status = y, !.suffix = z, !.step = s])
                 /\ s \in {"bind", "sync", "check"} /\ (q.via = "provider" => s = "bind")
              \/ Becomes(l, [q EXCEPT !.step = "name", !.attempt = 1])
      BY <2>1
    <2>2. PICK n : /\ \/ /\ n = [q EXCEPT !.user = x, !.status = y, !.suffix = z, !.step = s]
                         /\ s \in {"bind", "sync", "check"} /\ (q.via = "provider" => s = "bind")
                      \/ n = [q EXCEPT !.step = "name", !.attempt = 1]
                   /\ Becomes(l, n)
      BY <2>0
    <2>3. /\ DOMAIN n = LoginFields /\ n.via = q.via /\ n.asked = q.asked
          /\ n.step \in {"bind", "sync", "check", "name"}
          /\ q.via = "provider" => n.step \in {"bind", "name"}
      BY <1>0, <2>2 DEF LoginFields
    <2> QED
      BY <1>0, <1>1, <2>2, <2>3, DeliverAs DEF Find, InFlight, ByPassword
  <1>2. CASE PickName(l)
    <2>1. \E x, y : \/ Becomes(l, [q EXCEPT !.step = "insert", !.suffix = x, !.next = y])
                  \/ Becomes(l, [q EXCEPT !.step = "insert"])
      BY <1>2 DEF PickName
    <2>0. PICK x, y : \/ Becomes(l, [q EXCEPT !.step = "insert", !.suffix = x, !.next = y])
                     \/ Becomes(l, [q EXCEPT !.step = "insert"])
      BY <2>1
    <2>2. PICK n : /\ \/ n = [q EXCEPT !.step = "insert", !.suffix = x, !.next = y]
                      \/ n = [q EXCEPT !.step = "insert"]
                   /\ Becomes(l, n)
      BY <2>0
    <2>3. /\ DOMAIN n = LoginFields /\ n.via = q.via /\ n.asked = q.asked /\ n.step = "insert"
      BY <1>0, <2>2 DEF LoginFields
    <2> QED
      BY <1>0, <1>2, <2>2, <2>3, DeliverAs DEF PickName, InFlight, ByPassword
  <1>3. CASE Insert(l)
    <2>1. \E x, y, z, s :
              \/ /\ Becomes(l, [q EXCEPT !.user = l, !.status = "active", !.step = s])
                 /\ s \in {"bind", "check"} /\ (q.via = "provider" => s = "bind")
              \/ Becomes(l, [q EXCEPT !.step = "name", !.attempt = x, !.suffix = y, !.next = z])
              \/ Becomes(l, [q EXCEPT !.step = Refusal(l)])
      BY <1>3 DEF Insert, GoesTo
    <2>0. PICK x, y, z, s :
              \/ /\ Becomes(l, [q EXCEPT !.user = l, !.status = "active", !.step = s])
                 /\ s \in {"bind", "check"} /\ (q.via = "provider" => s = "bind")
              \/ Becomes(l, [q EXCEPT !.step = "name", !.attempt = x, !.suffix = y, !.next = z])
              \/ Becomes(l, [q EXCEPT !.step = Refusal(l)])
      BY <2>1
    <2>2. PICK n : /\ \/ /\ n = [q EXCEPT !.user = l, !.status = "active", !.step = s]
                         /\ s \in {"bind", "check"} /\ (q.via = "provider" => s = "bind")
                      \/ n = [q EXCEPT !.step = "name", !.attempt = x, !.suffix = y, !.next = z]
                      \/ n = [q EXCEPT !.step = Refusal(l)]
                   /\ Becomes(l, n)
      BY <2>0
    <2>3. Refusal(l) \in {"local", "refused"} /\ (q.via = "provider" => Refusal(l) = "refused")
      BY DEF Refusal
    <2>4. /\ DOMAIN n = LoginFields /\ n.via = q.via /\ n.asked = q.asked
          /\ n.step \in {"bind", "check", "name", "local", "refused"}
          /\ q.via = "provider" => n.step \in {"bind", "name", "refused"}
      BY <1>0, <2>2, <2>3 DEF LoginFields
    <2> QED
      BY <1>0, <1>3, <2>2, <2>4, DeliverAs DEF Insert, InFlight, ByPassword
  <1>4. CASE Bind(l)
    BY <1>0, <1>4, DeliverGoes DEF Bind, InFlight, ByPassword
  <1>5. CASE Issue(l) /\ UNCHANGED given
    <2>1. \/ GoesTo(l, "refused")
          \/ GoesTo(l, "save") /\ q.via = "provider"
          \/ GoesTo(l, "done")
      BY <1>5 DEF Issue
    <2> QED
      BY <1>0, <1>5, <2>1, DeliverGoes DEF Issue, InFlight, ByPassword
  <1>6. CASE /\ q.step = "token" /\ q.via # "provider" /\ GoesTo(l, "done")
             /\ given' = [given EXCEPT ![l] = @ + 1]
    <2> DEFINE n == [q EXCEPT !.step = "done"]
    <2>1. DOMAIN n = LoginFields /\ n.step = "done" /\ n.via = q.via /\ n.asked = q.asked /\ Becomes(l, n)
      BY <1>0, <1>6 DEF GoesTo, LoginFields
    <2> HIDE DEF n
    <2>2. logins'[l] = n /\ \A m \in Logins : m # l => logins'[m] = logins[m]
      BY <2>1, Becoming
    <2>3. /\ given' \in [Logins -> Nat] /\ given'[l] = 1 /\ \A m \in Logins : m # l => given'[m] = given[m]
      BY <1>0, <1>6 DEF DeliverIInv, Tables, TokenSignIn
    <2>4. TokenSignIn(n, given'[l])
      BY <1>6, <2>1, <2>3 DEF TokenSignIn
    <2>5. TokensOK'
      BY <1>0, <2>1, <2>3, <2>4, RowsStay, TokensKeep DEF DeliverIInv
    <2>6. Tables' /\ CodesOK'
      BY <1>0, <2>3 DEF DeliverIInv, Tables, CodesOK, Grants
    <2>7. ASSUME NEW a \in Asks PROVE Carried(a)'
      <3>1. ASSUME NEW m, NEW z, Carries(a, m, z)' PROVE Carries(a, m, z)
        <4>1. z \in Logins => IF z = l THEN logins'[z].via # "provider"
                              ELSE logins'[z] = logins[z] /\ given'[z] = given[z]
          BY <1>6, <2>1, <2>2, <2>3
        <4> QED
          BY <1>0, <3>1, <4>1 DEF Carries
      <3>2. GivenOnce(a) => GivenOnce(a)'
        BY <1>6, <2>1, <2>2, <2>3 DEF GivenOnce
      <3>3. Carried(a)
        BY DEF DeliverIInv
      <3> QED
        BY <1>0, <3>1, <3>2, <3>3, Stays
    <2> QED
      BY <2>5, <2>6, <2>7 DEF DeliverIInv
  <1>7. CASE Issue(l)
    BY <1>5, <1>6, <1>7 DEF Issue
  <1> QED
    BY <1>1, <1>2, <1>3, <1>4, <1>7 DEF AccountStep

\* A sign-in that arrives has none.
LEMMA DeliverArrives ==
    ASSUME Shape, DeliverIInv, NEW l \in Logins, Arrives(l),
           NEW q, DOMAIN q = LoginFields, Becomes(l, q),
           q.step \notin InFlight, q.via = "provider" => q.asked \in Asks,
           q.via = "provider" => q.step \notin ByPassword,
           UNCHANGED <<given, codes, rows, asks, polls>>
    PROVE  DeliverIInv'
  <1>1. logins[l].step = "new" /\ logins[l].via # "provider"
    BY DeliverFacts DEF Arrives, TokenSignIn, ByPassword
  <1> QED
    BY <1>1, RowsStay, DeliverMoves DEF InFlight

LEMMA DeliverLdap ==
    ASSUME Shape, DeliverIInv, LdapNext, UNCHANGED oidcVars
    PROVE  DeliverIInv'
  <1>0. UNCHANGED <<codes, rows, asks, polls>>
    BY DEF oidcVars
  <1>1. ASSUME NEW l \in Logins, NEW name, NEW who, NEW d, TypeName(l, name, who, d)
        PROVE  DeliverIInv'
    <2> DEFINE q(v) == [[NoLogin EXCEPT !.asked = name, !.who = who, !.device = d]
                            EXCEPT !.step = "ldap", !.via = v]
    <2>1. \E v \in {"enforced", "directory"} : Becomes(l, q(v))
      BY <1>1 DEF TypeName
    <2>2. \A v : DOMAIN q(v) = LoginFields /\ q(v).step = "ldap" /\ q(v).via = v
      BY DEF NoLogin, LoginFields
    <2> HIDE DEF q
    <2>3. PICK v \in {"enforced", "directory"} : Becomes(l, q(v))
      BY <2>1
    <2> QED
      BY <1>0, <1>1, <2>2, <2>3, DeliverArrives DEF TypeName, InFlight
  <1>2. ASSUME NEW l \in Logins, AskDirectory(l) PROVE DeliverIInv'
    <2> DEFINE q == logins[l]
    <2>1. /\ DOMAIN q = LoginFields /\ q.via # "provider" /\ q.step = "ldap" /\ UNCHANGED given
      BY <1>2, DeliverFacts DEF AskDirectory, TokenSignIn, ByPassword
    <2>2. CASE \E m \in MailsOf[q.who] : Becomes(l, [q EXCEPT !.step = "find", !.mail = m])
      <3>1. PICK m : Becomes(l, [q EXCEPT !.step = "find", !.mail = m])
        BY <2>2
      <3> DEFINE n == [q EXCEPT !.step = "find", !.mail = m]
      <3>2. /\ DOMAIN n = LoginFields /\ n.step = "find" /\ n.via = q.via /\ n.asked = q.asked
            /\ Becomes(l, n)
        BY <2>1, <3>1 DEF LoginFields
      <3> HIDE DEF n
      <3> QED
        BY <1>0, <2>1, <3>2, DeliverAs
    <2>3. CASE GoesTo(l, Refusal(l))
      <3>1. Refusal(l) \in {"local", "refused"}
        BY DEF Refusal
      <3> QED
        BY <1>0, <2>1, <2>3, <3>1, DeliverGoes
    <2> QED
      BY <1>2, <2>2, <2>3 DEF AskDirectory
  <1>3. ASSUME NEW l \in Logins, SyncMail(l) \/ CheckStatus(l) PROVE DeliverIInv'
    <2>1. /\ logins[l].via # "provider" /\ logins[l].step # "done" /\ UNCHANGED given
      BY <1>3, DeliverFacts DEF SyncMail, CheckStatus, TokenSignIn, ByPassword
    <2>2. PICK s \in {"check", "local", "refused", "bind"} : GoesTo(l, s)
      BY <1>3 DEF SyncMail, CheckStatus, Refusal
    <2> QED
      BY <1>0, <2>1, <2>2, DeliverGoes
  <1>4. ASSUME NEW l \in Logins, LocalLogin(l) PROVE DeliverIInv'
    <2> DEFINE q == logins[l]
    <2>1. /\ DOMAIN q = LoginFields /\ q.via # "provider" /\ q.step = "local" /\ UNCHANGED given
      BY <1>4, DeliverFacts DEF LocalLogin, TokenSignIn, ByPassword
    <2>2. CASE \E u : Becomes(l, [q EXCEPT !.step = "bind", !.via = "password", !.user = u])
      <3>1. PICK u : Becomes(l, [q EXCEPT !.step = "bind", !.via = "password", !.user = u])
        BY <2>2
      <3> DEFINE n == [q EXCEPT !.step = "bind", !.via = "password", !.user = u]
      <3>2. DOMAIN n = LoginFields /\ n.step = "bind" /\ n.via = "password" /\ Becomes(l, n)
        BY <2>1, <3>1 DEF LoginFields
      <3> HIDE DEF n
      <3> QED
        BY <1>0, <2>1, <3>2, RowsStay, DeliverMoves DEF InFlight, ByPassword
    <2>3. CASE GoesTo(l, "refused")
      BY <1>0, <2>1, <2>3, DeliverGoes
    <2> QED
      BY <1>4, <2>2, <2>3 DEF LocalLogin
  <1>5. ASSUME UNCHANGED <<logins, given>> PROVE DeliverIInv'
    <2>1. Tables' /\ CodesOK'
      BY <1>0, <1>5 DEF DeliverIInv, Tables, CodesOK, Grants
    <2>2. TokensOK'
      BY <1>0, <1>5 DEF DeliverIInv, TokensOK, TokenOf, TokenSignIn
    <2>3. ASSUME NEW a \in Asks PROVE Carried(a)'
      BY <1>0, <1>5, Stays DEF DeliverIInv, Carries, GivenOnce
    <2> QED
      BY <2>1, <2>2, <2>3 DEF DeliverIInv
  <1>6. CASE (\E s \in Servers, e \in BOOLEAN : UpdateLdapConfig(s, e)) \/ SaveSetting
    BY <1>5, <1>6 DEF UpdateLdapConfig, SaveSetting, accountVars
  <1>7. CASE \E l \in Logins :
          \/ PasswordStep(l)
          \/ \E who \in Entries \cup Registered, d \in Devices : TypeName(l, NameOf[who], who, d)
    BY <1>1, <1>2, <1>3, <1>4, <1>7 DEF PasswordStep
  <1> QED
    BY <1>6, <1>7 DEF LdapNext

LEMMA DeliverCallback ==
    ASSUME Shape, DeliverIInv, NEW l \in Logins, NEW c \in codes, Callback(l, c)
    PROVE  DeliverIInv'
  <1> DEFINE q == [NoLogin EXCEPT !.via = "provider", !.asked = c.ask, !.who = c.who,
                                  !.device = asks[c.ask].device]
  <1>1. DOMAIN q = LoginFields /\ q.via = "provider" /\ q.asked = c.ask
    BY DEF NoLogin, LoginFields
  <1>2. /\ c.ask \in Asks /\ UNCHANGED <<given, codes, rows, asks, polls>> /\ Arrives(l)
    BY DEF DeliverIInv, CodesOK, Callback, oidcVars
  <1>3. \E s \in {"expire", "refused", "config"} : \E x, i, y :
            \/ Becomes(l, [q EXCEPT !.step = s])
            \/ Becomes(l, [q EXCEPT !.step = s, !.code = x, !.issuer = i, !.client = y])
    BY DEF Callback
  <1> HIDE DEF q
  <1>0. PICK s \in {"expire", "refused", "config"} : \E x, i, y :
            \/ Becomes(l, [q EXCEPT !.step = s])
            \/ Becomes(l, [q EXCEPT !.step = s, !.code = x, !.issuer = i, !.client = y])
    BY <1>3
  <1>4. PICK x, i, y :
            \/ Becomes(l, [q EXCEPT !.step = s])
            \/ Becomes(l, [q EXCEPT !.step = s, !.code = x, !.issuer = i, !.client = y])
    BY <1>0
  <1>5. PICK n : /\ \/ n = [q EXCEPT !.step = s]
                    \/ n = [q EXCEPT !.step = s, !.code = x, !.issuer = i, !.client = y]
                 /\ Becomes(l, n)
    BY <1>4
  <1>6. DOMAIN n = LoginFields /\ n.step = s /\ n.via = "provider" /\ n.asked = c.ask
    BY <1>1, <1>5 DEF LoginFields
  <1>7. n.step \notin InFlight /\ n.step \notin ByPassword
    BY <1>6 DEF InFlight, ByPassword
  <1> QED
    BY <1>2, <1>5, <1>6, <1>7, DeliverArrives

\* Expiring an authorization, and the configuration, move no consent.
LEMMA DeliverConfigure ==
    ASSUME Shape, DeliverIInv, NEW l \in Logins,
           SaveExpired(l) \/ ConfigFromCache(l) \/ Discover(l) \/ Configure(l)
    PROVE  DeliverIInv'
  <1> DEFINE q == logins[l]
  <1>0. DOMAIN q = LoginFields /\ TokenSignIn(q, given[l])
    BY DeliverFacts
  <1>1. CASE SaveExpired(l)
    <2> DEFINE n == [q EXCEPT !.step = "refused"]
    <2>1. /\ DOMAIN n = LoginFields /\ n.step = "refused" /\ n.via = q.via /\ n.asked = q.asked
          /\ Becomes(l, n) /\ q.step = "expire"
      BY <1>0, <1>1 DEF LoginFields, SaveExpired, GoesTo
    <2> HIDE DEF n
    <2>2. RowsFade
      BY <1>1 DEF SaveExpired, DeliverIInv, Tables, RowsFade
    <2> QED
      BY <1>0, <1>1, <2>1, <2>2, DeliverMoves DEF SaveExpired, TokenSignIn, InFlight, ByPassword
  <1>2. CASE ConfigFromCache(l)
    <2> DEFINE n == [q EXCEPT !.step = "exchange", !.client = cache[q.issuer]]
    <2>1. /\ DOMAIN n = LoginFields /\ n.step = "exchange" /\ n.via = q.via /\ n.asked = q.asked
          /\ Becomes(l, n) /\ q.step = "config"
      BY <1>0, <1>2 DEF LoginFields, ConfigFromCache
    <2> HIDE DEF n
    <2> QED
      BY <1>2, <2>1, DeliverAs DEF ConfigFromCache, oidcVars, InFlight, ByPassword
  <1>3. CASE Discover(l) \/ Configure(l)
    <2>1. PICK s \in {"discover", "exchange"} : GoesTo(l, s)
      BY <1>3 DEF Discover, Configure
    <2> QED
      BY <1>3, <2>1, DeliverGoes DEF Discover, Configure, oidcVars, stateVars, InFlight, ByPassword
  <1> QED
    BY <1>1, <1>2, <1>3

\* The number of consents to an authorization does not change when one is used.
LEMMA SameGrants ==
    ASSUME CodesOK, NEW x, NEW n, NEW w,
           LET code == [ask |-> x, nr |-> n, who |-> w, used |-> FALSE]
           IN  code \in codes /\ codes' = (codes \ {code}) \cup {[code EXCEPT !.used = TRUE]}
    PROVE  /\ \A a : Grants(a)' = Grants(a)
           /\ IsFiniteSet(codes')
           /\ [ask |-> x, nr |-> n, who |-> w, used |-> TRUE] \notin codes
           /\ codes' = (codes \ {[ask |-> x, nr |-> n, who |-> w, used |-> FALSE]})
                          \cup {[ask |-> x, nr |-> n, who |-> w, used |-> TRUE]}
  <1> DEFINE code == [ask |-> x, nr |-> n, who |-> w, used |-> FALSE]
             taken == [ask |-> x, nr |-> n, who |-> w, used |-> TRUE]
  <1>1. /\ code \in codes /\ codes' = (codes \ {code}) \cup {taken}
        /\ code.ask = x /\ taken.ask = x /\ code.nr = n /\ taken.nr = n /\ code # taken
    OBVIOUS
  <1> HIDE DEF code, taken
  <1>2. taken \notin codes
    BY <1>1 DEF CodesOK
  <1>3. IsFiniteSet(codes')
    <2>1. IsFiniteSet(codes \ {code})
      BY FS_RemoveElement DEF CodesOK
    <2>2. IsFiniteSet((codes \ {code}) \cup {taken})
      BY <2>1, FS_AddElement
    <2> QED
      BY <1>1, <2>2, Zenon
  <1>4. ASSUME NEW a PROVE Grants(a)' = Grants(a)
    <2> DEFINE S == {c \in codes : c.ask = a}
               T == {c \in codes' : c.ask = a}
    <2>1. IsFiniteSet(S)
      BY FS_Subset DEF CodesOK
    <2>2. CASE a = x
      <3>1. code \in S /\ taken \notin S \ {code} /\ T = (S \ {code}) \cup {taken}
        BY <1>1, <1>2, <2>2
      <3> HIDE DEF S, T
      <3>2. IsFiniteSet(S \ {code}) /\ Cardinality(S \ {code}) = Cardinality(S) - 1
        BY <2>1, <3>1, FS_RemoveElement
      <3>3. Cardinality(T) = Cardinality(S \ {code}) + 1
        BY <3>1, <3>2, FS_AddElement
      <3>4. Cardinality(S) \in Nat
        BY <2>1, FS_CardinalityType
      <3>5. Cardinality(T) = Cardinality(S)
        BY <3>2, <3>3, <3>4
      <3> QED
        BY <3>5 DEF Grants, S, T
    <2>3. CASE a # x
      <3>1. T = S
        BY <1>1, <2>3
      <3> QED
        BY <3>1 DEF Grants
    <2> QED
      BY <2>2, <2>3
  <1> QED
    BY <1>1, <1>2, <1>3, <1>4 DEF code, taken

\* A code that is exchanged hands its consent to the sign-in, which may lose it.
LEMMA DeliverExchange ==
    ASSUME Shape, DeliverIInv, NEW l \in Logins, Exchange(l)
    PROVE  DeliverIInv'
  <1> DEFINE q == logins[l]
             x == q.asked
             code == [ask |-> x, nr |-> q.code, who |-> q.who, used |-> FALSE]
             taken == [ask |-> x, nr |-> q.code, who |-> q.who, used |-> TRUE]
  <1>0. /\ DOMAIN q = LoginFields /\ TokenSignIn(q, given[l]) /\ q.step = "exchange"
        /\ UNCHANGED <<given, rows, asks, polls>>
    BY DeliverFacts DEF Exchange
  <1>1. CASE codes' = codes /\ GoesTo(l, "refused")
    BY <1>0, <1>1, DeliverGoes DEF InFlight, ByPassword
  <1>2. CASE /\ code \in codes /\ codes' = (codes \ {code}) \cup {[code EXCEPT !.used = TRUE]}
             /\ \/ GoesTo(l, "refused")
                \/ \E m \in MailsOf[q.who] : Becomes(l, [q EXCEPT !.step = "find", !.mail = m])
    <2>1. PICK m : \/ Becomes(l, [q EXCEPT !.step = "refused"])
                   \/ Becomes(l, [q EXCEPT !.step = "find", !.mail = m])
      BY <1>2 DEF GoesTo
    <2>2. PICK n : /\ n = [q EXCEPT !.step = "refused"] \/ n = [q EXCEPT !.step = "find", !.mail = m]
                   /\ Becomes(l, n)
      BY <2>1
    <2>3. /\ DOMAIN n = LoginFields /\ n.via = q.via /\ n.asked = q.asked
          /\ n.step \in {"find", "refused"}
      BY <1>0, <2>2 DEF LoginFields
    <2>4. /\ logins'[l] = n /\ \A k \in Logins : k # l => logins'[k] = logins[k]
      BY <2>2, <2>3, Becoming
    <2>5. TokensOK'
      <3>1. TokenSignIn(n, given'[l])
        BY <1>0, <2>3 DEF TokenSignIn, ByPassword
      <3> QED
        BY <1>0, <2>2, <2>3, <3>1, RowsStay, TokensKeep DEF DeliverIInv
    <2>6. /\ \A a : Grants(a)' = Grants(a)
          /\ IsFiniteSet(codes') /\ taken \notin codes /\ code \in codes
          /\ codes' = (codes \ {code}) \cup {taken}
      BY <1>2, SameGrants DEF DeliverIInv
    <2>7. /\ code.ask = x /\ taken.ask = x /\ code.nr = q.code /\ taken.nr = q.code
          /\ ~code.used /\ taken.used /\ code # taken
          /\ taken = [ask |-> taken.ask, nr |-> taken.nr, who |-> taken.who, used |-> taken.used]
      OBVIOUS
    <2> HIDE DEF code, taken
    <2>8. CodesOK'
      <3>1. \A c, d \in codes' : c.ask = d.ask /\ c.nr = d.nr => c = d
        BY <2>6, <2>7 DEF DeliverIInv, CodesOK
      <3>2. ASSUME NEW c \in codes'
            PROVE  /\ c.ask \in Asks /\ asks'[c.ask].step = "linked"
                   /\ c.nr \in 1..Grants(c.ask)'
                   /\ c = [ask |-> c.ask, nr |-> c.nr, who |-> c.who, used |-> c.used]
        <4>1. \E d \in codes : c.ask = d.ask /\ c.nr = d.nr
          BY <2>6, <2>7
        <4>2. c = [ask |-> c.ask, nr |-> c.nr, who |-> c.who, used |-> c.used]
          BY <2>6, <2>7 DEF DeliverIInv, CodesOK
        <4>3. Grants(c.ask)' = Grants(c.ask)
          BY <2>6
        <4>4. c.ask \in Asks /\ asks'[c.ask].step = "linked" /\ c.nr \in 1..Grants(c.ask)
          BY <1>0, <4>1 DEF DeliverIInv, CodesOK
        <4> QED
          BY <4>2, <4>3, <4>4
      <3> QED
        BY <2>6, <3>1, <3>2 DEF CodesOK, Grants
    <2>9. ASSUME NEW a \in Asks PROVE Carried(a)'
      <3>1. Carried(a)
        BY DEF DeliverIInv
      <3>2. Agreed(a) => Agreed(a)'
        BY <2>6, <2>7 DEF Agreed
      <3>3. OneCode(a)' => OneCode(a)
        <4> SUFFICES ASSUME OneCode(a)', NEW c \in codes, NEW d \in codes, c.ask = a, d.ask = a
                     PROVE  c = d
          BY DEF OneCode
        <4>1. c # code /\ d # code => c = d
          BY <2>6 DEF OneCode
        <4>2. c = code /\ d # code => FALSE
          BY <2>6, <2>7 DEF OneCode
        <4>3. d = code /\ c # code => FALSE
          BY <2>6, <2>7 DEF OneCode
        <4> QED
          BY <4>1, <4>2, <4>3
      <3>4. GivenOnce(a) => GivenOnce(a)'
        BY <1>0, <2>3, <2>4 DEF GivenOnce
      <3>5. CASE a # x
        <4>1. ASSUME NEW k, NEW z, Carries(a, k, z)'
              PROVE  Carries(a, k, z) /\ ~(k = "none" /\ z = 0)
          <5>1. z \in Logins => logins'[z] = logins[z] \/ (z = l /\ logins'[z].asked # a)
            BY <2>3, <2>4, <3>5
          <5>2. (\E c \in codes' : c.ask = a /\ ~c.used) => \E c \in codes : c.ask = a /\ ~c.used
            BY <2>6, <2>7
          <5> QED
            BY <1>0, <4>1, <5>1, <5>2 DEF Carries
        <4>2. HandedOn(a, "none", 0, "none", 0)
          BY <4>1 DEF HandedOn
        <4> QED
          BY <3>1, <3>2, <3>3, <3>4, <4>2, HandsOn DEF Carried
      <3>6. CASE a = x
        <4>1. Agreed(a)'
          BY <2>6, <2>7, <3>6 DEF Agreed
        <4>2. Carries(a, "code", 0)
          BY <2>6, <2>7, <3>6 DEF Carries
        <4>3. ASSUME OneCode(a)', NEW k, NEW z, Carries(a, k, z)'
              PROVE  \/ k = "login" /\ z = l
                     \/ Carries(a, k, z) /\ ~(k = "code" /\ z = 0)
          <5>1. z \in Logins /\ z # l => logins'[z] = logins[z]
            BY <2>4
          <5>2. ~\E c \in codes' : c.ask = a /\ ~c.used
            BY <2>6, <2>7, <3>6, <4>3 DEF OneCode
          <5>3. k # "code"
            BY <4>3, <5>2 DEF Carries
          <5>4. CASE z = l
            BY <1>0, <2>3, <2>4, <4>3, <5>3, <5>4 DEF Carries
          <5>5. CASE z # l
            BY <1>0, <4>3, <5>1, <5>3, <5>5 DEF Carries
          <5> QED
            BY <5>4, <5>5
        <4>4. OneCode(a)' => HandedOn(a, "code", 0, "login", l)
          BY <4>2, <4>3 DEF HandedOn
        <4> QED
          BY <3>1, <3>2, <3>3, <3>4, <4>1, <4>4, HandsOn DEF Carried
      <3> QED
        BY <3>5, <3>6
    <2> QED
      BY <1>0, <2>5, <2>8, <2>9 DEF DeliverIInv, Tables
  <1> QED
    BY <1>1, <1>2 DEF Exchange

\* The token is stored with the authorization; without a device no poll takes it.
LEMMA DeliverSave ==
    ASSUME Shape, DeliverIInv, NEW l \in Logins, SaveAuthorized(l)
    PROVE  DeliverIInv'
  <1> DEFINE q == logins[l]
             n == [q EXCEPT !.step = "done"]
             x == q.asked
  <1>0. /\ DOMAIN q = LoginFields /\ TokenSignIn(q, given[l]) /\ q.step = "save"
        /\ UNCHANGED <<given, codes, asks, polls>>
    BY DeliverFacts DEF SaveAuthorized
  <1>1. q.via = "provider" /\ x \in Asks
    BY <1>0 DEF TokenSignIn
  <1>2. DOMAIN n = LoginFields /\ n.step = "done" /\ n.via = q.via /\ n.asked = x /\ Becomes(l, n)
    BY <1>0 DEF SaveAuthorized, GoesTo, LoginFields
  <1> HIDE DEF n
  <1>3. /\ logins'[l] = n /\ \A k \in Logins : k # l => logins'[k] = logins[k]
    BY <1>2, Becoming
  <1>4. given \in [Logins -> Nat]
    BY DEF DeliverIInv, Tables
  <1>5. /\ DOMAIN rows' = Asks /\ \A a \in Asks : DOMAIN rows'[a] = {"status", "token"}
        /\ rows'[x].token = l /\ \A a \in Asks : a # x => rows'[a] = rows[a]
    BY <1>1 DEF SaveAuthorized, DeliverIInv, Tables
  <1>6. Tables' /\ CodesOK'
    BY <1>0, <1>4, <1>5 DEF DeliverIInv, Tables, CodesOK, Grants
  <1>7. TokensOK'
    <2>1. \A t, a : TokenOf(t, a) => TokenOf(t, a)'
      BY <1>2, <1>3 DEF TokenOf
    <2>2. \A m \in Logins : TokenSignIn(logins[m], given[m])'
      <3>1. TokenSignIn(n, given'[l])
        BY <1>0, <1>1, <1>2 DEF TokenSignIn, ByPassword
      <3> QED
        BY <1>0, <1>3, <3>1 DEF DeliverIInv, TokensOK, TokenSignIn
    <2>3. logins'[l].via = "provider" /\ logins'[l].asked = x
      BY <1>1, <1>2, <1>3
    <2>4. ASSUME NEW a \in Asks, rows'[a].status \in {"authorized", "consumed"}
          PROVE  TokenOf(rows[a].token, a)'
      <3>1. CASE a = x
        BY <1>5, <2>3, <3>1 DEF TokenOf
      <3>2. CASE a # x
        <4>1. rows'[a] = rows[a] /\ TokenOf(rows[a].token, a)
          BY <1>5, <2>4, <3>2 DEF DeliverIInv, TokensOK
        <4> QED
          BY <2>1, <4>1 DEF TokenOf
      <3> QED
        BY <3>1, <3>2
    <2>5. \A p \in Polls : /\ polls'[p].step # "idle" => polls'[p].ask \in Asks
                           /\ polls'[p].step \in {"user", "answer"} =>
                                 TokenOf(polls[p].token, polls[p].ask)'
      BY <1>0, <2>1 DEF DeliverIInv, TokensOK, TokenOf
    <2> QED
      BY <2>2, <2>4, <2>5 DEF TokensOK, TokenOf
  <1>8. ASSUME NEW a \in Asks PROVE Carried(a)'
    <2>1. Carried(a) /\ (OneCode(a)' <=> OneCode(a)) /\ (Agreed(a)' <=> Agreed(a))
      BY <1>0 DEF DeliverIInv, OneCode, Agreed
    <2>2. CASE a # x
      <3>1. ASSUME NEW k, NEW z, Carries(a, k, z)' PROVE Carries(a, k, z)
        <4>1. z \in Logins => logins'[z] = logins[z] \/ logins'[z].asked # a
          BY <1>2, <1>3, <2>2
        <4>2. rows'[a] = rows[a]
          BY <1>5, <2>2
        <4> QED
          BY <1>0, <3>1, <4>1, <4>2 DEF Carries
      <3>2. GivenOnce(a) => GivenOnce(a)'
        BY <1>0, <1>2, <1>3, <2>2 DEF GivenOnce
      <3> QED
        BY <1>0, <2>1, <3>1, <3>2, Stays
    <2>3. CASE a = x
      <3>1. Carries(a, "login", l)
        BY <1>0, <1>1, <2>3 DEF Carries, InFlight
      <3>2. Agreed(a)
        BY <2>1, <3>1 DEF Carried
      <3>3. GivenOnce(a) => GivenOnce(a)'
        BY <1>0, <1>1, <1>3, <2>3 DEF GivenOnce
      <3>4. ASSUME NEW k, NEW z, Carries(a, k, z)'
            PROVE  \/ k = "row" /\ z = 0
                   \/ Carries(a, k, z) /\ ~(k = "login" /\ z = l)
        <4>1. CASE z = l
          BY <1>0, <1>1, <1>2, <1>3, <2>3, <3>4, <4>1 DEF Carries, InFlight
        <4>2. CASE z # l
          BY <1>0, <1>3, <3>4, <4>2 DEF Carries
        <4> QED
          BY <4>1, <4>2
      <3>5. HandedOn(a, "login", l, "row", 0)
        BY <3>1, <3>4 DEF HandedOn
      <3> QED
        BY <2>1, <3>2, <3>3, <3>5, HandsOn DEF Carried
    <2> QED
      BY <2>2, <2>3
  <1> QED
    BY <1>6, <1>7, <1>8 DEF DeliverIInv

LEMMA DeliverCallbackStep ==
    ASSUME Shape, DeliverIInv, NEW l \in Logins, CallbackStep(l)
    PROVE  DeliverIInv'
  BY DeliverConfigure, DeliverExchange, DeliverSave DEF CallbackStep

\* A user who agrees once more to an authorization leaves a second code.
LEMMA DeliverGrant ==
    ASSUME DeliverIInv, NEW x \in Asks, NEW who, Grant(x, who)
    PROVE  DeliverIInv'
  <1> DEFINE S == {c \in codes : c.ask = x}
             new == [ask |-> x, nr |-> Grants(x) + 1, who |-> who, used |-> FALSE]
  <1>0. UNCHANGED <<logins, given, asks, rows, polls>> /\ asks[x].step = "linked"
    BY DEF Grant, accountVars
  <1>1. /\ codes' = codes \cup {new} /\ new.ask = x /\ new.nr = Grants(x) + 1 /\ ~new.used
        /\ new = [ask |-> new.ask, nr |-> new.nr, who |-> new.who, used |-> new.used]
    BY DEF Grant
  <1> HIDE DEF new
  <1>2. IsFiniteSet(S) /\ Grants(x) \in Nat
    BY FS_Subset, FS_CardinalityType DEF DeliverIInv, CodesOK, Grants
  <1>3. ASSUME NEW c \in codes, c.ask = x PROVE c.nr # new.nr /\ c # new
    BY <1>1, <1>2, <1>3 DEF DeliverIInv, CodesOK
  <1>4. /\ Grants(x)' = Grants(x) + 1
        /\ \A a : a # x => Grants(a)' = Grants(a)
    <2>1. {c \in codes' : c.ask = x} = S \cup {new} /\ new \notin S
      BY <1>1, <1>3
    <2>2. Cardinality(S \cup {new}) = Cardinality(S) + 1
      BY <1>2, <2>1, FS_AddElement
    <2>3. \A a : a # x => {c \in codes' : c.ask = a} = {c \in codes : c.ask = a}
      BY <1>1
    <2> QED
      BY <2>1, <2>2, <2>3 DEF Grants
  <1>5. CodesOK'
    <2>1. IsFiniteSet(codes \cup {new})
      BY FS_AddElement DEF DeliverIInv, CodesOK
    <2>2. \A c, d \in codes' : c.ask = d.ask /\ c.nr = d.nr => c = d
      BY <1>1, <1>3 DEF DeliverIInv, CodesOK
    <2>3. ASSUME NEW c \in codes'
          PROVE  /\ c.ask \in Asks /\ asks'[c.ask].step = "linked"
                 /\ c.nr \in 1..Grants(c.ask)'
                 /\ c = [ask |-> c.ask, nr |-> c.nr, who |-> c.who, used |-> c.used]
      <3>1. CASE c = new
        BY <1>0, <1>1, <1>2, <1>4, <3>1
      <3>2. CASE c \in codes
        <4>1. /\ c.ask \in Asks /\ asks'[c.ask].step = "linked" /\ c.nr \in 1..Grants(c.ask)
              /\ c = [ask |-> c.ask, nr |-> c.nr, who |-> c.who, used |-> c.used]
          BY <1>0, <3>2 DEF DeliverIInv, CodesOK
        <4> QED
          BY <1>2, <1>4, <4>1
      <3> QED
        BY <1>1, <3>1, <3>2
    <2> QED
      BY <1>1, <2>1, <2>2, <2>3, Zenon DEF CodesOK, Grants
  <1>6. Tables' /\ TokensOK'
    BY <1>0 DEF DeliverIInv, Tables, TokensOK, TokenSignIn, TokenOf
  <1>7. ASSUME NEW a \in Asks PROVE Carried(a)'
    <2>1. Carried(a)
      BY DEF DeliverIInv
    <2>2. \A k, z : Carries(a, k, z)' => Carries(a, k, z) \/ (k = "code" /\ z = 0)
      BY <1>0 DEF Carries
    <2>3. CASE a = x
      <3>1. Agreed(a)'
        BY <1>1, <2>3 DEF Agreed
      <3>2. ASSUME OneCode(a)' PROVE OnePlace(a)' /\ GivenOnce(a)'
        <4>1. ~Agreed(a)
          BY <1>1, <1>3, <2>3, <3>2 DEF Agreed, OneCode
        <4>2. \A k, z : Carries(a, k, z)' => k = "code" /\ z = 0
          BY <2>1, <2>2, <4>1 DEF Carried
        <4>3. GivenOnce(a)
          BY <2>1, <4>1 DEF Carried, OneCode, Agreed
        <4>4. OnePlace(a)'
          BY <4>2 DEF OnePlace
        <4>5. GivenOnce(a)'
          BY <1>0, <4>3 DEF GivenOnce
        <4> QED
          BY <4>4, <4>5
      <3> QED
        BY <3>1, <3>2 DEF Carried
    <2>4. CASE a # x
      <3>1. /\ \A c \in codes' : c.ask = a => c \in codes
            /\ \A c \in codes : c \in codes'
        BY <1>1, <2>4
      <3>2. (OneCode(a)' <=> OneCode(a)) /\ (Agreed(a)' <=> Agreed(a))
        BY <3>1 DEF OneCode, Agreed
      <3>3. \A k, z : Carries(a, k, z)' => Carries(a, k, z) /\ ~(k = "none" /\ z = 0)
        BY <1>0, <3>1 DEF Carries
      <3>4. HandedOn(a, "none", 0, "none", 0)
        BY <3>3 DEF HandedOn
      <3>5. GivenOnce(a)' <=> GivenOnce(a)
        BY <1>0 DEF GivenOnce
      <3> QED
        BY <2>1, <3>2, <3>4, <3>5, HandsOn DEF Carried
    <2> QED
      BY <2>3, <2>4
  <1> QED
    BY <1>5, <1>6, <1>7 DEF DeliverIInv

\* What touches neither a sign-in, nor a code, nor a poll, and adds no token.
LEMMA DeliverFades ==
    ASSUME DeliverIInv, UNCHANGED <<logins, given, codes, polls>>, RowsFade,
           DOMAIN asks' = Asks, \A a \in Asks : DOMAIN asks'[a] = AskFields,
           \A a \in Asks : asks'[a].device = asks[a].device \/ rows'[a].status # "authorized",
           \A a \in Asks : asks[a].step = "linked" => asks'[a].step = "linked"
    PROVE  DeliverIInv'
  <1>1. Tables' /\ CodesOK'
    BY DEF DeliverIInv, Tables, CodesOK, Grants, RowsFade
  <1>2. TokensOK'
    BY DEF DeliverIInv, TokensOK, TokenOf, TokenSignIn, RowsFade
  <1>3. ASSUME NEW a \in Asks PROVE Carried(a)'
    <2>1. \A k, z : Carries(a, k, z)' => Carries(a, k, z)
      BY DEF Carries, RowsFade
    <2>2. GivenOnce(a) => GivenOnce(a)'
      BY DEF GivenOnce
    <2> QED
      BY <2>1, <2>2, Stays DEF DeliverIInv
  <1> QED
    BY <1>1, <1>2, <1>3 DEF DeliverIInv

LEMMA DeliverAsk ==
    ASSUME DeliverIInv, NEW x \in Asks,
           \/ LinkStep(x) \/ Ages(x)
           \/ \E p \in Providers, d \in Devices \cup {None}, web \in BOOLEAN :
                 RequestAuth(x, p, d, web)
    PROVE  DeliverIInv'
  <1>0. /\ UNCHANGED <<logins, given, codes, polls>>
        /\ DOMAIN asks = Asks /\ \A a \in Asks : DOMAIN asks[a] = AskFields
    BY DEF LinkStep, LinkFromCache, DiscoverForLink, BuildLink, Ages, RequestAuth, accountVars, stateVars,
           DeliverIInv, Tables
  <1>1. CASE Ages(x)
    BY <1>0, <1>1, RowsStay, DeliverFades DEF Ages
  <1>2. ASSUME UNCHANGED rows,
               \/ \E t : Answered(x, t)
               \/ asks' = [asks EXCEPT ![x].step = "discover"] /\ asks[x].step = "saved"
        PROVE  DeliverIInv'
    <2>1. CASE \E t : Answered(x, t)
      <3>1. PICK t : asks' = [asks EXCEPT ![x].step = "linked", ![x].link = t]
        BY <2>1 DEF Answered
      <3>2. /\ DOMAIN asks' = Asks
            /\ \A a \in Asks : DOMAIN asks'[a] = AskFields /\ asks'[a].device = asks[a].device
            /\ \A a \in Asks : asks[a].step = "linked" => asks'[a].step = "linked"
        BY <1>0, <3>1 DEF AskFields
      <3> QED
        BY <1>0, <1>2, <3>2, RowsStay, DeliverFades
    <2>2. CASE asks' = [asks EXCEPT ![x].step = "discover"] /\ asks[x].step = "saved"
      <3>1. /\ DOMAIN asks' = Asks
            /\ \A a \in Asks : DOMAIN asks'[a] = AskFields /\ asks'[a].device = asks[a].device
            /\ \A a \in Asks : asks[a].step = "linked" => asks'[a].step = "linked"
        BY <1>0, <2>2 DEF AskFields
      <3> QED
        BY <1>0, <1>2, <3>1, RowsStay, DeliverFades
    <2> QED
      BY <1>2, <2>1, <2>2
  <1>3. ASSUME NEW p, NEW d, NEW web, RequestAuth(x, p, d, web) PROVE DeliverIInv'
    <2>1. /\ DOMAIN asks' = Asks /\ \A a \in Asks : a # x => asks'[a] = asks[a]
          /\ DOMAIN asks'[x] = AskFields /\ asks[x].step = "new"
      BY <1>0, <1>3 DEF RequestAuth, NoAsk, AskFields
    <2>2. /\ RowsFade /\ \A a \in Asks : a = x => rows'[a].status # "authorized"
      BY <1>3 DEF RequestAuth, RowsFade, DeliverIInv, Tables
    <2> QED
      BY <1>0, <2>1, <2>2, DeliverFades
  <1>4. CASE LinkFromCache(x)
    BY <1>2, <1>4 DEF LinkFromCache, stateVars
  <1>5. CASE DiscoverForLink(x)
    BY <1>2, <1>5 DEF DiscoverForLink, stateVars
  <1>6. CASE BuildLink(x)
    BY <1>2, <1>6 DEF BuildLink, stateVars
  <1> QED
    BY <1>1, <1>3, <1>4, <1>5, <1>6 DEF LinkStep

\* The poll that takes an authorization takes its consent; nothing a poll does
\* afterwards leaves it with two.
LEMMA PollsMove ==
    ASSUME DeliverIInv, UNCHANGED <<logins, codes, asks>>, Tables',
           \A p \in Polls : /\ polls'[p].step # "idle" => polls'[p].ask \in Asks
                            /\ polls'[p].step \in {"user", "answer"} =>
                                   TokenOf(polls'[p].token, polls'[p].ask),
           \A a \in Asks : rows'[a].status \in {"authorized", "consumed"} => rows'[a].token = rows[a].token
                                       /\ rows[a].status \in {"authorized", "consumed"},
           \A m \in Logins : logins[m].via # "provider" => given'[m] = given[m]
    PROVE  TokensOK' /\ CodesOK' /\ \A a \in Asks : (Agreed(a)' <=> Agreed(a)) /\ (OneCode(a)' <=> OneCode(a))
  <1>1. CodesOK' /\ \A a \in Asks : (Agreed(a)' <=> Agreed(a)) /\ (OneCode(a)' <=> OneCode(a))
    BY DEF DeliverIInv, CodesOK, Grants, Agreed, OneCode
  <1>2. \A m \in Logins : TokenSignIn(logins[m], given[m])'
    BY DEF DeliverIInv, TokensOK, TokenSignIn
  <1>3. \A a \in Asks : rows'[a].status \in {"authorized", "consumed"} => TokenOf(rows[a].token, a)'
    BY DEF DeliverIInv, TokensOK, TokenOf
  <1>4. \A p \in Polls : /\ polls'[p].step # "idle" => polls'[p].ask \in Asks
                         /\ polls'[p].step \in {"user", "answer"} =>
                               TokenOf(polls[p].token, polls[p].ask)'
    BY DEF TokenOf
  <1> QED
    BY <1>1, <1>2, <1>3, <1>4 DEF TokensOK

LEMMA DeliverQuery ==
    ASSUME DeliverIInv, NEW p \in Polls, NEW x \in Asks, QueryAuth(p, x)
    PROVE  DeliverIInv'
  <1>0. /\ UNCHANGED <<logins, given, codes, asks>> /\ polls[p].step = "idle"
        /\ asks[x].device \in Devices /\ rows[x].status = "authorized"
    BY DEF QueryAuth, ToTake, accountVars
  <1>1. /\ DOMAIN rows' = Asks /\ \A a \in Asks : DOMAIN rows'[a] = {"status", "token"}
        /\ rows'[x].status = "consumed" /\ rows'[x].token = rows[x].token
        /\ \A a \in Asks : a # x => rows'[a] = rows[a]
    BY DEF QueryAuth, DeliverIInv, Tables
  <1>2. /\ DOMAIN polls' = Polls /\ \A o \in Polls : DOMAIN polls'[o] = {"step", "ask", "token"}
        /\ polls'[p].step = "reread" /\ polls'[p].ask = x
        /\ \A o \in Polls : o # p => polls'[o] = polls[o]
    BY DEF QueryAuth, DeliverIInv, Tables
  <1>3. Tables'
    BY <1>0, <1>1, <1>2 DEF DeliverIInv, Tables
  <1>4. TokensOK' /\ CodesOK' /\ \A a \in Asks : (Agreed(a)' <=> Agreed(a)) /\ (OneCode(a)' <=> OneCode(a))
    <2>1. ASSUME NEW o \in Polls
          PROVE  /\ polls'[o].step # "idle" => polls'[o].ask \in Asks
                 /\ polls'[o].step \in {"user", "answer"} => TokenOf(polls'[o].token, polls'[o].ask)
      BY <1>2 DEF DeliverIInv, TokensOK
    <2>2. \A a \in Asks : rows'[a].status \in {"authorized", "consumed"} => rows'[a].token = rows[a].token
                                       /\ rows[a].status \in {"authorized", "consumed"}
      BY <1>0, <1>1
    <2> QED
      BY <1>0, <1>3, <2>1, <2>2, PollsMove
  <1>5. ASSUME NEW a \in Asks PROVE Carried(a)'
    <2>1. Carried(a) /\ (GivenOnce(a) => GivenOnce(a)')
      BY <1>0 DEF DeliverIInv, GivenOnce
    <2>2. CASE a = x
      <3>1. Carries(a, "row", 0)
        BY <1>0, <2>2 DEF Carries
      <3>2. \A k, z : Carries(a, k, z)' => \/ k = "poll" /\ z = p
                                           \/ Carries(a, k, z) /\ ~(k = "row" /\ z = 0)
        BY <1>0, <1>1, <1>2, <2>2 DEF Carries
      <3>3. HandedOn(a, "row", 0, "poll", p)
        BY <3>1, <3>2 DEF HandedOn
      <3> QED
        BY <1>4, <2>1, <3>3, HandsOn DEF Carried
    <2>3. CASE a # x
      <3>1. \A k, z : Carries(a, k, z)' => Carries(a, k, z)
        BY <1>0, <1>1, <1>2, <2>3 DEF Carries
      <3> QED
        BY <1>0, <2>1, <3>1, Stays
    <2> QED
      BY <2>2, <2>3
  <1> QED
    BY <1>3, <1>4, <1>5 DEF DeliverIInv

LEMMA DeliverRead ==
    ASSUME DeliverIInv, NEW p \in Polls, Reread(p) \/ ReadUser(p)
    PROVE  DeliverIInv'
  <1>0. UNCHANGED <<logins, given, codes, asks, rows>> /\ polls[p].step # "idle"
    BY DEF Reread, ReadUser, accountVars
  <1>1. /\ DOMAIN polls' = Polls /\ \A o \in Polls : DOMAIN polls'[o] = {"step", "ask", "token"}
        /\ \A o \in Polls : o # p => polls'[o] = polls[o]
        /\ polls'[p].step # "idle" => polls'[p].ask = polls[p].ask
    <2>1. PICK n : polls' = [polls EXCEPT ![p] = n]
      BY DEF Reread, ReadUser
    <2>2. DOMAIN polls' = Polls /\ polls'[p] = n /\ \A o \in Polls : o # p => polls'[o] = polls[o]
      BY <2>1 DEF DeliverIInv, Tables
    <2>3. DOMAIN n = {"step", "ask", "token"} /\ (n.step # "idle" => n.ask = polls[p].ask)
      <3>1. CASE Reread(p)
        BY <2>2, <3>1 DEF Reread, NoPoll, DeliverIInv, Tables
      <3>2. CASE ReadUser(p)
        BY <2>2, <3>2 DEF ReadUser, NoPoll, DeliverIInv, Tables
      <3> QED
        BY <3>1, <3>2
    <2> QED
      BY <2>2, <2>3 DEF DeliverIInv, Tables
  <1>2. polls'[p].step \in {"user", "answer"} => TokenOf(polls'[p].token, polls'[p].ask)
    <2>1. CASE Reread(p)
      <3>1. polls'[p].step \in {"user", "answer"} =>
                /\ rows[polls[p].ask].status = "consumed" /\ polls'[p].token = rows[polls[p].ask].token
                /\ polls'[p].ask = polls[p].ask
        BY <2>1 DEF Reread, NoPoll, DeliverIInv, Tables
      <3> QED
        BY <1>0, <3>1 DEF DeliverIInv, TokensOK
    <2>2. CASE ReadUser(p)
      <3>1. polls'[p].step \in {"user", "answer"} =>
                /\ polls'[p].token = polls[p].token /\ polls'[p].ask = polls[p].ask /\ polls[p].step = "user"
        BY <2>2 DEF ReadUser, NoPoll, DeliverIInv, Tables
      <3> QED
        BY <3>1 DEF DeliverIInv, TokensOK
    <2> QED
      BY <2>1, <2>2
  <1>3. Tables'
    BY <1>0, <1>1 DEF DeliverIInv, Tables
  <1>4. TokensOK' /\ CodesOK'
    <2>1. ASSUME NEW o \in Polls
          PROVE  /\ polls'[o].step # "idle" => polls'[o].ask \in Asks
                 /\ polls'[o].step \in {"user", "answer"} => TokenOf(polls'[o].token, polls'[o].ask)
      BY <1>0, <1>1, <1>2 DEF DeliverIInv, TokensOK
    <2> QED
      BY <1>0, <1>3, <2>1, PollsMove
  <1>5. ASSUME NEW a \in Asks PROVE Carried(a)'
    <2>1. \A k, z : Carries(a, k, z)' => Carries(a, k, z)
      BY <1>0, <1>1 DEF Carries
    <2>2. Carried(a) /\ (GivenOnce(a) => GivenOnce(a)')
      BY <1>0 DEF DeliverIInv, GivenOnce
    <2> QED
      BY <1>0, <2>1, <2>2, Stays
  <1> QED
    BY <1>3, <1>4, <1>5 DEF DeliverIInv

LEMMA DeliverAnswer ==
    ASSUME DeliverIInv, NEW p \in Polls, Answer(p)
    PROVE  DeliverIInv'
  <1>0. PICK x, t : x = polls[p].ask /\ t = polls[p].token
    OBVIOUS
  <1>1. /\ UNCHANGED <<logins, codes, asks>> /\ polls[p].step = "answer"
        /\ x \in Asks /\ t \in Logins /\ logins[t].via = "provider" /\ logins[t].asked = x
    BY <1>0 DEF Answer, DeliverIInv, TokensOK, TokenOf
  <1>2. /\ DOMAIN rows' = Asks /\ \A a \in Asks : DOMAIN rows'[a] = {"status", "token"}
        /\ rows'[x].status = None
        /\ \A a \in Asks : a # x => rows'[a] = rows[a]
    BY <1>0, <1>1 DEF Answer, NoState, DeliverIInv, Tables
  <1>3. /\ DOMAIN polls' = Polls /\ \A o \in Polls : DOMAIN polls'[o] = {"step", "ask", "token"}
        /\ polls'[p].step = "idle"
        /\ \A o \in Polls : o # p => polls'[o] = polls[o]
    BY DEF Answer, NoPoll, DeliverIInv, Tables
  <1>4. /\ given' \in [Logins -> Nat] /\ given'[t] = given[t] + 1
        /\ \A m \in Logins : m # t => given'[m] = given[m]
    <2>1. given' = [given EXCEPT ![t] = @ + 1] /\ given \in [Logins -> Nat]
      BY <1>0 DEF Answer, DeliverIInv, Tables
    <2>2. given[t] + 1 \in Nat
      BY <1>1, <2>1
    <2>3. given' \in [Logins -> Nat]
      BY <1>1, <2>1, <2>2
    <2> QED
      BY <1>1, <2>1, <2>3
  <1>5. Tables'
    BY <1>1, <1>2, <1>3, <1>4 DEF DeliverIInv, Tables
  <1>6. TokensOK' /\ CodesOK' /\ \A a \in Asks : (Agreed(a)' <=> Agreed(a)) /\ (OneCode(a)' <=> OneCode(a))
    <2>1. ASSUME NEW o \in Polls
          PROVE  /\ polls'[o].step # "idle" => polls'[o].ask \in Asks
                 /\ polls'[o].step \in {"user", "answer"} => TokenOf(polls'[o].token, polls'[o].ask)
      BY <1>3 DEF DeliverIInv, TokensOK
    <2>2. \A a \in Asks : rows'[a].status \in {"authorized", "consumed"} => rows'[a].token = rows[a].token
                                       /\ rows[a].status \in {"authorized", "consumed"}
      BY <1>2
    <2>3. \A m \in Logins : logins[m].via # "provider" => given'[m] = given[m]
      BY <1>1, <1>4
    <2> QED
      BY <1>1, <1>5, <2>1, <2>2, <2>3, PollsMove
  <1>7. ASSUME NEW a \in Asks PROVE Carried(a)'
    <2>1. Carried(a)
      BY DEF DeliverIInv
    <2>2. CASE a = x
      <3>1. Carries(a, "poll", p)
        BY <1>0, <1>1, <2>2 DEF Carries
      <3>2. \A k, z : Carries(a, k, z)' => \/ k = "given" /\ z = t
                                           \/ Carries(a, k, z) /\ ~(k = "poll" /\ z = p)
        BY <1>1, <1>2, <1>3, <1>4, <2>2 DEF Carries
      <3>3. HandedOn(a, "poll", p, "given", t)
        BY <3>1, <3>2 DEF HandedOn
      <3>4. ASSUME OneCode(a) PROVE GivenOnce(a)'
        <4>1. ~Carries(a, "given", t)
          BY <2>1, <3>1, <3>4 DEF Carried, OnePlace
        <4>2. given[t] = 0
          <5>1. given[t] \in Nat
            BY <1>1 DEF DeliverIInv, Tables
          <5>2. ~(given[t] > 0)
            BY <1>1, <2>2, <4>1 DEF Carries
          <5> QED
            BY <5>1, <5>2
        <4>3. given'[t] <= 1
          BY <1>4, <4>2
        <4> QED
          BY <1>1, <1>4, <2>1, <3>4, <4>3 DEF GivenOnce, Carried
      <3> QED
        BY <1>6, <2>1, <3>3, <3>4, HandsOn
    <2>3. CASE a # x
      <3>1. \A k, z : Carries(a, k, z)' => Carries(a, k, z)
        BY <1>1, <1>2, <1>3, <1>4, <2>3 DEF Carries
      <3>2. GivenOnce(a) => GivenOnce(a)'
        BY <1>1, <1>4, <2>3 DEF GivenOnce
      <3> QED
        BY <1>1, <2>1, <3>1, <3>2, Stays
    <2> QED
      BY <2>2, <2>3
  <1> QED
    BY <1>5, <1>6, <1>7 DEF DeliverIInv

LEMMA DeliverOidc ==
    ASSUME Shape, DeliverIInv, OidcNext
    PROVE  DeliverIInv'
  <1>0. DOMAIN asks = Asks /\ \A a \in Asks : DOMAIN asks[a] = AskFields
    BY DEF DeliverIInv, Tables
  <1>1. CASE Cleanup
    <2>1. RowsFade /\ UNCHANGED <<logins, given, codes, polls, asks>>
      BY <1>1 DEF Cleanup, NoState, RowsFade, DeliverIInv, Tables, accountVars
    <2> QED
      BY <1>0, <2>1, DeliverFades
  <1>2. ASSUME UNCHANGED <<logins, given, codes, polls, asks, rows>> PROVE DeliverIInv'
    BY <1>0, <1>2, RowsStay, DeliverFades
  <1>3. CASE Administered
    BY <1>2, <1>3, AdministersOnly DEF accountVars, stateVars
  <1>4. CASE \E a \in Asks :
          \/ LinkStep(a) \/ Ages(a)
          \/ \E p \in Providers, d \in Devices \cup {None}, web \in BOOLEAN :
                RequestAuth(a, p, d, web)
          \/ \E who \in DOMAIN ProviderOf : Grant(a, who)
          \/ \E p \in Polls : QueryAuth(p, a)
    BY <1>4, DeliverAsk, DeliverGrant, DeliverQuery
  <1>5. CASE \E l \in Logins : CallbackStep(l) \/ \E c \in codes : Callback(l, c)
    BY <1>5, DeliverCallback, DeliverCallbackStep
  <1>6. CASE \E p \in Polls : PollStep(p)
    BY <1>6, DeliverRead, DeliverAnswer DEF PollStep
  <1> QED
    BY <1>1, <1>3, <1>4, <1>5, <1>6 DEF OidcNext, Administered

LEMMA DeliverInit == Init => DeliverIInv
  <1> SUFFICES ASSUME Init PROVE DeliverIInv
    OBVIOUS
  <1>1. /\ logins = [l \in Logins |-> NoLogin] /\ given = [l \in Logins |-> 0] /\ codes = {}
        /\ asks = [a \in Asks |-> NoAsk] /\ rows = [a \in Asks |-> NoState]
        /\ polls = [p \in Polls |-> NoPoll]
    BY DEF Init, AccountInit, OidcInit
  <1>2. Tables
    BY <1>1 DEF Tables, NoAsk, NoState, NoPoll, AskFields
  <1>3. CodesOK
    BY <1>1, FS_EmptySet DEF CodesOK
  <1>4. NoLogin.step = "new" /\ NoLogin.via = None
    BY DEF NoLogin
  <1>5. TokensOK
    BY <1>1, <1>4 DEF TokensOK, TokenSignIn, NoState, NoPoll
  <1>6. ASSUME NEW a \in Asks PROVE Carried(a)
    <2>1. \A k, z : ~Carries(a, k, z)
      BY <1>1, <1>4 DEF Carries, NoState, NoPoll
    <2> QED
      BY <1>1, <1>4, <2>1 DEF Carried, OnePlace, GivenOnce
  <1> QED
    BY <1>2, <1>3, <1>5, <1>6 DEF DeliverIInv

LEMMA DeliverStep == OwnIInv /\ DeliverIInv /\ [Next]_vars => DeliverIInv'
  <1> SUFFICES ASSUME OwnIInv, DeliverIInv, [Next]_vars PROVE DeliverIInv'
    OBVIOUS
  <1>0. Shape /\ DOMAIN asks = Asks /\ \A a \in Asks : DOMAIN asks[a] = AskFields
    BY DEF OwnIInv, DeliverIInv, Tables
  <1>1. ASSUME UNCHANGED <<logins, given, oidcVars>> PROVE DeliverIInv'
    BY <1>0, <1>1, RowsStay, DeliverFades DEF oidcVars
  <1>2. CASE UNCHANGED vars
    BY <1>1, <1>2 DEF vars, accountVars
  <1>3. CASE OidcNext
    BY <1>0, <1>3, DeliverOidc
  <1>4. CASE LdapNext /\ UNCHANGED oidcVars
    BY <1>0, <1>4, DeliverLdap
  <1>5. CASE (\E l \in Logins : AccountStep(l)) /\ UNCHANGED oidcVars
    BY <1>0, <1>5, DeliverAccount
  <1>6. CASE /\ (\E u \in Rows : SetStatus(u)) \/ \E u \in Logins : DeleteUser(u)
             /\ UNCHANGED oidcVars
    BY <1>1, <1>6 DEF SetStatus, DeleteUser
  <1> QED
    BY <1>2, <1>3, <1>4, <1>5, <1>6 DEF Next

(***************************************************************************)
(* The two ways a token may take: a page gets it only if one was named, a  *)
(* poll only if a device was.                                              *)
(***************************************************************************)

\* A sign-in stays that of the authorization it was asked for by.
Asker ==
    \A m \in Logins :
        /\ logins[m].via = "provider" => /\ logins'[m].via = "provider"
                                         /\ logins'[m].asked = logins[m].asked
        /\ logins'[m].via = "provider" => logins[m].via = "provider" \/ given[m] = 0

\* What was asked for stays as it was once somebody agreed.
AsksStay ==
    \A a \in Asks : Agreed(a) => /\ Agreed(a)'
                                 /\ asks'[a].web = asks[a].web
                                 /\ asks'[a].device = asks[a].device

Polled(a) == asks[a].device \in Devices
ShownOK(l) ==
    /\ l \in Logins /\ logins[l].via = "provider" /\ logins[l].asked \in Asks
    /\ Agreed(logins[l].asked) /\ asks[logins[l].asked].web

WaysIInv ==
    /\ \A l \in shown : ShownOK(l)
    /\ \A p \in Polls : polls[p].step # "idle" => Polled(polls[p].ask)
    /\ \A l \in Logins : given[l] > 0 /\ logins[l].via = "provider" => Polled(logins[l].asked)

LEMMA WaysKeep ==
    ASSUME DeliverIInv, WaysIInv, Asker, AsksStay,
           \A l \in shown' : l \in shown \/ ShownOK(l)',
           \A p \in Polls : \/ polls'[p].step = "idle"
                            \/ polls[p].step # "idle" /\ polls'[p].ask = polls[p].ask
                            \/ Polled(polls[p].ask)',
           \A l \in Logins : given'[l] > 0 /\ logins'[l].via = "provider" =>
                                 given[l] > 0 \/ Polled(logins[l].asked)'
    PROVE  WaysIInv'
  <1>1. \A l \in shown' : ShownOK(l)'
    BY DEF WaysIInv, ShownOK, Asker, AsksStay
  <1>2. ASSUME NEW p \in Polls, polls'[p].step # "idle" PROVE Polled(polls[p].ask)'
    <2>1. CASE polls[p].step # "idle" /\ polls'[p].ask = polls[p].ask
      <3>1. /\ polls[p].ask \in Asks /\ Carries(polls[p].ask, "poll", p) /\ Polled(polls[p].ask)
        BY <2>1 DEF DeliverIInv, TokensOK, Carries, WaysIInv
      <3>2. Agreed(polls[p].ask)
        BY <3>1 DEF DeliverIInv, Carried
      <3> QED
        BY <2>1, <3>1, <3>2 DEF AsksStay, Polled
    <2> QED
      BY <1>2, <2>1
  <1>3. ASSUME NEW l \in Logins, given'[l] > 0, logins'[l].via = "provider"
        PROVE  Polled(logins[l].asked)'
    <2>1. CASE given[l] > 0
      <3>1. logins[l].via = "provider" /\ logins'[l].asked = logins[l].asked
        BY <1>3, <2>1 DEF Asker
      <3>2. /\ logins[l].asked \in Asks /\ Carries(logins[l].asked, "given", l)
            /\ Polled(logins[l].asked)
        BY <2>1, <3>1 DEF DeliverIInv, TokensOK, TokenSignIn, Carries, WaysIInv
      <3>3. Agreed(logins[l].asked)
        BY <3>2 DEF DeliverIInv, Carried
      <3> QED
        BY <3>1, <3>2, <3>3 DEF AsksStay, Polled
    <2> QED
      BY <1>3, <2>1
  <1> QED
    BY <1>1, <1>2, <1>3 DEF WaysIInv

\* A step of the sign-ins alone.
LEMMA WaysSignIn ==
    ASSUME DeliverIInv, WaysIInv, Asker, UNCHANGED <<codes, asks, polls, shown>>,
           \A l \in Logins : given'[l] > 0 /\ logins'[l].via = "provider" => given[l] > 0
    PROVE  WaysIInv'
  <1>1. AsksStay
    BY DEF AsksStay, Agreed
  <1> QED
    BY <1>1, WaysKeep DEF Polled

\* Whatever leaves the sign-ins as they are.
LEMMA WaysStay ==
    ASSUME DeliverIInv, WaysIInv, AsksStay, UNCHANGED <<logins, given, polls, shown>>
    PROVE  WaysIInv'
  <1>1. Asker
    BY DEF Asker
  <1> QED
    BY <1>1, WaysKeep DEF Polled

LEMMA BecomesAsked ==
    ASSUME Shape, DeliverIInv, NEW l \in Logins, NEW q, DOMAIN q = LoginFields, Becomes(l, q),
           \/ q.via = logins[l].via /\ q.asked = logins[l].asked
           \/ /\ logins[l].via # "provider"
              /\ q.via = "provider" => logins[l].step = "new"
    PROVE  Asker
  <1>1. logins'[l] = q /\ \A m \in Logins : m # l => logins'[m] = logins[m]
    BY Becoming
  <1>2. logins[l].via # "provider" /\ logins[l].step = "new" => given[l] = 0
    BY DEF DeliverIInv, TokensOK, TokenSignIn
  <1> QED
    BY <1>1, <1>2 DEF Asker

LEMMA GoesAsked ==
    ASSUME Shape, DeliverIInv, NEW l \in Logins, NEW s, GoesTo(l, s)
    PROVE  Asker
  <1> DEFINE n == [logins[l] EXCEPT !.step = s]
  <1>1. /\ DOMAIN n = LoginFields /\ n.via = logins[l].via /\ n.asked = logins[l].asked
        /\ Becomes(l, n)
    BY DEF Shape, LoginFields, GoesTo
  <1> HIDE DEF n
  <1> QED
    BY <1>1, BecomesAsked

LEMMA AccountAsked ==
    ASSUME Shape, DeliverIInv, NEW l \in Logins, AccountStep(l)
    PROVE  Asker
  <1> DEFINE q == logins[l]
             Same(n) == DOMAIN n = LoginFields /\ n.via = q.via /\ n.asked = q.asked
  <1>0. DOMAIN q = LoginFields
    BY DEF Shape
  <1>1. CASE Find(l)
    <2>1. \E x, y, z, s :
              \/ Becomes(l, [q EXCEPT !.user = x, !.status = y, !.suffix = z, !.step = s])
              \/ Becomes(l, [q EXCEPT !.step = "name", !.attempt = 1])
      BY <1>1, Zenon DEF Find
    <2>2. PICK x, y, z, s :
              \/ Becomes(l, [q EXCEPT !.user = x, !.status = y, !.suffix = z, !.step = s])
              \/ Becomes(l, [q EXCEPT !.step = "name", !.attempt = 1])
      BY <2>1
    <2>3. /\ Same([q EXCEPT !.user = x, !.status = y, !.suffix = z, !.step = s])
          /\ Same([q EXCEPT !.step = "name", !.attempt = 1])
      BY <1>0 DEF LoginFields
    <2> QED
      BY <2>2, <2>3, BecomesAsked
  <1>2. CASE PickName(l)
    <2>1. \E x, y : \/ Becomes(l, [q EXCEPT !.step = "insert", !.suffix = x, !.next = y])
                    \/ Becomes(l, [q EXCEPT !.step = "insert"])
      BY <1>2 DEF PickName
    <2>2. PICK x, y : \/ Becomes(l, [q EXCEPT !.step = "insert", !.suffix = x, !.next = y])
                      \/ Becomes(l, [q EXCEPT !.step = "insert"])
      BY <2>1
    <2>3. /\ Same([q EXCEPT !.step = "insert", !.suffix = x, !.next = y])
          /\ Same([q EXCEPT !.step = "insert"])
      BY <1>0 DEF LoginFields
    <2> QED
      BY <2>2, <2>3, BecomesAsked
  <1>3. CASE Insert(l)
    <2>1. \E x, y, z, s :
              \/ Becomes(l, [q EXCEPT !.user = l, !.status = "active", !.step = s])
              \/ Becomes(l, [q EXCEPT !.step = "name", !.attempt = x, !.suffix = y, !.next = z])
              \/ Becomes(l, [q EXCEPT !.step = s])
      BY <1>3 DEF Insert, GoesTo
    <2>2. PICK x, y, z, s :
              \/ Becomes(l, [q EXCEPT !.user = l, !.status = "active", !.step = s])
              \/ Becomes(l, [q EXCEPT !.step = "name", !.attempt = x, !.suffix = y, !.next = z])
              \/ Becomes(l, [q EXCEPT !.step = s])
      BY <2>1
    <2>3. /\ Same([q EXCEPT !.user = l, !.status = "active", !.step = s])
          /\ Same([q EXCEPT !.step = "name", !.attempt = x, !.suffix = y, !.next = z])
          /\ Same([q EXCEPT !.step = s])
      BY <1>0 DEF LoginFields
    <2> QED
      BY <2>2, <2>3, BecomesAsked
  <1>4. CASE Bind(l)
    BY <1>4, GoesAsked DEF Bind
  <1>5. CASE Issue(l)
    BY <1>5, GoesAsked DEF Issue
  <1> QED
    BY <1>1, <1>2, <1>3, <1>4, <1>5 DEF AccountStep

LEMMA PasswordAsked ==
    ASSUME Shape, DeliverIInv, NEW l \in Logins,
           PasswordStep(l) \/ \E name, who, d : TypeName(l, name, who, d)
    PROVE  Asker
  <1> DEFINE q == logins[l]
  <1>0. DOMAIN q = LoginFields /\ TokenSignIn(q, given[l])
    BY DeliverFacts
  <1>1. CASE AskDirectory(l)
    <2>1. CASE \E m \in MailsOf[q.who] : Becomes(l, [q EXCEPT !.step = "find", !.mail = m])
      <3> DEFINE Same(n) == DOMAIN n = LoginFields /\ n.via = q.via /\ n.asked = q.asked
      <3>1. \A m : Same([q EXCEPT !.step = "find", !.mail = m])
        BY <1>0 DEF LoginFields
      <3>2. PICK n : Becomes(l, n) /\ Same(n)
        BY <2>1, <3>1
      <3> QED
        BY <3>2, BecomesAsked
    <2> QED
      BY <1>1, <2>1, GoesAsked DEF AskDirectory
  <1>2. CASE SyncMail(l)
    BY <1>2, GoesAsked DEF SyncMail
  <1>3. CASE CheckStatus(l)
    <2>1. PICK s : GoesTo(l, s)
      BY <1>3 DEF CheckStatus
    <2> QED
      BY <2>1, GoesAsked
  <1>4. CASE LocalLogin(l)
    <2>0. q.via # "provider"
      BY <1>0, <1>4 DEF LocalLogin, TokenSignIn, ByPassword
    <2>1. CASE \E u : Becomes(l, [q EXCEPT !.step = "bind", !.via = "password", !.user = u])
      <3>1. PICK u : Becomes(l, [q EXCEPT !.step = "bind", !.via = "password", !.user = u])
        BY <2>1
      <3> DEFINE n == [q EXCEPT !.step = "bind", !.via = "password", !.user = u]
      <3>2. Becomes(l, n) /\ DOMAIN n = LoginFields /\ n.via = "password"
        BY <1>0, <3>1 DEF LoginFields
      <3> HIDE DEF n
      <3> QED
        BY <2>0, <3>2, BecomesAsked
    <2> QED
      BY <1>4, <2>1, GoesAsked DEF LocalLogin
  <1>5. CASE \E name, who, d : TypeName(l, name, who, d)
    <2> DEFINE n(name, who, d, v) == [[NoLogin EXCEPT !.asked = name, !.who = who, !.device = d]
                                         EXCEPT !.step = "ldap", !.via = v]
    <2>1. /\ \E name, who, d : \E v \in {"enforced", "directory"} : Becomes(l, n(name, who, d, v))
          /\ q.step = "new"
      BY <1>5 DEF TypeName, Arrives
    <2>2. \A name, who, d, v : /\ DOMAIN n(name, who, d, v) = LoginFields
                               /\ n(name, who, d, v).via = v
      BY DEF NoLogin, LoginFields
    <2> HIDE DEF n
    <2>3. PICK m : Becomes(l, m) /\ DOMAIN m = LoginFields /\ m.via \in {"enforced", "directory"}
      BY <2>1, <2>2
    <2>4. q.via # "provider"
      BY <1>0, <2>1 DEF TokenSignIn, ByPassword
    <2> QED
      BY <2>3, <2>4, BecomesAsked
  <1> QED
    BY <1>1, <1>2, <1>3, <1>4, <1>5 DEF PasswordStep

\* A callback, and what it leads to, up to the row.
LEMMA CallbackAsked ==
    ASSUME Shape, DeliverIInv, NEW l \in Logins, CallbackStep(l)
    PROVE  Asker
  <1> DEFINE q == logins[l]
             Same(n) == DOMAIN n = LoginFields /\ n.via = q.via /\ n.asked = q.asked
  <1>0. DOMAIN q = LoginFields
    BY DEF Shape
  <1>1. CASE SaveExpired(l) \/ Discover(l) \/ Configure(l) \/ SaveAuthorized(l)
    BY <1>1, GoesAsked DEF SaveExpired, Discover, Configure, SaveAuthorized
  <1>2. CASE ConfigFromCache(l)
    <2>1. \A x : Same([q EXCEPT !.step = "exchange", !.client = x])
      BY <1>0 DEF LoginFields
    <2>2. PICK n : Becomes(l, n) /\ Same(n)
      BY <1>2, <2>1 DEF ConfigFromCache
    <2> QED
      BY <2>2, BecomesAsked
  <1>3. CASE Exchange(l)
    <2>1. CASE \E m \in MailsOf[q.who] : Becomes(l, [q EXCEPT !.step = "find", !.mail = m])
      <3>1. \A m : Same([q EXCEPT !.step = "find", !.mail = m])
        BY <1>0 DEF LoginFields
      <3>2. PICK n : Becomes(l, n) /\ Same(n)
        BY <2>1, <3>1
      <3> QED
        BY <3>2, BecomesAsked
    <2> QED
      BY <1>3, <2>1, GoesAsked DEF Exchange
  <1> QED
    BY <1>1, <1>2, <1>3 DEF CallbackStep

LEMMA ArrivalAsked ==
    ASSUME Shape, DeliverIInv, NEW l \in Logins, NEW c \in codes, Callback(l, c)
    PROVE  Asker
  <1> DEFINE q == [NoLogin EXCEPT !.via = "provider", !.asked = c.ask, !.who = c.who,
                                  !.device = asks[c.ask].device]
  <1>1. DOMAIN q = LoginFields
    BY DEF NoLogin, LoginFields
  <1>2. \E s, x, i, y : \/ Becomes(l, [q EXCEPT !.step = s])
                        \/ Becomes(l, [q EXCEPT !.step = s, !.code = x, !.issuer = i, !.client = y])
    BY DEF Callback
  <1> HIDE DEF q
  <1>3. PICK s, x, i, y : \/ Becomes(l, [q EXCEPT !.step = s])
                          \/ Becomes(l, [q EXCEPT !.step = s, !.code = x, !.issuer = i, !.client = y])
    BY <1>2
  <1>4. \E n : Becomes(l, n) /\ DOMAIN n = LoginFields
    <2>1. /\ DOMAIN [q EXCEPT !.step = s] = LoginFields
          /\ DOMAIN [q EXCEPT !.step = s, !.code = x, !.issuer = i, !.client = y] = LoginFields
      BY <1>1
    <2> QED
      BY <1>3, <2>1
  <1>5. logins[l].step = "new" /\ logins[l].via # "provider"
    BY DeliverFacts DEF Callback, Arrives, TokenSignIn, ByPassword
  <1> QED
    BY <1>4, <1>5, BecomesAsked

\* A page gets the token of a consent it asked for.
LEMMA WaysSave ==
    ASSUME Shape, DeliverIInv, WaysIInv, NEW l \in Logins, SaveAuthorized(l)
    PROVE  WaysIInv'
  <1>1. Asker
    BY CallbackAsked DEF CallbackStep
  <1>2. AsksStay /\ UNCHANGED <<asks, codes, given, polls>>
    BY DEF SaveAuthorized, AsksStay, Agreed
  <1>3. logins[l].via = "provider" /\ logins[l].asked \in Asks /\ logins[l].step = "save"
    BY DeliverFacts DEF SaveAuthorized, TokenSignIn
  <1>4. Agreed(logins[l].asked)
    <2>1. Carries(logins[l].asked, "login", l)
      BY <1>3 DEF Carries, InFlight
    <2> QED
      BY <1>3, <2>1 DEF DeliverIInv, Carried
  <1>5. logins'[l].via = "provider" /\ logins'[l].asked = logins[l].asked
    BY <1>1, <1>3 DEF Asker
  <1>6. \A m \in shown' : m \in shown \/ ShownOK(m)'
    <2>1. shown' = IF asks[logins[l].asked].web THEN shown \cup {l} ELSE shown
      BY DEF SaveAuthorized
    <2> QED
      BY <1>2, <1>3, <1>4, <1>5, <2>1 DEF ShownOK, Agreed
  <1> QED
    BY <1>1, <1>2, <1>6, WaysKeep DEF Polled

LEMMA WaysPoll ==
    ASSUME DeliverIInv, WaysIInv, NEW p \in Polls,
           PollStep(p) \/ \E a \in Asks : QueryAuth(p, a)
    PROVE  WaysIInv'
  <1>1. AsksStay /\ UNCHANGED <<logins, codes, asks, shown>>
    BY DEF PollStep, Reread, ReadUser, Answer, QueryAuth, accountVars, AsksStay, Agreed
  <1>2. Asker
    BY <1>1 DEF Asker
  <1>3. DOMAIN polls = Polls /\ \A o \in Polls : DOMAIN polls[o] = {"step", "ask", "token"}
    BY DEF DeliverIInv, Tables
  <1>4. CASE \E a \in Asks : QueryAuth(p, a)
    <2>1. PICK a \in Asks : QueryAuth(p, a)
      BY <1>4
    <2>2. UNCHANGED given /\ Polled(a) /\ polls'[p].ask = a /\ \A o \in Polls : o # p => polls'[o] = polls[o]
      BY <1>3, <2>1 DEF QueryAuth, accountVars, Polled
    <2> QED
      BY <1>1, <1>2, <2>2, WaysKeep DEF Polled
  <1>5. CASE Reread(p) \/ ReadUser(p)
    <2>0. /\ UNCHANGED given /\ polls[p].step # "idle"
          /\ \E s, t : polls' \in {[polls EXCEPT ![p] = [@ EXCEPT !.step = s, !.token = t]],
                                   [polls EXCEPT ![p] = [@ EXCEPT !.step = s]],
                                   [polls EXCEPT ![p] = NoPoll]}
      BY <1>5 DEF Reread, ReadUser, accountVars
    <2>1. /\ polls'[p].step = "idle" \/ polls'[p].ask = polls[p].ask
          /\ \A o \in Polls : o # p => polls'[o] = polls[o]
      <3>1. NoPoll.step = "idle"
        BY DEF NoPoll
      <3>2. PICK s, t : polls' \in {[polls EXCEPT ![p] = [@ EXCEPT !.step = s, !.token = t]],
                                   [polls EXCEPT ![p] = [@ EXCEPT !.step = s]],
                                   [polls EXCEPT ![p] = NoPoll]}
        BY <2>0
      <3>3. /\ [polls[p] EXCEPT !.step = s, !.token = t].ask = polls[p].ask
            /\ [polls[p] EXCEPT !.step = s].ask = polls[p].ask
        BY <1>3
      <3> QED
        BY <1>3, <3>1, <3>2, <3>3
    <2> QED
      BY <1>1, <1>2, <2>0, <2>1, WaysKeep DEF Polled
  <1>6. CASE Answer(p)
    <2>1. /\ polls[p].step = "answer" /\ polls'[p].step = "idle"
          /\ \A o \in Polls : o # p => polls'[o] = polls[o]
      BY <1>3, <1>6 DEF Answer, NoPoll
    <2>2. Polled(polls[p].ask) /\ logins[polls[p].token].asked = polls[p].ask
      BY <2>1 DEF WaysIInv, DeliverIInv, TokensOK, TokenOf
    <2>3. \A m \in Logins : m # polls[p].token => given'[m] = given[m]
      BY <1>6 DEF Answer, DeliverIInv, Tables
    <2>4. \A m \in Logins : given'[m] > 0 => given[m] > 0 \/ Polled(logins[m].asked)'
      BY <1>1, <2>2, <2>3 DEF Polled
    <2> QED
      BY <1>1, <1>2, <2>1, <2>4, WaysKeep DEF Polled
  <1> QED
    BY <1>4, <1>5, <1>6 DEF PollStep

LEMMA WaysAsk ==
    ASSUME DeliverIInv, WaysIInv, NEW x \in Asks,
           \/ LinkStep(x) \/ Ages(x)
           \/ \E p \in Providers, d \in Devices \cup {None}, web \in BOOLEAN :
                 RequestAuth(x, p, d, web)
           \/ \E who \in DOMAIN ProviderOf : Grant(x, who)
    PROVE  WaysIInv'
  <1>0. /\ UNCHANGED <<logins, given, polls, shown>>
        /\ DOMAIN asks = Asks /\ \A a \in Asks : DOMAIN asks[a] = AskFields
    BY DEF LinkStep, LinkFromCache, DiscoverForLink, BuildLink, Ages, RequestAuth, Grant,
           accountVars, stateVars, DeliverIInv, Tables
  <1>1. ASSUME \A a \in Asks : Agreed(a) => Agreed(a)',
               \A a \in Asks : a # x => asks'[a] = asks[a],
               \/ asks'[x].web = asks[x].web /\ asks'[x].device = asks[x].device
               \/ ~Agreed(x)
        PROVE  WaysIInv'
    <2>1. AsksStay
      BY <1>1 DEF AsksStay
    <2> QED
      BY <1>0, <2>1, WaysStay
  <1>2. CASE LinkStep(x)
    <2>1. /\ UNCHANGED codes
          /\ \/ \E t : asks' = [asks EXCEPT ![x].step = "linked", ![x].link = t]
             \/ asks' = [asks EXCEPT ![x].step = "discover"]
      BY <1>2 DEF LinkStep, LinkFromCache, DiscoverForLink, BuildLink, Answered, stateVars
    <2>2. /\ \A a \in Asks : a # x => asks'[a] = asks[a]
          /\ asks'[x].web = asks[x].web /\ asks'[x].device = asks[x].device
      BY <1>0, <2>1 DEF AskFields
    <2> QED
      BY <1>1, <2>1, <2>2 DEF Agreed
  <1>3. CASE Ages(x)
    BY <1>1, <1>3 DEF Ages, Agreed
  <1>4. CASE \E p \in Providers, d \in Devices \cup {None}, web \in BOOLEAN :
                 RequestAuth(x, p, d, web)
    <2>1. /\ UNCHANGED codes /\ asks[x].step = "new"
          /\ \A a \in Asks : a # x => asks'[a] = asks[a]
      BY <1>0, <1>4 DEF RequestAuth
    <2>2. ~Agreed(x)
      BY <2>1 DEF Agreed, DeliverIInv, CodesOK
    <2> QED
      BY <1>1, <2>1, <2>2 DEF Agreed
  <1>5. CASE \E who \in DOMAIN ProviderOf : Grant(x, who)
    <2>1. UNCHANGED asks /\ codes \subseteq codes'
      BY <1>5 DEF Grant
    <2> QED
      BY <1>1, <2>1 DEF Agreed
  <1> QED
    BY <1>2, <1>3, <1>4, <1>5

LEMMA WaysOidc ==
    ASSUME Shape, DeliverIInv, WaysIInv, OidcNext
    PROVE  WaysIInv'
  <1>1. CASE Cleanup \/ Administered
    <2>1. UNCHANGED <<logins, given, codes, asks, polls, shown>>
      BY <1>1, AdministersOnly DEF Cleanup, accountVars, stateVars
    <2>2. AsksStay
      BY <2>1 DEF AsksStay, Agreed
    <2> QED
      BY <2>1, <2>2, WaysStay
  <1>2. ASSUME NEW l \in Logins,
               SaveExpired(l) \/ ConfigFromCache(l) \/ Discover(l) \/ Configure(l) \/ Exchange(l)
        PROVE  WaysIInv'
    <2>1. Asker
      BY <1>2, CallbackAsked DEF CallbackStep
    <2>2. /\ UNCHANGED <<given, asks, polls, shown>>
          /\ \A c \in codes : \E d \in codes' : d.ask = c.ask
      <3>1. CASE Exchange(l)
        <4> DEFINE code == [ask |-> logins[l].asked, nr |-> logins[l].code,
                            who |-> logins[l].who, used |-> FALSE]
        <4>1. codes' = codes \/ codes' = (codes \ {code}) \cup {[code EXCEPT !.used = TRUE]}
          BY <3>1 DEF Exchange
        <4>2. [code EXCEPT !.used = TRUE].ask = code.ask
          OBVIOUS
        <4> HIDE DEF code
        <4>3. UNCHANGED <<given, asks, polls, shown>>
          BY <3>1 DEF Exchange
        <4> QED
          BY <4>1, <4>2, <4>3
      <3> QED
        BY <1>2, <3>1 DEF SaveExpired, ConfigFromCache, Discover, Configure, oidcVars, stateVars
    <2>3. AsksStay
      BY <2>2 DEF AsksStay, Agreed
    <2> QED
      BY <2>1, <2>2, <2>3, WaysKeep DEF Asker
  <1>3. ASSUME NEW l \in Logins, NEW c \in codes, Callback(l, c) PROVE WaysIInv'
    <2>1. Asker /\ UNCHANGED <<given, codes, asks, polls, shown>>
      BY <1>3, ArrivalAsked DEF Callback, oidcVars
    <2> QED
      BY <2>1, WaysSignIn
  <1>4. CASE \E l \in Logins : CallbackStep(l) \/ \E c \in codes : Callback(l, c)
    BY <1>2, <1>3, <1>4, WaysSave DEF CallbackStep
  <1>5. CASE \E p \in Polls : PollStep(p) \/ \E a \in Asks : QueryAuth(p, a)
    BY <1>5, WaysPoll
  <1>6. CASE \E a \in Asks :
          \/ LinkStep(a) \/ Ages(a)
          \/ \E p \in Providers, d \in Devices \cup {None}, web \in BOOLEAN :
                RequestAuth(a, p, d, web)
          \/ \E who \in DOMAIN ProviderOf : Grant(a, who)
    BY <1>6, WaysAsk
  <1> QED
    BY <1>1, <1>4, <1>5, <1>6 DEF OidcNext, Administered

LEMMA WaysStep == OwnIInv /\ DeliverIInv /\ WaysIInv /\ [Next]_vars => WaysIInv'
  <1> SUFFICES ASSUME OwnIInv, DeliverIInv, WaysIInv, [Next]_vars PROVE WaysIInv'
    OBVIOUS
  <1>0. Shape
    BY DEF OwnIInv
  <1>1. ASSUME UNCHANGED <<logins, given, oidcVars>> PROVE WaysIInv'
    <2>1. AsksStay
      BY <1>1 DEF oidcVars, AsksStay, Agreed
    <2> QED
      BY <1>1, <2>1, WaysStay DEF oidcVars
  <1>2. CASE UNCHANGED vars
    BY <1>1, <1>2 DEF vars, accountVars
  <1>3. CASE OidcNext
    BY <1>0, <1>3, WaysOidc
  <1>4. CASE LdapNext /\ UNCHANGED oidcVars
    <2>1. ASSUME NEW l \in Logins, PasswordStep(l) \/ \E name, who, d : TypeName(l, name, who, d)
          PROVE  WaysIInv'
      <3>1. Asker
        BY <1>0, <2>1, PasswordAsked
      <3>2. UNCHANGED given
        BY <2>1 DEF PasswordStep, AskDirectory, SyncMail, CheckStatus, LocalLogin, TypeName
      <3> QED
        BY <1>4, <3>1, <3>2, WaysSignIn DEF oidcVars
    <2>2. CASE (\E s \in Servers, e \in BOOLEAN : UpdateLdapConfig(s, e)) \/ SaveSetting
      BY <1>1, <1>4, <2>2 DEF UpdateLdapConfig, SaveSetting, accountVars
    <2> QED
      BY <1>4, <2>1, <2>2 DEF LdapNext
  <1>5. CASE (\E l \in Logins : AccountStep(l)) /\ UNCHANGED oidcVars
    <2>1. PICK l \in Logins : AccountStep(l)
      BY <1>5
    <2>2. Asker
      BY <1>0, <2>1, AccountAsked
    <2>3. \A m \in Logins : given'[m] > 0 /\ logins'[m].via = "provider" => given[m] > 0
      <3>1. CASE UNCHANGED given
        BY <3>1
      <3>2. CASE logins[l].via # "provider" /\ Issue(l)
        <4>1. logins[l].step = "token" /\ logins'[l].via # "provider"
          BY <1>0, <3>2 DEF Issue, GoesTo, Becomes, Shape, LoginFields
        <4>2. \A m \in Logins : m # l => given'[m] = given[m]
          BY <3>2 DEF Issue, DeliverIInv, Tables
        <4> QED
          BY <4>1, <4>2
      <3> QED
        BY <2>1, <3>1, <3>2 DEF AccountStep, Find, PickName, Insert, Bind, Issue
    <2> QED
      BY <1>5, <2>2, <2>3, WaysSignIn DEF oidcVars
  <1>6. CASE /\ (\E u \in Rows : SetStatus(u)) \/ \E u \in Logins : DeleteUser(u)
             /\ UNCHANGED oidcVars
    BY <1>1, <1>6 DEF SetStatus, DeleteUser
  <1> QED
    BY <1>2, <1>3, <1>4, <1>5, <1>6 DEF Next

LEMMA WaysInit == Init => WaysIInv
  BY DEF Init, AccountInit, OidcInit, WaysIInv, NoPoll

(* Polls get a token twice only if the user agreed twice to the same       *)
(* authorization, however many polls, callbacks and cleanups race each     *)
(* other, and a page and a poll get the same only if the request named     *)
(* both (requestAuth, handleCallback, queryAuth).                          *)
THEOREM DeliveredOnlyOnce == Spec => []DeliveredOnce
  <1>0. DeliverIInv /\ WaysIInv =>
            \A l \in Logins : given[l] > 0 /\ l \in shown =>
                /\ asks[logins[l].asked].web /\ asks[logins[l].asked].device \in Devices
    BY DEF WaysIInv, ShownOK, Polled
  <1>1. DeliverIInv => \A l \in Logins : given[l] > 1 => Grants(logins[l].asked) > 1
    <2> SUFFICES ASSUME DeliverIInv, NEW l \in Logins, given[l] > 1
                 PROVE  Grants(logins[l].asked) > 1
      OBVIOUS
    <2> DEFINE a == logins[l].asked
               S == {c \in codes : c.ask = a}
    <2>1. TokenSignIn(logins[l], given[l]) /\ given[l] \in Nat
      BY DEF DeliverIInv, TokensOK, Tables
    <2>2. logins[l].via = "provider" /\ a \in Asks
      BY <2>1 DEF TokenSignIn
    <2>3. ~OneCode(a)
      BY <2>1, <2>2 DEF DeliverIInv, Carried, GivenOnce
    <2>4. PICK c, d \in codes : c.ask = a /\ d.ask = a /\ c # d
      BY <2>3 DEF OneCode
    <2>5. IsFiniteSet(S) /\ c \in S /\ d \in S
      BY <2>4, FS_Subset DEF DeliverIInv, CodesOK
    <2>6. Cardinality(S) \in Nat /\ Cardinality(S) # 0 /\ Cardinality(S) # 1
      <3> HIDE DEF S
      <3>1. S # {} /\ ~\E x : S = {x}
        BY <2>4, <2>5
      <3> QED
        BY <2>5, <3>1, FS_CardinalityType, FS_EmptySet, FS_Singleton
    <2>7. Cardinality(S) > 1
      <3> HIDE DEF S
      <3> QED
        BY <2>6
    <2> QED
      BY <2>7 DEF Grants
  <1>2. OwnIInv /\ DeliverIInv /\ WaysIInv /\ [Next]_vars => (OwnIInv /\ DeliverIInv /\ WaysIInv)'
    BY OwnStep, DeliverStep, WaysStep
  <1>3. Init => OwnIInv /\ DeliverIInv /\ WaysIInv
    BY OwnInit, DeliverInit, WaysInit
  <1>4. DeliverIInv /\ WaysIInv => DeliveredOnce
    BY <1>0, <1>1 DEF DeliveredOnce
  <1> QED
    BY <1>2, <1>3, <1>4, PTL DEF Spec

(***************************************************************************)
(* The cache of configurations: a save knows what it changes, or an issuer *)
(* lapses.                                                                 *)
(***************************************************************************)

ProviderFields == {"here", "enabled", "issuer", "client"}

\* A save that is to come changes nothing but what it clears afterwards.
SaveOK(q) ==
    q.step = "save" =>
        /\ q.provider \in Providers /\ q.put.here /\ DOMAIN q.put = ProviderFields
        /\ \/ q.read.issuer \in q.clear \/ q.read.client = None
           \/ q.put.issuer = q.read.issuer /\ q.put.client = q.read.client

CacheTables ==
    /\ DOMAIN settings = Providers /\ DOMAIN cache = Issuers /\ DOMAIN edits = Editors
    /\ \A p \in Providers : DOMAIN settings[p] = ProviderFields
    /\ \A e \in Editors : SaveOK(edits[e])

CacheIInv == CacheTables /\ CacheIsCurrent

LEMMA CacheStays == CacheIInv /\ UNCHANGED providerVars => CacheIInv'
  BY DEF CacheIInv, CacheTables, SaveOK, CacheIsCurrent, Cached, Present, Leaving, providerVars

\* Who is not about to delete takes nothing away.
LEMMA PresentStays ==
    ASSUME CacheTables, UNCHANGED settings, NEW e \in Editors, NEW n, n.step # "delete",
           edits' = [edits EXCEPT ![e] = n]
    PROVE  \A i, c : Present(i, c) => Present(i, c)'
  BY DEF CacheTables, Present, Leaving

LEMMA FetchedKeeps ==
    ASSUME CacheIInv, UNCHANGED <<settings, edits>>, NEW issuer, NEW client,
           Fetched(issuer, client)
    PROVE  CacheIInv'
  <1>1. CacheTables'
    BY DEF CacheIInv, CacheTables, SaveOK, Fetched
  <1>2. \A i, c : Present(i, c)' <=> Present(i, c)
    BY DEF Present, Leaving
  <1>3. ASSUME NEW i \in Issuers, i = issuer, Cached(i)'
        PROVE  i \in lapsed' \/ Present(i, cache[i])'
    <2>1. cache'[i] = client
      BY <1>3 DEF CacheIInv, CacheTables, Fetched
    <2> QED
      BY <1>2, <1>3, <2>1 DEF Fetched
  <1>4. ASSUME NEW i \in Issuers, i # issuer
        PROVE  cache'[i] = cache[i] /\ (i \in lapsed => i \in lapsed')
    BY <1>4 DEF CacheIInv, CacheTables, Fetched
  <1>5. CacheIsCurrent'
    BY <1>2, <1>3, <1>4 DEF CacheIInv, CacheIsCurrent, Cached
  <1> QED
    BY <1>1, <1>5 DEF CacheIInv

\* Clearing some issuers is what an edit that is to clear them waits for.
LEMMA ClearedKeeps ==
    ASSUME CacheIInv, NEW S, Cleared(S), CacheTables',
           \A i \in Issuers \ S : \A c : Present(i, c) => Present(i, c)',
           \A e \in Editors : edits[e].step = "clear" =>
               edits[e].clear = S \/ edits'[e] = edits[e]
    PROVE  CacheIInv'
  <1>1. \A i \in Issuers : cache'[i] = IF i \in S THEN None ELSE cache[i]
    BY DEF Cleared
  <1>2. ASSUME NEW i \in Issuers, Cached(i)'
        PROVE  \/ i \in lapsed' \/ Present(i, cache[i])'
               \/ \E e \in Editors : edits'[e].step = "clear" /\ i \in edits'[e].clear
    <2>1. i \notin S /\ cache'[i] = cache[i] /\ Cached(i)
      BY <1>1, <1>2 DEF Cached
    <2>2. CASE i \in lapsed
      BY <2>1, <2>2 DEF Cleared
    <2>3. CASE Present(i, cache[i])
      BY <2>1, <2>3
    <2>4. CASE \E e \in Editors : edits[e].step = "clear" /\ i \in edits[e].clear
      BY <2>1, <2>4
    <2> QED
      BY <2>1, <2>2, <2>3, <2>4 DEF CacheIInv, CacheIsCurrent
  <1> QED
    BY <1>2 DEF CacheIInv, CacheIsCurrent

LEMMA WillSaveKeeps ==
    ASSUME CacheIInv, NEW e \in Editors, NEW p \in Providers, NEW put, NEW clear,
           WillSave(e, p, put, clear), put.here, DOMAIN put = ProviderFields,
           \/ settings[p].issuer \in clear \/ settings[p].client = None
           \/ put.issuer = settings[p].issuer /\ put.client = settings[p].client
    PROVE  CacheIInv'
  <1> DEFINE n == [step |-> "save", provider |-> p, read |-> settings[p], put |-> put,
                   clear |-> clear]
  <1>1. /\ UNCHANGED <<settings, cache, lapsed>> /\ edits' = [edits EXCEPT ![e] = n]
        /\ edits[e].step = "idle"
    BY DEF WillSave, Begins
  <1>2. SaveOK(n) /\ n.step = "save"
    BY DEF SaveOK
  <1> HIDE DEF n
  <1>3. CacheTables /\ CacheTables'
    BY <1>1, <1>2 DEF CacheIInv, CacheTables, SaveOK
  <1>4. \A i, c : Present(i, c) => Present(i, c)'
    BY <1>1, <1>2, <1>3, PresentStays
  <1>5. \A f \in Editors : edits[f].step = "clear" => edits'[f] = edits[f]
    BY <1>1, <1>3 DEF CacheTables
  <1> QED
    BY <1>1, <1>3, <1>4, <1>5 DEF CacheIInv, CacheIsCurrent, Cached

LEMMA SaveKeeps ==
    ASSUME CacheIInv, NEW e \in Editors, SaveProvider(e)
    PROVE  CacheIInv'
  <1> DEFINE q == edits[e]
             now == settings[q.provider]
             n == IF q.clear = {} THEN NoEdit ELSE [NoEdit EXCEPT !.step = "clear", !.clear = q.clear]
  <1>1. /\ q.step = "save" /\ q.provider \in Providers
        /\ q.put.here /\ DOMAIN q.put = ProviderFields
        /\ CacheTables
        /\ \/ q.read.issuer \in q.clear \/ q.read.client = None
           \/ q.put.issuer = q.read.issuer /\ q.put.client = q.read.client
    BY DEF SaveProvider, CacheIInv, CacheTables, SaveOK
  <1>2. /\ settings' = [settings EXCEPT ![q.provider] = q.put]
        /\ edits' = [edits EXCEPT ![e] = n] /\ UNCHANGED cache
        /\ lapsed \subseteq lapsed'
        /\ now.here /\ <<now.issuer, now.client>> # <<q.read.issuer, q.read.client>> =>
               now.issuer \in lapsed'
    BY DEF SaveProvider
  <1>3. /\ n.step \notin {"save", "delete"}
        /\ q.clear # {} => n.step = "clear" /\ n.clear = q.clear
    BY DEF NoEdit
  <1> HIDE DEF n
  <1>4. CacheTables'
    BY <1>1, <1>2, <1>3 DEF CacheTables, SaveOK
  <1>5. ASSUME NEW i \in Issuers, NEW o \in Providers, Cached(i),
               settings[o].here, settings[o].issuer = i, settings[o].client = cache[i], ~Leaving(o)
        PROVE  \/ i \in lapsed' \/ Present(i, cache[i])'
               \/ edits'[e].step = "clear" /\ i \in edits'[e].clear
    <2>1. \A x : Leaving(x)' => Leaving(x)
      BY <1>1, <1>2, <1>3 DEF Leaving, CacheTables
    <2>2. CASE o # q.provider
      <3>1. settings'[o] = settings[o]
        BY <1>2, <2>2 DEF CacheTables
      <3> QED
        BY <1>2, <1>5, <2>1, <3>1 DEF Present
    <2>3. CASE o = q.provider /\ q.put.issuer = i /\ q.put.client = cache[i]
      <3>1. settings'[o] = q.put
        BY <1>1, <1>2, <2>3 DEF CacheTables
      <3> QED
        BY <1>1, <1>2, <1>5, <2>1, <2>3, <3>1 DEF Present
    <2>4. CASE o = q.provider /\ ~(q.put.issuer = i /\ q.put.client = cache[i])
      <3>1. CASE q.read.issuer = i /\ q.read.client = cache[i]
        <4>1. i \in q.clear
          BY <1>1, <1>5, <2>4, <3>1 DEF Cached
        <4>2. edits'[e] = n /\ n.clear = q.clear /\ n.step = "clear"
          BY <1>1, <1>2, <1>3, <4>1 DEF CacheTables
        <4> QED
          BY <4>1, <4>2
      <3> QED
        BY <1>2, <1>5, <2>4, <3>1
    <2> QED
      BY <2>2, <2>3, <2>4
  <1>6. \A f \in Editors : edits[f].step = "clear" => edits'[f] = edits[f]
    BY <1>1, <1>2 DEF CacheTables
  <1>7. ASSUME NEW i \in Issuers, Cached(i)'
        PROVE  \/ i \in lapsed' \/ Present(i, cache[i])'
               \/ \E f \in Editors : edits'[f].step = "clear" /\ i \in edits'[f].clear
    <2>1. Cached(i)
      BY <1>2, <1>7 DEF Cached
    <2>2. \/ i \in lapsed \/ Present(i, cache[i])
          \/ \E f \in Editors : edits[f].step = "clear" /\ i \in edits[f].clear
      BY <2>1 DEF CacheIInv, CacheIsCurrent
    <2>3. CASE Present(i, cache[i])
      BY <1>5, <2>1, <2>3 DEF Present
    <2> QED
      BY <1>2, <1>6, <2>2, <2>3
  <1> QED
    BY <1>4, <1>7 DEF CacheIInv, CacheIsCurrent

LEMMA RemovalKeeps ==
    ASSUME CacheIInv, NEW e \in Editors,
           DeleteProvider(e) \/ \E p \in Providers : RemoveProvider(e, p)
    PROVE  CacheIInv'
  <1>0. CacheTables
    BY DEF CacheIInv
  <1>1. CASE DeleteProvider(e)
    <2> DEFINE p == edits[e].provider
    <2>1. /\ edits[e].step = "delete" /\ UNCHANGED <<cache, lapsed>>
          /\ settings' = [settings EXCEPT ![p].here = FALSE]
          /\ edits' = [edits EXCEPT ![e] = NoEdit]
      BY <1>1 DEF DeleteProvider
    <2>2. NoEdit.step = "idle"
      BY DEF NoEdit
    <2>3. CacheTables'
      BY <1>0, <2>1, <2>2 DEF CacheTables, SaveOK
    <2>4. \A o \in Providers : ~Leaving(o) => settings'[o] = settings[o] /\ ~Leaving(o)'
      BY <1>0, <2>1, <2>2 DEF CacheTables, Leaving
    <2>5. \A i, c : Present(i, c) => Present(i, c)'
      BY <2>4 DEF Present
    <2>6. \A f \in Editors : edits[f].step = "clear" => edits'[f] = edits[f]
      BY <1>0, <2>1 DEF CacheTables
    <2> QED
      BY <2>1, <2>3, <2>5, <2>6 DEF CacheIInv, CacheIsCurrent, Cached
  <1>2. CASE \E p \in Providers : RemoveProvider(e, p)
    <2>1. PICK p \in Providers : RemoveProvider(e, p)
      BY <1>2
    <2> DEFINE S == {settings[p].issuer}
               n == [NoEdit EXCEPT !.step = "delete", !.provider = p]
    <2>2. /\ Cleared(S) /\ UNCHANGED settings /\ edits[e].step = "idle"
          /\ edits' = [edits EXCEPT ![e] = n]
      BY <2>1 DEF RemoveProvider, Begins
    <2>3. n.step = "delete" /\ n.provider = p
      BY DEF NoEdit
    <2> HIDE DEF n
    <2>4. CacheTables'
      BY <1>0, <2>2, <2>3 DEF CacheTables, SaveOK, Cleared
    <2>5. \A o \in Providers : o # p /\ ~Leaving(o) => ~Leaving(o)'
      BY <1>0, <2>2, <2>3 DEF CacheTables, Leaving
    <2>6. \A i \in Issuers \ S : \A c : Present(i, c) => Present(i, c)'
      BY <2>2, <2>5 DEF Present
    <2>7. \A f \in Editors : edits[f].step = "clear" => edits'[f] = edits[f]
      BY <1>0, <2>2 DEF CacheTables
    <2> HIDE DEF S
    <2> QED
      BY <2>2, <2>4, <2>6, <2>7, ClearedKeeps
  <1> QED
    BY <1>1, <1>2

LEMMA ClearKeeps ==
    ASSUME CacheIInv,
           (\E e \in Editors : ClearCached(e)) \/ \E i \in Issuers : DropCached(i)
    PROVE  CacheIInv'
  <1>0. CacheTables
    BY DEF CacheIInv
  <1>1. CASE \E e \in Editors : ClearCached(e)
    <2>1. PICK e \in Editors : ClearCached(e)
      BY <1>1
    <2> DEFINE S == edits[e].clear
    <2>2. /\ Cleared(S) /\ UNCHANGED settings
          /\ edits' = [edits EXCEPT ![e] = NoEdit]
      BY <2>1 DEF ClearCached
    <2>3. NoEdit.step = "idle"
      BY DEF NoEdit
    <2>4. CacheTables'
      BY <1>0, <2>2, <2>3 DEF CacheTables, SaveOK, Cleared
    <2>5. \A i, c : Present(i, c) => Present(i, c)'
      BY <1>0, <2>2, <2>3, PresentStays
    <2>6. \A f \in Editors : edits[f].clear = S \/ edits'[f] = edits[f]
      BY <1>0, <2>2 DEF CacheTables
    <2> HIDE DEF S
    <2> QED
      BY <2>2, <2>4, <2>5, <2>6, ClearedKeeps
  <1>2. CASE \E i \in Issuers : DropCached(i)
    <2>1. PICK i \in Issuers : Cleared({i}) /\ UNCHANGED <<settings, edits>>
      BY <1>2 DEF DropCached
    <2>2. CacheTables'
      BY <1>0, <2>1 DEF CacheTables, SaveOK, Cleared
    <2>3. \A j, c : Present(j, c) => Present(j, c)'
      BY <2>1 DEF Present, Leaving
    <2> QED
      BY <2>1, <2>2, <2>3, ClearedKeeps
  <1> QED
    BY <1>1, <1>2

LEMMA EditKeeps ==
    ASSUME CacheIInv, Administered
    PROVE  CacheIInv'
  <1>0. \A p \in Providers : DOMAIN settings[p] = ProviderFields
    BY DEF CacheIInv, CacheTables
  <1>1. ASSUME NEW e \in Editors, NEW p \in Providers, NEW i \in Issuers, NEW c \in Clients,
               CreateProvider(e, p, i, c)
        PROVE  CacheIInv'
    <2> DEFINE put == [here |-> TRUE, enabled |-> TRUE, issuer |-> i, client |-> c]
    <2>1. put.here /\ DOMAIN put = ProviderFields
      BY DEF ProviderFields
    <2>2. WillSave(e, p, put, {}) /\ settings[p].client = None
      BY <1>1 DEF CreateProvider, Absent
    <2> HIDE DEF put
    <2> QED
      BY <2>1, <2>2, WillSaveKeeps
  <1>2. ASSUME NEW e \in Editors, NEW p \in Providers, NEW i \in Issuers, NEW c \in Clients,
               UpdateProvider(e, p, i, c)
        PROVE  CacheIInv'
    <2> DEFINE put == [settings[p] EXCEPT !.issuer = i, !.client = c]
    <2>1. WillSave(e, p, put, Outdated(p, i)) /\ settings[p].here
      BY <1>2 DEF UpdateProvider, Editable
    <2>2. put.here /\ DOMAIN put = ProviderFields
      BY <1>0, <2>1 DEF ProviderFields
    <2>3. settings[p].issuer \in Outdated(p, i)
      BY DEF Outdated
    <2> HIDE DEF put
    <2> QED
      BY <2>1, <2>2, <2>3, WillSaveKeeps
  <1>3. ASSUME NEW e \in Editors, NEW p \in Providers, ToggleProvider(e, p)
        PROVE  CacheIInv'
    <2> DEFINE put == [settings[p] EXCEPT !.enabled = ~@]
    <2>1. WillSave(e, p, put, {}) /\ settings[p].here
      BY <1>3 DEF ToggleProvider
    <2>2. /\ put.here /\ DOMAIN put = ProviderFields
          /\ put.issuer = settings[p].issuer /\ put.client = settings[p].client
      BY <1>0, <2>1 DEF ProviderFields
    <2> HIDE DEF put
    <2> QED
      BY <2>1, <2>2, WillSaveKeeps
  <1> QED
    BY <1>1, <1>2, <1>3, SaveKeeps, RemovalKeeps, ClearKeeps DEF Administered, EditStep

LEMMA CacheStep == CacheIInv /\ [Next]_vars => CacheIInv'
  <1> SUFFICES ASSUME CacheIInv, [Next]_vars PROVE CacheIInv'
    OBVIOUS
  <1>1. CASE UNCHANGED vars
    BY <1>1, CacheStays DEF vars, oidcVars, providerVars
  <1>2. CASE OidcNext
    <2>1. CASE Administered
      BY <2>1, EditKeeps
    <2>2. CASE Cleanup
      BY <2>2, CacheStays DEF Cleanup
    <2>3. ASSUME NEW a \in Asks,
                 \/ LinkStep(a) \/ Ages(a)
                 \/ \E p \in Providers, d \in Devices \cup {None}, web \in BOOLEAN :
                       RequestAuth(a, p, d, web)
                 \/ \E who \in DOMAIN ProviderOf : Grant(a, who)
                 \/ \E p \in Polls : QueryAuth(p, a)
          PROVE  CacheIInv'
      <3>1. CASE BuildLink(a)
        BY <3>1, FetchedKeeps DEF BuildLink
      <3> QED
        BY <2>3, <3>1, CacheStays
           DEF LinkStep, LinkFromCache, DiscoverForLink, Ages, RequestAuth, Grant, QueryAuth
    <2>4. ASSUME NEW l \in Logins, CallbackStep(l) \/ \E c \in codes : Callback(l, c)
          PROVE  CacheIInv'
      <3>1. CASE Configure(l)
        BY <3>1, FetchedKeeps DEF Configure
      <3> QED
        BY <2>4, <3>1, CacheStays
           DEF CallbackStep, SaveExpired, ConfigFromCache, Discover, Exchange, SaveAuthorized,
               Callback, oidcVars, providerVars
    <2>5. ASSUME NEW p \in Polls, PollStep(p) PROVE CacheIInv'
      BY <2>5, CacheStays DEF PollStep, Reread, ReadUser, Answer
    <2> QED
      BY <1>2, <2>1, <2>2, <2>3, <2>4, <2>5 DEF OidcNext, Administered
  <1>3. CASE UNCHANGED oidcVars
    BY <1>3, CacheStays DEF oidcVars, providerVars
  <1> QED
    BY <1>1, <1>2, <1>3 DEF Next

LEMMA CacheInit == Init => CacheIInv
  <1> SUFFICES ASSUME Init PROVE CacheIInv
    OBVIOUS
  <1>1. settings = Entered /\ \A e \in Editors : edits[e].step = "idle"
    BY DEF Init, OidcInit, NoEdit
  <1>2. CacheTables
    BY <1>1, EnteredAssumption DEF Init, OidcInit, CacheTables, SaveOK, ProviderFields
  <1>3. CacheIsCurrent
    BY DEF Init, OidcInit, CacheIsCurrent, Cached
  <1> QED
    BY <1>2, <1>3 DEF CacheIInv

(* What is cached for an issuer is what a provider there has entered for   *)
(* it, or is about to be cleared, or the issuer has lapsed: a discovery    *)
(* answered with settings changed meanwhile, or one administrator saved    *)
(* over another (getOidcConfig, OidcAdminService).                         *)
THEOREM CachedIsPresent == Spec => []CacheIsCurrent
  <1>1. CacheIInv => CacheIsCurrent
    BY DEF CacheIInv
  <1> QED
    BY <1>1, CacheInit, CacheStep, PTL DEF Spec
=============================================================================
