-------------------------- MODULE AddressBookProofs --------------------------
(***************************************************************************)
(* Address books: what is listed is what may be done, and a device only    *)
(* carries tags of its own book.                                           *)
(***************************************************************************)
EXTENDS AddressBookContents, TLAPS

USE TargetsAssumption

(***************************************************************************)
(* Access.                                                                 *)
(***************************************************************************)

BooksTyped ==
    /\ groups \subseteq Groups
    /\ users \in [Users -> Groups \cup {None}]
    /\ books \in [Books -> Book]
    /\ rules \in [Rules -> Rule]
    /\ requests \in [Requests -> Request]

\* The strongest of some levels.
LEMMA Strongest ==
    ASSUME NEW S \in SUBSET {0, 1, 2, 3}, 0 \in S
    PROVE  Max(S) \in S /\ \A y \in S : Max(S) >= y
  <1>1. \E x \in S : \A y \in S : x >= y
    <2>1. CASE 3 \in S
      BY <2>1
    <2>2. CASE 3 \notin S /\ 2 \in S
      BY <2>2
    <2>3. CASE 3 \notin S /\ 2 \notin S /\ 1 \in S
      BY <2>3
    <2>4. CASE S = {0}
      BY <2>4
    <2> QED
      BY <2>1, <2>2, <2>3, <2>4
  <1> QED
    BY <1>1 DEF Max

\* The aggregate over the join and the maximum over the queries agree.
LEMMA ListedIsGranted ==
    ASSUME BooksTyped, NEW u \in Users, NEW b \in Books, Exists(u), BookHere(b),
           ~books[b].isPersonal, NEW level \in Levels
    PROVE  MayAccess(b, u, level) <=> ListedLevel(b, u) >= level
  <1>1. CASE books[b].owner = u
    <2>1. MayAccess(b, u, level)
      BY <1>1 DEF MayAccess
    <2>2. ListedLevel(b, u) = 3
      BY <1>1 DEF ListedLevel, FULL_CONTROL
    <2> QED
      BY <2>1, <2>2 DEF Levels
  <1>2. CASE books[b].owner # u
    <2> DEFINE L == {rules[r].level : r \in Joined(b, u)}
    <2>1. Joined(b, u) = Applicable(b, u)
      BY DEF Joined, Applicable, Exists
    <2>2. \A r \in Applicable(b, u) : rules[r].level \in {1, 2, 3}
      <3>1. \A r \in Rules : rules[r].level \in Levels
        BY DEF BooksTyped, Rule
      <3>2. Levels = {1, 2, 3}
        BY DEF Levels
      <3> QED
        BY <3>1, <3>2 DEF Applicable, RulesOf
    <2>3. {0} \cup L \in SUBSET {0, 1, 2, 3}
      BY <2>1, <2>2
    <2>4. ListedLevel(b, u) = Max({0} \cup L)
      BY <1>2 DEF ListedLevel
    <2>5. /\ ListedLevel(b, u) \in {0} \cup L
          /\ \A y \in {0} \cup L : ListedLevel(b, u) >= y
      BY <2>3, <2>4, Strongest
    <2>6. level \in {1, 2, 3} /\ ListedLevel(b, u) \in {0, 1, 2, 3}
      BY <2>3, <2>5 DEF Levels
    <2>7. ASSUME MayAccess(b, u, level) PROVE ListedLevel(b, u) >= level
      <3>1. PICK r \in Applicable(b, u) : rules[r].level >= level
        BY <1>2, <2>7 DEF MayAccess
      <3>2. ListedLevel(b, u) >= rules[r].level
        BY <2>1, <2>5, <3>1
      <3>3. rules[r].level \in {1, 2, 3}
        BY <2>2
      <3> QED
        BY <2>6, <3>1, <3>2, <3>3
    <2>8. ASSUME ListedLevel(b, u) >= level PROVE MayAccess(b, u, level)
      <3>1. ListedLevel(b, u) # 0
        BY <2>6, <2>8
      <3>2. PICK r \in Applicable(b, u) : ListedLevel(b, u) = rules[r].level
        BY <2>1, <2>5, <3>1
      <3> QED
        BY <2>8, <3>2 DEF MayAccess
    <2> QED
      BY <2>7, <2>8
  <1> QED
    BY <1>1, <1>2

\* Who may read a book that is not his does so by a rule that makes it shared.
LEMMA OnOnePage ==
    ASSUME BooksTyped, NEW u \in Users, NEW b \in Books, Exists(u), BookHere(b),
           ~books[b].isPersonal, MayAccess(b, u, READ)
    PROVE  IsPrivateCustom(b, u) <=> ~(IsShared(b) /\ ListedLevel(b, u) >= READ)
  <1>1. ListedLevel(b, u) >= READ
    BY ListedIsGranted DEF Levels, READ
  <1>2. CASE books[b].owner = u
    BY <1>1, <1>2 DEF IsPrivateCustom, IsShared
  <1>3. CASE books[b].owner # u
    <2>1. PICK r \in Applicable(b, u) : TRUE
      BY <1>3 DEF MayAccess
    <2>2. rules[r].target \in {u, Everyone, users[u]} /\ r \in RulesOf(b)
      BY <2>1 DEF Applicable
    <2>3. books[b].owner \in Users \cup {None}
      BY DEF BooksTyped, Book
    <2>4. users[u] \in Groups
      BY DEF BooksTyped, Exists
    <2>5. rules[r].target # books[b].owner
      BY <1>3, <2>2, <2>3, <2>4
    <2>6. ExternalGrant(b)
      BY <2>2, <2>5 DEF ExternalGrant
    <2> QED
      BY <1>1, <1>3, <2>6 DEF IsPrivateCustom, IsShared
  <1> QED
    BY <1>2, <1>3

LEMMA TypedAgrees == BooksTyped => ListAgreesWithCheck
  BY ListedIsGranted, OnOnePage DEF ListAgreesWithCheck

(***************************************************************************)
(* The tables of books and rules, and the requests about them.             *)
(***************************************************************************)

LEMMA Shapes ==
    /\ FreeBook \in Book /\ [FreeBook EXCEPT !.state = "gone"] \in Book
    /\ FreeRule \in Rule /\ [FreeRule EXCEPT !.state = "gone"] \in Rule
    /\ NoRequest \in Request
  <1>1. FreeBook \in Book /\ [FreeBook EXCEPT !.state = "gone"] \in Book
    BY DEF FreeBook, Book
  <1>2. FreeRule \in Rule /\ [FreeRule EXCEPT !.state = "gone"] \in Rule
    BY DEF FreeRule, Rule, READ, Levels
  <1> QED
    BY <1>1, <1>2 DEF NoRequest, Request

\* A request begins or goes on.
LEMMA Begun ==
    ASSUME BooksTyped, NEW p \in Requests, NEW r \in Request, Begin(p, r)
    PROVE  requests' \in [Requests -> Request]
  BY DEF BooksTyped, Begin

LEMMA BooksTypedNext == ASSUME BooksTyped, BooksNext PROVE BooksTyped'
  <1> USE DEF BooksTyped
  <1>1. ASSUME NEW p \in Requests, NEW u \in Users, FindPersonal(p, u) PROVE BooksTyped'
    <2>1. [NoRequest EXCEPT !.op = "personal", !.user = u] \in Request
      BY Shapes DEF NoRequest, Request
    <2> QED
      BY <1>1, <2>1, Begun DEF FindPersonal
  <1>2. ASSUME NEW p \in Requests, SavePersonal(p) PROVE BooksTyped'
    <2>1. requests[p].user \in Users \cup {None}
      BY DEF Request
    <2>2. [state |-> "here", owner |-> requests[p].user,
           isPersonal |-> TRUE, isShared |-> FALSE] \in Book
      BY <2>1 DEF Book
    <2>3. requests' \in [Requests -> Request]
      BY <1>2, Shapes, Begun DEF SavePersonal, Ends
    <2> QED
      BY <1>2, <2>2, <2>3 DEF SavePersonal
  <1>3. ASSUME NEW p \in Requests, SaveRule(p) PROVE BooksTyped'
    <2>1. requests' \in [Requests -> Request]
      BY <1>3, Shapes, Begun DEF SaveRule, Ends
    <2>2. requests[p].row \in Rule
      BY DEF Request
    <2>3. rules' \in [Rules -> Rule]
      BY <1>3, <2>2 DEF SaveRule
    <2> QED
      BY <1>3, <2>1, <2>3 DEF SaveRule
  <1>4. ASSUME NEW p \in Requests, GrantOwner(p) PROVE BooksTyped'
    <2> DEFINE row == [state |-> "here", book |-> requests[p].book,
                       target |-> requests[p].copy.owner, level |-> FULL_CONTROL]
    <2>1. row \in Rule
      BY DEF Request, Book, Rule, Targets, Levels, FULL_CONTROL
    <2>2. [requests[p] EXCEPT !.op = "update"] \in Request
      BY DEF Request
    <2>3. requests' \in [Requests -> Request]
      BY <1>4, <2>2, Shapes, Begun DEF GrantOwner, Ends
    <2>4. rules' = rules \/ rules' = [rules EXCEPT ![New(rules)] = row]
      BY <1>4 DEF GrantOwner
    <2> HIDE DEF row
    <2>5. rules' \in [Rules -> Rule]
      BY <2>1, <2>4
    <2> QED
      BY <1>4, <2>3, <2>5 DEF GrantOwner
  <1>5. ASSUME NEW p \in Requests, SaveBook(p) PROVE BooksTyped'
    <2>1. requests' \in [Requests -> Request]
      BY <1>5, Shapes, Begun DEF SaveBook, Ends
    <2>2. requests[p].copy \in Book
      BY DEF Request
    <2> QED
      BY <1>5, <2>1, <2>2 DEF SaveBook
  <1>6. ASSUME NEW p \in Requests, DeleteBook(p) PROVE BooksTyped'
    <2>1. requests' \in [Requests -> Request]
      BY <1>6, Shapes, Begun DEF DeleteBook, Ends
    <2> QED
      BY <1>6, <2>1, Shapes DEF DeleteBook
  <1>7. ASSUME NEW p \in Requests, NEW u \in Users, NEW level \in Levels, NEW r \in Rules,
               LoadRule(p, u, r, level)
        PROVE  BooksTyped'
    <2>1. rules[r].book \in Books \cup {None} /\ [rules[r] EXCEPT !.level = level] \in Rule
      BY DEF Rule
    <2> DEFINE row == [rules[r] EXCEPT !.level = level]
    <2>2. [NoRequest EXCEPT !.op = "updateRule", !.user = u, !.book = rules[r].book,
                    !.rule = r, !.row = row] \in Request
      <3> HIDE DEF row
      <3> QED
        BY <2>1, Shapes DEF NoRequest, Request, row
    <2> QED
      BY <1>7, <2>2, Begun DEF LoadRule
  <1>8. ASSUME NEW p \in Requests, NEW u \in Users, NEW level \in Levels, NEW b \in Books,
               NEW target \in Targets, CheckNewRule(p, u, b, target, level)
        PROVE  BooksTyped'
    <2>1. [state |-> "here", book |-> b, target |-> target, level |-> level] \in Rule
      BY DEF Rule
    <2>2. [NoRequest EXCEPT !.op = "createRule", !.user = u, !.book = b,
                    !.row = [state |-> "here", book |-> b, target |-> target,
                             level |-> level]] \in Request
      BY <2>1, Shapes DEF NoRequest, Request
    <2> QED
      BY <1>8, <2>2, Begun DEF CheckNewRule
  <1>9. ASSUME NEW p \in Requests, NEW u \in Users, NEW b \in Books,
               LoadCustom(p, u, b) \/ LoadShared(p, u, b) \/ LoadDeleted(p, u, b)
        PROVE  BooksTyped'
    <2>1. books[b] \in Book
      OBVIOUS
    <2>2. /\ [NoRequest EXCEPT !.op = "update", !.user = u, !.book = b, !.copy = books[b]]
                \in Request
          /\ [NoRequest EXCEPT !.op = "deleteBook", !.user = u, !.book = b] \in Request
      BY <2>1, Shapes DEF NoRequest, Request
    <2> QED
      BY <1>9, <2>2, Begun DEF LoadCustom, LoadShared, LoadDeleted
  <1>10. ASSUME NEW p \in Requests, NEW u \in Users, NEW b \in Books, NEW owner \in Users,
               LoadTransfer(p, u, b, owner)
         PROVE  BooksTyped'
    <2>1. [books[b] EXCEPT !.owner = owner] \in Book
      BY DEF Book
    <2> DEFINE copy == [books[b] EXCEPT !.owner = owner]
    <2>2. PICK op \in {"update", "transfer"} :
             Begin(p, [NoRequest EXCEPT !.op = op, !.user = u, !.book = b, !.copy = copy])
      BY <1>10 DEF LoadTransfer
    <2>3. [NoRequest EXCEPT !.op = op, !.user = u, !.book = b, !.copy = copy] \in Request
      <3> HIDE DEF copy
      <3> QED
        BY <2>1, Shapes DEF NoRequest, Request, copy
    <2> HIDE DEF copy
    <2> QED
      BY <1>10, <2>2, <2>3, Begun DEF LoadTransfer
  <1>11. ASSUME NEW u \in Users, NEW b \in Profiles, NEW isShared \in BOOLEAN,
                CreateBook(u, b, isShared)
         PROVE  BooksTyped'
    <2>1. [state |-> "here", owner |-> u, isPersonal |-> FALSE, isShared |-> isShared] \in Book
      BY DEF Book
    <2> QED
      BY <1>11, <2>1 DEF CreateBook
  <1>12. ASSUME NEW u \in Users, NEW R \in SUBSET Rules, DeleteRules(u, R) PROVE BooksTyped'
    BY <1>12, Shapes DEF DeleteRules
  <1>13. ASSUME NEW u \in Users, DeleteUser(u) \/ \E g \in Groups : MoveUser(u, g)
         PROVE  BooksTyped'
    BY <1>13 DEF DeleteUser, MoveUser
  <1>14. ASSUME NEW g \in Groups, DeleteGroup(g) PROVE BooksTyped'
    BY <1>14, Shapes DEF DeleteGroup
  <1> QED
    BY <1>1, <1>2, <1>3, <1>4, <1>5, <1>6, <1>7, <1>8, <1>9, <1>10, <1>11, <1>12, <1>13, <1>14
    DEF BooksNext

LEMMA BooksTypedInit == BooksInit => BooksTyped
  BY Shapes DEF BooksInit, BooksTyped

\* All that is not about books leaves the books alone.
LEMMA AccessSteps == Next => BooksNext \/ UNCHANGED access
  <1> SUFFICES ASSUME Next PROVE BooksNext \/ UNCHANGED access
    OBVIOUS
  <1>1. CASE AboutBooks
    BY <1>1 DEF AboutBooks
  <1>2. ASSUME NEW p \in Requests,
               \/ DropLinks(p) \/ FindTag(p) \/ CreateTag(p) \/ Link(p)
               \/ RenameTag(p) \/ DeleteTags(p)
               \/ LegacyClear(p) \/ LegacyEmpty(p) \/ LegacyFails(p)
               \/ SavePeer(p)
               \/ FindPresetTag(p) \/ SavePreset(p) \/ LinkPreset(p)
        PROVE  UNCHANGED access
    BY <1>2 DEF DropLinks, FindTag, CreateTag, Link, RenameTag, DeleteTags,
         LegacyClear, LegacyEmpty, LegacyFails, SavePeer, FindPresetTag, SavePreset, LinkPreset
  <1>3. ASSUME NEW p \in Requests,
               \/ \E b \in Books, d \in Devices, N \in SUBSET Named : FindPreset(p, b, d, N)
               \/ \E n \in Named, d \in Devices, linked \in BOOLEAN : LegacyFill(p, n, d, linked)
        PROVE  UNCHANGED access
    BY <1>3 DEF FindPreset, LegacyFill
  <1>4. ASSUME NEW p \in Requests, NEW u \in Users, NEW b \in Books,
                \/ LegacyBegin(p, u, b)
                \/ \E D \in SUBSET Devices : DeletePeers(p, u, b, D)
                \/ \E N \in SUBSET Named :
                      \/ DeleteTagLinks(p, u, b, N)
                      \/ \E d \in Devices : CheckNewPeer(p, u, b, d, N)
                      \/ \E e \in Entries : FindPeer(p, u, b, e, N)
                \/ \E n \in Named :
                      CheckNewTag(p, u, b, n) \/ \E t \in Tags : FindOldTag(p, u, b, t, n)
        PROVE  UNCHANGED access
    BY <1>4 DEF LegacyBegin, DeletePeers, DeleteTagLinks, CheckNewPeer, FindPeer, CheckNewTag,
         FindOldTag
  <1> QED
    BY <1>1, <1>2, <1>3, <1>4 DEF Next

LEMMA BooksTypedInvariant == Spec => []BooksTyped
  <1>1. Init => BooksTyped
    BY BooksTypedInit DEF Init
  <1>2. BooksTyped /\ [Next]_vars => BooksTyped'
    <2>1. BooksTyped /\ UNCHANGED access => BooksTyped'
      BY DEF BooksTyped, access
    <2> QED
      BY <2>1, BooksTypedNext, AccessSteps DEF vars
  <1> QED
    BY <1>1, <1>2, PTL DEF Spec

\* The list shows the level that the next request is granted, and everybody
\* who may use a book that is not personal finds it on exactly one page.
THEOREM ListedIsAllowed == Spec => []ListAgreesWithCheck
  BY BooksTypedInvariant, TypedAgrees, PTL

(***************************************************************************)
(* Rows, and what refers to them.                                          *)
(***************************************************************************)

\* A row is entered, keeps its book, and is deleted for good.
Moves(then, now) ==
    \A x \in DOMAIN then :
        then[x].state # "free" =>
            /\ now[x].state # "free"
            /\ now[x].state = "here" =>
                  then[x].state = "here" /\ now[x].book = then[x].book

\* Links join rows that are there, of one book.
Connected(E, T, L) ==
    \A l \in L : /\ E[l[1]].state = "here" /\ T[l[2]].state = "here"
                 /\ E[l[1]].book = T[l[2]].book

Tables(E, T, L) ==
    /\ E \in [Entries -> Entry] /\ T \in [Tags -> Tag] /\ L \subseteq Entries \X Tags
    /\ Connected(E, T, L)

\* What a request remembers was of its book, if it is still there.
OfBook(table, x, b) == table[x].state = "here" => table[x].book = b

HoldsEntry(q) == q.op \in {"setTags", "findTag", "createTag", "link", "presetLinks"}
TagsHeld(q) == IF q.op = "link" THEN {q.tag}
               ELSE IF q.op \in {"preset", "presetLinks"} THEN q.found ELSE {}

EditOK(q) ==
    /\ q \in Edit
    /\ HoldsEntry(q) =>
          /\ q.entry \in Entries
          /\ entries[q.entry].state # "free" /\ OfBook(entries, q.entry, q.book)
    /\ \A t \in TagsHeld(q) : /\ t \in Tags
                              /\ tags[t].state # "free" /\ OfBook(tags, t, q.book)

\* The same of what a rollback would bring back.
EditThen(q) ==
    /\ HoldsEntry(q) => OfBook(before[1], q.entry, q.book)
    /\ \A t \in TagsHeld(q) : OfBook(before[2], t, q.book)

Opens(q) == q.op \in {"clear", "fill", "presetLinks"}

SnapshotOK ==
    ~NoTransaction =>
        /\ Tables(before[1], before[2], before[3])
        /\ Moves(before[1], entries) /\ Moves(before[2], tags)
        /\ \A p \in Requests : EditThen(edits[p])

ContentsIInv ==
    /\ Tables(entries, tags, links)
    /\ edits \in [Requests -> Edit]
    /\ \A p \in Requests : EditOK(edits[p])
    /\ \A p, q \in Requests : Opens(edits[p]) /\ Opens(edits[q]) => p = q
    /\ SnapshotOK

(***************************************************************************)
(* Steps that keep the rows, for one request.                              *)
(***************************************************************************)

LEMMA MovesOn ==
    ASSUME NEW S, NEW A, NEW B, NEW C, DOMAIN A = S, DOMAIN B = S, Moves(A, B), Moves(B, C)
    PROVE  Moves(A, C)
  BY DEF Moves

\* The new contents, as far as they do not depend on the requests.
Progress ==
    /\ Tables(entries', tags', links')
    /\ Moves(entries, entries') /\ Moves(tags, tags')

LEMMA StillOK ==
    ASSUME ContentsIInv, Progress, NEW q, EditOK(q) PROVE EditOK(q)'
  <1>1. DOMAIN entries = Entries /\ DOMAIN tags = Tags
    BY DEF ContentsIInv, Tables
  <1>2. HoldsEntry(q) => /\ q.entry \in Entries
                         /\ entries'[q.entry].state # "free"
                         /\ OfBook(entries', q.entry, q.book)
    BY <1>1 DEF EditOK, Progress, Moves, OfBook
  <1>3. \A t \in TagsHeld(q) : /\ t \in Tags /\ tags'[t].state # "free"
                               /\ OfBook(tags', t, q.book)
    BY <1>1 DEF EditOK, Progress, Moves, OfBook
  <1> QED
    BY <1>2, <1>3 DEF EditOK, OfBook

\* One request goes on, inside a transaction or not, begins one or ends it.
GoesOnAs(p, r) ==
    /\ Goes(p, r) /\ EditOK(r)'
    /\ \/ /\ before' = before /\ (Opens(r) => Opens(edits[p]))
          /\ NoTransaction \/ EditThen(r)
       \/ NoTransaction /\ before' = contents /\ EditThen(r)'
       \/ ~Opens(r) /\ InTransaction(p)

LEMMA Kept ==
    ASSUME ContentsIInv, Progress, NEW p \in Requests, NEW r, GoesOnAs(p, r)
    PROVE  ContentsIInv'
  <1>1. /\ edits' \in [Requests -> Edit]
        /\ edits'[p] = r /\ \A q \in Requests \ {p} : edits'[q] = edits[q]
    BY DEF ContentsIInv, GoesOnAs, Goes, EditOK
  <1>2. \A q \in Requests : EditOK(edits[q])'
    <2>1. \A q \in Requests \ {p} : EditOK(edits[q])'
      <3> SUFFICES ASSUME NEW q \in Requests \ {p} PROVE EditOK(edits[q])'
        OBVIOUS
      <3>1. EditOK(edits[q])
        BY DEF ContentsIInv
      <3> QED
        BY <1>1, <3>1, StillOK DEF EditOK, OfBook
    <2>2. EditOK(edits[p])'
      BY <1>1 DEF GoesOnAs, EditOK, OfBook
    <2> QED
      BY <2>1, <2>2
  <1>3. \A q \in Requests : Opens(edits'[q]) =>
           (q = p /\ Opens(r)) \/ (q # p /\ Opens(edits[q]))
    BY <1>1
  <1>4. \A q, s \in Requests : Opens(edits'[q]) /\ Opens(edits'[s]) => q = s
    <2>1. CASE Opens(r) => Opens(edits[p])
      BY <1>3, <2>1 DEF ContentsIInv
    <2>2. CASE NoTransaction
      BY <1>3, <2>2 DEF NoTransaction, InTransaction, Opens
    <2>3. CASE ~Opens(r)
      BY <1>3, <2>3 DEF ContentsIInv
    <2> QED
      BY <2>1, <2>2, <2>3 DEF GoesOnAs
  <1>5. SnapshotOK'
    <2>1. CASE NoTransaction /\ (Opens(r) => Opens(edits[p]))
      <3>1. NoTransaction'
        BY <1>3, <2>1 DEF NoTransaction, InTransaction, Opens
      <3> QED
        BY <3>1 DEF SnapshotOK
    <2>2. CASE ~NoTransaction /\ before' = before /\ EditThen(r)
      <3>1. /\ Tables(before[1], before[2], before[3])
            /\ Moves(before[1], entries) /\ Moves(before[2], tags)
            /\ \A q \in Requests : EditThen(edits[q])
        BY <2>2 DEF ContentsIInv, SnapshotOK
      <3>2. Moves(before[1], entries') /\ Moves(before[2], tags')
        BY <3>1, MovesOn DEF ContentsIInv, Tables, Progress
      <3>3. \A q \in Requests : EditThen(edits[q])'
        BY <1>1, <2>2, <3>1 DEF EditThen
      <3> QED
        BY <2>2, <3>1, <3>2, <3>3 DEF SnapshotOK
    <2>3. CASE NoTransaction /\ before' = contents /\ EditThen(r)'
      <3>1. before'[1] = entries /\ before'[2] = tags /\ before'[3] = links
        BY <2>3 DEF contents
      <3>2. \A q \in Requests \ {p} : EditThen(edits[q])'
        BY <1>1, <3>1 DEF ContentsIInv, EditOK, EditThen
      <3>3. EditThen(edits[p])'
        BY <1>1, <2>3 DEF EditThen
      <3>4. \A q \in Requests : EditThen(edits[q])'
        BY <3>2, <3>3
      <3>5. Tables(before'[1], before'[2], before'[3])
        BY <3>1 DEF ContentsIInv
      <3>6. Moves(before'[1], entries') /\ Moves(before'[2], tags')
        BY <3>1 DEF Progress
      <3> QED
        BY <3>4, <3>5, <3>6 DEF SnapshotOK
    <2>4. CASE ~Opens(r) /\ InTransaction(p)
      <3>1. NoTransaction'
        BY <1>3, <2>4 DEF NoTransaction, InTransaction, Opens, ContentsIInv
      <3> QED
        BY <3>1 DEF SnapshotOK
    <2> QED
      BY <2>1, <2>2, <2>3, <2>4 DEF GoesOnAs
  <1>6. Tables(entries', tags', links')
    BY DEF Progress
  <1> QED
    BY <1>1, <1>2, <1>4, <1>5, <1>6 DEF ContentsIInv

\* The record of a request that is over.
LEMMA NewEdit ==
    /\ NoEdit \in Edit /\ NoEdit.entry = None /\ NoEdit.tag = None /\ NoEdit.found = {}
    /\ NoEdit.op = "idle"
  BY DEF NoEdit, Edit

\* A request that ends.
LEMMA Finished ==
    ASSUME ContentsIInv, Progress, NEW p \in Requests, Finishes(p),
           before' = before \/ InTransaction(p)
    PROVE  ContentsIInv'
  <1>1. NoEdit \in Edit
    BY DEF NoEdit, Edit
  <1>2. ~HoldsEntry(NoEdit) /\ TagsHeld(NoEdit) = {} /\ ~Opens(NoEdit)
    BY DEF NoEdit, HoldsEntry, TagsHeld, Opens
  <1>3. EditOK(NoEdit)' /\ EditThen(NoEdit)
    BY <1>1, <1>2 DEF EditOK, EditThen
  <1>4. GoesOnAs(p, NoEdit)
    BY <1>2, <1>3 DEF GoesOnAs, Finishes
  <1> QED
    BY <1>4, Kept

\* A rollback restores the rows of its snapshot; what was entered since is gone.
LEMMA Rollback ==
    ASSUME ContentsIInv, NEW p \in Requests, InTransaction(p), RollsBack(p)
    PROVE  ContentsIInv'
  <1>1. /\ Tables(before[1], before[2], before[3])
        /\ \A q \in Requests : EditThen(edits[q]) /\ EditOK(edits[q])
        /\ Tables(entries, tags, links) /\ edits \in [Requests -> Edit]
    BY DEF ContentsIInv, SnapshotOK, NoTransaction
  <1>2. /\ entries' \in [Entries -> Entry]
        /\ \A e \in Entries :
              /\ before[1][e].state # "free" => entries'[e] = before[1][e]
              /\ entries[e].state # "free" /\ before[1][e].state = "free" => entries'[e] = GoneEntry
    <2>1. GoneEntry \in Entry /\ GoneEntry.state = "gone"
      BY DEF GoneEntry, FreeEntry, Entry
    <2>2. entries' = [e \in Entries |->
              IF before[1][e].state = "free" /\ entries[e].state # "free" THEN GoneEntry
              ELSE before[1][e]]
      BY <1>1 DEF RollsBack, Restored, Tables
    <2> QED
      BY <1>1, <2>1, <2>2 DEF Tables
  <1>3. /\ tags' \in [Tags -> Tag]
        /\ \A t \in Tags :
              /\ before[2][t].state # "free" => tags'[t] = before[2][t]
              /\ tags[t].state # "free" /\ before[2][t].state = "free" => tags'[t] = GoneTag
    <2>1. GoneTag \in Tag /\ GoneTag.state = "gone"
      BY DEF GoneTag, FreeTag, Tag
    <2>2. tags' = [t \in Tags |->
              IF before[2][t].state = "free" /\ tags[t].state # "free" THEN GoneTag
              ELSE before[2][t]]
      BY <1>1 DEF RollsBack, Restored, Tables
    <2> QED
      BY <1>1, <2>1, <2>2 DEF Tables
  <1>4. Tables(entries', tags', links')
    <2>1. links' = before[3]
      BY DEF RollsBack
    <2>2. \A l \in links' : /\ l[1] \in Entries /\ l[2] \in Tags
                            /\ entries'[l[1]] = before[1][l[1]] /\ tags'[l[2]] = before[2][l[2]]
      BY <1>1, <1>2, <1>3, <2>1 DEF Tables, Connected
    <2> QED
      BY <1>1, <1>2, <1>3, <2>1, <2>2 DEF Tables, Connected
  <1>5. edits' = [edits EXCEPT ![p] = NoEdit]
    BY DEF RollsBack, Finishes, Goes
  <1>6. \A q \in Requests : EditOK(edits[q])'
    <2>1. EditOK(NoEdit)'
      BY DEF NoEdit, Edit, EditOK, HoldsEntry, TagsHeld
    <2>2. \A q \in Requests \ {p} : EditOK(edits[q])'
      <3> SUFFICES ASSUME NEW q \in Requests \ {p} PROVE EditOK(edits[q])'
        OBVIOUS
      <3> PICK e : e = edits[q]
        OBVIOUS
      <3>1. edits'[q] = e
        BY <1>1, <1>5
      <3>2. EditOK(e) /\ EditThen(e)
        BY <1>1
      <3>3. HoldsEntry(e) => /\ e.entry \in Entries
                             /\ entries'[e.entry].state # "free"
                             /\ OfBook(entries', e.entry, e.book)
        BY <1>2, <3>2 DEF EditOK, EditThen, OfBook, GoneEntry, FreeEntry
      <3>4. \A t \in TagsHeld(e) : /\ t \in Tags /\ tags'[t].state # "free"
                                   /\ OfBook(tags', t, e.book)
        BY <1>3, <3>2 DEF EditOK, EditThen, OfBook, GoneTag, FreeTag
      <3>5. EditOK(e)'
        BY <3>2, <3>3, <3>4 DEF EditOK, OfBook
      <3> QED
        BY <3>1, <3>5 DEF EditOK, OfBook
    <2> QED
      BY <1>1, <1>5, <2>1, <2>2 DEF EditOK, OfBook
  <1>7. \A q \in Requests : ~Opens(edits'[q])
    BY <1>1, <1>5 DEF ContentsIInv, InTransaction, Opens, NoEdit
  <1>8. SnapshotOK'
    BY <1>7 DEF SnapshotOK, NoTransaction, InTransaction, Opens
  <1> QED
    BY <1>1, <1>4, <1>5, <1>6, <1>7, <1>8, NewEdit DEF ContentsIInv

(***************************************************************************)
(* What the steps do to the rows.                                          *)
(***************************************************************************)

LEMMA NothingMoves == ASSUME ContentsIInv, UNCHANGED contents PROVE Progress
  BY DEF ContentsIInv, Progress, Tables, Connected, Moves, contents

Removes(E, T) ==
    /\ entries' = [e \in Entries |-> IF e \in E THEN GoneEntry ELSE entries[e]]
    /\ tags' = [t \in Tags |-> IF t \in T THEN GoneTag ELSE tags[t]]
    /\ links' \subseteq links /\ \A l \in links' : l[1] \notin E /\ l[2] \notin T

LEMMA Removed ==
    ASSUME ContentsIInv, NEW E, NEW T, Removes(E, T) PROVE Progress
  <1> USE DEF Removes
  <1>1. Tables(entries, tags, links)
    BY DEF ContentsIInv
  <1>2. GoneEntry \in Entry /\ GoneEntry.state = "gone" /\ GoneTag \in Tag /\ GoneTag.state = "gone"
    BY DEF GoneEntry, FreeEntry, Entry, GoneTag, FreeTag, Tag
  <1>3. entries' \in [Entries -> Entry] /\ Moves(entries, entries')
    BY <1>1, <1>2 DEF Tables, Moves
  <1>4. tags' \in [Tags -> Tag] /\ Moves(tags, tags')
    BY <1>1, <1>2 DEF Tables, Moves
  <1>5. links' \subseteq Entries \X Tags /\ Connected(entries', tags', links')
    BY <1>1 DEF Tables, Connected
  <1> QED
    BY <1>3, <1>4, <1>5 DEF Progress, Tables

LEMMA NewRow ==
    ASSUME NEW S, NEW table, DOMAIN table = S, Unused(table) # {}
    PROVE  New(table) \in S /\ table[New(table)].state = "free"
  BY DEF Unused, New

LEMMA EntryAdded ==
    ASSUME ContentsIInv, NEW e \in Entries, entries[e].state = "free", NEW row \in Entry,
           row.state = "here", entries' = [entries EXCEPT ![e] = row], UNCHANGED <<tags, links>>
    PROVE  Progress
  <1>1. Tables(entries, tags, links)
    BY DEF ContentsIInv
  <1>2. entries' \in [Entries -> Entry] /\ Moves(entries, entries') /\ Moves(tags, tags)
    BY <1>1 DEF Tables, Moves
  <1>3. \A l \in links : l[1] # e /\ l[1] \in Entries
    BY <1>1 DEF Tables, Connected
  <1>4. Connected(entries', tags', links')
    BY <1>1, <1>3 DEF Tables, Connected
  <1> QED
    BY <1>1, <1>2, <1>4 DEF Progress, Tables

LEMMA TagAdded ==
    ASSUME ContentsIInv, NEW t \in Tags, tags[t].state = "free", NEW row \in Tag,
           row.state = "here", tags' = [tags EXCEPT ![t] = row], UNCHANGED <<entries, links>>
    PROVE  Progress
  <1>1. Tables(entries, tags, links)
    BY DEF ContentsIInv
  <1>2. tags' \in [Tags -> Tag] /\ Moves(tags, tags') /\ Moves(entries, entries)
    BY <1>1 DEF Tables, Moves
  <1>3. \A l \in links : l[2] # t /\ l[2] \in Tags
    BY <1>1 DEF Tables, Connected
  <1>4. Connected(entries', tags', links')
    BY <1>1, <1>3 DEF Tables, Connected
  <1> QED
    BY <1>1, <1>2, <1>4 DEF Progress, Tables

(***************************************************************************)
(* What a request may remember: a row it found, entered or remembered.     *)
(***************************************************************************)

KnownEntry(e, b) ==
    /\ e \in Entries /\ entries'[e].state # "free" /\ OfBook(entries', e, b)
    /\ NoTransaction \/ OfBook(before[1], e, b)

KnownTag(t, b) ==
    /\ t \in Tags /\ tags'[t].state # "free" /\ OfBook(tags', t, b)
    /\ NoTransaction \/ OfBook(before[2], t, b)

LEMMA Remembered ==
    ASSUME ContentsIInv, Progress, NEW p \in Requests
    PROVE  /\ HoldsEntry(edits[p]) => KnownEntry(edits[p].entry, edits[p].book)
           /\ \A t \in TagsHeld(edits[p]) : KnownTag(t, edits[p].book)
  <1>1. EditOK(edits[p]) /\ (NoTransaction \/ EditThen(edits[p]))
    BY DEF ContentsIInv, SnapshotOK
  <1>2. DOMAIN entries = Entries /\ DOMAIN tags = Tags
    BY DEF ContentsIInv, Tables
  <1>3. HoldsEntry(edits[p]) => KnownEntry(edits[p].entry, edits[p].book)
    BY <1>1, <1>2 DEF EditOK, EditThen, Progress, Moves, OfBook, KnownEntry
  <1>4. \A t \in TagsHeld(edits[p]) : KnownTag(t, edits[p].book)
    BY <1>1, <1>2 DEF EditOK, EditThen, Progress, Moves, OfBook, KnownTag
  <1> QED
    BY <1>3, <1>4

LEMMA Found ==
    ASSUME ContentsIInv, Progress, NEW b
    PROVE  /\ \A e \in EntriesOf(b) : KnownEntry(e, b)
           /\ \A t \in TagsOf(b) : KnownTag(t, b)
  <1>1. DOMAIN entries = Entries /\ DOMAIN tags = Tags
    BY DEF ContentsIInv, Tables
  <1>2. NoTransaction \/ (/\ Moves(before[1], entries) /\ DOMAIN before[1] = Entries
                          /\ Moves(before[2], tags) /\ DOMAIN before[2] = Tags)
    BY DEF ContentsIInv, SnapshotOK, Tables
  <1>3. \A e \in EntriesOf(b) : KnownEntry(e, b)
    BY <1>1, <1>2 DEF EntriesOf, Progress, Moves, OfBook, KnownEntry
  <1>4. \A t \in TagsOf(b) : KnownTag(t, b)
    BY <1>1, <1>2 DEF TagsOf, Progress, Moves, OfBook, KnownTag
  <1> QED
    BY <1>3, <1>4

LEMMA Entered ==
    ASSUME ContentsIInv, Progress, NEW b
    PROVE  /\ \A e \in Entries : entries[e].state = "free" /\ entries'[e].state = "here"
                                 /\ entries'[e].book = b => KnownEntry(e, b)
           /\ \A t \in Tags : tags[t].state = "free" /\ tags'[t].state = "here"
                              /\ tags'[t].book = b => KnownTag(t, b)
  <1>1. NoTransaction \/ (/\ Moves(before[1], entries) /\ DOMAIN before[1] = Entries
                          /\ Moves(before[2], tags) /\ DOMAIN before[2] = Tags)
    BY DEF ContentsIInv, SnapshotOK, Tables
  <1>2. \A e \in Entries : entries[e].state = "free" /\ entries'[e].state = "here"
                           /\ entries'[e].book = b => KnownEntry(e, b)
    BY <1>1 DEF Moves, OfBook, KnownEntry
  <1>3. \A t \in Tags : tags[t].state = "free" /\ tags'[t].state = "here"
                        /\ tags'[t].book = b => KnownTag(t, b)
    BY <1>1 DEF Moves, OfBook, KnownTag
  <1> QED
    BY <1>2, <1>3

\* The next step of a request outside a transaction of its own.
Knows(r) ==
    /\ r \in Edit /\ ~Opens(r)
    /\ HoldsEntry(r) => KnownEntry(r.entry, r.book)
    /\ \A t \in TagsHeld(r) : KnownTag(t, r.book)

LEMMA Continued ==
    ASSUME ContentsIInv, Progress, NEW p \in Requests, NEW r, Knows(r), Goes(p, r),
           before' = before
    PROVE  ContentsIInv'
  <1>1. EditOK(r)'
    BY DEF EditOK, Knows, KnownEntry, KnownTag, OfBook
  <1>2. NoTransaction \/ EditThen(r)
    BY DEF EditThen, Knows, KnownEntry, KnownTag
  <1>3. GoesOnAs(p, r)
    BY <1>1, <1>2 DEF GoesOnAs, Knows
  <1> QED
    BY <1>3, Kept

(***************************************************************************)
(* The requests.                                                           *)
(***************************************************************************)

USE DEF Starts, Receives, Continues

LEMMA ChecksKeep ==
    ASSUME ContentsIInv, NEW p \in Requests, NEW u \in Users, NEW b \in Books,
           \/ \E N \in SUBSET Named : \E d \in Devices : CheckNewPeer(p, u, b, d, N)
           \/ \E N \in SUBSET Named : \E e \in Entries : FindPeer(p, u, b, e, N)
           \/ \E n \in Named : CheckNewTag(p, u, b, n) \/ \E t \in Tags : FindOldTag(p, u, b, t, n)
    PROVE  ContentsIInv'
  <1>0. Named \subseteq Names
    BY DEF Named
  <1>1. ASSUME NEW N \in SUBSET Named, NEW d \in Devices, CheckNewPeer(p, u, b, d, N)
        PROVE  ContentsIInv'
    <2> PICK r : r = [NoEdit EXCEPT !.op = "addPeer", !.book = b, !.device = d, !.names = N]
      OBVIOUS
    <2>1. r \in Edit /\ r.op = "addPeer"
      BY <1>0 DEF NoEdit, Edit
    <2>2. Knows(r)
      BY <2>1 DEF Knows, Opens, HoldsEntry, TagsHeld
    <2> QED
      BY <1>1, <2>2, NothingMoves, Continued DEF CheckNewPeer
  <1>2. ASSUME NEW N \in SUBSET Named, NEW e \in Entries, FindPeer(p, u, b, e, N)
        PROVE  ContentsIInv'
    <2> PICK r : r = [NoEdit EXCEPT !.op = "setTags", !.book = b, !.entry = e, !.names = N]
      OBVIOUS
    <2>1. r \in Edit /\ r.op = "setTags" /\ r.book = b /\ r.entry = e
      BY <1>0 DEF NoEdit, Edit
    <2>2. Progress
      BY <1>2, NothingMoves DEF FindPeer
    <2>3. KnownEntry(e, b)
      BY <1>2, <2>2, Found DEF FindPeer
    <2>4. Knows(r)
      BY <2>1, <2>3 DEF Knows, Opens, HoldsEntry, TagsHeld
    <2> QED
      BY <1>2, <2>2, <2>4, Continued DEF FindPeer
  <1>3. ASSUME NEW n \in Named, CheckNewTag(p, u, b, n) PROVE ContentsIInv'
    <2> PICK r : r = [NoEdit EXCEPT !.op = "addTag", !.book = b, !.name = n]
      OBVIOUS
    <2>1. r \in Edit /\ r.op = "addTag"
      BY <1>0 DEF NoEdit, Edit
    <2>2. Knows(r)
      BY <2>1 DEF Knows, Opens, HoldsEntry, TagsHeld
    <2> QED
      BY <1>3, <2>2, NothingMoves, Continued DEF CheckNewTag
  <1>4. ASSUME NEW n \in Named, NEW t \in Tags, FindOldTag(p, u, b, t, n) PROVE ContentsIInv'
    <2> PICK r : r = [NoEdit EXCEPT !.op = "renameTag", !.book = b, !.tag = t, !.name = n]
      OBVIOUS
    <2>1. r \in Edit /\ r.op = "renameTag"
      BY <1>0 DEF NoEdit, Edit
    <2>2. Knows(r)
      BY <2>1 DEF Knows, Opens, HoldsEntry, TagsHeld
    <2> QED
      BY <1>4, <2>2, NothingMoves, Continued DEF FindOldTag
  <1> QED
    BY <1>1, <1>2, <1>3, <1>4

LEMMA SavePeerKeeps ==
    ASSUME ContentsIInv, NEW p \in Requests, SavePeer(p) PROVE ContentsIInv'
  <1> DEFINE q == edits[p]
             e == New(entries)
  <1>0. q \in Edit /\ q.op = "addPeer" /\ DOMAIN entries = Entries
    BY DEF ContentsIInv, EditOK, SavePeer, Tables
  <1>1. CASE BookHere(q.book)
    <2> PICK row : row = [state |-> "here", book |-> q.book, device |-> q.device]
      OBVIOUS
    <2>1. row \in Entry /\ row.state = "here" /\ row.book = q.book
      BY <1>0 DEF Edit, Entry
    <2>2. e \in Entries /\ entries[e].state = "free"
      BY <1>0, NewRow DEF SavePeer
    <2>3. /\ entries' = [entries EXCEPT ![e] = row] /\ UNCHANGED <<tags, links>>
          /\ Goes(p, [q EXCEPT !.op = "findTag", !.entry = e]) /\ before' = before
      BY <1>1 DEF SavePeer
    <2> PICK r : r = [q EXCEPT !.op = "findTag", !.entry = e]
      OBVIOUS
    <2>4. r \in Edit /\ r.op = "findTag" /\ r.entry = e /\ r.book = q.book
      BY <1>0, <2>2 DEF Edit
    <2> HIDE DEF q, e
    <2>5. Progress
      BY <2>1, <2>2, <2>3, EntryAdded
    <2>6. entries'[e] = row
      BY <1>0, <2>2, <2>3
    <2>7. KnownEntry(e, q.book)
      BY <2>1, <2>2, <2>5, <2>6, Entered
    <2>8. Knows(r)
      BY <2>4, <2>7 DEF Knows, Opens, HoldsEntry, TagsHeld
    <2> QED
      BY <2>3, <2>5, <2>8, Continued
  <1>2. CASE ~BookHere(q.book)
    <2>1. Finishes(p) /\ UNCHANGED contents /\ before' = before
      BY <1>2 DEF SavePeer, contents
    <2> QED
      BY <2>1, NothingMoves, Finished
  <1> QED
    BY <1>1, <1>2

LEMMA DropLinksKeeps ==
    ASSUME ContentsIInv, NEW p \in Requests, DropLinks(p) PROVE ContentsIInv'
  <1> DEFINE q == edits[p]
  <1>0. q \in Edit /\ q.op = "setTags" /\ Tables(entries, tags, links)
    BY DEF ContentsIInv, EditOK, DropLinks
  <1>1. /\ UNCHANGED <<entries, tags, before>> /\ links' \subseteq links
        /\ Goes(p, [q EXCEPT !.op = "findTag"])
    BY DEF DropLinks
  <1> PICK r : r = [q EXCEPT !.op = "findTag"]
    OBVIOUS
  <1>2. r \in Edit /\ r.op = "findTag" /\ r.entry = q.entry /\ r.book = q.book
    BY <1>0 DEF Edit
  <1>3. Progress
    BY <1>0, <1>1 DEF Progress, Tables, Connected, Moves
  <1>4. KnownEntry(q.entry, q.book)
    BY <1>0, <1>3, Remembered DEF HoldsEntry
  <1>5. Knows(r)
    BY <1>2, <1>4 DEF Knows, Opens, HoldsEntry, TagsHeld
  <1> QED
    BY <1>1, <1>3, <1>5, Continued

LEMMA FindTagKeeps ==
    ASSUME ContentsIInv, NEW p \in Requests, FindTag(p) PROVE ContentsIInv'
  <1> DEFINE q == edits[p]
  <1>0. q \in Edit /\ q.op = "findTag"
    BY DEF ContentsIInv, EditOK, FindTag
  <1>1. UNCHANGED <<contents, before>>
    BY DEF FindTag
  <1>2. Progress
    BY <1>1, NothingMoves
  <1>3. KnownEntry(q.entry, q.book)
    BY <1>0, <1>2, Remembered DEF HoldsEntry
  <1>4. CASE Finishes(p)
    BY <1>1, <1>2, <1>4, Finished
  <1>5. ASSUME NEW n \in q.names, NEW t \in Tags, TagFound(q.book, n, t),
               Goes(p, [q EXCEPT !.op = "link", !.tag = t, !.names = @ \ {n}])
        PROVE  ContentsIInv'
    <2> PICK r : r = [q EXCEPT !.op = "link", !.tag = t, !.names = @ \ {n}]
      OBVIOUS
    <2>1. /\ r \in Edit /\ r.op = "link" /\ r.entry = q.entry /\ r.book = q.book
          /\ r.tag = t
      BY <1>0 DEF Edit
    <2>2. KnownTag(t, q.book)
      BY <1>2, <1>5, Found DEF TagFound, TagsNamed
    <2>3. Knows(r)
      BY <1>3, <2>1, <2>2 DEF Knows, Opens, HoldsEntry, TagsHeld
    <2> QED
      BY <1>1, <1>2, <1>5, <2>3, Continued
  <1>6. ASSUME NEW n \in q.names, NEW t \in Tags,
               Goes(p, [q EXCEPT !.op = "createTag", !.tag = t, !.name = n])
        PROVE  ContentsIInv'
    <2> PICK r : r = [q EXCEPT !.op = "createTag", !.tag = t, !.name = n]
      OBVIOUS
    <2>1. r \in Edit /\ r.op = "createTag" /\ r.entry = q.entry /\ r.book = q.book
      BY <1>0 DEF Edit
    <2>2. Knows(r)
      BY <1>3, <2>1 DEF Knows, Opens, HoldsEntry, TagsHeld
    <2> QED
      BY <1>1, <1>2, <1>6, <2>2, Continued
  <1> QED
    BY <1>4, <1>5, <1>6 DEF FindTag

LEMMA CreateTagKeeps ==
    ASSUME ContentsIInv, NEW p \in Requests, CreateTag(p) PROVE ContentsIInv'
  <1> DEFINE q == edits[p]
             t == New(tags)
  <1>0. q \in Edit /\ q.op \in {"createTag", "addTag"} /\ DOMAIN tags = Tags
    BY DEF ContentsIInv, EditOK, CreateTag, Tables
  <1>1. CASE BookHere(q.book)
    <2> PICK row : row = [state |-> "here", book |-> q.book, name |-> q.name]
      OBVIOUS
    <2>1. row \in Tag /\ row.state = "here" /\ row.book = q.book
      BY <1>0 DEF Edit, Tag
    <2>2. t \in Tags /\ tags[t].state = "free"
      BY <1>0, NewRow DEF CreateTag
    <2>3. /\ tags' = [tags EXCEPT ![t] = row] /\ UNCHANGED <<entries, links>>
          /\ before' = before
          /\ IF q.op = "createTag" THEN Goes(p, [q EXCEPT !.op = "link", !.tag = t])
             ELSE Finishes(p)
      BY <1>1 DEF CreateTag
    <2> PICK r : r = [q EXCEPT !.op = "link", !.tag = t]
      OBVIOUS
    <2>4. r \in Edit /\ r.op = "link" /\ r.entry = q.entry /\ r.tag = t /\ r.book = q.book
      BY <1>0, <2>2 DEF Edit
    <2> HIDE DEF t
    <2>5. Progress
      BY <2>1, <2>2, <2>3, TagAdded
    <2>6. CASE q.op = "createTag"
      <3>1. KnownEntry(q.entry, q.book)
        BY <2>5, <2>6, Remembered DEF HoldsEntry
      <3>2. tags'[t] = row
        BY <1>0, <2>2, <2>3
      <3>3. KnownTag(t, q.book)
        BY <2>1, <2>2, <2>5, <3>2, Entered
      <3>4. Knows(r)
        BY <2>4, <3>1, <3>3 DEF Knows, Opens, HoldsEntry, TagsHeld
      <3> QED
        BY <2>3, <2>5, <2>6, <3>4, Continued
    <2>7. CASE q.op # "createTag"
      BY <2>3, <2>5, <2>7, Finished
    <2> QED
      BY <2>6, <2>7
  <1>2. CASE ~BookHere(q.book)
    <2>1. Finishes(p) /\ UNCHANGED contents /\ before' = before
      BY <1>2 DEF CreateTag, contents
    <2> QED
      BY <2>1, NothingMoves, Finished
  <1> QED
    BY <1>1, <1>2

LEMMA LinkKeeps ==
    ASSUME ContentsIInv, NEW p \in Requests, Link(p) PROVE ContentsIInv'
  <1> DEFINE q == edits[p]
             holds == entries[q.entry].state = "here" /\ tags[q.tag].state = "here"
  <1>0. EditOK(q) /\ q \in Edit /\ q.op = "link" /\ Tables(entries, tags, links)
    BY DEF ContentsIInv, EditOK, Link
  <1>1. /\ q.entry \in Entries /\ q.tag \in Tags
        /\ OfBook(entries, q.entry, q.book) /\ OfBook(tags, q.tag, q.book)
    BY <1>0 DEF EditOK, HoldsEntry, TagsHeld
  <1>2. UNCHANGED <<entries, tags, before>>
    BY DEF Link
  <1>3. links' = IF holds THEN links \cup {<<q.entry, q.tag>>} ELSE links
    BY DEF Link
  <1>4. Connected(entries, tags, links')
    BY <1>0, <1>1, <1>3 DEF Tables, Connected, OfBook
  <1>5. Progress
    BY <1>0, <1>1, <1>2, <1>3, <1>4 DEF Progress, Tables, Moves
  <1>6. CASE holds
    <2> PICK r : r = [q EXCEPT !.op = "findTag", !.tag = None, !.name = None,
                                                 !.names = @ \ {q.name}]
      OBVIOUS
    <2>1. r \in Edit /\ r.op = "findTag" /\ r.entry = q.entry /\ r.book = q.book
      BY <1>0 DEF Edit
    <2>2. KnownEntry(q.entry, q.book)
      BY <1>0, <1>5, Remembered DEF HoldsEntry
    <2>3. Knows(r)
      BY <2>1, <2>2 DEF Knows, Opens, HoldsEntry, TagsHeld
    <2>4. Goes(p, r)
      BY <1>6 DEF Link
    <2> QED
      BY <1>2, <1>5, <2>3, <2>4, Continued
  <1>7. CASE ~holds
    <2>1. Finishes(p)
      BY <1>7 DEF Link
    <2> QED
      BY <1>2, <1>5, <2>1, Finished
  <1> QED
    BY <1>6, <1>7

LEMMA DeletePeersKeeps ==
    ASSUME ContentsIInv, NEW p \in Requests, NEW u, NEW b, NEW D, DeletePeers(p, u, b, D)
    PROVE  ContentsIInv'
  <1> PICK E : E = {e \in EntriesOf(b) : entries[e].device \in D}
    OBVIOUS
  <1>1. /\ entries' = [e \in Entries |-> IF e \in E THEN GoneEntry ELSE entries[e]]
        /\ links' = links \ LinksOfEntries(E)
        /\ UNCHANGED <<before, tags, edits>>
    BY DEF DeletePeers
  <1>2. tags' = [t \in Tags |-> IF t \in {} THEN GoneTag ELSE tags[t]]
    BY <1>1 DEF ContentsIInv, Tables
  <1>3. Removes(E, {})
    BY <1>1, <1>2 DEF LinksOfEntries, Removes
  <1>4. Progress
    BY <1>3, Removed
  <1>5. Goes(p, edits[p])
    BY <1>1 DEF Goes, ContentsIInv
  <1>6. edits[p].op = "idle" /\ edits[p] \in Edit
    BY DEF DeletePeers, ContentsIInv, EditOK
  <1>7. Knows(edits[p])
    BY <1>6 DEF Knows, Opens, HoldsEntry, TagsHeld
  <1> QED
    BY <1>1, <1>4, <1>5, <1>7, Continued

LEMMA RenameTagKeeps ==
    ASSUME ContentsIInv, NEW p \in Requests, RenameTag(p) PROVE ContentsIInv'
  <1> DEFINE q == edits[p]
  <1>0. q \in Edit /\ Tables(entries, tags, links)
    BY DEF ContentsIInv, EditOK
  <1>1. UNCHANGED <<before, entries, links>> /\ Finishes(p)
    BY DEF RenameTag
  <1>2. tags' = tags \/ (q.tag \in Tags /\ tags' = [tags EXCEPT ![q.tag].name = q.name])
        \/ (q.tag \notin Tags /\ tags' = [tags EXCEPT ![q.tag].name = q.name])
    BY DEF RenameTag
  <1>3. /\ tags' \in [Tags -> Tag]
        /\ \A t \in Tags : tags'[t].state = tags[t].state /\ tags'[t].book = tags[t].book
    <2>1. CASE tags' = tags
      BY <1>0, <2>1 DEF Tables
    <2>2. CASE q.tag \in Tags /\ tags' = [tags EXCEPT ![q.tag].name = q.name]
      <3> PICK row : row = [tags[q.tag] EXCEPT !.name = q.name]
        OBVIOUS
      <3>1. /\ row \in Tag /\ row.state = tags[q.tag].state /\ row.book = tags[q.tag].book
        BY <1>0, <2>2 DEF Tables, Tag, Edit
      <3>2. tags' = [tags EXCEPT ![q.tag] = row]
        BY <2>2
      <3> QED
        BY <1>0, <2>2, <3>1, <3>2 DEF Tables
    <2>3. CASE q.tag \notin Tags /\ tags' = [tags EXCEPT ![q.tag].name = q.name]
      BY <1>0, <2>3 DEF Tables
    <2> QED
      BY <1>2, <2>1, <2>2, <2>3
  <1>4. Progress
    BY <1>0, <1>1, <1>3 DEF Progress, Tables, Connected, Moves
  <1> QED
    BY <1>1, <1>4, Finished

LEMMA DeleteTagLinksKeeps ==
    ASSUME ContentsIInv, NEW p \in Requests, NEW u \in Users, NEW b \in Books,
           NEW N \in SUBSET Named, DeleteTagLinks(p, u, b, N)
    PROVE  ContentsIInv'
  <1>0. Tables(entries, tags, links)
    BY DEF ContentsIInv
  <1> PICK r : r = [NoEdit EXCEPT !.op = "deleteTags", !.book = b, !.names = N]
    OBVIOUS
  <1>1. r \in Edit /\ r.op = "deleteTags"
    BY DEF NoEdit, Edit, Named
  <1>2. /\ links' \subseteq links /\ UNCHANGED <<before, entries, tags>> /\ Goes(p, r)
    BY DEF DeleteTagLinks
  <1>3. Progress
    BY <1>0, <1>2 DEF Progress, Tables, Connected, Moves
  <1>4. Knows(r)
    BY <1>1 DEF Knows, Opens, HoldsEntry, TagsHeld
  <1> QED
    BY <1>2, <1>3, <1>4, Continued

LEMMA DeleteTagsKeeps ==
    ASSUME ContentsIInv, NEW p \in Requests, DeleteTags(p) PROVE ContentsIInv'
  <1> PICK T : T = TagsNamed(edits[p].book, edits[p].names)
    OBVIOUS
  <1>1. /\ tags' = IF LinksOfTags(T) # {} THEN tags
                   ELSE [t \in Tags |-> IF t \in T THEN GoneTag ELSE tags[t]]
        /\ Finishes(p) /\ UNCHANGED <<before, entries, links>>
    BY DEF DeleteTags
  <1>2. CASE LinksOfTags(T) # {}
    BY <1>1, <1>2, NothingMoves, Finished DEF contents
  <1>3. CASE LinksOfTags(T) = {}
    <2>1. entries' = [e \in Entries |-> IF e \in {} THEN GoneEntry ELSE entries[e]]
      BY <1>1 DEF ContentsIInv, Tables
    <2>2. Removes({}, T)
      BY <1>1, <1>3, <2>1 DEF Removes, LinksOfTags
    <2>3. Progress
      BY <2>2, Removed
    <2> QED
      BY <1>1, <2>3, Finished
  <1> QED
    BY <1>2, <1>3

LEMMA LegacyBeginKeeps ==
    ASSUME ContentsIInv, NEW p \in Requests, NEW u \in Users, NEW b \in Books,
           LegacyBegin(p, u, b)
    PROVE  ContentsIInv'
  <1> PICK r : r = [NoEdit EXCEPT !.op = "clear", !.book = b, !.seen = EntriesOf(b)]
    OBVIOUS
  <1>1. r \in Edit /\ r.op = "clear"
    BY DEF NoEdit, Edit, EntriesOf
  <1>2. ~HoldsEntry(r) /\ TagsHeld(r) = {}
    BY <1>1 DEF HoldsEntry, TagsHeld
  <1>3. EditOK(r)' /\ EditThen(r)'
    BY <1>1, <1>2 DEF EditOK, EditThen
  <1>4. Goes(p, r) /\ NoTransaction /\ before' = contents /\ UNCHANGED contents
    BY DEF LegacyBegin
  <1>5. GoesOnAs(p, r)
    BY <1>3, <1>4 DEF GoesOnAs
  <1> QED
    BY <1>4, <1>5, NothingMoves, Kept

LEMMA LegacyClearKeeps ==
    ASSUME ContentsIInv, NEW p \in Requests, LegacyClear(p) PROVE ContentsIInv'
  <1> DEFINE q == edits[p]
  <1>0. q \in Edit /\ q.op = "clear" /\ InTransaction(p)
    BY DEF ContentsIInv, EditOK, LegacyClear, InTransaction
  <1>1. CASE RollsBack(p)
    BY <1>0, <1>1, Rollback
  <1>2. CASE /\ LinksOfTags(TagsOf(q.book)) \subseteq Cleared(q)
             /\ links' = (links \ Cleared(q)) \ LinksOfEntries(EntriesOf(q.book))
             /\ tags' = [t \in Tags |-> IF t \in TagsOf(q.book) THEN GoneTag ELSE tags[t]]
             /\ entries' = [e \in Entries |->
                              IF e \in EntriesOf(q.book) THEN GoneEntry ELSE entries[e]]
             /\ Goes(p, [q EXCEPT !.op = "fill"]) /\ UNCHANGED before
    <2>1. Removes(EntriesOf(q.book), TagsOf(q.book))
      BY <1>2 DEF Removes, LinksOfTags, LinksOfEntries
    <2>2. Progress
      BY <2>1, Removed
    <2> PICK r : r = [q EXCEPT !.op = "fill"]
      OBVIOUS
    <2>3. r \in Edit /\ r.op = "fill"
      BY <1>0 DEF Edit
    <2>4. ~HoldsEntry(r) /\ TagsHeld(r) = {} /\ Opens(q)
      BY <1>0, <2>3 DEF HoldsEntry, TagsHeld, Opens
    <2>5. EditOK(r)' /\ EditThen(r)
      BY <2>3, <2>4 DEF EditOK, EditThen
    <2>6. GoesOnAs(p, r)
      BY <1>2, <2>4, <2>5 DEF GoesOnAs
    <2> QED
      BY <2>2, <2>6, Kept
  <1> QED
    BY <1>1, <1>2 DEF LegacyClear

LEMMA LegacyFillKeeps ==
    ASSUME ContentsIInv, NEW p \in Requests, NEW n \in Named, NEW d \in Devices, NEW linked,
           LegacyFill(p, n, d, linked)
    PROVE  ContentsIInv'
  <1> DEFINE q == edits[p]
  <1> PICK t, e, row, line :
        /\ t = New(tags) /\ e = New(entries)
        /\ row = [state |-> "here", book |-> q.book, name |-> n]
        /\ line = [state |-> "here", book |-> q.book, device |-> d]
    OBVIOUS
  <1>0. q \in Edit /\ InTransaction(p) /\ Tables(entries, tags, links)
    BY DEF ContentsIInv, EditOK, LegacyFill, InTransaction
  <1>1. row \in Tag /\ row.state = "here" /\ line \in Entry /\ line.state = "here"
        /\ row.book = line.book
    BY <1>0 DEF Edit, Tag, Entry, Named
  <1>2. /\ t \in Tags /\ tags[t].state = "free" /\ e \in Entries /\ entries[e].state = "free"
    BY <1>0, NewRow DEF LegacyFill, Tables
  <1>3. /\ tags' = [tags EXCEPT ![t] = row] /\ entries' = [entries EXCEPT ![e] = line]
        /\ links' = IF linked THEN links \cup {<<e, t>>} ELSE links
        /\ Finishes(p)
    BY DEF LegacyFill
  <1>4. /\ entries' \in [Entries -> Entry] /\ tags' \in [Tags -> Tag]
        /\ Moves(entries, entries') /\ Moves(tags, tags')
        /\ entries'[e] = line /\ tags'[t] = row
        /\ \A x \in Entries \ {e} : entries'[x] = entries[x]
        /\ \A x \in Tags \ {t} : tags'[x] = tags[x]
    BY <1>0, <1>1, <1>2, <1>3 DEF Tables, Moves
  <1>5. \A l \in links : l[1] \in Entries \ {e} /\ l[2] \in Tags \ {t}
    BY <1>0, <1>2 DEF Tables, Connected
  <1>6. links' \subseteq Entries \X Tags /\ Connected(entries', tags', links')
    BY <1>0, <1>1, <1>2, <1>3, <1>4, <1>5 DEF Tables, Connected
  <1>7. Progress
    BY <1>4, <1>6 DEF Progress, Tables
  <1> QED
    BY <1>0, <1>3, <1>7, Finished

LEMMA PresetsKeep ==
    ASSUME ContentsIInv, NEW p \in Requests,
           \/ \E b \in Books : \E d \in Devices : \E N \in SUBSET Named : FindPreset(p, b, d, N)
           \/ FindPresetTag(p)
    PROVE  ContentsIInv'
  <1>1. ASSUME NEW b \in Books, NEW d \in Devices, NEW N \in SUBSET Named, FindPreset(p, b, d, N)
        PROVE  ContentsIInv'
    <2> PICK r : r = [NoEdit EXCEPT !.op = "preset", !.book = b, !.device = d, !.names = N]
      OBVIOUS
    <2>1. r \in Edit /\ r.op = "preset" /\ r.found = {}
      BY DEF NoEdit, Edit, Named
    <2>2. Knows(r)
      BY <2>1 DEF Knows, Opens, HoldsEntry, TagsHeld
    <2> QED
      BY <1>1, <2>2, NothingMoves, Continued DEF FindPreset
  <1>2. CASE FindPresetTag(p)
    <2> DEFINE q == edits[p]
    <2>0. q \in Edit /\ q.op = "preset" /\ UNCHANGED <<contents, before>>
      BY <1>2 DEF ContentsIInv, EditOK, FindPresetTag
    <2>1. Progress
      BY <2>0, NothingMoves
    <2>2. \A t \in q.found : KnownTag(t, q.book)
      BY <2>0, <2>1, Remembered DEF TagsHeld
    <2>3. PICK n \in q.names :
             \/ \E t \in TagsNamed(q.book, {n}) :
                   Goes(p, [q EXCEPT !.names = @ \ {n}, !.found = @ \cup {t}])
             \/ Goes(p, [q EXCEPT !.names = @ \ {n}])
      BY <1>2 DEF FindPresetTag
    <2>4. ASSUME NEW t \in TagsNamed(q.book, {n}),
                 Goes(p, [q EXCEPT !.names = @ \ {n}, !.found = @ \cup {t}])
          PROVE  ContentsIInv'
      <3> PICK r : r = [q EXCEPT !.names = @ \ {n}, !.found = @ \cup {t}]
        OBVIOUS
      <3>1. t \in TagsOf(q.book) /\ t \in Tags
        BY DEF TagsNamed, TagsOf
      <3>2. r \in Edit /\ r.op = "preset" /\ r.book = q.book /\ r.found = q.found \cup {t}
        BY <2>0, <3>1 DEF Edit
      <3>3. KnownTag(t, q.book)
        BY <2>1, <3>1, Found
      <3>4. Knows(r)
        BY <2>2, <3>2, <3>3 DEF Knows, Opens, HoldsEntry, TagsHeld
      <3> QED
        BY <2>0, <2>1, <2>4, <3>4, Continued
    <2>5. CASE Goes(p, [q EXCEPT !.names = @ \ {n}])
      <3> PICK r : r = [q EXCEPT !.names = @ \ {n}]
        OBVIOUS
      <3>1. r \in Edit /\ r.op = "preset" /\ r.book = q.book /\ r.found = q.found
        BY <2>0 DEF Edit
      <3>2. Knows(r)
        BY <2>2, <3>1 DEF Knows, Opens, HoldsEntry, TagsHeld
      <3> QED
        BY <2>0, <2>1, <2>5, <3>2, Continued
    <2> QED
      BY <2>3, <2>4, <2>5
  <1> QED
    BY <1>1, <1>2

LEMMA LegacyEndsKeep ==
    ASSUME ContentsIInv, NEW p \in Requests, LegacyEmpty(p) \/ LegacyFails(p)
    PROVE  ContentsIInv'
  <1>1. CASE LegacyEmpty(p)
    <2>1. Finishes(p) /\ UNCHANGED contents /\ InTransaction(p)
      BY <1>1 DEF LegacyEmpty, Continues, InTransaction
    <2> QED
      BY <2>1, NothingMoves, Finished
  <1>2. CASE LegacyFails(p)
    BY <1>2, Rollback DEF LegacyFails
  <1> QED
    BY <1>1, <1>2

LEMMA SavePresetKeeps ==
    ASSUME ContentsIInv, NEW p \in Requests, SavePreset(p) PROVE ContentsIInv'
  <1> DEFINE q == edits[p]
             e == New(entries)
  <1>0. /\ EditOK(q) /\ q \in Edit /\ q.op = "preset" /\ NoTransaction
        /\ DOMAIN entries = Entries
    BY DEF ContentsIInv, EditOK, SavePreset, Continues, Tables
  <1>1. CASE BookHere(q.book)
    <2> PICK row : row = [state |-> "here", book |-> q.book, device |-> q.device]
      OBVIOUS
    <2>1. row \in Entry /\ row.state = "here" /\ row.book = q.book
      BY <1>0 DEF Edit, Entry
    <2>2. e \in Entries /\ entries[e].state = "free"
      BY <1>0, NewRow DEF SavePreset
    <2> PICK r : r = [q EXCEPT !.op = "presetLinks", !.entry = e]
      OBVIOUS
    <2>3. /\ entries' = [entries EXCEPT ![e] = row] /\ UNCHANGED <<tags, links>>
          /\ Goes(p, r) /\ before' = contents
      BY <1>1 DEF SavePreset
    <2>4. /\ r \in Edit /\ r.op = "presetLinks" /\ r.entry = e /\ r.book = q.book
          /\ r.found = q.found
      BY <1>0, <2>2 DEF Edit
    <2> HIDE DEF e
    <2>5. Progress
      BY <2>1, <2>2, <2>3, EntryAdded
    <2>6. entries'[e] = row
      BY <1>0, <2>2, <2>3
    <2>7. \A t \in q.found : /\ t \in Tags /\ tags[t].state # "free"
                             /\ OfBook(tags, t, q.book)
      BY <1>0 DEF EditOK, TagsHeld
    <2>8. TagsHeld(r) = q.found
      BY <2>4 DEF TagsHeld
    <2>9. EditOK(r)'
      BY <2>1, <2>2, <2>3, <2>4, <2>6, <2>7, <2>8 DEF EditOK, OfBook
    <2>10. before'[1] = entries /\ before'[2] = tags
      BY <2>3 DEF contents
    <2>11. EditThen(r)'
      BY <2>2, <2>4, <2>7, <2>8, <2>10 DEF EditThen, OfBook
    <2>12. GoesOnAs(p, r)
      BY <1>0, <2>3, <2>9, <2>11 DEF GoesOnAs
    <2> QED
      BY <2>5, <2>12, Kept
  <1>2. CASE ~BookHere(q.book)
    <2>1. Finishes(p) /\ UNCHANGED contents /\ before' = before
      BY <1>2 DEF SavePreset, contents
    <2> QED
      BY <2>1, NothingMoves, Finished
  <1> QED
    BY <1>1, <1>2

LEMMA LinkPresetKeeps ==
    ASSUME ContentsIInv, NEW p \in Requests, LinkPreset(p) PROVE ContentsIInv'
  <1> DEFINE q == edits[p]
  <1>0. /\ EditOK(q) /\ q.op = "presetLinks" /\ InTransaction(p)
        /\ Tables(entries, tags, links)
    BY DEF ContentsIInv, LinkPreset, Continues, InTransaction
  <1>1. CASE RollsBack(p)
    BY <1>0, <1>1, Rollback
  <1>2. CASE /\ entries[q.entry].state = "here" /\ \A t \in q.found : tags[t].state = "here"
             /\ links' = links \cup ({q.entry} \X q.found)
             /\ Finishes(p) /\ before' = None /\ UNCHANGED <<entries, tags>>
    <2>1. /\ q.entry \in Entries /\ OfBook(entries, q.entry, q.book)
          /\ \A t \in q.found : t \in Tags /\ OfBook(tags, t, q.book)
      BY <1>0 DEF EditOK, HoldsEntry, TagsHeld
    <2>2. \A l \in links' : l \in links \/ \E t \in q.found : l = <<q.entry, t>>
      BY <1>2
    <2>3. Connected(entries, tags, links') /\ links' \subseteq Entries \X Tags
      BY <1>0, <1>2, <2>1, <2>2 DEF Tables, Connected, OfBook
    <2>4. Progress
      BY <1>0, <1>2, <2>3 DEF Progress, Tables, Moves
    <2> QED
      BY <1>0, <1>2, <2>4, Finished
  <1> QED
    BY <1>1, <1>2 DEF LinkPreset

\* No transaction is open when a book is deleted, and its rows go together.
LEMMA AboutBooksKeeps == ASSUME ContentsIInv, AboutBooks PROVE ContentsIInv'
  <1> PICK G : G = {b \in Books : BookHere(b) /\ books'[b].state = "gone"}
    OBVIOUS
  <1>1. /\ entries' = [e \in Entries |-> IF entries[e].book \in G THEN GoneEntry ELSE entries[e]]
        /\ tags' = [t \in Tags |-> IF tags[t].book \in G THEN GoneTag ELSE tags[t]]
        /\ links' = {l \in links : entries[l[1]].book \notin G}
        /\ NoTransaction /\ UNCHANGED <<edits, before>>
    BY DEF AboutBooks, ContentsOfDeleted
  <1>2. \A l \in links : /\ l[1] \in Entries /\ l[2] \in Tags
                         /\ entries[l[1]].book = tags[l[2]].book
    BY DEF ContentsIInv, Tables, Connected
  <1> DEFINE E == {e \in Entries : entries[e].book \in G}
             T == {t \in Tags : tags[t].book \in G}
  <1>3. Removes(E, T)
    BY <1>1, <1>2 DEF Removes
  <1>4. Progress
    BY <1>3, Removed
  <1>5. \A q \in Requests : EditOK(edits[q])'
    <2> SUFFICES ASSUME NEW q \in Requests PROVE EditOK(edits[q])'
      OBVIOUS
    <2> PICK r : r = edits[q]
      OBVIOUS
    <2>1. EditOK(r)'
      BY <1>4, StillOK DEF ContentsIInv
    <2> QED
      BY <1>1, <2>1 DEF EditOK, OfBook
  <1>6. NoTransaction'
    BY <1>1 DEF NoTransaction, InTransaction
  <1> QED
    BY <1>1, <1>4, <1>5, <1>6 DEF ContentsIInv, SnapshotOK, Progress

LEMMA ContentsIInvInit == Init => ContentsIInv
  <1> SUFFICES ASSUME Init PROVE ContentsIInv
    OBVIOUS
  <1>1. FreeEntry \in Entry /\ FreeTag \in Tag
    BY DEF FreeEntry, Entry, FreeTag, Tag
  <1>2. Tables(entries, tags, links)
    BY <1>1 DEF Init, Tables, Connected
  <1>3. \A p \in Requests : edits[p] = NoEdit
    BY DEF Init
  <1>4. \A p \in Requests : EditOK(edits[p]) /\ ~Opens(edits[p]) /\ ~InTransaction(p)
    BY <1>3 DEF NoEdit, Edit, EditOK, HoldsEntry, TagsHeld, Opens, InTransaction
  <1>5. edits \in [Requests -> Edit]
    BY NewEdit DEF Init
  <1> QED
    BY <1>2, <1>4, <1>5 DEF ContentsIInv, SnapshotOK, NoTransaction

LEMMA ContentsIInvNext == ContentsIInv /\ [Next]_vars => ContentsIInv'
  <1> SUFFICES ASSUME ContentsIInv, [Next]_vars PROVE ContentsIInv'
    OBVIOUS
  <1>1. CASE UNCHANGED vars
    <2>1. Progress
      BY <1>1, NothingMoves DEF vars
    <2>2. \A q \in Requests : EditOK(edits[q])'
      BY <1>1 DEF vars, contents, ContentsIInv, EditOK, OfBook
    <2>3. SnapshotOK'
      BY <1>1 DEF vars, contents, ContentsIInv, SnapshotOK, NoTransaction, InTransaction, EditThen
    <2> QED
      BY <1>1, <2>1, <2>2, <2>3 DEF ContentsIInv, Progress, vars
  <1>2. CASE AboutBooks
    BY <1>2, AboutBooksKeeps
  <1>3. ASSUME NEW p \in Requests,
               \/ DropLinks(p) \/ FindTag(p) \/ CreateTag(p) \/ Link(p)
               \/ RenameTag(p) \/ DeleteTags(p)
               \/ LegacyClear(p) \/ LegacyEmpty(p) \/ LegacyFails(p)
               \/ SavePeer(p)
               \/ FindPresetTag(p) \/ SavePreset(p) \/ LinkPreset(p)
        PROVE  ContentsIInv'
    BY <1>3, DropLinksKeeps, FindTagKeeps, CreateTagKeeps, LinkKeeps, RenameTagKeeps,
       DeleteTagsKeeps, LegacyClearKeeps, LegacyEndsKeep, SavePeerKeeps, PresetsKeep,
       SavePresetKeeps, LinkPresetKeeps
  <1>4. ASSUME NEW p \in Requests,
               \/ \E b \in Books, d \in Devices, N \in SUBSET Named : FindPreset(p, b, d, N)
               \/ \E n \in Named, d \in Devices, linked \in BOOLEAN : LegacyFill(p, n, d, linked)
        PROVE  ContentsIInv'
    BY <1>4, PresetsKeep, LegacyFillKeeps
  <1>5. ASSUME NEW p \in Requests, NEW u \in Users, NEW b \in Books,
                \/ LegacyBegin(p, u, b)
                \/ \E D \in SUBSET Devices : DeletePeers(p, u, b, D)
                \/ \E N \in SUBSET Named :
                      \/ DeleteTagLinks(p, u, b, N)
                      \/ \E d \in Devices : CheckNewPeer(p, u, b, d, N)
                      \/ \E e \in Entries : FindPeer(p, u, b, e, N)
                \/ \E n \in Named :
                      CheckNewTag(p, u, b, n) \/ \E t \in Tags : FindOldTag(p, u, b, t, n)
        PROVE  ContentsIInv'
    BY <1>5, LegacyBeginKeeps, DeletePeersKeeps, DeleteTagLinksKeeps, ChecksKeep
  <1> QED
    BY <1>1, <1>2, <1>3, <1>4, <1>5 DEF Next

LEMMA ContentsInvariant == Spec => []ContentsIInv
  BY ContentsIInvInit, ContentsIInvNext, PTL DEF Spec

\* A link joins an entry and a tag of one book that are both there, whatever
\* is deleted, replaced or rolled back between finding them and linking them.
THEOREM LinksStayWithin == Spec => []LinksWithinBook
  <1>1. ContentsIInv => LinksWithinBook
    BY DEF ContentsIInv, Tables, Connected, LinksWithinBook
  <1> QED
    BY <1>1, ContentsInvariant, PTL

(***************************************************************************)
(* A replacement from an old client leaves the other books alone.          *)
(***************************************************************************)

\* The rows a replacement found when it began, as they were then.
SeenThen(q) ==
    q.op = "clear" => \A e \in q.seen : /\ before[1][e].state # "free"
                                        /\ before[1][e].book = q.book /\ e \in Entries

SeenIInv == \A p \in Requests : SeenThen(edits[p])

\* A request goes on that does not replace, outside the transactions of others.
Aside(p) ==
    \E r : /\ Goes(p, r) /\ r.op \notin {"clear", "fill"}
           /\ before' = before \/ NoTransaction \/ InTransaction(p)

LEMMA StepsAside ==
    ASSUME ContentsIInv, Next
    PROVE  \/ UNCHANGED <<edits, before>>
           \/ \E p \in Requests :
                 \/ Aside(p) \/ LegacyClear(p)
                 \/ \E u \in Users, b \in Books : LegacyBegin(p, u, b)
  <1> USE DEF Aside, Finishes, NoEdit
  <1>1. ASSUME NEW p \in Requests, LegacyEmpty(p) \/ LegacyFails(p) \/ LinkPreset(p)
        PROVE  Aside(p)
    BY <1>1 DEF LegacyEmpty, LegacyFails, LinkPreset, RollsBack, Continues, InTransaction
  <1>2. ASSUME NEW p \in Requests, SavePreset(p) \/ FindPresetTag(p) PROVE Aside(p)
    BY <1>2 DEF SavePreset, FindPresetTag, Continues, ContentsIInv, Edit
  <1>3. ASSUME NEW p \in Requests, DropLinks(p) \/ FindTag(p) PROVE Aside(p)
    BY <1>3 DEF DropLinks, FindTag, Continues, ContentsIInv, Edit
  <1>4. ASSUME NEW p \in Requests, CreateTag(p) \/ Link(p) \/ SavePeer(p) PROVE Aside(p)
    BY <1>4 DEF CreateTag, Link, SavePeer, Continues, ContentsIInv, Edit
  <1>5. ASSUME NEW p \in Requests, RenameTag(p) \/ DeleteTags(p) PROVE Aside(p)
    BY <1>5 DEF RenameTag, DeleteTags
  <1>6. ASSUME NEW p \in Requests,
               \/ \E b \in Books, d \in Devices, N \in SUBSET Named : FindPreset(p, b, d, N)
               \/ \E n \in Named, d \in Devices, linked \in BOOLEAN : LegacyFill(p, n, d, linked)
        PROVE  Aside(p)
    BY <1>6 DEF FindPreset, LegacyFill, Continues, InTransaction
  <1>7. ASSUME NEW p \in Requests, NEW u \in Users, NEW b \in Books,
                \/ \E D \in SUBSET Devices : DeletePeers(p, u, b, D)
                \/ \E N \in SUBSET Named :
                      \/ DeleteTagLinks(p, u, b, N)
                      \/ \E d \in Devices : CheckNewPeer(p, u, b, d, N)
                      \/ \E e \in Entries : FindPeer(p, u, b, e, N)
                \/ \E n \in Named :
                      CheckNewTag(p, u, b, n) \/ \E t \in Tags : FindOldTag(p, u, b, t, n)
        PROVE  Aside(p) \/ UNCHANGED <<edits, before>>
    BY <1>7 DEF DeletePeers, DeleteTagLinks, CheckNewPeer, FindPeer, CheckNewTag, FindOldTag
  <1>8. ASSUME AboutBooks PROVE UNCHANGED <<edits, before>>
    BY <1>8 DEF AboutBooks
  <1> HIDE DEF Aside
  <1> QED
    BY <1>1, <1>2, <1>3, <1>4, <1>5, <1>6, <1>7, <1>8 DEF Next

\* A request that replaces, before and after a step of another one.
LEMMA AsideKeeps ==
    ASSUME ContentsIInv, NEW p \in Requests, Aside(p), NEW q \in Requests,
           edits'[q].op \in {"clear", "fill"}
    PROVE  edits'[q] = edits[q] /\ before' = before
  <1>1. PICK r : /\ Goes(p, r) /\ r.op \notin {"clear", "fill"}
                 /\ before' = before \/ NoTransaction \/ InTransaction(p)
    BY DEF Aside
  <1>2. q # p /\ edits'[q] = edits[q]
    BY <1>1 DEF Goes, ContentsIInv
  <1>3. Opens(edits[q])
    BY <1>2 DEF Opens
  <1>4. ~NoTransaction /\ ~InTransaction(p)
    BY <1>2, <1>3 DEF ContentsIInv, NoTransaction, InTransaction, Opens
  <1> QED
    BY <1>1, <1>2, <1>4

LEMMA SeenIInvNext ==
    ASSUME ContentsIInv, SeenIInv, [Next]_vars PROVE SeenIInv'
  <1> SUFFICES ASSUME NEW q \in Requests, edits'[q].op = "clear"
               PROVE  \A e \in edits'[q].seen : /\ before'[1][e].state # "free"
                                                /\ before'[1][e].book = edits'[q].book
                                                /\ e \in Entries
    BY DEF SeenIInv, SeenThen
  <1>1. CASE edits'[q] = edits[q] /\ before' = before
    BY <1>1 DEF SeenIInv, SeenThen
  <1>2. ASSUME NEW p \in Requests, LegacyClear(p) PROVE edits'[q] = edits[q] /\ before' = before
    <2>1. InTransaction(p) /\ edits[p] \in Edit
      BY <1>2 DEF LegacyClear, Continues, InTransaction, ContentsIInv
    <2>2. \E r : Goes(p, r) /\ r.op # "clear"
      BY <1>2, <2>1 DEF LegacyClear, RollsBack, Finishes, NoEdit, Edit
    <2>3. q # p /\ edits'[q] = edits[q]
      BY <2>2 DEF Goes, ContentsIInv
    <2> QED
      BY <2>1, <2>3 DEF ContentsIInv, InTransaction, Opens
  <1>3. ASSUME NEW p \in Requests, NEW u \in Users, NEW b \in Books, LegacyBegin(p, u, b)
        PROVE  \A e \in edits'[q].seen : /\ before'[1][e].state # "free"
                                         /\ before'[1][e].book = edits'[q].book
                                         /\ e \in Entries
    <2>1. before'[1] = entries /\ NoTransaction
      BY <1>3 DEF LegacyBegin, contents
    <2>2. edits' = [edits EXCEPT ![p] = [NoEdit EXCEPT !.op = "clear", !.book = b,
                                                       !.seen = EntriesOf(b)]]
      BY <1>3 DEF LegacyBegin, Goes
    <2>3. q = p
      BY <2>1, <2>2 DEF NoTransaction, InTransaction, ContentsIInv
    <2>4. edits'[q].seen = EntriesOf(b) /\ edits'[q].book = b
      BY <2>2, <2>3 DEF ContentsIInv, NoEdit
    <2> QED
      BY <2>1, <2>4 DEF EntriesOf
  <1>4. CASE Next
    BY <1>1, <1>2, <1>3, <1>4, StepsAside, AsideKeeps
  <1> QED
    BY <1>1, <1>4 DEF vars

LEMMA ClearLeavesOthers ==
    ASSUME ContentsIInv, SeenIInv, Next, NEW p \in Requests, NEW b \in Books,
           edits[p].op = "clear", edits'[p].op = "fill", b # edits[p].book
    PROVE  /\ EntriesOf(b)' = EntriesOf(b) /\ TagsOf(b)' = TagsOf(b)
           /\ LinksOfEntries(EntriesOf(b))' = LinksOfEntries(EntriesOf(b))
  <1> DEFINE q == edits[p]
  <1>1. LegacyClear(p)
    <2>1. ASSUME NEW s \in Requests, LegacyClear(s) PROVE s = p
      BY <2>1 DEF LegacyClear, Continues, ContentsIInv, Opens
    <2>2. ASSUME NEW s \in Requests, NEW u \in Users, NEW c \in Books, LegacyBegin(s, u, c)
          PROVE  FALSE
      BY <2>2 DEF LegacyBegin, NoTransaction, InTransaction
    <2> QED
      BY <2>1, <2>2, StepsAside, AsideKeeps
  <1>2. ~RollsBack(p)
    BY DEF RollsBack, Finishes, Goes, NoEdit, ContentsIInv
  <1>3. /\ links' = (links \ Cleared(q)) \ LinksOfEntries(EntriesOf(q.book))
        /\ tags' = [t \in Tags |-> IF t \in TagsOf(q.book) THEN GoneTag ELSE tags[t]]
        /\ entries' = [e \in Entries |->
                         IF e \in EntriesOf(q.book) THEN GoneEntry ELSE entries[e]]
    BY <1>1, <1>2 DEF LegacyClear
  <1>4. \A e \in EntriesOf(b) : e \notin q.seen /\ e \notin EntriesOf(q.book)
    <2>1. Moves(before[1], entries) /\ DOMAIN before[1] = Entries
      BY DEF ContentsIInv, SnapshotOK, NoTransaction, InTransaction, Tables
    <2>2. \A e \in q.seen : e \in Entries /\ OfBook(entries, e, q.book)
      BY <2>1 DEF SeenIInv, SeenThen, Moves, OfBook
    <2> QED
      BY <2>2 DEF EntriesOf, OfBook
  <1>5. EntriesOf(b)' = EntriesOf(b)
    BY <1>3 DEF EntriesOf, GoneEntry, FreeEntry
  <1>6. TagsOf(b)' = TagsOf(b)
    BY <1>3 DEF TagsOf, GoneTag, FreeTag
  <1>7. LinksOfEntries(EntriesOf(b))' = LinksOfEntries(EntriesOf(b))
    BY <1>3, <1>4, <1>5 DEF LinksOfEntries, Cleared
  <1> QED
    BY <1>5, <1>6, <1>7

\* What an old client sends replaces the rows of its own book: the entries, the
\* tags and the links of every other book are those of before.
THEOREM OnlyOwnReplaced == Spec => OthersUntouched
  <1>1. Init => SeenIInv
    BY DEF Init, SeenIInv, SeenThen, NoEdit
  <1>2. ContentsIInv /\ SeenIInv /\ [Next]_vars => SeenIInv'
    BY SeenIInvNext
  <1>3. ContentsIInv /\ SeenIInv /\ [Next]_vars =>
           [\A p \in Requests : \A b \in Books :
               (edits[p].op = "clear" /\ edits'[p].op = "fill" /\ b # edits[p].book) =>
                   /\ EntriesOf(b)' = EntriesOf(b) /\ TagsOf(b)' = TagsOf(b)
                   /\ LinksOfEntries(EntriesOf(b))' = LinksOfEntries(EntriesOf(b))]_vars
    BY ClearLeavesOthers
  <1> QED
    BY <1>1, <1>2, <1>3, ContentsInvariant, PTL DEF Spec, OthersUntouched
=============================================================================
