---------------------------- MODULE AddressBooks ----------------------------
(***************************************************************************)
(* Address books and who may use them.  A book has an owner and rules that *)
(* give a user, a user group or everyone a level: 1 to read, 2 to read and *)
(* write, 3 for full control.  A handler loads and checks, and then saves  *)
(* what it loaded: save writes every column that differs from the row, and *)
(* inserts the row when it is gone.                                        *)
(***************************************************************************)
EXTENDS Naturals, FiniteSetsExt

CONSTANTS Users, Groups, Default, Rules, Requests, None, Everyone,
          Profiles,      \* ids that custom and shared books take
          Personals,     \* ids that personal books take
          Scenarios      \* sets of operations and of names of tags; a behaviour uses
                         \* those of one, and handles one request after the other
                         \* if "alone" is in it

Books == Profiles \cup Personals

ASSUME TargetsAssumption ==
    /\ Default \in Groups /\ Users \cap Groups = {}
    /\ Everyone \notin Users \cup Groups
    /\ None \notin Users \cup Groups \cup Books \cup {Everyone}

Levels == 1..3
READ == 1
READ_WRITE == 2
FULL_CONTROL == 3

VARIABLES scenario,
          groups,        \* the user_groups table
          users,         \* the users table: the group of a user, None when deleted
          books,         \* the address_books table
          rules,         \* the address_book_rules table
          requests       \* requests in flight

Targets == Users \cup Groups \cup {Everyone}

\* state: ids are random, so the id of a deleted row is not taken again
Book == [state: {"free", "here", "gone"}, owner: Users \cup {None},
         isPersonal: BOOLEAN, isShared: BOOLEAN]
FreeBook == [state |-> "free", owner |-> None, isPersonal |-> FALSE, isShared |-> FALSE]

Rule == [state: {"free", "here", "gone"}, book: Books \cup {None},
         target: Targets \cup {None}, level: Levels]
FreeRule == [state |-> "free", book |-> None, target |-> None, level |-> READ]

Exists(u) == users[u] # None
BookHere(b) == books[b].state = "here"
RuleHere(r) == rules[r].state = "here"
RulesOf(b) == {r \in Rules : RuleHere(r) /\ rules[r].book = b}

Enabled(op) == op \in scenario

(* Ids are random: any that was not used before stands for all. *)
Unused(table) == {x \in DOMAIN table : table[x].state = "free"}
New(table) == CHOOSE x \in Unused(table) : TRUE

-----------------------------------------------------------------------------
(* Mutant: rules for the user's group are forgotten. *)
ApplicableUngrouped(b, u) == {r \in RulesOf(b) : rules[r].target \in {u, Everyone}}

(* The rules of a book that count for a user. *)
Applicable(b, u) == {r \in RulesOf(b) : rules[r].target \in {u, Everyone, users[u]}}

(* checkAddressBookAccess. *)
MayAccess(b, u, required) ==
    /\ BookHere(b)
    /\ \/ books[b].owner = u
       \/ Exists(u) /\ (\E r \in Applicable(b, u) : rules[r].level >= required)

(* EXTERNAL_GRANT_EXISTS. *)
ExternalGrant(b) == \E r \in RulesOf(b) : rules[r].target # books[b].owner

(* getAccessibleAddressBooks joins books with the rules that count for the *)
(* user and shows the strongest; 0 when the book is not in the list.       *)
Joined(b, u) ==
    {r \in RulesOf(b) : \/ rules[r].target = u
                         \/ rules[r].target = Everyone
                         \/ (users[u] # None /\ rules[r].target = users[u])}

ListedLevel(b, u) ==
    IF ~BookHere(b) \/ books[b].isPersonal \/ ~Exists(u) THEN 0
    ELSE IF books[b].owner = u THEN FULL_CONTROL
    ELSE Max({0} \cup {rules[r].level : r \in Joined(b, u)})

(* getWebSharedAddressBooks and findSharedAddressBook. *)
IsShared(b) ==
    BookHere(b) /\ ~books[b].isPersonal /\ (books[b].isShared \/ ExternalGrant(b))

(* getCustomAddressBooks and findPrivateCustomAddressBook. *)
IsPrivateCustom(b, u) ==
    /\ BookHere(b) /\ ~books[b].isPersonal /\ books[b].owner = u
    /\ ~books[b].isShared /\ ~ExternalGrant(b)

-----------------------------------------------------------------------------
(* A request that has loaded and checked, with the entity it loaded or the *)
(* row it is about to insert.                                              *)
Request == [op: {"idle", "personal", "createRule", "updateRule", "update", "transfer",
                 "deleteBook"},
            user: Users \cup {None}, book: Books \cup {None}, copy: Book,
            rule: Rules \cup {None}, row: Rule]
NoRequest == [op |-> "idle", user |-> None, book |-> None, copy |-> FreeBook,
              rule |-> None, row |-> FreeRule]

Free(p) ==
    /\ requests[p].op = "idle"
    /\ Enabled("alone") => \A other \in Requests : requests[other].op = "idle"
Begin(p, r) == requests' = [requests EXCEPT ![p] = r]
Ends(p) == Begin(p, NoRequest)

(* getPersonalAddressBook: the book is looked for, and created if absent. *)
FindPersonal(p, u) ==
    /\ Enabled("personal") /\ Free(p) /\ Exists(u)
    /\ \A b \in Books : ~(BookHere(b) /\ books[b].owner = u /\ books[b].isPersonal)
    /\ Begin(p, [NoRequest EXCEPT !.op = "personal", !.user = u])
    /\ UNCHANGED <<scenario, groups, users, books, rules>>

SavePersonal(p) ==
    /\ requests[p].op = "personal" /\ Unused(books) \cap Personals # {}
    /\ LET b == CHOOSE x \in Personals : x \in Unused(books)
       IN books' = [books EXCEPT ![b] = [state |-> "here", owner |-> requests[p].user,
                                         isPersonal |-> TRUE, isShared |-> FALSE]]
    /\ Ends(p)
    /\ UNCHANGED <<scenario, groups, users, rules>>

(* createAddressBookProfile, for a custom or a shared book. *)
CreateBook(u, b, isShared) ==
    /\ Enabled("create") /\ Exists(u) /\ books[b].state = "free"
    /\ books' = [books EXCEPT ![b] = [state |-> "here", owner |-> u,
                                      isPersonal |-> FALSE, isShared |-> isShared]]
    /\ UNCHANGED <<scenario, groups, users, rules, requests>>

(* createRule: access, target and that there is no such rule yet. *)
CheckNewRule(p, u, b, target, level) ==
    /\ Enabled("rules") /\ Free(p) /\ Exists(u) /\ MayAccess(b, u, FULL_CONTROL)
    /\ target \in Users => Exists(target)
    /\ target \in Groups => target \in groups
    /\ \A other \in RulesOf(b) : rules[other].target # target
    /\ Begin(p, [NoRequest EXCEPT !.op = "createRule", !.user = u, !.book = b,
                    !.row = [state |-> "here", book |-> b, target |-> target,
                             level |-> level]])
    /\ UNCHANGED <<scenario, groups, users, books, rules>>

(* updateRule: the rule is loaded and the access to its book checked. *)
LoadRule(p, u, r, level) ==
    /\ Enabled("rules") /\ Free(p) /\ Exists(u) /\ RuleHere(r)
    /\ MayAccess(rules[r].book, u, FULL_CONTROL)
    /\ Begin(p, [NoRequest EXCEPT !.op = "updateRule", !.user = u, !.book = rules[r].book,
                    !.rule = r,
                    !.row = [rules[r] EXCEPT !.level = level]])
    /\ UNCHANGED <<scenario, groups, users, books, rules>>

(* The row is inserted, also when it has been deleted since it was loaded, *)
(* or updated; the insert fails when the book is gone.                     *)
SaveRule(p) ==
    LET q == requests[p]
    IN /\ q.op \in {"createRule", "updateRule"}
       /\ q.op = "createRule" => Unused(rules) # {}
       /\ LET r == IF q.op = "createRule" THEN New(rules) ELSE q.rule
          IN rules' = IF BookHere(q.book) THEN [rules EXCEPT ![r] = q.row] ELSE rules
       /\ Ends(p)
       /\ UNCHANGED <<scenario, groups, users, books>>

(* deleteRules: one transaction. *)
DeleteRules(u, R) ==
    /\ Enabled("rules") /\ Exists(u) /\ R # {}
    /\ \A r \in R : RuleHere(r) /\ MayAccess(rules[r].book, u, FULL_CONTROL)
    /\ rules' = [r \in Rules |-> IF r \in R THEN [FreeRule EXCEPT !.state = "gone"] ELSE rules[r]]
    /\ UNCHANGED <<scenario, groups, users, books, requests>>

(* updateCustomAddressBook: a private book is loaded by its owner. *)
LoadCustom(p, u, b) ==
    /\ Enabled("update") /\ Free(p) /\ Exists(u) /\ IsPrivateCustom(b, u)
    /\ Begin(p, [NoRequest EXCEPT !.op = "update", !.user = u, !.book = b,
                    !.copy = books[b]])
    /\ UNCHANGED <<scenario, groups, users, books, rules>>

(* updateSharedAddressBook: name, note or password of a shared book. *)
LoadShared(p, u, b) ==
    /\ Enabled("update") /\ Free(p) /\ Exists(u) /\ IsShared(b)
    /\ MayAccess(b, u, READ_WRITE)
    /\ Begin(p, [NoRequest EXCEPT !.op = "update", !.user = u, !.book = b, !.copy = books[b]])
    /\ UNCHANGED <<scenario, groups, users, books, rules>>

(* The same with a new owner, who must exist and is looked up among the    *)
(* rules.                                                                  *)
LoadTransfer(p, u, b, owner) ==
    /\ Enabled("transfer") /\ Free(p) /\ Exists(u) /\ Exists(owner) /\ IsShared(b)
    /\ owner # books[b].owner /\ MayAccess(b, u, FULL_CONTROL)
    /\ Begin(p, [NoRequest EXCEPT
                    !.op = IF \E r \in RulesOf(b) : rules[r].target = owner
                           THEN "update" ELSE "transfer",
                    !.user = u, !.book = b,
                    !.copy = [books[b] EXCEPT !.owner = owner]])
    /\ UNCHANGED <<scenario, groups, users, books, rules>>

(* A new owner without a rule gets one first. *)
GrantOwner(p) ==
    LET q == requests[p]
    IN /\ q.op = "transfer" /\ Unused(rules) # {}
       /\ IF BookHere(q.book)
          THEN /\ rules' = [rules EXCEPT ![New(rules)] = [state |-> "here", book |-> q.book,
                                target |-> q.copy.owner, level |-> FULL_CONTROL]]
               /\ Begin(p, [q EXCEPT !.op = "update"])
          ELSE Ends(p) /\ UNCHANGED rules
       /\ UNCHANGED <<scenario, groups, users, books>>

(* The name is taken, or the book is saved. *)
SaveBook(p) ==
    LET q == requests[p]
    IN /\ q.op = "update"
       /\ \/ UNCHANGED books
          \/ books' = [books EXCEPT ![q.book] = q.copy]
       /\ Ends(p)
       /\ UNCHANGED <<scenario, groups, users, rules>>

(* deleteCustomAddressBooks and deleteSharedAddressBooks, of an owner. *)
LoadDeleted(p, u, b) ==
    /\ Enabled("delete") /\ Free(p) /\ Exists(u)
    /\ books[b].owner = u
    /\ IsPrivateCustom(b, u) \/ IsShared(b)
    /\ Begin(p, [NoRequest EXCEPT !.op = "deleteBook", !.user = u, !.book = b])
    /\ UNCHANGED <<scenario, groups, users, books, rules>>

(* The row goes with the rules that refer to it. *)
DeleteBook(p) ==
    LET b == requests[p].book
    IN /\ requests[p].op = "deleteBook"
       /\ books' = [books EXCEPT ![b] = [FreeBook EXCEPT !.state = "gone"]]
       /\ rules' = [r \in Rules |-> IF r \in RulesOf(b) THEN [FreeRule EXCEPT !.state = "gone"]
                                    ELSE rules[r]]
       /\ Ends(p)
       /\ UNCHANGED <<scenario, groups, users>>

(* A user is deleted; books and rules keep naming the user. *)
DeleteUser(u) ==
    /\ Enabled("users") /\ Exists(u)
    /\ users' = [users EXCEPT ![u] = None]
    /\ UNCHANGED <<scenario, groups, books, rules, requests>>

(* moveUsers. *)
MoveUser(u, g) ==
    /\ Enabled("users") /\ Exists(u) /\ users[u] # g /\ g \in groups
    /\ users' = [users EXCEPT ![u] = g]
    /\ UNCHANGED <<scenario, groups, books, rules, requests>>

(* deleteGroup: its members move to the default group, its rules go. *)
DeleteGroup(g) ==
    /\ Enabled("users") /\ g \in groups \ {Default}
    /\ groups' = groups \ {g}
    /\ users' = [u \in Users |-> IF users[u] = g THEN Default ELSE users[u]]
    /\ rules' = [r \in Rules |-> IF RuleHere(r) /\ rules[r].target = g
                                  THEN [FreeRule EXCEPT !.state = "gone"] ELSE rules[r]]
    /\ UNCHANGED <<scenario, books, requests>>

-----------------------------------------------------------------------------
BooksInit ==
    /\ scenario \in Scenarios
    /\ groups = Groups
    /\ users \in [Users -> Groups]
    /\ books = [b \in Books |-> FreeBook]
    /\ rules = [r \in Rules |-> FreeRule]
    /\ requests = [p \in Requests |-> NoRequest]

BooksNext ==
    \/ \E p \in Requests :
          \/ SavePersonal(p) \/ SaveRule(p) \/ GrantOwner(p) \/ SaveBook(p)
          \/ DeleteBook(p)
          \/ \E u \in Users :
                \/ FindPersonal(p, u)
                \/ \E level \in Levels :
                      \/ \E r \in Rules : LoadRule(p, u, r, level)
                      \/ \E b \in Books, target \in Targets :
                            CheckNewRule(p, u, b, target, level)
                \/ \E b \in Books :
                      \/ LoadCustom(p, u, b) \/ LoadShared(p, u, b) \/ LoadDeleted(p, u, b)
                      \/ \E owner \in Users : LoadTransfer(p, u, b, owner)
    \/ \E u \in Users :
          \/ \E b \in Profiles, isShared \in BOOLEAN : CreateBook(u, b, isShared)
          \/ \E R \in SUBSET Rules : DeleteRules(u, R)
          \/ DeleteUser(u) \/ \E g \in Groups : MoveUser(u, g)
    \/ \E g \in Groups : DeleteGroup(g)

-----------------------------------------------------------------------------
(* The level a list of address books shows is the level the next request   *)
(* is granted: one is an SQL aggregate over a join, the other a maximum    *)
(* over three queries (getAccessibleAddressBooks, checkAddressBookAccess). *)
(* And everybody who may use a book that is not personal finds it on       *)
(* exactly one of the web console's two pages, whatever rules were added,  *)
(* raised or deleted and whoever became its owner                          *)
(* (findPrivateCustomAddressBook, getWebSharedAddressBooks).               *)
ListAgreesWithCheck ==
    \A u \in Users, b \in Books :
        Exists(u) /\ BookHere(b) /\ ~books[b].isPersonal =>
            /\ \A level \in Levels : MayAccess(b, u, level) <=> ListedLevel(b, u) >= level
            /\ MayAccess(b, u, READ) =>
                  (IsPrivateCustom(b, u) <=> ~(IsShared(b) /\ ListedLevel(b, u) >= READ))
=============================================================================
