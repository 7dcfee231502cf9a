------------------------ MODULE AddressBookContents ------------------------
(***************************************************************************)
(* What is in the address books: devices, tags, and links between them.    *)
(* Requests to add, change and delete them are sequences of statements     *)
(* that run next to each other.  Old clients replace the contents of their *)
(* user's personal book in one transaction, and a device can enter itself  *)
(* in a book.                                                              *)
(***************************************************************************)
EXTENDS AddressBooks

CONSTANTS Devices, Entries, Tags,
          Names,             \* of tags; a behaviour uses those in its scenario
          SharedConnection   \* one connection for all (SQLite), or each its own (MySQL)

VARIABLES entries,     \* the address_book_peers table
          tags,        \* the address_book_tags table
          links,       \* the address_book_peer_tags table
          edits,       \* requests in flight about contents
          before       \* what a rollback restores

access == <<scenario, groups, users, books, rules, requests>>
contents == <<entries, tags, links>>
vars == <<access, contents, edits, before>>

Entry == [state: {"free", "here", "gone"}, book: Books \cup {None}, device: Devices \cup {None}]
FreeEntry == [state |-> "free", book |-> None, device |-> None]
GoneEntry == [FreeEntry EXCEPT !.state = "gone"]

Tag == [state: {"free", "here", "gone"}, book: Books \cup {None}, name: Names \cup {None}]
FreeTag == [state |-> "free", book |-> None, name |-> None]
GoneTag == [FreeTag EXCEPT !.state = "gone"]

Edit == [op: {"idle", "addPeer", "setTags", "findTag", "createTag", "link", "addTag",
              "renameTag", "deleteTags", "clear", "fill", "preset",
              "presetLinks"},
         book: Books \cup {None}, device: Devices \cup {None},
         entry: Entries \cup {None}, tag: Tags \cup {None},
         name: Names \cup {None},           \* of the tag to create, or the new name
         names: SUBSET Names,              \* tags still to be linked or deleted
         found: SUBSET Tags,               \* tags of a device that enters itself
         seen: SUBSET Entries]             \* rows found by the transaction
NoEdit == [op |-> "idle", book |-> None, device |-> None, entry |-> None, tag |-> None,
           name |-> None, names |-> {}, found |-> {}, seen |-> {}]

EntriesOf(b) == {e \in Entries : entries[e].state = "here" /\ entries[e].book = b}
TagsOf(b) == {t \in Tags : tags[t].state = "here" /\ tags[t].book = b}
TagsNamed(b, N) == {t \in TagsOf(b) : tags[t].name \in N}

(* Statements of others run inside a transaction only when the connection  *)
(* is shared.                                                              *)
InTransaction(p) == edits[p].op \in {"clear", "fill", "presetLinks"}
NoTransaction == \A p \in Requests : ~InTransaction(p)
MayRun(p) == SharedConnection \/ \A other \in Requests \ {p} : ~InTransaction(other)

Receives(p, op) ==
    /\ Enabled(op) /\ edits[p].op = "idle" /\ MayRun(p)
    /\ Enabled("alone") => \A other \in Requests : edits[other].op = "idle"
Starts(p, u, op) == Receives(p, op) /\ Exists(u)
Continues(p, op) == edits[p].op = op /\ MayRun(p)
Goes(p, edit) == edits' = [edits EXCEPT ![p] = edit]
Finishes(p) == Goes(p, NoEdit)

(* Foreign keys: a link needs its entry and its tag, an entry and a tag    *)
(* need their book; links go with their entry but hold their tag.          *)
LinksOfEntries(E) == {l \in links : l[1] \in E}
LinksOfTags(T) == {l \in links : l[2] \in T}

-----------------------------------------------------------------------------
(* addPeer: access, then that the device is not in the book yet; a device  *)
(* that is not registered is refused unless its id is an IP address.       *)
CheckNewPeer(p, u, b, d, N) ==
    /\ Starts(p, u, "addPeer")
    /\ MayAccess(b, u, READ_WRITE)
    /\ \A e \in EntriesOf(b) : entries[e].device # d
    /\ Goes(p, [NoEdit EXCEPT !.op = "addPeer", !.book = b, !.device = d, !.names = N])
    /\ UNCHANGED <<access, before, contents>>

SavePeer(p) ==
    LET q == edits[p]
        e == New(entries)
    IN /\ Continues(p, "addPeer") /\ Unused(entries) # {}
       /\ IF BookHere(q.book)
          THEN /\ entries' = [entries EXCEPT ![e] =
                                [state |-> "here", book |-> q.book, device |-> q.device]]
               /\ Goes(p, [q EXCEPT !.op = "findTag", !.entry = e])
          ELSE Finishes(p) /\ UNCHANGED entries
       /\ UNCHANGED <<access, before, tags, links>>

(* updatePeer: the entry is found; new tags replace its links. *)
FindPeer(p, u, b, e, N) ==
    /\ Starts(p, u, "updatePeer")
    /\ MayAccess(b, u, READ_WRITE) /\ e \in EntriesOf(b)
    /\ Goes(p, [NoEdit EXCEPT !.op = "setTags", !.book = b, !.entry = e, !.names = N])
    /\ UNCHANGED <<access, before, contents>>

DropLinks(p) ==
    /\ Continues(p, "setTags")
    /\ links' = links \ LinksOfEntries({edits[p].entry})
    /\ Goes(p, [edits[p] EXCEPT !.op = "findTag"])
    /\ UNCHANGED <<access, before, entries, tags>>

(* Mutant: the book is left out of the query. *)
TagFoundAnywhere(b, n, t) == tags[t].state = "here" /\ tags[t].name = n

(* getOrCreateTag looks a tag up by its name and book. *)
TagFound(b, n, t) == t \in TagsNamed(b, {n})

(* The tags of the request, one after the other. *)
FindTag(p) ==
    LET q == edits[p]
    IN /\ Continues(p, "findTag")
       /\ \/ q.names = {} /\ Finishes(p)
          \/ \E n \in q.names :
                \/ \E t \in Tags :
                      /\ TagFound(q.book, n, t)
                      /\ Goes(p, [q EXCEPT !.op = "link", !.tag = t, !.names = @ \ {n}])
                \/ /\ \A t \in Tags : ~TagFound(q.book, n, t)
                   /\ \E t \in Tags :
                         /\ tags[t].state = "free"
                         /\ Goes(p, [q EXCEPT !.op = "createTag", !.tag = t, !.name = n])
       /\ UNCHANGED <<access, before, contents>>

(* getOrCreateTag and addTag save a new tag; only the first links it. *)
CreateTag(p) ==
    LET q == edits[p]
        t == New(tags)
    IN /\ \/ Continues(p, "createTag")
          \/ Continues(p, "addTag")
       /\ Unused(tags) # {}
       /\ IF BookHere(q.book)
          THEN /\ tags' = [tags EXCEPT ![t] = [state |-> "here", book |-> q.book,
                                name |-> q.name]]
               /\ IF q.op = "createTag" THEN Goes(p, [q EXCEPT !.op = "link", !.tag = t])
                  ELSE Finishes(p)
          ELSE Finishes(p) /\ UNCHANGED tags
       /\ UNCHANGED <<access, before, entries, links>>

(* The link is refused when its entry or its tag is gone. *)
Link(p) ==
    LET q == edits[p]
        holds == entries[q.entry].state = "here" /\ tags[q.tag].state = "here"
    IN /\ Continues(p, "link")
       /\ links' = IF holds THEN links \cup {<<q.entry, q.tag>>} ELSE links
       /\ IF holds THEN Goes(p, [q EXCEPT !.op = "findTag", !.tag = None, !.name = None,
                                                !.names = @ \ {q.name}]) ELSE Finishes(p)
       /\ UNCHANGED <<access, before, entries, tags>>

(* deletePeers: one statement, and the links go with the entries. *)
DeletePeers(p, u, b, D) ==
    LET E == {e \in EntriesOf(b) : entries[e].device \in D}
    IN /\ Starts(p, u, "deletePeers") /\ MayAccess(b, u, READ_WRITE) /\ E # {}
       /\ entries' = [e \in Entries |-> IF e \in E THEN GoneEntry ELSE entries[e]]
       /\ links' = links \ LinksOfEntries(E)
       /\ UNCHANGED <<access, before, tags, edits>>

(* addTag: access, then that there is no such tag yet. *)
CheckNewTag(p, u, b, n) ==
    /\ Starts(p, u, "tags") /\ MayAccess(b, u, READ_WRITE)
    /\ TagsNamed(b, {n}) = {}
    /\ Goes(p, [NoEdit EXCEPT !.op = "addTag", !.book = b, !.name = n])
    /\ UNCHANGED <<access, before, contents>>

(* renameTag: a tag of the old name, and none of the new one. *)
FindOldTag(p, u, b, t, n) ==
    /\ Starts(p, u, "tags") /\ MayAccess(b, u, READ_WRITE)
    /\ t \in TagsOf(b) /\ TagsNamed(b, {n}) = {}
    /\ Goes(p, [NoEdit EXCEPT !.op = "renameTag", !.book = b, !.tag = t, !.name = n])
    /\ UNCHANGED <<access, before, contents>>

RenameTag(p) ==
    LET q == edits[p]
    IN /\ Continues(p, "renameTag")
       /\ tags' = IF tags[q.tag].state # "here" THEN tags
                  ELSE [tags EXCEPT ![q.tag].name = q.name]
       /\ Finishes(p)
       /\ UNCHANGED <<access, before, entries, links>>

(* deleteTags: first the links of the tags that are found, then the tags   *)
(* of those names, refused when one of them has a link again.              *)
DeleteTagLinks(p, u, b, N) ==
    /\ Starts(p, u, "tags") /\ MayAccess(b, u, READ_WRITE) /\ N # {}
    /\ links' = links \ LinksOfTags(TagsNamed(b, N))
    /\ Goes(p, [NoEdit EXCEPT !.op = "deleteTags", !.book = b, !.names = N])
    /\ UNCHANGED <<access, before, entries, tags>>

DeleteTags(p) ==
    LET T == TagsNamed(edits[p].book, edits[p].names)
    IN /\ Continues(p, "deleteTags")
       /\ tags' = IF LinksOfTags(T) # {} THEN tags
                  ELSE [t \in Tags |-> IF t \in T THEN GoneTag ELSE tags[t]]
       /\ Finishes(p)
       /\ UNCHANGED <<access, before, entries, links>>

-----------------------------------------------------------------------------
(* updateLegacyAddressBook on the user's personal book: the transaction    *)
(* finds the entries of the book,                                          *)
LegacyBegin(p, u, b) ==
    /\ Starts(p, u, "legacy")
    /\ NoTransaction
    /\ BookHere(b) /\ books[b].isPersonal /\ books[b].owner = u
    /\ Goes(p, [NoEdit EXCEPT !.op = "clear", !.book = b, !.seen = EntriesOf(b)])
    /\ before' = contents
    /\ UNCHANGED <<access, contents>>

(* Mutant: delete with empty criteria. *)
ClearedAll(q) == links

(* The links the transaction deletes are those of the entries it found. *)
Cleared(q) == LinksOfEntries(q.seen)

(* A failing statement undoes the transaction, and what others wrote to    *)
(* the same connection since it began.  The ids of rows that were never    *)
(* there are not taken again.                                              *)
Restored(now, then, gone) ==
    [x \in DOMAIN now |-> IF then[x].state = "free" /\ now[x].state # "free" THEN gone
                          ELSE then[x]]

RollsBack(p) ==
    /\ entries' = Restored(entries, before[1], GoneEntry)
    /\ tags' = Restored(tags, before[2], GoneTag)
    /\ links' = before[3]
    /\ Finishes(p) /\ before' = None

LegacyFails(p) ==
    /\ InTransaction(p)
    /\ RollsBack(p)
    /\ UNCHANGED access

(* deletes their links, the tags and the entries,                          *)
LegacyClear(p) ==
    LET q == edits[p]
    IN /\ Continues(p, "clear")
       /\ IF LinksOfTags(TagsOf(q.book)) \subseteq Cleared(q)
          THEN /\ links' = (links \ Cleared(q)) \ LinksOfEntries(EntriesOf(q.book))
               /\ tags' = [t \in Tags |-> IF t \in TagsOf(q.book) THEN GoneTag ELSE tags[t]]
               /\ entries' = [e \in Entries |->
                                IF e \in EntriesOf(q.book) THEN GoneEntry ELSE entries[e]]
               /\ Goes(p, [q EXCEPT !.op = "fill"]) /\ UNCHANGED before
          ELSE RollsBack(p)     \* a tag has been linked again
       /\ UNCHANGED access

(* and saves what the client sent; devices that are not registered are     *)
(* skipped, and so are tags of a device that are not in the list of tags.  *)
LegacyFill(p, n, d, linked) ==
    LET q == edits[p]
        t == New(tags)
        e == New(entries)
    IN /\ Continues(p, "fill") /\ Unused(tags) # {} /\ Unused(entries) # {}
       /\ BookHere(q.book)
       /\ tags' = [tags EXCEPT ![t] = [state |-> "here", book |-> q.book, name |-> n]]
       /\ entries' = [entries EXCEPT ![e] = [state |-> "here", book |-> q.book, device |-> d]]
       /\ links' = IF linked THEN links \cup {<<e, t>>} ELSE links
       /\ Finishes(p) /\ before' = None
       /\ UNCHANGED access

(* An empty replacement. *)
LegacyEmpty(p) ==
    /\ Continues(p, "fill")
    /\ Finishes(p) /\ before' = None
    /\ UNCHANGED <<access, contents>>

-----------------------------------------------------------------------------
(* addToAddressBook: the first report of a device may name a book, of      *)
(* whoever owns it, and some of its tags: the book is found, and the       *)
(* device is not in it yet;                                                *)
FindPreset(p, b, d, N) ==
    /\ Receives(p, "preset") /\ BookHere(b)
    /\ \A e \in EntriesOf(b) : entries[e].device # d
    /\ Goes(p, [NoEdit EXCEPT !.op = "preset", !.book = b, !.device = d, !.names = N])
    /\ UNCHANGED <<access, before, contents>>

(* its tags are looked up, and those that are not there are skipped;       *)
FindPresetTag(p) ==
    LET q == edits[p]
    IN /\ Continues(p, "preset")
       /\ \E n \in q.names :
             \/ \E t \in TagsNamed(q.book, {n}) :
                   Goes(p, [q EXCEPT !.names = @ \ {n}, !.found = @ \cup {t}])
             \/ /\ TagsNamed(q.book, {n}) = {}
                /\ Goes(p, [q EXCEPT !.names = @ \ {n}])
       /\ UNCHANGED <<access, before, contents>>

(* one transaction saves the device, refused when the book is gone, ...    *)
SavePreset(p) ==
    LET q == edits[p]
        e == New(entries)
    IN /\ Continues(p, "preset") /\ q.names = {}
       /\ NoTransaction /\ Unused(entries) # {}
       /\ IF BookHere(q.book)
          THEN /\ entries' = [entries EXCEPT ![e] =
                                [state |-> "here", book |-> q.book, device |-> q.device]]
               /\ Goes(p, [q EXCEPT !.op = "presetLinks", !.entry = e])
               /\ before' = contents
          ELSE Finishes(p) /\ UNCHANGED <<entries, before>>
       /\ UNCHANGED <<access, tags, links>>

(* ... and the links to the tags found, refused when one of them is gone.  *)
LinkPreset(p) ==
    LET q == edits[p]
    IN /\ Continues(p, "presetLinks")
       /\ IF entries[q.entry].state = "here" /\ \A t \in q.found : tags[t].state = "here"
          THEN /\ links' = links \cup ({q.entry} \X q.found)
               /\ Finishes(p) /\ before' = None
               /\ UNCHANGED <<entries, tags>>
          ELSE RollsBack(p)
       /\ UNCHANGED access

-----------------------------------------------------------------------------
(* Deleting a book deletes what is in it. *)
ContentsOfDeleted ==
    LET G == {b \in Books : BookHere(b) /\ books'[b].state = "gone"}
    IN /\ entries' = [e \in Entries |-> IF entries[e].book \in G THEN GoneEntry ELSE entries[e]]
       /\ tags' = [t \in Tags |-> IF tags[t].book \in G THEN GoneTag ELSE tags[t]]
       /\ links' = {l \in links : entries[l[1]].book \notin G}

AboutBooks ==
    /\ NoTransaction
    /\ BooksNext
    /\ ContentsOfDeleted
    /\ UNCHANGED <<edits, before>>

-----------------------------------------------------------------------------
Init ==
    /\ BooksInit
    /\ entries = [e \in Entries |-> FreeEntry]
    /\ tags = [t \in Tags |-> FreeTag]
    /\ links = {}
    /\ edits = [p \in Requests |-> NoEdit]
    /\ before = None

Named == {n \in Names : Enabled(n)}

Next ==
    \/ AboutBooks
    \/ \E p \in Requests :
          \/ DropLinks(p) \/ FindTag(p) \/ CreateTag(p) \/ Link(p)
          \/ RenameTag(p) \/ DeleteTags(p)
          \/ LegacyClear(p) \/ LegacyEmpty(p) \/ LegacyFails(p)
          \/ SavePeer(p)
          \/ FindPresetTag(p) \/ SavePreset(p) \/ LinkPreset(p)
          \/ \E b \in Books, d \in Devices, N \in SUBSET Named : FindPreset(p, b, d, N)
          \/ \E n \in Named, d \in Devices, linked \in BOOLEAN : LegacyFill(p, n, d, linked)
          \/ \E u \in Users, b \in Books :
                \/ LegacyBegin(p, u, b)
                \/ \E D \in SUBSET Devices : DeletePeers(p, u, b, D)
                \/ \E N \in SUBSET Named :
                      \/ DeleteTagLinks(p, u, b, N)
                      \/ \E d \in Devices : CheckNewPeer(p, u, b, d, N)
                      \/ \E e \in Entries : FindPeer(p, u, b, e, N)
                \/ \E n \in Named :
                      CheckNewTag(p, u, b, n) \/ \E t \in Tags : FindOldTag(p, u, b, t, n)

Spec == Init /\ [][Next]_vars

-----------------------------------------------------------------------------
(* A device only carries tags of the book it is in: whatever is deleted,   *)
(* replaced or renamed between looking a tag up and linking it, a link     *)
(* joins two rows that are there, of the same book (getOrCreateTag, the    *)
(* foreign keys, the two deletions of deleteTags).                         *)
LinksWithinBook ==
    \A l \in links :
        LET e == entries[l[1]]
            t == tags[l[2]]
        IN e.state = "here" /\ t.state = "here" /\ e.book = t.book

(* The deletions of a replacement from an old client leave every other     *)
(* book as it is (updateLegacyAddressBook: "an empty delete criteria would erase   *)
(* every user's tags").                                                    *)
OthersUntouched ==
    [][\A p \in Requests : \A b \in Books :
        (edits[p].op = "clear" /\ edits'[p].op = "fill" /\ b # edits[p].book) =>
            /\ EntriesOf(b)' = EntriesOf(b) /\ TagsOf(b)' = TagsOf(b)
            /\ LinksOfEntries(EntriesOf(b))' = LinksOfEntries(EntriesOf(b))]_vars
=============================================================================
