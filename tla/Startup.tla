------------------------------- MODULE Startup -------------------------------
(***************************************************************************)
(* From an empty or an older database to a console that serves.  The       *)
(* migration command adopts a database that was made without migrations,   *)
(* repairs what it lacks, and runs the migrations that are not recorded;   *)
(* the server then refuses to start while one is pending, makes sure that  *)
(* there is a default user group and creates the first administrator.      *)
(* A container runs the command and then the server.  On MySQL several     *)
(* containers may do so at once, every statement is final, and the command *)
(* holds a lock; SQLite has one process and transactions.  Any statement   *)
(* may fail, and a process may stop anywhere.                              *)
(***************************************************************************)
EXTENDS Naturals, FiniteSets

CONSTANTS Processes,
          MaxFailures,    \* failed statements and stops of a process, together
          Nobody          \* who holds the lock when it is free

LockAssumption == Nobody \notin Processes /\ MaxFailures \in Nat

Migrations == 1..5
Brings(m) == CASE m = 1 -> {"users", "groups"}            \* InitialSchema
               [] m = 2 -> {"default index"}              \* FixMySqlDefaultUserGroupIndex
               [] m = 3 -> {"resets"}                     \* AddPasswordResetTokens
               [] m = 4 -> {"tombstones"}                 \* AddDeviceTombstones
               [] m = 5 -> {"requested", "released"}      \* ...ReleaseTracking
SchemaParts == UNION {Brings(m) : m \in Migrations}

VARIABLES engine,      \* "mysql" or "sqlite"
          present,     \* what the database has of the schema
          odd,         \* what it has and the entities do not define
          history,     \* whether there is a migrations table ...
          recorded,    \* ... and its rows
          lock,        \* rustdesk_migrations
          defaultGroup,     \* "none", "named" (not marked as default), "default"
          owners,      \* rows of users with isAdmin
          phase,       \* of each process
          failures,
          early,       \* history: the server was started, or show-migrations run, first
          cutShort     \* history: the initial schema was left half made

schema == <<present, odd, history, recorded>>
data == <<defaultGroup, owners>>
vars == <<engine, schema, lock, data, phase, failures, early, cutShort>>

(* A database is empty, or was made by synchronize, or by an earlier       *)
(* release with migrations.                                                *)
Released(k) == UNION {Brings(m) : m \in 1..k}
Init ==
    /\ engine \in {"mysql", "sqlite"}
    /\ \/ /\ present = {} /\ odd = {} /\ history = FALSE /\ recorded = {}
          /\ defaultGroup = "none" /\ owners = 0
       \/ /\ present \in SUBSET SchemaParts /\ "users" \in present
          /\ "default index" \in present => "groups" \in present
          /\ "tombstones" \in present \/ Brings(5) \cap present = {}
          /\ odd \in SUBSET {"column", "key"} /\ history = FALSE /\ recorded = {}
          /\ defaultGroup \in IF "groups" \in present THEN {"none", "named", "default"}
                               ELSE {"none"}
          /\ owners \in 0..2
       \/ /\ history = TRUE /\ odd = {}
          /\ \E k \in Migrations :
                /\ recorded = 1..k
                /\ present = Released(k) \cup IF engine = "sqlite" THEN Brings(2) ELSE {}
          /\ defaultGroup = "default" /\ owners = 1
    /\ lock = Nobody
    /\ phase = [p \in Processes |-> "off"]
    /\ failures = 0 /\ early = FALSE /\ cutShort = FALSE

MySQL == engine = "mysql"

(* What the entities define.  MySQL's default index is left to its         *)
(* migration.                                                              *)
Defined == IF MySQL THEN SchemaParts \ Brings(2) ELSE SchemaParts
Drift == Defined \ present # {} \/ odd # {}
Pending == Migrations \ recorded

At(p, step) == phase[p] = step
Goes(p, step) == phase' = [phase EXCEPT ![p] = step]
Leaves(p) == Goes(p, "off") /\ lock' = IF lock = p THEN Nobody ELSE lock

-----------------------------------------------------------------------------
(* withMigrationLock: on MySQL the command waits for the lock, and gives   *)
(* up after 120 seconds.                                                   *)
StartMigrating(p) ==
    /\ At(p, "off")
    /\ MySQL \/ \A q \in Processes : At(q, "off")
    /\ Goes(p, IF MySQL THEN "lock" ELSE "baseline")
    /\ UNCHANGED <<engine, schema, lock, data, failures, early, cutShort>>

TakeLock(p) ==
    /\ At(p, "lock") /\ lock = Nobody
    /\ lock' = p
    /\ Goes(p, "baseline")
    /\ UNCHANGED <<engine, schema, data, failures, early, cutShort>>

LockTimesOut(p) ==
    /\ At(p, "lock") /\ lock # Nobody
    /\ Leaves(p)
    /\ UNCHANGED <<engine, schema, data, failures, early, cutShort>>

-----------------------------------------------------------------------------
(* repairSynchronizedSchema refuses to lose a column and, on MySQL, to     *)
(* drop anything.                                                          *)
Repairable == odd \subseteq IF MySQL THEN {} ELSE {"key"}

(* A drifted database that has a history is not repaired. *)
Refuses == history

(* baselineExistingDatabase: a database with tables whose first migration  *)
(* is pending is adopted, after a repair where it differs.                 *)
Baseline(p) ==
    /\ At(p, "baseline")
    /\ \/ /\ 1 \in recorded \/ present = {}
          /\ Goes(p, "run") /\ UNCHANGED lock
       \/ /\ 1 \notin recorded /\ present # {}
          /\ IF ~Drift THEN Goes(p, "adopt") /\ UNCHANGED lock
             ELSE IF Refuses \/ ~Repairable THEN Leaves(p)
             ELSE Goes(p, "repair") /\ UNCHANGED lock
    /\ UNCHANGED <<engine, schema, data, failures, early, cutShort>>

(* Mutant: the history is made before the repair. *)
RepairWithHistory(p) ==
    /\ At(p, "repair")
    /\ IF MySQL
       THEN /\ \E x \in Defined \ present : present' = present \cup {x}
            /\ UNCHANGED odd
       ELSE present' = present \cup Defined /\ odd' = {}
    /\ history' = TRUE
    /\ Goes(p, IF Defined \ present' = {} THEN "adopt" ELSE "repair")
    /\ UNCHANGED <<engine, recorded, lock, data, failures, early, cutShort>>

(* The repair: one transaction on SQLite, on MySQL a statement at a time.  *)
Repair(p) ==
    /\ At(p, "repair")
    /\ IF MySQL
       THEN /\ \E x \in Defined \ present : present' = present \cup {x}
            /\ UNCHANGED odd
       ELSE present' = present \cup Defined /\ odd' = {}
    /\ Goes(p, IF Defined \ present' = {} THEN "adopt" ELSE "repair")
    /\ UNCHANGED <<engine, history, recorded, lock, data, failures, early, cutShort>>

(* showMigrations creates the history, and insertMigration records the     *)
(* initial migration.                                                      *)
CreateHistory(p) ==
    /\ At(p, "adopt")
    /\ history' = TRUE
    /\ Goes(p, "record")
    /\ UNCHANGED <<engine, present, odd, recorded, lock, data, failures, early, cutShort>>

RecordInitial(p) ==
    /\ At(p, "record")
    /\ recorded' = recorded \cup {1}
    /\ Goes(p, "run")
    /\ UNCHANGED <<engine, present, odd, history, lock, data, failures, early, cutShort>>

-----------------------------------------------------------------------------
(* runMigrations makes sure of the history first.  On SQLite all pending   *)
(* migrations are one transaction ...                                      *)
RunMigrations(p) ==
    /\ At(p, "run")
    /\ history' = TRUE
    /\ Goes(p, IF Pending = {} THEN "check" ELSE "migrate")
    /\ UNCHANGED <<engine, present, odd, recorded, lock, data, failures, early, cutShort>>

MigrateAll(p) ==
    /\ At(p, "migrate") /\ ~MySQL
    /\ present' = SchemaParts /\ recorded' = Migrations
    /\ Goes(p, "check")
    /\ UNCHANGED <<engine, odd, history, lock, data, failures, early, cutShort>>

(* ... on MySQL a migration is a statement for each part that is missing,  *)
(* and its record ...                                                      *)
Current == CHOOSE m \in Pending : \A n \in Pending : m <= n

RunStatement(p) ==
    /\ At(p, "migrate") /\ MySQL /\ Current # 2
    /\ \E x \in Brings(Current) \ present : present' = present \cup {x}
    /\ UNCHANGED <<engine, odd, history, recorded, lock, data, phase, failures, early, cutShort>>

(* ... but the default index is dropped, if there is one, and made again.  *)
DropDefaultIndex(p) ==
    /\ At(p, "migrate") /\ MySQL /\ Current = 2
    /\ present' = present \ Brings(2)
    /\ Goes(p, "make index")
    /\ UNCHANGED <<engine, odd, history, recorded, lock, data, failures, early, cutShort>>

MakeDefaultIndex(p) ==
    /\ At(p, "make index")
    /\ present' = present \cup Brings(2)
    /\ Goes(p, "index made")
    /\ UNCHANGED <<engine, odd, history, recorded, lock, data, failures, early, cutShort>>

RecordMigration(p) ==
    /\ \/ At(p, "migrate") /\ MySQL /\ Current # 2 /\ Brings(Current) \subseteq present
       \/ At(p, "index made")
    /\ recorded' = recorded \cup {Current}
    /\ Goes(p, IF Pending = {Current} THEN "check" ELSE "migrate")
    /\ UNCHANGED <<engine, present, odd, history, lock, data, failures, early, cutShort>>

(* migrateDatabase ends when nothing is pending, and gives the lock back.  *)
EndMigrating(p) ==
    /\ At(p, "check")
    /\ lock' = IF lock = p THEN Nobody ELSE lock
    /\ Goes(p, IF Pending = {} THEN "start" ELSE "off")
    /\ UNCHANGED <<engine, schema, data, failures, early, cutShort>>

-----------------------------------------------------------------------------
(* The server started, or show-migrations run, on its own. *)
StartEarly(p) ==
    /\ At(p, "off")
    /\ MySQL \/ \A q \in Processes : At(q, "off")
    /\ early' = (early \/ ~history)
    /\ Goes(p, "start")
    /\ UNCHANGED <<engine, schema, lock, data, failures, cutShort>>

(* Mutant: the server starts with whatever schema it finds. *)
MayStartAnyway == TRUE

MayStart == Pending = {}

(* dataSourceFactory: it asks for pending migrations, which creates the    *)
(* history, and refuses to start when there are any.                       *)
CheckPending(p) ==
    /\ At(p, "start")
    /\ history' = TRUE
    /\ Goes(p, IF MayStart THEN "find group" ELSE "off")
    /\ UNCHANGED <<engine, present, odd, recorded, lock, data, failures, early, cutShort>>

(* ensureDefaultGroup *)
FindDefaultGroup(p) ==
    /\ At(p, "find group")
    /\ Goes(p, CASE defaultGroup = "default" -> "count owners"
                 [] defaultGroup = "named" -> "mark group"
                 [] OTHER -> "insert group")
    /\ UNCHANGED <<engine, schema, lock, data, failures, early, cutShort>>

MarkGroup(p) ==
    /\ At(p, "mark group")
    /\ defaultGroup' = "default"
    /\ Goes(p, "count owners")
    /\ UNCHANGED <<engine, schema, lock, owners, failures, early, cutShort>>

(* Whoever finds the name taken starts again: what MySQL says of it is not *)
(* recognized.                                                             *)
InsertGroup(p) ==
    /\ At(p, "insert group")
    /\ defaultGroup' = IF defaultGroup = "none" THEN "default" ELSE defaultGroup
    /\ Goes(p, IF defaultGroup = "none" THEN "count owners" ELSE "off")
    /\ UNCHANGED <<engine, schema, lock, owners, failures, early, cutShort>>

(* onModuleInit stops at several owners ... *)
CountOwners(p) ==
    /\ At(p, "count owners")
    /\ Goes(p, IF owners > 1 THEN "off" ELSE "find owner")
    /\ UNCHANGED <<engine, schema, lock, data, failures, early, cutShort>>

(* ... and createDefaultAdmin inserts one where there is none. *)
FindOwner(p) ==
    /\ At(p, "find owner")
    /\ Goes(p, IF owners > 0 THEN "serving" ELSE "insert owner")
    /\ UNCHANGED <<engine, schema, lock, data, failures, early, cutShort>>

(* The user name is unique, so that of two processes one finds the other's *)
(* row instead.                                                            *)
OwnerAdded == IF owners = 0 THEN 1 ELSE owners

InsertOwner(p) ==
    /\ At(p, "insert owner")
    /\ owners' = OwnerAdded
    /\ Goes(p, "serving")
    /\ UNCHANGED <<engine, schema, lock, defaultGroup, failures, early, cutShort>>

-----------------------------------------------------------------------------
(* A statement fails or the process stops; MySQL frees the lock of a lost  *)
(* connection.                                                             *)
Stops(p) ==
    /\ ~At(p, "off") /\ failures < MaxFailures
    /\ failures' = failures + 1
    /\ Leaves(p)
    /\ cutShort' = (cutShort \/ (At(p, "migrate") /\ MySQL /\ 1 \in Pending /\ present # {}))
    /\ UNCHANGED <<engine, schema, data, early>>

Next ==
    \E p \in Processes :
        \/ StartMigrating(p) \/ TakeLock(p) \/ LockTimesOut(p) \/ Baseline(p) \/ Repair(p)
        \/ CreateHistory(p) \/ RecordInitial(p) \/ RunMigrations(p) \/ MigrateAll(p)
        \/ RunStatement(p) \/ DropDefaultIndex(p) \/ MakeDefaultIndex(p) \/ RecordMigration(p)
        \/ EndMigrating(p) \/ StartEarly(p) \/ CheckPending(p)
        \/ FindDefaultGroup(p) \/ MarkGroup(p) \/ InsertGroup(p)
        \/ CountOwners(p) \/ FindOwner(p) \/ InsertOwner(p)
        \/ Stops(p)

Spec == Init /\ [][Next]_vars

-----------------------------------------------------------------------------
(* Schema, history, lock and processes have their types, and only who is   *)
(* migrating holds the lock.                                               *)
TypeOK ==
    /\ engine \in {"mysql", "sqlite"}
    /\ present \subseteq SchemaParts /\ odd \subseteq {"column", "key"}
    /\ history \in BOOLEAN /\ recorded \subseteq Migrations
    /\ lock \in Processes \cup {Nobody}
    /\ defaultGroup \in {"none", "named", "default"} /\ owners \in 0..2
    /\ phase \in [Processes -> {"off", "lock", "baseline", "repair", "adopt", "record", "run",
           "migrate", "make index", "index made", "check", "start", "find group", "mark group",
           "insert group",
           "count owners", "find owner", "insert owner", "serving"}]
    /\ failures \in 0..MaxFailures /\ early \in BOOLEAN /\ cutShort \in BOOLEAN

(* repairSynchronizedSchema: a failure can be retried safely.  Wherever a  *)
(* migration stopped, the next one does not find a database that it        *)
(* refuses to baseline because it has a history: unless MySQL was left     *)
(* with half of the initial schema, or the history came from a server or a *)
(* show-migrations that were run before the first migration.               *)
StaysMigratable ==
    (history /\ 1 \notin recorded /\ present # {} /\ Drift)
        => cutShort \/ early \/ \E p \in Processes : At(p, "migrate")

(* A server only serves with the whole schema, every migration recorded,   *)
(* one owner and a default group, whoever else starts, migrates or fails   *)
(* at the same time.                                                       *)
ServesWhole ==
    (\E p \in Processes : At(p, "serving"))
        => present = SchemaParts /\ Pending = {} /\ owners = 1 /\ defaultGroup = "default"
=============================================================================
