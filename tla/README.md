# RustDesk console: TLA+ models

Specifications of the RustDesk console (a NestJS service with a MySQL or SQLite
database and a separate updater process), model-checked with TLC and proved with
TLAPS: every safety property a run passes is also a theorem, four of them under stated
conditions on what happens at the same time. The paths below are those of the repository;
`PROJECT.json` maps every definition that models code to its lines, and lists
the runs, the mutants each property is tried against, the findings, the hazards
and the theorems.

## 1. The system

The console is one Node.js process. HTTP handlers run on one thread, but every
database statement is an `await`, so handlers interleave between statements.
Only some operations run in a transaction. On SQLite all requests share one
connection, so that a transaction of one request contains the statements of the
others; on MySQL there is a pool, and transactions read a snapshot without
locks. RustDesk clients call the same process: heartbeats, reports of devices,
audit reports, address books. Two servers are outside: `hbbs` (rendezvous),
which the console tells to ban and to release ids, and `hbbr` (relay), which
browser sessions reach through the console's WebSocket gateway. The updater is
a process of its own beside it, with a worker process per job, and shares only
files with the console. Before the console starts, its container runs the
migration command on the same database.

| Part | State it keeps | Operations | What is hard | What makes it correct |
|---|---|---|---|---|
| Update worker (`updater/worker.ts`, adapters, backups, `maintenance.ts`) | job journal, maintenance fence, links, data, helper, installation record | staged forward path, recovery, decision, completion | crash, power loss or failed write between any two steps | acknowledged writes survive; business opens only behind a durable decision |
| Update control (`control.ts`, `planner.ts`, `store.ts`) | plans, jobs directory, promise queue, lock | plan, accept, retry, reconcile, start of workers | retries, stale plans, restarts, directory fsync | one job at a time, one per idempotency key, no downgrade, jobs get taken up |
| Web-client sessions and gateway (`modules/web-client`) | sessions, tickets, reservations, verification epoch, sockets | create, ticket, bind, revalidate, close, shutdown | awaits inside handshakes, deadlines that race answers, callbacks | nothing forwarded for a dead session, limits hold, revoked logins lose their sessions |
| Start (`database/`, `migrations/`, `database-init.service.ts`) | schema, history table, lock row, first rows | repair, baseline, migrate, check, create owner and default group | several containers, statements that are final on MySQL, failures anywhere | an interrupted migration can be repeated; who serves has the whole schema and one owner |
| Sign-in (`modules/auth`) | login sessions, access tokens, reset links, passkeys | login, second step, reset, logout, revoke, clean-up | requests that overlap between statements | a second step and a reset link work once, revocation is for good |
| Sign-on through third parties (`modules/oidc`, `modules/ldap`) | authorization states, cached provider configuration, directory settings, linked user rows | request, callback, poll, clean-up; administration of providers; directory login | racing first logins, racing polls, a page and a poll that get one token, settings that change under a cache or under a discovery | everyone gets his own account, polls deliver a token once, what is cached is what is entered, authorizations end |
| User accounts (`modules/user`) | user rows, invitations | profile, second factors, password, status, security, delete | stale copies saved by the mapper | no password undone, no unproven secret bound |
| Roles and permissions (`modules/rbac`) | roles, their permissions, assignments for everything or for device groups, protected accounts | define, redefine, delete, assign, check | the check and the write apart; several computations of one scope | delegation stays within what the delegate holds; all computations agree |
| Address books (`modules/address-book`) | books, rules, entries, tags, links | create, share, transfer, edit, replace by old clients, preset entries | stale copies, deletions between a lookup and its use, one shared connection | lists agree with checks, links stay within a book, other books stay untouched |
| Device registry (`heartbeat`, `device-group`, `server-management`) | peers, tombstones, bans at hbbs | heartbeat, delete, restore, disable | lookups and writes apart, lost answers of hbbs, isolation switch | deleted devices stay deleted, a restore undoes what was recorded |
| Heartbeat buffer (`heartbeat-cache.service.ts`) | buffers, snapshot being flushed, pending disconnects | buffer, flush, put back, stop, read | reports that come in during a flush, failing flushes, stop | newest report kept and shown, nothing accepted lost by a stop |
| Strategies (`modules/strategy`, preset groups of `sysinfo`) | strategies, what they are assigned to, two caches | create, edit, delete, assign, move a device, answer a heartbeat | caches, three levels a strategy may come from | what is remembered follows the rows |
| Audit log (`modules/audit`) | rows of connections, files, alarms | report, note, clean-up | repeated and overlapping reports | a report is recorded once, those of a connection come together |
| Update check, server events | cached releases; none | refresh, pass on | little | not modelled |
| Settings, mail, dashboard, client builds, network observation | records, text | read, write, send | little of their own | not modelled: no state that several actors race for, or I/O only |

## 2. The modules

| Module | What it models |
|---|---|
| `DurableFile` | a file replaced by `atomicWrite`: what is visible and what a power loss may leave |
| `ManagedInstallation` | the host: fence, links, processes, business data, helper, installation record, and the adapters' operations on them |
| `UpdateContract` | the promise of an update to the users of the console |
| `UpdateWorker` | one job, on `ManagedInstallation`; implements `UpdateContract` (`KeepsContract`) |
| `UpdateWorkerProofs` | the theorems about `UpdateWorker` |
| `UpdateControl` | the updater service: requests, plans, jobs directory, reconcile, worker's life |
| `UpdateControlProofs` | the theorems about it |
| `WebClientSession` | grants, tickets, limits, revalidation rounds |
| `WebClientGateway` | the sockets, composed with `WebClientSession`, whose close callbacks stop them |
| `MCWebClient` | symmetry for the run of the gateway |
| `WebClientProofs` | the theorems about sessions and channels |
| `AccountTables` | the tables behind accounts and how the mapper's `save` writes a copy back |
| `LoginFlow` | sign-in, tokens and resets as sequences of statements |
| `AccountUpdates` | the changes of a user's row |
| `Accounts` | both together, any requests in flight |
| `Startup` | from an empty or older database to a console that serves |
| `MCAccounts` | `Accounts` and `Startup` on small instances |
| `AccountProofs` | the theorems about both |
| `LinkedAccounts` | user rows that belong to an identity elsewhere: lookup, free name, insert, conflict |
| `OidcLogin` | authorizations at an OpenID Connect or OAuth 2 provider, on `LinkedAccounts` |
| `LdapLogin` | names and passwords that go to the directory, on `LinkedAccounts` |
| `SignOn`, `MCSignOn` | both together with the administrator; fairness; instances |
| `SignOnProofs` | the theorems about `SignOn` |
| `AccessControl`, `MCAccessControl` | roles, assignments, delegation, protected accounts; an excerpt of the catalog |
| `AccessControlProofs` | the theorems about `AccessControl` |
| `AddressBooks` | books, rules that share them, transfer and deletion |
| `AddressBookContents` | entries, tags and links, on `AddressBooks` |
| `MCAddressBooks` | symmetry |
| `AddressBookProofs` | the theorems about books and their contents |
| `DeviceRegistry` | rows, tombstones, hbbs, heartbeats and administrators |
| `HeartbeatBuffer` | what happens to a heartbeat's content after `DeviceRegistry`'s lookup |
| `Strategies` | strategies, their assignment and the caches heartbeats are answered from |
| `Audits` | the audit rows that clients' reports make |
| `MCDevices` | the four modules about devices on small instances |
| `DeviceProofs` | the theorems about the four |

### How state and steps correspond to code

*Update worker.* `pc` is the position in `worker.ts`; an operation of the
journal is three steps (`intent` saved, act, `done` saved), four where the code
saves a phase first. `rec` is the record in the worker's memory, `journal` the
job file. `WorkerCrash` and `PowerLoss` may happen anywhere, every write may
fail before or after its rename, and every act of an adapter may fail or stop
half way (`data.schema = "torn"`). The two deployment adapters (Compose, Linux)
differ in commands, not in the states they leave, and are one model. A write of
business data is counted, not named: that is all `acked = data.writes` needs.

*Update control.* `serialized` is a queue and the operation in progress; accept
and reconcile are split at their awaits (`read`, `revalidate`, `save`,
`start`). Versions are numbers; a plan is its target, the fingerprint of the
installation it was made for and whether it can be executed. The catalog, the
signature checks and the files of a release are external.

*Web client.* An action is the code between two awaits. What the database
answers to `authorization.validate` is true of some moment of the wait. Time is
the age of a session (in time, overdue, expired). Close callbacks that
`invalidate` calls run in the same action (`AfterCallbacks`). Frames are
abstracted to the steps of the handshake.

*Accounts.* A request holds its copy of the row and its next statement
(`op`). `save` looks at the table again and writes the loaded columns that
differ. Outside a transaction, and in a transaction on SQLite's shared
connection, this second look sees the present table; in a MySQL transaction it
sees the transaction's snapshot (`SharedConnection`). Wrong passwords and codes
change nothing and are left out. Time is an `Expires` step.

*Start.* The schema is the set of parts the five migrations bring, plus what is
`odd` in a synchronized database. `phase` is where each container is in the
migration command or in the server's start. On MySQL each statement is final
and several containers run; SQLite has one process whose transactions undo what
fails. `Stops` ends a process at any step, its lock with it.

*Sign-on.* A login is a record that goes through the statements of
`findOrCreateUser`: `find`, `name`, `insert`, `bind`, `token`. The unique
indexes decide between two inserts, and only SQLite's conflict is tried again.
A callback holds the row of its authorization as it read it before it asked the
provider and writes it back at the end. A request for an authorization names the
device that polls (`device`), a page to go back to (`web`), neither or both; the
callback answers the page with the token (`shown`, history) and leaves it in the
row, from which a poll takes it (`given`). `settings` is the table of providers,
`Called` their names and `cache` what `getOidcConfig` remembers by issuer; a
request, or a callback, caches the copy of the settings it had read, when its
discovery answers. An administrator's request (`edits`) holds the provider as it
read it, then saves or deletes, and clears the cache after a save but before a
deletion. `lapsed` (history) holds the issuers that may be cached as nobody has
entered them: see below. Identities, names and mail addresses
are small sets chosen so that three people ask for one name and may share an
address. Time is the age of an authorization.

*Roles.* `PermissionScope` is the set of device groups, or `Everywhere`, where
a user holds a permission; `EffectivePermissions`, `EffectiveScope` and
`MayActOn` compute it as the console shows it, as the page of a user does, and
as a batch of devices is checked. `replaceUserRoles` is three steps: the checks
before its transaction, the decision in it, the write; neither database makes
the last two atomic. Roles are redefined in two steps as well. The catalog is a
constant with one permission of each kind.

*Address books.* A handler loads and checks in one step and saves in another;
`save` inserts a row that is gone. A tag is looked up by name, created and
linked in steps of their own; foreign keys refuse what has lost its book, entry
or tag. A transaction on the shared connection remembers the contents at its
start (`before`), and its rollback takes the statements of others along.

*Devices.* A machine is a uuid and an id. A heartbeat is a chain of lookups and
a write; an administrator's request a chain of statements and calls of `hbbs`,
each of which may fail or act and lose its answer (`Calls`). `freed` counts
releases of one deletion (history). The flush is one step per key here; its
snapshot, failure and retry are `HeartbeatBuffer`'s subject, where a heartbeat's
fields are the number of the report and its connections a set.

*Strategies.* The content of a strategy is the number of its edits. A heartbeat
that is being answered carries its copy of the device's row from level to level.
A change of rows commits in one step and forgets what is remembered in the next.
`lapsed` (history) holds the devices of which something may be remembered that
the code does not forget: see below.

*Audit log.* A connection's row is the set of times reported for it, a note and
the nonce of the last report. A handler looks for a row in one step and saves
its copy in the next. `answers` and `done` (history) are what clients were told.

## 3. The runs

All runs finish on a small machine within five minutes. Deadlock is checked for
`devices_race` only. Elsewhere jobs finish, and the supply of ids, reports or
faults is bounded: a state without successors is one in which the work is done
or the supply used up.

Two techniques keep the instances small without taking anything apart that
interacts. A *scenario* is a set of operations; the initial state chooses one
and a behaviour uses its operations only, so that the requests that can disturb
each other meet in pairs and triples of kinds. A *part* is a component whose
variables no other component of that run touches: the run checks every part from
its initial states while the others stand still, and one run serves several
modules.

| Run | Shows | Bounds and why they suffice |
|---|---|---|
| `worker` | the update keeps its contract, fence, decision and outcome are sound, every job settles | both components change, 2 writes (one before, one during), 3 faults: one to fail, one to fail the recovery, one more |
| `control` | one unfinished job, one job per key, no downgrade, a queued job is taken | 2 keys, 2 plans, 2 jobs, 3 versions (stale plan after a newer one), 1 waiting operation, 1 fault |
| `control_durable` | **violated**: a job answered as durably accepted vanishes | as small as shows it |
| `web_client` | channels, sessions, tickets, relays and parents agree in every interleaving | 2 grants (desktop and file), 3 sockets (both phases and one too many), 2 relays |
| `web_client_live` | limits, no late answer revives a session, revoked and overdue sessions end | 2 grants for 1 place per user, 2 timeouts, 1 configuration change |
| `accounts` | what works once works once; the secret that counts was proven; no password undone; revocation is for good; an interrupted migration can be repeated, and who serves has a whole database | 1 user, 2 requests in flight, 2 sessions, tokens, secrets and passwords, in five scenarios (signing in and what invalidates it; own edits on a shared connection; passkeys; passkeys of a user who is disabled; the life of tokens). Start: 2 containers, 2 failures, every older or drifted database |
| `disabled` | **violated**: a late profile edit enables a disabled account | 1 user, 2 requests |
| `devices` | deleted devices stay deleted, late heartbeats are turned away, recorded releases are not repeated, a tombstone goes with its ban; the newest report is kept and shown; remembered strategies follow the rows; reports are recorded once | registry: 1 machine, 1 heartbeat and 1 administrator at a time, isolation switched on once, 1 crash, any failing or answerless calls. Buffer: 1 device, 2 connections, 3 reports, 1 deletion, the code's 3 attempts. Strategies: 1 device, user and group (the three levels), 2 strategies, 1 edit. Audit: 2 connections, 2 nonces, 2 handlers, 4 requests, 1 clean-up |
| `devices_race` | **violated**: two heartbeats bring a deleted device back | 2 heartbeats |
| `access` | all computations of a scope agree, the console's offers are what is accepted, delegation is bounded | 2 users beside the owner (delegate and target, also each for the other), 2 roles, one of a delegate and one with 3 contents, 2 device groups, 6 permissions of the catalog (one of every kind), 1 replacement in flight while the owner redefines, deletes and disables |
| `books` | lists agree with checks, links stay within a book, a replacement leaves other books alone | 2 users, 2 groups, 1 shared and 2 personal books, 2 rules, 2 requests, 1 device, 2 entries, 2 tags, of one name or (for renaming) two, in ten scenarios |
| `sign_on` | own account, one delivery for a consent, what is cached is what is entered, authorizations end | 3 people of one name, 2 logins, 1 authorization, agreed to twice in five scenarios, 2 polls, 2 providers (one entered later), 2 issuers which both may have, 2 clients; 1 administrator, or 2 who change one provider or remove and disable it; in twelve scenarios: time passes in three, a page is named in one |

Rows of different users, devices and jobs do not touch each other in these
tables, so one of each and two or more actors on it is where the trouble is;
where rows do meet (names, roles, groups, books) there are two.

### What the violated runs say

- `control_durable`: `saveJob` renames the job file, the directory fsync fails
  and the client sees an error; the retry with the same key finds the visible
  file and is answered from it without a sync. After a power loss the job is
  gone, although the answer says it is durably accepted.
- `disabled`: `updateCurrentUser` saves the whole entity it read before an
  administrator disabled the account. The status column was loaded, differs from
  the table, and is written back.
- `devices_race`: two heartbeats of an unknown device pass the lookup and the
  tombstone check; one registers it, it is deleted, the other saves it again.
  After that the row is found first and the tombstone is never looked at.

### Where the properties stop

The passing properties are stated as far as they hold. Unless it says otherwise,
the same models, some with larger bounds, reach:

- *Updates*: a job that ends `recovery_required` with the fence down, because
  reopening failed after the rename, when the decision was already durable.
- *Devices*: a release repeated by a restore because hbbs's answer was lost; a
  ban made by disabling a device, or by a deletion that is still running while a
  second administrator restores, which the restore does not lift; a device
  deleted under clone isolation that registers again after isolation is switched
  off (`MaxSwitches` is 1).
- *Accounts*: a passkey that is inserted again because a login that had read it
  saves its counter after the deletion.
- *Start*: a drifted legacy database that was looked at (server start,
  show-migrations) before its first migration has a history table and is then
  refused (`early`); half of the initial schema on MySQL (`cutShort`), which the
  documentation covers.
- *Strategies*: a heartbeat overtaken by a change fills the cache with what it
  had read; preset groups, logins on the device, deleted users and deleted
  devices forget nothing (`lapsed`). Overlapping edits of one strategy are not
  modelled.
- *Audit*: overlapping reports about one connection make two rows or lose a
  time (`overlapped`).
- *Roles*: the write of a replacement, or of a change of an account, after
  another request changed what its decision rested on; `DelegationBounded` is
  about the decision.
- *Address books*: an overlapping edit brings the earlier owner, or a deleted
  book, back; duplicates of entries, tags, rules and personal books; a refused
  transfer leaves the rule it made.
- *Sign-on*: a user who agrees twice gets two tokens, and a request that named a
  device and a page gets its token both ways after one consent: the callback
  answers the page and leaves the row authorized, and `queryAuth` looks for the
  code, the device and the status only, although the comment at
  `oidc.service.ts:613` is to "prevent concurrent repeated token retrieval".
  `DeliveredOnce` allows both and says that the second happens to no other
  request. A directory login saves an old status with the new mail address. A
  discovery that answers after its settings were changed, or are being removed,
  caches the old client; and an administrator who saves the copy he read before another's save leaves the other's client cached
  under an issuer nobody clears (`lapsed`, which `CacheIsCurrent` excepts until
  the issuer is cleared, or cached again from present settings). Providers that
  share an issuer share what is cached: a sign-in at one may be configured with
  the client of the other, and fails at the exchange if its link was built with
  its own. `CacheIsCurrent` asks for *a* provider with that issuer and client. Not in the model: a client is
  its identifier, so that a change of the secret alone is not seen; providers
  keep their names and are entered enabled. Two rows of one name, which a look
  before the insert does not exclude, are in the model and the theorems
  (`Called`), not in the run.

The heaviest of them are among the hazards of `PROJECT.json`.

### Fairness

- `UpdateWorker!FairSpec`: weak fairness of starting the worker (systemd's
  restart policy, and reconcile on a timer, start it while the job is
  unfinished) and of the worker's steps (commands have timeouts). No fairness
  for the host recovery command, crashes or clients.
- `UpdateControl!FairSpec`: weak fairness of the queue (event loop), of the
  reconcile timer and of the worker.
- `WebClientGateway!FairSpec`: weak fairness of each pending `create` and of the
  revalidation round (an interval timer, each wait bounded by `withDeadline`).
- `SignOn!Spec`: weak fairness of the steps of callbacks, logins and polls that
  have begun (calls of a provider have timeouts), of time, and of the nightly
  clean-up. None for clients, users or administrators.

Faults are bounded in number, which is what makes these liveness properties
about what happens after failures stop, not about endless failure.

## 4. The proofs

A theorem holds for every value of the constants the assumptions allow: any
number of jobs, requests, users, books, devices, and any bound on faults. The
bounds of the runs do not enter. Each theorem follows from an inductive
invariant that was checked with TLC first; a proof has one lemma per action, or
per group of actions that touch the same state, and the theorem ends with the
temporal step.

### Update worker (`UpdateWorkerProofs`)

Assumptions: the set of changed components is not empty (`ChangedAssumption`),
the bounds are numbers (`BoundsAssumption`).

- `TypeCorrect`: `Spec => []TypeOK`. `TypeOK` is not inductive, because a
  restore of data takes its content from the snapshot in the record; the
  invariant `TypeIInv` adds that whoever is at a restore has a snapshot.
- `FenceSafe`: `Spec => []ReopenedOnlyWhenDecided`. The inductive invariant
  `FenceIInv` has two parts. `JournalInv` is about what a power loss may leave:
  if the fence may come back open and some possible content of the job file has
  begun the switch, every possible content is decided; no content is further
  than the visible one; only a switched update is decided. `WorkerInv` ties the
  worker's position and memory to the files: its record agrees with the visible
  one, between `fence` and `switch` the fence cannot be open, at `complete` the
  record is decided, from `complete verify` on the decision is durable, and
  `recover reopen` is only reached by an update that has not switched. Neither
  suffices alone: the first says nothing about the write the worker is about to
  make, the second nothing after a crash.
- `DecisionIsFinal`: `Spec => DecisionFinal`, from `FenceIInv` and the lemma
  `DecisionStep`, with one case per action.
- `OutcomeIsConsistent`: `Spec => []OutcomeConsistent`. `OutcomeIInv` says what
  the host may look like (releases, helper and installation record, old, new or
  in between), that every record a power loss may bring back describes that
  host and none contradicts a decision, and what the worker's position tells
  beyond the record. The middle part is the one that is easily forgotten: after
  a power loss the worker trusts a journal that may be older than the host it
  finds.
- `ContractKept`: `Spec => KeepsContract`, the refinement of `UpdateContract`,
  step by step. The mapping calls business open when the console serves behind
  an inactive fence, and a decision taken when it can no longer be lost. Every
  step maps to a step of the contract or leaves it alone; deciding is the sync
  of the journal, opening is removing the fence, and that only acknowledged data
  are open comes from `Durable` and `Promised`: from the decision on the data on
  disk are those that were promised for the decided release. The contract has
  no fairness; that its promises are kept in the end is the liveness TLC checks.

### Update control (`UpdateControlProofs`)

`NeverTwoUnfinished`, `NeverTwoForOneKey`, `OnlyUpwards`, under `ControlBounds`.
`ControlIInv` is a statement about every content the disk may have, not about
the visible one: each is `Sound` (one unfinished job, one job per key) and what
the operation in progress has read is `StillFree` until it saves, because the
queue lets no other operation in between and the worker only finishes jobs.
`PlansUpwards` is what makes the action property provable: no plan's target is
below the version whose fingerprint it carries, and the fingerprint is compared
again before the job is saved.

### Web client (`WebClientProofs`)

`FilesWithinDesktops`, `ForwardsOnlyForLive`, `ActiveKeepsRelay`,
`NoneSurvivesTimeout`, `LimitsHold`, under `WebClientBounds` and `Identifiers`.
`WebIInv` is `ServiceIInv` (sessions, parents, tickets, the verification epoch)
with `ChannelsIInv` (which session a channel at each position belongs to, and
that a session lists it). Neither component's invariant is inductive alone: a
session's end is only safe because the channels of it stop in the same step, a
channel's step only because its session still lists it. `LimitsIInv` counts:
the reservations of a user are as many as his calls of `create` that hold one,
and live sessions with reservations stay within the limits. TLAPS has no
sums, so "as many as" is the cardinality of the set of places the calls hold.

### Start (`AccountProofs`)

`AlwaysMigratable`, `ServesOnlyWhole`, for `MCAccounts!PartsSpec`, under
`LockAssumption`. In that specification the start and the accounts are parts
that leave each other alone. `StaysMigratable`
is part of its own induction: what one migration leaves is the next one's
start. `StartupIInv` adds who holds the lock at which position (`Guarded`), that
a recorded migration made its parts (`RecordedMade`), and, for the transactions
of SQLite, that the state a rollback returns to satisfies all of this as well
(`AdoptsOK`, `MigratesOK`, `StartsOK`).

### Accounts (`AccountProofs`)

`SecondStepsUsedOnce`, `SecretsAreProven`, `RevokedStays`, `PasswordsStay`, under
`ScenarioAssumption` and `NoneAssumption`. One lemma per action (`Effects`) says
what the action does to each table; all four theorems rest on these lemmas.
`AccountIInv` types the tables and ties each request in flight to the copies it
has read (`RequestsOK`) and each secret to its proof (`SecretsOK`). `OnceIInv`
and `ResetIInv` say that the token of a session or link that was used up cannot
be issued again: whoever is past the statement that consumes it is alone.

### Sign-on (`SignOnProofs`)

`OwnAccountOnly`, `DeliveredOnlyOnce`, `CachedIsPresent`, under the assumptions
of `LinkedAccounts`, `OidcLogin` and `LdapLogin` (kinds of identifiers are
distinct; what is entered at first has the type of the table). Providers may
share names and issuers.

- `OwnIInv`: a row carries the identity of the sign-in that inserted it,
  whoever saves it later. This is needed where a directory login saves a row
  that was deleted since: the unique index lets it in only when no other row
  has the identity.
- `DeliverIInv` follows a consent through the places that may hold it: the code,
  the sign-in that exchanged it, the authorization row, the poll that took it,
  the client. As long as a user agreed once, it is in at most one of them
  (`Carried`); every action hands it on from one place to another or loses it
  (`HandsOn`, `Stays`). Agreeing once more makes a second code, and the
  condition "as long as" fails, for `SameGrants` keeps the number of codes when
  one is used.
- `WaysIInv`: who agreed to an authorization agreed to what its request named,
  which no longer changes (`AsksStay`); a sign-in stays that of its
  authorization (`Asker`); a page got a token only if the request named one
  (`ShownOK`), a poll only if it named a device (`Polled`). It builds on
  `DeliverIInv`: a poll or a sign-in that holds a token holds an authorization
  somebody agreed to.
- `CacheIInv` adds to `CacheIsCurrent` what a save in flight is going to leave
  (`SaveOK`): it puts back the issuer and client it has read, or it clears that
  issuer afterwards. If the row is still as it was read, what was cached is
  therefore entered or about to be cleared; if not, another administrator was
  overtaken, and the issuer lapses (`SaveKeeps`). A removal clears first, and
  from then on the provider does not count (`Leaving`), so that the deletion
  takes nothing away (`RemovalKeeps`).

### Roles and address books (`AccessControlProofs`, `AddressBookProofs`)

`PermissionsAgree` and `OffersMatchChecks` compare the code's computations
operator by operator and need only types (`AccessTyped`) and the catalog
(`CatalogAssumption`: which permissions are scoped, and that what a permission
requires are permissions). `NothingBeyondHeld` is an
action property; `DecidedWithin` says that a decided replacement is within what
its delegate held when it was decided.

`ListedIsAllowed` follows from the types of the books' tables (`BooksTyped`).
`LinksStayWithin` needs `ContentsIInv`: the foreign keys hold, requests hold
entries and tags that were, when looked up, of the book they write to, one
transaction is open at a time, and the tables its rollback returns to satisfy
the same. `OnlyOwnReplaced` adds
`SeenIInv`: what a replacement is going to delete is what it saw in its own
book. `TargetsAssumption` says that users, groups and "everyone" are distinct targets
of a rule.

### Devices (`DeviceProofs`)

The heartbeat buffer, the audit log and the strategies are parts of
`MCDevices!PartsSpec`, the registry is `DeviceRegistry!Spec`. Assumptions: the
bounds are numbers and the marks for "nothing", "removed" and "unknown" are not
data (`BufferAssumption`, `StrategyAssumption`, `AuditAssumption`; users and
groups are distinct); the digest of a uuid and an id is not the uuid of an
installation (`KeysApart`).

- `LatestAlwaysShown`, `FieldsAlwaysKept`: `BufferIInv` orders the numbers of the
  reports: the one in flight is newer than the buffer, the buffer than the
  snapshot of a flush, and that than the row (`InFlightNewest`, `InOrder`), so
  that an entry that is put back after a failure does not hide a newer one, and
  the newest of the three is the newest accepted (`NewestKept`). A deletion is
  the exception: older entries may outlive the row, and then nothing is
  remembered of the device (`OnlyWithRow`). `StopProgress` counts the attempts
  of a stop against its failures.
- `ReportsAlwaysRecorded`: `AuditIInv` has two halves. A nonce has one row and
  every answer names it (`NonceHasOneRow`, `AnswersHold`), because the unique
  index decides between two inserts and the loser looks again. As long as no two
  requests were about one connection at once, there is one at most, the copy it
  holds is the row (`ReadIsCurrent`), and that row is the only one and has all
  that was reported (`Together`). `OfItsLink` and `SameLink` keep what overlaps
  about one connection away from the others.
- `MemoryAlwaysFollows`: `StrategyIInv` says that the foreign keys hold; that
  what a heartbeat carries from level to level is what the rows say, unless a
  change overtook it (`ReadSoFar`); and that each remembered answer is the
  present one or among what the change that has just committed is about to
  forget (`DeviceMemory`, `ObjectMemory`). The last disjunct is what makes it
  inductive: between commit and forgetting the memory is wrong.
- `DeletedForGood`: `Spec /\ []OneRegistration => []DeletedStaysDeleted`. The
  invariant `DeletionHolds` adds that a heartbeat past the lookup has found no
  row, and past the tombstone check no tombstone (`RegistersNew`). A deletion
  cannot make the second false, since it needs a row; another heartbeat that
  saves the row first can make the first false. `OneRegistration`, no two
  heartbeats past the lookup of one row, excludes just that, and
  `devices_race` shows that it must. Different devices register side by side.
- `LateTurnedAway`: `Spec => [](switches <= 1 => LateHeartbeatTurnedAway)`, for
  any number of heartbeats. Before isolation is first on, nothing has an
  isolated key (`NeverIsolated`); `LateMeets` says for each position of a late
  heartbeat which tombstone, or which older row, still lies ahead of it. After
  isolation is switched off again a tombstone of an isolated key is not looked
  at, and TLC finds the violation at once.
- `ReleasedOnce`, `BansLifted`: action properties, under `RequestsApart`: no two
  administrators are at work on one row or one id. `ReleaseOpen` says that a
  request that is going to release an id has a tombstone without a recorded
  release, `RestoreCurrent` that a restore past the unbanning has the id of the
  tombstone and that the id is no longer banned. With two requests on one
  device both are false, and TLC finds it: a restore reads the tombstone before a
  deletion records its ban there and removes it after; a deletion that comes late
  records its release in the tombstone of the next deletion, whose own release
  is then a repetition.
  `ReleasedOnce` also uses `OneRegistration`, because a deletion that meets an
  older tombstone of its row inherits what that one recorded.

### Only model-checked

- Liveness: `JobSettles`, `QueuedIsTaken`, `RevokedEnds`, `OverdueEnds`,
  `AuthorizationsEnd`. The prover has neither fairness nor ENABLED.

No module has a recursive definition whose value for every input a property
would rest on. Where a theorem about the device registry has a condition, the
`devices` run checks the property without it on an instance that always
satisfies it (one heartbeat, one administrator, one switch of isolation).

## 5. Not modelled

Formats, parsing and validation (manifests, archives, frames, DTOs), the
contents of mail and pages, the settings records, statistics and queries, the
event stream of hbbs that is passed on to browsers, the cached release lookup,
the external build service, and the client library in `network/`. Of modelled
parts: the administration of user groups, the request-scoped permission cache
and the permission audit, fields of address-book entries and of device reports,
and the directory's attributes other than the mail address. `shareAddressBook`
and `unshareAddressBook` have no callers. `PROJECT.json` lists each part with
its sources and the reason.

## 6. Plan

The plan of the models and of the proofs is carried out: of the properties the
runs pass, only the liveness properties are without a theorem. What would be
next, were the code to change:

1. If heartbeats lock or repeat the tombstone check when they save,
   `OneRegistration` should go from `DeletedForGood`, and `devices_race` become a
   passing run.
2. If deletions and restores of one device are serialized, `RequestsApart`
   should become an invariant, and `ReleasedOnce` and `BansLifted` unconditional.
3. If a change of strategies bumps a generation that heartbeats compare before
   they fill the cache, `overtaken` should go from `lapsed`.
