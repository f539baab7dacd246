# pktIPAM, verified

pktIPAM is an IP address manager: a FastAPI application over one SQLite file,
with background loops that poll DHCP, DNS and network devices, reconcile what
they report into one table of addresses, and raise alerts about it. This
directory holds TLA+ models of the parts where things can happen in an order
nobody wrote a test for, TLC configurations that check them on small
instances, and TLAPS proofs that hold for every instance. `PROJECT.json` lists,
for every definition, the source lines it models, and every hazard of the code
with the properties about it.

## 1. The system

One process, one asyncio loop, one SQLite file in WAL mode. The loops share no
memory: they meet in the database only, and every `await` on it is a point
where another task may run. Two threads write the log; a third, and threads of
their own, copy files for backups.

* **API connections** (`app/database.py:18-25`) switch foreign keys on. A
  handler is one transaction: SELECTs are autocommit until its first write,
  and an exception rolls back. Two statements of a handler that both read have
  other tasks' commits between them.
* **Engine connections** are plain `aiosqlite.connect`: foreign keys are *off*,
  so neither `ON DELETE CASCADE` nor `REFERENCES` holds for what they write.
* Each loop is `while True: try: tick except: log; sleep`. A failing tick is
  rolled back and tried again after the sleep.

| component | state | operations | what is hard about it | what makes it correct |
|---|---|---|---|---|
| **Poll engine** `ipam/poll_engine.py` | `collectors.status/last_poll_at`, raw tables `dhcp_leases`, `dns_records`, `arp_entries`, `routes` | tick every 15 s: fetch due collectors, poll each, replace its raw rows | overlaps with Poll Now and edits; a failure after the DELETE; a constructor that raises | status `ok` means the rows of one whole poll; every collector is polled again |
| **Collectors API** `api/collectors.py` | the same | create, edit, delete, Poll Now | shares every row with the engine, on another connection | the same |
| **Collector plugins** `ipam/collectors/*` | none | `poll()` of one product | remote servers | a full snapshot or an exception (modelled by that alone) |
| **Reconciliation engine** `ipam/reconcile_engine.py` | `ip_addresses`, `conflicts`, `ip_address_history`, `subnet_utilization` | tick every 60 s: seven SELECTs, one transaction | seven snapshots that need not agree, all stale when it writes | users' rows and values kept; the view follows the network; findings recorded |
| **IP addresses, subnets API** `api/ip_addresses.py`, `api/subnets.py` | `ip_addresses`, history, `subnets` | create, edit, delete, bulk update, grid, tree | race the tick | the same; grid and tree agree with the planner |
| **Conflicts API** `api/conflicts.py` | `conflicts` | acknowledge, resolve one, some, all | races re-detection | a resolution stands until detected again |
| **Capacity planner** `api/capacity.py` | `ip_addresses` | find free blocks or runs; reserve a range | boundaries of networks, children, rows in use; check, then write | what is found is free and large enough, nothing is missed, a reservation stands |
| **Alert engine** `ipam/alerts/engine.py` | `alert_events` | evaluation every 30 s: five kinds of rule | resolution, cooldown, edits and deletions between its statements | one active event per target, shown while bad, resolved when over |
| **Alert cleanup, alerts API** | `alert_rules`, `alert_events` | daily removal; rules; acknowledge, resolve | race the evaluation | the same |
| **Login, lockout, throttle** `api/auth.py`, `api/users.py`, `auth/*` | `users`, `address_failures`, `address_blocks` | login, password change, unlock, user list | an attempt reads, judges, and writes later; counters shared by concurrent requests | counts are exact, locks and blocks are earned, owners get in again |
| **SAML sign-in** `auth/saml.py` | `users` | sign-in | XML and cryptography | (external; what it does to `users` is modelled) |
| **Resonance limiter and breaker** `integrations/resonance`, `api/resonance.py` | rate windows, breaker row | code, test, report | read-then-write counters around a slow call | a failing service is left alone, a repaired one is found |
| **Resonance data** `api/resonance_data.py` | reads everything; acknowledges events, toggles rules | grant, listings, three changes | gates read one after another; pages cut to a size while rows move | no change without every gate open; nothing left out of a listing |
| **Managed mode** `main.py`, `api/suite.py` | settings `direct_ui_locked`, `lock_heartbeat_at`, `suite_token` | lock, unlock, heartbeat, expiry, health report | the middleware judges a heartbeat it read before | the lock is lifted only after silence; nobody is stranded; the hub learns |
| **Migrations and start-up** `database.py`, `main.py` | `_migrations`, the schema | at start | a kill inside a script | what is recorded is whole; it serves only when ready |
| **Stored credentials** `crypto.py`, `user_api_keys.py`, `suite_integrations.py`, `settings.py` | API keys, suite tokens, the assistant's key | save, read, delete; a one-time encryption at start-up | rows of early releases are in the clear; a kill on the way | each reads back as it was typed, encrypted once |
| **Self-update** `self_update.py` | the release directory, settings `self_update_*` | check, download, swap, exit, once an hour or on demand | a failure or kill inside the swap; a time window | VERSION tells the truth; an offered release is installed |
| **Backup and restore** `backup.py`, `api/system.py` | snapshot directories, the database file and its WAL | scheduled and manual snapshots, rotation, export, restore | rotation; files copied under live connections | a reported snapshot is there and whole; every commit is saved in the end |
| **Log handlers** `logging_handler.py`, `log_forward.py` | queues, `app_logs` | emit, batch, trim, forward | failed writes, bounded queues, kills | every record is stored, counted as lost, or was older than the ring |
| Settings, sites, VLANs, listings, widgets, frontend, installers | rows of their own | create, read, update, delete | little | not modelled, see section 6 |

The data pipeline is Poll engine -> raw tables -> Reconciliation engine ->
`ip_addresses`, `conflicts`, `subnet_utilization` -> Alert engine ->
`alert_events`; the capacity planner and the API write into it at any time. It
is the core of the program (IpamData, Reconcile, PollEngine, AlertEngine,
Capacity). Around it are the ways in (Accounts, ManagedMode), the assistant
(Resonance, Assistant) and the life of the installation (Release with
StoredSecrets, Backups, AppLog). These groups share no state but the settings each module has its
administrators save.

## 2. Modules

Definitions marked *Faulty* are variants with a plausible mistake. No
specification uses them; each was put in its original's place to see that the
property meant to notice the mistake does. Variables under *For stating
properties only* are history variables: no guard reads them.

### IpamData: tables and pure rules

A CIDR is the set of addresses it covers, so "more specific" is "proper
subset". Tables are sets of records or functions from their UNIQUE key. The
engine's SELECTs have no ORDER BY; wherever the code takes "the first" row,
the model allows any (`FirstRows`, `Orders`). `Home` is `_find_subnet`,
`Discovered` and `Merged` are the precedence rules of the merge, `UpsertRow`
and `ReleaseRow` the two statements on `ip_addresses`, `Findings` the four
detectors, `RecordFindings` the upsert into `conflicts` with SQLite's reading
of `UNIQUE` over NULLs.

### Reconcile: the tick against everyone else

| in the model | in the code |
|---|---|
| `ReadSubnets` ... `ReadPrevious` | the seven SELECTs of `_tick`, one action each: another writer may come between any two |
| `Write` | from the first upsert to the commit: upserts, conflicts, releases, history, utilization in one transaction |
| `Abort` | the tick raises, or the process stops; nothing was written |
| `PollDhcp`, `PollDns`, `PollDevice` | one committed replacement of a collector's raw rows |
| `CreateManualIp`, `UpdateIpAddress`, `DeleteIpAddress`, `BulkUpdate` | the API's writes, with the history they log |
| `CreateSubnet`, `UpdateSubnet`, `DeleteSubnet` | the last with its cascades |
| `ResolveConflicts`, `ResolveAllConflicts`, `AckConflict` | the conflicts API |

An API handler is one step, although PATCH and DELETE SELECT the row before
they write it: the engine's transaction coming between those two can only make
the logged history event describe the row as it was, which `HistoryExplainsRow`
would exempt as a race anyway. `fresh` says the last thing that happened was a
whole tick during which nobody else wrote; `touched` are the keys users wrote
since the tick under way began.

### PollEngine and Snapshots: polls, and what they promise

What a server holds is a version number; what a raw table holds for a
collector is the version a poll wrote and whether all of its rows went in.
`FetchDue` is the tick's SELECT, whose rows are used unchanged while
collectors are edited; `NextUnresolved`, `NextUnbuildable`, `NextPolled` are
the three ways `_poll_one` begins; `PollAnswers`, `PollFails`, `Persist`,
`PersistPartly` the ways it goes on. `PollNow` ... `NowDropped` are the
request that does the same on a connection that rolls back. `IntervalPasses`
is the clock.

`Snapshots` is the abstract specification: per collector, pollers open a poll,
are answered with what the server holds then, and either show the whole answer
or drop it. `PollEngine` implements it, `Abstract == INSTANCE Snapshots WITH
...`: `shown[c]` is the version all tables of an "ok" collector hold (`Shown`),
`polls` the engine's poll in `current`/`result` (`EnginePoll`) and the
request's (`RequestPoll`). A collector in status "error" or "unknown" shows
nothing, which is how a half-filled table is no counterexample: the promise is
about the status.

### AlertEngine: rules, events, cooldowns

`alerts[t]` counts the active events of a target `t` (rule, subnet, address or
collector) and says how long ago the last one was resolved, in the two degrees the
cooldown tells apart. An evaluation begins (`Begin`), evaluates the enabled
rules one at a time in its transaction and commits; a rule reads the tables as
they are then. Users resolve events, edit, toggle and delete rules, delete
subnets (the events lose their subnet, as SET NULL says); conflicts,
utilization and collectors change through what Reconcile and PollEngine would
do, in `TickReads`/`TickWrites` and `CollectorChanges`. `Time` ends cooldowns.

### Capacity: searches and reservations

An address is a number of `Width` bits and a network an aligned power of two
(`Size[b]`, a recursive function, so that it can be reasoned about).
The search is there with its arithmetic: `Required` (buffer, rounded up),
`AlignedBlocks` of the smallest size that fits (`BlocksOf`, `IsClean`),
`LongestRun` for the fallback, `FindCandidates` with its limits and early returns. A search reads
the subnets and then the rows of one subnet at a time (`SearchSubnets`,
`SearchUsed`), and the user takes one candidate or any range (`Ask`) to the
reservation, whose checks and write are three steps (`ReserveSubnets`,
`ReserveUsed`, `ReserveWrite`). `Grid` and `Parents` are what the address and
subnet pages compute from the same tables. A tick of the reconciliation is one
step per row here.

### Accounts: the ways in

A sign-in is `Arrive` (the throttle's check), `Lookup` (the SELECT, and the
judgement of the password against the row it returned), then `Wrong` and
`CountAddress`, or `Right` and `Answer`: each one statement, with other
requests' statements in between. `Missed` is the lockout's UPDATE, from
`failed_login_count` and `lockout_count` as the row has them then; `Succeeded`
and `Unlocked` reset it. `CountFailure` is the throttle's insert, trim, count
and block. `PatchRead`/`PatchWrite` are the two halves of the user list's edit.
`SsoLookup` ... `SsoAssert` and `AutoLogin` are the ways in without a password.
Times appear as remaining times, and the throttle's rows as how many there are
of each age; `Tick` is the database's clock.

### ManagedMode: the lock and its failsafe

The middleware reads the lock, the heartbeat and the address one after another
(`VisitLock`, `VisitBeat`, `VisitJudge`, `VisitRelease`, `VisitTarget`), each a
step of its own; `SetDirectAccess` is the hub's command, `PollRead`/`PollBeat`
the health report and the heartbeat it leaves, `Proxied` a request that passes
through the hub, `GetTokenRead` ... `Regenerate` the token. Both the middleware
and the health report swallow a heartbeat that cannot be stored, so each of the
hub's calls either stores one or does not (`Heartbeat`, `HeartbeatFails`) and is
answered all the same; a report whose read fails stores none and says unlocked
(`PollFails`), and a command whose transaction fails is answered with an error
(`SetDirectAccessFails`). The hub is the code it has to be for the comments in
`main.py` and `suite.py` to make sense: it calls, shows the lock it was told
of, may miss an answer, go down and be registered again. What the hub did
(`contact`), what was stored of it (`beat`) and whether the two differ (`missed`)
are kept apart, and `witness` says which of these was the case at some moment
of a visit.

### Resonance and Assistant

*Resonance*, the limiter and the circuit breaker: a request for a code counts
itself into the user's window and reads the count back, does the same with the
global window, asks whether the breaker is closed, calls the service, and
records success or failure, each statement on its own (`ConsumeUser` ...
`RecordSuccess`). `record_failure` is two steps, its SELECT and its UPDATE. An
administrator's test (`TestBegins` ... `TestAnswers`) shares the breaker but
only ever resets it. `stale` and `muddled` mark the one known weakness of the
counter: a success between a failure's SELECT and UPDATE is overwritten by the
old count.

*Assistant*, what the panel may read and change: a call is the session's
SELECT (`Ask`), the switch (`ReadEnabled`), the role's level (`ReadAllowed`,
`ReadLevel`), the SELECT of what it changes (`ReadTarget`) and the UPDATE. The
panel knows the operations of the grant and of the narrowed specification, two
documents it fetches at different times. A listing is a sequence of rows;
whether it is paged, where rows enter, which may leave and whether one may move
to the front follow from its query (`Listing`). `Page` answers LIMIT and
OFFSET, cut by `_fit` to any non-empty prefix.

### Release, StoredSecrets, Backups, AppLog: the life of an installation

*Release*: `Wake` is the hourly loop, which compares the time of day (`clock`) with
the window when its sleep (`slept`) is over; it wakes at the end of the sleep or an
instant later. `CheckLatest` is the call to GitHub, `ReadAsset` ... `Applied` an
update from the offer to the scheduled exit, path by path (`RemovePath`, `CopyIn`)
in the order of `_UPDATED_PATHS`; a path that the package does not have (`Packed`)
stays as it is (`SkipPath`), and several updates may run at once. `Boot` ... `SeedAdmin` is start-up: the runner executes
a script statement by statement (`executescript` commits), so `Kill` may come
between any two, and `DuplicateColumn` is how the next start takes a
half-applied script for done. *StoredSecrets*, which it extends, is the
credentials: a value is what was typed and how many times it is encrypted;
`EncryptLegacy` is start-up's one-time encryption of what early releases left in
the clear, and users and administrators save and delete values while the
process is up.

*Backups*: the database is the set of its commits, some only in the WAL file
until `Checkpoint`. A run names a directory by the minute, copies through
SQLite, verifies, rotates; the scheduler's and requests' runs overlap.
`Export` copies the bare file; `Import` and `Restore` copy over it while
connections and WAL are live, which may leave the file with frames of another
database (`damaged`).

*AppLog*: `Emit` puts a record into the handler's queue and the forwarder's;
`Drain` and `Store` are the flusher thread's two halves, the second with the
trim in its transaction; `TakeLine`, `SendLine`, `SendFails` are the
forwarder's thread; `Configure` replaces a forwarder that may still be sending
(`LateLine`). `StopHandler`, `ProcessExits`, `ProcessKilled`, `ProcessStarts` are the
process.

These modules and ManagedMode share NULL (module *Null*) and no other name, so that
one module can extend them all: what is `Init`, `Spec` and `Inv` elsewhere is
`LockInit`, `LogSpec`, `BackupInv` and so on here, but for Release.

## 3. What the runs check

Every bound is a constant of its module: `MaxEdits`, `MaxSteps`, `MaxMishaps`,
`MaxLogMishaps`, `MaxWrong` bound what users, remote systems and failures do in one behaviour; the
program's own steps are unbounded. Every safety property relates one pass of
the program's own with the few writes around it, so a violation needs that
pass, the write that makes its view stale and one or two that prepare the
tables; three or four edits leave room for that. `MaxCopies` bounds the copies
of a record that are told apart, `MaxVersion` the changes of a server,
`MaxSame` the events of one target, `MaxRecords`, `Commits`, `Minutes` and
`Releases` the length of a behaviour.

| run | question | instance |
|---|---|---|
| `ReconcileRace` | Is the view right, and is what users wrote kept, when everything interleaves? | one address, one subnet, three collectors, 4 edits |
| `ReconcileNetwork` | Is each address filed once, and counted once, as subnets are nested, resized, deleted? Does `conflicts` say what is wrong, and do resolutions stand? And in the end? | two addresses, two subnets, two rival servers and a roaming device, a route, 3 edits |
| `PollRaces` | Does a collector in order show one snapshot, and is everything fresh in the end? | two collectors of any kind, 4 edits and failures |
| `Alerts` | Is each violation shown once, then resolved, with the cooldown kept? | one rule of any of five kinds, two subnets, 4 edits |
| `Capacity` | Is what the planner finds free and taken by the reservation, does it miss nothing, and does a reservation stand? | addresses of three bits, up to three nested subnets, two clients, 3 edits; one block scanned and one offered per subnet, two in all, so that every limit of the search bites |
| `Accounts` | Are counts exact and locks earned while attempts interleave, and do owners get in again? | two accounts and a third to come, two requests at a time, 4 wrong ones |
| `ManagedMode` | Is the lock lifted only after silence, does the hub learn, is nobody stranded? | one visit at a time, a heartbeat of two ticks, 3 edits, commands and failed statements |
| `Resonance` | Do lone failures, one user or an old failure take the widget down? | one user, two requests at a time, one change, test or restart |
| `Assistant` | Are changes made through open gates only, and are listings whole? | two people, three rows, pages of two, 4 edits |
| `Release` | Does VERSION tell the truth, is a recorded script whole, do credentials read back, does an offer come to be installed? | one update without `docs`, two migrations of two statements, half hours: a day of six, a sleep of two, a window of three past midnight or of a single instant, 3 mishaps |
| `Backups` | Is a reported snapshot whole, and is every commit saved in the end? | two commits, two minutes, rotation 0 or 1, 2 edits |
| `AppLog` | Does a record vanish unaccounted for? | a ring of 3, a forward queue of 1, 5 records, 2 mishaps |

Addresses of three bits are the smallest with a network, a child of it, a block
that fits in either and a run that is no block. Two requests at a time are
enough for the counters of Accounts, Resonance and Capacity: their statements
are each atomic, and a third request only repeats what a second does. Six half
hours are the shortest day in which a loop that sleeps for two of them can meet one
window every day, past midnight, and miss another for ever.

Properties, with what a violation would mean:

* Reconcile. `Inv`: besides types, an address shown in conflict has a record
  of why (`ConflictStatusHasRecord`). `ManualRowsKept`, `OwnValuesKept`: a tick
  overwrites what a user entered; the second exempts a key the user wrote
  during that very tick, where the stale value does win (lines 242-246 use
  what was read). `HistoryExplainsRow`: a device change the history does not
  tell. `ViewIsCurrent`, `OneHome`, `RollupCounts`: stale or double rows after
  a quiet tick, and `EventuallyCurrent`, that they last; these are written
  without the model's merge operators, from the collectors' rows alone.
  `StillTrueIsOpen`, `NetworkIsFlagged`, `ResolutionStands`: a conflict hidden
  by an earlier resolution, or one reopened with no cause.
* PollEngine. `Inv` has `OkMeansWhole`: a collector shown healthy with a mix of
  two polls. Exempt are collectors whose category was changed, which keep the
  rows of their old tables. `ShowsSnapshots`: PollEngine implements Snapshots,
  so what a collector comes to show is an answer its server gave during the
  poll that shows it. `EventuallyFresh`: a stale poll written last, or a
  half-filled table, that stays.
* AlertEngine. `Inv` has `OneActive`; with `BadIsShown`, `ClearedIsResolved`,
  `CooldownHeld` and `EventuallyTold`: doubled, missing, everlasting, premature
  or suppressed alerts.
* Capacity. `Inv` has `FoundIsFree`, `NothingMissed` and `FoundIsAccepted` (the
  search against the definition of what is free, and against the reservation's
  own checks; a run that is no block is offered only when no clean block
  exists, be it beyond those scanned), `TreeIsContainment` (the subnet page's
  tree against the planner's idea of what is carved out: a subnet lies in its
  parent, in what its parent lies in, and in nothing else, to any depth),
  `OnlyRacesOverbook` (the only way to
  take an address in use is that it was claimed after the request looked).
  `ReservationsStand`: a reservation that ends though no user ended it.
* Accounts. `Inv` has `CountIsExact` (a wrong password lost or counted twice by
  concurrent attempts) and `OneDefaultAdmin`. `PermanentIsEarned`: a permanent
  lock that is the work of an old lock. `BlockIsEarned`: an address blocked for
  failures older than the window or already punished. `EventuallyIn`: an owner
  who types the right password and is kept out although every lock has ended.
* ManagedMode. `LockInv` has `LockStartsFresh`. `ReleaseNeedsSilence`: a lock lifted
  though, all through the visit, a heartbeat no older than MaxAge less the visit's
  own ticks was stored; or though the hub had called within that time and every
  call since the stored heartbeat had stored its own; or a lock no older than MaxAge
  lifted by a visit that had not read the heartbeat before that lock was set.
  A violation of the second kind would be the application's own, one of the third a
  lock that starts stale. `HubLearns`: a hub that goes on showing a lock the
  failsafe has lifted. `EventuallyServed`: visitors sent to a hub that is gone.
* Resonance. `Inv` has `OpenOnlyOnRepeatedFailure`: the widget taken down for
  all by one failure. `UserShare`: one looping browser that uses up the
  install's allowance; the bound is two windows' worth plus, at each window's
  start, the requests under way. `EventuallyAvailable`: a repaired service that
  is never called again.
* Assistant. `Inv` has `WalkMissesNothing`: a row that matched all along and
  that the pages leave out, beyond those that slipped past the offset.
  `ChangesArePermitted`: a change by a role that at no moment of the request
  was trusted, with the panel on, and allowed the same on the page. `AckKept`:
  an acknowledgement taken over by the assistant.
* Release. `Inv` has `VersionIsTrue`, `RecordedIsWhole`, `UpIsReady`: a VERSION
  without its code, after which no check offers the release again; a recorded
  script that did not all run; requests answered while a credential does not
  read back as it was typed, or before somebody can sign in.
  `VersionIsTrue` speaks of the paths the release's package has.
  `EventuallyUpdated`: an offer that is never installed although the loop cannot
  sleep through the window, which is longer than its sleep and the instant it may be
  late (`IsWide`). Shorter ones are accepted, and may never be met
  (`AnyWindowIsMet`, below).
* Backups. `BackupInv` has `ReportedIsKept`: a snapshot reported as made and gone,
  unsound or without commits that were in the WAL. `EventuallySaved`.
* AppLog. `LogInv` has `KeepsNewest` and `ForwardedOnce`: records that vanish,
  change order or are sent twice, and counters that do not add up.

### Where words and code disagree

These are formulas of the modules, under *what the code's words say and it does
not do*; TLC refutes each when it is put in its run's configuration. They are
no runs of their own.

| formula | what the code does |
|---|---|
| `Reconcile!TicksLeaveManualRowsAlone` | `reconcile_engine.py:174` says the loop never touches manual entries; the merge at 242-246 gives a manual row whose address is reported source 'manual', so the upsert's WHERE (291) lets it through: status becomes static or conflict, empty MAC and hostname are filled |
| `Reconcile!OneRecordPerFinding` | `reconcile_engine.py:40` says conflicts are upserted by (type, address, subnet); four of the findings pass NULL for a key column, SQLite's UNIQUE takes NULLs as different, and each tick inserts one more record, also after a resolution |
| `Reconcile!NoOrphanRows` | `migrations/001_initial.sql:99` declares ON DELETE CASCADE; the engine's connection has foreign keys off, so a tick that read a subnet before its deletion writes rows for it that nothing removes |
| `PollEngine!EveryEnabledIsPolled` | `poll_engine.py:4` says every enabled collector is polled; `get_instance` at 260 is outside the try, and a Pi-hole plugin without URL or password raises in its constructor: every tick stops at it before the collectors after it |
| `PollEngine!SnapshotsAreWhole` | `poll_engine.py:7` says each poll is a full snapshot; when persist raises after its DELETE and some INSERTs, 271-276 do not roll back and 277 commits the part, with status error |
| `AlertEngine!OnlyViolatingIsActive` | `alerts/engine.py:115` says alerts whose target is no longer in violation are resolved; events are opened per subnet and address (179) and kept by the address alone (123) |
| `Accounts!SsoProvisions` | `Settings.tsx:1550` says SSO users are provisioned on first login; `auth.py:256-259` inserts `hashed_password` NULL, which `migrations/001_initial.sql:7` declares NOT NULL: the insert raises |
| `Accounts!AutoLoginIsAdmin` | `auth.py:145` describes a fallback to an active admin; the default account is used in whatever role it has |
| `ManagedMode!OnlyStoppedHubsExpire` | `main.py:190` says the only way to reach the expiry is for the hub to stop; a heartbeat that cannot be stored is swallowed (`main.py:270`, `main.py:350`) and the call is answered, so a hub that keeps calling a locked database is taken for silent and a visit lifts the lock |
| `ManagedMode!FreshLockStands` | `suite.py:243` says a fresh lock does not inherit an expiry; a visit that judged the old heartbeat lifts the new lock (`main.py:254`) |
| `Assistant!AnswerIsTrue` | `resonance_data.py:1276` says `acknowledged` is true if this call acknowledged it; the UPDATE may find it acknowledged by then and the answer is the same |
| `Release` (comments) | `self_update.py:342` says an update never partially overwrites the install directory: a failure or kill in the swap does; `database.py:29` says the scripts are safe to run again: 006's plain CREATE TABLE is not, and a duplicate column marks the rest of its script as done |
| `Release!AnyWindowIsMet` | `self_update.py:3` says a newer release is applied inside the configured window; `_in_window` (254-257) compares the time of day with the window's two minutes, and the loop looks once in 3600 seconds: it may sleep through a window of less than an hour, or of an instant, every day |
| `Backups!ExportIsFull`, `RestoreIsExact`, `UsableAreKept` | the export copies the file without its WAL (`system.py:373`); a restore copies over a file whose WAL is live (432); the rotation counts snapshots that failed verification (`backup.py:112`) |
| `AppLog!RingHoldsMaxRows` | the ring is trimmed to one row less than `_MAX_ROWS` (`logging_handler.py:8`) |
| `Capacity!NoOverbooking` | `capacity.py:227-247` checks, then writes: two clients may both be told a range is theirs, the second one's owner stays |

Also met while modelling:

* Reconcile: a manual row set to `conflict` keeps that status when nothing
  reports the address any more, since the release spares manual rows (310).
* Polls: a collector moved to another category leaves the rows of its old
  category; one deleted under a scheduled poll gets rows again.
* Alerts: the cooldown also counts from a user's resolution; events of a
  deleted or disabled rule stay active until resolved by hand;
  `dhcp_pool_exhausted` looks at the subnet's utilization, not at its pool.
* Capacity: a search may find a range larger than one reservation may be
  (4096), which is then refused; networks of one or two addresses never get a
  candidate, and networks above /16 without a clean block get no run; a child's
  search does not see addresses reserved in its parent before it was carved
  out; two texts of one network (`10.0.0.5/24`, `10.0.0.0/24`) are two subnets
  and both offer the same addresses; `/lookup` answers any subnet that
  contains the address, not the tightest; a tick turns a reserved row that a
  collector sees into a static one, which is still claimed.
* Accounts: attempts that were in flight when the temporary lock was set count
  on, and may lock the account for good before it ends; a PATCH that read the
  row before someone disabled it writes it back enabled (`users.py:107`).
* ManagedMode: a failed read in the health report says unlocked; two requests
  that find no suite token each answer one of their own.
* Assistant: the unpaged listings (VLANs, collectors, rules) are cut to the
  size budget too, and the rest can never be read; two toggles of a rule may
  cancel out; `_in_time` (`resonance_data.py:554`) is called by nothing, so no
  query is bounded in time; the summary counts from separate statements.
* Release: a swap that fails after VERSION leaves the old `frontend/dist` while
  every check says up to date; the exit of one update may interrupt another's
  swap; the loop itself never asks GitHub, a page does; a failed check
  withdraws the offer.
* Backups: a rotation count of 0 deletes the snapshot just reported.
* AppLog: the last lines of a shutdown are logged after the handler has
  stopped; replacing the forwarder drops its queue uncounted.

## 4. Fairness

Weak fairness of the program's own steps: loops catch every exception and sleep
a constant time, handlers that are under way go on, calls to servers have
timeouts, clocks run (`IntervalPasses`, `Time`, `Tick`, `TimePasses`). Users, remote servers,
administrators and failures are owed nothing, and their number is bounded, so
every behaviour becomes quiet in the end.

* PollEngine: a collector's answer is fair, failing is the other outcome; no
  Poll Now is assumed to finish.
* Accounts: requests under way are handled (`Handle`), and an owner in `Owners`
  tries again whenever an address lets them: strong fairness, because blocks
  come and go. That is the hypothesis of `EventuallyIn`, not a promise of the
  code.
* ManagedMode: visits keep coming, and the hub polls while it is up; it need
  not be up, send a command or hold the right token, and its heartbeats need not
  be stored.
* Resonance: that users keep asking is a hypothesis of `EventuallyAvailable`.
* Release: systemd starts the process again (`Starting`; the unit says
  `Restart=on-failure` and every exit of its own is with status 1; an operator
  who stops it starts it again), the loop wakes at the end of its sleep or an instant
  late, downloads and copies end in success or failure.
* Backups: the scheduler's sleep and backup threads end.

## 5. Proofs

Each module `M_proofs` proves theorems about the specification of `M` for every
value of its constants; `Upkeep_proofs` does so for the four about the life of an
installation, Release, ManagedMode, AppLog and Backups. Each specification has
one inductive invariant (`IInv`; in `Upkeep_proofs` also `LockIInv`, `LogIInv` and
`SnapIInv`), a lemma that the initial states satisfy it, one per group of actions
that they keep it, and the theorems that follow from it. Every invariant and
every action property that a run checks is proved.

`Reconcile_proofs`, for every set of addresses, collectors, subnets, inputs and
every bound:

* `TypeCorrect`: `Spec => []TypeOK`. The work is in `Write`: that merging,
  releasing and recording keep the tables in their types.
* `ConflictsRecorded`: `Spec => []ConflictStatusHasRecord`; with the above,
  `Invariant`: `Spec => []Inv`. It is inductive together with `TypeOK` and two
  further facts that the code never states: users choose only `static` or
  `reserved` (`UserStatuses`: the choices of the dialog and the comment at
  `ip_addresses.py:25`; the API itself takes any string) or send back the
  status the row has (`Offered`), and a row's status becomes `conflict` only by
  a merge that records its finding in the same transaction. The record can go
  only with its subnet, and then so does the row. A resolved record still
  counts: it is the reason, even if acknowledged or closed.
* `ManualKept`: `Spec => ManualRowsKept`, an action property: the WHERE clauses
  protect rows that became manual after the tick's read, and a row that was
  manual when read is merged as one.
* `OwnKept`: `Spec => OwnValuesKept`. The strengthening is `ManualViewHolds`:
  from the manual rows' SELECT to the end of the tick, what the view says of a
  key is what the table still holds, unless a user wrote that key since the
  tick began. It fails without the exemption, which is the stale merge above.
* `ResolvedStands`: `Spec => ResolutionStands`, because a finding that carries an
  address comes from an address the tick saw.
* `ViewCurrent`, `OneHomeHolds`, `StillTrueOpen`, `NetworkFlagged`,
  `RollupsCount`: what a tick nobody disturbed has established, for any nesting
  of subnets and any earlier races. The strengthening (`CalmViewHolds`) is that
  as long as nobody wrote since the tick began, each snapshot it holds equals
  its table; so its transaction is a function of the tables as they are
  (`CalmWriteView`), and what it leaves is compared with them.
  `RollupsCount` needs a bijection between the reported addresses and the rows
  that count them, since both sides are cardinalities.
* `HistoryExplains`: `Spec => []HistoryExplainsRow`, over any sequence of ticks,
  polls and edits. A tick logs the difference to the previous state it read, and
  of a key nobody has written since that state is still in the table
  (`PreviousViewHolds`).

`PollEngine_proofs`, for every set of collectors, categories, inputs and bound:

* `Invariant`: `Spec => []Inv`, of which `OkMeansWhole` is the part that
  matters. It needs what the engine holds at each step (`EngineHolds`): at
  "polling" a row it fetched, at "persisting" the answer with it; that no
  collector is polled that never existed, so that an identifier given out later
  starts with empty tables (`OnlyKnownPolled`); and that a poller and the table
  agree about a collector's category unless the collector was moved, which is
  why moved ones are exempt (`CategoryKnown`).
* `Implements`: `Spec => ShowsSnapshots`, the refinement of Snapshots. A step
  that shows a collector is `Show` of the poll that wrote it, for which
  `OkMeansWhole` is needed; failures, edits and half-filled tables are `Drop`
  or stutters.

`AlertEngine_proofs`, for every set of rules, targets and bounds:

* `Invariant`: `Spec => []Inv`, at most one active event per target. The
  engine's transaction is a copy of the table it alone may write until it
  commits, so the strengthening says the same of the copy (`EngineHolds`).
* `BadShown`, `ClearedResolved`, `CooldownIsHeld`: `Spec => BadIsShown`,
  `ClearedIsResolved`, `CooldownHeld`. They need that an undisturbed evaluation
  has, for each rule it is done with, already brought about what they say of
  the whole (`CalmHolds`, `FreshHolds`), and that an event it opened was in no
  cooldown when it did (`CooldownHolds`).

`Resonance_proofs`, `Invariant`: `Spec => []Inv`. The breaker opens only on
repeated failures because the stored count never exceeds the failures recorded
since the last success (`CountsRecorded`); the exemption for a success that
comes between a failure's SELECT and UPDATE (`muddled`) is just what the
induction needs.

`FairShare`: `Spec => []UserShare`, for any limits and any number of requests at
a time. Besides what a user was charged, the strengthening (`Bounded`) counts
what he will yet be charged if nobody else is admitted: his requests that have
passed his own window, and those waiting there while it has room. It holds in
two degrees, for a window that began before the global one and for one that
began within it, which is where the two windows' worth comes from.

`Capacity_proofs`, for any number of address bits, networks, subnets, requests,
sightings, limits and bounds:

* `Invariant`: `Spec => []Inv`. `FoundIsFree`, `NothingMissed`,
  `FoundIsAccepted` and `TreeIsContainment` are statements about what the search
  and the tree compute from any tables of the right types, so the work is in the
  geometry, not in the steps. That `Size` exists and doubles (`SizeIs`) is proved by
  a least counterexample, as induction is out of reach; it gives that the
  smaller size divides the larger (`SizeDivides`), hence that two networks nest
  or lie apart (`NetworksNest`) and that a block lies in the subnet it starts in
  (`BlockFits`). `LongestRunIs` says what the fallback returns, a maximal run of
  unclaimed addresses, with least and greatest elements of sets of numbers.
  `NoneMissed` and the end of `FoundFree` need `MaxFallback <= 4 * MaxScan`, which
  the code's 65536 and 20000 satisfy: in a subnet small enough for the fallback,
  no aligned block is beyond the scan.
* For `OnlyRacesOverbook` the strengthening is `RequestsHold`: a search has a subnet
  table, subnets of it still to visit and a size that some block has, and a
  reservation under way carries a range of real addresses. What such a request
  found free and is not now was claimed since, by the other actions of `Next`.
* `ReservationsHeld`: `Spec => ReservationsStand`. It needs `OwnersHold`: a row with
  an owner has source `manual`. A tick releases only what its collector
  discovered, and a discovery of a manual row makes it `static` at most, and
  keeps its owner and its source.

`Upkeep_proofs`, ManagedMode:

* `LockInvariant`: `LockSpec => []LockInv`, of which `LockStartsFresh` is the part that
  matters.
* `SilenceFirst`: `LockSpec => ReleaseNeedsSilence`, whatever heartbeats fail to be
  stored. The stored heartbeat is the hub's last call unless a later one was
  missed (`BeatIsContact`), and no older than the lock (`BeatIsFresh`). What a visit
  read of it was the case at a moment of the visit, which the witness remembers
  (`Witnessed`), and has aged no more than the visit has taken (`SeenFits`); and
  unless the lock was set after that reading it is older than what was read
  (`VisitsKnow`). A visit that finds the lock on finds a heartbeat too, so "no
  heartbeat counts as expired" never lifts a lock.

`Accounts_proofs`, for any accounts, addresses, requests, limits and times:

* `Invariant`: `Spec => []Inv`. What `CountIsExact` needs beyond itself is that a
  request between its SELECT and its UPDATE carries an account, an address or a
  role to write for (`RequestHolds`): the UPDATE counts from the row it finds,
  so no request's memory of the row matters.
* `PermanentLocksAreEarned`: `Spec => PermanentIsEarned`, because the counters
  are the wrong passwords since the last clearing, in base `MaxAttempts`.
* `BlocksAreEarned`: `Spec => BlockIsEarned`. The rows of the window are the
  failures since the last block (`RecentIsKept`): the prune removes only older
  ones, which is what `Keep >= Window` is for.

`Upkeep_proofs`, Release, `Invariant`: `Spec => []Inv`, for any releases, scripts,
appliers, windows and stored credentials. The strengthening follows the
program's phases:

* `SwapHolds`: a swap that has the paths to itself has put in place all that it
  is past (`InPlace`), of the paths its package has. Swaps that overlap are exempt (`overlapped`), and truly break it.
* `ScriptsHold`: a script never killed half way is whole, untouched, or the one
  that is running. That the runner takes the least pending release needs the
  least element of a set of numbers, from the library's well-foundedness.
* `SecretsHold`, `PhasesHold`: clear text is only in a store whose one-time
  encryption is not recorded, and the process is up only when all are.

`Upkeep_proofs`, AppLog, `LogInvariant`: `LogSpec => []LogInv`, for any sizes of the
table and the queues, and any number of records, failures, kills and changes of
the settings:

* `LogOrdered`, `TrimmedIsOlder`: table, batch and queue hold their records in the
  order of emission, one after the other and each once, and a record that was
  trimmed is older than all of them. This is what makes the trim, which
  goes by the id of the newest row but `MaxRows - 1`, drop the oldest records even
  when a batch failed in between.
* `OnePlace`: a line is in the forwarder's queue, being sent, being sent by a
  forwarder that was replaced, or with the collector, and in one of them only.
  `ForwardHolds` adds that the counters add up to what was handed over, the line
  being sent counted apart.

`Upkeep_proofs`, Backups, `SnapInvariant`: `BackupSpec => []BackupInv`, for any runners, minutes,
rotation counts, commits and failures:

* `AloneHolds`: while a run that nobody joined is past its copy, its directory is
  the last one changed and holds what was committed before it. So rotation,
  which removes from the other end, leaves it, if it keeps any.
* `GoodHolds`: what was reported stays whole, except while a run of the same minute
  is writing over it; `ReportedIsKept` speaks of the times when no run is under
  way. It could not be inductive without the exception.

`Assistant_proofs`, for any people, settings, listings, page size and bound:

* `Invariant`: `Spec => []Inv`, of which `WalkMissesNothing` is the part that
  matters. It says something of the end of a walk; the strengthening
  (`WalkHolds`) says it all along: the rows that matched all the time, are
  before the offset and were not given (`PassedOver`) are no more than slipped.
  A row inserted moves others away from the start, one removed or moved to the
  front carries at most one across the offset, and a page gives whatever lies
  between the old offset and the new. An empty page means the offset is past
  the end, so nothing else is left. `ReadersHold`: one page at a time.
* `Permitted`: `Spec => ChangesArePermitted`. `GatesHold`: what a call has
  passed, and what is open now, was open at a moment of the call.
* `AcksKept`: `Spec => AckKept`; it needs no more than the types.

Lemmas about operators that several steps share: `RemoveAt`, `InsertAt` and
moving to the front, position by position (`RemoveAtRows`, `InsertAtRows`,
`MovedRows`, `DirRemoved`); least and greatest elements (`MinIs`, `MaxIs`); a
sequence cut at the front and extended at the end (`RowAppended` and those
after it).

The assumptions used are the named ones of the modules: CIDRs nested or
disjoint, finite sets, a listing without repeated rows, packages with the paths
without which `_verify_staged` refuses them (`PackedAssumption`), a window that the
loop cannot sleep through, bounds that are numbers, NULL no value of the kind it stands beside. TLC evaluates them on
every run.

Model-checked only:

* liveness (`EventuallyCurrent`, `EventuallyFresh`, `EventuallyTold`,
  `EventuallyIn`, `HubLearns`, `EventuallyServed`, `EventuallyAvailable`,
  `EventuallyUpdated`, `EventuallySaved`): out of TLAPS's reach.

## 6. What is left out

Wording, formatting and layout; who may call what, except where a property is
about it (Accounts, Assistant); pagination and filters outside the assistant;
the wire protocols and conversions of the plugins; the tables no rule depends
on (VLANs, sites, tags, notes); timestamps, except where a comparison with them
decides something. SQLite's own locking appears as atomic transactions and as
ticks that fail. More, by part:

* Capacity: IPv4 only; the division in `_calculate` is exact (the code's is in
  floating point and may ask for one address more); subnets are searched in
  any order.
* Accounts: tokens, hashing and sessions; a deleted account's tokens.
* ManagedMode: the lock of the settings page, `whoami`.
* Assistant: the shape of rows; the summary; the SQL of filters.
* Release: the refusal for git checkouts, the cached answer of GitHub, error
  texts; the assets and the tag of a release are read as one.
* Backups: `config.yaml`, which is copied beside the database.
* AppLog: levels, the search of the log; joining the thread with a timeout is
  covered by `Kill`.
* StoredSecrets: SNMP credentials, collectors' passwords, and the test calls of
  the integrations; which preference of a user a row also holds.

Components marked *not_modelled* in `PROJECT.json` carry their reasons there.

## 7. Plan

Left to do:

* Reconcile: an abstract specification of the address table (rows that users own,
  rows that follow the network) that ticks and edits together refine.
