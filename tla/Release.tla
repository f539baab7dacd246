------------------------------- MODULE Release -------------------------------
(***************************************************************************)
(* The life of one installation: pages and the update loop ask for newer   *)
(* releases, an update is downloaded, checked and swapped in path by path, *)
(* the process exits, is started again, and brings its database up to the  *)
(* release it finds -- and may be killed between any two of these steps.   *)
(*                                                                         *)
(* Only the order of releases matters, so a release is its number.         *)
(***************************************************************************)
EXTENDS Integers, Sequences, FiniteSets, StoredSecrets

CONSTANTS
  Releases,    \* bound: 1 .. the last release ever published
  Scripts,     \* release -> the statements of the migration it brings
  Packed,      \* release -> the paths its package has
  Appliers,    \* "loop", the update loop, and the administrators' requests
  Day,         \* bound: a day has the instants 0 .. Day - 1
  CheckEvery,  \* _CHECK_EVERY_SECONDS, in instants
  Windows,     \* window_start and window_end an administrator may set
  MaxMishaps   \* bound: kills, failures and an administrator's clicks

\* A statement that meets its own result again: a column stops the script
\* with the error that is taken for "done", a table with one that is not.
StatementKinds == {"column", "table", "again"}

\* A window at least as long as the loop may be away: its sleep, and the instant it
\* may be late.
IsWide(w) == (IF w[1] <= w[2] THEN w[2] - w[1] ELSE w[2] + Day - w[1]) >= CheckEvery + 1

ASSUME ReleaseAssumption ==
  /\ IsFiniteSet(Releases) /\ Releases = 1 .. Cardinality(Releases) /\ Releases # {}
  /\ DOMAIN Scripts = Releases /\ \A r \in Releases : Scripts[r] \in Seq(StatementKinds)
  /\ "loop" \in Appliers /\ Day \in Nat \ {0} /\ CheckEvery \in Nat \ {0}
  /\ Windows \subseteq (0 .. Day - 1) \X (0 .. Day - 1) /\ \E w \in Windows : IsWide(w)
  /\ MaxMishaps \in Nat

\* Swapped in this order.  frontend/dist is last.
UpdatedPaths == <<"app", "migrations", "docs", "VERSION", "requirements.txt", "dist">>
Directories == {"app", "migrations", "docs", "dist"}
Paths == {UpdatedPaths[i] : i \in DOMAIN UpdatedPaths}
Gone == 0  \* what a path holds when it is absent or not all there

\* A package is refused without these; others it may leave as they are.
Required == {"app", "VERSION", "requirements.txt", "dist"}
ASSUME PackedAssumption == \A r \in Releases : Required \subseteq Packed[r]

VARIABLES
  published,  \* the release GitHub calls the latest
  files,      \* path -> the release it is of
  phase,      \* of the process: "down", "migrate", "encrypt", "seed" or "up"
  running,    \* the release the process runs
  exiting,    \* the answer to "Update now" is out and an exit is scheduled
  mode,       \* self_update_mode
  window,     \* self_update_window_start, self_update_window_end
  tag,        \* self_update_latest_tag, and its assets
  available,  \* self_update_available
  work,       \* applier -> what it is doing
  clock,      \* the time of day
  slept,      \* how long the loop has slept
  done,       \* release -> how many statements of its script the schema holds
  recorded,   \* the scripts _migrations names
  users,      \* somebody can sign in
  statement,  \* how far the script that is running has got
  mishaps,
  (* For stating properties only: *)
  overlapped, \* two swaps have been under way at once
  begun,      \* the release of the last swap that began ...
  named,      \* ... and whether it has written VERSION
  torn        \* scripts whose process was killed when some of it had run

settings == <<mode, window, tag, available>>
secrets == <<stored, encrypted>>
schema == <<done, recorded, users, statement, torn>>
process == <<phase, running, exiting>>
swaps == <<files, overlapped, begun, named>>
vars == <<published, swaps, process, settings, work, clock, slept, schema, secrets, mishaps>>

Step(at, release, n) == [at |-> at, release |-> release, n |-> n]
Idle == Step("idle", Gone, 0)
WorkType == [at : {"idle", "asked", "apply", "fetch", "remove", "copy", "done"},
             release : Releases \cup {Gone}, n : 0 .. Len(UpdatedPaths)]

TypeOK ==
  /\ published \in Releases /\ running \in Releases \cup {Gone}
  /\ files \in [Paths -> Releases \cup {Gone}]
  /\ phase \in {"down", "migrate", "encrypt", "seed", "up"}
  /\ exiting \in BOOLEAN /\ available \in BOOLEAN /\ slept \in 0 .. CheckEvery + 1
  /\ mode \in {"manual", "auto"} /\ window \in Windows /\ clock \in 0 .. Day - 1
  /\ tag \in Releases \cup {NULL}
  /\ work \in [Appliers -> WorkType]
  /\ DOMAIN done = Releases /\ \A r \in Releases : done[r] \in 0 .. Len(Scripts[r])
  /\ recorded \subseteq Releases /\ torn \subseteq Releases
  /\ SecretsTypeOK /\ users \in BOOLEAN /\ statement \in Nat
  /\ mishaps \in 0 .. MaxMishaps
  /\ overlapped \in BOOLEAN /\ begun \in Releases \cup {Gone} /\ named \in BOOLEAN

\* The first release has just been installed, and nothing has run yet.  The
\* default window is of two hours.
Init ==
  /\ published = 1 /\ files = [p \in Paths |-> 1]
  /\ phase = "down" /\ running = Gone /\ exiting = FALSE
  /\ mode = "manual" /\ window \in {w \in Windows : IsWide(w)} /\ tag = NULL /\ available = FALSE
  /\ work = [a \in Appliers |-> Idle] /\ clock = 0 /\ slept = 0
  /\ done = [r \in Releases |-> 0] /\ recorded = {} /\ SecretsInit
  /\ users = FALSE /\ statement = 0 /\ torn = {}
  /\ mishaps = 0 /\ overlapped = FALSE /\ begun = Gone /\ named = FALSE

Up == phase = "up"
Mishap == mishaps < MaxMishaps /\ mishaps' = mishaps + 1
Continue(a, step) == work' = [work EXCEPT ![a] = step]
Swapping == {a \in Appliers : work[a].at \in {"remove", "copy"}}

-----------------------------------------------------------------------------
(* Asking GitHub *)

\* "0.0.0" when VERSION cannot be read, which is older than any release.
CurrentVersion == files["VERSION"]

\* A page, or "Update now", sends its request.  The release it will be
\* told is fixed here; the rest of check_latest comes after the answer.
Ask(a, wants) ==
  /\ Up /\ a # "loop" /\ work[a] = Idle
  /\ Mishap
  /\ Continue(a, Step("asked", published, IF wants = "apply" THEN 1 ELSE 0))
  /\ UNCHANGED <<published, swaps, process, settings, clock, slept, schema, secrets>>

\* The banner asks only while it knows of nothing newer.
AskBanner(a) == ~(available /\ tag # NULL /\ tag > CurrentVersion) /\ Ask(a, "check")

\* check_latest has its answer, or none: then nothing is available, and the
\* release named before stays named.  apply_now goes on if something is.
CheckLatest(a, answered) ==
  /\ Up /\ work[a].at = "asked"
  /\ LET release == work[a].release
         newer   == answered /\ release > CurrentVersion
     IN /\ available' = newer
        /\ tag' = IF answered THEN release ELSE tag
        /\ Continue(a, IF newer /\ work[a].n = 1 THEN Step("apply", Gone, 0) ELSE Idle)
  /\ UNCHANGED <<published, swaps, process, mode, window, clock, slept, schema, secrets, mishaps>>

\* save_config.
SaveConfig ==
  /\ Up /\ Mishap
  /\ mode' \in {"manual", "auto"} /\ window' \in Windows
  /\ UNCHANGED <<published, swaps, process, tag, available, work, clock, slept, schema, secrets>>

-----------------------------------------------------------------------------
(* Applying *)

\* Faulty: a window that passes midnight has no time in it.
InWindowOneDay(t, w) == w[1] <= t /\ t <= w[2]

\* _in_window.  A window whose ends are equal is that one instant.
InWindow(t, w) ==
  IF w[1] <= w[2] THEN w[1] <= t /\ t <= w[2] ELSE t >= w[1] \/ t <= w[2]

\* maybe_apply, when the loop's sleep is over, which starts again when it returns.
Wake ==
  /\ Up /\ slept >= CheckEvery /\ work["loop"] = Idle
  /\ slept' = 0
  /\ Continue("loop", IF mode = "auto" /\ available /\ InWindow(clock, window)
                      THEN Step("apply", Gone, 0) ELSE Idle)
  /\ UNCHANGED <<published, swaps, process, settings, clock, schema, secrets, mishaps>>

\* apply_update reads which release it applies: the stored one, which need
\* not be the one its caller was told of.
ReadAsset(a) ==
  /\ Up /\ work[a].at = "apply" /\ tag # NULL
  /\ Continue(a, Step("fetch", tag, 0))
  /\ UNCHANGED <<published, swaps, process, settings, clock, slept, schema, secrets, mishaps>>

\* Downloaded, unpacked, verified and its packages installed.
Fetch(a) ==
  /\ Up /\ work[a].at = "fetch"
  /\ Continue(a, Step("remove", work[a].release, 1))
  /\ overlapped' = (overlapped \/ Swapping # {})
  /\ begun' = work[a].release /\ named' = FALSE
  /\ UNCHANGED <<published, files, process, settings, clock, slept, schema, secrets, mishaps>>

\* Any of these failed: nothing was touched.
FetchFails(a) ==
  /\ Up /\ work[a].at = "fetch" /\ Mishap
  /\ Continue(a, Idle)
  /\ UNCHANGED <<published, swaps, process, settings, clock, slept, schema, secrets>>

\* Faulty: VERSION before what it names.
SwappedVersionFirst(n) ==
  <<"VERSION", "app", "migrations", "docs", "requirements.txt", "dist">>[n]

\* _swap_in's n-th path.
Swapped(n) == UpdatedPaths[n]

AfterPath(a) ==
  IF work[a].n = Len(UpdatedPaths) THEN [work[a] EXCEPT !.at = "done"]
  ELSE Step("remove", work[a].release, work[a].n + 1)

\* _swap_in: a path the package does not have stays as it is ...
SkipPath(a) ==
  /\ Up /\ work[a].at = "remove" /\ Swapped(work[a].n) \notin Packed[work[a].release]
  /\ Continue(a, AfterPath(a))
  /\ UNCHANGED <<published, swaps, process, settings, clock, slept, schema, secrets, mishaps>>

\* ... of the others, the old release's is deleted ...
RemovePath(a) ==
  /\ Up /\ work[a].at = "remove" /\ Swapped(work[a].n) \in Packed[work[a].release]
  /\ files' = [files EXCEPT ![Swapped(work[a].n)] = Gone]
  /\ Continue(a, [work[a] EXCEPT !.at = "copy"])
  /\ UNCHANGED <<published, overlapped, begun, named, process, settings, clock, slept,
                 schema, secrets, mishaps>>

\* ... and the new one is copied, which a directory somebody else has put
\* there in the meantime refuses.
CopyIn(a) ==
  LET path == Swapped(work[a].n)
  IN /\ Up /\ work[a].at = "copy"
     /\ path \in Directories => files[path] = Gone
     /\ files' = [files EXCEPT ![path] = work[a].release]
     /\ named' = (named \/ path = "VERSION")
     /\ Continue(a, AfterPath(a))
     /\ UNCHANGED <<published, overlapped, begun, process, settings, clock, slept, schema, secrets,
                    mishaps>>

\* The copy fails: the loop notes the error and sleeps, a request answers 502.
CopyFails(a) ==
  /\ Up /\ work[a].at = "copy"
  /\ \/ Swapped(work[a].n) \in Directories /\ files[Swapped(work[a].n)] # Gone
        /\ UNCHANGED <<mishaps, files>>
     \/ Mishap /\ files' = [files EXCEPT ![Swapped(work[a].n)] = Gone]
  /\ Continue(a, Idle)
  /\ UNCHANGED <<published, overlapped, begun, named, process, settings, clock, slept, schema, secrets>>

\* The process is gone, and with it whatever it had under way.
Stop ==
  /\ phase' = "down" /\ running' = Gone /\ exiting' = FALSE /\ slept' = 0
  /\ work' = [a \in Appliers |-> Idle]
  /\ statement' = 0

\* apply_update's last writes; the loop then exits at once, the request's
\* answer goes out first.
Applied(a) ==
  /\ Up /\ work[a].at = "done"
  /\ available' = FALSE
  /\ IF a = "loop" THEN Stop
     ELSE /\ exiting' = TRUE /\ Continue(a, Idle)
          /\ UNCHANGED <<phase, running, slept, statement>>
  /\ UNCHANGED <<published, swaps, mode, window, tag, clock, done, recorded, secrets, users,
                 torn, mishaps>>

\* restart_soon's two seconds are over, whatever else the process is doing.
Exit ==
  /\ exiting /\ Stop
  /\ UNCHANGED <<published, swaps, settings, clock, done, recorded, secrets, users, torn,
                 mishaps>>

-----------------------------------------------------------------------------
(* Starting *)

\* systemd starts the process; without its code there is nothing to start.
Boot ==
  /\ phase = "down" /\ files["app"] # Gone
  /\ phase' = "migrate" /\ running' = files["app"]
  /\ UNCHANGED <<published, swaps, exiting, settings, work, clock, slept, schema, secrets, mishaps>>

\* init_db: the scripts of the migrations directory that are not recorded, in order.
Pending == (1 .. files["migrations"]) \ recorded
Next1 == CHOOSE r \in Pending : \A s \in Pending : r <= s

\* Faulty: a script is recorded before it runs.
MayRecordAnyTime(r) == TRUE

\* A script is recorded, in a commit of its own, when it has run to its end.
MayRecord(r) == statement = Len(Scripts[r])

\* Each statement commits by itself.
RunStatement ==
  /\ phase = "migrate" /\ Pending # {}
  /\ LET r == Next1 n == statement + 1 IN
     /\ n <= Len(Scripts[r]) /\ (Scripts[r][n] = "again" \/ n > done[r])
     /\ done' = [done EXCEPT ![r] = IF n > @ THEN n ELSE @]
     /\ statement' = n
  /\ UNCHANGED <<published, swaps, process, settings, work, clock, slept, recorded, secrets, users,
                 torn, mishaps>>

RecordScript ==
  /\ phase = "migrate" /\ Pending # {} /\ MayRecord(Next1)
  /\ recorded' = recorded \cup {Next1} /\ statement' = 0
  /\ UNCHANGED <<published, swaps, process, settings, work, clock, slept, done, secrets,
                 users, torn, mishaps>>

\* "duplicate column name" means the script has run before: it is recorded,
\* and what comes after the column is not tried.
DuplicateColumn ==
  /\ phase = "migrate" /\ Pending # {}
  /\ LET r == Next1 n == statement + 1 IN
     /\ n <= Len(Scripts[r]) /\ Scripts[r][n] = "column" /\ n <= done[r]
     /\ recorded' = recorded \cup {r} /\ statement' = 0
  /\ UNCHANGED <<published, swaps, process, settings, work, clock, slept, done, secrets,
                 users, torn, mishaps>>

\* Any other error ends the start.
MigrationFails ==
  /\ phase = "migrate" /\ Pending # {}
  /\ LET r == Next1 n == statement + 1 IN
     n <= Len(Scripts[r]) /\ Scripts[r][n] = "table" /\ n <= done[r]
  /\ Stop
  /\ UNCHANGED <<published, swaps, settings, clock, done, recorded, secrets, users, torn, mishaps>>

Migrated ==
  /\ phase = "migrate" /\ Pending = {}
  /\ phase' = "encrypt"
  /\ UNCHANGED <<published, swaps, running, exiting, settings, work, clock, slept, schema, secrets, mishaps>>

\* _encrypt_legacy_api_keys, then _encrypt_legacy_suite_tokens.
EncryptNext ==
  /\ phase = "encrypt"
  /\ IF encrypted = Legacy THEN phase' = "seed" /\ UNCHANGED secrets
     ELSE /\ EncryptLegacy(IF "user_api_keys" \notin encrypted THEN "user_api_keys" ELSE "suite_tokens")
          /\ UNCHANGED phase
  /\ UNCHANGED <<published, swaps, running, exiting, settings, work, clock, slept, schema, mishaps>>

\* seed_admin; the engines and the update loop start after it, and the loop
\* does its round before its first sleep.
SeedAdmin ==
  /\ phase = "seed"
  /\ users' = TRUE /\ phase' = "up" /\ slept' = CheckEvery
  /\ UNCHANGED <<published, swaps, running, exiting, settings, work, clock, done, recorded,
                 secrets, statement, torn, mishaps>>

\* No users yet, and no password to give the first one.
SeedFails ==
  /\ phase = "seed" /\ ~users /\ Mishap
  /\ Stop
  /\ UNCHANGED <<published, swaps, settings, clock, done, recorded, secrets, users, torn>>

-----------------------------------------------------------------------------
(* The world *)

\* Somebody changes a stored credential.
ChangeSecret ==
  /\ Up /\ Mishap /\ SaveSecret
  /\ UNCHANGED <<published, swaps, process, settings, work, clock, slept, schema>>

Publish ==
  /\ published + 1 \in Releases /\ published' = published + 1
  /\ UNCHANGED <<swaps, process, settings, work, clock, slept, schema, secrets, mishaps>>

\* The host loses power, or an operator stops the service.
Kill ==
  /\ phase # "down" /\ Mishap
  /\ Stop
  /\ torn' = IF Pending # {} /\ statement \in 1 .. Len(Scripts[Next1]) - 1 THEN torn \cup {Next1} ELSE torn
  /\ UNCHANGED <<published, swaps, settings, clock, done, recorded, secrets, users>>

\* Time passes.  A loop that sleeps wakes at the end of its sleep or at the next
\* instant.
Tick ==
  LET sleeping == Up /\ work["loop"] = Idle
  IN /\ sleeping => slept <= CheckEvery
     /\ clock' = (clock + 1) % Day
     /\ slept' = IF sleeping THEN slept + 1 ELSE slept
     /\ UNCHANGED <<published, swaps, process, settings, work, schema, secrets, mishaps>>

Starting ==
  \/ Boot \/ RunStatement \/ RecordScript \/ DuplicateColumn \/ MigrationFails \/ Migrated
  \/ EncryptNext \/ SeedAdmin
Applying(a) ==
  \/ ReadAsset(a) \/ Fetch(a) \/ SkipPath(a) \/ RemovePath(a) \/ CopyIn(a) \/ Applied(a)

Next ==
  \/ Starting \/ Wake \/ Tick \/ Exit
  \/ Publish \/ Kill \/ SaveConfig \/ ChangeSecret \/ SeedFails
  \/ \E a \in Appliers :
       \/ Applying(a) \/ FetchFails(a) \/ CopyFails(a)
       \/ AskBanner(a) \/ (\E wants \in {"check", "apply"} : Ask(a, wants))
       \/ (\E answered \in BOOLEAN : CheckLatest(a, answered))

Spec == Init /\ [][Next]_vars

\* systemd restarts the process, the loop runs, and a download or a copy ends.
Fairness ==
  /\ WF_vars(Starting) /\ WF_vars(Wake) /\ WF_vars(Exit) /\ WF_vars(Tick)
  /\ \A a \in Appliers : WF_vars(Applying(a) \/ FetchFails(a) \/ CopyFails(a))

FairSpec == Spec /\ Fairness

-----------------------------------------------------------------------------
(* Properties *)

\* self_update.py:297.  A check compares releases by VERSION alone, so VERSION
\* must not name a release whose code is not there: however the last swap to
\* begin ended, if it wrote VERSION then app, migrations and docs are its own,
\* where its package has them.
VersionIsTrue ==
  named /\ ~overlapped =>
    \A p \in {"app", "migrations", "docs", "VERSION"} \cap Packed[begun] : files[p] = begun

\* database.py:54.  A recorded script is never run again, so it has to be
\* whole, except for one that lost its process half way.
RecordedIsWhole ==
  \A r \in recorded \ torn : done[r] = Len(Scripts[r])

\* main.py:90.  The process answers requests only when every credential reads
\* back as it was typed, also those an early release stored in the clear,
\* however often a start was killed on the way -- encrypted, then, and once --
\* and when somebody can sign in.
UpIsReady == Up => ReadsBack /\ users

Inv == TypeOK /\ VersionIsTrue /\ RecordedIsWhole /\ UpIsReady

\* The installation can no longer start: its code is gone, or a migration
\* meets a table of its own first try.
Broken ==
  /\ phase = "down"
  /\ \/ files["app"] = Gone
     \/ \E r \in Pending : \E n \in 1 .. done[r] : Scripts[r][n] = "table"

\* self_update.py:404.  In auto mode a release that is on offer comes to be
\* installed, whatever fails on the way and whenever the window is, if only it
\* is longer than the loop sleeps, unless the offer is withdrawn -- by a check
\* that failed, or by going back to manual -- or the installation cannot be
\* started any more.
EventuallyUpdated ==
  \A r \in Releases :
    (mode = "auto" /\ available /\ tag = r) ~>
      (files["VERSION"] >= r \/ ~available \/ mode = "manual" \/ Broken \/ ~IsWide(window))

-----------------------------------------------------------------------------
(* What the code's words say and it does not do.                           *)

\* self_update.py:3: "in 'auto' mode inside the configured window, downloads and
\* applies a newer release".  A window shorter than the loop's sleep is accepted,
\* and the loop may sleep through it every day.
AnyWindowIsMet ==
  \A r \in Releases :
    (mode = "auto" /\ available /\ tag = r) ~>
      (files["VERSION"] >= r \/ ~available \/ mode = "manual" \/ Broken)

=============================================================================
