------------------------------- MODULE Backups -------------------------------
(***************************************************************************)
(* Backups of the database while it is written: the scheduler's snapshots  *)
(* and the "run now" requests, their rotation, the export bundle, and what *)
(* restoring either does to a database in use.                             *)
(*                                                                         *)
(* A database is the set of the commits it holds.  SQLite in WAL mode keeps*)
(* the latest of them beside the database file until a checkpoint; whoever *)
(* reads through SQLite sees both, whoever copies the file sees the file.  *)
(***************************************************************************)
EXTENDS Integers, FiniteSets, Sequences, SequencesExt, Null

CONSTANTS
  Runners,    \* "scheduler" and the requests that run a backup
  Commits,    \* bound: the commits of one behaviour
  Minutes,    \* bound: the minutes that name the snapshots
  KeepInputs, \* backup_rotation_count an administrator may set
  MaxSteps    \* bound: failures, restarts and an administrator's steps

\* A copy of a database; sound: integrity_check would say "ok".
Copy(db, sound) == [db |-> db, sound |-> sound]
Copies == [db : SUBSET Commits, sound : BOOLEAN]

\* A backup being made.
RunType == [at : {"copy", "verify", "rotate"}, minute : Minutes, keep : Nat,
            accepted : BOOLEAN, before : SUBSET Commits, alone : BOOLEAN]

ASSUME BackupsAssumption ==
  /\ "scheduler" \in Runners
  /\ Minutes \subseteq Nat /\ Minutes # {} /\ KeepInputs \subseteq Nat
  /\ MaxSteps \in Nat
  /\ NULL \notin Copies /\ NULL \notin RunType

VARIABLES
  file,      \* what the database file holds
  wal,       \* what is committed and only in the -wal file yet
  damaged,   \* frames of another database have gone into this one
  enabled,   \* backup_enabled
  keep,      \* backup_rotation_count
  minute,    \* now
  dirs,      \* the snapshot directories, by their time of change, oldest first
  snaps,     \* minute -> the database in that directory
  runs,      \* runner -> the backup it is making
  backupDue, \* the scheduler's interval is over
  bundle,    \* the last export
  steps,     \* failures, restarts and an administrator's steps so far
  (* For stating properties only: *)
  good       \* the last snapshot a run reported as made, and what it had to hold

disk == <<file, wal, damaged>>
backupSettings == <<enabled, keep>>
backupVars == <<disk, backupSettings, minute, dirs, snaps, runs, backupDue, bundle, steps, good>>

Nothing == Copy({}, FALSE)
Content == file \cup wal
NoRuns == [r \in Runners |-> NULL]

BackupTypeOK ==
  /\ file \subseteq Commits /\ wal \subseteq Commits /\ damaged \in BOOLEAN
  /\ enabled \in BOOLEAN /\ keep \in Nat
  /\ minute \in Minutes
  /\ dirs \in Seq(Minutes) /\ IsInjective(dirs)
  /\ snaps \in [Minutes -> Copies \cup {NULL}]
  /\ \A m \in Minutes : snaps[m] = NULL <=> m \notin Range(dirs)
  /\ runs \in [Runners -> RunType \cup {NULL}]
  /\ backupDue \in BOOLEAN
  /\ bundle \in Copies \cup {NULL}
  /\ steps \in 0..MaxSteps

BackupInit ==
  /\ file = {} /\ wal = {} /\ damaged = FALSE
  /\ enabled \in BOOLEAN /\ keep \in KeepInputs
  /\ minute = CHOOSE m \in Minutes : \A n \in Minutes : m <= n
  /\ dirs = <<>> /\ snaps = [m \in Minutes |-> NULL]
  /\ runs = NoRuns /\ backupDue = TRUE /\ bundle = NULL
  /\ steps = 0 /\ good = NULL

Counted == steps < MaxSteps /\ steps' = steps + 1

-----------------------------------------------------------------------------
(* The database.                                                           *)

Commit ==
  /\ \E c \in Commits \ Content : wal' = wal \cup {c}
  /\ UNCHANGED <<file, damaged, backupSettings, minute, dirs, snaps, runs, backupDue, bundle,
                 steps, good>>

Checkpoint ==
  /\ wal # {}
  /\ file' = file \cup wal /\ wal' = {}
  /\ UNCHANGED <<damaged, backupSettings, minute, dirs, snaps, runs, backupDue, bundle, steps,
                 good>>

\* shutil.copy2 over the database file: the -wal file stays where it is and goes
\* on applying to whatever is under it.
Replaced(copy) ==
  /\ file' = copy.db /\ UNCHANGED wal
  /\ damaged' = (wal # {} \/ ~copy.sound)
  /\ runs' = [r \in Runners |->
       IF runs[r] = NULL THEN NULL ELSE [runs[r] EXCEPT !.before = {}]]

-----------------------------------------------------------------------------
(* One backup run.                                                         *)

\* The directory of minute m, which is there, is the last one changed.
Touched(m) == Append(RemoveAt(dirs, CHOOSE i \in DOMAIN dirs : dirs[i] = m), m)
IsAt(r, step) == runs[r] # NULL /\ runs[r].at = step

Begin(r) ==
  /\ runs[r] = NULL
  /\ runs' = [q \in Runners |->
       IF q = r
         THEN [at |-> "copy", minute |-> minute, keep |-> keep, accepted |-> FALSE,
               before |-> Content, alone |-> runs = NoRuns]
       ELSE IF runs[q] = NULL THEN NULL
       ELSE [runs[q] EXCEPT !.alone = FALSE]]
  /\ IF minute \in Range(dirs)
       THEN UNCHANGED <<dirs, snaps>>
       ELSE dirs' = Append(dirs, minute)
            /\ snaps' = [snaps EXCEPT ![minute] = Nothing]
  /\ UNCHANGED <<disk, backupSettings, minute, bundle, good>>

\* The scheduler's loop, when its sleep is over.
Scheduled ==
  /\ backupDue /\ backupDue' = FALSE
  /\ IF enabled THEN Begin("scheduler")
     ELSE UNCHANGED <<disk, backupSettings, minute, dirs, snaps, runs, bundle, good>>
  /\ UNCHANGED steps

\* POST /api/system/backups/run.
RunNow(r) == r # "scheduler" /\ Counted /\ Begin(r) /\ UNCHANGED backupDue

\* The run raised: its directory was rotated away under it.
Stranded(r) == runs[r].minute \notin Range(dirs)

\* Faulty: a copy of the database file.
CopiedFile == Copy(file, ~damaged)

\* The online-backup API: what is committed, from the file and the -wal file.
Copied == Copy(Content, ~damaged)

MakeCopy(r) ==
  /\ IsAt(r, "copy") /\ ~Stranded(r)
  /\ snaps' = [snaps EXCEPT ![runs[r].minute] = Copied]
  /\ dirs' = Touched(runs[r].minute)
  /\ runs' = [runs EXCEPT ![r].at = "verify"]
  /\ UNCHANGED <<disk, backupSettings, minute, backupDue, bundle, steps, good>>

\* The copy raises (the disk is full, the file is locked) and is rolled back.
CopyRaises(r) ==
  /\ IsAt(r, "copy") /\ ~Stranded(r) /\ Counted
  /\ dirs' = Touched(runs[r].minute)
  /\ runs' = [runs EXCEPT ![r] = NULL]
  /\ UNCHANGED <<disk, backupSettings, minute, snaps, backupDue, bundle, good>>

\* Faulty: the copy is accepted as it is.
IsAcceptedUnread(m) == TRUE

\* PRAGMA integrity_check.
IsAccepted(m) == snaps[m].sound

\* The directory is changed once more, by config.yaml.
Verify(r) ==
  /\ IsAt(r, "verify") /\ ~Stranded(r)
  /\ runs' = [runs EXCEPT ![r].at = "rotate", ![r].accepted = IsAccepted(runs[r].minute)]
  /\ dirs' = Touched(runs[r].minute)
  /\ UNCHANGED <<disk, backupSettings, minute, snaps, backupDue, bundle, steps, good>>

Raise(r) ==
  /\ runs[r] # NULL /\ runs[r].at # "rotate" /\ Stranded(r)
  /\ runs' = [runs EXCEPT ![r] = NULL]
  /\ UNCHANGED <<disk, backupSettings, minute, dirs, snaps, backupDue, bundle, steps, good>>

\* Faulty: the newest go first.
RotatedNewest(n) ==
  IF Len(dirs) <= n THEN dirs ELSE SubSeq(dirs, 1, n)

\* The newest n directories stay, whether what they hold was accepted or not.
Rotated(n) ==
  IF Len(dirs) <= n THEN dirs ELSE SubSeq(dirs, Len(dirs) - n + 1, Len(dirs))

Rotate(r) ==
  /\ IsAt(r, "rotate")
  /\ dirs' = Rotated(runs[r].keep)
  /\ snaps' = [m \in Minutes |-> IF m \in Range(dirs') THEN snaps[m] ELSE NULL]
  /\ good' = IF runs[r].accepted
               THEN [minute |-> runs[r].minute, before |-> runs[r].before,
                     alone |-> runs[r].alone,
                     keep |-> runs[r].keep]
               ELSE NULL
  /\ runs' = [runs EXCEPT ![r] = NULL]
  /\ UNCHANGED <<disk, backupSettings, minute, backupDue, bundle, steps>>

Run(r) == MakeCopy(r) \/ Verify(r) \/ Raise(r) \/ Rotate(r)

-----------------------------------------------------------------------------
(* The administrator, the process, time.                                   *)

SaveSettings ==
  /\ Counted
  /\ enabled' \in BOOLEAN /\ keep' \in KeepInputs
  /\ UNCHANGED <<disk, minute, dirs, snaps, runs, backupDue, bundle, good>>

\* _build_export_archive copies the file: what a checkpoint has not written, or
\* has written in part, is not in it.
Export ==
  /\ Counted
  /\ \E sound \in IF damaged THEN {FALSE} ELSE {TRUE, wal = {}} :
       bundle' = Copy(file, sound)
  /\ UNCHANGED <<disk, backupSettings, minute, dirs, snaps, runs, backupDue, good>>

\* POST /api/system/backups/restore/{name}.
Restore(m) ==
  /\ snaps[m] # NULL /\ Counted
  /\ Replaced(snaps[m])
  /\ good' = NULL
  /\ UNCHANGED <<backupSettings, minute, dirs, snaps, backupDue, bundle>>

\* POST /api/system/import.
Import ==
  /\ bundle # NULL /\ Counted
  /\ Replaced(bundle)
  /\ good' = NULL
  /\ UNCHANGED <<backupSettings, minute, dirs, snaps, backupDue, bundle>>

\* The process ends in the middle of anything, and comes back.
Restart ==
  /\ Counted
  /\ runs' = NoRuns
  /\ snaps' \in {snaps, [m \in Minutes |->
       IF \E r \in Runners : IsAt(r, "copy") /\ runs[r].minute = m /\ snaps[m] # NULL
         THEN Nothing ELSE snaps[m]]}
  /\ backupDue' = TRUE
  /\ good' = NULL
  /\ UNCHANGED <<disk, backupSettings, minute, dirs, bundle>>

MinutePasses ==
  /\ \E m \in Minutes : m = minute + 1 /\ minute' = m
  /\ UNCHANGED <<disk, backupSettings, dirs, snaps, runs, backupDue, bundle, steps, good>>

\* backup_interval_hours after the last run ended.
IntervalPasses ==
  /\ ~backupDue /\ runs["scheduler"] = NULL
  /\ backupDue' = TRUE
  /\ UNCHANGED <<disk, backupSettings, minute, dirs, snaps, runs, bundle, steps, good>>

BackupNext ==
  \/ Commit \/ Checkpoint \/ Scheduled \/ IntervalPasses \/ MinutePasses
  \/ SaveSettings \/ Export \/ Import \/ Restart
  \/ \E r \in Runners : RunNow(r) \/ Run(r) \/ CopyRaises(r)
  \/ \E m \in Minutes : Restore(m)

BackupSpec == BackupInit /\ [][BackupNext]_backupVars

\* A backup thread goes on and the scheduler's sleep ends; commits, checkpoints,
\* administrators and failures owe nothing.
BackupFairSpec ==
  /\ BackupSpec
  /\ WF_backupVars(Scheduled) /\ WF_backupVars(IntervalPasses)
  /\ \A r \in Runners : WF_backupVars(Run(r))

-----------------------------------------------------------------------------

\* A snapshot that a run reports as made, and that no other run touched meanwhile,
\* is there after its own rotation, sound, and holds every commit from before the
\* run began, those only in the -wal file included.
ReportedIsKept ==
  (good # NULL /\ good.alone /\ good.keep > 0 /\ runs = NoRuns) =>
    /\ snaps[good.minute] # NULL
    /\ snaps[good.minute].sound
    /\ good.before \subseteq snaps[good.minute].db

BackupInv == BackupTypeOK /\ ReportedIsKept

\* While backups stay on, with a rotation that keeps one at least, every commit is
\* in some snapshot sooner or later, unless a restore took it out of the database
\* or damaged it.
EventuallySaved ==
  \A c \in Commits :
    <>[](enabled /\ keep > 0 /\ c \in Content /\ ~damaged) =>
      <>[](\E m \in Minutes : snaps[m] # NULL /\ snaps[m].sound /\ c \in snaps[m].db)

-----------------------------------------------------------------------------
(* What the code's words say and it does not do.                           *)

\* system.py:373: "Download a full backup bundle".
ExportIsFull ==
  [][bundle' # bundle => bundle'.db = Content /\ (bundle'.sound <=> ~damaged)]_backupVars

\* system.py:516: "Restore directly from an on-server backup snapshot": the
\* database is the snapshot then.
RestoreIsExact ==
  [][\A m \in Minutes :
       (Restore(m) /\ snaps[m].sound) => (Content' = snaps[m].db /\ ~damaged')]_backupVars

\* backup.py:112 says of an unverified snapshot "not counting it as a usable
\* backup": the rotation counts it, and removes usable ones for it.
UsableAreKept ==
  [][\A m \in Minutes :
       (snaps[m] # NULL /\ snaps[m].sound /\ snaps'[m] = NULL) =>
         Cardinality({n \in Minutes : snaps'[n] # NULL /\ snaps'[n].sound}) > 0]_backupVars
=============================================================================
