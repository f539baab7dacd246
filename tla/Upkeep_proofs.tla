---------------------------- MODULE Upkeep_proofs ----------------------------
(***************************************************************************)
(* Proofs about what keeps an installation up, for any bounds.             *)
(* Release: VERSION names what is there, a recorded migration is whole,    *)
(* and the process answers only when every credential reads back and       *)
(* somebody can sign in.  ManagedMode: a lock starts with a heartbeat, and *)
(* no visit lifts it unless the hub was silent, or could not make itself   *)
(* heard.  AppLog: no record vanishes, is stored twice or out of order,    *)
(* and no line is sent twice.                                              *)
(* Backups: a snapshot reported as made stays, and holds what was          *)
(* committed before it.                                                    *)
(***************************************************************************)
EXTENDS Release, ManagedMode, AppLog, Backups, SequenceTheorems, FiniteSetTheorems,
        WellFoundedInduction, TLAPS

-----------------------------------------------------------------------------
(* The releases: the inductive invariant.                                  *)

\* What an applier carries along.
WorkHolds ==
  \A a \in Appliers :
    /\ work[a].at \in {"asked", "fetch", "remove", "copy", "done"} => work[a].release \in Releases
    /\ work[a].at \in {"remove", "copy"} => work[a].n \in 1 .. Len(UpdatedPaths)

\* The i-th path is of the release whose swap began last, if its package has it.
InPlace(i) == UpdatedPaths[i] \in Packed[begun] => files[UpdatedPaths[i]] = begun

\* A swap that has the paths to itself has put in place those it is past, and
\* wrote VERSION only when it was past that.
SwapHolds ==
  ~overlapped =>
    /\ \A a, b \in Swapping : a = b
    /\ \A a \in Swapping :
         /\ work[a].release = begun
         /\ \A i \in 1 .. (work[a].n - 1) : InPlace(i)
         /\ named => work[a].n > 4

\* The script that is running.
Current(r) == phase = "migrate" /\ Pending # {} /\ r = Next1

\* A script that never lost its process half way is whole, has not begun, or
\* is running for the first time.
ScriptsHold ==
  /\ phase # "migrate" \/ Pending = {} => statement = 0
  /\ \A r \in Releases : Current(r) => statement <= done[r]
  /\ \A r \in Releases \ torn :
       \/ done[r] \in {0, Len(Scripts[r])}
       \/ Current(r) /\ done[r] = statement

\* Before its one-time encryption a store may hold what was typed.
SecretsHold ==
  \A s \in Stores :
    \/ stored[s] \in {NULL, Blank, Value("secret", 1)}
    \/ s \in Legacy \ encrypted /\ stored[s] = Value("secret", 0)

PhasesHold ==
  /\ phase \in {"seed", "up"} => encrypted = Legacy
  /\ Up => users
  /\ exiting => Up

IInv ==
  TypeOK /\ WorkHolds /\ SwapHolds /\ VersionIsTrue
    /\ ScriptsHold /\ RecordedIsWhole /\ SecretsHold /\ PhasesHold

-----------------------------------------------------------------------------
(* Lemmas.                                                                 *)

LEMMA ReleasesAreNumbers ==
  /\ Cardinality(Releases) \in Nat /\ Releases = 1 .. Cardinality(Releases)
  /\ 1 \in Releases /\ Gone \notin Releases
  /\ \A r \in Releases \cup {Gone} : 1 .. r \subseteq Releases
<1>1. Cardinality(Releases) \in Nat
  BY FS_CardinalityType, ReleaseAssumption
<1> QED BY <1>1, ReleaseAssumption DEF Gone

LEMMA ScriptsTyped ==
  ASSUME NEW r \in Releases
  PROVE  Scripts[r] \in Seq(StatementKinds) /\ Len(Scripts[r]) \in Nat
BY ReleaseAssumption

\* Sets of numbers have a least element.
LEMMA LeastOf ==
  ASSUME NEW T \in SUBSET Nat, T # {}
  PROVE  \E x \in T : \A y \in T : x <= y
<1>1. PICK x \in T : \A y \in T : ~ (<<y, x>> \in OpToRel(<, Nat))
  BY NatLessThanWellFounded, WFMin
<1>2. ASSUME NEW y \in T PROVE x <= y
  <2>1. ~(y < x)
    BY <1>1 DEF OpToRel
  <2> QED BY <2>1
<1> QED BY <1>2

\* init_db takes up the least of the scripts that are not recorded.
LEMMA NextPending ==
  ASSUME TypeOK
  PROVE  /\ Pending \subseteq Releases
         /\ Pending # {} => Next1 \in Pending
<1>1. Pending \subseteq Releases
  <2>1. files["migrations"] \in Releases \cup {Gone}
    BY DEF TypeOK, Paths, UpdatedPaths
  <2> QED BY <2>1, ReleasesAreNumbers DEF Pending
<1>2. ASSUME Pending # {} PROVE Next1 \in Pending
  <2>1. Pending \subseteq Nat
    BY <1>1, ReleasesAreNumbers
  <2>2. \E r \in Pending : \A s \in Pending : r <= s
    BY <1>2, <2>1, LeastOf
  <2> QED BY <2>2, Zenon DEF Next1
<1> QED BY <1>1, <1>2

LEMMA IdleTyped == Idle \in WorkType /\ Idle.at = "idle"
BY DEF Idle, Step, WorkType, UpdatedPaths

LEMMA SixPaths ==
  /\ Len(UpdatedPaths) = 6
  /\ \A n \in 1 .. 6 : UpdatedPaths[n] \in Paths
  /\ \A m, n \in 1 .. 6 : UpdatedPaths[m] = UpdatedPaths[n] => m = n
  /\ {"app", "migrations", "docs", "VERSION"} = {UpdatedPaths[n] : n \in 1 .. 4}
  /\ {"app", "migrations", "docs", "VERSION"} \subseteq Paths
<1>1. /\ UpdatedPaths[1] = "app" /\ UpdatedPaths[2] = "migrations" /\ UpdatedPaths[3] = "docs"
      /\ UpdatedPaths[4] = "VERSION" /\ UpdatedPaths[5] = "requirements.txt"
      /\ UpdatedPaths[6] = "dist" /\ Len(UpdatedPaths) = 6 /\ DOMAIN UpdatedPaths = 1 .. 6
  BY DEF UpdatedPaths
<1>2. \A n \in Nat : n \in 1 .. 6 <=> n \in {1, 2, 3, 4, 5, 6}
  OBVIOUS
<1>3. \A n \in Nat : n \in 1 .. 4 <=> n \in {1, 2, 3, 4}
  OBVIOUS
<1>4. \A n \in 1 .. 6 : UpdatedPaths[n] \in Paths
  BY <1>1 DEF Paths
<1>5. \A m, n \in 1 .. 6 : UpdatedPaths[m] = UpdatedPaths[n] => m = n
  BY <1>1, <1>2
<1>6. {"app", "migrations", "docs", "VERSION"} = {UpdatedPaths[n] : n \in 1 .. 4}
  BY <1>1, <1>3
<1> QED BY <1>1, <1>4, <1>5, <1>6

\* An applier goes on to its next step; the others stay where they are.
LEMMA Continued ==
  ASSUME TypeOK, NEW a \in Appliers, NEW step, Continue(a, step)
  PROVE  /\ work'[a] = step
         /\ \A b \in Appliers \ {a} : work'[b] = work[b]
         /\ step \in WorkType => work' \in [Appliers -> WorkType]
BY DEF Continue, TypeOK

LEMMA SteppedTyped ==
  ASSUME NEW at \in {"idle", "asked", "apply", "fetch", "remove", "copy", "done"},
         NEW r \in Releases \cup {Gone}, NEW n \in 0 .. 6
  PROVE  /\ Step(at, r, n) \in WorkType
         /\ Step(at, r, n).at = at /\ Step(at, r, n).release = r /\ Step(at, r, n).n = n
BY SixPaths DEF Step, WorkType

\* The process is gone: nobody is swapping, and no script is running.
LEMMA Stopped ==
  ASSUME Stop
  PROVE  /\ work' \in [Appliers -> WorkType] /\ \A a \in Appliers : work'[a].at = "idle"
         /\ Swapping' = {} /\ WorkHolds'
         /\ phase' = "down" /\ running' = Gone /\ exiting' = FALSE /\ slept' = 0
         /\ statement' = 0
<1>1. work' = [a \in Appliers |-> Idle]
  BY DEF Stop
<1>2. \A a \in Appliers : work'[a].at = "idle"
  BY <1>1, IdleTyped
<1>3. Swapping' = {}
  BY <1>2 DEF Swapping
<1> QED BY <1>1, <1>2, <1>3, IdleTyped DEF WorkHolds, Stop

-----------------------------------------------------------------------------
(* Types.                                                                  *)

LEMMA SecretsStay ==
  ASSUME SecretsTypeOK, UNCHANGED secrets
  PROVE  SecretsTypeOK'
BY DEF SecretsTypeOK, secrets

LEMMA SchemaStays ==
  ASSUME TypeOK, UNCHANGED <<done, recorded, users, torn>>, statement' \in Nat
  PROVE  /\ DOMAIN done' = Releases /\ \A r \in Releases : done'[r] \in 0 .. Len(Scripts[r])
         /\ recorded' \subseteq Releases /\ torn' \subseteq Releases
         /\ users' \in BOOLEAN /\ statement' \in Nat
BY DEF TypeOK

LEMMA MishapTyped ==
  ASSUME TypeOK, Mishap
  PROVE  mishaps' \in 0 .. MaxMishaps
BY ReleaseAssumption DEF TypeOK, Mishap

LEMMA SleepTyped ==
  /\ 0 \in 0 .. CheckEvery + 1 /\ CheckEvery \in 0 .. CheckEvery + 1
  /\ \A n \in 0 .. CheckEvery + 1 : n <= CheckEvery => n + 1 \in 0 .. CheckEvery + 1
BY ReleaseAssumption

\* What the steps of an applier leave alone.
LEMMA ApplierTyped ==
  ASSUME TypeOK, work' \in [Appliers -> WorkType], files' \in [Paths -> Releases \cup {Gone}],
         phase' \in {"down", phase}, running' \in {Gone, running},
         exiting' \in BOOLEAN, available' \in BOOLEAN, slept' \in 0 .. CheckEvery + 1,
         tag' \in Releases \cup {NULL}, begun' \in Releases \cup {Gone},
         overlapped' \in BOOLEAN, named' \in BOOLEAN, statement' \in Nat,
         mishaps' \in 0 .. MaxMishaps,
         UNCHANGED <<published, mode, window, clock, done, recorded, secrets, users, torn>>
  PROVE  TypeOK'
<1>1. SecretsTypeOK'
  BY SecretsStay DEF TypeOK
<1> QED BY <1>1 DEF TypeOK

LEMMA AskTyped ==
  ASSUME IInv, NEW a \in Appliers, NEW wants \in {"check", "apply"}, Ask(a, wants)
  PROVE  TypeOK'
<1>1. TypeOK
  BY DEF IInv
<1>2. Step("asked", published, IF wants = "apply" THEN 1 ELSE 0) \in WorkType
  BY <1>1, SteppedTyped DEF TypeOK
<1>3. work' \in [Appliers -> WorkType]
  BY <1>1, <1>2, Continued DEF Ask
<1> QED BY <1>1, <1>3, ApplierTyped, MishapTyped
  DEF Ask, TypeOK, swaps, process, settings, schema, secrets

LEMMA CheckLatestTyped ==
  ASSUME IInv, NEW a \in Appliers, NEW answered \in BOOLEAN, CheckLatest(a, answered)
  PROVE  TypeOK'
<1>1. TypeOK /\ work[a].release \in Releases
  BY DEF IInv, WorkHolds, CheckLatest
<1>2. Step("apply", Gone, 0) \in WorkType
  BY SteppedTyped
<1>3. work' \in [Appliers -> WorkType]
  BY <1>1, <1>2, IdleTyped, Continued DEF CheckLatest
<1>4. available' \in BOOLEAN /\ tag' \in Releases \cup {NULL}
  BY <1>1 DEF CheckLatest, TypeOK
<1> QED BY <1>1, <1>3, <1>4, ApplierTyped
  DEF CheckLatest, TypeOK, swaps, process, schema, secrets

LEMMA WakeTyped ==
  ASSUME IInv, Wake
  PROVE  TypeOK'
<1>1. TypeOK /\ "loop" \in Appliers
  BY ReleaseAssumption DEF IInv
<1>2. Step("apply", Gone, 0) \in WorkType
  BY SteppedTyped
<1>3. work' \in [Appliers -> WorkType]
  BY <1>1, <1>2, IdleTyped, Continued DEF Wake
<1> QED BY <1>1, <1>3, SleepTyped, ApplierTyped
  DEF Wake, TypeOK, swaps, process, settings, schema, secrets

LEMMA ReadAssetTyped ==
  ASSUME IInv, NEW a \in Appliers, ReadAsset(a)
  PROVE  TypeOK'
<1>1. TypeOK /\ tag \in Releases
  BY DEF IInv, TypeOK, ReadAsset
<1>2. Step("fetch", tag, 0) \in WorkType
  BY <1>1, SteppedTyped
<1>3. work' \in [Appliers -> WorkType]
  BY <1>1, <1>2, Continued DEF ReadAsset
<1> QED BY <1>1, <1>3, ApplierTyped DEF ReadAsset, TypeOK, swaps, process, settings, schema, secrets

LEMMA FetchTyped ==
  ASSUME IInv, NEW a \in Appliers, Fetch(a) \/ FetchFails(a)
  PROVE  TypeOK'
<1>1. TypeOK /\ work[a].release \in Releases
  BY DEF IInv, WorkHolds, Fetch, FetchFails, TypeOK, WorkType
<1>2. Step("remove", work[a].release, 1) \in WorkType
  BY <1>1, SteppedTyped
<1>3. work' \in [Appliers -> WorkType]
  BY <1>1, <1>2, IdleTyped, Continued DEF Fetch, FetchFails
<1>4. CASE Fetch(a)
  BY <1>1, <1>3, <1>4, ApplierTyped DEF Fetch, TypeOK, process, settings, schema, secrets
<1>5. CASE FetchFails(a)
  BY <1>1, <1>3, <1>5, ApplierTyped, MishapTyped
  DEF FetchFails, TypeOK, swaps, process, settings, schema, secrets
<1> QED BY <1>4, <1>5

\* The path an applier is at.
LEMMA AtPath ==
  ASSUME IInv, NEW a \in Appliers, work[a].at \in {"remove", "copy"}
  PROVE  /\ work[a] \in WorkType /\ work[a].n \in 1 .. 6 /\ work[a].release \in Releases
         /\ Swapped(work[a].n) \in Paths
BY SixPaths DEF IInv, TypeOK, WorkHolds, Swapped

LEMMA SwapTyped ==
  ASSUME IInv, NEW a \in Appliers, SkipPath(a) \/ RemovePath(a) \/ CopyIn(a) \/ CopyFails(a)
  PROVE  TypeOK'
<1>1. TypeOK /\ work[a].at \in {"remove", "copy"}
  BY DEF IInv, SkipPath, RemovePath, CopyIn, CopyFails
<1>2. /\ [work[a] EXCEPT !.at = "copy"] \in WorkType
      /\ [work[a] EXCEPT !.at = "done"] \in WorkType
  BY <1>1, AtPath DEF WorkType
<1>3. AfterPath(a) \in WorkType
  <2>1. work[a].n # 6 => work[a].n + 1 \in 0 .. 6
    BY <1>1, AtPath
  <2>2. work[a].n # 6 => Step("remove", work[a].release, work[a].n + 1) \in WorkType
    BY <1>1, <2>1, AtPath, SteppedTyped
  <2> QED BY <1>2, <2>2, SixPaths DEF AfterPath
<1>4. files' \in [Paths -> Releases \cup {Gone}]
  BY <1>1, AtPath DEF SkipPath, RemovePath, CopyIn, CopyFails, TypeOK, swaps
<1>5. CASE RemovePath(a)
  <2>1. work' \in [Appliers -> WorkType]
    BY <1>1, <1>2, <1>5, Continued DEF RemovePath
  <2> QED BY <1>1, <1>4, <1>5, <2>1, ApplierTyped
      DEF RemovePath, TypeOK, process, settings, schema, secrets
<1>6. CASE CopyIn(a)
  <2>1. work' \in [Appliers -> WorkType]
    BY <1>1, <1>3, <1>6, Continued DEF CopyIn
  <2> QED BY <1>1, <1>4, <1>6, <2>1, ApplierTyped
      DEF CopyIn, TypeOK, process, settings, schema, secrets
<1>7. CASE CopyFails(a)
  <2>1. work' \in [Appliers -> WorkType]
    BY <1>1, <1>7, IdleTyped, Continued DEF CopyFails
  <2>2. mishaps' \in 0 .. MaxMishaps
    BY <1>1, <1>7, MishapTyped DEF CopyFails, TypeOK
  <2> QED BY <1>1, <1>4, <1>7, <2>1, <2>2, ApplierTyped
      DEF CopyFails, TypeOK, process, settings, schema, secrets
<1>8. CASE SkipPath(a)
  <2>1. work' \in [Appliers -> WorkType]
    BY <1>1, <1>3, <1>8, Continued DEF SkipPath
  <2> QED BY <1>1, <1>4, <1>8, <2>1, ApplierTyped
      DEF SkipPath, TypeOK, swaps, process, settings, schema, secrets
<1> QED BY <1>5, <1>6, <1>7, <1>8

LEMMA AppliedTyped ==
  ASSUME IInv, NEW a \in Appliers, Applied(a)
  PROVE  TypeOK'
<1>1. TypeOK
  BY DEF IInv
<1>2. CASE a = "loop"
  <2>1. Stop
    BY <1>2 DEF Applied
  <2>2. available' = FALSE /\ UNCHANGED <<published, swaps, mode, window, tag, clock, done,
                                          recorded, secrets, users, torn, mishaps>>
    BY DEF Applied
  <2>3. work' \in [Appliers -> WorkType] /\ phase' = "down" /\ running' = Gone
        /\ exiting' = FALSE /\ slept' = 0 /\ statement' = 0
    BY <2>1, Stopped
  <2> QED BY <1>1, <2>2, <2>3, SleepTyped, ApplierTyped DEF TypeOK, swaps
<1>3. CASE a # "loop"
  <2>1. Continue(a, Idle) /\ exiting' = TRUE /\ UNCHANGED <<phase, running, slept, statement>>
    BY <1>3 DEF Applied
  <2>2. work' \in [Appliers -> WorkType]
    BY <1>1, <2>1, IdleTyped, Continued
  <2> QED BY <1>1, <2>1, <2>2, ApplierTyped DEF Applied, TypeOK, swaps, secrets
<1> QED BY <1>2, <1>3

\* The other ways in which the process ends.
LEMMA StopTyped ==
  ASSUME IInv, Exit \/ MigrationFails \/ SeedFails \/ Kill
  PROVE  TypeOK'
<1>1. TypeOK /\ Stop /\ Pending \subseteq Releases /\ (Pending # {} => Next1 \in Releases)
  BY NextPending DEF IInv, Exit, MigrationFails, SeedFails, Kill
<1>2. /\ work' \in [Appliers -> WorkType] /\ phase' = "down" /\ running' = Gone
      /\ exiting' = FALSE /\ slept' = 0 /\ statement' = 0
  BY <1>1, Stopped
<1>3. UNCHANGED <<published, files, overlapped, begun, named, mode, window, tag, available,
                  clock, done, recorded, secrets, users>>
  BY DEF Exit, MigrationFails, SeedFails, Kill, swaps, settings
<1>4. mishaps' \in 0 .. MaxMishaps
  BY <1>1, MishapTyped DEF Exit, MigrationFails, SeedFails, Kill, TypeOK
<1>5. torn' \subseteq Releases
  BY <1>1 DEF Exit, MigrationFails, SeedFails, Kill, TypeOK
<1>6. SecretsTypeOK'
  BY <1>1, <1>3, SecretsStay DEF TypeOK
<1> QED BY <1>1, <1>2, <1>3, <1>4, <1>5, <1>6, SleepTyped DEF TypeOK

\* What migrations and seed_admin leave alone.
LEMMA StartTyped ==
  ASSUME TypeOK, phase' \in {phase, "migrate", "encrypt", "seed", "up"},
         running' \in Releases \cup {Gone}, slept' \in 0 .. CheckEvery + 1,
         recorded' \subseteq Releases, users' \in BOOLEAN, statement' \in Nat,
         DOMAIN done' = Releases, \A r \in Releases : done'[r] \in 0 .. Len(Scripts[r]),
         SecretsTypeOK',
         UNCHANGED <<published, swaps, exiting, settings, work, clock, torn, mishaps>>
  PROVE  TypeOK'
BY DEF TypeOK, swaps, settings

LEMMA MigrateTyped ==
  ASSUME IInv, Boot \/ RunStatement \/ RecordScript \/ DuplicateColumn \/ Migrated
  PROVE  TypeOK'
<1>1. TypeOK /\ (Pending # {} => Next1 \in Releases)
  BY NextPending DEF IInv
<1>2. SecretsTypeOK'
  <2>1. UNCHANGED secrets
    BY DEF Boot, RunStatement, RecordScript, DuplicateColumn, Migrated
  <2> QED BY <1>1, <2>1, SecretsStay DEF TypeOK
<1>3. CASE Boot
  <2>1. running' \in Releases \cup {Gone}
    BY <1>1, <1>3, SixPaths DEF Boot, TypeOK
  <2> QED BY <1>1, <1>2, <1>3, <2>1, StartTyped DEF Boot, TypeOK, schema
<1>4. CASE RunStatement
  <2>1. DOMAIN done' = Releases /\ \A r \in Releases : done'[r] \in 0 .. Len(Scripts[r])
    BY <1>1, <1>4, ScriptsTyped DEF RunStatement, TypeOK
  <2> QED BY <1>1, <1>2, <1>4, <2>1, StartTyped DEF RunStatement, TypeOK, process
<1>5. CASE RecordScript
  BY <1>1, <1>2, <1>5, StartTyped DEF RecordScript, TypeOK, process
<1>6. CASE DuplicateColumn
  BY <1>1, <1>2, <1>6, StartTyped DEF DuplicateColumn, TypeOK, process
<1>7. CASE Migrated
  BY <1>1, <1>2, <1>7, StartTyped DEF Migrated, TypeOK, schema
<1> QED BY <1>3, <1>4, <1>5, <1>6, <1>7

-----------------------------------------------------------------------------
(* Stored credentials.                                                     *)

LEMMA ValuesTyped ==
  Value("secret", 0) \in Values /\ Value("secret", 1) \in Values /\ Blank \in Values
BY DEF Value, Values, Blank, Texts

LEMMA EncryptedSecret ==
  Encrypt(Value("secret", 0)) = Value("secret", 1)
BY DEF Encrypt, Value

LEMMA SealedOnce ==
  ASSUME NEW text \in {"", "secret"}
  PROVE  Sealed(text) \in {Blank, Value("secret", 1)}
BY EncryptedSecret, Zenon DEF Sealed

LEMMA EncryptedOnceOnly ==
  ASSUME NEW value \in {NULL, Blank, Value("secret", 0), Value("secret", 1)}
  PROVE  EncryptedOnce(value) \in {NULL, Blank, Value("secret", 1)}
<1>1. Encrypt(Value("secret", 0)) = Value("secret", 1)
  BY EncryptedSecret
<1>2. Decrypt(Value("secret", 1)) = Value("secret", 0)
  BY DEF Decrypt, Value
<1>3. Decrypt(Value("secret", 0)) = Blank
  BY DEF Decrypt, Value
<1>4. Value("secret", 0) # Blank
  BY DEF Value, Blank
<1> QED BY <1>1, <1>2, <1>3, <1>4 DEF EncryptedOnce

LEMMA EncryptLegacyKeeps ==
  ASSUME SecretsTypeOK, SecretsHold, NEW s \in Legacy, EncryptLegacy(s)
  PROVE  /\ SecretsTypeOK' /\ SecretsHold'
         /\ encrypted \subseteq encrypted'
<1>1. s \in Stores
  BY DEF Stores
<1>2. stored'[s] \in {NULL, Blank, Value("secret", 1)}
  BY <1>1, EncryptedOnceOnly DEF EncryptLegacy, SecretsHold, SecretsTypeOK
<1>3. \A t \in Stores \ {s} : stored'[t] = stored[t]
  BY DEF EncryptLegacy, SecretsTypeOK
<1>4. SecretsHold'
  BY <1>2, <1>3 DEF EncryptLegacy, SecretsHold
<1>5. stored' \in [Stores -> Values \cup {NULL}]
  BY <1>1, <1>2, ValuesTyped DEF EncryptLegacy, SecretsTypeOK
<1> QED BY <1>4, <1>5 DEF EncryptLegacy, SecretsTypeOK

LEMMA SaveKeeps ==
  ASSUME SecretsTypeOK, SecretsHold, NEW s \in Stores, NEW value,
         value \in {stored[s], NULL, Blank, Value("secret", 1)}, Save(s, value)
  PROVE  SecretsTypeOK' /\ SecretsHold'
<1>1. stored' = [stored EXCEPT ![s] = value] /\ encrypted' = encrypted
  BY DEF Save
<1>2. stored' \in [Stores -> Values \cup {NULL}]
  BY <1>1, ValuesTyped DEF SecretsTypeOK
<1>3. SecretsHold'
  BY <1>1 DEF SecretsHold, SecretsTypeOK
<1> QED BY <1>1, <1>2, <1>3 DEF SecretsTypeOK

LEMMA SaveSecretKeeps ==
  ASSUME SecretsTypeOK, SecretsHold, SaveSecret
  PROVE  SecretsTypeOK' /\ SecretsHold' /\ encrypted' = encrypted
<1>1. {"user_api_keys", "suite_tokens", "resonance_key"} \subseteq Stores
  BY DEF Stores, Legacy
<1>2. ASSUME UNCHANGED <<stored, encrypted>>
      PROVE  SecretsTypeOK' /\ SecretsHold' /\ encrypted' = encrypted
  BY <1>2 DEF SecretsTypeOK, SecretsHold
<1>3. ASSUME NEW s \in Stores, NEW value, value \in {stored[s], NULL, Blank, Value("secret", 1)},
             Save(s, value)
      PROVE  SecretsTypeOK' /\ SecretsHold' /\ encrypted' = encrypted
  BY <1>3, SaveKeeps DEF Save
<1>4. ASSUME NEW text \in {"", "secret"},
             SetApiKey(text) \/ CreateIntegration(text) \/ UpdateIntegration(text)
      PROVE  SecretsTypeOK' /\ SecretsHold' /\ encrypted' = encrypted
  <2>1. PICK s \in Stores : \E value \in {stored[s], NULL, Sealed(text)} : Save(s, value)
    BY <1>1, <1>4, Zenon DEF SetApiKey, CreateIntegration, UpdateIntegration
  <2>2. Sealed(text) \in {Blank, Value("secret", 1)}
    BY SealedOnce
  <2> QED BY <1>3, <2>1, <2>2
<1>5. CASE SetPreference \/ UpdateIntegration(NULL) \/ DeleteIntegration
  <2>1. PICK s \in Stores : \E value \in {stored[s], NULL, Blank} : Save(s, value)
    <3>1. CASE SetPreference
      BY <1>1, <3>1 DEF SetPreference
    <3>2. CASE UpdateIntegration(NULL) \/ DeleteIntegration
      BY <1>1, <3>2 DEF UpdateIntegration, DeleteIntegration
    <3> QED BY <1>5, <3>1, <3>2
  <2> QED BY <1>3, <2>1
<1>6. ASSUME NEW text \in {Shown(stored["resonance_key"]), "", "secret"}, UpdateSettings(text)
      PROVE  SecretsTypeOK' /\ SecretsHold' /\ encrypted' = encrypted
  <2>1. text \in {"mask", "", "secret"}
    BY DEF Shown
  <2>2. CASE text = "mask"
    BY <1>2, <1>6, <2>2 DEF UpdateSettings
  <2>3. CASE text # "mask"
    <3>1. Save("resonance_key", Sealed(text))
      BY <1>6, <2>3 DEF UpdateSettings
    <3>2. Sealed(text) \in {Blank, Value("secret", 1)}
      BY <2>1, <2>3, SealedOnce
    <3> QED BY <1>1, <1>3, <3>1, <3>2
  <2> QED BY <2>2, <2>3
<1> QED BY <1>4, <1>5, <1>6 DEF SaveSecret

LEMMA SecretsUntouched ==
  ASSUME Next, ~EncryptNext, ~ChangeSecret
  PROVE  UNCHANGED secrets
<1>1. CASE Starting
  BY <1>1 DEF Starting, Boot, RunStatement, RecordScript, DuplicateColumn, MigrationFails,
     Migrated, SeedAdmin
<1>2. CASE Wake \/ Tick \/ Exit \/ Publish \/ Kill \/ SaveConfig \/ SeedFails
  BY <1>2 DEF Wake, Tick, Exit, Publish, Kill, SaveConfig, SeedFails
<1>3. CASE \E a \in Appliers : Applying(a) \/ FetchFails(a) \/ CopyFails(a)
  BY <1>3 DEF Applying, ReadAsset, Fetch, SkipPath, RemovePath, CopyIn, Applied, FetchFails, CopyFails
<1>4. CASE \E a \in Appliers : \/ AskBanner(a) \/ \E wants \in {"check", "apply"} : Ask(a, wants)
                               \/ \E answered \in BOOLEAN : CheckLatest(a, answered)
  BY <1>4 DEF AskBanner, Ask, CheckLatest
<1> QED BY <1>1, <1>2, <1>3, <1>4 DEF Next

\* _encrypt_legacy_api_keys, _encrypt_legacy_suite_tokens: one store at a time.
LEMMA EncryptNextStep ==
  ASSUME EncryptNext
  PROVE  \/ encrypted = Legacy /\ phase' = "seed" /\ UNCHANGED secrets
         \/ phase' = phase /\ \E s \in Legacy : EncryptLegacy(s)
BY DEF EncryptNext, EncryptLegacy

LEMMA SecretsKept ==
  ASSUME IInv, [Next]_vars
  PROVE  SecretsTypeOK' /\ SecretsHold'
<1>1. SecretsTypeOK /\ SecretsHold
  BY DEF IInv, TypeOK
<1>2. CASE UNCHANGED secrets
  BY <1>1, <1>2, SecretsStay DEF SecretsHold, secrets
<1>3. CASE EncryptNext
  BY <1>1, <1>2, <1>3, EncryptNextStep, EncryptLegacyKeeps
<1>4. CASE ChangeSecret
  BY <1>1, <1>4, SaveSecretKeeps DEF ChangeSecret
<1>5. CASE UNCHANGED vars
  BY <1>2, <1>5 DEF vars
<1> QED BY <1>2, <1>3, <1>4, <1>5, SecretsUntouched

-----------------------------------------------------------------------------
(* The remaining types, and what the phases promise.                       *)

LEMMA WorldTyped ==
  ASSUME IInv, SaveConfig \/ Publish \/ Tick \/ ChangeSecret
  PROVE  TypeOK'
<1>1. TypeOK
  BY DEF IInv
<1>2. SecretsTypeOK'
  <2>1. [Next]_vars
    BY DEF Next
  <2> QED BY <2>1, SecretsKept
<1>3. CASE SaveConfig
  BY <1>1, <1>2, <1>3, MishapTyped DEF SaveConfig, TypeOK, swaps, process, schema
<1>4. CASE Publish
  BY <1>1, <1>2, <1>4 DEF Publish, TypeOK, swaps, process, settings, schema
<1>5. CASE Tick
  <2>1. clock' \in 0 .. Day - 1
    BY <1>1, <1>5, ReleaseAssumption DEF Tick, TypeOK
  <2>2. slept' \in 0 .. CheckEvery + 1
    BY <1>1, <1>5, SleepTyped DEF Tick, TypeOK
  <2> QED BY <1>1, <1>2, <1>5, <2>1, <2>2 DEF Tick, TypeOK, swaps, process, settings, schema
<1>6. CASE ChangeSecret
  BY <1>1, <1>2, <1>6, MishapTyped DEF ChangeSecret, TypeOK, swaps, process, settings, schema
<1> QED BY <1>3, <1>4, <1>5, <1>6

LEMMA ReadyTyped ==
  ASSUME IInv, EncryptNext \/ SeedAdmin
  PROVE  TypeOK'
<1>1. TypeOK
  BY DEF IInv
<1>2. SecretsTypeOK'
  <2>1. [Next]_vars
    BY DEF Next, Starting
  <2> QED BY <2>1, SecretsKept
<1>3. CASE EncryptNext
  <2>1. phase' \in {phase, "seed"}
    BY <1>3, EncryptNextStep
  <2> QED BY <1>1, <1>2, <1>3, <2>1, StartTyped DEF EncryptNext, TypeOK, schema
<1>4. CASE SeedAdmin
  BY <1>1, <1>2, <1>4, SleepTyped, StartTyped DEF SeedAdmin, TypeOK
<1> QED BY <1>3, <1>4

LEMMA TypesKept ==
  ASSUME IInv, [Next]_vars
  PROVE  TypeOK'
<1>1. CASE UNCHANGED vars
  <2>1. SecretsTypeOK'
    BY SecretsKept
  <2> QED BY <1>1, <2>1 DEF IInv, TypeOK, vars, swaps, process, settings, schema
<1>2. CASE Starting
  BY <1>2, MigrateTyped, ReadyTyped, StopTyped DEF Starting
<1>3. CASE Wake \/ Tick \/ Exit \/ Publish \/ Kill \/ SaveConfig \/ ChangeSecret \/ SeedFails
  BY <1>3, WakeTyped, WorldTyped, StopTyped
<1>4. CASE \E a \in Appliers : Applying(a) \/ FetchFails(a) \/ CopyFails(a)
  BY <1>4, ReadAssetTyped, FetchTyped, SwapTyped, AppliedTyped DEF Applying
<1>5. CASE \E a \in Appliers : \/ AskBanner(a) \/ \E wants \in {"check", "apply"} : Ask(a, wants)
                               \/ \E answered \in BOOLEAN : CheckLatest(a, answered)
  BY <1>5, AskTyped, CheckLatestTyped DEF AskBanner
<1> QED BY <1>1, <1>2, <1>3, <1>4, <1>5 DEF Next

LEMMA PhasesKept ==
  ASSUME IInv, [Next]_vars
  PROVE  PhasesHold'
<1>1. PhasesHold /\ phase \in {"down", "migrate", "encrypt", "seed", "up"}
      /\ encrypted \subseteq Legacy
  BY DEF IInv, TypeOK, SecretsTypeOK
<1>2. CASE Starting
  <2>1. CASE Boot \/ RunStatement \/ RecordScript \/ DuplicateColumn \/ Migrated
    BY <1>1, <2>1 DEF Boot, RunStatement, RecordScript, DuplicateColumn, Migrated,
       PhasesHold, Up, process, schema, secrets
  <2>2. CASE EncryptNext
    <3>1. phase' \in {phase, "seed"} /\ phase = "encrypt" /\ UNCHANGED exiting
      BY <2>2, EncryptNextStep DEF EncryptNext
    <3>2. phase' = "seed" => encrypted' = Legacy
      BY <2>2, <3>1, EncryptNextStep DEF secrets
    <3> QED BY <1>1, <3>1, <3>2 DEF PhasesHold, Up
  <2>3. CASE SeedAdmin
    BY <1>1, <2>3 DEF SeedAdmin, PhasesHold, Up, secrets
  <2>4. CASE MigrationFails
    BY <2>4, Stopped DEF MigrationFails, PhasesHold, Up
  <2> QED BY <1>2, <2>1, <2>2, <2>3, <2>4 DEF Starting
<1>3. CASE Exit \/ Kill \/ SeedFails
  BY <1>3, Stopped DEF Exit, Kill, SeedFails, PhasesHold, Up
<1>4. CASE Wake \/ Tick \/ Publish \/ SaveConfig
  BY <1>1, <1>4 DEF Wake, Tick, Publish, SaveConfig, PhasesHold, Up, process, schema, secrets
<1>5. CASE ChangeSecret
  <2>1. encrypted' = encrypted
    BY <1>5, SaveSecretKeeps DEF ChangeSecret, IInv, TypeOK
  <2> QED BY <1>1, <1>5, <2>1 DEF ChangeSecret, PhasesHold, Up, process, schema
<1>6. ASSUME NEW a \in Appliers, ReadAsset(a) \/ Fetch(a) \/ SkipPath(a) \/ RemovePath(a)
                                   \/ CopyIn(a)
                                   \/ FetchFails(a) \/ CopyFails(a) \/ AskBanner(a)
                                   \/ (\E wants \in {"check", "apply"} : Ask(a, wants))
                                   \/ (\E answered \in BOOLEAN : CheckLatest(a, answered))
      PROVE  PhasesHold'
  <2>1. UNCHANGED <<phase, exiting, users, encrypted>>
    BY <1>6 DEF ReadAsset, Fetch, SkipPath, RemovePath, CopyIn, FetchFails, CopyFails, AskBanner, Ask,
       CheckLatest, process, schema, secrets
  <2> QED BY <1>1, <2>1 DEF PhasesHold, Up
<1>7. ASSUME NEW a \in Appliers, Applied(a)
      PROVE  PhasesHold'
  <2>1. UNCHANGED <<users, encrypted>> /\ Up
    BY <1>7 DEF Applied, secrets
  <2>2. CASE a = "loop"
    BY <1>7, <2>2, Stopped DEF Applied, PhasesHold, Up
  <2>3. CASE a # "loop"
    BY <1>1, <1>7, <2>1, <2>3 DEF Applied, PhasesHold, Up
  <2> QED BY <2>2, <2>3
<1>8. CASE UNCHANGED vars
  BY <1>1, <1>8 DEF PhasesHold, Up, vars, process, schema, secrets
<1> QED BY <1>2, <1>3, <1>4, <1>5, <1>6, <1>7, <1>8 DEF Next, Applying

-----------------------------------------------------------------------------
(* Updates.                                                                *)

\* Steps that begin no swap and touch no file.
LEMMA SwapAside ==
  ASSUME IInv, UNCHANGED swaps,
         \A a \in Appliers :
           work'[a].at \in {"remove", "copy"} => work'[a] = work[a]
  PROVE  SwapHolds' /\ VersionIsTrue'
<1>1. Swapping' \subseteq Swapping /\ \A a \in Swapping' : work'[a] = work[a]
  BY DEF Swapping
<1>2. UNCHANGED <<files, overlapped, begun, named>>
  BY DEF swaps
<1> QED BY <1>1, <1>2 DEF IInv, SwapHolds, InPlace, VersionIsTrue

LEMMA WorkAside ==
  ASSUME IInv,
         \A a \in Appliers : work'[a] = work[a] \/ work'[a].at \in {"idle", "apply"}
  PROVE  WorkHolds'
BY DEF IInv, WorkHolds

\* The steps of an applier, the six around files apart.
LEMMA AppliersKept ==
  ASSUME IInv, NEW a \in Appliers,
         \/ ReadAsset(a) \/ FetchFails(a) \/ Applied(a) \/ AskBanner(a)
         \/ (\E wants \in {"check", "apply"} : Ask(a, wants))
         \/ (\E answered \in BOOLEAN : CheckLatest(a, answered))
  PROVE  WorkHolds' /\ SwapHolds' /\ VersionIsTrue'
<1>1. TypeOK
  BY DEF IInv
<1>2. UNCHANGED swaps
  BY DEF ReadAsset, FetchFails, Applied, AskBanner, Ask, CheckLatest
<1>3. CASE Applied(a) /\ a = "loop"
  BY <1>2, <1>3, Stopped, SwapAside DEF Applied
<1>4. CASE ~(Applied(a) /\ a = "loop")
  <2>1. PICK step :
          /\ Continue(a, step)
          /\ \/ step.at \in {"idle", "apply"}
             \/ step.at \in {"asked", "fetch"} /\ step.release \in Releases
    <3>1. CASE ReadAsset(a)
      <4>1. tag \in Releases
        BY <1>1, <3>1 DEF ReadAsset, TypeOK
      <4> QED BY <3>1, <4>1 DEF ReadAsset, Step
    <3>2. CASE FetchFails(a) \/ (Applied(a) /\ a # "loop")
      BY <3>2, IdleTyped DEF FetchFails, Applied
    <3>3. CASE AskBanner(a) \/ \E wants \in {"check", "apply"} : Ask(a, wants)
      <4>1. published \in Releases
        BY <1>1 DEF TypeOK
      <4> QED BY <3>3, <4>1 DEF AskBanner, Ask, Step
    <3>4. CASE \E answered \in BOOLEAN : CheckLatest(a, answered)
      <4>1. Continue(a, Step("apply", Gone, 0)) \/ Continue(a, Idle)
        BY <3>4 DEF CheckLatest
      <4>2. Step("apply", Gone, 0).at = "apply"
        BY DEF Step
      <4> QED BY <4>1, <4>2, IdleTyped
    <3> QED BY <1>4, <3>1, <3>2, <3>3, <3>4
  <2>2. work'[a] = step /\ \A b \in Appliers \ {a} : work'[b] = work[b]
    BY <1>1, <2>1, Continued
  <2>3. WorkHolds'
    BY <2>1, <2>2 DEF IInv, WorkHolds
  <2>4. \A b \in Appliers : work'[b].at \in {"remove", "copy"} => work'[b] = work[b]
    BY <2>1, <2>2
  <2> QED BY <1>2, <2>3, <2>4, SwapAside
<1> QED BY <1>3, <1>4

\* A swap begins: the only one, unless another one is under way.
LEMMA FetchKept ==
  ASSUME IInv, NEW a \in Appliers, Fetch(a)
  PROVE  WorkHolds' /\ SwapHolds' /\ VersionIsTrue'
<1> DEFINE step == Step("remove", work[a].release, 1)
<1>1. TypeOK /\ work[a].release \in Releases
  BY DEF IInv, WorkHolds, Fetch
<1>2. work'[a] = step /\ \A b \in Appliers \ {a} : work'[b] = work[b]
  BY <1>1, Continued DEF Fetch
<1>3. step.at = "remove" /\ step.release = work[a].release /\ step.n = 1
  BY DEF Step
<1>4. overlapped' = (overlapped \/ Swapping # {}) /\ begun' = work[a].release /\ named' = FALSE
  BY DEF Fetch
<1> HIDE DEF step
<1>5. WorkHolds'
  BY <1>1, <1>2, <1>3, SixPaths DEF IInv, WorkHolds
<1>6. ASSUME ~overlapped' PROVE Swapping' = {a}
  BY <1>2, <1>3, <1>4, <1>6 DEF Swapping
<1>7. SwapHolds'
  BY <1>2, <1>3, <1>4, <1>6 DEF SwapHolds
<1> QED BY <1>4, <1>5, <1>7 DEF VersionIsTrue

\* What VERSION names is there when the first four paths are in place.
LEMMA InPlaceNamed ==
  ASSUME named' => \A i \in 1 .. 4 : InPlace(i)'
  PROVE  VersionIsTrue'
<1> SUFFICES ASSUME named', NEW p \in {"app", "migrations", "docs", "VERSION"} \cap Packed[begun']
             PROVE  files'[p] = begun'
  BY DEF VersionIsTrue
<1>1. PICK i \in 1 .. 4 : p = UpdatedPaths[i]
  BY SixPaths
<1> QED BY <1>1 DEF InPlace

\* A path is deleted, or could not be copied.
LEMMA RemoveKept ==
  ASSUME IInv, NEW a \in Appliers, RemovePath(a) \/ CopyFails(a)
  PROVE  WorkHolds' /\ SwapHolds' /\ VersionIsTrue'
<1> DEFINE n == work[a].n
<1>1. TypeOK /\ work[a].at \in {"remove", "copy"} /\ a \in Swapping
  BY DEF IInv, RemovePath, CopyFails, Swapping
<1>2. work[a] \in WorkType /\ n \in 1 .. 6 /\ work[a].release \in Releases
  BY <1>1, AtPath
<1>3. /\ \A b \in Appliers \ {a} : work'[b] = work[b]
      /\ \/ work'[a].at = "idle"
         \/ work'[a].at = "copy" /\ work'[a].release = work[a].release /\ work'[a].n = n
  <2>1. CASE RemovePath(a)
    BY <1>1, <1>2, <2>1, Continued DEF RemovePath, WorkType
  <2>2. CASE CopyFails(a)
    BY <1>1, <2>2, IdleTyped, Continued DEF CopyFails
  <2> QED BY <2>1, <2>2
<1>4. UNCHANGED <<overlapped, begun, named>>
  BY DEF RemovePath, CopyFails
<1>5. \A p \in Paths : p # UpdatedPaths[n] => files'[p] = files[p]
  BY <1>1 DEF RemovePath, CopyFails, Swapped, TypeOK
<1> HIDE DEF n
<1>6. WorkHolds'
  BY <1>2, <1>3, SixPaths DEF IInv, WorkHolds
<1>7. ASSUME ~overlapped PROVE SwapHolds' /\ VersionIsTrue'
  <2>1. /\ work[a].release = begun /\ \A b \in Swapping : b = a
        /\ \A i \in 1 .. (n - 1) : InPlace(i)
        /\ named => n > 4
    BY <1>1, <1>7 DEF IInv, SwapHolds, n
  <2>2. Swapping' \subseteq {a} /\ (a \in Swapping' => work'[a].n = n /\ work'[a].release = begun)
    BY <1>3, <2>1 DEF Swapping
  <2>3. \A i \in 1 .. 6 : i # n => files'[UpdatedPaths[i]] = files[UpdatedPaths[i]]
    BY <1>2, <1>5, SixPaths
  <2>4. \A i \in 1 .. (n - 1) : InPlace(i)'
    BY <1>2, <1>4, <2>1, <2>3 DEF InPlace
  <2>5. SwapHolds'
    BY <1>4, <2>1, <2>2, <2>4 DEF SwapHolds
  <2>6. named => \A i \in 1 .. 4 : InPlace(i)'
    BY <1>2, <2>1, <2>4
  <2>7. VersionIsTrue'
    BY <1>4, <2>6, InPlaceNamed
  <2> QED BY <2>5, <2>7
<1>8. CASE overlapped
  <2>1. overlapped'
    BY <1>4, <1>8
  <2> QED BY <1>6, <2>1 DEF SwapHolds, VersionIsTrue
<1> QED BY <1>6, <1>7, <1>8

\* A path is copied, or the package does not have it; the fourth one is VERSION.
LEMMA CopyKept ==
  ASSUME IInv, NEW a \in Appliers, CopyIn(a) \/ SkipPath(a)
  PROVE  WorkHolds' /\ SwapHolds' /\ VersionIsTrue'
<1> DEFINE n == work[a].n
           step == Step("remove", work[a].release, n + 1)
<1>1. TypeOK /\ work[a].at \in {"remove", "copy"} /\ a \in Swapping
  BY DEF IInv, CopyIn, SkipPath, Swapping
<1>2. work[a] \in WorkType /\ n \in 1 .. 6 /\ work[a].release \in Releases
  BY <1>1, AtPath
<1>3. /\ \A b \in Appliers \ {a} : work'[b] = work[b]
      /\ n = 6 => work'[a].at = "done" /\ work'[a].release = work[a].release
      /\ n # 6 => work'[a] = step
  <2>1. Continue(a, AfterPath(a))
    BY DEF CopyIn, SkipPath
  <2> QED BY <1>1, <1>2, <2>1, SixPaths, Continued DEF AfterPath, WorkType
<1>4. step.at = "remove" /\ step.release = work[a].release /\ step.n = n + 1
  BY DEF Step
<1>5. UNCHANGED <<overlapped, begun>> /\ (named' => named \/ UpdatedPaths[n] = "VERSION")
  <2>1. CASE CopyIn(a)
    <3>1. UNCHANGED <<overlapped, begun>> /\ named' = (named \/ UpdatedPaths[n] = "VERSION")
      BY <2>1 DEF CopyIn, Swapped
    <3> QED BY <3>1, Zenon
  <2>2. CASE SkipPath(a)
    BY <2>2 DEF SkipPath, swaps
  <2> QED BY <2>1, <2>2
<1>6. /\ \A p \in Paths : p # UpdatedPaths[n] => files'[p] = files[p]
      /\ UpdatedPaths[n] \in Packed[work[a].release] => files'[UpdatedPaths[n]] = work[a].release
  <2>1. CASE CopyIn(a)
    BY <1>1, <1>2, <2>1, SixPaths DEF CopyIn, Swapped, TypeOK
  <2>2. CASE SkipPath(a)
    BY <2>2 DEF SkipPath, Swapped, swaps
  <2> QED BY <2>1, <2>2
<1> HIDE DEF n, step
<1>7. WorkHolds'
  <2>1. n # 6 => n + 1 \in 1 .. 6
    BY <1>2
  <2> QED BY <1>2, <1>3, <1>4, <2>1, SixPaths DEF IInv, WorkHolds
<1>8. ASSUME ~overlapped PROVE SwapHolds' /\ VersionIsTrue'
  <2>1. /\ work[a].release = begun /\ \A b \in Swapping : b = a
        /\ \A i \in 1 .. (n - 1) : InPlace(i)
        /\ named => n > 4
    BY <1>1, <1>8 DEF IInv, SwapHolds, n
  <2>2. Swapping' \subseteq {a}
        /\ (a \in Swapping' => n # 6 /\ work'[a].n = n + 1 /\ work'[a].release = begun)
    BY <1>3, <1>4, <2>1 DEF Swapping
  <2>3. \A i \in 1 .. 6 : i # n => files'[UpdatedPaths[i]] = files[UpdatedPaths[i]]
    BY <1>2, <1>6, SixPaths
  <2>4. \A i \in 1 .. n : InPlace(i)'
    <3>1. begun' = begun /\ \A i \in 1 .. n : i \in 1 .. (n - 1) \/ i = n
      BY <1>2, <1>5
    <3>2. \A i \in 1 .. (n - 1) : InPlace(i)'
      BY <1>2, <2>1, <2>3, <3>1 DEF InPlace
    <3>3. UpdatedPaths[n] \in Packed[begun'] => files'[UpdatedPaths[n]] = begun'
      BY <1>6, <2>1, <3>1
    <3> QED BY <3>1, <3>2, <3>3 DEF InPlace
  <2>5. named' => n >= 4
    <3>1. UpdatedPaths[n] = "VERSION" => n = 4
      <4>1. UpdatedPaths[4] = "VERSION"
        BY DEF UpdatedPaths
      <4> QED BY <1>2, <4>1, SixPaths
    <3>2. named' => named \/ UpdatedPaths[n] = "VERSION"
      BY <1>5, Zenon
    <3> QED BY <1>2, <2>1, <3>1, <3>2
  <2>6. SwapHolds'
    <3>1. \A b \in Swapping' :
            /\ b = a /\ work'[b].release = begun
            /\ \A i \in 1 .. (work'[b].n - 1) : InPlace(i)'
            /\ named' => work'[b].n > 4
      <4> SUFFICES ASSUME NEW b \in Swapping'
                   PROVE  /\ b = a /\ work'[b].release = begun
                          /\ \A i \in 1 .. (work'[b].n - 1) : InPlace(i)'
                          /\ named' => work'[b].n > 4
        OBVIOUS
      <4>1. b = a /\ work'[b].release = begun /\ work'[b].n = n + 1
        BY <2>2
      <4>2. work'[b].n - 1 = n /\ (n >= 4 => work'[b].n > 4)
        BY <1>2, <4>1
      <4> QED BY <2>4, <2>5, <4>1, <4>2
    <3>2. begun' = begun
      BY <1>5
    <3> QED BY <3>1, <3>2 DEF SwapHolds
  <2>7. named' => \A i \in 1 .. 4 : InPlace(i)'
    BY <1>2, <2>4, <2>5
  <2>8. VersionIsTrue'
    BY <2>7, InPlaceNamed
  <2> QED BY <2>6, <2>8
<1>9. CASE overlapped
  <2>1. overlapped'
    BY <1>5, <1>9
  <2> QED BY <1>7, <2>1 DEF SwapHolds, VersionIsTrue
<1> QED BY <1>7, <1>8, <1>9

LEMMA UpdatesKept ==
  ASSUME IInv, [Next]_vars
  PROVE  WorkHolds' /\ SwapHolds' /\ VersionIsTrue'
<1>1. ASSUME NEW a \in Appliers,
             Applying(a) \/ FetchFails(a) \/ CopyFails(a) \/ AskBanner(a)
               \/ (\E wants \in {"check", "apply"} : Ask(a, wants))
               \/ (\E answered \in BOOLEAN : CheckLatest(a, answered))
      PROVE  WorkHolds' /\ SwapHolds' /\ VersionIsTrue'
  BY <1>1, AppliersKept, FetchKept, RemoveKept, CopyKept DEF Applying
<1>2. CASE MigrationFails \/ Exit \/ Kill \/ SeedFails
  <2>1. UNCHANGED swaps
    BY <1>2 DEF MigrationFails, Exit, Kill, SeedFails
  <2> QED BY <1>2, <2>1, Stopped, SwapAside DEF MigrationFails, Exit, Kill, SeedFails
<1>3. CASE Wake
  <2>1. "loop" \in Appliers /\ TypeOK /\ UNCHANGED swaps
    BY <1>3, ReleaseAssumption DEF IInv, Wake
  <2>2. Continue("loop", Step("apply", Gone, 0)) \/ Continue("loop", Idle)
    BY <1>3 DEF Wake
  <2>3. Step("apply", Gone, 0).at = "apply"
    BY DEF Step
  <2>4. /\ work'["loop"].at \in {"idle", "apply"}
        /\ \A b \in Appliers \ {"loop"} : work'[b] = work[b]
    BY <2>1, <2>2, <2>3, IdleTyped, Continued
  <2> QED BY <2>1, <2>4, SwapAside, WorkAside
<1>4. CASE \/ Boot \/ RunStatement \/ RecordScript \/ DuplicateColumn \/ Migrated \/ EncryptNext
           \/ SeedAdmin \/ Tick \/ Publish \/ SaveConfig \/ ChangeSecret \/ UNCHANGED vars
  <2>1. UNCHANGED <<swaps, work>>
    BY <1>4 DEF Boot, RunStatement, RecordScript, DuplicateColumn, Migrated, EncryptNext,
       SeedAdmin, Tick, Publish, SaveConfig, ChangeSecret, vars
  <2> QED BY <2>1, SwapAside, WorkAside
<1> QED BY <1>1, <1>2, <1>3, <1>4 DEF Next, Starting

-----------------------------------------------------------------------------
(* Migrations.                                                             *)

LEMMA AtRest ==
  ASSUME IInv, phase # "migrate"
  PROVE  /\ statement = 0
         /\ \A r \in Releases \ torn : done[r] \in {0, Len(Scripts[r])}
BY DEF IInv, ScriptsHold, Current

\* No script is running after the step, and each is whole, torn or not begun.
LEMMA ScriptsAtRest ==
  ASSUME IInv, phase' # "migrate", statement' = 0, UNCHANGED <<done, recorded>>,
         torn \subseteq torn',
         \A r \in Releases \ torn' : done[r] \in {0, Len(Scripts[r])}
  PROVE  ScriptsHold' /\ RecordedIsWhole'
<1>1. ScriptsHold'
  BY DEF ScriptsHold, Current
<1>2. RecordedIsWhole'
  BY DEF IInv, RecordedIsWhole
<1> QED BY <1>1, <1>2

LEMMA ScriptsUntouched ==
  ASSUME IInv, phase # "migrate", phase' # "migrate",
         UNCHANGED <<done, recorded, statement, torn>>
  PROVE  ScriptsHold' /\ RecordedIsWhole'
<1>1. statement' = 0 /\ \A r \in Releases \ torn' : done[r] \in {0, Len(Scripts[r])}
  BY AtRest
<1> QED BY <1>1, ScriptsAtRest

LEMMA BootScripts ==
  ASSUME IInv, Boot
  PROVE  ScriptsHold' /\ RecordedIsWhole'
<1>1. /\ statement = 0 /\ UNCHANGED <<done, recorded, statement, torn>>
      /\ \A r \in Releases \ torn : done[r] \in {0, Len(Scripts[r])}
  BY AtRest DEF Boot, schema
<1>2. \A r \in Releases : 0 <= done[r]
  BY ScriptsTyped DEF IInv, TypeOK
<1>3. ScriptsHold'
  BY <1>1, <1>2 DEF ScriptsHold
<1> QED BY <1>1, <1>3 DEF IInv, RecordedIsWhole

\* What is true of the script that is running.
LEMMA Running ==
  ASSUME IInv, phase = "migrate", Pending # {}
  PROVE  /\ Next1 \in Releases /\ Next1 \notin recorded /\ Next1 \in Pending
         /\ statement \in Nat /\ statement <= done[Next1]
         /\ done[Next1] \in 0 .. Len(Scripts[Next1]) /\ Len(Scripts[Next1]) \in Nat
         /\ Next1 \in torn \/ done[Next1] \in {0, Len(Scripts[Next1]), statement}
         /\ \A r \in Releases \ torn : r # Next1 => done[r] \in {0, Len(Scripts[r])}
<1>1. TypeOK /\ ScriptsHold
  BY DEF IInv
<1>2. Next1 \in Releases /\ Next1 \in Pending
  BY <1>1, NextPending
<1>3. Next1 \notin recorded
  BY <1>2 DEF Pending
<1>4. Current(Next1)
  BY DEF Current
<1>5. statement <= done[Next1] /\ (Next1 \in torn \/ done[Next1] \in {0, Len(Scripts[Next1]), statement})
  BY <1>1, <1>2, <1>4 DEF ScriptsHold
<1>6. \A r \in Releases \ torn : r # Next1 => done[r] \in {0, Len(Scripts[r])}
  BY <1>1 DEF ScriptsHold, Current
<1> QED BY <1>1, <1>2, <1>3, <1>5, <1>6, ScriptsTyped DEF TypeOK

\* A statement: done and the step in the script go on together, the first time.
LEMMA RunStatementScripts ==
  ASSUME IInv, RunStatement
  PROVE  ScriptsHold' /\ RecordedIsWhole'
<1> DEFINE r == Next1
           n == statement + 1
<1>1. /\ phase = "migrate" /\ Pending # {} /\ n <= Len(Scripts[r])
      /\ done' = [done EXCEPT ![r] = IF n > @ THEN n ELSE @]
      /\ statement' = n
      /\ UNCHANGED <<files, phase, recorded, torn>>
  BY DEF RunStatement, swaps, process
<1>2. /\ r \in Releases /\ r \notin recorded
      /\ statement \in Nat /\ statement <= done[r]
      /\ done[r] \in 0 .. Len(Scripts[r]) /\ Len(Scripts[r]) \in Nat
      /\ r \in torn \/ done[r] \in {0, Len(Scripts[r]), statement}
      /\ \A s \in Releases \ torn : s # r => done[s] \in {0, Len(Scripts[s])}
  BY <1>1, Running
<1>3. Pending' = Pending /\ Next1' = r
  BY <1>1 DEF Pending, Next1
<1>4. /\ done'[r] = IF n > done[r] THEN n ELSE done[r]
      /\ \A s \in Releases \ {r} : done'[s] = done[s]
  BY <1>1, <1>2 DEF IInv, TypeOK
<1>5. \A s \in Releases : Current(s)' <=> s = r
  BY <1>1, <1>3 DEF Current
<1>6. n <= done'[r] /\ (r \in torn \/ done'[r] \in {Len(Scripts[r]), n})
  BY <1>1, <1>2, <1>4
<1> HIDE DEF r, n
<1>7. ScriptsHold'
  BY <1>1, <1>2, <1>3, <1>4, <1>5, <1>6 DEF ScriptsHold
<1>8. RecordedIsWhole'
  BY <1>1, <1>2, <1>4 DEF IInv, TypeOK, RecordedIsWhole
<1> QED BY <1>7, <1>8

\* A script is recorded: at its end, or at a column it has met before, and so
\* been past its first try.
LEMMA RecordScripts ==
  ASSUME IInv, RecordScript \/ DuplicateColumn
  PROVE  ScriptsHold' /\ RecordedIsWhole'
<1> DEFINE r == Next1
<1>1. /\ phase = "migrate" /\ Pending # {}
      /\ recorded' = recorded \cup {r} /\ statement' = 0
      /\ UNCHANGED <<files, phase, done, torn>>
  BY DEF RecordScript, DuplicateColumn, swaps, process
<1>2. statement = Len(Scripts[r]) \/ (statement + 1 <= Len(Scripts[r]) /\ statement + 1 <= done[r])
  BY DEF RecordScript, DuplicateColumn, MayRecord
<1>3. /\ r \in Releases
      /\ statement \in Nat /\ statement <= done[r]
      /\ done[r] \in 0 .. Len(Scripts[r]) /\ Len(Scripts[r]) \in Nat
      /\ r \in torn \/ done[r] \in {0, Len(Scripts[r]), statement}
      /\ \A s \in Releases \ torn : s # r => done[s] \in {0, Len(Scripts[s])}
  BY <1>1, Running
<1>4. r \in torn \/ done[r] = Len(Scripts[r])
  BY <1>2, <1>3
<1> HIDE DEF r
<1>5. RecordedIsWhole'
  BY <1>1, <1>4 DEF IInv, RecordedIsWhole
<1>6. \A s \in Releases : 0 <= done[s]
  BY ScriptsTyped DEF IInv, TypeOK
<1>7. ScriptsHold'
  BY <1>1, <1>3, <1>4, <1>6 DEF ScriptsHold
<1> QED BY <1>5, <1>7

\* The start fails at a table that is there already, or the process is killed:
\* half way through a script it is torn, anywhere else it is not.
LEMMA StoppedScripts ==
  ASSUME IInv, MigrationFails \/ Kill \/ SeedFails \/ Exit
  PROVE  ScriptsHold' /\ RecordedIsWhole'
<1>1. /\ phase' = "down" /\ statement' = 0 /\ UNCHANGED <<done, recorded>>
      /\ torn \subseteq torn'
  BY Stopped DEF MigrationFails, Kill, SeedFails, Exit
<1>2. CASE phase # "migrate" \/ Pending = {}
  <2>1. \A r \in Releases \ torn : done[r] \in {0, Len(Scripts[r])}
    BY <1>2 DEF IInv, ScriptsHold, Current
  <2> QED BY <1>1, <2>1, ScriptsAtRest
<1>3. CASE phase = "migrate" /\ Pending # {}
  <2> DEFINE r == Next1
  <2>1. /\ r \in Releases /\ statement \in Nat /\ statement <= done[r]
        /\ done[r] \in 0 .. Len(Scripts[r]) /\ Len(Scripts[r]) \in Nat
        /\ r \in torn \/ done[r] \in {0, Len(Scripts[r]), statement}
        /\ \A s \in Releases \ torn : s # r => done[s] \in {0, Len(Scripts[s])}
    BY <1>3, Running
  <2>2. CASE MigrationFails
    <3>1. statement + 1 <= done[r]
      BY <2>2 DEF MigrationFails
    <3>2. r \in torn \/ done[r] \in {0, Len(Scripts[r])}
      BY <2>1, <3>1
    <3> HIDE DEF r
    <3> QED BY <1>1, <2>1, <3>2, ScriptsAtRest
  <2>3. CASE Kill
    <3>1. statement \in 1 .. Len(Scripts[r]) - 1 => r \in torn'
      BY <1>3, <2>3 DEF Kill
    <3>2. statement \in 1 .. Len(Scripts[r]) - 1 \/ statement \in {0, Len(Scripts[r])}
      BY <2>1
    <3> HIDE DEF r
    <3>3. \A s \in Releases \ torn' : done[s] \in {0, Len(Scripts[s])}
      BY <1>1, <2>1, <3>1, <3>2
    <3> QED BY <1>1, <3>3, ScriptsAtRest
  <2>4. CASE SeedFails \/ Exit
    BY <1>3, <2>4 DEF SeedFails, Exit, IInv, PhasesHold, Up
  <2> QED BY <2>2, <2>3, <2>4
<1> QED BY <1>2, <1>3

LEMMA ScriptsKept ==
  ASSUME IInv, [Next]_vars
  PROVE  ScriptsHold' /\ RecordedIsWhole'
<1>1. CASE Starting
  <2>1. CASE Migrated
    <3>1. /\ Pending = {} /\ phase' = "encrypt" /\ UNCHANGED <<done, recorded, statement, torn>>
      BY <2>1 DEF Migrated, schema
    <3>2. statement = 0 /\ \A r \in Releases \ torn : done[r] \in {0, Len(Scripts[r])}
      BY <3>1 DEF IInv, ScriptsHold, Current
    <3> QED BY <3>1, <3>2, ScriptsAtRest
  <2>2. CASE EncryptNext \/ SeedAdmin
    <3>1. phase # "migrate" /\ phase' # "migrate" /\ UNCHANGED <<done, recorded, statement, torn>>
      BY <2>2, EncryptNextStep DEF EncryptNext, SeedAdmin, schema
    <3> QED BY <3>1, ScriptsUntouched
  <2> QED BY <1>1, <2>1, <2>2, BootScripts, RunStatementScripts, RecordScripts, StoppedScripts
      DEF Starting
<1>2. CASE Exit \/ Kill \/ SeedFails
  BY <1>2, StoppedScripts
<1>3. CASE Wake \/ SaveConfig \/ ChangeSecret
  <2>1. phase # "migrate" /\ UNCHANGED <<phase, done, recorded, statement, torn>>
    BY <1>3 DEF Wake, SaveConfig, ChangeSecret, Up, process, schema
  <2> QED BY <2>1, ScriptsUntouched
<1>4. CASE Tick \/ Publish \/ UNCHANGED vars
  <2>1. UNCHANGED <<files, phase, done, recorded, statement, torn>>
    BY <1>4 DEF Tick, Publish, vars, swaps, process, schema
  <2>2. Pending' = Pending /\ Next1' = Next1
    BY <2>1 DEF Pending, Next1
  <2> QED BY <2>1, <2>2 DEF IInv, ScriptsHold, RecordedIsWhole, Current
<1>5. ASSUME NEW a \in Appliers,
             Applying(a) \/ FetchFails(a) \/ CopyFails(a) \/ AskBanner(a)
               \/ (\E wants \in {"check", "apply"} : Ask(a, wants))
               \/ (\E answered \in BOOLEAN : CheckLatest(a, answered))
      PROVE  ScriptsHold' /\ RecordedIsWhole'
  <2>1. phase = "up" /\ UNCHANGED <<done, recorded, torn>>
    BY <1>5 DEF Applying, ReadAsset, Fetch, SkipPath, RemovePath, CopyIn, Applied, FetchFails, CopyFails,
       AskBanner, Ask, CheckLatest, Up, schema
  <2>2. phase' \in {"up", "down"} /\ statement' \in {0, statement}
    <3>1. CASE Applied(a)
      BY <2>1, <3>1, Stopped DEF Applied
    <3>2. CASE ~Applied(a)
      BY <1>5, <2>1, <3>2 DEF Applying, ReadAsset, Fetch, SkipPath, RemovePath, CopyIn, FetchFails,
                              CopyFails, AskBanner, Ask, CheckLatest, process, schema
    <3> QED BY <3>1, <3>2
  <2>3. statement' = 0 /\ \A r \in Releases \ torn : done[r] \in {0, Len(Scripts[r])}
    BY <2>1, <2>2, AtRest
  <2> QED BY <2>1, <2>2, <2>3, ScriptsAtRest
<1> QED BY <1>1, <1>2, <1>3, <1>4, <1>5 DEF Next

-----------------------------------------------------------------------------
(* The invariant holds at first, and every step keeps it.                  *)

LEMMA InitHolds == Init => IInv
<1> SUFFICES ASSUME Init PROVE IInv
  OBVIOUS
<1>1. 1 \in Releases
  BY ReleasesAreNumbers
<1>2. \A a \in Appliers : work[a] = Idle /\ work[a].at = "idle"
  BY IdleTyped DEF Init
<1>3. \A r \in Releases : done[r] = 0 /\ 0 \in 0 .. Len(Scripts[r])
  BY ScriptsTyped DEF Init
<1>4. SecretsTypeOK /\ SecretsHold
  <2>1. \A s \in Legacy : InitStored[s] \in {NULL, Blank, Value("secret", 0), Value("secret", 1)}
    BY StoredAssumption
  <2>2. stored = [s \in Stores |-> IF s \in Legacy THEN InitStored[s] ELSE NULL] /\ encrypted = {}
    BY DEF Init, SecretsInit
  <2> QED BY <2>1, <2>2, ValuesTyped DEF SecretsTypeOK, SecretsHold
<1>5. TypeOK
  <2>1. 0 \in 0 .. Day - 1 /\ 0 \in 0 .. MaxMishaps /\ 0 \in 0 .. CheckEvery + 1
    BY ReleaseAssumption
  <2>2. work \in [Appliers -> WorkType]
    BY IdleTyped DEF Init
  <2> QED BY <1>1, <1>3, <1>4, <2>1, <2>2 DEF Init, TypeOK
<1>6. WorkHolds /\ Swapping = {}
  BY <1>2 DEF WorkHolds, Swapping
<1>7. SwapHolds /\ VersionIsTrue
  BY <1>6 DEF Init, SwapHolds, VersionIsTrue
<1>8. ScriptsHold /\ RecordedIsWhole
  BY <1>3 DEF Init, ScriptsHold, RecordedIsWhole, Current
<1>9. PhasesHold
  BY DEF Init, PhasesHold, Up
<1> QED BY <1>4, <1>5, <1>6, <1>7, <1>8, <1>9 DEF IInv

LEMMA StepKeeps == IInv /\ [Next]_vars => IInv'
BY TypesKept, UpdatesKept, ScriptsKept, SecretsKept, PhasesKept DEF IInv

\* When every legacy store has been encrypted, every credential reads back.
LEMMA EncryptedReadsBack ==
  ASSUME SecretsHold, encrypted = Legacy
  PROVE  ReadsBack
<1>1. Decrypt(Value("secret", 1)) = Value("secret", 0)
  BY DEF Decrypt, Value
<1> QED BY <1>1 DEF SecretsHold, ReadsBack, ReadSecret

\* app/self_update.py:297, app/database.py:54, app/main.py:90: however often the
\* process is killed, a swap fails or two of them meet, VERSION names the
\* release that is there, a migration that will not be run again is whole, and
\* requests are answered only when every credential reads back and somebody can
\* sign in.
THEOREM Invariant == Spec => []Inv
<1>1. IInv => Inv
  <2>1. ASSUME IInv, Up PROVE ReadsBack /\ users
    BY <2>1, EncryptedReadsBack DEF IInv, PhasesHold, Up
  <2> QED BY <2>1 DEF IInv, Inv, UpIsReady
<1> QED BY <1>1, InitHolds, StepKeeps, PTL DEF Spec

-----------------------------------------------------------------------------
(* The lock: the inductive invariant.                                      *)

\* The stored heartbeat is as old as the hub's last call, unless a call since
\* could not store its own.
BeatIsContact == beat # NULL /\ ~missed => beat = contact

\* There is a heartbeat from the first lock on, and it is no older than the lock.
BeatIsFresh == IF beat = NULL THEN lockAge = MaxAge + 1 ELSE beat <= lockAge

\* What a visit was a witness to is at least as much as what is the case now.
Witnessed(v) ==
  /\ contact <= witness[v].quiet /\ Since(beat) <= witness[v].stale
  /\ missed => witness[v].missed

\* What the visit read has aged no faster than the stored heartbeat and the visit
\* together, than the hub's silence and the visit, and than the lock -- but for a
\* heartbeat that was missed, and for a lock set since.
SeenFits(v) ==
  /\ visit[v].seen # NULL
  /\ visit[v].seen <= witness[v].stale + visit[v].took
  /\ witness[v].missed \/ visit[v].seen <= witness[v].quiet + visit[v].took
  /\ witness[v].relocked \/ visit[v].seen <= lockAge

\* A visit that found the lock on finds a heartbeat.
VisitsKnow ==
  \A v \in Visitors :
    /\ visit[v].at \in {"beat", "judge", "release"} => Witnessed(v)
    /\ At(v, "beat") => beat # NULL
    /\ visit[v].at \in {"judge", "release"} => SeenFits(v)
    /\ At(v, "release") => visit[v].seen > MaxAge

\* Every token and every request that generates one had its edit.
TokensCounted == tokens + generating <= edits + 1 /\ generating <= edits

HeartTyped ==
  /\ beat \in Ages \cup {NULL} /\ contact \in Ages /\ missed \in BOOLEAN /\ lockAge \in Ages
  /\ witness \in [Visitors -> Witness]

\* What is said of heartbeats.
HeartHolds == HeartTyped /\ LockStartsFresh /\ BeatIsContact /\ BeatIsFresh /\ VisitsKnow

LockIInv == LockTypeOK /\ HeartHolds /\ TokensCounted

-----------------------------------------------------------------------------
(* Lemmas about ages and visits.                                           *)

LEMMA AgesTyped ==
  /\ 0 \in Ages /\ MaxAge + 1 \in Ages /\ NULL \notin Ages /\ Ages \subseteq Nat
  /\ MaxAge \in Nat /\ \A a \in Ages : 0 <= a /\ a <= MaxAge + 1
  BY ManagedModeAssumption DEF Ages

LEMMA OlderTyped ==
  /\ Older(NULL) = NULL
  /\ \A a \in Ages : /\ Older(a) \in Ages /\ a <= Older(a) /\ Older(a) <= a + 1
                     /\ \A b \in Ages : a <= b => Older(a) <= Older(b)
  /\ Older(MaxAge + 1) = MaxAge + 1
  BY ManagedModeAssumption DEF Older, Ages

LEMMA SinceTyped ==
  /\ \A b \in Ages \cup {NULL} : Since(b) \in Ages
  /\ \A b \in Ages : Since(b) = b
  BY AgesTyped DEF Since

LEMMA LongerTyped ==
  ASSUME NEW a \in Ages, NEW b \in Ages
  PROVE  Longer(a, b) \in Ages /\ a <= Longer(a, b) /\ b <= Longer(a, b)
  BY AgesTyped DEF Longer, Ages

LEMMA OutTyped == Out \in Visit
  BY ManagedModeAssumption DEF Out, Visit, Steps

LEMMA UnseenTyped == Unseen \in Witness
  BY AgesTyped DEF Unseen, Witness

LEMMA GotoTyped ==
  ASSUME LockTypeOK, NEW v \in Visitors, NEW step \in Steps, Goto(v, step)
  PROVE  /\ visit' \in [Visitors -> Visit]
         /\ visit'[v].at = step /\ visit'[v].seen = visit[v].seen
         /\ visit'[v].took = visit[v].took
         /\ \A w \in Visitors \ {v} : visit'[w] = visit[w]
<1>. DEFINE row == [visit[v] EXCEPT !.at = step]
<1>1. visit[v] \in Visit
  BY DEF LockTypeOK
<1>2. row \in Visit /\ row.at = step /\ row.seen = visit[v].seen /\ row.took = visit[v].took
  BY <1>1 DEF Visit
<1>3. visit' = [visit EXCEPT ![v] = row]
  BY <1>1 DEF Goto, LockTypeOK, Visit
<1>. HIDE DEF row
<1>. QED
  BY <1>2, <1>3 DEF LockTypeOK

LEMMA EditTyped ==
  ASSUME LockTypeOK, Edit
  PROVE  edits' \in 0..MaxEdits /\ edits' = edits + 1
  BY ManagedModeAssumption DEF LockTypeOK, Edit

-----------------------------------------------------------------------------
(* The invariant holds at first, and every step keeps it.                  *)

LEMMA LockInitInv == LockInit => LockIInv
<1>. SUFFICES ASSUME LockInit PROVE LockIInv
  OBVIOUS
<1>1. HeartTyped
  <2>1. witness \in [Visitors -> Witness]
    BY UnseenTyped DEF LockInit
  <2>. QED
    BY <2>1, AgesTyped DEF LockInit, HeartTyped
<1>2. LockTypeOK
  <2>1. 0 \in 0..MaxEdits /\ tokens \in 0..(MaxEdits + 1) /\ tokens \in 0..tokens
    BY ManagedModeAssumption DEF LockInit
  <2>. QED
    BY <1>1, <2>1, OutTyped DEF LockInit, LockTypeOK, HeartTyped
<1>3. VisitsKnow
  <2>1. \A v \in Visitors : visit[v].at = "out"
    BY DEF LockInit, Out
  <2>. QED
    BY <2>1 DEF VisitsKnow, At
<1>4. LockStartsFresh /\ BeatIsContact /\ BeatIsFresh
  BY DEF LockInit, LockStartsFresh, BeatIsContact, BeatIsFresh
<1>5. TokensCounted
  BY DEF LockInit, TokensCounted
<1>. QED
  BY <1>1, <1>2, <1>3, <1>4, <1>5 DEF LockIInv, HeartHolds

\* Steps that neither call nor lock, and leave the visits alone.
LEMMA HeartLeft ==
  ASSUME HeartHolds, UNCHANGED <<visit, beat, contact, missed, lockAge, witness>>,
         locked' => locked
  PROVE  HeartHolds'
<1>1. HeartTyped' /\ LockStartsFresh' /\ BeatIsContact' /\ BeatIsFresh'
  BY DEF HeartHolds, HeartTyped, LockStartsFresh, BeatIsContact, BeatIsFresh
<1>2. VisitsKnow'
  BY DEF HeartHolds, VisitsKnow, Witnessed, SeenFits, At
<1>. QED
  BY <1>1, <1>2 DEF HeartHolds

\* A call, whose heartbeat is stored.
LEMMA HeartBeats ==
  ASSUME HeartHolds, Heartbeat, UNCHANGED <<visit, locked, lockAge, witness>>
  PROVE  HeartHolds'
<1>1. HeartTyped' /\ LockStartsFresh' /\ BeatIsContact' /\ BeatIsFresh'
  BY AgesTyped DEF Heartbeat, HeartHolds, HeartTyped, LockStartsFresh, BeatIsContact, BeatIsFresh
<1>2. ASSUME NEW v \in Visitors PROVE Witnessed(v)'
  <2>1. witness[v].quiet \in Ages /\ witness[v].stale \in Ages
    BY DEF HeartHolds, HeartTyped, Witness
  <2>2. contact' = 0 /\ Since(beat') = 0 /\ ~missed'
    BY AgesTyped DEF Heartbeat, Since
  <2>. QED
    BY <2>1, <2>2, AgesTyped DEF Witnessed
<1>3. beat' # NULL
  BY AgesTyped DEF Heartbeat
<1>4. VisitsKnow'
  BY <1>2, <1>3 DEF HeartHolds, VisitsKnow, SeenFits, At
<1>. QED
  BY <1>1, <1>4 DEF HeartHolds

\* A call, whose heartbeat is not.
LEMMA HeartMisses ==
  ASSUME LockTypeOK, HeartHolds, HeartbeatFails, UNCHANGED <<visit, locked, lockAge>>
  PROVE  HeartHolds'
<1>1. ASSUME NEW v \in Visitors
      PROVE  /\ witness'[v] \in Witness
             /\ witness'[v].quiet = witness[v].quiet /\ witness'[v].stale = witness[v].stale
             /\ witness'[v].relocked = witness[v].relocked
             /\ ~At(v, "out") => witness'[v].missed
  <2>1. witness[v] \in Witness
    BY DEF HeartHolds, HeartTyped
  <2>2. witness'[v] = IF At(v, "out") THEN witness[v] ELSE [witness[v] EXCEPT !.missed = TRUE]
    BY DEF HeartbeatFails
  <2>. QED
    BY <2>1, <2>2 DEF Witness
<1>2. HeartTyped' /\ LockStartsFresh' /\ BeatIsContact' /\ BeatIsFresh'
  <2>1. witness' \in [Visitors -> Witness]
    BY <1>1 DEF HeartbeatFails
  <2>. QED
    BY <2>1, AgesTyped DEF HeartbeatFails, HeartHolds, HeartTyped, LockStartsFresh, BeatIsContact,
       BeatIsFresh
<1>3. ASSUME NEW v \in Visitors, visit[v].at \in {"beat", "judge", "release"}
      PROVE  Witnessed(v)'
  <2>1. ~At(v, "out") /\ witness[v].quiet \in Ages /\ contact' = 0 /\ beat' = beat
    BY <1>3 DEF At, HeartbeatFails, HeartHolds, HeartTyped, Witness
  <2>. QED
    BY <1>1, <1>3, <2>1, AgesTyped DEF HeartHolds, VisitsKnow, Witnessed
<1>4. ASSUME NEW v \in Visitors, visit[v].at \in {"judge", "release"}
      PROVE  SeenFits(v)'
  <2>1. ~At(v, "out")
    BY <1>4 DEF At
  <2>. QED
    BY <1>1, <1>4, <2>1 DEF HeartHolds, VisitsKnow, SeenFits
<1>5. VisitsKnow'
  BY <1>3, <1>4 DEF HeartHolds, VisitsKnow, At, HeartbeatFails
<1>. QED
  BY <1>2, <1>5 DEF HeartHolds

\* The hub's command, with its heartbeat.
LEMMA HeartLocks ==
  ASSUME LockTypeOK, HeartHolds, NEW lock \in BOOLEAN, Set(lock), Heartbeat, UNCHANGED visit
  PROVE  HeartHolds'
<1>1. ASSUME NEW v \in Visitors
      PROVE  /\ witness'[v] \in Witness
             /\ witness'[v].quiet = witness[v].quiet /\ witness'[v].stale = witness[v].stale
             /\ witness'[v].missed = witness[v].missed
             /\ witness[v].relocked => witness'[v].relocked
             /\ lock /\ visit[v].at \in {"judge", "release"} => witness'[v].relocked
  <2>1. witness[v] \in Witness
    BY DEF HeartHolds, HeartTyped
  <2>2. witness'[v] = IF lock /\ visit[v].at \in {"judge", "release"}
                      THEN [witness[v] EXCEPT !.relocked = TRUE] ELSE witness[v]
    BY DEF Set
  <2>. QED
    BY <2>1, <2>2 DEF Witness
<1>2. lockAge' \in Ages /\ lockAge' \in {0, lockAge} /\ (~lock => lockAge' = lockAge)
  BY AgesTyped DEF Set, HeartHolds, HeartTyped
<1>3. HeartTyped' /\ LockStartsFresh' /\ BeatIsContact' /\ BeatIsFresh'
  <2>1. witness' \in [Visitors -> Witness]
    BY <1>1 DEF Set
  <2>. QED
    BY <1>2, <2>1, AgesTyped DEF Heartbeat, HeartTyped, LockStartsFresh, BeatIsContact, BeatIsFresh
<1>4. ASSUME NEW v \in Visitors PROVE Witnessed(v)'
  <2>1. witness[v].quiet \in Ages /\ witness[v].stale \in Ages
    BY DEF HeartHolds, HeartTyped, Witness
  <2>2. contact' = 0 /\ Since(beat') = 0 /\ ~missed'
    BY AgesTyped DEF Heartbeat, Since
  <2>. QED
    BY <1>1, <2>1, <2>2, AgesTyped DEF Witnessed
<1>5. ASSUME NEW v \in Visitors, visit[v].at \in {"judge", "release"}
      PROVE  SeenFits(v)'
  <2>1. SeenFits(v)
    BY <1>5 DEF HeartHolds, VisitsKnow
  <2>. QED
    BY <1>1, <1>2, <1>5, <2>1 DEF SeenFits
<1>6. beat' # NULL
  BY AgesTyped DEF Heartbeat
<1>7. VisitsKnow'
  BY <1>4, <1>5, <1>6 DEF HeartHolds, VisitsKnow, At
<1>. QED
  BY <1>3, <1>7 DEF HeartHolds

\* What the types say of the rest.
LockRestTyped ==
  /\ locked \in BOOLEAN /\ url \in BOOLEAN
  /\ token \in 0..tokens /\ tokens \in 0..(MaxEdits + 1) /\ generating \in 0..MaxEdits
  /\ hub \in [up : BOOLEAN, token : 0..tokens, managed : BOOLEAN]
  /\ poll \in [locked : BOOLEAN, trusted : BOOLEAN] \cup {NULL}
  /\ command \in [lock : BOOLEAN, url : BOOLEAN, trusted : BOOLEAN, done : BOOLEAN]
                   \cup {NULL}
  /\ visit \in [Visitors -> Visit]
  /\ edits \in 0..MaxEdits

LEMMA LockTypesSplit == LockTypeOK <=> LockRestTyped /\ HeartTyped
BY DEF LockTypeOK, LockRestTyped, HeartTyped

LEMMA LockKept ==
  ASSUME LockRestTyped', HeartTyped', LockStartsFresh', BeatIsContact', BeatIsFresh', VisitsKnow',
         TokensCounted'
  PROVE  LockIInv'
BY DEF LockTypeOK, LockRestTyped, HeartTyped, HeartHolds, LockIInv

LEMMA LockEditsCounted ==
  ASSUME LockIInv, UNCHANGED <<tokens, generating>>, UNCHANGED edits \/ Edit
  PROVE  edits' \in 0..MaxEdits /\ TokensCounted'
<1>1. edits \in Nat /\ tokens \in Nat /\ generating \in Nat
  BY ManagedModeAssumption DEF LockIInv, LockTypeOK
<1>2. edits' \in 0..MaxEdits /\ edits' \in {edits, edits + 1}
  BY EditTyped DEF LockIInv, LockTypeOK
<1>3. tokens + generating <= edits + 1 /\ generating <= edits
  BY DEF LockIInv, TokensCounted
<1>4. tokens + generating <= edits + 2 /\ generating <= edits + 1
  BY <1>1, <1>3
<1>5. CASE edits' = edits
  BY <1>2, <1>3, <1>5 DEF TokensCounted
<1>6. CASE edits' = edits + 1
  BY <1>1, <1>2, <1>4, <1>6 DEF TokensCounted
<1>. QED
  BY <1>2, <1>5, <1>6

\* The steps of one visit.
LEMMA VisitStep ==
  ASSUME LockIInv, NEW v \in Visitors, Visiting(v) \/ VisitFail(v)
  PROVE  LockIInv'
<1>0. /\ visit[v] \in Visit /\ contact \in Ages /\ witness[v] \in Witness
      /\ beat \in Ages \cup {NULL} /\ missed \in BOOLEAN /\ lockAge \in Ages
      /\ LockTypeOK /\ HeartHolds /\ LockRestTyped
  BY LockTypesSplit DEF LockIInv, LockTypeOK
<1>1. CASE VisitLock(v)
  <2>1. /\ Goto(v, IF locked THEN "beat" ELSE "served")
        /\ witness' = [witness EXCEPT ![v] = [quiet |-> contact, stale |-> Since(beat),
                                              missed |-> missed, relocked |-> FALSE]]
        /\ UNCHANGED <<locked, beat, url, token, tokens, generating, hub, poll, command,
                       edits, contact, missed, lockAge>>
    BY <1>1 DEF VisitLock, lockSettings
  <2>2. PICK step \in Steps : Goto(v, step) /\ (step = "beat" => locked)
                              /\ step \in {"beat", "served"}
    BY <2>1 DEF Steps
  <2>3. /\ witness'[v] \in Witness
        /\ witness'[v].quiet = contact /\ witness'[v].stale = Since(beat)
        /\ witness'[v].missed = missed
        /\ \A w \in Visitors \ {v} : witness'[w] = witness[w]
        /\ witness' \in [Visitors -> Witness]
    BY <1>0, <2>1, SinceTyped DEF Witness, HeartHolds, HeartTyped
  <2>4. LockRestTyped'
    BY <1>0, <2>1, <2>2, GotoTyped DEF LockRestTyped
  <2>5. HeartTyped' /\ LockStartsFresh' /\ BeatIsContact' /\ BeatIsFresh'
    BY <2>1, <2>3 DEF LockIInv, HeartHolds, HeartTyped, LockStartsFresh, BeatIsContact, BeatIsFresh
  <2>6. VisitsKnow'
    <3>1. /\ visit'[v].at = step /\ \A w \in Visitors \ {v} : visit'[w] = visit[w]
      BY <1>0, <2>2, GotoTyped
    <3>2. step = "beat" => beat # NULL
      BY <1>0, <2>2 DEF HeartHolds, LockStartsFresh
    <3>3. Witnessed(v)'
      <4>1. contact \in Nat /\ Since(beat) \in Nat
        BY <1>0, AgesTyped, SinceTyped
      <4>2. contact' = contact /\ Since(beat') = Since(beat) /\ missed' = missed
        BY <2>1
      <4>. QED
        BY <2>3, <4>1, <4>2 DEF Witnessed
    <3>4. ASSUME NEW w \in Visitors \ {v}
          PROVE  /\ Witnessed(w) => Witnessed(w)'
                 /\ SeenFits(w) => SeenFits(w)'
      BY <2>1, <2>3, <3>1 DEF Witnessed, SeenFits
    <3>. QED
      BY <1>0, <2>1, <2>2, <3>1, <3>2, <3>3, <3>4 DEF HeartHolds, VisitsKnow, At
  <2>. QED
    BY <2>1, <2>4, <2>5, <2>6, LockKept DEF LockIInv, TokensCounted
<1>2. CASE VisitBeat(v)
  <2>. DEFINE row == [visit[v] EXCEPT !.at = "judge", !.seen = beat]
  <2>1. /\ At(v, "beat")
        /\ visit' = [visit EXCEPT ![v].at = "judge", ![v].seen = beat]
        /\ UNCHANGED <<locked, beat, url, token, tokens, generating, hub, poll, command,
                       edits, contact, missed, lockAge, witness>>
    BY <1>2 DEF VisitBeat, lockSettings, ghost
  <2>2. visit' = [visit EXCEPT ![v] = row]
    BY <1>0, <2>1 DEF LockRestTyped, Visit
  <2>3. row \in Visit /\ row.at = "judge" /\ row.seen = beat /\ row.took = visit[v].took
    BY <1>0 DEF Visit, Steps
  <2>. HIDE DEF row
  <2>4. LockRestTyped'
    <3>1. visit' \in [Visitors -> Visit]
      BY <1>0, <2>2, <2>3 DEF LockRestTyped
    <3>. QED
      BY <1>0, <2>1, <3>1 DEF LockRestTyped
  <2>5. HeartTyped' /\ LockStartsFresh' /\ BeatIsContact' /\ BeatIsFresh'
    BY <1>0, <2>1 DEF HeartHolds, HeartTyped, LockStartsFresh, BeatIsContact, BeatIsFresh
  <2>6. /\ visit'[v].at = "judge" /\ visit'[v].seen = beat /\ visit'[v].took = visit[v].took
        /\ \A w \in Visitors \ {v} : visit'[w] = visit[w]
    BY <1>0, <2>2, <2>3 DEF LockRestTyped
  <2>7. Witnessed(v) /\ beat # NULL /\ beat \in Ages
    BY <1>0, <2>1 DEF HeartHolds, VisitsKnow, At
  <2>8. SeenFits(v)'
    <3>1. Since(beat) = beat /\ beat <= witness[v].stale /\ beat <= lockAge
      BY <1>0, <2>7, SinceTyped DEF Witnessed, HeartHolds, BeatIsFresh
    <3>2. witness[v].missed \/ (beat = contact /\ contact <= witness[v].quiet)
      BY <1>0, <2>7 DEF Witnessed, HeartHolds, BeatIsContact
    <3>3. /\ beat \in Nat /\ visit[v].took \in Nat
          /\ witness[v].stale \in Nat /\ witness[v].quiet \in Nat
      <4>1. visit[v].took \in Nat
        BY <1>0, ManagedModeAssumption DEF Visit
      <4>2. witness[v].stale \in Nat /\ witness[v].quiet \in Nat
        BY <1>0, AgesTyped DEF Witness
      <4>. QED
        BY <2>7, <4>1, <4>2, AgesTyped
    <3>4. /\ beat <= witness[v].stale + visit[v].took
          /\ witness[v].missed \/ beat <= witness[v].quiet + visit[v].took
      BY <3>1, <3>2, <3>3
    <3>. QED
      BY <2>1, <2>6, <2>7, <3>1, <3>4 DEF SeenFits
  <2>9. VisitsKnow'
    <3>1. ASSUME NEW w \in Visitors \ {v}
          PROVE  Witnessed(w)' = Witnessed(w) /\ SeenFits(w)' = SeenFits(w)
      BY <2>1, <2>6 DEF Witnessed, SeenFits
    <3>2. Witnessed(v)'
      BY <2>1, <2>7 DEF Witnessed
    <3>. QED
      BY <1>0, <2>1, <2>6, <2>8, <3>1, <3>2 DEF HeartHolds, VisitsKnow, At
  <2>. QED
    BY <2>1, <2>4, <2>5, <2>9, LockKept DEF LockIInv, TokensCounted
<1>3. CASE (Visiting(v) /\ ~VisitLock(v) /\ ~VisitBeat(v) /\ ~VisitEnd(v)) \/ VisitFail(v)
  <2>1. PICK step \in Steps :
          /\ Goto(v, step) /\ step \in {"release", "target", "served", "bounced"}
          /\ step = "release" => At(v, "judge") /\ Expired(v)
    BY <1>3 DEF Visiting, VisitJudge, VisitRelease, VisitTarget, VisitFail, Steps
  <2>2. /\ locked' \in BOOLEAN /\ (locked' => locked)
        /\ UNCHANGED edits \/ Edit
        /\ UNCHANGED <<beat, url, token, tokens, generating, hub, poll, command,
                       contact, missed, lockAge, witness>>
    <3>1. CASE VisitRelease(v)
      BY <3>1 DEF VisitRelease, ghost
    <3>2. CASE VisitJudge(v) \/ VisitTarget(v) \/ VisitFail(v)
      BY <1>0, <3>2 DEF VisitJudge, VisitTarget, VisitFail, lockSettings, ghost, LockRestTyped
    <3>. QED
      BY <1>3, <3>1, <3>2 DEF Visiting
  <2>3. LockRestTyped'
    BY <1>0, <2>1, <2>2, GotoTyped, EditTyped DEF LockRestTyped
  <2>4. HeartTyped' /\ LockStartsFresh' /\ BeatIsContact' /\ BeatIsFresh'
    BY <1>0, <2>2 DEF HeartHolds, HeartTyped, LockStartsFresh, BeatIsContact, BeatIsFresh
  <2>5. /\ visit'[v].at = step /\ visit'[v].seen = visit[v].seen /\ visit'[v].took = visit[v].took
        /\ \A w \in Visitors \ {v} : visit'[w] = visit[w]
    BY <1>0, <2>1, GotoTyped
  <2>6. ASSUME NEW w \in Visitors
        PROVE  Witnessed(w)' = Witnessed(w) /\ SeenFits(w)' = SeenFits(w)
    BY <2>2, <2>5 DEF Witnessed, SeenFits
  <2>7. VisitsKnow'
    BY <1>0, <2>1, <2>2, <2>5, <2>6 DEF HeartHolds, VisitsKnow, SeenFits, Expired, At
  <2>. QED
    BY <2>2, <2>3, <2>4, <2>7, LockEditsCounted, LockKept
<1>4. CASE VisitEnd(v)
  <2>1. /\ visit' = [visit EXCEPT ![v] = Out] /\ witness' = [witness EXCEPT ![v] = Unseen]
        /\ UNCHANGED <<locked, beat, url, token, tokens, generating, hub, poll, command,
                       edits, contact, missed, lockAge>>
    BY <1>4 DEF VisitEnd, lockSettings
  <2>2. LockRestTyped'
    BY <1>0, <2>1, OutTyped DEF LockRestTyped
  <2>3. HeartTyped' /\ LockStartsFresh' /\ BeatIsContact' /\ BeatIsFresh'
    BY <1>0, <2>1, UnseenTyped DEF HeartHolds, HeartTyped, LockStartsFresh, BeatIsContact, BeatIsFresh
  <2>4. /\ visit'[v].at = "out"
        /\ \A w \in Visitors \ {v} : visit'[w] = visit[w] /\ witness'[w] = witness[w]
    BY <1>0, <2>1 DEF LockRestTyped, HeartHolds, HeartTyped, Out
  <2>5. ASSUME NEW w \in Visitors \ {v}
        PROVE  Witnessed(w)' = Witnessed(w) /\ SeenFits(w)' = SeenFits(w)
    BY <2>1, <2>4 DEF Witnessed, SeenFits
  <2>6. VisitsKnow'
    BY <1>0, <2>1, <2>4, <2>5 DEF HeartHolds, VisitsKnow, At
  <2>. QED
    BY <2>1, <2>2, <2>3, <2>6, LockKept DEF LockIInv, TokensCounted
<1>. QED
  BY <1>1, <1>2, <1>3, <1>4

\* The hub's requests, its polls and its command.
LEMMA HubStep ==
  ASSUME LockIInv, HubSide
  PROVE  LockIInv'
<1>0. /\ hub \in [up : BOOLEAN, token : 0..tokens, managed : BOOLEAN]
      /\ poll \in [locked : BOOLEAN, trusted : BOOLEAN] \cup {NULL}
      /\ command \in [lock : BOOLEAN, url : BOOLEAN, trusted : BOOLEAN, done : BOOLEAN]
                       \cup {NULL}
      /\ locked \in BOOLEAN /\ url \in BOOLEAN /\ Trusted \in BOOLEAN
      /\ LockTypeOK /\ HeartHolds /\ LockRestTyped
  BY LockTypesSplit DEF LockIInv, LockTypeOK, Trusted
<1>1. UNCHANGED <<visit, token, tokens, generating>>
  BY DEF HubSide, Proxied, PollRead, PollFails, PollBeat, HubHearsPoll, SetDirectAccess,
         SetDirectAccessFails, HubHearsCommand, HubSwitch, HubCommands, HubRegister, lockSettings
<1>2. edits' \in 0..MaxEdits /\ TokensCounted'
  <2>1. UNCHANGED edits \/ Edit
    BY DEF HubSide, Proxied, PollRead, PollFails, PollBeat, HubHearsPoll, SetDirectAccess,
           SetDirectAccessFails, HubHearsCommand, HubSwitch, HubCommands, HubRegister, Beats,
           HeartbeatFails
  <2>. QED
    BY <1>1, <2>1, LockEditsCounted
<1>3. HeartHolds' /\ locked' \in BOOLEAN
  <2>1. CASE Proxied \/ PollBeat
    BY <1>0, <1>1, <2>1, HeartBeats, HeartMisses DEF Proxied, PollBeat, Beats
  <2>2. CASE PollFails \/ SetDirectAccessFails
    BY <1>0, <1>1, <2>2, HeartLeft, HeartMisses DEF PollFails, SetDirectAccessFails
  <2>3. CASE SetDirectAccess
    <3>1. command.lock \in BOOLEAN /\ Set(command.lock) /\ Heartbeat
      BY <1>0, <2>3 DEF SetDirectAccess
    <3>2. locked' = command.lock
      BY <3>1 DEF Set
    <3>. QED
      BY <1>0, <1>1, <3>1, <3>2, HeartLocks
  <2>4. CASE \/ PollRead \/ HubHearsPoll \/ HubHearsCommand \/ HubSwitch
             \/ \E lock, address \in BOOLEAN : HubCommands(lock, address)
             \/ \E t \in 1..tokens : HubRegister(t)
    BY <1>0, <1>1, <2>4, HeartLeft DEF PollRead, HubHearsPoll, HubHearsCommand, HubSwitch,
       HubCommands, HubRegister, lockSettings, ghost
  <2>. QED
    BY <2>1, <2>2, <2>3, <2>4 DEF HubSide
<1>4. hub' \in [up : BOOLEAN, token : 0..tokens, managed : BOOLEAN]
  <2>1. CASE UNCHANGED hub
    BY <2>1, <1>0
  <2>2. CASE hub' = [hub EXCEPT !.managed = FALSE]
    BY <2>2, <1>0
  <2>3. CASE command # NULL /\ hub' = [hub EXCEPT !.managed = command.lock]
    BY <2>3, <1>0
  <2>4. CASE hub' = [hub EXCEPT !.up = ~@]
    BY <2>4, <1>0
  <2>5. CASE \E t \in 1..tokens : hub' = [hub EXCEPT !.token = t]
    BY <2>5, <1>0 DEF LockRestTyped
  <2>. QED
    BY <2>1, <2>2, <2>3, <2>4, <2>5
      DEF HubSide, Proxied, PollRead, PollFails, PollBeat, HubHearsPoll, SetDirectAccess,
          SetDirectAccessFails, HubHearsCommand, HubSwitch, HubCommands, HubRegister
<1>5. poll' \in [locked : BOOLEAN, trusted : BOOLEAN] \cup {NULL}
  <2>1. CASE poll' \in {poll, NULL}
    BY <2>1, <1>0
  <2>2. CASE poll' = [locked |-> locked, trusted |-> Trusted]
    BY <2>2, <1>0
  <2>3. CASE poll' = [locked |-> FALSE, trusted |-> FALSE]
    BY <2>3
  <2>4. CASE poll # NULL /\ poll' = [poll EXCEPT !.trusted = FALSE]
    BY <2>4, <1>0
  <2>. QED
    BY <2>1, <2>2, <2>3, <2>4
      DEF HubSide, Proxied, PollRead, PollFails, PollBeat, HubHearsPoll, SetDirectAccess,
          SetDirectAccessFails, HubHearsCommand, HubSwitch, HubCommands, HubRegister
<1>6. command' \in [lock : BOOLEAN, url : BOOLEAN, trusted : BOOLEAN, done : BOOLEAN]
                     \cup {NULL}
  <2>1. CASE command' \in {command, NULL}
    BY <2>1, <1>0
  <2>2. CASE \E lock, address \in BOOLEAN : command' =
               [lock |-> lock, url |-> address, trusted |-> Trusted, done |-> FALSE]
    BY <2>2, <1>0
  <2>3. CASE command # NULL /\ command' = [command EXCEPT !.done = TRUE]
    BY <2>3, <1>0
  <2>4. CASE command # NULL /\ command' = [command EXCEPT !.trusted = FALSE]
    BY <2>4, <1>0
  <2>. QED
    BY <2>1, <2>2, <2>3, <2>4
      DEF HubSide, Proxied, PollRead, PollFails, PollBeat, HubHearsPoll, SetDirectAccess,
          SetDirectAccessFails, HubHearsCommand, HubSwitch, HubCommands, HubRegister
<1>7. url' \in BOOLEAN
  BY <1>0 DEF HubSide, Proxied, PollRead, PollFails, PollBeat, HubHearsPoll, SetDirectAccess,
              SetDirectAccessFails, HubHearsCommand, HubSwitch, HubCommands, HubRegister, lockSettings
<1>8. LockRestTyped'
  BY <1>0, <1>1, <1>2, <1>3, <1>4, <1>5, <1>6, <1>7 DEF LockRestTyped
<1>. QED
  BY <1>2, <1>3, <1>8, LockKept DEF HeartHolds

\* Tokens and addresses.
LEMMA AdministerStep ==
  ASSUME LockIInv, Administer
  PROVE  LockIInv'
<1>1. UNCHANGED <<locked, beat, hub, poll, command, visit, contact, missed, lockAge, witness>>
  BY DEF Administer, GetTokenRead, GetTokenWrite, Regenerate, SetHubRedirectUrl, ghost
<1>2. url' \in BOOLEAN
  BY DEF LockIInv, LockTypeOK, Administer, GetTokenRead, GetTokenWrite, Regenerate,
         SetHubRedirectUrl
<1>3. edits' \in 0..MaxEdits /\ TokensCounted'
  <2>1. edits' \in 0..MaxEdits
    BY EditTyped DEF LockIInv, LockTypeOK, Administer, GetTokenRead, GetTokenWrite, Regenerate,
                     SetHubRedirectUrl
  <2>2. TokensCounted'
    BY DEF LockIInv, LockTypeOK, Administer, GetTokenRead, GetTokenWrite, Regenerate,
           SetHubRedirectUrl, NewToken, Edit, TokensCounted
  <2>. QED
    BY <2>1, <2>2
<1>4. /\ tokens' \in {tokens, tokens + 1} /\ token' \in {token, tokens'}
      /\ generating' \in Nat
  BY DEF LockIInv, LockTypeOK, Administer, GetTokenRead, GetTokenWrite, Regenerate,
         SetHubRedirectUrl, NewToken
<1>5. /\ tokens' \in 0..(MaxEdits + 1) /\ generating' \in 0..MaxEdits
      /\ token' \in 0..tokens' /\ 0..tokens \subseteq 0..tokens'
  <2>1. tokens \in Nat /\ token \in 0..tokens /\ MaxEdits \in Nat
    BY ManagedModeAssumption DEF LockIInv, LockTypeOK
  <2>2. tokens' \in Nat /\ tokens <= tokens' /\ edits' \in 0..MaxEdits
    BY <1>3, <1>4, <2>1
  <2>3. tokens' + generating' <= edits' + 1 /\ generating' <= edits'
    BY <1>3 DEF TokensCounted
  <2>4. generating' \in 0..MaxEdits /\ tokens' <= MaxEdits + 1
    <3>. DEFINE g == generating'  t == tokens'  e == edits'
    <3>1. e \in Nat /\ e <= MaxEdits
      BY <2>1, <2>2
    <3>2. t \in Nat
      BY <2>2
    <3>3. g \in Nat
      BY <1>4
    <3>4. t + g <= e + 1
      BY <2>3
    <3>5. g <= e
      BY <2>3
    <3>. HIDE DEF g, t, e
    <3>6. g \in 0..MaxEdits /\ t <= MaxEdits + 1
      BY <2>1, <3>1, <3>2, <3>3, <3>4, <3>5
    <3>. QED
      BY <3>6 DEF g, t
  <2>5. token' \in 0..tokens'
    BY <1>4, <2>1, <2>2
  <2>. QED
    BY <2>1, <2>2, <2>4, <2>5
<1>6. hub' \in [up : BOOLEAN, token : 0..tokens', managed : BOOLEAN]
  <2>1. hub \in [up : BOOLEAN, token : 0..tokens, managed : BOOLEAN]
    BY DEF LockIInv, LockTypeOK
  <2>. QED
    BY <1>1, <1>5, <2>1
<1>7. LockTypeOK'
  BY <1>1, <1>2, <1>3, <1>5, <1>6 DEF LockIInv, LockTypeOK
<1>8. HeartHolds'
  BY <1>1, HeartLeft DEF LockIInv
<1>. QED
  BY <1>3, <1>7, <1>8 DEF LockIInv

\* Time passes: what a visit read grows no faster than the silence and the visit.
LEMMA TickStep ==
  ASSUME LockIInv, TimePasses
  PROVE  LockIInv'
<1>0. /\ beat \in Ages \cup {NULL} /\ contact \in Ages /\ lockAge \in Ages
      /\ beat' = Older(beat) /\ contact' = Older(contact) /\ lockAge' = Older(lockAge)
      /\ UNCHANGED <<locked, url, token, tokens, generating, hub, poll, command, edits, missed>>
      /\ NULL \notin Ages /\ LockTypeOK /\ HeartHolds /\ LockRestTyped
  BY AgesTyped, LockTypesSplit DEF LockIInv, LockTypeOK, TimePasses
<1>1. ASSUME NEW v \in Visitors
      PROVE  /\ visit'[v] \in Visit /\ visit'[v].at = visit[v].at
             /\ visit[v] \in Visit
             /\ ~At(v, "out") => /\ visit'[v].took = visit[v].took + 1
                                 /\ visit'[v].seen = Older(visit[v].seen)
  <2>. DEFINE row == [visit[v] EXCEPT !.seen = Older(@), !.took = @ + 1]
  <2>1. visit[v] \in Visit
    BY <1>0 DEF LockRestTyped
  <2>2. visit'[v] = IF At(v, "out") THEN visit[v] ELSE row
    BY DEF TimePasses
  <2>3. ASSUME ~At(v, "out")
        PROVE  /\ row \in Visit /\ row.at = visit[v].at /\ row.took = visit[v].took + 1
               /\ row.seen = Older(visit[v].seen)
    <3>1. visit[v].took + 1 \in 0..Slow
      <4>1. visit[v].took \in 0..Slow /\ visit[v].took < Slow
        BY <2>1, <2>3 DEF TimePasses, Visit, At
      <4>. QED
        BY <4>1, ManagedModeAssumption
    <3>2. Older(visit[v].seen) \in Ages \cup {NULL}
      BY <2>1, OlderTyped DEF Visit
    <3>. QED
      BY <2>1, <3>1, <3>2 DEF Visit
  <2>. HIDE DEF row
  <2>. QED
    BY <2>1, <2>2, <2>3
<1>2. beat' \in Ages \cup {NULL} /\ contact' \in Ages /\ lockAge' \in Ages /\ Since(beat') \in Ages
  BY <1>0, OlderTyped, SinceTyped
<1>3. ASSUME NEW v \in Visitors
      PROVE  /\ witness'[v] \in Witness /\ witness[v] \in Witness
             /\ witness'[v].missed = witness[v].missed
             /\ witness'[v].relocked = witness[v].relocked
             /\ witness[v].quiet <= witness'[v].quiet /\ witness[v].stale <= witness'[v].stale
             /\ ~At(v, "out") => contact' <= witness'[v].quiet /\ Since(beat') <= witness'[v].stale
  <2>. DEFINE quiet == Longer(witness[v].quiet, contact')
              stale == Longer(witness[v].stale, Since(beat'))
  <2>1. witness[v] \in Witness
    BY <1>0 DEF HeartHolds, HeartTyped
  <2>2. /\ quiet \in Ages /\ witness[v].quiet <= quiet /\ contact' <= quiet
        /\ stale \in Ages /\ witness[v].stale <= stale /\ Since(beat') <= stale
    BY <1>2, <2>1, LongerTyped DEF Witness
  <2>3. witness'[v] = IF At(v, "out") THEN witness[v]
                      ELSE [witness[v] EXCEPT !.quiet = quiet, !.stale = stale]
    BY DEF TimePasses
  <2>. HIDE DEF quiet, stale
  <2>4. CASE At(v, "out")
    <3>1. witness[v].quiet \in Nat /\ witness[v].stale \in Nat
      BY <2>1, AgesTyped DEF Witness
    <3>. QED
      BY <2>1, <2>3, <2>4, <3>1
  <2>5. CASE ~At(v, "out")
    BY <2>1, <2>2, <2>3, <2>5 DEF Witness
  <2>. QED
    BY <2>4, <2>5
<1>4. LockRestTyped'
  <2>1. visit' \in [Visitors -> Visit]
    BY <1>1 DEF TimePasses
  <2>. QED
    BY <1>0, <2>1 DEF LockRestTyped
<1>5. HeartTyped' /\ LockStartsFresh' /\ BeatIsContact' /\ BeatIsFresh'
  <2>1. witness' \in [Visitors -> Witness]
    BY <1>3 DEF TimePasses
  <2>2. HeartTyped'
    BY <1>0, <1>2, <2>1 DEF HeartHolds, HeartTyped
  <2>3. LockStartsFresh' /\ BeatIsContact' /\ BeatIsFresh'
    BY <1>0, OlderTyped DEF HeartHolds, LockStartsFresh, BeatIsContact, BeatIsFresh
  <2>. QED
    BY <2>2, <2>3
<1>6. VisitsKnow'
  <2>. SUFFICES ASSUME NEW v \in Visitors, visit[v].at \in {"beat", "judge", "release"}
       PROVE  /\ Witnessed(v)'
              /\ At(v, "beat") => beat' # NULL
              /\ visit[v].at \in {"judge", "release"} => SeenFits(v)'
              /\ At(v, "release") => visit'[v].seen > MaxAge
    BY <1>1 DEF VisitsKnow, At
  <2>1. ~At(v, "out") /\ Witnessed(v)
    BY <1>0 DEF At, HeartHolds, VisitsKnow
  <2>2. Witnessed(v)'
    BY <1>0, <1>3, <2>1 DEF Witnessed
  <2>3. ASSUME At(v, "beat") PROVE beat' # NULL
    BY <1>0, <2>3, OlderTyped DEF HeartHolds, VisitsKnow
  <2>4. ASSUME visit[v].at \in {"judge", "release"}
        PROVE  SeenFits(v)' /\ (At(v, "release") => visit'[v].seen > MaxAge)
    <3>. DEFINE seen == visit[v].seen  took == visit[v].took
    <3>1. SeenFits(v) /\ seen \in Ages /\ took \in Nat /\ (At(v, "release") => seen > MaxAge)
      BY <1>0, <1>1, <2>4, ManagedModeAssumption DEF HeartHolds, VisitsKnow, SeenFits, Visit
    <3>2. visit'[v].seen = Older(seen) /\ visit'[v].took = took + 1
      BY <1>1, <2>1
    <3>3. /\ Older(seen) \in Ages /\ seen <= Older(seen) /\ Older(seen) <= seen + 1
          /\ seen <= lockAge => Older(seen) <= lockAge'
      BY <1>0, <3>1, OlderTyped
    <3>4. /\ seen \in Nat /\ Older(seen) \in Nat /\ MaxAge \in Nat
          /\ witness[v].quiet \in Nat /\ witness'[v].quiet \in Nat
          /\ witness[v].stale \in Nat /\ witness'[v].stale \in Nat
      BY <1>3, <3>1, <3>3, AgesTyped DEF Witness
    <3>5. /\ Older(seen) # NULL
          /\ witness[v].relocked \/ Older(seen) <= lockAge'
      BY <1>0, <3>1, <3>3 DEF SeenFits
    <3>6. seen <= witness[v].stale + took /\ (witness[v].missed \/ seen <= witness[v].quiet + took)
      BY <3>1 DEF SeenFits
    <3>. HIDE DEF seen, took
    <3>7. /\ Older(seen) <= witness'[v].stale + (took + 1)
          /\ witness[v].missed \/ Older(seen) <= witness'[v].quiet + (took + 1)
      BY <1>3, <3>1, <3>3, <3>4, <3>6
    <3>8. At(v, "release") => Older(seen) > MaxAge
      BY <3>1, <3>3, <3>4
    <3>. QED
      BY <1>3, <3>2, <3>5, <3>7, <3>8 DEF SeenFits
  <2>. QED
    BY <2>2, <2>3, <2>4 DEF At
<1>7. TokensCounted'
  BY <1>0 DEF LockIInv, TokensCounted
<1>. QED
  BY <1>4, <1>5, <1>6, <1>7, LockKept

LEMMA LockStepKeepsInv == LockIInv /\ [LockNext]_lockVars => LockIInv'
<1>. SUFFICES ASSUME LockIInv, [LockNext]_lockVars PROVE LockIInv'
  OBVIOUS
<1>1. CASE \E v \in Visitors : Visiting(v) \/ VisitFail(v)
  BY <1>1, VisitStep
<1>2. CASE HubSide \/ Administer \/ TimePasses
  BY <1>2, HubStep, AdministerStep, TickStep
<1>3. CASE UNCHANGED lockVars
  <2>1. HeartHolds'
    BY <1>3, HeartLeft DEF lockVars, lockSettings, ghost, LockIInv
  <2>. QED
    BY <1>3, <2>1 DEF lockVars, lockSettings, ghost, LockIInv, LockTypeOK, TokensCounted
<1>. QED
  BY <1>1, <1>2, <1>3 DEF LockNext

-----------------------------------------------------------------------------
(* The theorems.                                                           *)

\* For any visitors and bounds, a lock that is on has a heartbeat at least as
\* recent as the lock, however the hub's calls, edits, failures and visits
\* interleave.
THEOREM LockInvariant == LockSpec => []LockInv
<1>1. LockIInv => LockInv
  BY DEF LockIInv, HeartHolds, LockInv
<1>. QED
  BY LockInitInv, LockStepKeepsInv, <1>1, PTL DEF LockSpec

\* app/main.py:190, app/api/suite.py:243: for any visitors and bounds, and whatever
\* heartbeat fails to be stored, a visit lifts the lock only when, at some moment
\* of it and less the ticks it took, no heartbeat had been stored for MaxAge; when
\* the hub had not called for as long, or a call of its could not store its
\* heartbeat; and when the lock was older than MaxAge, or set behind its back.
THEOREM SilenceFirst == LockSpec => ReleaseNeedsSilence
<1>1. ASSUME LockIInv, NEW v \in Visitors, VisitRelease(v)
      PROVE  /\ witness[v].stale + Slow > MaxAge
             /\ witness[v].missed \/ witness[v].quiet + Slow > MaxAge
             /\ witness[v].relocked \/ lockAge > MaxAge
  <2>1. /\ witness[v].quiet \in Nat /\ witness[v].stale \in Nat /\ lockAge \in Nat
        /\ visit[v].took \in 0..Slow /\ Slow \in Nat /\ MaxAge \in Nat
        /\ visit[v].seen \in Ages \cup {NULL}
    <3>1. witness[v] \in Witness /\ visit[v] \in Visit /\ lockAge \in Ages
      BY <1>1 DEF LockIInv, LockTypeOK
    <3>2. witness[v].quiet \in Nat /\ witness[v].stale \in Nat /\ lockAge \in Nat
      BY <3>1, AgesTyped DEF Witness
    <3>. QED
      BY <3>1, <3>2, ManagedModeAssumption DEF Visit
  <2>2. SeenFits(v) /\ visit[v].seen > MaxAge
    BY <1>1 DEF LockIInv, HeartHolds, VisitsKnow, VisitRelease, At
  <2>3. visit[v].seen \in Nat
    BY <2>1, <2>2, AgesTyped DEF SeenFits
  <2>4. /\ visit[v].seen <= witness[v].stale + visit[v].took
        /\ witness[v].missed \/ visit[v].seen <= witness[v].quiet + visit[v].took
        /\ witness[v].relocked \/ visit[v].seen <= lockAge
    BY <2>2 DEF SeenFits
  <2>. DEFINE seen == visit[v].seen  took == visit[v].took
              stale == witness[v].stale  quiet == witness[v].quiet
  <2>5. seen <= stale + took => stale + Slow > MaxAge
    BY <2>1, <2>2, <2>3
  <2>6. seen <= quiet + took => quiet + Slow > MaxAge
    BY <2>1, <2>2, <2>3
  <2>7. seen <= lockAge => lockAge > MaxAge
    BY <2>1, <2>2, <2>3
  <2>. QED
    BY <2>4, <2>5, <2>6, <2>7
<1>2. LockIInv /\ [LockNext]_lockVars =>
        [\A v \in Visitors : VisitRelease(v) =>
           /\ witness[v].stale + Slow > MaxAge
           /\ witness[v].missed \/ witness[v].quiet + Slow > MaxAge
           /\ witness[v].relocked \/ lockAge > MaxAge]_lockVars
  BY <1>1
<1>. QED
  BY LockInitInv, LockStepKeepsInv, <1>2, PTL DEF LockSpec, ReleaseNeedsSilence

-----------------------------------------------------------------------------
(* The log: the inductive invariant.                                       *)

Rising(s) == \A i, j \in DOMAIN s : i < j => s[i] < s[j]
Below(s, t) == \A i \in DOMAIN s, j \in DOMAIN t : s[i] < t[j]
Over(r, s) == \A i \in DOMAIN s : r < s[i]

\* What is in the table, being written or waiting is in the order of emission, and
\* is no more than what was emitted.
LogOrdered ==
  /\ queue \in Seq(1..emitted) /\ batch \in Seq(1..emitted) /\ logs \in Seq(1..emitted)
  /\ Len(logs) + Len(batch) + Len(queue) <= emitted
  /\ Rising(logs) /\ Rising(batch) /\ Rising(queue)
  /\ Below(logs, batch) /\ Below(logs, queue) /\ Below(batch, queue)

\* A record that was trimmed is older than all that is still to come into the table,
\* which stays as long as it was cut to.
TrimmedIsOlder ==
  \A r \in (1..emitted) \ Kept :
    Len(logs) >= MaxRows - 1 /\ Over(r, logs) /\ Over(r, batch) /\ Over(r, queue)

\* What the forwarder has taken over and not sent.
UnderWay ==
  IF forward = NULL THEN {}
  ELSE RecordsIn(forward.queue)
         \cup (IF forward.sending = NULL THEN {} ELSE {forward.sending})

\* A line is in one place: in the forwarder's queue, being sent by it, being sent by
\* one that was replaced, or with the collector.
OnePlace ==
  /\ forward \in Forwarders \cup {NULL}
  /\ late \subseteq 1..emitted /\ handed \in 0..emitted
  /\ forward = NULL => handed = 0
  /\ service = "gone" => forward = NULL
  /\ forward # NULL =>
       /\ forward.queue \in Seq(1..emitted) /\ Rising(forward.queue)
       /\ Len(forward.queue) <= MaxQueue
       /\ forward.sending # NULL => /\ forward.sending \in 1..emitted
                                    /\ forward.sending \notin RecordsIn(forward.queue)
  /\ received \in Seq(1..emitted)
  /\ UnderWay \cap late = {} /\ UnderWay \cap RecordsIn(received) = {}
  /\ late \cap RecordsIn(received) = {}

-----------------------------------------------------------------------------
(* Lemmas about sequences of records.                                      *)

\* A record joins a queue at its end.
LEMMA RowAppended ==
  ASSUME NEW n \in Nat, NEW s \in Seq(1..n)
  PROVE  /\ Append(s, n + 1) \in Seq(1..(n + 1)) /\ s \in Seq(1..(n + 1))
         /\ Len(Append(s, n + 1)) = Len(s) + 1
         /\ RecordsIn(Append(s, n + 1)) = RecordsIn(s) \cup {n + 1}
         /\ Rising(s) => Rising(Append(s, n + 1))
         /\ \A j \in DOMAIN Append(s, n + 1) :
              \/ j \in DOMAIN s /\ Append(s, n + 1)[j] = s[j]
              \/ j = Len(s) + 1 /\ Append(s, n + 1)[j] = n + 1
  <1> DEFINE t == Append(s, n + 1)
  <1>1. s \in Seq(1..(n + 1))
    BY SeqMonotonic
  <1>2. t \in Seq(1..(n + 1)) /\ Len(t) = Len(s) + 1
    BY <1>1
  <1>3. DOMAIN s = 1..Len(s) /\ DOMAIN t = 1..(Len(s) + 1) /\ Len(s) \in Nat
    BY <1>1, <1>2
  <1>4. \A j \in DOMAIN t : t[j] = IF j = Len(s) + 1 THEN n + 1 ELSE s[j]
    BY <1>1, <1>3
  <1>5. \A j \in DOMAIN s : s[j] \in 1..n
    BY <1>3
  <1> HIDE DEF t
  <1>6. RecordsIn(t) = RecordsIn(s) \cup {n + 1}
    BY <1>3, <1>4 DEF RecordsIn
  <1>7. Rising(s) => Rising(t)
    BY <1>3, <1>4, <1>5 DEF Rising
  <1>8. \A j \in DOMAIN t : \/ j \in DOMAIN s /\ t[j] = s[j]
                            \/ j = Len(s) + 1 /\ t[j] = n + 1
    BY <1>3, <1>4
  <1> QED BY <1>1, <1>2, <1>6, <1>7, <1>8 DEF t

\* A batch follows the rows of the table.
LEMMA RowsJoined ==
  ASSUME NEW n \in Nat, NEW s \in Seq(1..n), NEW t \in Seq(1..n),
         Rising(s), Rising(t), Below(s, t)
  PROVE  /\ s \o t \in Seq(1..n) /\ Len(s \o t) = Len(s) + Len(t)
         /\ Rising(s \o t)
         /\ RecordsIn(s \o t) = RecordsIn(s) \cup RecordsIn(t)
  <1> DEFINE u == s \o t
  <1>1. u \in Seq(1..n) /\ Len(u) = Len(s) + Len(t)
    BY ConcatProperties
  <1>2. \A i \in 1..(Len(s) + Len(t)) : u[i] = IF i <= Len(s) THEN s[i] ELSE t[i - Len(s)]
    BY ConcatProperties
  <1>3. DOMAIN s = 1..Len(s) /\ DOMAIN t = 1..Len(t) /\ DOMAIN u = 1..(Len(s) + Len(t))
        /\ Len(s) \in Nat /\ Len(t) \in Nat
    BY <1>1
  <1> HIDE DEF u
  <1>4. Rising(u)
    <2> SUFFICES ASSUME NEW i \in DOMAIN u, NEW j \in DOMAIN u, i < j PROVE u[i] < u[j]
      BY DEF Rising
    <2>1. CASE j <= Len(s)
      BY <1>2, <1>3, <2>1 DEF Rising
    <2>2. CASE i > Len(s)
      <3>1. i - Len(s) \in DOMAIN t /\ j - Len(s) \in DOMAIN t /\ i - Len(s) < j - Len(s)
        BY <1>3, <2>2
      <3>2. u[i] = t[i - Len(s)] /\ u[j] = t[j - Len(s)]
        BY <1>2, <1>3, <2>2
      <3> QED BY <3>1, <3>2 DEF Rising
    <2>3. CASE i <= Len(s) /\ j > Len(s)
      <3>1. i \in DOMAIN s /\ j - Len(s) \in DOMAIN t
        BY <1>3, <2>3
      <3>2. u[i] = s[i] /\ u[j] = t[j - Len(s)]
        BY <1>2, <1>3, <2>3
      <3> QED BY <3>1, <3>2 DEF Below
    <2> QED BY <1>3, <2>1, <2>2, <2>3
  <1>5. RecordsIn(u) = RecordsIn(s) \cup RecordsIn(t)
    <2>1. ASSUME NEW i \in DOMAIN u
          PROVE  \/ i \in DOMAIN s /\ u[i] = s[i]
                 \/ i - Len(s) \in DOMAIN t /\ u[i] = t[i - Len(s)]
      BY <1>2, <1>3
    <2>2. \A i \in DOMAIN s : i \in DOMAIN u /\ u[i] = s[i]
      BY <1>2, <1>3
    <2>3. \A i \in DOMAIN t : i + Len(s) \in DOMAIN u /\ u[i + Len(s)] = t[i]
      BY <1>2, <1>3
    <2>4. RecordsIn(u) \subseteq RecordsIn(s) \cup RecordsIn(t)
      BY <2>1 DEF RecordsIn
    <2>5. RecordsIn(s) \subseteq RecordsIn(u)
      BY <2>2 DEF RecordsIn
    <2>6. RecordsIn(t) \subseteq RecordsIn(u)
      BY <2>3 DEF RecordsIn
    <2> QED BY <2>4, <2>5, <2>6
  <1> QED BY <1>1, <1>4, <1>5 DEF u

\* What the trim leaves, and what it takes.
LEMMA RowsTrimmed ==
  ASSUME NEW n \in Nat, NEW u \in Seq(1..n), Rising(u)
  PROVE  /\ Trimmed(u) \in Seq(1..n) /\ Len(Trimmed(u)) <= Len(u)
         /\ Len(Trimmed(u)) = IF Len(u) < MaxRows THEN Len(u) ELSE MaxRows - 1
         /\ Rising(Trimmed(u))
         /\ RecordsIn(Trimmed(u)) \subseteq RecordsIn(u)
         /\ \A r \in RecordsIn(u) \ RecordsIn(Trimmed(u)) :
              Len(Trimmed(u)) >= MaxRows - 1 /\ Over(r, Trimmed(u))
  <1>1. DOMAIN u = 1..Len(u) /\ Len(u) \in Nat /\ MaxRows \in Nat \ {0}
    BY AppLogAssumption
  <1>2. CASE Len(u) < MaxRows
    <2>1. Trimmed(u) = u
      BY <1>2 DEF Trimmed
    <2> QED BY <1>1, <1>2, <2>1
  <1>3. CASE ~(Len(u) < MaxRows)
    <2> DEFINE a == Len(u) - MaxRows + 2
               v == SubSeq(u, a, Len(u))
    <2>1. Trimmed(u) = v
      BY <1>3 DEF Trimmed
    <2>2. a \in Int /\ a >= 2 /\ Len(u) - a + 1 = MaxRows - 1
      BY <1>1, <1>3
    <2> HIDE DEF a
    <2>3. \A i \in a..Len(u) : u[i] \in 1..n
      BY <1>1, <2>2
    <2>4. v \in Seq(1..n) /\ Len(v) = (IF a <= Len(u) THEN Len(u) - a + 1 ELSE 0)
          /\ \A i \in 1..(Len(u) - a + 1) : v[i] = u[a + i - 1]
      BY <1>1, <2>2, <2>3, SubSeqProperties
    <2> HIDE DEF v
    <2>5. Len(v) = MaxRows - 1 /\ DOMAIN v = 1..(MaxRows - 1)
      BY <1>1, <2>2, <2>4
    <2>6. ASSUME NEW i \in DOMAIN v PROVE v[i] = u[a + i - 1] /\ a + i - 1 \in DOMAIN u
      <3>1. i \in 1..(Len(u) - a + 1)
        BY <2>2, <2>5
      <3>2. a + i - 1 \in DOMAIN u
        BY <1>1, <2>2, <3>1
      <3> QED BY <2>4, <3>1, <3>2
    <2>7. Rising(v)
      <3> SUFFICES ASSUME NEW i \in DOMAIN v, NEW j \in DOMAIN v, i < j PROVE v[i] < v[j]
        BY DEF Rising
      <3>1. a + i - 1 < a + j - 1
        BY <2>2, <2>5
      <3> QED BY <2>6, <3>1 DEF Rising
    <2>8. RecordsIn(v) \subseteq RecordsIn(u)
      BY <2>6 DEF RecordsIn
    <2>9. ASSUME NEW r \in RecordsIn(u) \ RecordsIn(v) PROVE Over(r, v)
      <3>1. PICK k \in DOMAIN u : r = u[k]
        BY DEF RecordsIn
      <3>2. k < a
        <4> SUFFICES ASSUME k >= a PROVE FALSE
          BY <1>1, <2>2
        <4>1. k - a + 1 \in DOMAIN v /\ a + (k - a + 1) - 1 = k
          BY <1>1, <2>2, <2>5
        <4> QED BY <2>6, <2>9, <3>1, <4>1 DEF RecordsIn
      <3>3. \A i \in DOMAIN v : k < a + i - 1
        BY <1>1, <2>2, <2>5, <3>2
      <3> QED BY <2>6, <3>1, <3>3 DEF Over, Rising
    <2>10. Len(v) <= Len(u) /\ Len(v) = (IF Len(u) < MaxRows THEN Len(u) ELSE MaxRows - 1)
      BY <1>1, <1>3, <2>5
    <2>11. \A r \in RecordsIn(u) \ RecordsIn(v) : Len(v) >= MaxRows - 1 /\ Over(r, v)
      BY <1>1, <2>5, <2>9
    <2> QED BY <2>1, <2>4, <2>7, <2>8, <2>10, <2>11
  <1> QED BY <1>2, <1>3

-----------------------------------------------------------------------------
(* The log: every step keeps it.                                           *)

\* What the types say of what is counted.
LogCounted ==
  /\ service \in {"up", "stopping", "gone"} /\ drained \in BOOLEAN
  /\ logMishaps \in 0..MaxLogMishaps
  /\ emitted \in 0..MaxRecords
  /\ lost \subseteq 1..emitted /\ cleared \subseteq 1..emitted

HandlerHolds == LogCounted /\ LogOrdered /\ TrimmedIsOlder

LEMMA RecordsAreBelow ==
  ASSUME NEW n, NEW s \in Seq(1..n)
  PROVE  /\ Len(s) \in Nat /\ DOMAIN s = 1..Len(s)
         /\ \A i \in DOMAIN s : s[i] \in 1..n
         /\ RecordsIn(s) \subseteq 1..n
  <1>1. Len(s) \in Nat /\ DOMAIN s = 1..Len(s)
    BY LenProperties
  <1>2. \A i \in DOMAIN s : s[i] \in 1..n
    BY <1>1, ElementOfSeq
  <1> QED BY <1>1, <1>2 DEF RecordsIn

LEMMA NoRecords ==
  /\ \A n : <<>> \in Seq(1..n)
  /\ Len(<<>>) = 0 /\ DOMAIN <<>> = {} /\ Rising(<<>>) /\ RecordsIn(<<>>) = {}
  /\ \A s : Below(<<>>, s) /\ Below(s, <<>>)
  /\ \A r : Over(r, <<>>)
  <1>1. Len(<<>>) = 0 /\ DOMAIN <<>> = {} /\ \A n : <<>> \in Seq(1..n)
    OBVIOUS
  <1> QED BY <1>1 DEF Rising, Below, Over, RecordsIn

\* The record of an emission, or of configure_forwarding's line, is the newest.
LEMMA EmittedKeeps ==
  ASSUME HandlerHolds, LogCounted', emitted' = emitted + 1,
         queue' = Append(queue, emitted + 1), UNCHANGED <<batch, logs, lost, cleared>>
  PROVE  HandlerHolds'
  <1> USE DEF HandlerHolds
  <1> DEFINE n == emitted
  <1>1. n \in Nat /\ queue \in Seq(1..n) /\ batch \in Seq(1..n) /\ logs \in Seq(1..n)
    BY DEF LogCounted, LogOrdered
  <1>2. /\ queue' \in Seq(1..(n + 1)) /\ Len(queue') = Len(queue) + 1
        /\ RecordsIn(queue') = RecordsIn(queue) \cup {n + 1}
        /\ Rising(queue) => Rising(queue')
    BY <1>1, RowAppended
  <1>3. \A j \in DOMAIN queue' : \/ j \in DOMAIN queue /\ queue'[j] = queue[j]
                                 \/ queue'[j] = n + 1
    BY <1>1, RowAppended
  <1>4. batch' \in Seq(1..(n + 1)) /\ logs' \in Seq(1..(n + 1))
    BY <1>1, RowAppended
  <1>5. /\ \A i \in DOMAIN batch : batch[i] \in 1..n
        /\ \A i \in DOMAIN logs : logs[i] \in 1..n
        /\ \A i \in DOMAIN queue : queue[i] \in 1..n
        /\ Len(queue) \in Nat /\ Len(batch) \in Nat /\ Len(logs) \in Nat
    BY <1>1, RecordsAreBelow
  <1>6. Below(logs', queue') /\ Below(batch', queue')
    <2>1. ASSUME NEW s \in {logs, batch}, NEW i \in DOMAIN s, NEW j \in DOMAIN queue'
          PROVE  s[i] < queue'[j]
      <3>1. s[i] \in 1..n
        BY <1>5
      <3>2. CASE j \in DOMAIN queue /\ queue'[j] = queue[j]
        BY <3>2 DEF LogOrdered, Below
      <3>3. CASE queue'[j] = n + 1
        BY <1>1, <3>1, <3>3
      <3> QED BY <1>3, <3>2, <3>3
    <2> QED BY <2>1 DEF Below
  <1>7. LogOrdered'
    BY <1>1, <1>2, <1>4, <1>5, <1>6 DEF LogOrdered
  <1>8. TrimmedIsOlder'
    <2> SUFFICES ASSUME NEW r \in (1..emitted') \ Kept'
                 PROVE  Len(logs') >= MaxRows - 1 /\ Over(r, logs')
                        /\ Over(r, batch') /\ Over(r, queue')
      BY DEF TrimmedIsOlder
    <2>1. r \in (1..n) \ Kept
      BY <1>1, <1>2 DEF Kept
    <2>2. Len(logs) >= MaxRows - 1 /\ Over(r, logs) /\ Over(r, batch) /\ Over(r, queue)
      BY <2>1 DEF TrimmedIsOlder
    <2>3. Over(r, queue')
      BY <1>1, <1>3, <2>1, <2>2 DEF Over
    <2> QED BY <2>2, <2>3
  <1> QED BY <1>7, <1>8

\* The thread takes the queue over.
LEMMA DrainKeeps ==
  ASSUME HandlerHolds, Drain
  PROVE  HandlerHolds'
  <1> USE DEF HandlerHolds
  <1>1. /\ batch = <<>> /\ batch' = queue /\ queue' = <<>>
        /\ UNCHANGED <<logs, emitted, lost, cleared, service, logMishaps>>
        /\ drained' \in BOOLEAN
    BY DEF Drain
  <1>2. LogCounted'
    BY <1>1 DEF LogCounted
  <1>3. LogOrdered'
    <2>1. Len(queue') = 0 /\ Len(batch) = 0
      BY <1>1, NoRecords
    <2>2. Len(logs') + Len(batch') + Len(queue') <= emitted'
      BY <1>1, <2>1, LenProperties DEF LogOrdered, LogCounted
    <2> QED BY <1>1, <2>2, NoRecords DEF LogOrdered
  <1>4. TrimmedIsOlder'
    <2>1. Kept' = Kept
      BY <1>1, NoRecords DEF Kept
    <2> QED BY <1>1, <2>1, NoRecords DEF TrimmedIsOlder
  <1> QED BY <1>2, <1>3, <1>4

\* The batch goes into the table, and the oldest rows out of it.
LEMMA StoreKeeps ==
  ASSUME HandlerHolds, Store
  PROVE  HandlerHolds'
  <1> USE DEF HandlerHolds
  <1> DEFINE u == logs \o batch
  <1>1. /\ logs' = Trimmed(u) /\ batch' = <<>>
        /\ UNCHANGED <<queue, emitted, lost, cleared, service, logMishaps, drained>>
    BY DEF Store
  <1>2. LogCounted'
    BY <1>1 DEF LogCounted
  <1>3. /\ emitted \in Nat /\ logs \in Seq(1..emitted) /\ batch \in Seq(1..emitted)
        /\ queue \in Seq(1..emitted) /\ MaxRows \in Nat \ {0}
    BY AppLogAssumption DEF LogCounted, LogOrdered
  <1>4. /\ u \in Seq(1..emitted) /\ Len(u) = Len(logs) + Len(batch) /\ Rising(u)
        /\ RecordsIn(u) = RecordsIn(logs) \cup RecordsIn(batch)
    BY <1>3, RowsJoined DEF LogOrdered
  <1> HIDE DEF u
  <1>5. /\ logs' \in Seq(1..emitted) /\ Len(logs') <= Len(u) /\ Rising(logs')
        /\ Len(logs') = IF Len(u) < MaxRows THEN Len(u) ELSE MaxRows - 1
        /\ RecordsIn(logs') \subseteq RecordsIn(u)
    BY <1>1, <1>3, <1>4, RowsTrimmed
  <1>6. \A r \in RecordsIn(u) \ RecordsIn(logs') :
          Len(logs') >= MaxRows - 1 /\ Over(r, logs')
    BY <1>1, <1>3, <1>4, RowsTrimmed
  <1>7. /\ \A i \in DOMAIN logs' : logs'[i] \in RecordsIn(logs) \cup RecordsIn(batch)
        /\ \A i \in DOMAIN queue :
             \A r \in RecordsIn(logs) \cup RecordsIn(batch) : r < queue[i]
    <2>1. \A i \in DOMAIN logs' : logs'[i] \in RecordsIn(logs')
      BY DEF RecordsIn
    <2>2. ASSUME NEW i \in DOMAIN queue,
                 NEW r \in RecordsIn(logs) \cup RecordsIn(batch)
          PROVE  r < queue[i]
      BY DEF RecordsIn, LogOrdered, Below
    <2> QED BY <1>4, <1>5, <2>1, <2>2
  <1>8. Len(queue) \in Nat /\ Len(batch) \in Nat /\ Len(logs) \in Nat /\ Len(logs') \in Nat
        /\ Len(batch') = 0
    BY <1>1, <1>3, <1>5, NoRecords, LenProperties
  <1>9. LogOrdered'
    <2>1. Len(logs') + Len(batch') + Len(queue') <= emitted'
      BY <1>1, <1>3, <1>4, <1>5, <1>8 DEF LogOrdered
    <2>2. Below(logs', queue')
      BY <1>1, <1>7 DEF Below
    <2> QED BY <1>1, <1>3, <1>5, <2>1, <2>2, NoRecords DEF LogOrdered
  <1>10. TrimmedIsOlder'
    <2> SUFFICES ASSUME NEW r \in (1..emitted') \ Kept'
                 PROVE  Len(logs') >= MaxRows - 1 /\ Over(r, logs')
                        /\ Over(r, batch') /\ Over(r, queue')
      BY DEF TrimmedIsOlder
    <2>1. Over(r, batch')
      BY <1>1, NoRecords
    <2>2. CASE r \in RecordsIn(u)
      <3>1. r \notin RecordsIn(logs')
        BY DEF Kept
      <3>2. Over(r, queue')
        BY <1>1, <1>4, <1>7, <2>2 DEF Over
      <3> QED BY <1>6, <2>1, <2>2, <3>1, <3>2
    <2>3. CASE r \notin RecordsIn(u)
      <3>1. r \in (1..emitted) \ Kept
        BY <1>1, <1>4, <2>3 DEF Kept
      <3>2. Len(logs) >= MaxRows - 1 /\ Over(r, logs) /\ Over(r, batch) /\ Over(r, queue)
        BY <3>1 DEF TrimmedIsOlder
      <3>3. Len(logs') >= MaxRows - 1
        BY <1>3, <1>4, <1>5, <1>8, <3>2
      <3>4. Over(r, logs')
        BY <1>7, <3>2 DEF Over, RecordsIn
      <3> QED BY <1>1, <2>1, <3>2, <3>3, <3>4
    <2> QED BY <2>2, <2>3
  <1> QED BY <1>2, <1>9, <1>10

\* Records that are lost, with a batch or with the process, are accounted for.
LEMMA LostKeeps ==
  ASSUME HandlerHolds, LogCounted', UNCHANGED <<logs, emitted, cleared>>,
         batch' = <<>>,
         \/ queue' = queue /\ lost' = lost \cup RecordsIn(batch)
         \/ queue' = <<>> /\ lost' = lost \cup RecordsIn(queue) \cup RecordsIn(batch)
  PROVE  HandlerHolds'
  <1> USE DEF HandlerHolds
  <1>1. Kept' = Kept
    BY NoRecords DEF Kept
  <1>2. Len(queue) \in Nat /\ Len(batch) \in Nat /\ Len(logs) \in Nat /\ Len(batch') = 0
        /\ emitted \in Nat
    BY NoRecords, LenProperties DEF LogOrdered, LogCounted
  <1>3. Len(queue') \in {0, Len(queue)}
    BY NoRecords
  <1>4. Len(logs') + Len(batch') + Len(queue') <= emitted'
    BY <1>2, <1>3 DEF LogOrdered
  <1>5. LogOrdered'
    BY <1>4, NoRecords DEF LogOrdered
  <1>6. TrimmedIsOlder'
    BY <1>1, NoRecords DEF TrimmedIsOlder
  <1> QED BY <1>5, <1>6

\* DELETE /api/logs takes the table, and what had been trimmed with it.
LEMMA ClearKeeps ==
  ASSUME HandlerHolds, ClearLogs
  PROVE  HandlerHolds'
  <1> USE DEF HandlerHolds
  <1>1. /\ logs' = <<>> /\ UNCHANGED <<queue, batch, drained, service, logMishaps, emitted, lost>>
        /\ cleared' = (1..emitted) \ (lost \cup RecordsIn(queue) \cup RecordsIn(batch))
    BY DEF ClearLogs, handler
  <1>2. LogCounted'
    BY <1>1 DEF LogCounted
  <1>3. Len(logs') = 0 /\ Len(logs) \in Nat /\ Len(queue) \in Nat /\ Len(batch) \in Nat
        /\ emitted \in Nat
    BY <1>1, NoRecords, LenProperties DEF LogOrdered, LogCounted
  <1>4. Len(logs') + Len(batch') + Len(queue') <= emitted'
    BY <1>1, <1>3 DEF LogOrdered
  <1>5. LogOrdered'
    BY <1>1, <1>4, NoRecords DEF LogOrdered
  <1>6. (1..emitted') \ Kept' = {}
    BY <1>1 DEF Kept
  <1>7. TrimmedIsOlder'
    BY <1>6 DEF TrimmedIsOlder
  <1> QED BY <1>2, <1>5, <1>7

-----------------------------------------------------------------------------
(* The forwarder: every step keeps it.                                     *)

ForwardHolds == emitted \in Nat /\ OnePlace /\ ForwardedOnce

\* The forwarder's counters account for what it was handed.
Tally(f) == f.sent + f.errors + f.dropped + Len(f.queue)
Accounted(f, n) ==
  (f.sending = NULL => n = Tally(f)) /\ (f.sending # NULL => n = Tally(f) + 1)

LEMMA CountedOneMore ==
  ASSUME NEW f, NEW g, NEW a \in Nat, NEW b \in Nat, NEW c \in Nat, NEW d \in Nat,
         f.sent = a, f.errors = b, f.dropped = c, Len(f.queue) = d,
         g.sent = a, g.errors = b,
         \/ g.dropped = c + 1 /\ Len(g.queue) = d
         \/ g.dropped = c /\ Len(g.queue) = d + 1
  PROVE  Tally(g) = Tally(f) + 1 /\ Tally(f) \in Nat
  BY DEF Tally

LEMMA CountersAccount ==
  ASSUME NEW f \in Forwarders, NEW n
  PROVE  Accounted(f, n) <=>
           n = f.sent + f.errors + f.dropped + Len(f.queue)
                 + (IF f.sending = NULL THEN 0 ELSE 1)
  <1>1. {f.sent, f.errors, f.dropped, Len(f.queue)} \subseteq Nat
    BY LenProperties DEF Forwarders
  <1>2. CASE f.sending = NULL
    BY <1>1, <1>2 DEF Accounted, Tally
  <1>3. CASE f.sending # NULL
    BY <1>1, <1>3 DEF Accounted, Tally
  <1> QED BY <1>2, <1>3

LEMMA OnceAccounted ==
  ASSUME OnePlace, ForwardedOnce, forward # NULL
  PROVE  Accounted(forward, handed)
  BY CountersAccount DEF OnePlace, ForwardedOnce

\* What ForwardedOnce asks of a step.
LEMMA AccountedOnce ==
  ASSUME \A i, j \in DOMAIN received' : received'[i] = received'[j] => i = j,
         forward' # NULL => forward' \in Forwarders /\ Accounted(forward', handed')
  PROVE  ForwardedOnce'
  BY CountersAccount DEF ForwardedOnce

LEMMA ForwarderTyped ==
         /\ NULL \notin Nat
         /\ \A f \in Forwarders : f # NULL /\ f.queue \in Seq(Nat)
              /\ f.sending \in Nat \cup {NULL} /\ {f.sent, f.dropped, f.errors} \subseteq Nat
         /\ NewForwarder \in Forwarders
         /\ NewForwarder.queue = <<>> /\ NewForwarder.sending = NULL
         /\ Accounted(NewForwarder, 0)
  <1>1. <<>> \in Seq(Nat) /\ Len(<<>>) = 0
    OBVIOUS
  <1>2. NULL \notin Nat /\ NULL \notin Forwarders
    BY AppLogAssumption
  <1>3. NewForwarder \in Forwarders
    BY <1>1 DEF Forwarders, NewForwarder, Forwarder
  <1>4. NewForwarder.queue = <<>> /\ NewForwarder.sending = NULL
        /\ Accounted(NewForwarder, 0)
    BY <1>1 DEF NewForwarder, Forwarder, Accounted, Tally
  <1>5. \A f \in Forwarders : f.queue \in Seq(Nat)
          /\ f.sending \in Nat \cup {NULL} /\ {f.sent, f.dropped, f.errors} \subseteq Nat
    BY DEF Forwarders
  <1> QED BY <1>2, <1>3, <1>4, <1>5

\* The thread takes the oldest line.
LEMMA LineTaken ==
  ASSUME NEW n \in Nat, NEW s \in Seq(1..n), s # <<>>, Rising(s)
  PROVE  /\ Head(s) \in 1..n /\ Tail(s) \in Seq(1..n) /\ Len(Tail(s)) = Len(s) - 1
         /\ RecordsIn(s) = {Head(s)} \cup RecordsIn(Tail(s))
         /\ Head(s) \notin RecordsIn(Tail(s)) /\ Rising(Tail(s))
  <1> DEFINE t == Tail(s)
  <1>1. Head(s) \in 1..n /\ t \in Seq(1..n) /\ Len(t) = Len(s) - 1 /\ Head(s) = s[1]
    BY HeadTailProperties
  <1>2. \A i \in 1..Len(t) : t[i] = s[i + 1]
    BY HeadTailProperties
  <1>3. DOMAIN s = 1..Len(s) /\ DOMAIN t = 1..Len(t) /\ Len(s) \in Nat /\ Len(t) \in Nat
        /\ Len(s) > 0
    BY <1>1, EmptySeq
  <1> HIDE DEF t
  <1>4. \A i \in DOMAIN t : t[i] = s[i + 1] /\ i + 1 \in DOMAIN s /\ i > 0
    BY <1>1, <1>2, <1>3
  <1>5. ASSUME NEW i \in DOMAIN s, i # 1 PROVE i - 1 \in DOMAIN t /\ s[i] = t[i - 1]
    <2>1. i - 1 \in DOMAIN t /\ (i - 1) + 1 = i
      BY <1>1, <1>3, <1>5
    <2> QED BY <1>4, <2>1
  <1>6. RecordsIn(s) = {Head(s)} \cup RecordsIn(t)
    <2>1. 1 \in DOMAIN s
      BY <1>3
    <2>2. {Head(s)} \cup RecordsIn(t) \subseteq RecordsIn(s)
      BY <1>1, <1>4, <2>1 DEF RecordsIn
    <2>3. RecordsIn(s) \subseteq {Head(s)} \cup RecordsIn(t)
      BY <1>1, <1>5 DEF RecordsIn
    <2> QED BY <2>2, <2>3
  <1>7. ASSUME NEW i \in DOMAIN t PROVE Head(s) < t[i]
    <2>1. 1 \in DOMAIN s /\ i + 1 \in DOMAIN s /\ 1 < i + 1 /\ t[i] = s[i + 1]
      BY <1>3, <1>4
    <2> QED BY <1>1, <2>1 DEF Rising
  <1>8. Head(s) \notin RecordsIn(t)
    BY <1>1, <1>7 DEF RecordsIn
  <1>9. Rising(t)
    BY <1>3, <1>4 DEF Rising
  <1> QED BY <1>1, <1>6, <1>8, <1>9 DEF t

\* The collector receives a line it has not got.
LEMMA LineReceived ==
  ASSUME NEW n \in Nat, NEW s \in Seq(1..n), NEW x \in 1..n, x \notin RecordsIn(s),
         \A i, j \in DOMAIN s : s[i] = s[j] => i = j
  PROVE  /\ Append(s, x) \in Seq(1..n)
         /\ RecordsIn(Append(s, x)) = RecordsIn(s) \cup {x}
         /\ \A i, j \in DOMAIN Append(s, x) : Append(s, x)[i] = Append(s, x)[j] => i = j
  <1> DEFINE t == Append(s, x)
  <1>1. t \in Seq(1..n) /\ Len(t) = Len(s) + 1
    OBVIOUS
  <1>2. DOMAIN s = 1..Len(s) /\ DOMAIN t = 1..(Len(s) + 1) /\ Len(s) \in Nat
    BY <1>1
  <1>3. \A j \in DOMAIN t : t[j] = IF j = Len(s) + 1 THEN x ELSE s[j]
    BY <1>1, <1>2
  <1> HIDE DEF t
  <1>4. RecordsIn(t) = RecordsIn(s) \cup {x}
    <2>1. ASSUME NEW j \in DOMAIN t, t[j] # x PROVE j \in DOMAIN s /\ t[j] = s[j]
      <3>1. j # Len(s) + 1 /\ t[j] = s[j]
        BY <1>3, <2>1
      <3> QED BY <1>2, <3>1
    <2>2. \A j \in DOMAIN s : j \in DOMAIN t /\ t[j] = s[j]
      BY <1>2, <1>3
    <2>3. Len(s) + 1 \in DOMAIN t /\ t[Len(s) + 1] = x
      BY <1>2, <1>3
    <2> QED BY <2>1, <2>2, <2>3 DEF RecordsIn
  <1>5. \A i, j \in DOMAIN t : t[i] = t[j] => i = j
    BY <1>2, <1>3 DEF RecordsIn
  <1> QED BY <1>1, <1>4, <1>5 DEF t

\* emit() of the forwarder, or of the log alone.
LEMMA EmittedForwards ==
  ASSUME ForwardHolds, UNCHANGED <<service, late, received>>,
         emitted' = emitted + 1,
         \/ UNCHANGED <<forward, handed>>
         \/ forward # NULL /\ forward' = Enqueued(emitted + 1) /\ handed' = handed + 1
  PROVE  ForwardHolds'
  <1> USE DEF ForwardHolds
  <1> DEFINE n == emitted
  <1>1. n \in Nat /\ n' = n + 1 /\ n' \in Nat
    OBVIOUS
  <1>2. received' \in Seq(1..n') /\ late' \subseteq 1..n'
    BY <1>1, SeqMonotonic DEF OnePlace
  <1>3. RecordsIn(received) \subseteq 1..n /\ late \subseteq 1..n
    BY <1>1, RecordsAreBelow DEF OnePlace
  <1>4. CASE UNCHANGED <<forward, handed>>
    <2>1. forward # NULL => forward.queue \in Seq(1..n')
      BY <1>1, SeqMonotonic DEF OnePlace
    <2>2. UnderWay' = UnderWay
      BY <1>4 DEF UnderWay
    <2>3. OnePlace'
      BY <1>1, <1>2, <1>4, <2>1, <2>2 DEF OnePlace
    <2>4. ForwardedOnce'
      BY <1>4 DEF ForwardedOnce
    <2> QED BY <1>1, <2>3, <2>4
  <1>5. CASE forward # NULL /\ forward' = Enqueued(n + 1) /\ handed' = handed + 1
    <2>1. /\ forward \in Forwarders /\ forward.queue \in Seq(1..n)
          /\ Rising(forward.queue) /\ handed \in 0..n /\ service # "gone"
          /\ Len(forward.queue) <= MaxQueue
      BY <1>5 DEF OnePlace
    <2>2. Accounted(forward, handed)
      BY <1>5, OnceAccounted
    <2>3. /\ forward.sent \in Nat /\ forward.dropped \in Nat /\ forward.errors \in Nat
          /\ forward.sending \in Nat \cup {NULL} /\ NULL \notin Nat
          /\ Len(forward.queue) \in Nat /\ MaxQueue \in Nat
      BY AppLogAssumption, <2>1, ForwarderTyped, LenProperties
    <2>4. CASE Len(forward.queue) < MaxQueue
      <3> DEFINE q == Append(forward.queue, n + 1)
      <3>1. forward' = [forward EXCEPT !.queue = Append(@, n + 1)]
        BY <1>5, <2>4 DEF Enqueued
      <3>2. /\ q \in Seq(1..n') /\ Len(q) = Len(forward.queue) + 1 /\ Rising(q)
            /\ RecordsIn(q) = RecordsIn(forward.queue) \cup {n + 1}
        BY <1>1, <2>1, RowAppended
      <3>3. q \in Seq(Nat)
        BY <1>1, <3>2, SeqMonotonic
      <3> HIDE DEF q
      <3>4. /\ forward' \in Forwarders /\ forward'.queue = q
            /\ forward'.sending = forward.sending /\ forward'.sent = forward.sent
            /\ forward'.dropped = forward.dropped /\ forward'.errors = forward.errors
        BY <2>1, <3>1, <3>3 DEF Forwarders, q
      <3>5. forward' # NULL
        BY <3>4, ForwarderTyped
      <3>6. UnderWay' = UnderWay \cup {n + 1}
        BY <1>5, <3>2, <3>4, <3>5 DEF UnderWay
      <3>7. Accounted(forward', handed')
        <4>1. handed' = handed + 1 /\ handed \in Nat
          BY <1>5, <2>1
        <4>2. Tally(forward') = Tally(forward) + 1 /\ Tally(forward) \in Nat
          BY <2>3, <3>2, <3>4, CountedOneMore
        <4> QED BY <2>2, <3>4, <4>1, <4>2 DEF Accounted
      <3>8. ForwardedOnce'
        BY <3>4, <3>7, AccountedOnce DEF ForwardedOnce
      <3>9. forward.sending # NULL => forward.sending \in 1..n
                                     /\ forward.sending \notin RecordsIn(q)
        BY <1>1, <1>5, <3>2 DEF OnePlace
      <3>10. UnderWay' \cap late' = {} /\ UnderWay' \cap RecordsIn(received') = {}
        BY <1>1, <1>3, <3>6 DEF OnePlace
      <3>11. Len(q) <= MaxQueue /\ handed' \in 0..n'
        BY <1>1, <1>5, <2>1, <2>3, <2>4, <3>2
      <3>12. OnePlace'
        <4>1. /\ forward'.queue \in Seq(1..n') /\ Rising(forward'.queue)
              /\ Len(forward'.queue) <= MaxQueue
          BY <3>2, <3>4, <3>11
        <4>2. forward'.sending # NULL => /\ forward'.sending \in 1..n'
                                         /\ forward'.sending \notin RecordsIn(forward'.queue)
          BY <1>1, <3>4, <3>9
        <4>3. late' \cap RecordsIn(received') = {} /\ service' # "gone"
          BY <2>1 DEF OnePlace
        <4> QED BY <1>2, <3>4, <3>5, <3>10, <3>11, <4>1, <4>2, <4>3 DEF OnePlace
      <3> QED BY <1>1, <3>8, <3>12
    <2>5. CASE ~(Len(forward.queue) < MaxQueue)
      <3>1. forward' = [forward EXCEPT !.dropped = @ + 1]
        BY <1>5, <2>5 DEF Enqueued
      <3> DEFINE d == forward.dropped + 1
      <3>9. forward' = [forward EXCEPT !.dropped = d] /\ d \in Nat
        BY <2>3, <3>1
      <3> HIDE DEF d
      <3>10. /\ forward' \in Forwarders /\ forward'.queue = forward.queue
             /\ forward'.sending = forward.sending /\ forward'.sent = forward.sent
             /\ forward'.dropped = d /\ forward'.errors = forward.errors
        BY <2>1, <3>9 DEF Forwarders
      <3>2. /\ forward' \in Forwarders /\ forward'.queue = forward.queue
            /\ forward'.sending = forward.sending /\ forward'.sent = forward.sent
            /\ forward'.dropped = forward.dropped + 1 /\ forward'.errors = forward.errors
        BY <3>10 DEF d
      <3>3. forward' # NULL
        BY <3>2, ForwarderTyped
      <3>4. UnderWay' = UnderWay
        BY <1>5, <3>2, <3>3 DEF UnderWay
      <3>5. Accounted(forward', handed')
        <4>1. handed' = handed + 1 /\ handed \in Nat
          BY <1>5, <2>1
        <4>2. Tally(forward') = Tally(forward) + 1 /\ Tally(forward) \in Nat
          BY <2>3, <3>2, CountedOneMore
        <4> QED BY <2>2, <3>2, <4>1, <4>2 DEF Accounted
      <3>6. ForwardedOnce'
        BY <3>2, <3>5, AccountedOnce DEF ForwardedOnce
      <3>7. forward.queue \in Seq(1..n') /\ handed' \in 0..n'
        BY <1>1, <1>5, <2>1, SeqMonotonic
      <3>8. OnePlace'
        BY <1>1, <1>2, <1>5, <2>1, <3>2, <3>3, <3>4, <3>7 DEF OnePlace
      <3> QED BY <1>1, <3>6, <3>8
    <2> QED BY <2>4, <2>5
  <1> QED BY <1>4, <1>5

\* A fresh forwarder, or none, has nothing under way and was handed nothing.
LEMMA FreshForwarder ==
  ASSUME forward \in {NewForwarder, NULL}
  PROVE  UnderWay = {}
  BY ForwarderTyped, NoRecords DEF UnderWay

\* configure_forwarding, the end of the process and its start put one in place.
LEMMA ReplacedForwards ==
  ASSUME ForwardHolds, emitted' \in Nat, emitted <= emitted',
         forward' \in {NewForwarder, NULL}, handed' = 0, received' = received,
         service' = "gone" => forward' = NULL,
         late' \subseteq late \cup UnderWay
  PROVE  ForwardHolds'
  <1> USE DEF ForwardHolds
  <1>1. UnderWay' = {}
    BY ForwarderTyped, NoRecords DEF UnderWay
  <1>2. UnderWay \subseteq 1..emitted
    BY RecordsAreBelow DEF OnePlace, UnderWay
  <1>3. late' \subseteq 1..emitted' /\ received' \in Seq(1..emitted') /\ handed' \in 0..emitted'
    BY <1>2, SeqMonotonic DEF OnePlace
  <1>4. late' \cap RecordsIn(received') = {}
    BY DEF OnePlace
  <1>5. /\ forward' \in Forwarders \cup {NULL}
        /\ forward' # NULL =>
             /\ forward'.queue = <<>> /\ forward'.sending = NULL /\ Accounted(forward', 0)
    BY ForwarderTyped
  <1>6. Len(<<>>) <= MaxQueue
    BY AppLogAssumption, NoRecords
  <1>7. OnePlace'
    BY <1>1, <1>3, <1>4, <1>5, <1>6, NoRecords DEF OnePlace
  <1>8. ForwardedOnce'
    BY <1>5, AccountedOnce DEF ForwardedOnce
  <1> QED BY <1>7, <1>8

\* What a step of the forwarder's thread leaves.
LEMMA ThreadForwards ==
  ASSUME ForwardHolds,
         UNCHANGED <<service, emitted, late, handed>>,
         forward # NULL, forward' \in Forwarders,
         forward'.queue \in Seq(1..emitted), Rising(forward'.queue),
         Len(forward'.queue) <= MaxQueue,
         forward'.sending # NULL =>
           forward'.sending \in 1..emitted
             /\ forward'.sending \notin RecordsIn(forward'.queue),
         Accounted(forward', handed),
         received' \in Seq(1..emitted),
         \A i, j \in DOMAIN received' : received'[i] = received'[j] => i = j,
         NEW sent \in SUBSET UnderWay, UnderWay' \subseteq UnderWay \ sent,
         RecordsIn(received') \subseteq RecordsIn(received) \cup sent
  PROVE  ForwardHolds'
  <1> USE DEF ForwardHolds
  <1>1. forward' # NULL
    BY ForwarderTyped
  <1>2. /\ UnderWay' \cap late' = {} /\ UnderWay' \cap RecordsIn(received') = {}
        /\ late' \cap RecordsIn(received') = {}
    BY DEF OnePlace
  <1>3. late' \subseteq 1..emitted' /\ handed' \in 0..emitted' /\ service' # "gone"
    BY DEF OnePlace
  <1>4. OnePlace'
    BY <1>1, <1>2, <1>3 DEF OnePlace
  <1>5. ForwardedOnce'
    BY AccountedOnce
  <1> QED BY <1>4, <1>5

LEMMA TakeForwards ==
  ASSUME ForwardHolds, TakeLine
  PROVE  ForwardHolds'
  <1> USE DEF ForwardHolds
  <1> DEFINE n == emitted
             q == Tail(forward.queue)
             x == Head(forward.queue)
  <1>1. /\ forward # NULL /\ forward.sending = NULL /\ forward.queue # <<>>
        /\ forward' = [forward EXCEPT !.sending = x, !.queue = q]
        /\ UNCHANGED <<service, emitted, late, handed, received>>
    BY DEF TakeLine, ForwardAside
  <1>2. /\ forward \in Forwarders /\ forward.queue \in Seq(1..n) /\ Rising(forward.queue)
        /\ Len(forward.queue) <= MaxQueue
    BY <1>1 DEF OnePlace
  <1>3. /\ x \in 1..n /\ q \in Seq(1..n) /\ Len(q) = Len(forward.queue) - 1
        /\ RecordsIn(forward.queue) = {x} \cup RecordsIn(q)
        /\ x \notin RecordsIn(q) /\ Rising(q)
    BY <1>1, <1>2, LineTaken
  <1>4. q \in Seq(Nat) /\ x \in Nat /\ x # NULL
    <2>1. 1..n \subseteq Nat
      BY DEF n
    <2> QED BY <1>3, <2>1, SeqMonotonic, ForwarderTyped
  <1> HIDE DEF q, x
  <1>5. /\ forward' \in Forwarders /\ forward'.queue = q /\ forward'.sending = x
        /\ forward'.sent = forward.sent /\ forward'.dropped = forward.dropped
        /\ forward'.errors = forward.errors
    BY <1>1, <1>2, <1>4 DEF Forwarders
  <1>6. forward' # NULL
    BY <1>5, ForwarderTyped
  <1>7. UnderWay' = UnderWay
    BY <1>1, <1>3, <1>4, <1>5, <1>6 DEF UnderWay
  <1>8. Accounted(forward', handed)
    <2>1. /\ {forward.sent, forward.dropped, forward.errors} \subseteq Nat
          /\ Len(q) \in Nat /\ Len(forward.queue) = Len(q) + 1
      BY <1>2, <1>3, LenProperties DEF Forwarders
    <2>2. Tally(forward) = Tally(forward') + 1
      BY <1>3, <1>5, <2>1, CountedOneMore
    <2> QED BY <1>1, <1>4, <1>5, <2>2, OnceAccounted DEF Accounted
  <1>9. Len(q) <= MaxQueue
    BY AppLogAssumption, <1>2, <1>3, LenProperties
  <1>10. received' \in Seq(1..n)
         /\ \A i, j \in DOMAIN received' : received'[i] = received'[j] => i = j
    BY <1>1 DEF OnePlace, ForwardedOnce
  <1> QED BY <1>1, <1>3, <1>5, <1>7, <1>8, <1>9, <1>10, ThreadForwards

LEMMA SendForwards ==
  ASSUME ForwardHolds, SendLine \/ SendFails
  PROVE  ForwardHolds'
  <1> USE DEF ForwardHolds
  <1> DEFINE n == emitted
             x == forward.sending
             a == IF SendLine THEN 1 ELSE 0
  <1>1. /\ forward # NULL /\ x # NULL /\ UNCHANGED <<service, emitted, late, handed>>
        /\ received' \in {received, Append(received, x)}
        /\ \/ forward' = [forward EXCEPT !.sending = NULL, !.sent = @ + 1]
           \/ forward' = [forward EXCEPT !.sending = NULL, !.errors = @ + 1]
    BY DEF SendLine, SendFails, ForwardAside
  <1>2. /\ forward \in Forwarders /\ forward.queue \in Seq(1..n) /\ Rising(forward.queue)
        /\ Len(forward.queue) <= MaxQueue
        /\ x \in 1..n /\ x \notin RecordsIn(forward.queue)
    BY <1>1 DEF OnePlace
  <1>3. {forward.sent, forward.dropped, forward.errors, Len(forward.queue)} \subseteq Nat
    BY <1>2, LenProperties DEF Forwarders
  <1>4. /\ forward' \in Forwarders /\ forward'.queue = forward.queue
        /\ forward'.sending = NULL /\ Tally(forward') = Tally(forward) + 1
    <2>1. CASE forward' = [forward EXCEPT !.sending = NULL, !.sent = @ + 1]
      <3> DEFINE d == forward.sent + 1
      <3>1. d \in Nat /\ forward' = [forward EXCEPT !.sending = NULL, !.sent = d]
        BY <1>3, <2>1
      <3> HIDE DEF d
      <3>2. /\ forward' \in Forwarders /\ forward'.queue = forward.queue
            /\ forward'.sending = NULL /\ forward'.sent = d
            /\ forward'.dropped = forward.dropped /\ forward'.errors = forward.errors
        BY <1>2, <3>1 DEF Forwarders
      <3> QED BY <1>3, <3>2 DEF Tally, d
    <2>2. CASE forward' = [forward EXCEPT !.sending = NULL, !.errors = @ + 1]
      <3> DEFINE d == forward.errors + 1
      <3>1. d \in Nat /\ forward' = [forward EXCEPT !.sending = NULL, !.errors = d]
        BY <1>3, <2>2
      <3> HIDE DEF d
      <3>2. /\ forward' \in Forwarders /\ forward'.queue = forward.queue
            /\ forward'.sending = NULL /\ forward'.errors = d
            /\ forward'.dropped = forward.dropped /\ forward'.sent = forward.sent
        BY <1>2, <3>1 DEF Forwarders
      <3> QED BY <1>3, <3>2 DEF Tally, d
    <2> QED BY <1>1, <2>1, <2>2
  <1>5. forward' # NULL
    BY <1>4, ForwarderTyped
  <1>6. x \in UnderWay /\ UnderWay' = UnderWay \ {x}
    BY <1>1, <1>2, <1>4, <1>5 DEF UnderWay
  <1>7. Accounted(forward', handed)
    BY <1>1, <1>4, OnceAccounted DEF Accounted
  <1>8. received \in Seq(1..n) /\ x \notin RecordsIn(received)
        /\ \A i, j \in DOMAIN received : received[i] = received[j] => i = j
    BY <1>6 DEF OnePlace, ForwardedOnce
  <1> HIDE DEF x
  <1>9. received' \in Seq(1..n)
        /\ RecordsIn(received') \subseteq RecordsIn(received) \cup {x}
        /\ \A i, j \in DOMAIN received' : received'[i] = received'[j] => i = j
    <2>1. CASE received' = received
      BY <1>8, <2>1
    <2>2. CASE received' = Append(received, x)
      BY <1>2, <1>8, <2>2, LineReceived
    <2> QED BY <1>1, <2>1, <2>2
  <1>10. {x} \in SUBSET UnderWay /\ UnderWay' \subseteq UnderWay \ {x}
    BY <1>6
  <1> QED BY <1>1, <1>2, <1>4, <1>7, <1>9, <1>10, ThreadForwards

\* A line that a replaced forwarder was sending goes out, or does not.
LEMMA LateForwards ==
  ASSUME ForwardHolds, NEW line, LateLine(line)
  PROVE  ForwardHolds'
  <1> USE DEF ForwardHolds
  <1>1. /\ line \in late /\ late' = late \ {line}
        /\ received' \in {received, Append(received, line)}
        /\ UNCHANGED <<service, emitted, forward, handed>>
    BY DEF LateLine, ForwardAside
  <1>2. /\ line \in 1..emitted /\ received \in Seq(1..emitted)
        /\ line \notin RecordsIn(received) /\ line \notin UnderWay
        /\ \A i, j \in DOMAIN received : received[i] = received[j] => i = j
    BY <1>1 DEF OnePlace, ForwardedOnce
  <1>3. received' \in Seq(1..emitted)
        /\ RecordsIn(received') \subseteq RecordsIn(received) \cup {line}
        /\ \A i, j \in DOMAIN received' : received'[i] = received'[j] => i = j
    <2>1. CASE received' = received
      BY <1>2, <2>1
    <2>2. CASE received' = Append(received, line)
      BY <1>2, <2>2, LineReceived
    <2> QED BY <1>1, <2>1, <2>2
  <1>4. UnderWay' = UnderWay
    BY <1>1 DEF UnderWay
  <1>5. OnePlace'
    BY <1>1, <1>2, <1>3, <1>4 DEF OnePlace
  <1>6. ForwardedOnce'
    BY <1>1, <1>3 DEF ForwardedOnce
  <1> QED BY <1>1, <1>5, <1>6

-----------------------------------------------------------------------------
(* The log: the theorem.                                                   *)

LogIInv == HandlerHolds /\ ForwardHolds

LEMMA LogInitInv == LogInit => LogIInv
  <1> SUFFICES ASSUME LogInit PROVE LogIInv
    OBVIOUS
  <1>1. /\ service = "up" /\ queue = <<>> /\ batch = <<>> /\ logs = <<>> /\ received = <<>>
        /\ drained = FALSE /\ logMishaps = 0 /\ emitted = 0 /\ lost = {} /\ cleared = {}
        /\ forward = NewForwarder /\ late = {} /\ handed = 0
    BY DEF LogInit
  <1>2. LogCounted
    <2>1. 0 \in 0..MaxRecords /\ 0 \in 0..MaxLogMishaps
      BY AppLogAssumption
    <2>2. logMishaps \in 0..MaxLogMishaps /\ emitted \in 0..MaxRecords
      BY <1>1, <2>1
    <2>3. service \in {"up", "stopping", "gone"} /\ drained \in BOOLEAN
      BY <1>1
    <2>4. lost \subseteq 1..emitted /\ cleared \subseteq 1..emitted
      BY <1>1
    <2> QED BY <2>2, <2>3, <2>4 DEF LogCounted
  <1>3. LogOrdered
    BY <1>1, NoRecords DEF LogOrdered
  <1>4. TrimmedIsOlder
    BY <1>1 DEF TrimmedIsOlder
  <1>5. UnderWay = {}
    BY <1>1, FreshForwarder
  <1>6. Len(<<>>) <= MaxQueue
    BY AppLogAssumption, NoRecords
  <1>7. /\ forward # NULL /\ forward \in Forwarders /\ forward.queue = <<>>
        /\ forward.sending = NULL /\ Accounted(forward, 0)
    BY <1>1, ForwarderTyped
  <1>8. OnePlace
    BY <1>1, <1>5, <1>6, <1>7, NoRecords DEF OnePlace
  <1>9. ForwardedOnce
    BY <1>1, <1>7, CountersAccount, NoRecords DEF ForwardedOnce
  <1> QED BY <1>1, <1>2, <1>3, <1>4, <1>8, <1>9 DEF LogIInv, HandlerHolds, ForwardHolds

LEMMA HandlerAside ==
  ASSUME HandlerHolds, LogCounted', UNCHANGED <<queue, batch, logs, emitted, lost, cleared>>
  PROVE  HandlerHolds'
  <1>1. LogOrdered'
    BY DEF HandlerHolds, LogOrdered
  <1>2. Kept' = Kept
    BY DEF Kept
  <1>3. TrimmedIsOlder'
    BY <1>2 DEF HandlerHolds, TrimmedIsOlder
  <1> QED BY <1>1, <1>3 DEF HandlerHolds

LEMMA ForwardingAside ==
  ASSUME ForwardHolds, UNCHANGED <<forward, late, handed, received, emitted>>,
         service' = "gone" => service = "gone"
  PROVE  ForwardHolds'
  <1>1. UnderWay' = UnderWay
    BY DEF UnderWay
  <1>2. OnePlace'
    BY <1>1 DEF ForwardHolds, OnePlace
  <1>3. ForwardedOnce'
    BY DEF ForwardHolds, ForwardedOnce
  <1> QED BY <1>2, <1>3 DEF ForwardHolds

LEMMA MishapCounted ==
  ASSUME LogCounted, LogMishap
  PROVE  logMishaps' \in 0..MaxLogMishaps
  BY AppLogAssumption DEF LogCounted, LogMishap

LEMMA LogSteps ==
  ASSUME LogIInv, [LogNext]_logVars
  PROVE  LogIInv'
  <1> USE DEF LogIInv
  <1>0. LogCounted /\ emitted \in Nat
    BY DEF HandlerHolds, ForwardHolds
  <1>1. CASE Drain \/ Store \/ ClearLogs
    <2>1. HandlerHolds'
      BY <1>1, DrainKeeps, StoreKeeps, ClearKeeps
    <2>2. UNCHANGED <<forward, late, handed, received, emitted, service>>
      BY <1>1 DEF Drain, Store, ClearLogs, forwarding
    <2> QED BY <2>1, <2>2, ForwardingAside
  <1>2. CASE StoreFails
    <2>1. /\ batch' = <<>> /\ lost' = lost \cup RecordsIn(batch) /\ LogMishap
          /\ UNCHANGED <<service, queue, drained, logs, emitted, cleared, forward, late,
                         handed, received>>
      BY <1>2 DEF StoreFails, forwarding
    <2>2. LogCounted'
      <3>1. lost' \subseteq 1..emitted
        BY <1>0, <2>1, RecordsAreBelow DEF HandlerHolds, LogOrdered, LogCounted
      <3> QED BY <1>0, <2>1, <3>1, MishapCounted DEF LogCounted
    <2> QED BY <2>1, <2>2, LostKeeps, ForwardingAside
  <1>3. CASE TakeLine \/ SendLine \/ SendFails \/ \E line \in late : LateLine(line)
    <2>1. ForwardHolds'
      BY <1>3, TakeForwards, SendForwards, LateForwards
    <2>2. /\ UNCHANGED <<service, queue, batch, drained, logs, emitted, lost, cleared>>
          /\ logMishaps' = logMishaps \/ LogMishap
      BY <1>3 DEF TakeLine, SendLine, SendFails, LateLine, ForwardAside,
                  handler
    <2>3. LogCounted'
      BY <1>0, <2>2, MishapCounted DEF LogCounted
    <2> QED BY <2>1, <2>2, <2>3, HandlerAside
  <1>4. CASE Configure
    <2>1. /\ service = "up" /\ LogMishap /\ forward' \in {NewForwarder, NULL}
          /\ emitted < MaxRecords /\ emitted' = emitted + 1
          /\ queue' = Append(queue, emitted + 1) /\ handed' = 0
          /\ UNCHANGED <<service, batch, drained, logs, lost, cleared, received>>
      BY <1>4 DEF Configure
    <2>2. late' \subseteq late \cup UnderWay
      BY <1>4 DEF Configure, UnderWay
    <2>3. LogCounted'
      BY AppLogAssumption, <1>0, <2>1, MishapCounted DEF LogCounted
    <2>4. HandlerHolds'
      BY <2>1, <2>3, EmittedKeeps
    <2>5. emitted' \in Nat /\ emitted <= emitted' /\ service' # "gone"
      BY <1>0, <2>1
    <2>6. ForwardHolds'
      BY <2>1, <2>2, <2>5, ReplacedForwards
    <2> QED BY <2>4, <2>6
  <1>5. CASE Say
    <2>1. PICK own \in BOOLEAN : Emit(own)
      BY <1>5 DEF Say
    <2>2. /\ emitted < MaxRecords /\ emitted' = emitted + 1
          /\ queue' = Append(queue, emitted + 1)
          /\ \/ UNCHANGED <<forward, handed>>
             \/ forward # NULL /\ forward' = Enqueued(emitted + 1) /\ handed' = handed + 1
      BY <2>1 DEF Emit
    <2>3. UNCHANGED <<service, batch, drained, logs, logMishaps, lost, cleared, late, received>>
      BY <1>5 DEF Say
    <2>4. LogCounted'
      BY AppLogAssumption, <1>0, <2>2, <2>3 DEF LogCounted
    <2>5. HandlerHolds'
      BY <2>2, <2>3, <2>4, EmittedKeeps
    <2>6. ForwardHolds'
      BY <2>2, <2>3, EmittedForwards
    <2> QED BY <2>5, <2>6
  <1>6. CASE ProcessExits \/ ProcessKilled
    <2>1. ProcessGone /\ (logMishaps' = logMishaps \/ LogMishap)
      BY <1>6 DEF ProcessExits, ProcessKilled
    <2>2. /\ service' = "gone" /\ queue' = <<>> /\ batch' = <<>> /\ drained' = FALSE
          /\ lost' = lost \cup RecordsIn(queue) \cup RecordsIn(batch)
          /\ forward' = NULL /\ late' = {} /\ handed' = 0
          /\ UNCHANGED <<logs, emitted, cleared, received>>
      BY <2>1 DEF ProcessGone
    <2>3. LogCounted'
      <3>1. lost' \subseteq 1..emitted
        BY <1>0, <2>2, RecordsAreBelow DEF HandlerHolds, LogOrdered, LogCounted
      <3> QED BY <1>0, <2>1, <2>2, <3>1, MishapCounted DEF LogCounted
    <2>4. HandlerHolds'
      BY <2>2, <2>3, LostKeeps
    <2>5. emitted' \in Nat /\ emitted <= emitted'
      BY <1>0, <2>2
    <2>6. ForwardHolds'
      BY <2>2, <2>5, ReplacedForwards
    <2> QED BY <2>4, <2>6
  <1>7. CASE ProcessStarts
    <2>1. /\ service = "gone" /\ service' = "up" /\ forward' \in {NewForwarder, NULL}
          /\ UNCHANGED <<queue, batch, drained, logs, logMishaps, emitted, lost, cleared, late,
                         handed, received>>
      BY <1>7 DEF ProcessStarts, handler
    <2>2. LogCounted'
      BY <1>0, <2>1 DEF LogCounted
    <2>3. handed' = 0
      BY <2>1 DEF ForwardHolds, OnePlace
    <2>4. emitted' \in Nat /\ emitted <= emitted'
      BY <1>0, <2>1
    <2>5. ForwardHolds'
      BY <2>1, <2>3, <2>4, ReplacedForwards
    <2> QED BY <2>1, <2>2, <2>5, HandlerAside
  <1>8. CASE StopHandler \/ UNCHANGED logVars
    <2>1. /\ service' \in {service, "stopping"}
          /\ UNCHANGED <<queue, batch, drained, logs, logMishaps, emitted, lost, cleared,
                         forward, late, handed, received>>
      BY <1>8 DEF StopHandler, logVars, handler, forwarding
    <2>2. LogCounted'
      BY <1>0, <2>1 DEF LogCounted
    <2> QED BY <2>1, <2>2, HandlerAside, ForwardingAside
  <1> QED BY <1>1, <1>2, <1>3, <1>4, <1>5, <1>6, <1>7, <1>8
      DEF LogNext, LogThread, ForwardThread

LEMMA LogInvHolds ==
  ASSUME LogIInv
  PROVE  LogInv
  <1> USE DEF LogIInv
  <1>1. LogCounted /\ LogOrdered /\ TrimmedIsOlder /\ OnePlace /\ ForwardedOnce
    BY DEF HandlerHolds, ForwardHolds
  <1>2. emitted \in Nat /\ emitted <= MaxRecords /\ MaxRecords \in Nat
    BY AppLogAssumption, <1>1 DEF LogCounted
  <1>3. ASSUME NEW s \in {queue, batch, logs}
        PROVE  s \in Seq(1..MaxRecords) /\ Len(s) <= MaxRecords
    <2>1. s \in Seq(1..emitted)
      BY <1>1 DEF LogOrdered
    <2>2. s \in Seq(1..MaxRecords)
      BY <1>2, <2>1, SeqMonotonic
    <2>3. Len(queue) \in Nat /\ Len(batch) \in Nat /\ Len(logs) \in Nat
      BY <1>1, LenProperties DEF LogOrdered
    <2>4. Len(s) <= emitted
      BY <1>1, <1>2, <2>3 DEF LogOrdered
    <2>5. Len(s) \in Nat
      BY <2>1, LenProperties
    <2> QED BY <1>2, <2>2, <2>4, <2>5
  <1>4. ASSUME forward # NULL
        PROVE  /\ Len(forward.queue) <= MaxQueue
               /\ RecordsIn(forward.queue) \subseteq 1..emitted
               /\ forward.sending \in (1..emitted) \cup {NULL}
               /\ {forward.sent, forward.dropped, forward.errors} \subseteq 0..handed
    <2>1. forward \in Forwarders /\ forward.queue \in Seq(1..emitted) /\ handed \in Nat
      BY <1>1, <1>4 DEF OnePlace
    <2>2. Accounted(forward, handed)
      BY <1>1, <1>4, OnceAccounted
    <2>3. {forward.sent, forward.dropped, forward.errors, Len(forward.queue)} \subseteq Nat
      BY <2>1, LenProperties DEF Forwarders
    <2>4. Tally(forward) <= handed
      BY <2>1, <2>2, <2>3 DEF Accounted, Tally
    <2>5. {forward.sent, forward.dropped, forward.errors} \subseteq 0..handed
      BY <2>1, <2>3, <2>4 DEF Tally
    <2>6. RecordsIn(forward.queue) \subseteq 1..emitted
      BY <2>1, RecordsAreBelow
    <2> QED BY <1>1, <1>4, <2>5, <2>6 DEF OnePlace
  <1>5. RecordsIn(received) \subseteq 1..emitted
    BY <1>1, RecordsAreBelow DEF OnePlace
  <1>6. LogTypeOK
    BY <1>1, <1>3, <1>4, <1>5 DEF LogTypeOK, LogCounted, OnePlace
  <1>7. KeepsNewest
    BY <1>1 DEF KeepsNewest, LogOrdered, TrimmedIsOlder, Rising, Over
  <1> QED BY <1>1, <1>6, <1>7 DEF LogInv

\* logging_handler.py, log_forward.py: no record vanishes from the table, is stored
\* twice or out of order but for the trim and what is lost with a failed write or the
\* process, and none is forwarded twice or uncounted: AppLog's Inv, for any table,
\* queue, number of records and of mishaps.
THEOREM LogInvariant == LogSpec => []LogInv
  <1>1. LogInit => LogIInv
    BY LogInitInv
  <1>2. LogIInv /\ [LogNext]_logVars => LogIInv'
    BY LogSteps
  <1>3. LogIInv => LogInv
    BY LogInvHolds
  <1> QED BY <1>1, <1>2, <1>3, PTL DEF LogSpec

-----------------------------------------------------------------------------
(* Backups: the inductive invariant.                                       *)

\* The snapshot of minute m is there and holds these commits.
Saved(held, m, commits) == held[m] # NULL /\ commits \subseteq held[m].db

\* A run that nobody joined is the only one; from its copy on its directory is the
\* last one changed, and holds what was committed before the run.
AloneHolds ==
  \A r \in Runners : (runs[r] # NULL /\ runs[r].alone) =>
    /\ \A q \in Runners : q # r => runs[q] = NULL
    /\ runs[r].at # "copy" =>
         /\ Len(dirs) > 0 /\ dirs[Len(dirs)] = runs[r].minute
         /\ Saved(snaps, runs[r].minute, runs[r].before)
    /\ (runs[r].at = "rotate" /\ runs[r].accepted) => snaps[runs[r].minute].sound

BeforeHolds == \A r \in Runners : runs[r] # NULL => runs[r].before \subseteq Content

Overwriting(now, m) ==
  \E r \in Runners : now[r] # NULL /\ now[r].at # "copy" /\ now[r].minute = m

\* What was reported stays, until a run that overwrites it reports in its turn.
GoodHolds ==
  (good # NULL /\ good.alone /\ good.keep > 0) =>
    /\ good.minute \in Range(dirs) /\ good.minute \in Minutes
    /\ \/ Saved(snaps, good.minute, good.before) /\ snaps[good.minute].sound
       \/ Overwriting(runs, good.minute)

\* The types, by what the steps change.
DirsTyped ==
  /\ dirs \in Seq(Minutes) /\ IsInjective(dirs)
  /\ snaps \in [Minutes -> Copies \cup {NULL}]
  /\ \A m \in Minutes : snaps[m] = NULL <=> m \notin Range(dirs)
RunsTyped == runs \in [Runners -> RunType \cup {NULL}]
RestTyped ==
  /\ file \subseteq Commits /\ wal \subseteq Commits /\ damaged \in BOOLEAN
  /\ enabled \in BOOLEAN /\ keep \in Nat
  /\ minute \in Minutes /\ backupDue \in BOOLEAN
  /\ bundle \in Copies \cup {NULL}
  /\ steps \in 0..MaxSteps

SnapIInv == DirsTyped /\ RunsTyped /\ RestTyped /\ AloneHolds /\ BeforeHolds /\ GoodHolds

-----------------------------------------------------------------------------
(* Lemmas about the directories.                                           *)

\* RemoveAt, position by position.
LEMMA DirRemoved ==
  ASSUME NEW S, NEW s \in Seq(S), NEW p \in 1..Len(s)
  PROVE  /\ RemoveAt(s, p) \in Seq(S) /\ Len(RemoveAt(s, p)) = Len(s) - 1
         /\ \A i \in 1..(Len(s) - 1) :
              RemoveAt(s, p)[i] = IF i < p THEN s[i] ELSE s[i + 1]
  <1> DEFINE a == SubSeq(s, 1, p - 1)
             b == SubSeq(s, p + 1, Len(s))
  <1>1. Len(s) \in Nat /\ p \in Nat /\ \A i \in 1..Len(s) : s[i] \in S
    BY LenProperties, ElementOfSeq
  <1>2. /\ a \in Seq(S) /\ Len(a) = p - 1
        /\ \A i \in 1..(p - 1) : a[i] = s[i]
    <2>1. \A i \in 1..(p - 1) : s[i] \in S
      BY <1>1
    <2>2. /\ a \in Seq(S) /\ Len(a) = IF 1 <= p - 1 THEN (p - 1) - 1 + 1 ELSE 0
          /\ \A i \in 1..((p - 1) - 1 + 1) : a[i] = s[1 + i - 1]
      BY <2>1, <1>1, SubSeqProperties
    <2> QED BY <2>2, <1>1
  <1>3. /\ b \in Seq(S) /\ Len(b) = Len(s) - p
        /\ \A i \in 1..(Len(s) - p) : b[i] = s[p + i]
    <2>1. \A i \in (p + 1)..Len(s) : s[i] \in S
      BY <1>1
    <2>2. /\ b \in Seq(S)
          /\ Len(b) = IF p + 1 <= Len(s) THEN Len(s) - (p + 1) + 1 ELSE 0
          /\ \A i \in 1..(Len(s) - (p + 1) + 1) : b[i] = s[(p + 1) + i - 1]
      BY <2>1, <1>1, SubSeqProperties
    <2> QED BY <2>2, <1>1
  <1>4. RemoveAt(s, p) = a \o b
    BY DEF RemoveAt
  <1> HIDE DEF a, b
  <1>5. /\ a \o b \in Seq(S) /\ Len(a \o b) = Len(a) + Len(b)
        /\ \A i \in 1..(Len(a) + Len(b)) :
             (a \o b)[i] = IF i <= Len(a) THEN a[i] ELSE b[i - Len(a)]
    BY <1>2, <1>3, ConcatProperties
  <1>6. ASSUME NEW i \in 1..(Len(s) - 1)
        PROVE  (a \o b)[i] = IF i < p THEN s[i] ELSE s[i + 1]
    <2>1. CASE i < p
      <3>1. i \in 1..(p - 1) /\ i <= Len(a) /\ i \in 1..(Len(a) + Len(b))
        BY <2>1, <1>1, <1>2, <1>3
      <3> QED BY <3>1, <2>1, <1>2, <1>5
    <2>2. CASE ~(i < p)
      <3>1. /\ i - (p - 1) \in 1..(Len(s) - p) /\ ~(i <= Len(a))
            /\ i \in 1..(Len(a) + Len(b)) /\ p + (i - (p - 1)) = i + 1
        BY <2>2, <1>1, <1>2, <1>3
      <3>2. (a \o b)[i] = b[i - (p - 1)]
        BY <3>1, <1>2, <1>5
      <3>3. b[i - (p - 1)] = s[i + 1]
        BY <3>1, <1>3
      <3> QED BY <3>2, <3>3, <2>2
    <2> QED BY <2>1, <2>2
  <1> QED BY <1>1, <1>2, <1>3, <1>4, <1>5, <1>6

\* A new directory is the last one changed.
LEMMA DirAppended ==
  ASSUME NEW s \in Seq(Minutes), IsInjective(s), NEW m \in Minutes,
         m \notin Range(s)
  PROVE  /\ Append(s, m) \in Seq(Minutes) /\ IsInjective(Append(s, m))
         /\ Range(Append(s, m)) = Range(s) \cup {m}
         /\ Len(Append(s, m)) > 0 /\ Append(s, m)[Len(Append(s, m))] = m
  <1> DEFINE t == Append(s, m)
  <1>1. t \in Seq(Minutes) /\ Len(t) = Len(s) + 1
    OBVIOUS
  <1>2. DOMAIN s = 1..Len(s) /\ DOMAIN t = 1..(Len(s) + 1) /\ Len(s) \in Nat
    BY <1>1
  <1>3. t[Len(s) + 1] = m /\ \A j \in DOMAIN s : j \in DOMAIN t /\ t[j] = s[j]
    BY <1>1, <1>2
  <1>4. ASSUME NEW j \in DOMAIN t PROVE j = Len(s) + 1 \/ j \in DOMAIN s
    BY <1>2
  <1> HIDE DEF t
  <1>5. Range(t) = Range(s) \cup {m}
    <2>1. Len(s) + 1 \in DOMAIN t
      BY <1>2
    <2> QED BY <1>3, <1>4, <2>1 DEF Range
  <1>6. IsInjective(t)
    <2> SUFFICES ASSUME NEW i \in DOMAIN t, NEW j \in DOMAIN t, t[i] = t[j] PROVE i = j
      BY DEF IsInjective
    <2>1. CASE i \in DOMAIN s /\ j \in DOMAIN s
      BY <1>3, <2>1 DEF IsInjective
    <2>2. CASE i \in DOMAIN s /\ j = Len(s) + 1
      BY <1>3, <2>2 DEF Range
    <2>3. CASE j \in DOMAIN s /\ i = Len(s) + 1
      BY <1>3, <2>3 DEF Range
    <2> QED BY <1>4, <2>1, <2>2, <2>3
  <1>7. Len(t) > 0 /\ t[Len(t)] = m
    BY <1>1, <1>2, <1>3
  <1> QED BY <1>1, <1>5, <1>6, <1>7 DEF t

\* A directory that is changed becomes the last one; the set stays.
LEMMA DirTouched ==
  ASSUME dirs \in Seq(Minutes), IsInjective(dirs), NEW m \in Range(dirs)
  PROVE  /\ Touched(m) \in Seq(Minutes) /\ IsInjective(Touched(m))
         /\ Range(Touched(m)) = Range(dirs)
         /\ Len(Touched(m)) > 0 /\ Touched(m)[Len(Touched(m))] = m
  <1> DEFINE p == CHOOSE i \in DOMAIN dirs : dirs[i] = m
             s == RemoveAt(dirs, p)
  <1>1. DOMAIN dirs = 1..Len(dirs) /\ Len(dirs) \in Nat /\ m \in Minutes
    BY LenProperties, ElementOfSeq DEF Range
  <1>2. p \in DOMAIN dirs /\ dirs[p] = m
    BY DEF Range
  <1> HIDE DEF p
  <1>3. /\ s \in Seq(Minutes) /\ Len(s) = Len(dirs) - 1
        /\ \A i \in 1..(Len(dirs) - 1) : s[i] = IF i < p THEN dirs[i] ELSE dirs[i + 1]
    BY <1>1, <1>2, DirRemoved
  <1>4. DOMAIN s = 1..(Len(dirs) - 1)
    BY <1>3, LenProperties
  <1>5. Touched(m) = Append(s, m)
    BY DEF Touched, p
  <1> HIDE DEF s
  <1> DEFINE was(i) == IF i < p THEN i ELSE i + 1
  <1>6. ASSUME NEW i \in DOMAIN s
        PROVE  was(i) \in DOMAIN dirs /\ was(i) # p /\ s[i] = dirs[was(i)]
    BY <1>1, <1>2, <1>3, <1>4
  <1>7. ASSUME NEW i \in DOMAIN s, NEW j \in DOMAIN s, was(i) = was(j)
        PROVE  i = j
    BY <1>1, <1>2, <1>4, <1>7
  <1>8. ASSUME NEW k \in DOMAIN dirs, k # p
        PROVE  \E i \in DOMAIN s : k = was(i)
    <2>1. CASE k < p
      BY <1>1, <1>2, <1>4, <2>1
    <2>2. CASE k > p
      <3>1. k - 1 \in DOMAIN s /\ was(k - 1) = k
        BY <1>1, <1>2, <1>4, <2>2
      <3> QED BY <3>1
    <2> QED BY <1>1, <1>2, <1>8, <2>1, <2>2
  <1> HIDE DEF was
  <1>9. IsInjective(s)
    BY <1>6, <1>7 DEF IsInjective
  <1>10. m \notin Range(s)
    BY <1>2, <1>6 DEF Range, IsInjective
  <1>11. Range(s) \cup {m} = Range(dirs)
    <2>1. Range(s) \subseteq Range(dirs)
      BY <1>6 DEF Range
    <2>2. Range(dirs) \subseteq Range(s) \cup {m}
      <3> SUFFICES ASSUME NEW k \in DOMAIN dirs, k # p PROVE dirs[k] \in Range(s)
        BY <1>2 DEF Range
      <3> QED BY <1>6, <1>8 DEF Range
    <2> QED BY <2>1, <2>2
  <1> QED BY <1>1, <1>3, <1>5, <1>9, <1>10, <1>11, DirAppended

\* The rotation takes no directory that it should not: the last n stay.
LEMMA DirRotated ==
  ASSUME dirs \in Seq(Minutes), IsInjective(dirs), NEW n \in Nat
  PROVE  /\ Rotated(n) \in Seq(Minutes) /\ IsInjective(Rotated(n))
         /\ Range(Rotated(n)) \subseteq Range(dirs)
         /\ (n > 0 /\ Len(dirs) > 0) => dirs[Len(dirs)] \in Range(Rotated(n))
  <1>1. DOMAIN dirs = 1..Len(dirs) /\ Len(dirs) \in Nat
        /\ \A i \in 1..Len(dirs) : dirs[i] \in Minutes
    BY LenProperties, ElementOfSeq
  <1>2. CASE Len(dirs) <= n
    <2>1. Rotated(n) = dirs
      BY <1>2 DEF Rotated
    <2>2. Len(dirs) > 0 => dirs[Len(dirs)] \in Range(dirs)
      BY <1>1 DEF Range
    <2> QED BY <2>1, <2>2
  <1>3. CASE ~(Len(dirs) <= n)
    <2> DEFINE a == Len(dirs) - n + 1
               t == SubSeq(dirs, a, Len(dirs))
    <2>1. Rotated(n) = t
      BY <1>3 DEF Rotated
    <2>2. a \in Int /\ a >= 2 /\ Len(dirs) - a + 1 = n
      BY <1>1, <1>3
    <2> HIDE DEF a
    <2>3. \A i \in a..Len(dirs) : dirs[i] \in Minutes
      BY <1>1, <2>2
    <2>4. /\ t \in Seq(Minutes) /\ Len(t) = (IF a <= Len(dirs) THEN Len(dirs) - a + 1 ELSE 0)
          /\ \A i \in 1..(Len(dirs) - a + 1) : t[i] = dirs[a + i - 1]
      BY <1>1, <2>2, <2>3, SubSeqProperties
    <2> HIDE DEF t
    <2>5. Len(t) = n
      BY <1>1, <2>2, <2>4
    <2>6. DOMAIN t = 1..n
      BY <2>4, <2>5, LenProperties
    <2>7. ASSUME NEW i \in DOMAIN t PROVE t[i] = dirs[a + i - 1] /\ a + i - 1 \in DOMAIN dirs
      <3>1. i \in 1..(Len(dirs) - a + 1)
        BY <2>2, <2>6
      <3>2. a + i - 1 \in DOMAIN dirs
        BY <1>1, <2>2, <3>1
      <3> QED BY <2>4, <3>1, <3>2
    <2>8. IsInjective(t)
      <3> SUFFICES ASSUME NEW i \in DOMAIN t, NEW j \in DOMAIN t, t[i] = t[j] PROVE i = j
        BY DEF IsInjective
      <3>1. a + i - 1 = a + j - 1
        BY <2>7 DEF IsInjective
      <3> QED BY <2>2, <2>6, <3>1
    <2>9. Range(t) \subseteq Range(dirs)
      BY <2>7 DEF Range
    <2>10. ASSUME n > 0 PROVE dirs[Len(dirs)] \in Range(t)
      <3>1. n \in DOMAIN t /\ a + n - 1 = Len(dirs)
        BY <1>1, <2>2, <2>6, <2>10
      <3> QED BY <2>7, <3>1 DEF Range
    <2> QED BY <2>1, <2>4, <2>8, <2>9, <2>10
  <1> QED BY <1>2, <1>3

-----------------------------------------------------------------------------
(* Backups: every step keeps the invariant.                                *)

LEMMA LeastMinute ==
         (CHOOSE m \in Minutes : \A n \in Minutes : m <= n) \in Minutes
  <1> DEFINE R == {s \in Nat \X Nat : s[1] < s[2]}
  <1>1. IsWellFoundedOn(R, Nat)
    BY NatLessThanWellFounded DEF OpToRel
  <1>2. Minutes \subseteq Nat /\ Minutes # {}
    BY BackupsAssumption
  <1>3. \E m \in Minutes : \A n \in Minutes : <<n, m>> \notin R
    BY <1>1, <1>2, WFMin
  <1>4. \A m, n \in Minutes : <<n, m>> \notin R => m <= n
    BY <1>2
  <1> HIDE DEF R
  <1>5. \E m \in Minutes : \A n \in Minutes : m <= n
    BY <1>3, <1>4
  <1> QED BY <1>5

LEMMA CopiesTyped ==
         /\ \A db \in SUBSET Commits, sound \in BOOLEAN :
              /\ Copy(db, sound) \in Copies /\ Copy(db, sound) # NULL
              /\ Copy(db, sound).db = db /\ Copy(db, sound).sound = sound
         /\ Nothing \in Copies /\ Nothing # NULL
         /\ \A c \in Copies : c # NULL /\ c.db \subseteq Commits /\ c.sound \in BOOLEAN
         /\ \A u \in RunType : u # NULL
  <1>1. \A db \in SUBSET Commits, sound \in BOOLEAN : Copy(db, sound) \in Copies
          /\ Copy(db, sound).db = db /\ Copy(db, sound).sound = sound
    BY DEF Copy, Copies
  <1>2. Nothing \in Copies
    BY <1>1 DEF Nothing
  <1>3. \A c \in Copies : c.db \subseteq Commits /\ c.sound \in BOOLEAN
    BY DEF Copies
  <1> QED BY BackupsAssumption, <1>1, <1>2, <1>3

LEMMA EditsCounted ==
  ASSUME steps \in 0..MaxSteps, Counted
  PROVE  steps' \in 0..MaxSteps
  BY BackupsAssumption DEF Counted

\* Commits, checkpoints, settings, time: no run and no snapshot is touched.
LEMMA SnapshotsAside ==
  ASSUME SnapIInv, RestTyped', UNCHANGED <<dirs, snaps, runs, good>>,
         Content \subseteq Content'
  PROVE  SnapIInv'
  <1> USE DEF SnapIInv
  <1>1. DirsTyped' /\ RunsTyped'
    BY DEF DirsTyped, RunsTyped
  <1>2. AloneHolds'
    BY DEF AloneHolds, Saved
  <1>3. BeforeHolds'
    BY DEF BeforeHolds
  <1>4. GoodHolds'
    BY DEF GoodHolds, Saved, Overwriting
  <1> QED BY <1>1, <1>2, <1>3, <1>4

\* A run begins: nobody is alone but it, if nobody else runs.
LEMMA BeginKeeps ==
  ASSUME SnapIInv, RestTyped', NEW r \in Runners, Begin(r)
  PROVE  SnapIInv'
  <1> USE DEF SnapIInv
  <1> DEFINE new == [at |-> "copy", minute |-> minute, keep |-> keep, accepted |-> FALSE,
                     before |-> Content, alone |-> runs = NoRuns]
  <1>1. /\ runs[r] = NULL
        /\ runs' = [q \in Runners |->
             IF q = r THEN new ELSE IF runs[q] = NULL THEN NULL
             ELSE [runs[q] EXCEPT !.alone = FALSE]]
        /\ UNCHANGED <<file, wal, good>>
    BY DEF Begin, disk
  <1>2. \/ minute \in Range(dirs) /\ UNCHANGED <<dirs, snaps>>
        \/ /\ minute \notin Range(dirs) /\ dirs' = Append(dirs, minute)
           /\ snaps' = [snaps EXCEPT ![minute] = Nothing]
    BY DEF Begin
  <1>3. Content \subseteq Commits /\ Content' = Content
    BY <1>1 DEF RestTyped, Content
  <1>4. /\ new \in RunType /\ new # NULL /\ new.at = "copy" /\ new.minute = minute
        /\ new.before = Content /\ (new.alone <=> runs = NoRuns)
    BY <1>3, CopiesTyped DEF RestTyped, RunType
  <1> HIDE DEF new
  <1>5. ASSUME NEW q \in Runners, q # r, runs[q] # NULL
        PROVE  /\ runs'[q] \in RunType /\ runs'[q] # NULL /\ runs'[q].alone = FALSE
               /\ runs'[q].at = runs[q].at /\ runs'[q].minute = runs[q].minute
               /\ runs'[q].before = runs[q].before
    <2>1. runs[q] \in RunType /\ runs'[q] = [runs[q] EXCEPT !.alone = FALSE]
      BY <1>1, <1>5 DEF RunsTyped
    <2> QED BY <2>1, CopiesTyped DEF RunType
  <1>6. runs'[r] = new /\ \A q \in Runners : (q # r /\ runs[q] = NULL) => runs'[q] = NULL
    BY <1>1
  <1>7. RunsTyped'
    <2>1. \A q \in Runners : runs'[q] \in RunType \cup {NULL}
      BY <1>4, <1>5, <1>6
    <2>2. runs' = [q \in Runners |-> runs'[q]]
      BY <1>1
    <2> QED BY <2>1, <2>2 DEF RunsTyped
  <1>8. DirsTyped' /\ Range(dirs) \subseteq Range(dirs')
        /\ \A m \in Range(dirs) : m \in Minutes => snaps'[m] = snaps[m]
    <2>1. CASE minute \in Range(dirs) /\ UNCHANGED <<dirs, snaps>>
      BY <2>1 DEF DirsTyped
    <2>2. CASE /\ minute \notin Range(dirs) /\ dirs' = Append(dirs, minute)
               /\ snaps' = [snaps EXCEPT ![minute] = Nothing]
      <3>1. minute \in Minutes /\ dirs \in Seq(Minutes) /\ IsInjective(dirs)
        BY DEF RestTyped, DirsTyped
      <3>2. /\ dirs' \in Seq(Minutes) /\ IsInjective(dirs')
            /\ Range(dirs') = Range(dirs) \cup {minute}
        BY <2>2, <3>1, DirAppended
      <3>3. snaps' \in [Minutes -> Copies \cup {NULL}]
        BY <2>2, <3>1, CopiesTyped DEF DirsTyped
      <3>4. \A m \in Minutes : snaps'[m] = IF m = minute THEN Nothing ELSE snaps[m]
        BY <2>2, <3>1 DEF DirsTyped
      <3>5. \A m \in Minutes : snaps'[m] = NULL <=> m \notin Range(dirs')
        BY <3>2, <3>4, CopiesTyped DEF DirsTyped
      <3>6. \A m \in Range(dirs) : m \in Minutes => snaps'[m] = snaps[m]
        BY <2>2, <3>4
      <3> QED BY <3>2, <3>3, <3>5, <3>6 DEF DirsTyped
    <2> QED BY <1>2, <2>1, <2>2
  <1>9. AloneHolds'
    <2> SUFFICES ASSUME NEW q \in Runners, runs'[q] # NULL, runs'[q].alone
                 PROVE  /\ \A p \in Runners : p # q => runs'[p] = NULL
                        /\ runs'[q].at = "copy"
      BY DEF AloneHolds
    <2>1. q = r /\ runs = NoRuns
      BY <1>4, <1>5, <1>6
    <2>2. \A p \in Runners : runs[p] = NULL
      BY <2>1 DEF NoRuns
    <2> QED BY <1>4, <1>6, <2>1, <2>2
  <1>10. BeforeHolds'
    BY <1>3, <1>4, <1>5, <1>6 DEF BeforeHolds
  <1>11. GoodHolds'
    <2> SUFFICES ASSUME good # NULL, good.alone, good.keep > 0
                 PROVE  /\ good.minute \in Range(dirs') /\ good.minute \in Minutes
                        /\ \/ Saved(snaps', good.minute, good.before) /\ snaps'[good.minute].sound
                           \/ Overwriting(runs', good.minute)
      BY <1>1 DEF GoodHolds
    <2>1. /\ good.minute \in Range(dirs) /\ good.minute \in Minutes
          /\ \/ Saved(snaps, good.minute, good.before) /\ snaps[good.minute].sound
             \/ Overwriting(runs, good.minute)
      BY DEF GoodHolds
    <2>2. snaps'[good.minute] = snaps[good.minute]
      BY <1>8, <2>1
    <2>3. Overwriting(runs, good.minute) => Overwriting(runs', good.minute)
      BY <1>1, <1>5 DEF Overwriting
    <2> QED BY <1>1, <1>8, <2>1, <2>2, <2>3 DEF Saved
  <1> QED BY <1>7, <1>8, <1>9, <1>10, <1>11

\* One step of a run before its rotation: u is what it is then.
LEMMA RunStepKeeps ==
  ASSUME SnapIInv, DirsTyped', RestTyped', NEW r \in Runners,
         runs[r] # NULL, NEW u, runs' = [runs EXCEPT ![r] = u],
         u = NULL \/ /\ u \in RunType /\ u.before = runs[r].before
                     /\ u.minute = runs[r].minute /\ u.alone = runs[r].alone,
         UNCHANGED <<file, wal, good>>, Range(dirs') = Range(dirs),
         \A m \in Minutes : m # runs[r].minute => snaps'[m] = snaps[m],
         (u # NULL /\ u.alone) =>
           /\ u.at # "copy" => /\ Len(dirs') > 0 /\ dirs'[Len(dirs')] = u.minute
                               /\ Saved(snaps', u.minute, u.before)
           /\ (u.at = "rotate" /\ u.accepted) => snaps'[u.minute].sound,
         \/ u # NULL /\ u.at # "copy"
         \/ snaps' = snaps /\ (runs[r].at = "copy" \/ runs[r].minute \notin Range(dirs))
  PROVE  SnapIInv'
  <1> USE DEF SnapIInv
  <1>1. \A q \in Runners : runs'[q] = IF q = r THEN u ELSE runs[q]
    BY DEF RunsTyped
  <1>2. RunsTyped'
    BY DEF RunsTyped
  <1>3. AloneHolds'
    <2> SUFFICES ASSUME NEW q \in Runners, runs'[q] # NULL, runs'[q].alone
                 PROVE  /\ \A p \in Runners : p # q => runs'[p] = NULL
                        /\ runs'[q].at # "copy" =>
                             /\ Len(dirs') > 0 /\ dirs'[Len(dirs')] = runs'[q].minute
                             /\ Saved(snaps', runs'[q].minute, runs'[q].before)
                        /\ (runs'[q].at = "rotate" /\ runs'[q].accepted) =>
                             snaps'[runs'[q].minute].sound
      BY DEF AloneHolds, Saved
    <2>1. q = r
      BY <1>1 DEF AloneHolds
    <2>2. u # NULL /\ u.alone /\ runs[r].alone /\ runs'[q] = u
      BY <1>1, <2>1
    <2>3. \A p \in Runners : p # q => runs'[p] = NULL
      BY <1>1, <2>1, <2>2 DEF AloneHolds
    <2> QED BY <2>2, <2>3
  <1>4. BeforeHolds'
    <2>1. Content' = Content
      BY DEF Content
    <2> QED BY <1>1, <2>1 DEF BeforeHolds
  <1>5. GoodHolds'
    <2> DEFINE m == good.minute
    <2> SUFFICES ASSUME good # NULL, good.alone, good.keep > 0
                 PROVE  /\ m \in Range(dirs') /\ m \in Minutes
                        /\ \/ Saved(snaps', m, good.before) /\ snaps'[m].sound
                           \/ Overwriting(runs', m)
      BY DEF GoodHolds
    <2>1. /\ m \in Range(dirs) /\ m \in Minutes
          /\ (Saved(snaps, m, good.before) /\ snaps[m].sound) \/ Overwriting(runs, m)
      BY DEF GoodHolds
    <2> HIDE DEF m
    <2>2. CASE Saved(snaps, m, good.before) /\ snaps[m].sound
      <3>1. CASE snaps'[m] = snaps[m]
        BY <2>1, <2>2, <3>1 DEF Saved
      <3>2. CASE snaps'[m] # snaps[m]
        <4>1. m = runs[r].minute /\ u # NULL /\ u.at # "copy"
          BY <2>1, <3>2
        <4> QED BY <1>1, <2>1, <4>1 DEF Overwriting
      <3> QED BY <3>1, <3>2
    <2>3. CASE Overwriting(runs, m)
      <3>1. PICK q \in Runners : runs[q] # NULL /\ runs[q].at # "copy" /\ runs[q].minute = m
        BY <2>3 DEF Overwriting
      <3>2. CASE q # r
        BY <1>1, <2>1, <3>1, <3>2 DEF Overwriting
      <3>3. CASE q = r
        <4>1. u # NULL /\ u.at # "copy" /\ u.minute = m
          BY <2>1, <3>1, <3>3
        <4> QED BY <1>1, <2>1, <4>1 DEF Overwriting
      <3> QED BY <3>2, <3>3
    <2> QED BY <2>1, <2>2, <2>3
  <1> QED BY <1>2, <1>3, <1>4, <1>5

LEMMA TouchKeeps ==
  ASSUME DirsTyped, NEW m \in Range(dirs), dirs' = Touched(m),
         snaps' \in [Minutes -> Copies \cup {NULL}],
         \A k \in Minutes : snaps'[k] = NULL <=> snaps[k] = NULL
  PROVE  /\ DirsTyped' /\ Range(dirs') = Range(dirs)
         /\ Len(dirs') > 0 /\ dirs'[Len(dirs')] = m
  BY DirTouched DEF DirsTyped

LEMMA MakeCopyKeeps ==
  ASSUME SnapIInv, NEW r \in Runners, MakeCopy(r)
  PROVE  SnapIInv'
  <1> USE DEF SnapIInv
  <1> DEFINE m == runs[r].minute
             u == [runs[r] EXCEPT !.at = "verify"]
  <1>1. /\ runs[r] # NULL /\ runs[r].at = "copy" /\ m \in Range(dirs)
        /\ snaps' = [snaps EXCEPT ![m] = Copied]
        /\ dirs' = Touched(m)
        /\ runs' = [runs EXCEPT ![r].at = "verify"]
        /\ UNCHANGED <<file, wal, damaged, enabled, keep, minute, backupDue, bundle, steps, good>>
    BY DEF MakeCopy, IsAt, Stranded, disk, backupSettings
  <1>2. RestTyped'
    BY <1>1 DEF RestTyped
  <1>3. runs[r] \in RunType /\ m \in Minutes /\ runs' = [runs EXCEPT ![r] = u]
    BY <1>1 DEF RunsTyped, RunType
  <1>4. /\ u \in RunType /\ u.before = runs[r].before /\ u.minute = m
        /\ u.alone = runs[r].alone /\ u.at = "verify" /\ u # NULL
    BY <1>3, CopiesTyped DEF RunType
  <1>5. /\ Copied \in Copies /\ Copied # NULL
        /\ Copied.db = Content
    BY CopiesTyped DEF Copied, RestTyped, Content
  <1> HIDE DEF m, u
  <1>6. /\ snaps' \in [Minutes -> Copies \cup {NULL}]
        /\ \A k \in Minutes : snaps'[k] = IF k = m THEN Copied ELSE snaps[k]
    BY <1>1, <1>3, <1>5 DEF DirsTyped
  <1>7. \A k \in Minutes : snaps'[k] = NULL <=> snaps[k] = NULL
    BY <1>1, <1>3, <1>5, <1>6 DEF DirsTyped
  <1>8. /\ DirsTyped' /\ Range(dirs') = Range(dirs)
        /\ Len(dirs') > 0 /\ dirs'[Len(dirs')] = m
    BY <1>1, <1>6, <1>7, TouchKeeps
  <1>9. Saved(snaps', u.minute, u.before)
    BY <1>1, <1>3, <1>4, <1>5, <1>6 DEF Saved, BeforeHolds
  <1>10. \A k \in Minutes : k # m => snaps'[k] = snaps[k]
    BY <1>6
  <1>11. /\ u.at # "copy" => /\ Len(dirs') > 0 /\ dirs'[Len(dirs')] = u.minute
                             /\ Saved(snaps', u.minute, u.before)
         /\ (u.at = "rotate" /\ u.accepted) => snaps'[u.minute].sound
    BY <1>4, <1>8, <1>9
  <1>12. /\ u.minute = runs[r].minute
         /\ \A k \in Minutes : k # runs[r].minute => snaps'[k] = snaps[k]
    BY <1>4, <1>10 DEF m
  <1>13. runs[r] # NULL /\ UNCHANGED <<file, wal, good>>
    BY <1>1
  <1> QED BY <1>2, <1>3, <1>4, <1>8, <1>11, <1>12, <1>13, RunStepKeeps

LEMMA CopyFailsKeeps ==
  ASSUME SnapIInv, NEW r \in Runners, CopyRaises(r)
  PROVE  SnapIInv'
  <1> USE DEF SnapIInv
  <1>1. /\ runs[r] # NULL /\ runs[r].at = "copy" /\ runs[r].minute \in Range(dirs)
        /\ dirs' = Touched(runs[r].minute) /\ Counted
        /\ runs' = [runs EXCEPT ![r] = NULL]
        /\ UNCHANGED <<file, wal, damaged, enabled, keep, minute, snaps, backupDue, bundle, good>>
    BY DEF CopyRaises, IsAt, Stranded, disk, backupSettings
  <1>2. RestTyped'
    BY <1>1, EditsCounted DEF RestTyped
  <1>3. DirsTyped' /\ Range(dirs') = Range(dirs)
    BY <1>1, TouchKeeps DEF DirsTyped
  <1> QED BY <1>1, <1>2, <1>3, RunStepKeeps

LEMMA VerifyKeeps ==
  ASSUME SnapIInv, NEW r \in Runners, Verify(r)
  PROVE  SnapIInv'
  <1> USE DEF SnapIInv
  <1> DEFINE m == runs[r].minute
             u == [runs[r] EXCEPT !.at = "rotate", !.accepted = snaps[m].sound]
  <1>1. /\ runs[r] # NULL /\ runs[r].at = "verify" /\ m \in Range(dirs)
        /\ dirs' = Touched(m)
        /\ runs' = [runs EXCEPT ![r].at = "rotate", ![r].accepted = snaps[m].sound]
        /\ UNCHANGED <<file, wal, damaged, enabled, keep, minute, snaps, backupDue, bundle, steps,
                       good>>
    BY DEF Verify, IsAt, Stranded, disk, backupSettings, IsAccepted
  <1>2. RestTyped'
    BY <1>1 DEF RestTyped
  <1>3. runs[r] \in RunType /\ m \in Minutes
    BY <1>1 DEF RunsTyped, RunType
  <1>4. snaps[m] \in Copies /\ snaps[m].sound \in BOOLEAN
    BY <1>1, <1>3, CopiesTyped DEF DirsTyped
  <1>5. /\ u \in RunType /\ u.before = runs[r].before /\ u.minute = m
        /\ u.alone = runs[r].alone /\ u.at = "rotate" /\ u.accepted = snaps[m].sound
        /\ u # NULL
    BY <1>3, <1>4, CopiesTyped DEF RunType
  <1>6. runs' = [runs EXCEPT ![r] = u]
    BY <1>1, <1>3 DEF RunsTyped, RunType
  <1> HIDE DEF m, u
  <1>7. /\ DirsTyped' /\ Range(dirs') = Range(dirs)
        /\ Len(dirs') > 0 /\ dirs'[Len(dirs')] = m
    BY <1>1, TouchKeeps DEF DirsTyped
  <1>8. (u # NULL /\ u.alone) => Saved(snaps', u.minute, u.before)
    BY <1>1, <1>5 DEF Saved, AloneHolds, m
  <1>9. /\ u.at # "copy" => /\ Len(dirs') > 0 /\ dirs'[Len(dirs')] = u.minute
        /\ (u.at = "rotate" /\ u.accepted) => snaps'[u.minute].sound
    BY <1>1, <1>5, <1>7
  <1>10. u.minute = runs[r].minute /\ \A k \in Minutes : snaps'[k] = snaps[k]
    BY <1>1, <1>5 DEF m
  <1>11. runs[r] # NULL /\ UNCHANGED <<file, wal, good>>
    BY <1>1
  <1> QED BY <1>2, <1>5, <1>6, <1>7, <1>8, <1>9, <1>10, <1>11, RunStepKeeps

LEMMA RaiseKeeps ==
  ASSUME SnapIInv, NEW r \in Runners, Raise(r)
  PROVE  SnapIInv'
  <1> USE DEF SnapIInv
  <1>1. /\ runs[r] # NULL /\ runs[r].minute \notin Range(dirs)
        /\ runs' = [runs EXCEPT ![r] = NULL]
        /\ UNCHANGED <<file, wal, damaged, enabled, keep, minute, dirs, snaps, backupDue, bundle,
                       steps, good>>
    BY DEF Raise, Stranded, disk, backupSettings
  <1>2. RestTyped' /\ DirsTyped'
    BY <1>1 DEF RestTyped, DirsTyped
  <1> QED BY <1>1, <1>2, RunStepKeeps

\* The rotation keeps the directory that was changed last, if it keeps any.
LEMMA RotateKeeps ==
  ASSUME SnapIInv, NEW r \in Runners, Rotate(r)
  PROVE  SnapIInv'
  <1> USE DEF SnapIInv
  <1> DEFINE m == runs[r].minute
             n == runs[r].keep
  <1>1. /\ runs[r] # NULL /\ runs[r].at = "rotate" /\ dirs' = Rotated(n)
        /\ snaps' = [k \in Minutes |-> IF k \in Range(dirs') THEN snaps[k] ELSE NULL]
        /\ runs' = [runs EXCEPT ![r] = NULL]
        /\ UNCHANGED <<file, wal, damaged, enabled, keep, minute, backupDue, bundle, steps>>
    BY DEF Rotate, IsAt, disk, backupSettings
  <1>2. good' = IF runs[r].accepted
                  THEN [minute |-> m, before |-> runs[r].before, alone |-> runs[r].alone,
                        keep |-> n]
                  ELSE NULL
    BY DEF Rotate
  <1>3. RestTyped'
    BY <1>1 DEF RestTyped
  <1>4. runs[r] \in RunType /\ m \in Minutes /\ n \in Nat
    BY <1>1 DEF RunsTyped, RunType
  <1>5. /\ dirs' \in Seq(Minutes) /\ IsInjective(dirs')
        /\ Range(dirs') \subseteq Range(dirs)
        /\ (n > 0 /\ Len(dirs) > 0) => dirs[Len(dirs)] \in Range(dirs')
    BY <1>1, <1>4, DirRotated DEF DirsTyped
  <1> HIDE DEF m, n
  <1>6. DirsTyped'
    <2>1. snaps' \in [Minutes -> Copies \cup {NULL}]
      BY <1>1 DEF DirsTyped
    <2>2. \A k \in Minutes : snaps'[k] = IF k \in Range(dirs') THEN snaps[k] ELSE NULL
      BY <1>1
    <2>3. \A k \in Minutes : snaps'[k] = NULL <=> k \notin Range(dirs')
      BY <1>5, <2>2 DEF DirsTyped
    <2> QED BY <1>5, <2>1, <2>3 DEF DirsTyped
  <1>7. runs'[r] = NULL /\ \A q \in Runners : runs'[q] = IF q = r THEN NULL ELSE runs[q]
    BY <1>1 DEF RunsTyped
  <1>8. RunsTyped'
    BY <1>1 DEF RunsTyped
  <1>9. AloneHolds'
    <2>1. \A q \in Runners : ~(runs'[q] # NULL /\ runs'[q].alone)
      BY <1>1, <1>7 DEF AloneHolds
    <2> QED BY <2>1 DEF AloneHolds
  <1>10. BeforeHolds'
    BY <1>1, <1>7 DEF BeforeHolds, Content
  <1>11. GoodHolds'
    <2> SUFFICES ASSUME good' # NULL, good'.alone, good'.keep > 0
                 PROVE  /\ good'.minute \in Range(dirs') /\ good'.minute \in Minutes
                        /\ Saved(snaps', good'.minute, good'.before) /\ snaps'[good'.minute].sound
      BY DEF GoodHolds
    <2>1. /\ runs[r].accepted /\ good'.minute = m /\ good'.before = runs[r].before
          /\ runs[r].alone /\ n > 0
      BY <1>2
    <2>2. Len(dirs) > 0 /\ dirs[Len(dirs)] = m /\ Saved(snaps, m, runs[r].before) /\ snaps[m].sound
      BY <1>1, <2>1 DEF AloneHolds, m
    <2>3. m \in Range(dirs') /\ snaps'[m] = snaps[m]
      BY <1>1, <1>4, <1>5, <2>1, <2>2
    <2> QED BY <1>4, <2>1, <2>2, <2>3 DEF Saved
  <1> QED BY <1>3, <1>6, <1>8, <1>9, <1>10, <1>11

\* A restore or an import: runs owe nothing of what went with the database.
LEMMA ReplacedKeeps ==
  ASSUME SnapIInv, NEW copy \in Copies, Replaced(copy),
         Counted, good' = NULL,
         UNCHANGED <<enabled, keep, minute, dirs, snaps, backupDue, bundle>>
  PROVE  SnapIInv'
  <1> USE DEF SnapIInv
  <1>1. /\ file' = copy.db /\ wal' = wal /\ damaged' = (wal # {} \/ ~copy.sound)
        /\ runs' = [r \in Runners |->
             IF runs[r] = NULL THEN NULL ELSE [runs[r] EXCEPT !.before = {}]]
    BY DEF Replaced
  <1>2. RestTyped'
    BY <1>1, CopiesTyped, EditsCounted DEF RestTyped
  <1>3. DirsTyped'
    BY DEF DirsTyped
  <1>4. ASSUME NEW q \in Runners, runs[q] # NULL
        PROVE  /\ runs'[q] \in RunType /\ runs'[q] # NULL /\ runs'[q].before = {}
               /\ runs'[q].at = runs[q].at /\ runs'[q].minute = runs[q].minute
               /\ runs'[q].alone = runs[q].alone /\ runs'[q].accepted = runs[q].accepted
    <2>1. runs[q] \in RunType /\ runs'[q] = [runs[q] EXCEPT !.before = {}]
      BY <1>1, <1>4 DEF RunsTyped
    <2> QED BY <2>1, CopiesTyped DEF RunType
  <1>5. \A q \in Runners : runs[q] = NULL => runs'[q] = NULL
    BY <1>1
  <1>6. RunsTyped'
    <2>1. \A q \in Runners : runs'[q] \in RunType \cup {NULL}
      BY <1>4, <1>5
    <2>2. runs' = [q \in Runners |-> runs'[q]]
      BY <1>1
    <2> QED BY <2>1, <2>2 DEF RunsTyped
  <1>7. AloneHolds'
    BY <1>4, <1>5 DEF AloneHolds, Saved
  <1>8. BeforeHolds'
    BY <1>4, <1>5 DEF BeforeHolds
  <1>9. GoodHolds'
    BY DEF GoodHolds
  <1> QED BY <1>2, <1>3, <1>6, <1>7, <1>8, <1>9

LEMMA RestartKeeps ==
  ASSUME SnapIInv, Restart
  PROVE  SnapIInv'
  <1> USE DEF SnapIInv
  <1>1. /\ runs' = NoRuns /\ backupDue' = TRUE /\ good' = NULL /\ Counted
        /\ UNCHANGED <<file, wal, damaged, enabled, keep, minute, dirs, bundle>>
    BY DEF Restart, disk, backupSettings
  <1>2. RestTyped'
    BY <1>1, EditsCounted DEF RestTyped
  <1>3. \A q \in Runners : runs'[q] = NULL
    BY <1>1 DEF NoRuns
  <1>4. RunsTyped' /\ AloneHolds' /\ BeforeHolds' /\ GoodHolds'
    BY <1>1, <1>3 DEF RunsTyped, AloneHolds, BeforeHolds, GoodHolds, NoRuns
  <1>5. snaps' \in [Minutes -> Copies \cup {NULL}]
        /\ \A m \in Minutes : snaps'[m] = NULL <=> snaps[m] = NULL
    <2> DEFINE cut(m) == \E r \in Runners :
                           IsAt(r, "copy") /\ runs[r].minute = m /\ snaps[m] # NULL
    <2>1. \/ snaps' = snaps
          \/ snaps' = [m \in Minutes |-> IF cut(m) THEN Nothing ELSE snaps[m]]
      BY DEF Restart
    <2>2. \A m \in Minutes : cut(m) => snaps[m] # NULL
      OBVIOUS
    <2> HIDE DEF cut
    <2>3. CASE snaps' = snaps
      BY <2>3 DEF DirsTyped
    <2>4. CASE snaps' = [m \in Minutes |-> IF cut(m) THEN Nothing ELSE snaps[m]]
      BY <2>2, <2>4, CopiesTyped DEF DirsTyped
    <2> QED BY <2>1, <2>3, <2>4
  <1>6. DirsTyped'
    BY <1>1, <1>5 DEF DirsTyped
  <1> QED BY <1>2, <1>4, <1>6

-----------------------------------------------------------------------------
(* Backups: the theorem.                                                   *)

LEMMA SnapInit == BackupInit => SnapIInv
  <1> SUFFICES ASSUME BackupInit PROVE SnapIInv
    OBVIOUS
  <1>1. /\ file = {} /\ wal = {} /\ damaged = FALSE /\ enabled \in BOOLEAN
        /\ keep \in KeepInputs /\ backupDue = TRUE /\ bundle = NULL /\ steps = 0 /\ good = NULL
        /\ dirs = <<>> /\ snaps = [m \in Minutes |-> NULL] /\ runs = NoRuns
    BY DEF BackupInit
  <1>2. minute \in Minutes
    BY LeastMinute DEF BackupInit
  <1>3. keep \in Nat /\ steps \in 0..MaxSteps
    BY BackupsAssumption, <1>1
  <1>4. RestTyped
    BY <1>1, <1>2, <1>3 DEF RestTyped
  <1>5. \A r \in Runners : runs[r] = NULL
    BY <1>1 DEF NoRuns
  <1>6. RunsTyped /\ AloneHolds /\ BeforeHolds /\ GoodHolds
    BY <1>1, <1>5 DEF RunsTyped, AloneHolds, BeforeHolds, GoodHolds, NoRuns
  <1>7. DirsTyped
    <2>1. dirs \in Seq(Minutes) /\ DOMAIN dirs = {}
      BY <1>1
    <2> QED BY <1>1, <2>1 DEF DirsTyped, IsInjective, Range
  <1> QED BY <1>4, <1>6, <1>7 DEF SnapIInv

LEMMA SnapSteps ==
  ASSUME SnapIInv, [BackupNext]_backupVars
  PROVE  SnapIInv'
  <1>0. RestTyped /\ DirsTyped
    BY DEF SnapIInv
  <1>1. CASE Commit \/ Checkpoint
    <2>1. /\ UNCHANGED <<damaged, enabled, keep, minute, dirs, snaps, runs, backupDue, bundle,
                         steps, good>>
          /\ file' \subseteq Commits /\ wal' \subseteq Commits
          /\ Content \subseteq Content'
      BY <1>0, <1>1 DEF Commit, Checkpoint, backupSettings, Content, RestTyped
    <2>2. RestTyped'
      BY <1>0, <2>1 DEF RestTyped
    <2> QED BY <2>1, <2>2, SnapshotsAside
  <1>2. CASE Scheduled
    <2>1. backupDue' = FALSE /\ steps' = steps
      BY <1>2 DEF Scheduled
    <2>2. CASE Begin("scheduler")
      <3>1. RestTyped'
        BY <1>0, <2>1, <2>2 DEF RestTyped, Begin, disk, backupSettings
      <3>2. "scheduler" \in Runners
        BY BackupsAssumption
      <3> QED BY <2>2, <3>1, <3>2, BeginKeeps
    <2>3. CASE UNCHANGED <<file, wal, damaged, enabled, keep, minute, dirs, snaps, runs,
                           bundle, good>>
      <3>1. RestTyped' /\ Content' = Content
        BY <1>0, <2>1, <2>3 DEF RestTyped, Content
      <3> QED BY <2>3, <3>1, SnapshotsAside
    <2> QED BY <1>2, <2>2, <2>3 DEF Scheduled, disk, backupSettings
  <1>3. ASSUME NEW r \in Runners, RunNow(r) PROVE SnapIInv'
    <2>1. Begin(r) /\ backupDue' = backupDue /\ Counted
      BY <1>3 DEF RunNow
    <2>2. RestTyped'
      BY <1>0, <2>1, EditsCounted DEF RestTyped, Begin, disk, backupSettings
    <2> QED BY <2>1, <2>2, BeginKeeps
  <1>4. CASE IntervalPasses \/ MinutePasses \/ UNCHANGED backupVars
    <2>1. /\ UNCHANGED <<file, wal, damaged, enabled, keep, dirs, snaps, runs, bundle, steps,
                         good>>
          /\ backupDue' \in BOOLEAN /\ minute' \in Minutes
      BY <1>0, <1>4 DEF IntervalPasses, MinutePasses, backupVars, disk,
                        backupSettings, RestTyped
    <2>2. RestTyped' /\ Content' = Content
      BY <1>0, <2>1 DEF RestTyped, Content
    <2> QED BY <2>1, <2>2, SnapshotsAside
  <1>5. CASE SaveSettings
    <2>1. /\ UNCHANGED <<file, wal, damaged, minute, dirs, snaps, runs, backupDue, bundle, good>>
          /\ enabled' \in BOOLEAN /\ keep' \in Nat /\ Counted
      BY BackupsAssumption, <1>5 DEF SaveSettings, disk
    <2>2. RestTyped' /\ Content' = Content
      BY <1>0, <2>1, EditsCounted DEF RestTyped, Content
    <2> QED BY <2>1, <2>2, SnapshotsAside
  <1>6. CASE Export
    <2>1. /\ UNCHANGED <<file, wal, damaged, enabled, keep, minute, dirs, snaps, runs, backupDue,
                         good>>
          /\ Counted
      BY <1>6 DEF Export, disk, backupSettings
    <2>2. PICK sound \in (IF damaged THEN {FALSE} ELSE {TRUE, wal = {}}) :
            bundle' = Copy(file, sound)
      BY <1>6 DEF Export
    <2>3. sound \in BOOLEAN
      OBVIOUS
    <2>4. bundle' \in Copies
      BY <1>0, <2>2, <2>3, CopiesTyped DEF RestTyped
    <2>5. RestTyped' /\ Content' = Content
      BY <1>0, <2>1, <2>4, EditsCounted DEF RestTyped, Content
    <2> QED BY <2>1, <2>5, SnapshotsAside
  <1>7. CASE Import
    <2>1. bundle \in Copies
      BY <1>0, <1>7 DEF Import, RestTyped
    <2> QED BY <1>7, <2>1, ReplacedKeeps DEF Import, backupSettings
  <1>8. ASSUME NEW m \in Minutes, Restore(m) PROVE SnapIInv'
    <2>1. snaps[m] \in Copies
      BY <1>0, <1>8 DEF Restore, DirsTyped
    <2> QED BY <1>8, <2>1, ReplacedKeeps DEF Restore, backupSettings
  <1>9. ASSUME NEW r \in Runners, Run(r) \/ CopyRaises(r) PROVE SnapIInv'
    BY <1>9, MakeCopyKeeps, CopyFailsKeeps, VerifyKeeps, RaiseKeeps, RotateKeeps DEF Run
  <1> QED BY <1>1, <1>2, <1>3, <1>4, <1>5, <1>6, <1>7, <1>8, <1>9, RestartKeeps DEF BackupNext

LEMMA SnapInvHolds ==
  ASSUME SnapIInv
  PROVE  BackupInv
  <1> USE DEF SnapIInv
  <1>1. BackupTypeOK
    BY DEF BackupTypeOK, DirsTyped, RunsTyped, RestTyped
  <1>2. runs = NoRuns => \A m \in Minutes : ~Overwriting(runs, m)
    BY DEF Overwriting, NoRuns
  <1>3. ReportedIsKept
    BY <1>2 DEF ReportedIsKept, GoodHolds, Saved
  <1> QED BY <1>1, <1>3 DEF BackupInv

\* backup.py: a snapshot reported as made, by a run that nothing joined and whose
\* rotation keeps any, is there, sound and whole of what was committed before the run
\* whenever no backup is under way, until a restore, a restart or the next report: Inv
\* of Backups, for any runners, commits, minutes, rotation counts and edits.
THEOREM SnapInvariant == BackupSpec => []BackupInv
  <1>1. BackupInit => SnapIInv
    BY SnapInit
  <1>2. SnapIInv /\ [BackupNext]_backupVars => SnapIInv'
    BY SnapSteps
  <1>3. SnapIInv => BackupInv
    BY SnapInvHolds
  <1> QED BY <1>1, <1>2, <1>3, PTL DEF BackupSpec
=============================================================================
