---------------------------- MODULE Accounts_proofs ----------------------------
(***************************************************************************)
(* Proofs about Accounts, for every set of accounts, addresses, requests   *)
(* and passwords, every value of the settings, and any interleaving.       *)
(*                                                                         *)
(* An action touches one kind of state: a row of users and its count of    *)
(* wrong passwords, a request, or the rows of the throttle.  The inductive *)
(* invariant has a part for each, and each part is proved by itself.       *)
(***************************************************************************)
EXTENDS Accounts, TLAPS

\* A request carries what the step it is before will use.
Sound(r) ==
  /\ r.at \in {"lookup", "wrong", "right", "provision", "assert"} => r.user \in Users
  /\ r.at \in {"lookup", "wrong", "count"} => r.from \in Addresses
  /\ r.at \in {"provision", "assert"} => r.role \in Roles

RequestHolds == \A q \in Requests : Sound(request[q])

\* The rows of the window are the address's failures since its last block: the
\* prune takes only older ones, and a block starts both anew.
RecentIsKept == \A a \in Addresses : Lately(failures[a]) = recent[a]

IInv == Inv /\ RequestHolds /\ RecentIsKept

-----------------------------------------------------------------------------
(* Arithmetic, and rows of users.                                          *)

\* One more wrong password, short of the limit or at it.
LEMMA CountOn ==
  ASSUME NEW L \in Nat, NEW F \in Nat, NEW M \in Nat \ {0}, NEW N \in Nat,
         L * M + F = N
  PROVE  /\ L * M + (F + 1) = N + 1
         /\ F + 1 = M => (L + 1) * M + 0 = N + 1
<1>1. L * M \in Nat
  OBVIOUS
<1>2. (L + 1) * M = L * M + M
  OBVIOUS
<1> QED BY <1>1, <1>2

\* A lock after an earlier one has seen two full rounds.
LEMMA TwoRounds ==
  ASSUME NEW L \in Nat \ {0}, NEW M \in Nat \ {0}
  PROVE  L * M >= M
<1>1. PICK K \in Nat : L = K + 1
  <2>1. L - 1 \in Nat /\ L = (L - 1) + 1
    OBVIOUS
  <2> QED BY <2>1
<1>2. (K + 1) * M = K * M + M
  OBVIOUS
<1>3. K * M \in Nat
  OBVIOUS
<1> QED BY <1>1, <1>2, <1>3

LEMMA Constants ==
  /\ MaxAttempts \in Nat \ {0} /\ LockTime \in Nat \ {0} /\ MaxFailures \in Nat \ {0}
  /\ Window \in Nat \ {0} /\ BlockTime \in Nat \ {0} /\ Keep \in Nat /\ Keep >= Window
  /\ MaxWrong \in Nat /\ MaxEdits \in Nat
BY AccountsAssumption DEF AccountsAssumption

\* How many wrong passwords a row accounts for.
Counts(row) == row.lockouts * MaxAttempts + row.failed

\* lockout.record_failure's UPDATE counts one, and nothing but the lock follows.
LEMMA MissedRow ==
  ASSUME NEW row \in Row, NEW n \in Nat, Counts(row) = n
  PROVE  /\ Missed(row) \in Row
         /\ Missed(row).default = row.default
         /\ Counts(Missed(row)) = n + 1
         /\ ~row.permanent /\ Missed(row).permanent => n + 1 >= 2 * MaxAttempts
<1> DEFINE L == row.lockouts
           F == row.failed
           M == MaxAttempts
           new == Missed(row)
           reached == F + 1 >= M
           again == L + 1 >= 2
<1>1. L \in Nat /\ F \in 0..(M - 1) /\ M \in Nat \ {0} /\ F \in Nat
  BY Constants DEF Row
<1>2. new = [row EXCEPT !.failed = IF reached THEN 0 ELSE F + 1,
                        !.lockouts = IF reached THEN L + 1 ELSE L,
                        !.permanent = row.permanent \/ (reached /\ again),
                        !.left = IF reached /\ ~again THEN LockTime ELSE row.left]
  BY DEF Missed
<1>3. /\ new.failed = (IF reached THEN 0 ELSE F + 1)
      /\ new.lockouts = (IF reached THEN L + 1 ELSE L)
      /\ new.permanent = (row.permanent \/ (reached /\ again))
      /\ new.left = (IF reached /\ ~again THEN LockTime ELSE row.left)
      /\ new.pwd = row.pwd /\ new.active = row.active /\ new.role = row.role
      /\ new.default = row.default
  BY <1>2 DEF Row
<1>4. new \in Row
  <2>1. new.failed \in 0..(M - 1)
    BY <1>1, <1>3
  <2>2. new.lockouts \in Nat
    BY <1>1, <1>3
  <2>3. new.permanent \in BOOLEAN
    BY <1>3
  <2>4. new.left \in 0..LockTime
    BY <1>3, Constants DEF Row
  <2>5. new = [pwd |-> new.pwd, active |-> new.active, role |-> new.role,
               default |-> new.default, failed |-> new.failed,
               lockouts |-> new.lockouts, left |-> new.left, permanent |-> new.permanent]
    BY <1>2 DEF Row
  <2>6. /\ new.pwd \in Passwords /\ new.active \in BOOLEAN /\ new.role \in Roles
        /\ new.default \in BOOLEAN
    BY <1>3 DEF Row
  <2> HIDE DEF new
  <2> QED BY <2>1, <2>2, <2>3, <2>4, <2>5, <2>6 DEF Row
<1>5. L * M + F = n
  BY DEF Counts
<1>6. Counts(new) = n + 1
  <2>1. CASE reached
    <3>1. F + 1 = M
      BY <1>1, <2>1
    <3>2. (L + 1) * M + 0 = n + 1
      BY <1>1, <1>5, <3>1, CountOn
    <3>3. new.lockouts = L + 1 /\ new.failed = 0
      BY <1>3, <2>1
    <3> HIDE DEF new
    <3> QED BY <3>2, <3>3 DEF Counts
  <2>2. CASE ~reached
    <3>1. L * M + (F + 1) = n + 1
      BY <1>1, <1>5, CountOn
    <3>2. new.lockouts = L /\ new.failed = F + 1
      BY <1>3, <2>2
    <3> HIDE DEF new
    <3> QED BY <3>1, <3>2 DEF Counts
  <2> QED BY <2>1, <2>2
<1>7. ASSUME ~row.permanent, new.permanent
      PROVE  n + 1 >= 2 * M
  <2>1. reached /\ again
    BY <1>3, <1>7
  <2>2. F + 1 = M /\ L \in Nat \ {0}
    BY <1>1, <2>1
  <2>3. L * M >= M
    BY <1>1, <2>2, TwoRounds
  <2>4. L * M \in Nat
    BY <1>1
  <2> HIDE DEF L, F, M
  <2> QED BY <1>1, <1>5, <2>2, <2>3, <2>4
<1> QED BY <1>3, <1>4, <1>6, <1>7

\* A new account, a success and an unlock leave nothing to account for.
LEMMA NewUserRow ==
  ASSUME NEW pwd \in Passwords, NEW role \in Roles
  PROVE  /\ NewUser(pwd, role, FALSE) \in Row
         /\ NewUser(pwd, role, FALSE).default = FALSE
         /\ NewUser(pwd, role, FALSE).permanent = FALSE
         /\ Counts(NewUser(pwd, role, FALSE)) = 0
<1>1. 0 \in 0..(MaxAttempts - 1) /\ 0 \in 0..LockTime /\ 0 * MaxAttempts + 0 = 0
  BY Constants
<1> QED BY <1>1 DEF NewUser, Row, Counts

LEMMA SucceededRow ==
  ASSUME NEW row \in Row
  PROVE  /\ Succeeded(row) \in Row
         /\ Succeeded(row).default = row.default
         /\ Succeeded(row).permanent = row.permanent
         /\ Counts(Succeeded(row)) = 0
<1>1. 0 \in 0..(MaxAttempts - 1) /\ 0 \in 0..LockTime /\ 0 * MaxAttempts + 0 = 0
  BY Constants
<1> QED BY <1>1 DEF Succeeded, Row, Counts

LEMMA UnlockedRow ==
  ASSUME NEW row \in Row
  PROVE  /\ Unlocked(row) \in Row
         /\ Unlocked(row).default = row.default
         /\ Unlocked(row).permanent = FALSE
         /\ Counts(Unlocked(row)) = 0
<1>1. 0 \in 0..(MaxAttempts - 1) /\ 0 \in 0..LockTime /\ 0 * MaxAttempts + 0 = 0
  BY Constants
<1> QED BY <1>1 DEF Unlocked, Succeeded, Row, Counts

SameCounts(row, old) ==
  /\ row.failed = old.failed /\ row.lockouts = old.lockouts
  /\ row.default = old.default /\ row.permanent = old.permanent

LEMMA PasswordRow ==
  ASSUME NEW row \in Row, NEW pwd \in Passwords \cup {NULL}
  PROVE  /\ WithPassword(row, pwd) \in Row
         /\ SameCounts(WithPassword(row, pwd), row)
<1>1. CASE pwd = NULL
  BY <1>1 DEF WithPassword, SameCounts
<1>2. CASE pwd # NULL
  <2>1. WithPassword(row, pwd) = [row EXCEPT !.pwd = pwd] /\ pwd \in Passwords
    BY <1>2 DEF WithPassword
  <2> QED BY <2>1 DEF Row, SameCounts
<1> QED BY <1>1, <1>2

-----------------------------------------------------------------------------
(* The users table and the counts of wrong passwords.                      *)

UsersTyped == users \in [Users -> Row \cup {NULL}] /\ missed \in [Users -> Nat]
UsersHold == UsersTyped /\ CountIsExact /\ OneDefaultAdmin

\* No statement makes a lock permanent before its time.
Earned ==
  \A u \in Users :
    /\ Exists(u) /\ ~users[u].permanent
    /\ users'[u] # NULL /\ users'[u].permanent
    => missed'[u] >= 2 * MaxAttempts

UsersStep == UsersHold' /\ Earned

LEMMA RowOf ==
  ASSUME UsersTyped, NEW u \in Users, Exists(u)
  PROVE  users[u] \in Row /\ NULL \notin Row
BY NullAssumption DEF UsersTyped, Exists, NullAssumption

\* An UPDATE, INSERT or DELETE of one row: the row accounts for its wrong
\* passwords, and is no default administrator unless it was.
LEMMA RowWritten ==
  ASSUME UsersHold, NEW u \in Users, NEW row \in Row \cup {NULL}, NEW m \in Nat,
         users' = [users EXCEPT ![u] = row],
         missed' = [missed EXCEPT ![u] = m],
         row # NULL => Counts(row) = m,
         row # NULL /\ row.default => Exists(u) /\ users[u].default,
         row # NULL /\ row.permanent /\ Exists(u) /\ ~users[u].permanent
           => m >= 2 * MaxAttempts
  PROVE  UsersStep
<1>1. /\ users' \in [Users -> Row \cup {NULL}] /\ missed' \in [Users -> Nat]
      /\ users'[u] = row /\ missed'[u] = m
      /\ \A v \in Users \ {u} : users'[v] = users[v] /\ missed'[v] = missed[v]
  BY DEF UsersHold, UsersTyped
<1>2. CountIsExact'
  <2> SUFFICES ASSUME NEW v \in Users, users'[v] # NULL
               PROVE  users'[v].lockouts * MaxAttempts + users'[v].failed = missed'[v]
    BY DEF CountIsExact, Exists
  <2>1. CASE v = u
    BY <1>1, <2>1 DEF Counts
  <2>2. CASE v # u
    BY <1>1, <2>2 DEF UsersHold, CountIsExact, Exists
  <2> QED BY <2>1, <2>2
<1>3. OneDefaultAdmin'
  BY <1>1 DEF UsersHold, OneDefaultAdmin, Exists
<1>4. Earned
  BY <1>1 DEF Earned, Exists
<1> QED BY <1>1, <1>2, <1>3, <1>4 DEF UsersStep, UsersHold, UsersTyped

\* The same when the count is left alone.
LEMMA RowRewritten ==
  ASSUME UsersHold, NEW u \in Users, NEW row \in Row, Exists(u),
         users' = [users EXCEPT ![u] = row], UNCHANGED missed,
         SameCounts(row, users[u])
  PROVE  UsersStep
<1>1. missed' = [missed EXCEPT ![u] = missed[u]] /\ missed[u] \in Nat
  BY DEF UsersHold, UsersTyped
<1>2. Counts(row) = missed[u]
  BY DEF UsersHold, CountIsExact, Counts, SameCounts
<1> QED BY <1>1, <1>2, RowWritten DEF SameCounts

LEMMA UsersUntouched ==
  ASSUME UsersHold, UNCHANGED <<users, missed>>
  PROVE  UsersStep
BY DEF UsersStep, UsersHold, UsersTyped, CountIsExact, OneDefaultAdmin, Exists, Earned

LEMMA WrongKeeps ==
  ASSUME UsersHold, RequestHolds, NEW q \in Requests, Wrong(q)
  PROVE  UsersStep
<1> DEFINE u == request[q].user
<1>1. u \in Users
  BY DEF Wrong, At, RequestHolds, Sound
<1>2. CASE Exists(u)
  <2>1. users' = [users EXCEPT ![u] = Missed(users[u])] /\ missed' = [missed EXCEPT ![u] = missed[u] + 1]
    BY <1>2 DEF Wrong
  <2>2. users[u] \in Row /\ missed[u] \in Nat /\ Counts(users[u]) = missed[u]
    BY <1>1, <1>2, RowOf DEF UsersHold, UsersTyped, CountIsExact, Counts
  <2>3. /\ Missed(users[u]) \in Row
        /\ Missed(users[u]).default = users[u].default
        /\ Counts(Missed(users[u])) = missed[u] + 1
        /\ ~users[u].permanent /\ Missed(users[u]).permanent => missed[u] + 1 >= 2 * MaxAttempts
    BY <2>2, MissedRow
  <2> DEFINE row == Missed(users[u])
             m == missed[u] + 1
  <2>4. row \in Row \cup {NULL} /\ m \in Nat
    BY <2>2, <2>3
  <2>5. users' = [users EXCEPT ![u] = row] /\ missed' = [missed EXCEPT ![u] = m]
    BY <2>1
  <2>6. /\ Counts(row) = m /\ row.default = users[u].default
        /\ ~users[u].permanent /\ row.permanent => m >= 2 * MaxAttempts
    BY <2>3
  <2> HIDE DEF u, row, m
  <2> QED BY <1>1, <1>2, <2>4, <2>5, <2>6, RowWritten
<1>3. CASE ~Exists(u)
  BY <1>3, UsersUntouched DEF Wrong
<1> QED BY <1>2, <1>3

LEMMA RightKeeps ==
  ASSUME UsersHold, RequestHolds, request \in [Requests -> Request], NEW q \in Requests, Right(q)
  PROVE  UsersStep
<1> DEFINE u == request[q].user
           n == request[q].new
           kept == Succeeded(users[u])
           row == WithPassword(kept, n)
<1>1. u \in Users /\ n \in Passwords \cup {NULL}
  BY DEF Right, At, RequestHolds, Sound, Request
<1>2. CASE Exists(u)
  <2>1. users' = [users EXCEPT ![u] = row] /\ missed' = [missed EXCEPT ![u] = 0]
    BY <1>2 DEF Right
  <2>2. users[u] \in Row
    BY <1>1, <1>2, RowOf DEF UsersHold
  <2>3. /\ kept \in Row /\ Counts(kept) = 0 /\ kept.default = users[u].default
        /\ kept.permanent = users[u].permanent
    BY <2>2, SucceededRow
  <2>4. row \in Row /\ SameCounts(row, kept)
    <3> HIDE DEF kept, n
    <3> QED BY <1>1, <2>3, PasswordRow
  <2>5. Counts(row) = 0 /\ row.default = users[u].default /\ row.permanent = users[u].permanent
    <3> HIDE DEF kept, row
    <3> QED BY <2>3, <2>4 DEF Counts, SameCounts
  <2> DEFINE m == 0
  <2>6. row \in Row \cup {NULL} /\ m \in Nat
    BY <2>4
  <2>7. users' = [users EXCEPT ![u] = row] /\ missed' = [missed EXCEPT ![u] = m] /\ Counts(row) = m
    BY <2>1, <2>5
  <2> HIDE DEF row, u, kept, n, m
  <2> QED BY <1>1, <1>2, <2>5, <2>6, <2>7, RowWritten
<1>3. CASE ~Exists(u)
  BY <1>3, UsersUntouched DEF Right
<1> QED BY <1>2, <1>3

\* hashed_password is NOT NULL: the callback's INSERT never takes place.
LEMMA SsoInsertsNothing ==
  ASSUME NEW q \in Requests, SsoProvision(q)
  PROVE  UNCHANGED users
BY DEF SsoProvision, Insertable

LEMMA SsoAssertKeeps ==
  ASSUME UsersHold, RequestHolds, NEW q \in Requests, SsoAssert(q)
  PROVE  UsersStep
<1> DEFINE u == request[q].user
           row == [users[u] EXCEPT !.role = request[q].role]
<1>1. u \in Users /\ request[q].role \in Roles
  BY DEF SsoAssert, At, RequestHolds, Sound
<1>2. UNCHANGED missed
  BY DEF SsoAssert, ghost
<1>3. CASE Exists(u)
  <2>1. users[u] \in Row
    BY <1>1, <1>3, RowOf DEF UsersHold
  <2>2. users' = [users EXCEPT ![u] = row]
    BY <1>1, <1>3, <2>1 DEF SsoAssert
  <2>3. row \in Row /\ SameCounts(row, users[u])
    BY <1>1, <2>1 DEF Row, SameCounts
  <2> HIDE DEF row, u
  <2> QED BY <1>1, <1>2, <1>3, <2>2, <2>3, RowRewritten
<1>4. CASE ~Exists(u)
  BY <1>2, <1>4, UsersUntouched DEF SsoAssert
<1> QED BY <1>3, <1>4

\* The administrator's list.
LEMMA CreateKeeps ==
  ASSUME UsersHold, NEW u \in Users, NEW pwd \in Passwords, NEW role \in Roles,
         CreateUser(u, pwd, role)
  PROVE  UsersStep
<1> DEFINE row == NewUser(pwd, role, FALSE)
           m == 0
<1>1. /\ users' = [users EXCEPT ![u] = row] /\ missed' = [missed EXCEPT ![u] = m]
      /\ m \in Nat
  BY DEF CreateUser, Edit
<1>2. /\ row \in Row \cup {NULL} /\ row.default = FALSE /\ row.permanent = FALSE
      /\ Counts(row) = m
  BY NewUserRow
<1> HIDE DEF row, m
<1> QED BY <1>1, <1>2, RowWritten

LEMMA ResetKeeps ==
  ASSUME UsersHold, NEW u \in Users, NEW pwd \in Passwords, ResetUserPassword(u, pwd)
  PROVE  UsersStep
<1> DEFINE row == [users[u] EXCEPT !.pwd = pwd]
<1>1. Exists(u) /\ users' = [users EXCEPT ![u] = row] /\ UNCHANGED missed
  BY DEF ResetUserPassword, Edit
<1>2. users[u] \in Row
  BY <1>1, RowOf DEF UsersHold
<1>3. row \in Row /\ SameCounts(row, users[u])
  BY <1>2 DEF Row, SameCounts
<1> HIDE DEF row
<1> QED BY <1>1, <1>3, RowRewritten

LEMMA UnlockKeeps ==
  ASSUME UsersHold, NEW u \in Users, UnlockUser(u)
  PROVE  UsersStep
<1> DEFINE row == Unlocked(users[u])
           m == 0
<1>1. /\ Exists(u) /\ users' = [users EXCEPT ![u] = row]
      /\ missed' = [missed EXCEPT ![u] = m] /\ m \in Nat
  BY DEF UnlockUser, Edit
<1>2. users[u] \in Row
  BY <1>1, RowOf DEF UsersHold
<1>3. /\ row \in Row \cup {NULL} /\ row.default = users[u].default /\ row.permanent = FALSE
      /\ Counts(row) = m
  BY <1>2, UnlockedRow
<1> HIDE DEF row, m
<1> QED BY <1>1, <1>3, RowWritten

LEMMA DeleteKeeps ==
  ASSUME UsersHold, NEW u \in Users, DeleteUser(u)
  PROVE  UsersStep
<1> DEFINE row == NULL
           m == missed[u]
<1>1. users' = [users EXCEPT ![u] = row] /\ UNCHANGED missed
  BY DEF DeleteUser, Edit
<1>2. missed' = [missed EXCEPT ![u] = m] /\ m \in Nat /\ row \in Row \cup {NULL} /\ row = NULL
  BY <1>1 DEF UsersHold, UsersTyped
<1> HIDE DEF row, m
<1> QED BY <1>1, <1>2, RowWritten

LEMMA PatchKeeps ==
  ASSUME UsersHold, patch \in Patch \cup {NULL}, PatchWrite
  PROVE  UsersStep
<1> DEFINE u == patch.user
           changed == [users[u] EXCEPT !.active = patch.active, !.role = patch.role]
           row == WithPassword(changed, patch.pwd)
<1>1. /\ u \in Users /\ patch.active \in BOOLEAN /\ patch.role \in Roles
      /\ patch.pwd \in Passwords \cup {NULL}
  BY DEF PatchWrite, Patch
<1>2. UNCHANGED missed
  BY DEF PatchWrite, ghost
<1>3. CASE Exists(u)
  <2>1. users' = [users EXCEPT ![u] = row]
    BY <1>3 DEF PatchWrite
  <2>2. users[u] \in Row
    BY <1>1, <1>3, RowOf DEF UsersHold
  <2>3. changed \in Row /\ SameCounts(changed, users[u])
    BY <1>1, <2>2 DEF Row, SameCounts
  <2>4. row \in Row /\ SameCounts(row, changed)
    <3> HIDE DEF changed
    <3> QED BY <1>1, <2>3, PasswordRow
  <2>5. SameCounts(row, users[u])
    <3> HIDE DEF changed, row
    <3> QED BY <2>3, <2>4 DEF SameCounts
  <2> HIDE DEF row, changed, u
  <2> QED BY <1>1, <1>2, <1>3, <2>1, <2>4, <2>5, RowRewritten
<1>4. CASE ~Exists(u)
  BY <1>2, <1>4, UsersUntouched DEF PatchWrite
<1> QED BY <1>3, <1>4

\* The flag is taken from its holder in the transaction that sets it.
LEMMA SetDefaultKeeps ==
  ASSUME UsersHold, NEW u \in Users, SetDefaultAdmin(u)
  PROVE  UsersStep
<1>1. /\ users' = [v \in Users |-> IF users[v] = NULL THEN NULL
                                   ELSE [users[v] EXCEPT !.default = (v = u)]]
      /\ UNCHANGED missed
  BY DEF SetDefaultAdmin, ghost
<1>2. ASSUME NEW v \in Users, users[v] # NULL
      PROVE  /\ users'[v] \in Row /\ users'[v].default = (v = u)
             /\ users'[v].failed = users[v].failed /\ users'[v].lockouts = users[v].lockouts
             /\ users'[v].permanent = users[v].permanent
  <2>1. users[v] \in Row
    BY <1>2, RowOf DEF UsersHold, Exists
  <2>2. users'[v] = [users[v] EXCEPT !.default = (v = u)]
    BY <1>1, <1>2
  <2>3. (v = u) \in BOOLEAN
    OBVIOUS
  <2> QED BY <2>1, <2>2, <2>3 DEF Row
<1>3. \A v \in Users : users[v] = NULL <=> users'[v] = NULL
  BY <1>1, <1>2, NullAssumption DEF NullAssumption
<1>4. UsersTyped'
  <2>1. ASSUME NEW v \in Users PROVE users'[v] \in Row \cup {NULL}
    BY <1>2, <1>3
  <2>2. users' = [v \in Users |-> users'[v]]
    BY <1>1
  <2> QED BY <1>1, <2>1, <2>2 DEF UsersHold, UsersTyped
<1>5. CountIsExact'
  BY <1>1, <1>2, <1>3 DEF UsersHold, CountIsExact, Exists
<1>6. OneDefaultAdmin'
  BY <1>2, <1>3 DEF OneDefaultAdmin, Exists
<1>7. Earned
  BY <1>2, <1>3 DEF Earned, Exists
<1> QED BY <1>4, <1>5, <1>6, <1>7 DEF UsersStep, UsersHold

\* The clock shortens locks and touches nothing else of a row.
LEMMA TickKeeps ==
  ASSUME UsersHold, Tick
  PROVE  UsersStep
<1>1. /\ users' = [u \in Users |-> IF users[u] = NULL \/ users[u].left = 0 THEN users[u]
                                   ELSE [users[u] EXCEPT !.left = users[u].left - 1]]
      /\ UNCHANGED missed
  BY DEF Tick
<1>2. ASSUME NEW v \in Users, users[v] # NULL
      PROVE  users'[v] \in Row /\ SameCounts(users'[v], users[v])
  <2>1. users[v] \in Row
    BY <1>2, RowOf DEF UsersHold, Exists
  <2>2. CASE users[v].left = 0
    <3>1. users'[v] = users[v]
      BY <1>1, <2>2
    <3> QED BY <2>1, <3>1 DEF SameCounts
  <2>3. CASE users[v].left # 0
    <3>1. users'[v] = [users[v] EXCEPT !.left = users[v].left - 1]
      BY <1>1, <1>2, <2>3
    <3>2. users[v].left - 1 \in 0..LockTime
      BY <2>1, <2>3, Constants DEF Row
    <3> QED BY <2>1, <3>1, <3>2 DEF Row, SameCounts
  <2> QED BY <2>2, <2>3
<1>3. \A v \in Users : users[v] = NULL <=> users'[v] = NULL
  BY <1>1, <1>2, NullAssumption DEF NullAssumption
<1>4. UsersTyped'
  <2>1. ASSUME NEW v \in Users PROVE users'[v] \in Row \cup {NULL}
    BY <1>2, <1>3
  <2>2. users' = [v \in Users |-> users'[v]]
    BY <1>1
  <2> QED BY <1>1, <2>1, <2>2 DEF UsersHold, UsersTyped
<1>5. CountIsExact'
  BY <1>1, <1>2, <1>3 DEF UsersHold, CountIsExact, Exists, SameCounts
<1>6. OneDefaultAdmin'
  BY <1>2, <1>3 DEF UsersHold, OneDefaultAdmin, Exists, SameCounts
<1>7. Earned
  BY <1>2, <1>3 DEF Earned, Exists, SameCounts
<1> QED BY <1>4, <1>5, <1>6, <1>7 DEF UsersStep, UsersHold

LEMMA UsersInit ==
  Init => UsersHold
<1> SUFFICES ASSUME Init PROVE UsersHold
  OBVIOUS
<1>1. users = InitUsers /\ missed = [u \in Users |-> 0]
  BY DEF Init
<1>2. UsersTyped
  BY <1>1, InputAssumption DEF UsersTyped, InputAssumption
<1>3. CountIsExact
  <2>1. ASSUME NEW u \in Users, Exists(u)
        PROVE  users[u].lockouts * MaxAttempts + users[u].failed = missed[u]
    <3>1. users[u].failed = 0 /\ users[u].lockouts = 0 /\ missed[u] = 0
      BY <1>1, <2>1, InputAssumption DEF InputAssumption, Exists
    <3>2. 0 * MaxAttempts + 0 = 0
      BY Constants
    <3> QED BY <3>1, <3>2
  <2> QED BY <2>1 DEF CountIsExact
<1>4. OneDefaultAdmin
  BY <1>1, InputAssumption DEF InputAssumption, OneDefaultAdmin, Exists
<1> QED BY <1>2, <1>3, <1>4 DEF UsersHold

\* What arrives changes nothing but its request.
LEMMA ArrivalsWait ==
  ASSUME Arrivals
  PROVE  UNCHANGED <<users, failures, blocked, patch, ghost>>
<1>1. PICK q \in Requests :
        \/ \E a \in Addresses, u \in Users, p \in Passwords :
             \/ Arrive(q, "login", a, u, p, NULL)
             \/ \E n \in Passwords \ {p} : Arrive(q, "change", a, u, p, n)
        \/ \E u \in Users, role \in IdpRoles : SsoLookup(q, u, role)
        \/ AutoLogin(q)
  BY DEF Arrivals
<1>2. ASSUME NEW a, NEW u, NEW p, NEW n, NEW kind, Arrive(q, kind, a, u, p, n)
      PROVE  UNCHANGED <<users, failures, blocked, patch, ghost>>
  BY <1>2 DEF Arrive
<1>3. ASSUME NEW u, NEW role, SsoLookup(q, u, role)
      PROVE  UNCHANGED <<users, failures, blocked, patch, ghost>>
  BY <1>3 DEF SsoLookup
<1>4. ASSUME AutoLogin(q)
      PROVE  UNCHANGED <<users, failures, blocked, patch, ghost>>
  BY <1>4 DEF AutoLogin
<1> QED BY <1>1, <1>2, <1>3, <1>4

LEMMA UsersNext ==
  ASSUME UsersHold, RequestHolds, request \in [Requests -> Request],
         patch \in Patch \cup {NULL}, [Next]_vars
  PROVE  UsersStep
<1>1. CASE Arrivals
  BY <1>1, ArrivalsWait, UsersUntouched DEF ghost
<1>2. CASE Administer
  <2>1. ASSUME NEW u \in Users, NEW p \in Passwords, NEW role \in Roles, CreateUser(u, p, role)
        PROVE  UsersStep
    BY <2>1, CreateKeeps
  <2>2. ASSUME NEW u \in Users, NEW p \in Passwords, ResetUserPassword(u, p)
        PROVE  UsersStep
    BY <2>2, ResetKeeps
  <2>3. ASSUME NEW u \in Users, NEW form \in PatchForms,
               PatchRead(u, form.active, form.role, form.pwd)
        PROVE  UsersStep
    BY <2>3, UsersUntouched DEF PatchRead, ghost
  <2>4. ASSUME NEW u \in Users, UnlockUser(u) \/ DeleteUser(u) \/ SetDefaultAdmin(u)
        PROVE  UsersStep
    BY <2>4, UnlockKeeps, DeleteKeeps, SetDefaultKeeps
  <2>5. CASE PatchWrite
    BY <2>5, PatchKeeps
  <2> QED BY <1>2, <2>1, <2>2, <2>3, <2>4, <2>5 DEF Administer
<1>3. CASE Tick
  BY <1>3, TickKeeps
<1>4. ASSUME NEW q \in Requests, Handle(q)
      PROVE  UsersStep
  <2>1. CASE Lookup(q)
    BY <2>1, UsersUntouched DEF Lookup, ghost
  <2>2. CASE Wrong(q)
    BY <2>2, WrongKeeps
  <2>3. CASE CountAddress(q)
    BY <2>3, UsersUntouched DEF CountAddress
  <2>4. CASE Right(q)
    BY <2>4, RightKeeps
  <2>5. CASE Answer(q)
    BY <2>5, UsersUntouched DEF Answer, ghost
  <2>6. CASE SsoProvision(q)
    BY <2>6, SsoInsertsNothing, UsersUntouched DEF SsoProvision, ghost
  <2>7. CASE SsoAssert(q)
    BY <2>7, SsoAssertKeeps
  <2> QED BY <1>4, <2>1, <2>2, <2>3, <2>4, <2>5, <2>6, <2>7 DEF Handle
<1>5. CASE UNCHANGED vars
  BY <1>5, UsersUntouched DEF vars, ghost
<1> QED BY <1>1, <1>2, <1>3, <1>4, <1>5 DEF Next

-----------------------------------------------------------------------------
(* The throttle.                                                           *)

ThrottleTyped ==
  /\ failures \in [Addresses -> [Ages -> Nat]]
  /\ blocked \in [Addresses -> 0..BlockTime]
  /\ recent \in [Addresses -> [Counted -> Nat]]
ThrottleHolds == ThrottleTyped /\ RecentIsKept

\* A block begins with a failure that the window's others bring to the limit.
BlockEarned ==
  \A a \in Addresses : blocked'[a] > blocked[a] => Total(recent[a]) + 1 >= MaxFailures

ThrottleStep == ThrottleHolds' /\ BlockEarned

\* What is counted is kept: the window is no longer than _KEEP.
LEMMA CountedIsKept ==
  Counted \subseteq Ages /\ 0 \in Counted /\ (\A i \in Counted : ~(i > Keep) /\ i # Keep + 1)
BY Constants DEF Counted, Ages

LEMMA ThrottleInit ==
  Init => ThrottleHolds
<1> SUFFICES ASSUME Init PROVE ThrottleHolds
  OBVIOUS
<1>1. /\ failures = [a \in Addresses |-> NoneAt(Ages)]
      /\ recent = [a \in Addresses |-> NoneAt(Counted)]
      /\ blocked = [a \in Addresses |-> 0]
  BY DEF Init
<1>2. ThrottleTyped
  BY <1>1, Constants DEF ThrottleTyped, NoneAt
<1>3. ASSUME NEW a \in Addresses PROVE Lately(failures[a]) = recent[a]
  BY <1>1, CountedIsKept DEF Lately, NoneAt
<1> QED BY <1>2, <1>3 DEF ThrottleHolds, RecentIsKept

LEMMA ThrottleUntouched ==
  ASSUME ThrottleHolds, UNCHANGED <<failures, blocked, recent>>
  PROVE  ThrottleStep
BY DEF ThrottleStep, ThrottleHolds, ThrottleTyped, RecentIsKept, BlockEarned

LEMMA CountFailureKeeps ==
  ASSUME ThrottleHolds, NEW a \in Addresses, CountFailure(a)
  PROVE  ThrottleStep
<1> DEFINE kept == [b \in Addresses |-> Pruned(failures[b])]
<1>1. kept \in [Addresses -> [Ages -> Nat]]
  BY DEF ThrottleHolds, ThrottleTyped, Pruned
<1>2. ASSUME NEW b \in Addresses PROVE Lately(kept[b]) = recent[b]
  <2>1. \A i \in Counted : kept[b][i] = failures[b][i]
    BY CountedIsKept DEF Pruned
  <2>2. Lately(kept[b]) = Lately(failures[b])
    <3> HIDE DEF kept
    <3> QED BY <2>1 DEF Lately
  <2> QED BY <2>2 DEF ThrottleHolds, RecentIsKept
<1>3. CASE Blocks(a)
  <2>1. /\ failures' = [kept EXCEPT ![a] = NoneAt(Ages)]
        /\ blocked' = [blocked EXCEPT ![a] = BlockTime]
        /\ recent' = [recent EXCEPT ![a] = NoneAt(Counted)]
    BY <1>3 DEF CountFailure
  <2> HIDE DEF kept
  <2>2. NoneAt(Ages) \in [Ages -> Nat] /\ NoneAt(Counted) \in [Counted -> Nat]
    BY DEF NoneAt
  <2>3. ThrottleTyped'
    BY <1>1, <2>1, <2>2, Constants DEF ThrottleHolds, ThrottleTyped
  <2>4. ASSUME NEW b \in Addresses PROVE Lately(failures'[b]) = recent'[b]
    <3>1. CASE b = a
      <4>1. Lately(NoneAt(Ages)) = NoneAt(Counted)
        BY CountedIsKept DEF Lately, NoneAt
      <4>2. failures'[b] = NoneAt(Ages) /\ recent'[b] = NoneAt(Counted)
        BY <1>1, <2>1, <3>1 DEF ThrottleHolds, ThrottleTyped
      <4> QED BY <4>1, <4>2
    <3>2. CASE b # a
      <4>1. failures'[b] = kept[b] /\ recent'[b] = recent[b]
        BY <1>1, <2>1, <3>2 DEF ThrottleHolds, ThrottleTyped
      <4> QED BY <1>2, <4>1
    <3> QED BY <3>1, <3>2
  <2>5. Total(recent[a]) + 1 >= MaxFailures
    BY <1>3 DEF Blocks, ThrottleHolds, RecentIsKept
  <2>6. BlockEarned
    <3>1. ASSUME NEW b \in Addresses, blocked'[b] > blocked[b] PROVE b = a
      BY <2>1, <3>1 DEF ThrottleHolds, ThrottleTyped
    <3> QED BY <2>5, <3>1 DEF BlockEarned
  <2> QED BY <2>3, <2>4, <2>6 DEF ThrottleStep, ThrottleHolds, RecentIsKept
<1>4. CASE ~Blocks(a)
  <2>1. /\ failures' = [kept EXCEPT ![a] = OneMore(kept[a])]
        /\ recent' = [recent EXCEPT ![a] = OneMore(recent[a])]
        /\ UNCHANGED blocked
    BY <1>4 DEF CountFailure
  <2> HIDE DEF kept
  <2>2. kept[a] \in [Ages -> Nat] /\ recent[a] \in [Counted -> Nat] /\ 0 \in Ages /\ 0 \in Counted
    BY <1>1, CountedIsKept DEF ThrottleHolds, ThrottleTyped
  <2>a. OneMore(kept[a]) \in [Ages -> Nat] /\ OneMore(recent[a]) \in [Counted -> Nat]
    BY <2>2 DEF OneMore
  <2>3. ThrottleTyped'
    BY <1>1, <2>1, <2>a DEF ThrottleHolds, ThrottleTyped
  <2>4. ASSUME NEW b \in Addresses PROVE Lately(failures'[b]) = recent'[b]
    <3>1. CASE b = a
      <4>1. failures'[b] = OneMore(kept[a]) /\ recent'[b] = OneMore(recent[a])
        BY <1>1, <2>1, <3>1 DEF ThrottleHolds, ThrottleTyped
      <4>2. \A i \in Counted : kept[a][i] = recent[a][i]
        BY <1>2 DEF Lately
      <4>3. \A i \in Counted : failures'[b][i] = recent'[b][i]
        BY <2>2, <4>1, <4>2, CountedIsKept DEF OneMore
      <4>4. recent'[b] = [i \in Counted |-> recent'[b][i]]
        BY <2>2, <4>1 DEF OneMore
      <4> QED BY <4>3, <4>4 DEF Lately
    <3>2. CASE b # a
      <4>1. failures'[b] = kept[b] /\ recent'[b] = recent[b]
        BY <1>1, <2>1, <3>2 DEF ThrottleHolds, ThrottleTyped
      <4> QED BY <1>2, <4>1
    <3> QED BY <3>1, <3>2
  <2>5. BlockEarned
    BY <2>1 DEF BlockEarned, ThrottleHolds, ThrottleTyped
  <2> QED BY <2>3, <2>4, <2>5 DEF ThrottleStep, ThrottleHolds, RecentIsKept
<1> QED BY <1>3, <1>4

LEMMA TickAges ==
  ASSUME ThrottleHolds, Tick
  PROVE  ThrottleStep
<1>1. /\ blocked' = [a \in Addresses |-> IF blocked[a] = 0 THEN 0 ELSE blocked[a] - 1]
      /\ failures' = [a \in Addresses |-> Older(failures[a])]
      /\ recent' = [a \in Addresses |-> Aged(recent[a])]
  BY DEF Tick
<1>2. ASSUME NEW a \in Addresses
      PROVE  Older(failures[a]) \in [Ages -> Nat] /\ Aged(recent[a]) \in [Counted -> Nat]
  <2>1. failures[a] \in [Ages -> Nat] /\ recent[a] \in [Counted -> Nat]
    BY DEF ThrottleHolds, ThrottleTyped
  <2>2. ASSUME NEW i \in Ages PROVE Older(failures[a])[i] \in Nat
    BY <2>1, Constants DEF Older, Ages
  <2>3. ASSUME NEW i \in Counted PROVE Aged(recent[a])[i] \in Nat
    BY <2>1, Constants DEF Aged, Counted
  <2> QED BY <2>2, <2>3 DEF Older, Aged
<1>3. ASSUME NEW a \in Addresses PROVE blocked'[a] \in 0..BlockTime /\ ~(blocked'[a] > blocked[a])
  <2>1. blocked[a] \in 0..BlockTime /\ blocked'[a] = (IF blocked[a] = 0 THEN 0 ELSE blocked[a] - 1)
    BY <1>1 DEF ThrottleHolds, ThrottleTyped
  <2> QED BY <2>1, Constants
<1>4. ThrottleTyped'
  BY <1>1, <1>2, <1>3 DEF ThrottleTyped
<1>5. ASSUME NEW a \in Addresses PROVE Lately(failures'[a]) = recent'[a]
  <2>1. \A i \in Counted : failures[a][i] = recent[a][i]
    <3>1. Lately(failures[a]) = recent[a]
      BY DEF ThrottleHolds, RecentIsKept
    <3> QED BY <3>1 DEF Lately
  <2>2. ASSUME NEW i \in Counted PROVE Older(failures[a])[i] = Aged(recent[a])[i]
    <3>1. CASE i = 0
      BY <3>1, CountedIsKept DEF Older, Aged
    <3>2. CASE i # 0
      <4>1. i - 1 \in Counted
        BY <3>2, Constants DEF Counted
      <4>2. Older(failures[a])[i] = failures[a][i - 1] /\ Aged(recent[a])[i] = recent[a][i - 1]
        BY <3>2, CountedIsKept DEF Older, Aged
      <4> QED BY <2>1, <4>1, <4>2
    <3> QED BY <3>1, <3>2
  <2>3. failures'[a] = Older(failures[a]) /\ recent'[a] = Aged(recent[a])
    BY <1>1
  <2>4. Aged(recent[a]) = [i \in Counted |-> Aged(recent[a])[i]]
    BY DEF Aged
  <2> QED BY <2>2, <2>3, <2>4 DEF Lately
<1> QED BY <1>3, <1>4, <1>5 DEF ThrottleStep, ThrottleHolds, RecentIsKept, BlockEarned

LEMMA ThrottleNext ==
  ASSUME ThrottleHolds, RequestHolds, [Next]_vars
  PROVE  ThrottleStep
<1>1. CASE Arrivals
  BY <1>1, ArrivalsWait, ThrottleUntouched DEF ghost
<1>2. CASE Administer
  BY <1>2, ThrottleUntouched DEF Administer, CreateUser, ResetUserPassword, PatchRead,
     UnlockUser, DeleteUser, SetDefaultAdmin, PatchWrite, Edit, ghost
<1>3. CASE Tick
  BY <1>3, TickAges
<1>4. ASSUME NEW q \in Requests, Handle(q)
      PROVE  ThrottleStep
  <2>1. CASE CountAddress(q)
    <3>1. request[q].from \in Addresses
      BY <2>1 DEF CountAddress, At, RequestHolds, Sound
    <3> QED BY <2>1, <3>1, CountFailureKeeps DEF CountAddress
  <2>2. CASE Lookup(q) \/ Wrong(q) \/ Right(q) \/ Answer(q) \/ SsoProvision(q) \/ SsoAssert(q)
    BY <2>2, ThrottleUntouched DEF Lookup, Wrong, Right, Answer, SsoProvision, SsoAssert, ghost
  <2> QED BY <1>4, <2>1, <2>2 DEF Handle
<1>5. CASE UNCHANGED vars
  BY <1>5, ThrottleUntouched DEF vars, ghost
<1> QED BY <1>1, <1>2, <1>3, <1>4, <1>5 DEF Next

-----------------------------------------------------------------------------
(* Requests.                                                               *)

RequestsHold == request \in [Requests -> Request] /\ RequestHolds

LEMMA RequestWritten ==
  ASSUME RequestsHold, NEW q \in Requests, NEW r \in Request, Sound(r),
         request' = [request EXCEPT ![q] = r]
  PROVE  RequestsHold'
BY DEF RequestsHold, RequestHolds

LEMMA RequestUntouched ==
  ASSUME RequestsHold, UNCHANGED request
  PROVE  RequestsHold'
BY DEF RequestsHold, RequestHolds

LEMMA IdleRequest ==
  Idle \in Request /\ Sound(Idle)
BY DEF Idle, Request, Sound, Steps, Kinds

LEMMA LeaveKeeps ==
  ASSUME RequestsHold, NEW q \in Requests, Leave(q)
  PROVE  RequestsHold'
BY IdleRequest, RequestWritten DEF Leave

LEMMA WelcomeKeeps ==
  ASSUME RequestsHold, NEW q \in Requests, NEW u \in Users, Welcome(q, u)
  PROVE  RequestsHold'
<1> DEFINE r == [Idle EXCEPT !.at = "welcome", !.kind = request[q].kind, !.user = u]
<1>1. request[q] \in Request
  BY DEF RequestsHold
<1>2. r \in Request /\ Sound(r)
  BY <1>1 DEF Idle, Request, Sound, Steps, Kinds
<1>3. request' = [request EXCEPT ![q] = r]
  BY DEF Welcome
<1> HIDE DEF r
<1> QED BY <1>2, <1>3, RequestWritten

\* A failure is owed to the address the request came from.
LEMMA OwedKeeps ==
  ASSUME RequestsHold, NEW q \in Requests, request[q].from \in Addresses,
         request' = [request EXCEPT ![q] = [Idle EXCEPT !.at = "count", !.from = request[q].from]]
  PROVE  RequestsHold'
<1> DEFINE r == [Idle EXCEPT !.at = "count", !.from = request[q].from]
<1>1. r \in Request /\ Sound(r)
  BY DEF Idle, Request, Sound, Steps, Kinds
<1>2. request' = [request EXCEPT ![q] = r]
  OBVIOUS
<1> HIDE DEF r
<1> QED BY <1>1, <1>2, RequestWritten

LEMMA ArriveKeeps ==
  ASSUME RequestsHold, NEW q \in Requests, NEW kind \in {"login", "change"},
         NEW a \in Addresses, NEW u \in Users, NEW p \in Passwords,
         NEW n \in Passwords \cup {NULL}, Arrive(q, kind, a, u, p, n)
  PROVE  RequestsHold'
<1> DEFINE r == [Idle EXCEPT !.at = "lookup", !.kind = kind, !.from = a, !.user = u,
                             !.new = n, !.typed = p]
<1>1. r \in Request /\ Sound(r)
  BY DEF Idle, Request, Sound, Steps, Kinds
<1>2. request' = [request EXCEPT ![q] = r]
  BY DEF Arrive
<1> HIDE DEF r
<1> QED BY <1>1, <1>2, RequestWritten

LEMMA LookupKeeps ==
  ASSUME RequestsHold, NEW q \in Requests, Lookup(q)
  PROVE  RequestsHold'
<1>1. request[q] \in Request /\ request[q].user \in Users /\ request[q].from \in Addresses
  BY DEF RequestsHold, RequestHolds, Sound, Lookup, At
<1>2. CASE request' = [request EXCEPT ![q] = [Idle EXCEPT !.at = "count", !.from = request[q].from]]
  BY <1>1, <1>2, OwedKeeps
<1>3. CASE Leave(q)
  BY <1>3, LeaveKeeps
<1>4. CASE request' = [request EXCEPT ![q] = Judged(q)]
  <2> DEFINE right == users[request[q].user].pwd = request[q].typed
             new == IF right THEN request[q].new ELSE NULL
             r == [request[q] EXCEPT !.at = IF right THEN "right" ELSE "wrong",
                                     !.typed = NULL, !.new = new]
  <2>1. Judged(q) = r
    BY DEF Judged
  <2>2. new \in Passwords \cup {NULL} /\ (IF right THEN "right" ELSE "wrong") \in {"right", "wrong"}
    BY <1>1 DEF Request
  <2>3. r \in Request /\ Sound(r)
    <3> HIDE DEF right, new
    <3> QED BY <1>1, <2>2 DEF Request, Sound, Steps
  <2> HIDE DEF r
  <2> QED BY <1>4, <2>1, <2>3, RequestWritten
<1> QED BY <1>2, <1>3, <1>4 DEF Lookup

LEMMA WrongLeaves ==
  ASSUME RequestsHold, NEW q \in Requests, Wrong(q)
  PROVE  RequestsHold'
<1>1. request[q].from \in Addresses
  BY DEF RequestsHold, RequestHolds, Sound, Wrong, At
<1> QED BY <1>1, OwedKeeps, LeaveKeeps DEF Wrong

LEMMA RightLeaves ==
  ASSUME RequestsHold, NEW q \in Requests, Right(q)
  PROVE  RequestsHold'
<1>1. request[q].user \in Users
  BY DEF RequestsHold, RequestHolds, Sound, Right, At
<1>2. Welcome(q, request[q].user) \/ Leave(q)
  BY DEF Right
<1> QED BY <1>1, <1>2, WelcomeKeeps, LeaveKeeps

LEMMA SsoLookupKeeps ==
  ASSUME RequestsHold, NEW q \in Requests, NEW u \in Users, NEW role \in IdpRoles,
         SsoLookup(q, u, role)
  PROVE  RequestsHold'
<1> DEFINE at == IF Exists(u) THEN "assert" ELSE "provision"
           r == [Idle EXCEPT !.at = at, !.kind = "sso", !.user = u, !.role = role]
<1>1. at \in {"assert", "provision"} /\ role \in Roles
  BY InputAssumption DEF InputAssumption
<1>2. request' = [request EXCEPT ![q] = r]
  BY DEF SsoLookup
<1>3. r \in Request /\ Sound(r)
  <2> HIDE DEF at
  <2> QED BY <1>1 DEF Idle, Request, Sound, Steps, Kinds
<1> HIDE DEF r
<1> QED BY <1>2, <1>3, RequestWritten

LEMMA AutoLoginKeeps ==
  ASSUME RequestsHold, NEW q \in Requests, AutoLogin(q)
  PROVE  RequestsHold'
<1>1. PICK u \in AutoAccount : request' = [request EXCEPT ![q] =
        [Idle EXCEPT !.at = "welcome", !.kind = "auto", !.user = u]]
  BY DEF AutoLogin
<1>2. u \in Users
  BY <1>1 DEF AutoAccount, Defaults, Admins
<1> DEFINE r == [Idle EXCEPT !.at = "welcome", !.kind = "auto", !.user = u]
<1>3. r \in Request /\ Sound(r)
  BY <1>2 DEF Idle, Request, Sound, Steps, Kinds
<1>4. request' = [request EXCEPT ![q] = r]
  BY <1>1
<1> HIDE DEF r
<1> QED BY <1>3, <1>4, RequestWritten

LEMMA RequestsInit ==
  Init => RequestsHold
BY IdleRequest DEF Init, RequestsHold, RequestHolds

LEMMA RequestsNext ==
  ASSUME RequestsHold, [Next]_vars
  PROVE  RequestsHold'
<1>1. CASE Arrivals
  <2>1. ASSUME NEW q \in Requests, NEW a \in Addresses, NEW u \in Users, NEW p \in Passwords,
               Arrive(q, "login", a, u, p, NULL)
        PROVE  RequestsHold'
    BY <2>1, ArriveKeeps
  <2>2. ASSUME NEW q \in Requests, NEW a \in Addresses, NEW u \in Users, NEW p \in Passwords,
               NEW n \in Passwords \ {p}, Arrive(q, "change", a, u, p, n)
        PROVE  RequestsHold'
    BY <2>2, ArriveKeeps
  <2> QED BY <1>1, <2>1, <2>2, SsoLookupKeeps, AutoLoginKeeps DEF Arrivals
<1>2. CASE Administer
  BY <1>2, RequestUntouched DEF Administer, CreateUser, ResetUserPassword, PatchRead,
     UnlockUser, DeleteUser, SetDefaultAdmin, PatchWrite, Edit
<1>3. CASE Tick
  BY <1>3, RequestUntouched DEF Tick
<1>4. ASSUME NEW q \in Requests, Handle(q)
      PROVE  RequestsHold'
  <2>1. CASE Lookup(q)
    BY <2>1, LookupKeeps
  <2>2. CASE Wrong(q)
    BY <2>2, WrongLeaves
  <2>3. CASE CountAddress(q)
    BY <2>3, LeaveKeeps DEF CountAddress
  <2>4. CASE Right(q)
    BY <2>4, RightLeaves
  <2>5. CASE Answer(q)
    BY <2>5, LeaveKeeps DEF Answer
  <2>6. CASE SsoProvision(q)
    BY <2>6, LeaveKeeps DEF SsoProvision, Insertable
  <2>7. CASE SsoAssert(q)
    <3>1. request[q].user \in Users
      BY <2>7 DEF RequestsHold, RequestHolds, Sound, SsoAssert, At
    <3> QED BY <2>7, <3>1, WelcomeKeeps DEF SsoAssert
  <2> QED BY <1>4, <2>1, <2>2, <2>3, <2>4, <2>5, <2>6, <2>7 DEF Handle
<1>5. CASE UNCHANGED vars
  BY <1>5, RequestUntouched DEF vars
<1> QED BY <1>1, <1>2, <1>3, <1>4, <1>5 DEF Next

-----------------------------------------------------------------------------
(* The rest, and the theorems.                                             *)

RestHolds == patch \in Patch \cup {NULL} /\ wrongs \in 0..MaxWrong /\ edits \in 0..MaxEdits

LEMMA RestInit ==
  Init => RestHolds
BY Constants DEF Init, RestHolds

\* What the form leaves out is taken from the row, which has a value for it.
LEMMA PatchReadKeeps ==
  ASSUME UsersHold, RestHolds, NEW u \in Users, NEW form \in PatchForms,
         PatchRead(u, form.active, form.role, form.pwd)
  PROVE  RestHolds'
<1> DEFINE active == IF form.active = NULL THEN users[u].active ELSE form.active
           role == IF form.role = NULL THEN users[u].role ELSE form.role
<1>1. users[u] \in Row
  BY RowOf DEF PatchRead, UsersHold
<1>2. form \in [active : BOOLEAN \cup {NULL}, role : Roles \cup {NULL}, pwd : Passwords \cup {NULL}]
  BY InputAssumption DEF InputAssumption
<1>3. active \in BOOLEAN /\ role \in Roles /\ form.pwd \in Passwords \cup {NULL}
  BY <1>1, <1>2 DEF Row
<1>4. patch' = [user |-> u, pwd |-> form.pwd, active |-> active, role |-> role]
  BY DEF PatchRead
<1>5. patch' \in Patch
  <2> HIDE DEF active, role
  <2> QED BY <1>3, <1>4 DEF Patch
<1>6. edits < MaxEdits /\ edits' = edits + 1 /\ wrongs' = wrongs
  BY DEF PatchRead
<1> QED BY <1>5, <1>6, Constants DEF RestHolds

LEMMA CountersStep ==
  ASSUME RestHolds, UNCHANGED patch \/ patch' = NULL,
         wrongs' = wrongs \/ (wrongs < MaxWrong /\ wrongs' = wrongs + 1),
         edits' = edits \/ (edits < MaxEdits /\ edits' = edits + 1)
  PROVE  RestHolds'
BY Constants DEF RestHolds

LEMMA RestNext ==
  ASSUME UsersHold, RestHolds, [Next]_vars
  PROVE  RestHolds'
<1>1. CASE Arrivals
  <2>1. ASSUME NEW q, NEW a, NEW u, NEW p, NEW n, NEW kind, Arrive(q, kind, a, u, p, n)
        PROVE  RestHolds'
    BY <2>1, CountersStep DEF Arrive
  <2>2. ASSUME NEW q, NEW u, NEW role, SsoLookup(q, u, role)
        PROVE  RestHolds'
    BY <2>2, CountersStep DEF SsoLookup
  <2>3. ASSUME NEW q, AutoLogin(q)
        PROVE  RestHolds'
    BY <2>3, CountersStep DEF AutoLogin
  <2> QED BY <1>1, <2>1, <2>2, <2>3 DEF Arrivals
<1>2. CASE Administer
  <2>1. ASSUME NEW u \in Users, NEW form \in PatchForms,
               PatchRead(u, form.active, form.role, form.pwd)
        PROVE  RestHolds'
    BY <2>1, PatchReadKeeps
  <2>2. ASSUME NEW u, NEW p, NEW role, CreateUser(u, p, role)
        PROVE  RestHolds'
    BY <2>2, CountersStep DEF CreateUser, Edit
  <2>3. ASSUME NEW u, NEW p, ResetUserPassword(u, p)
        PROVE  RestHolds'
    BY <2>3, CountersStep DEF ResetUserPassword, Edit
  <2>4. ASSUME NEW u, UnlockUser(u) \/ DeleteUser(u)
        PROVE  RestHolds'
    BY <2>4, CountersStep DEF UnlockUser, DeleteUser, Edit
  <2>5. ASSUME NEW u, SetDefaultAdmin(u)
        PROVE  RestHolds'
    BY <2>5, CountersStep DEF SetDefaultAdmin
  <2>6. CASE PatchWrite
    BY <2>6, CountersStep DEF PatchWrite
  <2> QED BY <1>2, <2>1, <2>2, <2>3, <2>4, <2>5, <2>6 DEF Administer
<1>3. CASE Tick
  BY <1>3, CountersStep DEF Tick
<1>4. ASSUME NEW q \in Requests, Handle(q)
      PROVE  RestHolds'
  BY <1>4, CountersStep DEF Handle, Lookup, Wrong, CountAddress, Right, Answer,
     SsoProvision, SsoAssert
<1>5. CASE UNCHANGED vars
  BY <1>5, CountersStep DEF vars
<1> QED BY <1>1, <1>2, <1>3, <1>4, <1>5 DEF Next

LEMMA Parts ==
  IInv <=> UsersHold /\ ThrottleHolds /\ RequestsHold /\ RestHolds
BY DEF IInv, Inv, TypeOK, UsersHold, UsersTyped, ThrottleHolds, ThrottleTyped, RequestsHold,
   RestHolds

LEMMA StepKeeps ==
  ASSUME IInv, [Next]_vars
  PROVE  IInv' /\ Earned /\ BlockEarned
<1>1. UsersHold /\ ThrottleHolds /\ RequestsHold /\ RestHolds
  BY Parts
<1>2. UsersStep
  BY <1>1, UsersNext DEF RequestsHold, RestHolds
<1>3. ThrottleStep
  BY <1>1, ThrottleNext DEF RequestsHold
<1>4. RequestsHold' /\ RestHolds'
  BY <1>1, RequestsNext, RestNext
<1>5. (UsersHold /\ ThrottleHolds /\ RequestsHold /\ RestHolds)' => IInv'
  BY Parts, PTL
<1> QED BY <1>2, <1>3, <1>4, <1>5 DEF UsersStep, ThrottleStep

LEMMA Inductive == Spec => []IInv
<1>1. Init => IInv
  BY UsersInit, ThrottleInit, RequestsInit, RestInit, Parts
<1>2. IInv /\ [Next]_vars => IInv'
  BY StepKeeps
<1> QED BY <1>1, <1>2, PTL DEF Spec

\* app/auth/lockout.py:77: the row's counters account for every wrong password
\* since the account was last cleared, and at most one account is the default
\* administrator, in every interleaving of requests and edits.
THEOREM Invariant == Spec => []Inv
<1>1. IInv => Inv
  BY DEF IInv
<1> QED BY <1>1, Inductive, PTL

\* app/auth/lockout.py:8: a permanent lock takes two rounds of wrong passwords
\* since the account was last cleared.
THEOREM PermanentLocksAreEarned == Spec => PermanentIsEarned
<1>1. IInv /\ [Next]_vars => [\A u \in Users :
        /\ Exists(u) /\ ~users[u].permanent
        /\ users'[u] # NULL /\ users'[u].permanent
        => missed'[u] >= 2 * MaxAttempts]_vars
  BY StepKeeps DEF Earned
<1> QED BY <1>1, Inductive, PTL DEF Spec, PermanentIsEarned

\* app/auth/throttle.py:9: an address is blocked for as many failures as the
\* limit says, all of one window and none from before its last block.
THEOREM BlocksAreEarned == Spec => BlockIsEarned
<1>1. IInv /\ [Next]_vars => [\A a \in Addresses : blocked'[a] > blocked[a] =>
        Total(recent[a]) + 1 >= MaxFailures]_vars
  BY StepKeeps DEF BlockEarned
<1> QED BY <1>1, Inductive, PTL DEF Spec, BlockIsEarned
=============================================================================
