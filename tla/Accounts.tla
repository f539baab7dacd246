------------------------------ MODULE Accounts ------------------------------
(***************************************************************************)
(* Accounts and the ways into them: the login and change-password forms    *)
(* with the account lockout and the per-address throttle, SAML sign-in,    *)
(* auto-login, and the administrator's user list.                          *)
(*                                                                         *)
(* Requests run concurrently, each on its own connection.  A form reads    *)
(* the account in one statement and judges the typed password against      *)
(* what it read; its failure or success is a later UPDATE, with the        *)
(* statements of other requests in between.  The database's clock is kept  *)
(* as remaining times and ages, which Tick moves.                          *)
(***************************************************************************)
EXTENDS Integers, FiniteSets, Functions

CONSTANTS
  NULL,          \* no such row, no value
  Users,         \* accounts that may exist
  Addresses,     \* where requests come from
  Requests,      \* requests that may be under way at one time
  Passwords,
  MaxAttempts,   \* login_max_failed_attempts
  LockTime,      \* LOCK_MINUTES, in ticks
  MaxFailures,   \* address_max_failed_attempts
  Window,        \* address_failure_window_minutes, in ticks
  Keep,          \* _KEEP, in ticks
  BlockTime,     \* address_block_minutes, in ticks
  InitUsers,     \* the accounts at the start
  IdpRoles,      \* the roles the identity provider asserts
  Owners,        \* the accounts whose owners keep signing in
  Guessed,       \* bound: the accounts that wrong passwords are typed for
  PatchForms,    \* what an administrator changes at once, NULL: left alone
  MaxWrong,      \* bound: requests sent with a wrong name or password
  MaxEdits       \* bound: changes by administrators, owners and the identity provider

ASSUME AccountsAssumption ==
  /\ {MaxAttempts, LockTime, MaxFailures, Window, BlockTime} \subseteq Nat \ {0}
  /\ Keep \in Nat /\ Keep >= Window
  /\ MaxWrong \in Nat /\ MaxEdits \in Nat
  /\ IsFiniteSet(Requests)

VARIABLES
  users,      \* users: the row of an account, or NULL
  failures,   \* address_failures: address -> age -> its rows of that age
  blocked,    \* address_blocks: address -> time left until blocked_until
  request,    \* request -> where it is, and what it read
  patch,      \* the PATCH /users handler between its SELECT and its UPDATE
  wrongs,     \* wrong requests so far, at most MaxWrong
  edits,      \* edits so far, at most MaxEdits
  (* For stating properties only: *)
  missed,     \* wrong passwords judged since the account was last cleared
  recent      \* address -> age, within the window -> its failed checks since its last block

ghost == <<missed, recent>>
vars == <<users, failures, blocked, request, patch, wrongs, edits, ghost>>

-----------------------------------------------------------------------------

Roles == {"admin", "viewer"}

\* A row of users.  failed, lockouts, left and permanent are
\* failed_login_count, lockout_count, the time to locked_until and is_locked.
Row == [pwd : Passwords, active : BOOLEAN, role : Roles, default : BOOLEAN,
        failed : 0..(MaxAttempts - 1), lockouts : Nat,
        left : 0..LockTime, permanent : BOOLEAN]

\* The ages of rows that are counted, and of rows that are kept; all older
\* ones are alike.
Counted == 0..(Window - 1)
Ages == 0..(Keep + 1)

NoneAt(ages) == [i \in ages |-> 0]

\* Where a request is: before its SELECT; holding a wrong or the right
\* password; owing the address a count; answered with tokens; and in the SAML
\* callback, with the account to provision or its role to assert.
Steps == {"idle", "lookup", "wrong", "right", "count", "welcome", "provision", "assert"}
Kinds == {"login", "change", "sso", "auto"}
Request == [at : Steps, kind : Kinds, from : Addresses \cup {NULL},
            user : Users \cup {NULL}, typed : Passwords \cup {NULL},
            new : Passwords \cup {NULL}, role : Roles \cup {NULL}]
Idle == [at |-> "idle", kind |-> "login", from |-> NULL, user |-> NULL,
         typed |-> NULL, new |-> NULL, role |-> NULL]
Patch == [user : Users, active : BOOLEAN, role : Roles, pwd : Passwords \cup {NULL}]

ASSUME NullAssumption ==
  /\ NULL \notin Users /\ NULL \notin Addresses /\ NULL \notin Passwords
  /\ NULL \notin Roles /\ NULL \notin BOOLEAN /\ NULL \notin Row /\ NULL \notin Patch

ASSUME InputAssumption ==
  /\ IdpRoles \subseteq Roles
  /\ PatchForms \subseteq [active : BOOLEAN \cup {NULL}, role : Roles \cup {NULL},
                           pwd : Passwords \cup {NULL}]
  /\ InitUsers \in [Users -> Row \cup {NULL}]
  /\ \A u \in Users : InitUsers[u] # NULL => InitUsers[u].failed = 0 /\ InitUsers[u].lockouts = 0
  /\ \A u, v \in Users :
       /\ InitUsers[u] # NULL /\ InitUsers[u].default
       /\ InitUsers[v] # NULL /\ InitUsers[v].default
       => u = v

TypeOK ==
  /\ users \in [Users -> Row \cup {NULL}]
  /\ failures \in [Addresses -> [Ages -> Nat]]
  /\ blocked \in [Addresses -> 0..BlockTime]
  /\ request \in [Requests -> Request]
  /\ patch \in Patch \cup {NULL}
  /\ wrongs \in 0..MaxWrong /\ edits \in 0..MaxEdits
  /\ missed \in [Users -> Nat]
  /\ recent \in [Addresses -> [Counted -> Nat]]

NewUser(pwd, role, default) ==
  [pwd |-> pwd, active |-> TRUE, role |-> role, default |-> default,
   failed |-> 0, lockouts |-> 0, left |-> 0, permanent |-> FALSE]

\* A row after an UPDATE that may bring a new password.
WithPassword(row, pwd) == IF pwd = NULL THEN row ELSE [row EXCEPT !.pwd = pwd]

Init ==
  /\ users = InitUsers
  /\ failures = [a \in Addresses |-> NoneAt(Ages)]
  /\ blocked = [a \in Addresses |-> 0]
  /\ request = [q \in Requests |-> Idle]
  /\ patch = NULL /\ wrongs = 0 /\ edits = 0
  /\ missed = [u \in Users |-> 0]
  /\ recent = [a \in Addresses |-> NoneAt(Counted)]

Exists(u) == users[u] # NULL
Active(u) == Exists(u) /\ users[u].active
At(q, step) == request[q].at = step
Leave(q) == request' = [request EXCEPT ![q] = Idle]

-----------------------------------------------------------------------------
(* Lockout: app/auth/lockout.py.                                           *)

\* Faulty: a lock is known by the count of lockouts.
LockedByCount(row) == row.permanent \/ row.lockouts > 0

\* describe, of the columns selected with the row.
Locked(row) == row.permanent \/ row.left > 0

\* Faulty: the count goes on when the account is locked.
MissedOn(row) ==
  LET reached == row.failed + 1 >= MaxAttempts
      again == row.lockouts + 1 >= 2
  IN  [row EXCEPT !.failed = IF reached THEN @ ELSE @ + 1,
                  !.lockouts = IF reached THEN @ + 1 ELSE @,
                  !.permanent = @ \/ (reached /\ again),
                  !.left = IF reached /\ ~again THEN LockTime ELSE @]

\* record_failure's UPDATE: counts from the row as it is now.  The SELECT
\* after it only words the answer.
Missed(row) ==
  LET reached == row.failed + 1 >= MaxAttempts
      again == row.lockouts + 1 >= 2
  IN  [row EXCEPT !.failed = IF reached THEN 0 ELSE @ + 1,
                  !.lockouts = IF reached THEN @ + 1 ELSE @,
                  !.permanent = @ \/ (reached /\ again),
                  !.left = IF reached /\ ~again THEN LockTime ELSE @]

\* Faulty: a success keeps the count of earlier lockouts.
SucceededForgetful(row) == [row EXCEPT !.failed = 0, !.left = 0]

\* record_success's UPDATE; a permanent lock is left as it is.
Succeeded(row) == [row EXCEPT !.failed = 0, !.lockouts = 0, !.left = 0]

Unlocked(row) == [Succeeded(row) EXCEPT !.permanent = FALSE]

-----------------------------------------------------------------------------
(* Throttle: app/auth/throttle.py.                                         *)

Total(rows) == SumFunction(rows)

\* The rows of the window.
Lately(rows) == [i \in Counted |-> rows[i]]

\* Faulty: counts every row that is there, not those of the window.
BlocksKept(a) == Total(failures[a]) + 1 >= MaxFailures

\* Does one more failure of the address reach the limit?
Blocks(a) == Total(Lately(failures[a])) + 1 >= MaxFailures

\* Whoever counts a failure deletes the old rows of every address.
Pruned(rows) == [i \in Ages |-> IF i > Keep THEN 0 ELSE rows[i]]

OneMore(rows) == [rows EXCEPT ![0] = @ + 1]

\* record_failure: one transaction, after reading the three settings.
CountFailure(a) ==
  LET kept == [b \in Addresses |-> Pruned(failures[b])]
  IN  IF Blocks(a)
        THEN /\ failures' = [kept EXCEPT ![a] = NoneAt(Ages)]
             /\ blocked' = [blocked EXCEPT ![a] = BlockTime]
             /\ recent' = [recent EXCEPT ![a] = NoneAt(Counted)]
        ELSE /\ failures' = [kept EXCEPT ![a] = OneMore(@)]
             /\ recent' = [recent EXCEPT ![a] = OneMore(@)]
             /\ UNCHANGED blocked

-----------------------------------------------------------------------------
(* The login form and the change-password form.                            *)

\* A request arrives: what is typed is wrong, or right at this moment.  The
\* change form is reached in a session of the account (get_current_user), so
\* not when the account is inactive.
Arrive(q, kind, a, u, p, n) ==
  /\ At(q, "idle") /\ blocked[a] = 0
  /\ IF kind = "change"
       THEN n # NULL /\ Active(u) /\ edits < MaxEdits /\ edits' = edits + 1
       ELSE n = NULL /\ UNCHANGED edits
  /\ IF Active(u) /\ users[u].pwd = p THEN UNCHANGED wrongs
     ELSE u \in Guessed /\ wrongs < MaxWrong /\ wrongs' = wrongs + 1
  /\ request' = [request EXCEPT ![q] = [Idle EXCEPT !.at = "lookup",
       !.kind = kind, !.from = a, !.user = u, !.new = n, !.typed = p]]
  /\ UNCHANGED <<users, failures, blocked, patch, ghost>>

\* The password is judged against the row just read; verify_password and
\* the UPDATE it leads to may come much later.
Judged(q) ==
  LET right == users[request[q].user].pwd = request[q].typed
  IN  [request[q] EXCEPT !.at = IF right THEN "right" ELSE "wrong", !.typed = NULL,
                         !.new = IF right THEN @ ELSE NULL]

\* The SELECT of the account.  An unknown or disabled one is counted against
\* the address alone, a locked one is refused without being counted.
Lookup(q) ==
  LET u == request[q].user
      login == request[q].kind = "login"
  IN  /\ At(q, "lookup")
      /\ IF login /\ ~Active(u)
           THEN request' = [request EXCEPT ![q] =
                  [Idle EXCEPT !.at = "count", !.from = request[q].from]]
         ELSE IF ~Exists(u) \/ Locked(users[u]) THEN Leave(q)
         ELSE request' = [request EXCEPT ![q] = Judged(q)]
      /\ UNCHANGED <<users, failures, blocked, patch, wrongs, edits, ghost>>

\* A wrong password: the account's count is committed, the address's comes
\* next.  If the account was deleted meanwhile, the UPDATE finds no row and
\* describe(None) fails the request.
Wrong(q) ==
  LET u == request[q].user
  IN  /\ At(q, "wrong")
      /\ IF Exists(u)
           THEN /\ users' = [users EXCEPT ![u] = Missed(@)]
                /\ missed' = [missed EXCEPT ![u] = @ + 1]
                /\ request' = [request EXCEPT ![q] =
                     [Idle EXCEPT !.at = "count", !.from = request[q].from]]
           ELSE Leave(q) /\ UNCHANGED <<users, missed>>
      /\ UNCHANGED <<failures, blocked, patch, wrongs, edits, recent>>

CountAddress(q) ==
  /\ At(q, "count")
  /\ CountFailure(request[q].from)
  /\ Leave(q)
  /\ UNCHANGED <<users, patch, wrongs, edits, missed>>

\* About to be answered with tokens for the account.
Welcome(q, u) == request' = [request EXCEPT ![q] =
  [Idle EXCEPT !.at = "welcome", !.kind = request[q].kind, !.user = u]]

\* The right password: record_success and the login's, or the form's, own
\* UPDATE are one transaction.
Right(q) ==
  LET u == request[q].user
      n == request[q].new
  IN  /\ At(q, "right")
      /\ IF Exists(u)
           THEN /\ users' = [users EXCEPT ![u] = WithPassword(Succeeded(@), n)]
                /\ missed' = [missed EXCEPT ![u] = 0]
           ELSE UNCHANGED <<users, missed>>
      /\ IF n = NULL THEN Welcome(q, u) ELSE Leave(q)
      /\ UNCHANGED <<failures, blocked, patch, wrongs, edits, recent>>

\* The answer with the tokens is sent.
Answer(q) ==
  /\ At(q, "welcome")
  /\ Leave(q)
  /\ UNCHANGED <<users, failures, blocked, patch, wrongs, edits, ghost>>

-----------------------------------------------------------------------------
(* SAML sign-in and auto-login.                                            *)

\* The callback's SELECT by the asserted e-mail address; the identity
\* provider also asserts a role.  A disabled account is turned away.
SsoLookup(q, u, role) ==
  /\ At(q, "idle") /\ (Exists(u) => users[u].active)
  /\ IF Exists(u) THEN edits < MaxEdits /\ edits' = edits + 1 ELSE UNCHANGED edits
  /\ request' = [request EXCEPT ![q] = [Idle EXCEPT
       !.at = IF Exists(u) THEN "assert" ELSE "provision",
       !.kind = "sso", !.user = u, !.role = role]]
  /\ UNCHANGED <<users, failures, blocked, patch, wrongs, ghost>>

\* hashed_password is NOT NULL, and the address may be taken by now.
Insertable(u, pwd) == pwd # NULL /\ ~Exists(u)

\* An unknown user is inserted without a password.
SsoProvision(q) ==
  LET u == request[q].user
  IN  /\ At(q, "provision")
      /\ IF Insertable(u, NULL)
           THEN /\ users' = [users EXCEPT ![u] = NewUser(NULL, request[q].role, FALSE)]
                /\ request' = [request EXCEPT ![q].at = "assert"]
           ELSE UNCHANGED users /\ Leave(q)
      /\ UNCHANGED <<failures, blocked, patch, wrongs, edits, ghost>>

\* A known one gets the asserted role; the session is the account's even if it
\* has been deleted since the SELECT.
SsoAssert(q) ==
  LET u == request[q].user
  IN  /\ At(q, "assert")
      /\ users' = IF Exists(u) THEN [users EXCEPT ![u].role = request[q].role]
                  ELSE users
      /\ Welcome(q, u)
      /\ UNCHANGED <<failures, blocked, patch, wrongs, edits, ghost>>

Defaults == {u \in Users : Active(u) /\ users[u].default}
Admins == {u \in Users : Active(u) /\ users[u].role = "admin"}

\* The account auto_login issues a session for: the flagged one, else an
\* active admin (two SELECTs, taken together here).  Both ways to sign in are
\* off then; switching them on and off is left out.
AutoAccount == IF Defaults # {} THEN Defaults ELSE Admins

AutoLogin(q) ==
  /\ At(q, "idle")
  /\ \E u \in AutoAccount : request' = [request EXCEPT ![q] =
       [Idle EXCEPT !.at = "welcome", !.kind = "auto", !.user = u]]
  /\ UNCHANGED <<users, failures, blocked, patch, wrongs, edits, ghost>>

-----------------------------------------------------------------------------
(* The user list: app/api/users.py, and scripts/unlock_user.py.            *)

Edit(u, row) ==
  /\ edits < MaxEdits /\ edits' = edits + 1
  /\ users' = [users EXCEPT ![u] = row]
  /\ UNCHANGED <<failures, blocked, request, wrongs, recent>>

\* Ids are never reused (AUTOINCREMENT): a new account takes a slot that no
\* request refers to, except by name.
CreateUser(u, pwd, role) ==
  /\ Insertable(u, pwd)
  /\ \A q \in Requests : request[q].user = u =>
       At(q, "lookup") /\ request[q].kind = "login"
  /\ patch # NULL => patch.user # u
  /\ Edit(u, NewUser(pwd, role, FALSE))
  /\ missed' = [missed EXCEPT ![u] = 0] /\ UNCHANGED patch

\* update_user's SELECT: what the form does not name is taken from the row.
PatchRead(u, active, role, pwd) ==
  /\ patch = NULL /\ Exists(u)
  /\ edits < MaxEdits /\ edits' = edits + 1
  /\ patch' = [user |-> u, pwd |-> pwd,
               active |-> IF active = NULL THEN users[u].active ELSE active,
               role |-> IF role = NULL THEN users[u].role ELSE role]
  /\ UNCHANGED <<users, failures, blocked, request, wrongs, ghost>>

\* Its UPDATE writes every column, whatever happened to them since.
PatchWrite ==
  /\ patch # NULL
  /\ patch' = NULL
  /\ users' = IF ~Exists(patch.user) THEN users
              ELSE [users EXCEPT ![patch.user] = WithPassword(
                [@ EXCEPT !.active = patch.active, !.role = patch.role], patch.pwd)]
  /\ UNCHANGED <<failures, blocked, request, wrongs, edits, ghost>>

ResetUserPassword(u, pwd) ==
  /\ Exists(u)
  /\ Edit(u, [users[u] EXCEPT !.pwd = pwd]) /\ UNCHANGED <<patch, missed>>

UnlockUser(u) ==
  /\ Exists(u)
  /\ Edit(u, Unlocked(users[u]))
  /\ missed' = [missed EXCEPT ![u] = 0] /\ UNCHANGED patch

\* Nobody deletes their own account.
DeleteUser(u) ==
  /\ Exists(u) /\ Admins \ {u} # {}
  /\ Edit(u, NULL) /\ UNCHANGED <<patch, missed>>

\* Faulty: the flag is set without being taken from its holder.
SetDefaultAdminOnly(u) ==
  /\ u \in Admins /\ edits < MaxEdits /\ edits' = edits + 1
  /\ users' = [users EXCEPT ![u].default = TRUE]
  /\ UNCHANGED <<failures, blocked, request, patch, wrongs, ghost>>

\* Both UPDATEs are one transaction; the SELECT of the account's role before
\* them is taken together with them.
SetDefaultAdmin(u) ==
  /\ u \in Admins /\ edits < MaxEdits /\ edits' = edits + 1
  /\ users' = [v \in Users |-> IF users[v] = NULL THEN NULL
                               ELSE [users[v] EXCEPT !.default = (v = u)]]
  /\ UNCHANGED <<failures, blocked, request, patch, wrongs, ghost>>

-----------------------------------------------------------------------------

\* A tick later.
Older(rows) == [i \in Ages |-> IF i = 0 THEN 0
                 ELSE IF i = Keep + 1 THEN rows[Keep] + rows[Keep + 1] ELSE rows[i - 1]]
Aged(rows) == [i \in Counted |-> IF i = 0 THEN 0 ELSE rows[i - 1]]

\* A tick of the database's clock.
Tick ==
  /\ \/ \E u \in Users : Exists(u) /\ users[u].left > 0
     \/ \E a \in Addresses : blocked[a] > 0
                              \/ failures[a] # Older(failures[a])
  /\ users' = [u \in Users |-> IF users[u] = NULL \/ users[u].left = 0 THEN users[u]
                               ELSE [users[u] EXCEPT !.left = @ - 1]]
  /\ blocked' = [a \in Addresses |-> IF blocked[a] = 0 THEN 0 ELSE blocked[a] - 1]
  /\ failures' = [a \in Addresses |-> Older(failures[a])]
  /\ recent' = [a \in Addresses |-> Aged(recent[a])]
  /\ UNCHANGED <<request, patch, wrongs, edits, missed>>

Handle(q) ==
  Lookup(q) \/ Wrong(q) \/ CountAddress(q) \/ Right(q) \/ Answer(q)
  \/ SsoProvision(q) \/ SsoAssert(q)

\* The owner of an account, who knows its password, tries from an address.
OwnerTries(u, a) ==
  \E q \in Requests : Exists(u) /\ Arrive(q, "login", a, u, users[u].pwd, NULL)

Arrivals ==
  \E q \in Requests :
    \/ \E a \in Addresses, u \in Users, p \in Passwords :
         \/ Arrive(q, "login", a, u, p, NULL)
         \/ \E n \in Passwords \ {p} : Arrive(q, "change", a, u, p, n)
    \/ \E u \in Users, role \in IdpRoles : SsoLookup(q, u, role)
    \/ AutoLogin(q)

Administer ==
  \/ \E u \in Users, p \in Passwords, role \in Roles :
       CreateUser(u, p, role) \/ ResetUserPassword(u, p)
  \/ \E u \in Users, form \in PatchForms :
       PatchRead(u, form.active, form.role, form.pwd)
  \/ \E u \in Users : UnlockUser(u) \/ DeleteUser(u) \/ SetDefaultAdmin(u)
  \/ PatchWrite

Next == Arrivals \/ Administer \/ Tick \/ \E q \in Requests : Handle(q)

Spec == Init /\ [][Next]_vars

\* The event loop finishes every request and the clock runs; wrong requests
\* and administrators are finitely many.  The Owners try again whenever an
\* address is not refused.
FairSpec ==
  /\ Spec /\ WF_vars(Tick) /\ WF_vars(PatchWrite)
  /\ \A q \in Requests : WF_vars(Handle(q))
  /\ \A u \in Owners : SF_vars(\E a \in Addresses : OwnerTries(u, a))

-----------------------------------------------------------------------------

\* Every wrong password judged since the account was last cleared, by a
\* sign-in or an unlock, has moved it one step towards its next lock, however
\* many attempts were in flight: none is lost and none counts twice.
CountIsExact ==
  \A u \in Users : Exists(u) =>
    users[u].lockouts * MaxAttempts + users[u].failed = missed[u]

\* A permanent lock is never the work of an old lock: it takes two full rounds
\* of wrong passwords since the account was last cleared.
PermanentIsEarned ==
  [][\A u \in Users :
       /\ Exists(u) /\ ~users[u].permanent
       /\ users'[u] # NULL /\ users'[u].permanent
       => missed'[u] >= 2 * MaxAttempts]_vars

\* An address is blocked only for failures made within one window and after
\* its last block began, as the settings promise.
BlockIsEarned ==
  [][\A a \in Addresses : blocked'[a] > blocked[a] =>
       Total(recent[a]) + 1 >= MaxFailures]_vars

\* Whoever keeps typing the right password gets in again and again, once
\* nobody else is guessing, unless the account stays locked for good,
\* disabled or gone: every other lock and block ends by itself.
EventuallyIn ==
  \A u \in Owners :
    <>[](Active(u) /\ ~users[u].permanent) =>
      []<>(\E q \in Requests : At(q, "welcome") /\ request[q].user = u
                               /\ request[q].kind = "login")

\* At most one account is the default administrator.
OneDefaultAdmin ==
  \A u, v \in Users :
    Exists(u) /\ Exists(v) /\ users[u].default /\ users[v].default => u = v

Inv == TypeOK /\ CountIsExact /\ OneDefaultAdmin

-----------------------------------------------------------------------------
(* What comments and pages say and the code does not do.                   *)

\* Settings.tsx:1550: "SAML SSO users are auto-provisioned on first login".
SsoProvisions ==
  [][\A q \in Requests :
       SsoProvision(q) => users'[request[q].user] # NULL]_vars

\* auth.py:145: auto_login issues "a session for the default admin account",
\* and falls back to an active admin "so this never dead-ends into a lockout".
AutoLoginIsAdmin ==
  [][\A q \in Requests : AutoLogin(q) =>
       users[request'[q].user].role = "admin"]_vars
=============================================================================
