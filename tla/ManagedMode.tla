---------------------------- MODULE ManagedMode -----------------------------
(***************************************************************************)
(* Managed mode: pktHub locks the application so that visitors reach it    *)
(* through the hub, and the failsafe that lifts the lock when the hub has  *)
(* stopped calling.                                                        *)
(*                                                                         *)
(* The middleware serves every visit: it reads the lock, the heartbeat and *)
(* the address one statement at a time, and lifts the lock in a statement  *)
(* of its own.  Health polls, proxied requests and the hub's lock command  *)
(* write the heartbeat meanwhile.  Times are kept as ages, which           *)
(* TimePasses moves.                                                       *)
(***************************************************************************)
EXTENDS Integers, Null

CONSTANTS
  Visitors,    \* direct visits that may be under way at one time
  MaxAge,      \* _LOCK_HEARTBEAT_MAX_AGE, in ticks
  Slow,        \* bound: ticks a visit may take
  MaxEdits     \* bound: hub commands and failures, edits by administrators, failed statements

ASSUME ManagedModeAssumption ==
  /\ MaxAge \in Nat \ {0} /\ Slow \in 0..MaxAge /\ MaxEdits \in Nat
  /\ NULL \notin Int

VARIABLES
  locked,      \* setting direct_ui_locked
  beat,        \* setting lock_heartbeat_at: its age, or NULL
  url,         \* setting hub_redirect_url: is there an address?
  token,       \* setting suite_token: 0 for none, else the number of the token
  tokens,      \* tokens generated so far
  generating,  \* GET /suite/token requests that found no token
  hub,         \* pktHub: is it up, its copy of the token, its record of this app
  poll,        \* its health poll: what the handler holds
  command,     \* its lock or unlock command under way
  visit,       \* visitor -> where the middleware is, the heartbeat it read, ticks taken
  edits,       \* edits so far, at most MaxEdits
  (* For stating properties only: *)
  contact,     \* ticks since the hub last called with the right token
  missed,      \* a call since the stored heartbeat could not store its own
  lockAge,     \* ticks since the lock was last set
  witness      \* visitor -> what was the case at some moment of the visit

lockSettings == <<locked, beat, url, token, tokens, generating>>
ghost == <<contact, missed, lockAge, witness>>
lockVars == <<lockSettings, hub, poll, command, visit, edits, ghost>>

Ages == 0..(MaxAge + 1)  \* ages above MaxAge are all alike
Steps == {"out", "beat", "judge", "release", "target", "served", "bounced"}
Visit == [at : Steps, seen : Ages \cup {NULL}, took : 0..Slow]
Out == [at |-> "out", seen |-> NULL, took |-> 0]

\* The longest without a call and without a stored heartbeat, whether a heartbeat
\* was missed, and whether the lock was set after the visit had read the last one.
Witness == [quiet : Ages, stale : Ages, missed : BOOLEAN, relocked : BOOLEAN]
Unseen == [quiet |-> 0, stale |-> 0, missed |-> FALSE, relocked |-> FALSE]

LockTypeOK ==
  /\ locked \in BOOLEAN /\ beat \in Ages \cup {NULL} /\ url \in BOOLEAN
  /\ token \in 0..tokens /\ tokens \in 0..(MaxEdits + 1) /\ generating \in 0..MaxEdits
  /\ hub \in [up : BOOLEAN, token : 0..tokens, managed : BOOLEAN]
  /\ poll \in [locked : BOOLEAN, trusted : BOOLEAN] \cup {NULL}
  /\ command \in [lock : BOOLEAN, url : BOOLEAN, trusted : BOOLEAN, done : BOOLEAN]
                \cup {NULL}
  /\ visit \in [Visitors -> Visit]
  /\ edits \in 0..MaxEdits
  /\ contact \in Ages /\ missed \in BOOLEAN /\ lockAge \in Ages
  /\ witness \in [Visitors -> Witness]

\* A fresh install, or one registered with a hub that has not called yet.
LockInit ==
  /\ locked = FALSE /\ beat = NULL /\ url = FALSE
  /\ tokens \in 0..1 /\ token = tokens /\ generating = 0
  /\ hub = [up |-> TRUE, token |-> token, managed |-> FALSE]
  /\ poll = NULL /\ command = NULL
  /\ visit = [v \in Visitors |-> Out]
  /\ edits = 0
  /\ contact = MaxAge + 1 /\ missed = FALSE /\ lockAge = MaxAge + 1
  /\ witness = [v \in Visitors |-> Unseen]

Edit == edits < MaxEdits /\ edits' = edits + 1

\* _suite_token_ok: a token is presented, one is stored, and they are equal.
Trusted == hub.token # 0 /\ hub.token = token

\* How long ago a heartbeat was stored.
Since(age) == IF age = NULL THEN MaxAge + 1 ELSE age

-----------------------------------------------------------------------------
(* A direct visit: _direct_access_lock.                                    *)

At(v, step) == visit[v].at = step
Goto(v, step) == visit' = [visit EXCEPT ![v].at = step]

\* SELECT direct_ui_locked.
VisitLock(v) ==
  /\ At(v, "out")
  /\ Goto(v, IF locked THEN "beat" ELSE "served")
  /\ witness' = [witness EXCEPT ![v] =
       [quiet |-> contact, stale |-> Since(beat), missed |-> missed, relocked |-> FALSE]]
  /\ UNCHANGED <<lockSettings, hub, poll, command, edits, contact, missed, lockAge>>

\* SELECT lock_heartbeat_at.
VisitBeat(v) ==
  /\ At(v, "beat")
  /\ visit' = [visit EXCEPT ![v].at = "judge", ![v].seen = beat]
  /\ UNCHANGED <<lockSettings, hub, poll, command, edits, ghost>>

\* Faulty: a heartbeat as old as MaxAge allows is too old already, once the
\* time the visit took is added to it again.
ExpiredTwice(v) ==
  visit[v].seen = NULL \/ visit[v].seen + visit[v].took + 1 > MaxAge

\* No heartbeat counts as expired.
Expired(v) == visit[v].seen = NULL \/ visit[v].seen > MaxAge

\* The clock is read after the heartbeat.
VisitJudge(v) ==
  /\ At(v, "judge")
  /\ Goto(v, IF Expired(v) THEN "release" ELSE "target")
  /\ UNCHANGED <<lockSettings, hub, poll, command, edits, ghost>>

\* Faulty: the row is deleted.
VisitReleaseDeletes(v) ==
  /\ At(v, "release")
  /\ locked' = NULL
  /\ Goto(v, "served")
  /\ UNCHANGED <<beat, url, token, tokens, generating, hub, poll, command, edits, ghost>>

VisitRelease(v) ==
  /\ At(v, "release")
  /\ locked' = FALSE
  /\ Goto(v, "served")
  /\ UNCHANGED <<beat, url, token, tokens, generating, hub, poll, command, edits, ghost>>

\* SELECT hub_redirect_url; without an address the visit is served.
VisitTarget(v) ==
  /\ At(v, "target")
  /\ Goto(v, IF url THEN "bounced" ELSE "served")
  /\ UNCHANGED <<lockSettings, hub, poll, command, edits, ghost>>

\* A statement fails: the request is served.
VisitFail(v) ==
  /\ visit[v].at \in {"out", "beat", "release", "target"} /\ Edit
  /\ Goto(v, "served")
  /\ UNCHANGED <<lockSettings, hub, poll, command, ghost>>

VisitEnd(v) ==
  /\ visit[v].at \in {"served", "bounced"}
  /\ visit' = [visit EXCEPT ![v] = Out]
  /\ witness' = [witness EXCEPT ![v] = Unseen]
  /\ UNCHANGED <<lockSettings, hub, poll, command, edits, contact, missed, lockAge>>

-----------------------------------------------------------------------------
(* What the hub sends.                                                     *)

\* A call stores its heartbeat, or the statement fails, which the caller is not
\* told.
Heartbeat == beat' = 0 /\ contact' = 0 /\ missed' = FALSE
HeartbeatFails ==
  /\ Edit
  /\ contact' = 0 /\ missed' = TRUE
  /\ witness' = [v \in Visitors |->
       IF At(v, "out") THEN witness[v] ELSE [witness[v] EXCEPT !.missed = TRUE]]
  /\ UNCHANGED beat

Beats == (Heartbeat /\ UNCHANGED <<edits, witness>>) \/ HeartbeatFails

\* A request the hub proxies for a user: the middleware writes the heartbeat, and
\* serves the request either way.
\* (A token replaced between the check and the write: see PollBeat.)
Proxied ==
  /\ hub.up /\ Trusted
  /\ Beats
  /\ UNCHANGED <<locked, url, token, tokens, generating, hub, poll, command, visit, lockAge>>

\* Faulty: every poll is a heartbeat, whatever token it carries.
PollReadAnyone ==
  /\ hub.up /\ poll = NULL
  /\ poll' = [locked |-> locked, trusted |-> TRUE]
  /\ UNCHANGED <<lockSettings, hub, command, visit, edits, ghost>>

\* health: the lock is read and the token judged.
PollRead ==
  /\ hub.up /\ poll = NULL
  /\ poll' = [locked |-> locked, trusted |-> Trusted]
  /\ UNCHANGED <<lockSettings, hub, command, visit, edits, ghost>>

\* The read fails: the answer is that there is no lock, and no heartbeat follows.
PollFails ==
  /\ hub.up /\ poll = NULL
  /\ poll' = [locked |-> FALSE, trusted |-> FALSE]
  /\ IF Trusted THEN HeartbeatFails ELSE Edit /\ UNCHANGED <<beat, contact, missed, witness>>
  /\ UNCHANGED <<locked, url, token, tokens, generating, hub, command, visit, lockAge>>

\* Then the heartbeat is written; the answer is what was read, written or not.
PollBeat ==
  /\ poll # NULL /\ poll.trusted
  /\ Beats
  /\ poll' = [poll EXCEPT !.trusted = FALSE]
  /\ UNCHANGED <<locked, url, token, tokens, generating, hub, command, visit, lockAge>>

\* Faulty: the hub does not look at the flag.
HubHearsPollDeaf ==
  /\ poll # NULL /\ ~poll.trusted
  /\ poll' = NULL
  /\ UNCHANGED <<lockSettings, hub, command, visit, edits, ghost>>

\* The answer: the hub flips its record back when the application says it is
\* unlocked.
HubHearsPoll ==
  /\ poll # NULL /\ ~poll.trusted
  /\ hub' = IF hub.up /\ ~poll.locked THEN [hub EXCEPT !.managed = FALSE] ELSE hub
  /\ poll' = NULL
  /\ UNCHANGED <<lockSettings, command, visit, edits, ghost>>

\* An operator of the hub locks or unlocks, with or without an address: POST
\* /suite/direct-access judges the token before it reads the body.
HubCommands(lock, address) ==
  /\ hub.up /\ command = NULL /\ Edit
  /\ command' = [lock |-> lock, url |-> address, trusted |-> Trusted, done |-> FALSE]
  /\ UNCHANGED <<lockSettings, hub, poll, visit, ghost>>

\* The lock goes on or off; a visit that has read the heartbeat does not see it.
Set(lock) ==
  /\ locked' = lock
  /\ lockAge' = IF lock THEN 0 ELSE lockAge
  /\ witness' = [v \in Visitors |->
       IF lock /\ visit[v].at \in {"judge", "release"}
       THEN [witness[v] EXCEPT !.relocked = TRUE] ELSE witness[v]]

\* Faulty: the flag without the heartbeat.
SetDirectAccessBare ==
  /\ command # NULL /\ ~command.done /\ command.trusted
  /\ Set(command.lock) /\ contact' = 0
  /\ url' = (url \/ command.url)
  /\ command' = [command EXCEPT !.done = TRUE]
  /\ UNCHANGED <<beat, missed, token, tokens, generating, hub, poll, visit, edits>>

\* Then flag, heartbeat and address are written in one transaction.
SetDirectAccess ==
  /\ command # NULL /\ ~command.done /\ command.trusted
  /\ Set(command.lock) /\ Heartbeat
  /\ url' = (url \/ command.url)
  /\ command' = [command EXCEPT !.done = TRUE]
  /\ UNCHANGED <<token, tokens, generating, hub, poll, visit, edits>>

\* The transaction fails: the hub is answered that it did.
SetDirectAccessFails ==
  /\ command # NULL /\ ~command.done /\ command.trusted
  /\ HeartbeatFails
  /\ command' = [command EXCEPT !.trusted = FALSE]
  /\ UNCHANGED <<locked, url, token, tokens, generating, hub, poll, visit, lockAge>>

\* The hub records what it was answered; a command that was refused or failed, or
\* whose answer is lost, changes nothing there.
HubHearsCommand ==
  /\ command # NULL
  /\ \/ command.done /\ hub.up /\ hub' = [hub EXCEPT !.managed = command.lock]
        /\ UNCHANGED edits
     \/ ~command.trusted /\ UNCHANGED <<hub, edits>>
     \/ command.done /\ Edit /\ UNCHANGED hub
  /\ command' = NULL
  /\ UNCHANGED <<lockSettings, poll, visit, ghost>>

HubSwitch ==
  /\ Edit
  /\ hub' = [hub EXCEPT !.up = ~@]
  /\ UNCHANGED <<lockSettings, poll, command, visit, ghost>>

\* The hub is given a token that this application has shown.
HubRegister(t) ==
  /\ hub.up /\ t # hub.token /\ Edit
  /\ hub' = [hub EXCEPT !.token = t]
  /\ UNCHANGED <<lockSettings, poll, command, visit, ghost>>

-----------------------------------------------------------------------------
(* Administrators: app/api/suite.py.                                       *)

\* GET /suite/token reads the token before it decides to generate one.
GetTokenRead ==
  /\ token = 0 /\ Edit
  /\ generating' = generating + 1
  /\ UNCHANGED <<locked, beat, url, token, tokens, hub, poll, command, visit, ghost>>

NewToken == tokens' = tokens + 1 /\ token' = tokens'

GetTokenWrite ==
  /\ generating > 0
  /\ NewToken /\ generating' = generating - 1
  /\ UNCHANGED <<locked, beat, url, hub, poll, command, visit, edits, ghost>>

\* POST /suite/regenerate; /suite/register stores a token made elsewhere.
Regenerate ==
  /\ Edit /\ NewToken
  /\ UNCHANGED <<locked, beat, url, generating, hub, poll, command, visit, ghost>>

SetHubRedirectUrl(address) ==
  /\ url # address /\ Edit
  /\ url' = address
  /\ UNCHANGED <<locked, beat, token, tokens, generating, hub, poll, command, visit, ghost>>

-----------------------------------------------------------------------------

Older(age) == IF age = NULL \/ age = MaxAge + 1 THEN age ELSE age + 1

Longer(a, b) == IF a < b THEN b ELSE a

TimePasses ==
  /\ \A v \in Visitors : visit[v].at # "out" => visit[v].took < Slow
  /\ beat' = Older(beat) /\ contact' = Older(contact) /\ lockAge' = Older(lockAge)
  /\ visit' = [v \in Visitors |->
       IF At(v, "out") THEN visit[v]
       ELSE [visit[v] EXCEPT !.seen = Older(@), !.took = @ + 1]]
  /\ witness' = [v \in Visitors |->
       IF At(v, "out") THEN witness[v]
       ELSE [witness[v] EXCEPT !.quiet = Longer(@, contact'), !.stale = Longer(@, Since(beat'))]]
  /\ UNCHANGED <<locked, url, token, tokens, generating, hub, poll, command, edits, missed>>

Visiting(v) ==
  VisitLock(v) \/ VisitBeat(v) \/ VisitJudge(v) \/ VisitRelease(v) \/ VisitTarget(v)
  \/ VisitEnd(v)

HubSide ==
  \/ Proxied \/ PollRead \/ PollFails \/ PollBeat \/ HubHearsPoll
  \/ SetDirectAccess \/ SetDirectAccessFails \/ HubHearsCommand \/ HubSwitch
  \/ \E lock, address \in BOOLEAN : HubCommands(lock, address)
  \/ \E t \in 1..tokens : HubRegister(t)

Administer ==
  \/ GetTokenRead \/ GetTokenWrite \/ Regenerate
  \/ \E address \in BOOLEAN : SetHubRedirectUrl(address)

LockNext ==
  \/ \E v \in Visitors : Visiting(v) \/ VisitFail(v)
  \/ HubSide \/ Administer \/ TimePasses

LockSpec == LockInit /\ [][LockNext]_lockVars

\* Visits keep coming and the event loop serves them, the hub polls for as
\* long as it is up, and the clock runs.  Nobody has to send a command, to come
\* back up, or to register a token.
LockFairSpec ==
  /\ LockSpec /\ WF_lockVars(TimePasses)
  /\ WF_lockVars(PollRead \/ PollFails) /\ WF_lockVars(PollBeat) /\ WF_lockVars(HubHearsPoll)
  /\ \A v \in Visitors : WF_lockVars(Visiting(v))

-----------------------------------------------------------------------------

\* suite.py:243: "a fresh lock starts fresh": while the lock is on, the
\* heartbeat is at least as recent as the lock, so a visit that reads both from
\* the same lock never finds it expired before MaxAge has passed.
LockStartsFresh == locked => beat # NULL /\ beat <= lockAge

LockInv == LockTypeOK /\ LockStartsFresh

\* main.py:190: a visit lifts the lock only when, at some moment of that visit and
\* give or take the ticks it took, no heartbeat had been stored for MaxAge; and
\* either the hub had indeed not called for as long, or a call of its could not
\* store its heartbeat.  suite.py:243: and it lifts no lock younger than MaxAge,
\* but one set behind its back, after it had read the heartbeat.
ReleaseNeedsSilence ==
  [][\A v \in Visitors : VisitRelease(v) =>
       /\ witness[v].stale + Slow > MaxAge
       /\ witness[v].missed \/ witness[v].quiet + Slow > MaxAge
       /\ witness[v].relocked \/ lockAge > MaxAge]_lockVars

\* main.py:324: "the hub cannot go on showing a lock that the failsafe has
\* released": a hub that is up learns it, whatever token it holds.
HubLearns ==
  hub.managed /\ ~locked ~> ~hub.managed \/ locked \/ ~hub.up

\* main.py:191: the lock does not strand the application: when the hub stops
\* calling, or calls with a replaced token, visitors are served again.
EventuallyServed ==
  <>[]~(hub.up /\ Trusted) => <>[](\A v \in Visitors : ~At(v, "bounced"))

-----------------------------------------------------------------------------
(* What comments say and the code does not do.                             *)

\* main.py:190: "the only way to reach the expiry is for the hub to actually stop".
\* A hub that calls, and whose heartbeats cannot be stored, is taken for silent.
OnlyStoppedHubsExpire ==
  [][\A v \in Visitors : VisitRelease(v) => witness[v].quiet + Slow > MaxAge]_lockVars

\* suite.py:243: a fresh lock does not inherit "an expiry from whenever pktHub
\* last called".
FreshLockStands ==
  [][\A v \in Visitors : VisitRelease(v) /\ locked => lockAge > MaxAge]_lockVars
=============================================================================
