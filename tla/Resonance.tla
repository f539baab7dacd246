----------------------------- MODULE Resonance ------------------------------
(***************************************************************************)
(* The Resonance embed client's rate limiter and circuit breaker.          *)
(*                                                                         *)
(* Requests for a code run concurrently, each on its own connection; both  *)
(* guards live in the database and every statement of a request is a step  *)
(* of its own, so what one request reads another may change before it      *)
(* acts on it.  Clock readings are kept as ages and remaining times, which *)
(* Tick moves; the service may fail, be repaired, and fail again.          *)
(***************************************************************************)
EXTENDS Integers, FiniteSets

CONSTANTS
  NULL,        \* no such row
  Requests,    \* requests that may be under way at one time
  Users,       \* users who ask for codes
  UserLimit, GlobalLimit, TestLimit,   \* requests in one window
  Window,      \* length of a window, in ticks
  ConfigThreshold, TransientThreshold, \* failures that open the breaker
  ConfigCooldown, TransientCooldown,   \* how long it stays open, in ticks
  MaxEdits     \* bound: changes of the service, tests and restarts

Global == "global"
Test == "test"
Buckets == Users \cup {Global, Test}

ASSUME ResonanceAssumption ==
  /\ {UserLimit, GlobalLimit, TestLimit, Window, ConfigThreshold,
      TransientThreshold, ConfigCooldown, TransientCooldown} \subseteq Nat \ {0}
  /\ ConfigThreshold <= TransientThreshold
  /\ MaxEdits \in Nat
  /\ IsFiniteSet(Requests)
  /\ Users \cap {Global, Test, NULL} = {}

VARIABLES
  rate,      \* resonance_rate: bucket -> how old its window is, its count
  breaker,   \* resonance_breaker: consecutive failures, time left until open_until
  good,      \* the remote service and the key are in order
  request,   \* request -> where it is
  edits,     \* changes so far, at most MaxEdits
  (* For stating properties only: *)
  streak,    \* failures recorded since the last recorded success
  bad,       \* whether one of them was a config error
  muddled,   \* a failure counted before that success was recorded after it
  spent      \* what each user took of the global window

ghost == <<streak, bad, muddled, spent>>
vars == <<rate, breaker, good, request, edits, ghost>>

-----------------------------------------------------------------------------

Least(m, n) == IF m < n THEN m ELSE n

Limit(b) == IF b = Global THEN GlobalLimit
            ELSE IF b = Test THEN TestLimit ELSE UserLimit

\* Counters stop at the first value past everything they are compared with.
RateRow(b) == [age : 0..Window, count : 0..(Limit(b) + 1)]

ASSUME NullAssumption == NULL \notin [age : Nat, count : Nat]

Longest == IF ConfigCooldown < TransientCooldown THEN TransientCooldown
           ELSE ConfigCooldown

\* The most of a global window one user can get: two windows of his own reach
\* into it, and when each began all requests but one may have been under way,
\* admitted by the window before.
Share == 2 * UserLimit + 2 * (Cardinality(Requests) - 1)

Errors == {"config", "transient"}
Steps == {"idle", "user", "passed", "global", "closed", "call", "failed",
          "counted", "done", "test", "trying"}
Request == [at : Steps, user : Users \cup {NULL}, err : Errors \cup {NULL},
            failures : 0..TransientThreshold, stale : BOOLEAN]
Idle == [at |-> "idle", user |-> NULL, err |-> NULL, failures |-> 0,
         stale |-> FALSE]

TypeOK ==
  /\ DOMAIN rate = Buckets
  /\ \A b \in Buckets : rate[b] \in RateRow(b) \cup {NULL}
  /\ breaker \in [failures : 0..TransientThreshold, left : 0..Longest]
  /\ good \in BOOLEAN
  /\ request \in [Requests -> Request]
  /\ edits \in 0..MaxEdits
  /\ streak \in 0..TransientThreshold /\ bad \in BOOLEAN /\ muddled \in BOOLEAN
  /\ spent \in [Users -> 0..(Share + 1)]

Init ==
  /\ rate = [b \in Buckets |-> NULL]
  /\ breaker = [failures |-> 0, left |-> 0]
  /\ good \in BOOLEAN
  /\ request = [q \in Requests |-> Idle]
  /\ edits = 0
  /\ streak = 0 /\ bad = FALSE /\ muddled = FALSE
  /\ spent = [u \in Users |-> 0]

-----------------------------------------------------------------------------
(* The limiter.                                                            *)

\* consume's upsert: a new window, or one more in the old one.
Bumped(b) ==
  IF rate[b] = NULL \/ rate[b].age = Window THEN [age |-> 0, count |-> 1]
  ELSE [rate[b] EXCEPT !.count = Least(@ + 1, Limit(b) + 1)]

\* Faulty: only the global limit refuses.
WithinGlobal(b) == b # Global \/ rate[b].count <= Limit(b)

\* consume's SELECT, after the commit.
Within(b) == rate[b].count <= Limit(b)

At(q, step) == request[q].at = step
Goto(q, step) == request' = [request EXCEPT ![q].at = step]
Leave(q) == request' = [request EXCEPT ![q] = Idle]

ConsumeUser(q, u) ==
  /\ At(q, "idle")
  /\ rate' = [rate EXCEPT ![u] = Bumped(u)]
  /\ request' = [request EXCEPT ![q] = [Idle EXCEPT !.at = "user", !.user = u]]
  /\ UNCHANGED <<breaker, good, edits, ghost>>

CheckUser(q) ==
  /\ At(q, "user")
  /\ IF Within(request[q].user) THEN Goto(q, "passed") ELSE Leave(q)
  /\ UNCHANGED <<rate, breaker, good, edits, ghost>>

ConsumeGlobal(q) ==
  LET u == request[q].user
      before == IF Bumped(Global).age = 0 /\ Bumped(Global).count = 1
                  THEN [w \in Users |-> 0] ELSE spent
  IN  /\ At(q, "passed")
      /\ rate' = [rate EXCEPT ![Global] = Bumped(Global)]
      /\ spent' = [before EXCEPT ![u] = Least(@ + 1, Share + 1)]
      /\ Goto(q, "global")
      /\ UNCHANGED <<breaker, good, edits, streak, bad, muddled>>

CheckGlobal(q) ==
  /\ At(q, "global")
  /\ IF Within(Global) THEN Goto(q, "closed") ELSE Leave(q)
  /\ UNCHANGED <<rate, breaker, good, edits, ghost>>

-----------------------------------------------------------------------------
(* The breaker and the call.                                               *)

AssertClosed(q) ==
  /\ At(q, "closed")
  /\ IF breaker.left > 0 THEN Leave(q) ELSE Goto(q, "call")
  /\ UNCHANGED <<rate, breaker, good, edits, ghost>>

\* create_session returns or raises; out of order it may do either.
Answer(q) ==
  /\ At(q, "call")
  /\ \/ Goto(q, "done")
     \/ /\ ~good
        /\ \E err \in Errors :
             request' = [request EXCEPT ![q].at = "failed", ![q].err = err]
  /\ UNCHANGED <<rate, breaker, good, edits, ghost>>

\* record_failure's SELECT and, later, its UPDATE.
ReadFailures(q) ==
  /\ At(q, "failed")
  /\ request' = [request EXCEPT ![q].at = "counted",
                                ![q].failures = breaker.failures]
  /\ UNCHANGED <<rate, breaker, good, edits, ghost>>

\* Faulty: every failure opens as soon as a config error would.
ThresholdForAll(err) == ConfigThreshold

Threshold(err) ==
  IF err = "config" THEN ConfigThreshold ELSE TransientThreshold
Cooldown(err) == IF err = "config" THEN ConfigCooldown ELSE TransientCooldown

RecordFailure(q) ==
  LET err == request[q].err
      failures == Least(request[q].failures + 1, TransientThreshold)
  IN  /\ At(q, "counted")
      /\ breaker' = [failures |-> failures,
                     left |-> IF failures >= Threshold(err) THEN Cooldown(err)
                              ELSE breaker.left]
      /\ streak' = Least(streak + 1, TransientThreshold)
      /\ bad' = (bad \/ err = "config")
      /\ muddled' = (muddled \/ request[q].stale)
      /\ Leave(q)
      /\ UNCHANGED <<rate, good, edits, spent>>

\* Faulty: a success closes the breaker and keeps the count.
RecordSuccessKeepingCount(q) ==
  /\ At(q, "done")
  /\ breaker' = [breaker EXCEPT !.left = 0]
  /\ request' = [p \in Requests |->
       IF p = q THEN Idle
       ELSE [request[p] EXCEPT !.stale = @ \/ At(p, "counted")]]
  /\ streak' = 0 /\ bad' = FALSE /\ muddled' = FALSE
  /\ UNCHANGED <<rate, good, edits, spent>>

RecordSuccess(q) ==
  /\ At(q, "done")
  /\ breaker' = [failures |-> 0, left |-> 0]
  /\ request' = [p \in Requests |->
       IF p = q THEN Idle
       ELSE [request[p] EXCEPT !.stale = @ \/ At(p, "counted")]]
  /\ streak' = 0 /\ bad' = FALSE /\ muddled' = FALSE
  /\ UNCHANGED <<rate, good, edits, spent>>

-----------------------------------------------------------------------------
(* The administrator's test, of values that need not be the stored ones.   *)

Counted == edits < MaxEdits /\ edits' = edits + 1

TestBegins(q) ==
  /\ At(q, "idle") /\ Counted
  /\ rate' = [rate EXCEPT ![Test] = Bumped(Test)]
  /\ Goto(q, "test")
  /\ UNCHANGED <<breaker, good, ghost>>

CheckTest(q) ==
  /\ At(q, "test")
  /\ IF Within(Test) THEN Goto(q, "trying") ELSE Leave(q)
  /\ UNCHANGED <<rate, breaker, good, edits, ghost>>

\* A failed test leaves the breaker alone, a successful one resets it.
TestAnswers(q) ==
  /\ At(q, "trying")
  /\ Goto(q, "done") \/ Leave(q)
  /\ UNCHANGED <<rate, breaker, good, edits, ghost>>

-----------------------------------------------------------------------------
(* Time, the service, the process.                                         *)

\* Faulty: the time left runs below zero.
TickBelowZero ==
  /\ \/ breaker.left > 0
     \/ \E b \in Buckets : rate[b] # NULL /\ rate[b].age < Window
  /\ rate' = [b \in Buckets |->
       IF rate[b] = NULL THEN NULL
       ELSE [rate[b] EXCEPT !.age = Least(@ + 1, Window)]]
  /\ breaker' = [breaker EXCEPT !.left = @ - 1]
  /\ UNCHANGED <<good, request, edits, ghost>>

\* Windows age, the cooldown runs down.
Tick ==
  /\ \/ breaker.left > 0
     \/ \E b \in Buckets : rate[b] # NULL /\ rate[b].age < Window
  /\ rate' = [b \in Buckets |->
       IF rate[b] = NULL THEN NULL
       ELSE [rate[b] EXCEPT !.age = Least(@ + 1, Window)]]
  /\ breaker' = [breaker EXCEPT !.left = IF @ > 0 THEN @ - 1 ELSE 0]
  /\ UNCHANGED <<good, request, edits, ghost>>

ServiceChanges ==
  /\ Counted
  /\ good' = ~good
  /\ UNCHANGED <<rate, breaker, request, ghost>>

\* The process restarts: requests are lost, both guards stay.
Restart ==
  /\ Counted
  /\ request' = [q \in Requests |-> Idle]
  /\ UNCHANGED <<rate, breaker, good, ghost>>

Proceed(q) ==
  \/ CheckUser(q) \/ ConsumeGlobal(q) \/ CheckGlobal(q) \/ AssertClosed(q)
  \/ Answer(q) \/ ReadFailures(q) \/ RecordFailure(q) \/ RecordSuccess(q)
  \/ CheckTest(q) \/ TestAnswers(q)

Next ==
  \/ \E q \in Requests :
       Proceed(q) \/ TestBegins(q) \/ \E u \in Users : ConsumeUser(q, u)
  \/ Tick \/ ServiceChanges \/ Restart

Spec == Init /\ [][Next]_vars

\* Handlers go on, the call has a timeout, and time passes; users, the service
\* and administrators owe nothing.
FairSpec ==
  Spec /\ WF_vars(Tick) /\ \A q \in Requests : WF_vars(Proceed(q))

-----------------------------------------------------------------------------
(* What administrators rely on.                                            *)

\* A lone failure never takes the widget down: the breaker is open only after
\* as many failures since the last success as it takes, and fewer suffice only
\* if one was a config error.  (Except when the success came between a
\* failure's SELECT and its UPDATE, which then brings the old count back.)
OpenOnlyOnRepeatedFailure ==
  breaker.left > 0 /\ ~muddled =>
    \/ streak >= TransientThreshold
    \/ bad /\ streak >= ConfigThreshold

Inv == TypeOK /\ OpenOnlyOnRepeatedFailure

\* One looping browser cannot spend the install's allowance: its own limit
\* refuses it before the global one is charged, two windows' worth at most.
UserShare == \A u \in Users : spent[u] <= Share

\* Once the service is repaired and stays so, and as long as users keep asking,
\* the breaker closes by itself and stays closed with its count reset, whatever
\* the limiter refused meanwhile.
EventuallyAvailable ==
  <>[]good /\ []<>(\E q \in Requests : At(q, "user"))
    => <>[](breaker = [failures |-> 0, left |-> 0])
=============================================================================
