-------------------------- MODULE Resonance_proofs --------------------------
(***************************************************************************)
(* Proofs about Resonance, for any requests, users, limits, thresholds and *)
(* cooldowns: the breaker opens on repeated failures only, and no user     *)
(* takes more of a global window than Share.                               *)
(***************************************************************************)
EXTENDS Resonance, FiniteSetTheorems, TLAPS

-----------------------------------------------------------------------------
(* The inductive invariant.                                                *)

\* Unless a count from before the last success came back, the breaker counts no
\* more failures than there were since, and neither does a request between its
\* SELECT and its UPDATE.
CountsRecorded ==
  ~muddled =>
    /\ breaker.failures <= streak
    /\ \A q \in Requests : At(q, "counted") /\ ~request[q].stale =>
         request[q].failures <= streak

IInv == TypeOK /\ CountsRecorded /\ OpenOnlyOnRepeatedFailure

-----------------------------------------------------------------------------
(* Lemmas.                                                                 *)

LEMMA ShareIsNat == Share \in Nat
<1>1. Cardinality(Requests) \in Nat /\ (Cardinality(Requests) = 0 => Requests = {})
  BY FS_CardinalityType, FS_EmptySet, ResonanceAssumption
<1>. QED
  BY <1>1, ResonanceAssumption DEF Share

LEMMA LeastTyped ==
  ASSUME NEW m \in Nat, NEW n \in Nat
  PROVE  Least(m, n) \in 0..n /\ Least(m, n) <= m
  BY DEF Least

LEMMA LimitTyped == \A b \in Buckets : Limit(b) \in Nat \ {0}
  BY ResonanceAssumption DEF Limit

LEMMA LongestTyped ==
  /\ Longest \in Nat
  /\ \A err \in Errors \cup {NULL} : Cooldown(err) \in 1..Longest
  BY ResonanceAssumption DEF Longest, Cooldown, Errors

LEMMA BumpedTyped ==
  ASSUME TypeOK, NEW b \in Buckets
  PROVE  Bumped(b) \in RateRow(b)
<1>1. Limit(b) \in Nat \ {0} /\ Window \in Nat \ {0}
  BY LimitTyped, ResonanceAssumption
<1>2. CASE rate[b] = NULL \/ rate[b].age = Window
  BY <1>1, <1>2 DEF Bumped, RateRow
<1>3. CASE ~(rate[b] = NULL \/ rate[b].age = Window)
  <2>1. rate[b] \in RateRow(b)
    BY <1>3 DEF TypeOK
  <2>. DEFINE n == Least(rate[b].count + 1, Limit(b) + 1)
  <2>2. n \in 0..(Limit(b) + 1)
    <3>1. rate[b].count + 1 \in Nat /\ Limit(b) + 1 \in Nat
      BY <1>1, <2>1 DEF RateRow
    <3>. QED
      BY <3>1, LeastTyped
  <2>3. Bumped(b) = [rate[b] EXCEPT !.count = n]
    BY <1>3 DEF Bumped
  <2>. HIDE DEF n
  <2>. QED
    BY <2>1, <2>2, <2>3 DEF RateRow
<1>. QED
  BY <1>2, <1>3

LEMMA NoNullRow == \A b \in Buckets : NULL \notin RateRow(b)
<1>1. ASSUME NEW b \in Buckets PROVE RateRow(b) \subseteq [age : Nat, count : Nat]
  BY LimitTyped, ResonanceAssumption DEF RateRow
<1> QED BY <1>1, NullAssumption

LEMMA RateTyped ==
  ASSUME TypeOK, NEW b \in Buckets, rate' = [rate EXCEPT ![b] = Bumped(b)]
  PROVE  DOMAIN rate' = Buckets /\ \A c \in Buckets : rate'[c] \in RateRow(c) \cup {NULL}
  BY BumpedTyped DEF TypeOK

LEMMA IdleTyped == Idle \in Request
  BY ResonanceAssumption DEF Idle, Request, Steps

\* One request moves on or leaves; the others stay where they are.
LEMMA MoveTyped ==
  ASSUME TypeOK, NEW q \in Requests, NEW step \in Steps, Goto(q, step) \/ Leave(q)
  PROVE  /\ request' \in [Requests -> Request]
         /\ request'[q].at \in {step, "idle"}
         /\ \A p \in Requests \ {q} : request'[p] = request[p]
<1>1. CASE Goto(q, step)
  <2>. DEFINE row == [request[q] EXCEPT !.at = step]
  <2>1. request[q] \in Request
    BY DEF TypeOK
  <2>2. row \in Request /\ row.at = step
    BY <2>1 DEF Request
  <2>3. request' = [request EXCEPT ![q] = row]
    BY <1>1, <2>1 DEF Goto, TypeOK, Request
  <2>. HIDE DEF row
  <2>. QED
    BY <2>2, <2>3 DEF TypeOK
<1>2. CASE Leave(q)
  BY <1>2, IdleTyped DEF Leave, Idle, TypeOK
<1>. QED
  BY <1>1, <1>2

\* A step of a request that records nothing: the breaker's count stands, and so does
\* what others have read.
LEMMA PlainStep ==
  ASSUME IInv, NEW q \in Requests, NEW step \in Steps \ {"counted"},
         Goto(q, step) \/ Leave(q), UNCHANGED <<breaker, good, streak, bad, muddled>>,
         DOMAIN rate' = Buckets, \A b \in Buckets : rate'[b] \in RateRow(b) \cup {NULL},
         edits' \in 0..MaxEdits, spent' \in [Users -> 0..(Share + 1)]
  PROVE  IInv'
<1>1. /\ request' \in [Requests -> Request]
      /\ request'[q].at # "counted"
      /\ \A p \in Requests \ {q} : request'[p] = request[p]
  BY MoveTyped DEF IInv
<1>2. TypeOK'
  BY <1>1 DEF IInv, TypeOK
<1>3. CountsRecorded'
  BY <1>1 DEF IInv, CountsRecorded, At
<1>. QED
  BY <1>2, <1>3 DEF IInv, OpenOnlyOnRepeatedFailure

-----------------------------------------------------------------------------
(* The invariant holds at first, and every step keeps it.                  *)

LEMMA InitInv == Init => IInv
<1>. SUFFICES ASSUME Init PROVE IInv
  OBVIOUS
<1>1. TypeOK
  <2>1. 0 \in 0..TransientThreshold /\ 0 \in 0..Longest /\ 0 \in 0..MaxEdits
        /\ 0 \in 0..(Share + 1)
    BY ResonanceAssumption, LongestTyped, ShareIsNat
  <2>. QED
    BY <2>1, IdleTyped DEF Init, TypeOK
<1>2. CountsRecorded /\ OpenOnlyOnRepeatedFailure
  BY DEF Init, CountsRecorded, OpenOnlyOnRepeatedFailure, At, Idle
<1>. QED
  BY <1>1, <1>2 DEF IInv

LEMMA LimiterStep ==
  ASSUME IInv, NEW q \in Requests,
         \/ CheckUser(q) \/ ConsumeGlobal(q) \/ CheckGlobal(q) \/ AssertClosed(q)
         \/ CheckTest(q) \/ TestAnswers(q) \/ TestBegins(q)
  PROVE  IInv'
<1>1. CASE CheckUser(q) \/ CheckGlobal(q) \/ AssertClosed(q) \/ CheckTest(q) \/ TestAnswers(q)
  <2>1. UNCHANGED <<rate, breaker, good, edits, streak, bad, muddled, spent>>
    BY <1>1 DEF CheckUser, CheckGlobal, AssertClosed, CheckTest, TestAnswers, ghost
  <2>2. \E step \in Steps \ {"counted"} : Goto(q, step) \/ Leave(q)
    BY <1>1 DEF CheckUser, CheckGlobal, AssertClosed, CheckTest, TestAnswers, Steps
  <2>. QED
    BY <2>1, <2>2, PlainStep DEF IInv, TypeOK
<1>2. CASE ConsumeGlobal(q)
  <2>1. /\ rate' = [rate EXCEPT ![Global] = Bumped(Global)] /\ Goto(q, "global")
        /\ UNCHANGED <<breaker, good, edits, streak, bad, muddled>>
    BY <1>2 DEF ConsumeGlobal
  <2>2. PICK before \in [Users -> 0..(Share + 1)] :
          spent' = [before EXCEPT ![request[q].user] = Least(@ + 1, Share + 1)]
    <3>1. 0 \in 0..(Share + 1)
      BY ShareIsNat
    <3>2. [w \in Users |-> 0] \in [Users -> 0..(Share + 1)]
          /\ spent \in [Users -> 0..(Share + 1)]
      BY <3>1 DEF IInv, TypeOK
    <3>. QED
      BY <1>2, <3>2 DEF ConsumeGlobal
  <2>3. \A n \in 0..(Share + 1) : Least(n + 1, Share + 1) \in 0..(Share + 1)
    BY ShareIsNat, LeastTyped
  <2>4. spent' \in [Users -> 0..(Share + 1)]
    BY <2>2, <2>3
  <2>5. DOMAIN rate' = Buckets /\ \A b \in Buckets : rate'[b] \in RateRow(b) \cup {NULL}
    BY <2>1, RateTyped DEF IInv, Buckets
  <2>. QED
    BY <2>1, <2>4, <2>5, PlainStep DEF IInv, TypeOK, Steps
<1>3. CASE TestBegins(q)
  <2>1. /\ rate' = [rate EXCEPT ![Test] = Bumped(Test)] /\ Goto(q, "test")
        /\ UNCHANGED <<breaker, good, streak, bad, muddled, spent>>
        /\ edits < MaxEdits /\ edits' = edits + 1
    BY <1>3 DEF TestBegins, Counted, ghost
  <2>2. edits' \in 0..MaxEdits
    BY <2>1, ResonanceAssumption DEF IInv, TypeOK
  <2>3. DOMAIN rate' = Buckets /\ \A b \in Buckets : rate'[b] \in RateRow(b) \cup {NULL}
    BY <2>1, RateTyped DEF IInv, Buckets
  <2>. QED
    BY <2>1, <2>2, <2>3, PlainStep DEF IInv, TypeOK, Steps
<1>. QED
  BY <1>1, <1>2, <1>3

LEMMA ConsumeUserStep ==
  ASSUME IInv, NEW q \in Requests, NEW u \in Users, ConsumeUser(q, u)
  PROVE  IInv'
<1>. DEFINE row == [Idle EXCEPT !.at = "user", !.user = u]
<1>1. /\ rate' = [rate EXCEPT ![u] = Bumped(u)]
      /\ request' = [request EXCEPT ![q] = row]
      /\ UNCHANGED <<breaker, good, edits, streak, bad, muddled, spent>>
  BY DEF ConsumeUser, ghost
<1>2. row \in Request /\ row.at = "user"
  BY IdleTyped DEF Request, Steps
<1>. HIDE DEF row
<1>3. DOMAIN rate' = Buckets /\ \A b \in Buckets : rate'[b] \in RateRow(b) \cup {NULL}
  BY <1>1, RateTyped DEF IInv, Buckets
<1>4. TypeOK'
  BY <1>1, <1>2, <1>3 DEF IInv, TypeOK
<1>5. CountsRecorded'
  BY <1>1, <1>2 DEF IInv, CountsRecorded, At, TypeOK
<1>. QED
  BY <1>1, <1>4, <1>5 DEF IInv, OpenOnlyOnRepeatedFailure

\* create_session answers, and a failure reads the count.
LEMMA CallStep ==
  ASSUME IInv, NEW q \in Requests, Answer(q) \/ ReadFailures(q)
  PROVE  IInv'
<1>1. UNCHANGED <<rate, breaker, good, edits, streak, bad, muddled, spent>>
  BY DEF Answer, ReadFailures, ghost
<1>2. request[q] \in Request
  BY DEF IInv, TypeOK
<1>3. PICK row \in Request :
        /\ request' = [request EXCEPT ![q] = row]
        /\ row.at = "counted" => row.failures = breaker.failures
                                 /\ (row.stale <=> request[q].stale)
  <2>1. CASE Answer(q) /\ Goto(q, "done")
    <3>. DEFINE row == [request[q] EXCEPT !.at = "done"]
    <3>1. row \in Request /\ row.at # "counted"
      BY <1>2 DEF Request, Steps
    <3>2. request' = [request EXCEPT ![q] = row]
      BY <2>1, <1>2 DEF Goto, Request
    <3>. QED
      BY <3>1, <3>2
  <2>2. CASE \E err \in Errors :
               request' = [request EXCEPT ![q].at = "failed", ![q].err = err]
    <3>1. PICK err \in Errors :
            request' = [request EXCEPT ![q].at = "failed", ![q].err = err]
      BY <2>2
    <3>. DEFINE row == [request[q] EXCEPT !.at = "failed", !.err = err]
    <3>2. row \in Request /\ row.at # "counted"
      BY <1>2 DEF Request, Steps
    <3>3. request' = [request EXCEPT ![q] = row]
      BY <3>1, <1>2 DEF IInv, TypeOK, Request
    <3>. QED
      BY <3>2, <3>3
  <2>3. CASE ReadFailures(q)
    <3>. DEFINE row == [request[q] EXCEPT !.at = "counted", !.failures = breaker.failures]
    <3>0. breaker.failures \in 0..TransientThreshold
      BY DEF IInv, TypeOK
    <3>1. row \in Request /\ row.failures = breaker.failures
          /\ row.stale = request[q].stale
      BY <1>2, <3>0 DEF Request, Steps
    <3>2. request' = [request EXCEPT ![q] = row]
      BY <2>3, <1>2 DEF ReadFailures, IInv, TypeOK, Request
    <3>. QED
      BY <3>1, <3>2
  <2>. QED
    BY <2>1, <2>2, <2>3 DEF Answer
<1>4. TypeOK'
  BY <1>1, <1>3 DEF IInv, TypeOK
<1>5. CountsRecorded'
  BY <1>1, <1>3 DEF IInv, CountsRecorded, At, TypeOK
<1>. QED
  BY <1>1, <1>4, <1>5 DEF IInv, OpenOnlyOnRepeatedFailure

LEMMA RecordFailureStep ==
  ASSUME IInv, NEW q \in Requests, RecordFailure(q)
  PROVE  IInv'
<1>. DEFINE err == request[q].err
            failures == Least(request[q].failures + 1, TransientThreshold)
            left == IF failures >= Threshold(err) THEN Cooldown(err) ELSE breaker.left
<1>1. /\ At(q, "counted")
      /\ breaker' = [failures |-> failures, left |-> left]
      /\ streak' = Least(streak + 1, TransientThreshold)
      /\ bad' = (bad \/ err = "config") /\ muddled' = (muddled \/ request[q].stale)
      /\ request' = [request EXCEPT ![q] = Idle]
      /\ UNCHANGED <<rate, good, edits, spent>>
  BY DEF RecordFailure, Leave
<1>2. /\ request[q] \in Request /\ streak \in 0..TransientThreshold
      /\ breaker.failures \in 0..TransientThreshold /\ breaker.left \in 0..Longest
      /\ {TransientThreshold, ConfigThreshold} \subseteq Nat \ {0}
      /\ ConfigThreshold <= TransientThreshold
  BY ResonanceAssumption DEF IInv, TypeOK
<1>3. /\ failures \in 0..TransientThreshold /\ streak' \in 0..TransientThreshold
      /\ streak <= streak'
      /\ request[q].failures <= streak => failures <= streak'
  BY <1>1, <1>2 DEF Request, Least
<1>4. left \in 0..Longest /\ Cooldown(err) > 0
  BY <1>2, LongestTyped DEF Request
<1>5. TypeOK'
  <2>1. breaker' \in [failures : 0..TransientThreshold, left : 0..Longest]
    BY <1>1, <1>3, <1>4
  <2>2. bad' \in BOOLEAN /\ muddled' \in BOOLEAN
    BY <1>1, <1>2, Zenon DEF IInv, TypeOK, Request
  <2>. QED
    BY <1>1, <1>3, <2>1, <2>2, IdleTyped DEF IInv, TypeOK
<1>6. ASSUME ~muddled'
      PROVE  ~muddled /\ ~request[q].stale /\ failures <= streak'
  <2>1. ~muddled /\ ~request[q].stale
    BY <1>1, <1>6
  <2>. QED
    BY <1>1, <1>3, <2>1 DEF IInv, CountsRecorded
<1>7. CountsRecorded'
  <2>. SUFFICES ASSUME ~muddled'
                PROVE  /\ breaker'.failures <= streak'
                       /\ \A p \in Requests : At(p, "counted")' /\ ~request'[p].stale =>
                            request'[p].failures <= streak'
    BY DEF CountsRecorded
  <2>1. breaker'.failures <= streak'
    BY <1>1, <1>6
  <2>2. ASSUME NEW p \in Requests, At(p, "counted")', ~request'[p].stale
        PROVE  request'[p].failures <= streak'
    <3>1. p # q /\ request'[p] = request[p]
      BY <1>1, <2>2 DEF At, Idle, IInv, TypeOK
    <3>2. request[p].failures <= streak /\ request[p].failures \in Nat
      BY <1>6, <2>2, <3>1 DEF At, IInv, CountsRecorded, TypeOK, Request
    <3>. QED
      BY <1>2, <1>3, <3>1, <3>2
  <2>. QED
    BY <2>1, <2>2
<1>8. OpenOnlyOnRepeatedFailure'
  <2>. SUFFICES ASSUME breaker'.left > 0, ~muddled'
                PROVE  \/ streak' >= TransientThreshold
                       \/ bad' /\ streak' >= ConfigThreshold
    BY DEF OpenOnlyOnRepeatedFailure
  <2>1. CASE failures >= Threshold(err)
    <3>1. CASE err = "config"
      <4>1. streak' >= ConfigThreshold
        BY <1>2, <1>3, <1>6, <2>1, <3>1 DEF Threshold
      <4>. QED
        BY <1>1, <3>1, <4>1
    <3>2. CASE err # "config"
      BY <1>2, <1>3, <1>6, <2>1, <3>2 DEF Threshold
    <3>. QED
      BY <3>1, <3>2
  <2>2. CASE ~(failures >= Threshold(err))
    <3>1. breaker.left > 0 /\ ~muddled
      BY <1>1, <1>6, <2>2
    <3>2. streak >= TransientThreshold \/ (bad /\ streak >= ConfigThreshold)
      BY <3>1 DEF IInv, OpenOnlyOnRepeatedFailure
    <3>3. streak >= TransientThreshold => streak' >= TransientThreshold
      BY <1>2, <1>3
    <3>4. streak >= ConfigThreshold => streak' >= ConfigThreshold
      BY <1>2, <1>3
    <3>5. bad => bad'
      BY <1>1
    <3>. QED
      BY <3>2, <3>3, <3>4, <3>5
  <2>. QED
    BY <2>1, <2>2
<1>. QED
  BY <1>5, <1>7, <1>8 DEF IInv

LEMMA RecordSuccessStep ==
  ASSUME IInv, NEW q \in Requests, RecordSuccess(q)
  PROVE  IInv'
<1>1. /\ breaker' = [failures |-> 0, left |-> 0] /\ streak' = 0
      /\ bad' = FALSE /\ muddled' = FALSE
      /\ request' = [p \in Requests |->
           IF p = q THEN Idle
           ELSE [request[p] EXCEPT !.stale = @ \/ At(p, "counted")]]
      /\ UNCHANGED <<rate, good, edits, spent>>
  BY DEF RecordSuccess
<1>2. ASSUME NEW p \in Requests
      PROVE  request'[p] \in Request /\ (request'[p].at = "counted" => request'[p].stale)
  <2>1. request[p] \in Request
    BY DEF IInv, TypeOK
  <2>2. CASE p = q
    BY <1>1, <2>2, IdleTyped DEF Idle
  <2>3. CASE p # q
    <3>. DEFINE flag == request[p].stale \/ At(p, "counted")
    <3>1. flag \in BOOLEAN /\ (request[p].at = "counted" => flag)
      BY DEF At
    <3>2. request'[p] = [request[p] EXCEPT !.stale = flag]
      BY <1>1, <2>3
    <3>. HIDE DEF flag
    <3>. QED
      BY <2>1, <3>1, <3>2 DEF Request
  <2>. QED
    BY <2>2, <2>3
<1>3. TypeOK'
  <2>1. request' \in [Requests -> Request]
    BY <1>1, <1>2
  <2>2. 0 \in 0..TransientThreshold /\ 0 \in 0..Longest
    BY ResonanceAssumption, LongestTyped
  <2>. QED
    BY <1>1, <2>1, <2>2 DEF IInv, TypeOK
<1>4. CountsRecorded'
  <2>1. breaker'.failures <= streak'
    BY <1>1
  <2>2. \A p \in Requests : ~(request'[p].at = "counted" /\ ~request'[p].stale)
    BY <1>2, Zenon
  <2>. QED
    BY <2>1, <2>2, Zenon DEF CountsRecorded, At
<1>. QED
  BY <1>1, <1>3, <1>4 DEF IInv, OpenOnlyOnRepeatedFailure

LEMMA WorldStep ==
  ASSUME IInv, Tick \/ ServiceChanges \/ Restart
  PROVE  IInv'
<1>1. CASE Tick
  <2>1. /\ rate' = [b \in Buckets |->
             IF rate[b] = NULL THEN NULL
             ELSE [rate[b] EXCEPT !.age = Least(@ + 1, Window)]]
        /\ breaker' = [breaker EXCEPT !.left = IF @ > 0 THEN @ - 1 ELSE 0]
        /\ UNCHANGED <<good, request, edits, streak, bad, muddled, spent>>
    BY <1>1 DEF Tick, ghost
  <2>2. ASSUME NEW b \in Buckets PROVE rate'[b] \in RateRow(b) \cup {NULL}
    <3>1. CASE rate[b] = NULL
      BY <2>1, <3>1
    <3>2. CASE rate[b] # NULL
      <4>1. rate[b] \in RateRow(b)
        BY <3>2 DEF IInv, TypeOK
      <4>. DEFINE n == Least(rate[b].age + 1, Window)
      <4>2. n \in 0..Window
        BY <4>1, ResonanceAssumption DEF RateRow, Least
      <4>3. rate'[b] = [rate[b] EXCEPT !.age = n]
        BY <2>1, <3>2
      <4>. HIDE DEF n
      <4>. QED
        BY <4>1, <4>2, <4>3 DEF RateRow
    <3>. QED
      BY <3>1, <3>2
  <2>3. /\ breaker' \in [failures : 0..TransientThreshold, left : 0..Longest]
        /\ breaker'.failures = breaker.failures
        /\ breaker'.left > 0 => breaker.left > 0
    BY <2>1, LongestTyped DEF IInv, TypeOK
  <2>4. TypeOK'
    BY <2>1, <2>2, <2>3 DEF IInv, TypeOK
  <2>. QED
    BY <2>1, <2>3, <2>4 DEF IInv, CountsRecorded, OpenOnlyOnRepeatedFailure, At
<1>2. CASE ServiceChanges \/ Restart
  <2>1. /\ UNCHANGED <<rate, breaker, streak, bad, muddled, spent>>
        /\ edits < MaxEdits /\ edits' = edits + 1
        /\ good' \in BOOLEAN /\ request' \in [Requests -> Request]
        /\ \A q \in Requests : request'[q] \in {request[q], Idle}
    BY <1>2, IdleTyped DEF ServiceChanges, Restart, Counted, ghost, IInv, TypeOK
  <2>2. edits' \in 0..MaxEdits
    BY <2>1, ResonanceAssumption DEF IInv, TypeOK
  <2>3. TypeOK'
    BY <2>1, <2>2 DEF IInv, TypeOK
  <2>4. CountsRecorded'
    BY <2>1 DEF IInv, CountsRecorded, At, Idle
  <2>. QED
    BY <2>1, <2>3, <2>4 DEF IInv, OpenOnlyOnRepeatedFailure
<1>. QED
  BY <1>1, <1>2

LEMMA StepKeepsInv == IInv /\ [Next]_vars => IInv'
<1>. SUFFICES ASSUME IInv, [Next]_vars PROVE IInv'
  OBVIOUS
<1>1. CASE \E q \in Requests :
             Proceed(q) \/ TestBegins(q) \/ \E u \in Users : ConsumeUser(q, u)
  BY <1>1, LimiterStep, ConsumeUserStep, CallStep, RecordFailureStep, RecordSuccessStep
  DEF Proceed
<1>2. CASE Tick \/ ServiceChanges \/ Restart
  BY <1>2, WorldStep
<1>3. CASE UNCHANGED vars
  <2>1. UNCHANGED <<rate, breaker, good, request, edits, streak, bad, muddled, spent>>
    BY <1>3 DEF vars, ghost
  <2>2. TypeOK'
    BY <2>1 DEF IInv, TypeOK
  <2>. QED
    BY <2>1, <2>2 DEF IInv, CountsRecorded, OpenOnlyOnRepeatedFailure, At
<1>. QED
  BY <1>1, <1>2, <1>3 DEF Next

\* Types, and that no lone failure opens the breaker, however requests, tests and
\* restarts interleave.
THEOREM Invariant == Spec => []Inv
<1>1. IInv => Inv
  BY DEF IInv, Inv
<1>. QED
  BY InitInv, StepKeepsInv, <1>1, PTL DEF Spec

-----------------------------------------------------------------------------
(* What one user takes of the global window.                               *)

\* The requests of a user between consume and its SELECT, and those admitted
\* that have yet to charge the global window.
InSteps == {"user", "passed"}
Waiting(u) == {q \in Requests : At(q, "user") /\ request[q].user = u}
Passed(u) == {q \in Requests : At(q, "passed") /\ request[q].user = u}

Others == Cardinality(Requests) - 1
Own(u) == Least(rate[u].count, UserLimit)

\* What the user took, and will yet take if nobody else is admitted.
Charged(u) ==
  spent[u] + Cardinality(Passed(u))
    + (IF Within(u) THEN Cardinality(Waiting(u)) ELSE 0)

\* As long as the global window is open: a user whose window began before it
\* has been charged for one window, and for the requests that were under way
\* when it began; a user whose window began within it, for two.
Bounded(u) ==
  (rate[u] # NULL /\ rate[Global] # NULL /\ rate[Global].age < Window) =>
    /\ Charged(u) <= 2 * Others + UserLimit + Own(u)
    /\ rate[u].age > rate[Global].age => Charged(u) <= Others + Own(u)

ShareHolds(u) ==
  /\ spent[u] <= Share
  /\ rate[u] = NULL => spent[u] = 0 /\ Waiting(u) = {} /\ Passed(u) = {}
  /\ rate[Global] = NULL => spent[u] = 0
  /\ rate[u] # NULL => rate[u].count >= 1
  /\ Bounded(u)

UsersKnown == \A q \in Requests : request[q].at \in InSteps => request[q].user \in Users

ShareInv == UsersKnown /\ \A u \in Users : ShareHolds(u)

LEMMA Sizes ==
  ASSUME NEW W \in SUBSET Requests, NEW P \in SUBSET Requests, W \cap P = {}
  PROVE  /\ IsFiniteSet(W) /\ IsFiniteSet(P)
         /\ Cardinality(W) \in Nat /\ Cardinality(P) \in Nat
         /\ Cardinality(W) + Cardinality(P) <= Cardinality(Requests)
<1>1. IsFiniteSet(W) /\ IsFiniteSet(P)
  BY FS_Subset, ResonanceAssumption
<1>2. Cardinality(W) \in Nat /\ Cardinality(P) \in Nat
  BY <1>1, FS_CardinalityType
<1>3. Cardinality(W \cup P) = Cardinality(W) + Cardinality(P)
  <2>1. Cardinality(W \cap P) = 0
    BY FS_EmptySet
  <2>2. Cardinality(W \cup P) = Cardinality(W) + Cardinality(P) - Cardinality(W \cap P)
    BY <1>1, FS_Union
  <2> QED BY <1>2, <2>1, <2>2
<1>4. Cardinality(W \cup P) <= Cardinality(Requests)
  <2>1. W \cup P \in SUBSET Requests
    OBVIOUS
  <2> QED BY <2>1, FS_Subset, ResonanceAssumption
<1> QED BY <1>1, <1>2, <1>3, <1>4

LEMMA Fewer ==
  ASSUME NEW W \in SUBSET Requests, NEW V \in SUBSET W
  PROVE  Cardinality(V) \in Nat /\ Cardinality(W) \in Nat /\ Cardinality(V) <= Cardinality(W)
<1>1. IsFiniteSet(W) /\ IsFiniteSet(V)
  BY FS_Subset, ResonanceAssumption
<1> QED BY <1>1, FS_CardinalityType, FS_Subset

\* The sets of a user's requests, now and after a step.
LEMMA SetsOf ==
  ASSUME NEW u \in Users
  PROVE  /\ Waiting(u) \in SUBSET Requests /\ Passed(u) \in SUBSET Requests
         /\ Waiting(u) \cap Passed(u) = {}
         /\ Waiting(u)' \in SUBSET Requests /\ Passed(u)' \in SUBSET Requests
         /\ Waiting(u)' \cap Passed(u)' = {}
BY DEF Waiting, Passed, At

LEMMA Numbers ==
  ASSUME TypeOK, NEW u \in Users
  PROVE  /\ spent[u] \in Nat /\ UserLimit \in Nat \ {0} /\ Window \in Nat \ {0}
         /\ Cardinality(Requests) \in Nat /\ Share = 2 * UserLimit + 2 * Others
         /\ Limit(u) = UserLimit
         /\ rate[u] # NULL =>
              rate[u].age \in 0..Window /\ rate[u].count \in 0..(UserLimit + 1)
         /\ rate[Global] # NULL => rate[Global].age \in 0..Window
<1>1. spent[u] \in Nat
  BY ShareIsNat DEF TypeOK
<1>2. Limit(u) = UserLimit /\ u \in Buckets /\ Global \in Buckets
  BY ResonanceAssumption DEF Limit, Buckets
<1>3. Cardinality(Requests) \in Nat
  BY FS_CardinalityType, ResonanceAssumption
<1> QED BY <1>1, <1>2, <1>3, ResonanceAssumption DEF TypeOK, RateRow, Share, Others

\* A step that only takes requests out of the two sets.
LEMMA ShareFewer ==
  ASSUME TypeOK, NEW u \in Users, ShareHolds(u),
         rate'[u] = rate[u], rate'[Global] = rate[Global], spent'[u] = spent[u],
         Waiting(u)' \subseteq Waiting(u), Passed(u)' \subseteq Passed(u)
  PROVE  ShareHolds(u)'
<1>1. /\ Cardinality(Waiting(u)') \in Nat /\ Cardinality(Waiting(u)) \in Nat
      /\ Cardinality(Waiting(u)') <= Cardinality(Waiting(u))
      /\ Cardinality(Passed(u)') \in Nat /\ Cardinality(Passed(u)) \in Nat
      /\ Cardinality(Passed(u)') <= Cardinality(Passed(u))
  BY SetsOf, Fewer
<1>2. Own(u)' = Own(u) /\ (Within(u)' <=> Within(u))
  BY DEF Own, Within, Limit
<1>3. Charged(u)' <= Charged(u) /\ Charged(u) \in Nat /\ Charged(u)' \in Nat
  BY <1>1, <1>2, Numbers DEF Charged
<1>4. rate[u] # NULL => Own(u) \in Nat
  BY Numbers DEF Own, Least
<1>5. Bounded(u)'
  BY <1>2, <1>3, <1>4, Numbers DEF ShareHolds, Bounded, Others
<1> QED BY <1>5 DEF ShareHolds

\* One request leaves the two sets, or is in neither.
LEMMA OthersStay ==
  ASSUME NEW q \in Requests, NEW u \in Users,
         request'[q].at \notin InSteps,
         \A p \in Requests \ {q} : request'[p].at = request[p].at /\ request'[p].user = request[p].user
  PROVE  /\ Waiting(u)' = Waiting(u) \ {q}
         /\ Passed(u)' = Passed(u) \ {q}
BY DEF Waiting, Passed, At, InSteps

LEMMA ShareInit == Init => ShareInv
<1> SUFFICES ASSUME Init PROVE ShareInv
  OBVIOUS
<1>1. TypeOK
  BY InitInv DEF IInv
<1>2. UsersKnown
  BY DEF Init, UsersKnown, Idle, InSteps
<1>3. ASSUME NEW u \in Users PROVE ShareHolds(u)
  <2>1. rate[u] = NULL /\ rate[Global] = NULL /\ spent[u] = 0
    BY DEF Init, Buckets
  <2>2. Waiting(u) = {} /\ Passed(u) = {}
    BY DEF Init, Waiting, Passed, At, Idle
  <2>3. 0 <= Share
    BY ShareIsNat
  <2> QED BY <2>1, <2>2, <2>3 DEF ShareHolds, Bounded
<1> QED BY <1>2, <1>3 DEF ShareInv

\* The steps that neither admit nor charge anybody.
LEMMA QuietStep ==
  ASSUME TypeOK, ShareInv, UNCHANGED spent,
         \A u \in Users \cup {Global} : rate'[u] = rate[u],
         \A p \in Requests :
           \/ request'[p].at = request[p].at /\ request'[p].user = request[p].user
           \/ request'[p].at \notin InSteps
  PROVE  ShareInv'
<1>1. UsersKnown'
  BY DEF ShareInv, UsersKnown
<1>2. ASSUME NEW u \in Users PROVE ShareHolds(u)'
  <2>1. Waiting(u)' \subseteq Waiting(u) /\ Passed(u)' \subseteq Passed(u)
    BY DEF Waiting, Passed, At, InSteps
  <2> QED BY <2>1, ShareFewer DEF ShareInv
<1> QED BY <1>1, <1>2 DEF ShareInv

\* consume's SELECT: whoever is admitted has been counted before, unless the
\* limit refuses.
LEMMA CheckUserShare ==
  ASSUME TypeOK, ShareInv, NEW q \in Requests, CheckUser(q)
  PROVE  ShareInv'
<1> DEFINE w == request[q].user
<1>1. /\ request[q].at = "user" /\ w \in Users
      /\ UNCHANGED <<rate, spent>>
  BY DEF CheckUser, At, ghost, ShareInv, UsersKnown, InSteps
<1>2. CASE ~Within(w)
  <2>1. request' = [request EXCEPT ![q] = Idle]
    BY <1>2 DEF CheckUser, Leave
  <2>2. request'[q].at = "idle" /\ \A p \in Requests \ {q} : request'[p] = request[p]
    BY <2>1 DEF TypeOK, Idle
  <2> QED BY <1>1, <2>2, QuietStep DEF InSteps
<1>3. CASE Within(w)
  <2>1. request' = [request EXCEPT ![q].at = "passed"]
    BY <1>3 DEF CheckUser, Goto
  <2>2. /\ request'[q].at = "passed" /\ request'[q].user = w
        /\ \A p \in Requests \ {q} : request'[p] = request[p]
    BY <2>1 DEF TypeOK, Request
  <2>3. UsersKnown'
    BY <1>1, <2>2 DEF ShareInv, UsersKnown
  <2>4. ASSUME NEW u \in Users PROVE ShareHolds(u)'
    <3>1. CASE u # w
      <4>1. Waiting(u)' \subseteq Waiting(u) /\ Passed(u)' \subseteq Passed(u)
        BY <2>2, <3>1 DEF Waiting, Passed, At
      <4> QED BY <1>1, <4>1, ShareFewer DEF ShareInv
    <3>2. CASE u = w
      <4>1. /\ Waiting(u)' = Waiting(u) \ {q} /\ q \in Waiting(u)
            /\ Passed(u)' = Passed(u) \cup {q} /\ q \notin Passed(u)
        BY <1>1, <2>2, <3>2 DEF Waiting, Passed, At
      <4>2. /\ Cardinality(Waiting(u)') = Cardinality(Waiting(u)) - 1
            /\ Cardinality(Passed(u)') = Cardinality(Passed(u)) + 1
            /\ Cardinality(Waiting(u)) \in Nat /\ Cardinality(Passed(u)) \in Nat
        <5>1. IsFiniteSet(Waiting(u)) /\ IsFiniteSet(Passed(u))
              /\ Cardinality(Waiting(u)) \in Nat /\ Cardinality(Passed(u)) \in Nat
          BY SetsOf, Sizes
        <5>2. Cardinality(Waiting(u) \ {q}) = Cardinality(Waiting(u)) - 1
          BY <4>1, <5>1, FS_RemoveElement
        <5>3. Cardinality(Passed(u) \cup {q}) = Cardinality(Passed(u)) + 1
          BY <4>1, <5>1, FS_AddElement
        <5> QED BY <4>1, <5>1, <5>2, <5>3
      <4>3. Own(u)' = Own(u) /\ Within(u) /\ Within(u)' /\ rate[u] # NULL
        <5>1. rate[u] # NULL
          BY <4>1 DEF ShareInv, ShareHolds
        <5> QED BY <1>1, <1>3, <3>2, <5>1 DEF Own, Within, Limit
      <4>4. Charged(u)' = Charged(u)
        BY <1>1, <4>2, <4>3, Numbers DEF Charged
      <4> QED BY <1>1, <4>3, <4>4 DEF ShareInv, ShareHolds, Bounded
    <3> QED BY <3>1, <3>2
  <2> QED BY <2>3, <2>4 DEF ShareInv
<1> QED BY <1>2, <1>3

\* consume's upsert: a count more and a request more; or a new window, before
\* which no more than one window's worth was charged.
LEMMA ConsumeUserShare ==
  ASSUME TypeOK, ShareInv, NEW q \in Requests, NEW w \in Users, ConsumeUser(q, w)
  PROVE  ShareInv'
<1>1. /\ request[q].at = "idle" /\ UNCHANGED spent
      /\ rate' = [rate EXCEPT ![w] = Bumped(w)]
      /\ request'[q].at = "user" /\ request'[q].user = w
      /\ \A p \in Requests \ {q} : request'[p] = request[p]
  BY DEF ConsumeUser, At, ghost, TypeOK, Request, Idle
<1>2. /\ rate'[w] = Bumped(w)
      /\ \A u \in (Users \cup {Global}) \ {w} : rate'[u] = rate[u]
      /\ Global # w
  BY <1>1, ResonanceAssumption DEF TypeOK, Buckets
<1>3. UsersKnown'
  BY <1>1 DEF ShareInv, UsersKnown
<1>4. ASSUME NEW u \in Users PROVE ShareHolds(u)'
  <2>1. CASE u # w
    <3>1. Waiting(u)' \subseteq Waiting(u) /\ Passed(u)' \subseteq Passed(u)
      BY <1>1, <2>1 DEF Waiting, Passed, At
    <3> QED BY <1>1, <1>2, <2>1, <3>1, ShareFewer DEF ShareInv
  <2>2. CASE u = w
    <3>1. /\ Waiting(u)' = Waiting(u) \cup {q} /\ q \notin Waiting(u)
          /\ Passed(u)' = Passed(u)
      BY <1>1, <2>2 DEF Waiting, Passed, At
    <3>2. /\ Cardinality(Waiting(u)') = Cardinality(Waiting(u)) + 1
          /\ Cardinality(Waiting(u)) \in Nat /\ Cardinality(Passed(u)) \in Nat
          /\ Cardinality(Waiting(u)') + Cardinality(Passed(u)) <= Cardinality(Requests)
      <4>1. IsFiniteSet(Waiting(u)) /\ Cardinality(Waiting(u)) \in Nat
            /\ Cardinality(Passed(u)) \in Nat
        BY SetsOf, Sizes
      <4>2. Cardinality(Waiting(u) \cup {q}) = Cardinality(Waiting(u)) + 1
        BY <3>1, <4>1, FS_AddElement
      <4>3. Cardinality(Waiting(u)') + Cardinality(Passed(u)') <= Cardinality(Requests)
        BY SetsOf, Sizes
      <4> QED BY <3>1, <4>1, <4>2, <4>3
    <3>3. ShareHolds(u)
      BY DEF ShareInv
    <3>4. CASE rate[u] = NULL \/ rate[u].age = Window
      <4>1. rate'[u] = [age |-> 0, count |-> 1]
        BY <1>2, <2>2, <3>4 DEF Bumped
      <4>2. Own(u)' = 1 /\ rate'[u] # NULL
        <5>1. Bumped(w) \in RateRow(w) /\ Bumped(w) # NULL
          BY <1>1, <1>2, BumpedTyped, NoNullRow DEF Buckets
        <5> QED BY <1>2, <2>2, <4>1, <5>1, Numbers DEF Own, Least
      <4>3. Charged(u)' <= spent[u] + Cardinality(Passed(u)) + Cardinality(Waiting(u)')
            /\ Charged(u)' \in Nat
        BY <1>1, <3>1, <3>2, Numbers DEF Charged
      <4>4. ASSUME rate[Global] # NULL, rate[Global].age < Window
            PROVE  Charged(u)' <= 2 * Others + UserLimit + 1
        <5>1. CASE rate[u] = NULL
          BY <3>2, <3>3, <4>3, <5>1, Numbers DEF ShareHolds, Others
        <5>2. CASE rate[u] # NULL
          <6>1. Charged(u) <= Others + Own(u)
            BY <3>3, <3>4, <4>4, <5>2, Numbers DEF ShareHolds, Bounded
          <6>2. spent[u] + Cardinality(Passed(u)) <= Charged(u) /\ Charged(u) \in Nat
            BY <3>2, Numbers DEF Charged
          <6>3. Own(u) \in Nat /\ Own(u) <= UserLimit
            BY <5>2, Numbers DEF Own, Least
          <6> QED BY <3>2, <4>3, <6>1, <6>2, <6>3, Numbers DEF Others
        <5> QED BY <5>1, <5>2
      <4>5. Bounded(u)'
        BY <1>2, <2>2, <4>1, <4>2, <4>4, Numbers DEF Bounded, Others
      <4> QED BY <1>1, <1>2, <2>2, <3>3, <4>1, <4>2, <4>5 DEF ShareHolds
    <3>5. CASE rate[u] # NULL /\ rate[u].age # Window
      <4> DEFINE n == Least(rate[u].count + 1, UserLimit + 1)
      <4>1. rate'[u] = [rate[u] EXCEPT !.count = n]
        BY <1>2, <2>2, <3>5, Numbers DEF Bumped
      <4>2. rate[u] \in RateRow(u)
        BY <3>5 DEF TypeOK, Buckets
      <4>3. rate'[u].age = rate[u].age /\ rate'[u].count = n
        BY <4>1, <4>2 DEF RateRow
      <4>4. n >= 1 /\ rate[u].count >= 1
        BY <3>3, <3>5, Numbers DEF Least, ShareHolds
      <4>5. /\ Own(u) \in Nat /\ Own(u)' \in Nat /\ Charged(u) \in Nat /\ Charged(u)' \in Nat
            /\ Charged(u)' - Own(u)' <= Charged(u) - Own(u)
            /\ Own(u) <= Own(u)'
        <5>1. CASE rate[u].count < UserLimit
          <6>1. n = rate[u].count + 1 /\ Within(u) /\ Within(u)'
            BY <4>3, <5>1, <3>5, Numbers DEF Least, Within, Limit
          <6>2. Own(u)' = Own(u) + 1 /\ Own(u) \in Nat
            BY <4>3, <5>1, <6>1, <3>5, Numbers DEF Own, Least
          <6>3. Charged(u)' = Charged(u) + 1 /\ Charged(u) \in Nat
            BY <1>1, <3>1, <3>2, <6>1, Numbers DEF Charged
          <6> QED BY <6>2, <6>3
        <5>2. CASE ~(rate[u].count < UserLimit)
          <6>1. n = UserLimit + 1 /\ ~Within(u)'
            BY <4>3, <5>2, <3>5, Numbers DEF Least, Within, Limit
          <6>2. Own(u)' = UserLimit /\ Own(u) = UserLimit
            BY <4>3, <5>2, <6>1, <3>5, Numbers DEF Own, Least
          <6>3. Charged(u)' <= Charged(u) /\ Charged(u) \in Nat /\ Charged(u)' \in Nat
            BY <1>1, <3>1, <3>2, <6>1, Numbers DEF Charged
          <6> QED BY <6>2, <6>3, Numbers
        <5> QED BY <5>1, <5>2
      <4> HIDE DEF n
      <4>6. Bounded(u)'
        BY <1>2, <2>2, <3>3, <3>5, <4>3, <4>5, Numbers DEF ShareHolds, Bounded, Others
      <4>7. rate'[u] # NULL
        BY <1>2, <2>2, BumpedTyped, NoNullRow DEF Buckets
      <4> QED BY <1>1, <1>2, <2>2, <3>3, <3>5, <4>3, <4>4, <4>6, <4>7 DEF ShareHolds
    <3> QED BY <3>4, <3>5
  <2> QED BY <2>1, <2>2
<1> QED BY <1>3, <1>4 DEF ShareInv

\* A charge of the global window: of one admitted before; or the first of a new
\* window, in which at most as many as there are requests are under way.
LEMMA ConsumeGlobalShare ==
  ASSUME TypeOK, ShareInv, NEW q \in Requests, ConsumeGlobal(q)
  PROVE  ShareInv'
<1> DEFINE w == request[q].user
           fresh == Bumped(Global).age = 0 /\ Bumped(Global).count = 1
           before == IF fresh THEN [v \in Users |-> 0] ELSE spent
<1>1. /\ request[q].at = "passed" /\ w \in Users
      /\ rate' = [rate EXCEPT ![Global] = Bumped(Global)]
      /\ spent' = [before EXCEPT ![w] = Least(@ + 1, Share + 1)]
      /\ request' = [request EXCEPT ![q].at = "global"]
  BY DEF ConsumeGlobal, Goto, At, ShareInv, UsersKnown, InSteps
<1>2. /\ request'[q].at = "global"
      /\ \A p \in Requests \ {q} : request'[p] = request[p]
  BY <1>1 DEF TypeOK, Request
<1>3. /\ rate'[Global] = Bumped(Global)
      /\ \A u \in Users : rate'[u] = rate[u]
  BY <1>1, ResonanceAssumption DEF TypeOK, Buckets
<1>4. Bumped(Global) \in RateRow(Global) /\ Bumped(Global) # NULL
  BY BumpedTyped, NoNullRow DEF Buckets
<1>5. UsersKnown'
  BY <1>2 DEF ShareInv, UsersKnown, InSteps
<1>7. Share \in Nat /\ Share >= 2
  <2>1. Cardinality(Requests) \in Nat /\ Cardinality(Requests) # 0
    BY FS_CardinalityType, FS_EmptySet, ResonanceAssumption
  <2> QED BY <2>1, ResonanceAssumption DEF Share
<1>6. ASSUME NEW u \in Users PROVE ShareHolds(u)'
  <2>1. /\ Waiting(u)' = Waiting(u) /\ Passed(u)' = Passed(u) \ {q}
        /\ q \in Passed(u) <=> u = w
    BY <1>1, <1>2 DEF Waiting, Passed, At
  <2>2. /\ Cardinality(Passed(u)') = IF u = w THEN Cardinality(Passed(u)) - 1
                                     ELSE Cardinality(Passed(u))
        /\ Cardinality(Waiting(u)) \in Nat /\ Cardinality(Passed(u)) \in Nat
        /\ Cardinality(Passed(u)') \in Nat
        /\ Cardinality(Waiting(u)) + Cardinality(Passed(u)) <= Cardinality(Requests)
    <3>1. IsFiniteSet(Passed(u)) /\ Cardinality(Waiting(u)) \in Nat
          /\ Cardinality(Passed(u)) \in Nat
          /\ Cardinality(Waiting(u)) + Cardinality(Passed(u)) <= Cardinality(Requests)
      BY SetsOf, Sizes
    <3>2. Cardinality(Passed(u) \ {q}) = IF u = w THEN Cardinality(Passed(u)) - 1
                                         ELSE Cardinality(Passed(u))
      BY <2>1, <3>1, FS_RemoveElement
    <3>3. Cardinality(Passed(u)') \in Nat
      BY SetsOf, Sizes
    <3> QED BY <2>1, <3>1, <3>2, <3>3
  <2>3. ShareHolds(u)
    BY DEF ShareInv
  <2>4. Own(u)' = Own(u) /\ (Within(u)' <=> Within(u))
    BY <1>3 DEF Own, Within, Limit
  <2>5. rate[u] # NULL => Own(u) \in Nat /\ Own(u) >= 1
    BY <2>3, Numbers DEF Own, Least, ShareHolds
  <2>6. u = w => rate[u] # NULL
    BY <2>1, <2>3 DEF ShareHolds
  <2>7. CASE fresh
    <3>0. before = [v \in Users |-> 0] /\ Least(0 + 1, Share + 1) = 1
      BY <1>7, <2>7 DEF Least
    <3>1. spent'[u] = IF u = w THEN 1 ELSE 0
      BY <1>1, <3>0
    <3>2. Charged(u)' <= Cardinality(Requests) /\ Charged(u)' \in Nat
      <4>1. /\ Within(u)' => Charged(u)' =
                 spent'[u] + Cardinality(Passed(u)') + Cardinality(Waiting(u))
            /\ ~Within(u)' => Charged(u)' = spent'[u] + Cardinality(Passed(u)') + 0
        BY <2>1 DEF Charged
      <4>2. spent'[u] + Cardinality(Passed(u)') = Cardinality(Passed(u)) /\ spent'[u] \in Nat
        BY <2>2, <3>1
      <4>3. CASE Within(u)'
        <5>1. Charged(u)' = Cardinality(Passed(u)) + Cardinality(Waiting(u))
          BY <4>1, <4>2, <4>3
        <5> QED BY <2>2, <5>1, Numbers
      <4>4. CASE ~Within(u)'
        <5>1. Charged(u)' = Cardinality(Passed(u))
          BY <2>2, <4>1, <4>2, <4>4
        <5> QED BY <2>2, <5>1, Numbers
      <4> QED BY <4>3, <4>4
    <3>3. Bounded(u)'
      BY <1>3, <2>4, <2>5, <3>2, Numbers DEF Bounded, Others
    <3>4. spent'[u] <= Share /\ (rate'[u] = NULL => spent'[u] = 0)
      BY <1>3, <1>7, <2>6, <3>1
    <3> QED BY <1>3, <1>4, <2>1, <2>3, <3>3, <3>4 DEF ShareHolds
  <2>8. CASE ~fresh
    <3>1. rate[Global] # NULL /\ rate[Global].age # Window
      BY <2>8 DEF Bumped
    <3>2. rate[Global].age < Window /\ Bumped(Global).age = rate[Global].age
      <4>1. rate[Global] \in RateRow(Global)
        BY <3>1 DEF TypeOK, Buckets
      <4> QED BY <3>1, <4>1, Numbers DEF Bumped, RateRow
    <3>3. u = w => Charged(u) <= Share /\ 1 <= Cardinality(Passed(u))
      <4>1. u = w => Charged(u) <= 2 * Others + UserLimit + Own(u) /\ Own(u) <= UserLimit
        BY <2>3, <2>6, <3>1, <3>2, Numbers DEF ShareHolds, Bounded, Own, Least
      <4>2. Charged(u) \in Nat
        BY <2>2, Numbers DEF Charged
      <4> QED BY <2>2, <2>5, <2>6, <4>1, <4>2, Numbers DEF Others
    <3>4. spent'[u] = IF u = w THEN spent[u] + 1 ELSE spent[u]
      <4>1. u = w => spent[u] + 1 <= Share
        <5>1. spent[u] + Cardinality(Passed(u)) <= Charged(u) /\ Charged(u) \in Nat
          BY <2>2, Numbers DEF Charged
        <5> QED BY <1>7, <2>2, <3>3, <5>1, Numbers
      <4>2. before = spent /\ spent \in [Users -> 0..(Share + 1)]
        BY <2>8 DEF TypeOK
      <4>3. u = w => Least(spent[u] + 1, Share + 1) = spent[u] + 1
        BY <1>7, <4>1, Numbers DEF Least
      <4> HIDE DEF before, w
      <4> QED BY <1>1, <4>2, <4>3
    <3>5. Charged(u)' = Charged(u)
      BY <2>1, <2>2, <2>4, <3>4, Numbers DEF Charged
    <3>7. spent'[u] <= Share
      <4>1. spent[u] + Cardinality(Passed(u)) <= Charged(u) /\ Charged(u) \in Nat
        BY <2>2, Numbers DEF Charged
      <4> QED BY <1>7, <2>2, <2>3, <3>3, <3>4, <4>1, Numbers DEF ShareHolds
    <3>6. Bounded(u)'
      BY <1>3, <2>3, <2>4, <3>1, <3>2, <3>5 DEF Bounded, ShareHolds
    <3> QED BY <1>3, <1>4, <2>1, <2>3, <2>6, <3>4, <3>7, <3>6 DEF ShareHolds
  <2> QED BY <2>7, <2>8
<1> QED BY <1>5, <1>6 DEF ShareInv

\* Time passes alike for all windows, so their order stands.
LEMMA TickShare ==
  ASSUME TypeOK, ShareInv, Tick
  PROVE  ShareInv'
<1>1. /\ rate' = [b \in Buckets |-> IF rate[b] = NULL THEN NULL
                    ELSE [rate[b] EXCEPT !.age = Least(@ + 1, Window)]]
      /\ UNCHANGED <<request, spent>>
  BY DEF Tick, ghost
<1>2. UsersKnown'
  BY <1>1 DEF ShareInv, UsersKnown
<1>3. ASSUME NEW b \in Buckets
      PROVE  /\ rate'[b] = NULL <=> rate[b] = NULL
             /\ rate[b] # NULL => rate'[b].age = Least(rate[b].age + 1, Window)
                                   /\ rate'[b].count = rate[b].count
  <2>1. CASE rate[b] = NULL
    BY <1>1, <2>1
  <2>2. CASE rate[b] # NULL
    <3> DEFINE n == Least(rate[b].age + 1, Window)
    <3>1. rate[b] \in RateRow(b)
      BY <2>2 DEF TypeOK
    <3>2. rate'[b] = [rate[b] EXCEPT !.age = n]
      BY <1>1, <2>2
    <3>3. n \in 0..Window
      BY <3>1, ResonanceAssumption DEF RateRow, Least
    <3> HIDE DEF n
    <3>4. rate'[b] \in RateRow(b) /\ rate'[b].age = n /\ rate'[b].count = rate[b].count
      BY <3>1, <3>2, <3>3 DEF RateRow
    <3>5. rate'[b] # NULL
      BY <3>4, NoNullRow
    <3> QED BY <2>2, <3>4, <3>5 DEF n
  <2> QED BY <2>1, <2>2
<1>4. ASSUME NEW u \in Users PROVE ShareHolds(u)'
  <2>1. u \in Buckets /\ Global \in Buckets
    BY DEF Buckets
  <2>2. /\ Waiting(u)' = Waiting(u) /\ Passed(u)' = Passed(u)
    BY <1>1 DEF Waiting, Passed, At
  <2>3. rate[u] # NULL => Own(u)' = Own(u) /\ (Within(u)' <=> Within(u))
    BY <1>3, <2>1 DEF Own, Within, Limit
  <2>4. rate[u] # NULL => Charged(u)' = Charged(u)
    BY <1>1, <2>2, <2>3 DEF Charged
  <2>5. Bounded(u)'
    BY <1>3, <2>1, <2>3, <2>4, Numbers DEF Bounded, ShareInv, ShareHolds, Least
  <2> QED BY <1>1, <1>3, <2>1, <2>2, <2>5 DEF ShareInv, ShareHolds
<1> QED BY <1>2, <1>4 DEF ShareInv

LEMMA ShareStep ==
  ASSUME IInv, ShareInv, [Next]_vars
  PROVE  ShareInv'
<1>1. TypeOK
  BY DEF IInv
<1>2. CASE \E q \in Requests : Proceed(q) \/ TestBegins(q) \/ \E u \in Users : ConsumeUser(q, u)
  <2>1. PICK q \in Requests : Proceed(q) \/ TestBegins(q) \/ \E u \in Users : ConsumeUser(q, u)
    BY <1>2
  <2>2. CASE CheckUser(q) \/ ConsumeGlobal(q) \/ \E u \in Users : ConsumeUser(q, u)
    BY <1>1, <2>2, CheckUserShare, ConsumeGlobalShare, ConsumeUserShare
  <2>3. CASE CheckGlobal(q) \/ AssertClosed(q) \/ CheckTest(q) \/ TestAnswers(q) \/ TestBegins(q)
    <3>1. UNCHANGED spent /\ \A u \in Users \cup {Global} : rate'[u] = rate[u]
      BY <1>1, <2>3, ResonanceAssumption DEF CheckGlobal, AssertClosed, CheckTest, TestAnswers,
         TestBegins, TypeOK, Buckets, ghost, Global, Test
    <3>2. \E step \in Steps \ InSteps : Goto(q, step) \/ Leave(q)
      BY <2>3 DEF CheckGlobal, AssertClosed, CheckTest, TestAnswers, TestBegins, Steps, InSteps
    <3>3. /\ request'[q].at \notin InSteps
          /\ \A p \in Requests \ {q} : request'[p] = request[p]
      <4>1. "idle" \notin InSteps
        BY DEF InSteps
      <4> QED BY <1>1, <3>2, <4>1, MoveTyped
    <3> QED BY <1>1, <3>1, <3>3, QuietStep
  <2>4. CASE Answer(q) \/ ReadFailures(q) \/ RecordFailure(q)
    <3>1. UNCHANGED <<rate, spent>>
      BY <2>4 DEF Answer, ReadFailures, RecordFailure, ghost
    <3>2. /\ request'[q].at \notin InSteps
          /\ \A p \in Requests \ {q} : request'[p] = request[p]
      <4>1. request \in [Requests -> Request] /\ request[q] \in Request
        BY <1>1 DEF TypeOK
      <4>2. CASE Answer(q)
        <5>1. CASE Goto(q, "done")
          BY <4>1, <5>1 DEF Goto, Request, InSteps
        <5>2. CASE \E err \in Errors :
                     request' = [request EXCEPT ![q].at = "failed", ![q].err = err]
          BY <4>1, <5>2 DEF Request, InSteps
        <5> QED BY <4>2, <5>1, <5>2 DEF Answer
      <4>3. CASE ReadFailures(q)
        BY <4>1, <4>3 DEF ReadFailures, Request, InSteps
      <4>4. CASE RecordFailure(q)
        BY <4>1, <4>4 DEF RecordFailure, Leave, Idle, InSteps
      <4> QED BY <2>4, <4>2, <4>3, <4>4
    <3> QED BY <1>1, <3>1, <3>2, QuietStep
  <2>5. CASE RecordSuccess(q)
    <3>1. /\ UNCHANGED <<rate, spent>>
          /\ request' = [p \in Requests |-> IF p = q THEN Idle
               ELSE [request[p] EXCEPT !.stale = @ \/ At(p, "counted")]]
      BY <2>5 DEF RecordSuccess
    <3>2. ASSUME NEW p \in Requests
          PROVE  \/ request'[p].at = request[p].at /\ request'[p].user = request[p].user
                 \/ request'[p].at \notin InSteps
      <4>1. request[p] \in Request
        BY <1>1 DEF TypeOK
      <4>2. CASE p = q
        BY <3>1, <4>2 DEF Idle, InSteps
      <4>3. CASE p # q
        BY <3>1, <4>1, <4>3 DEF Request
      <4> QED BY <4>2, <4>3
    <3> QED BY <1>1, <3>1, <3>2, QuietStep
  <2> QED BY <2>1, <2>2, <2>3, <2>4, <2>5 DEF Proceed
<1>3. CASE Tick
  BY <1>1, <1>3, TickShare
<1>4. CASE ServiceChanges \/ Restart \/ UNCHANGED vars
  <2>1. /\ UNCHANGED <<rate, spent>>
        /\ \A q \in Requests : request'[q] \in {request[q], Idle}
    BY <1>1, <1>4 DEF ServiceChanges, Restart, vars, ghost, TypeOK
  <2> QED BY <1>1, <2>1, QuietStep DEF Idle, InSteps
<1> QED BY <1>2, <1>3, <1>4 DEF Next

\* app/integrations/resonance/limiter.py:47: the limiter is "slightly racy", and
\* this is by how much.  However many requests of one user are under way and
\* however windows begin and end, the user gets no more of a global window than
\* two windows of his own and what was under way when they began.
THEOREM FairShare == Spec => []UserShare
<1>1. Init => IInv /\ ShareInv
  BY InitInv, ShareInit
<1>2. (IInv /\ ShareInv) /\ [Next]_vars => (IInv /\ ShareInv)'
  BY StepKeepsInv, ShareStep
<1>3. ShareInv => UserShare
  BY DEF ShareInv, ShareHolds, UserShare
<1> QED BY <1>1, <1>2, <1>3, PTL DEF Spec
=============================================================================
