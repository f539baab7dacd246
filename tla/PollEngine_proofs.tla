-------------------------- MODULE PollEngine_proofs --------------------------
(***************************************************************************)
(* Proofs about PollEngine, for any collectors, settings and bounds: its   *)
(* invariant, and that it implements Snapshots.                            *)
(***************************************************************************)
EXTENDS PollEngine, TLAPS

-----------------------------------------------------------------------------
(* The inductive invariant.                                                *)

\* What the engine holds fits what it is doing.
EngineHolds ==
  /\ pc \in {"idle", "next"} => current = NULL
  /\ pc \in {"polling", "persist"} => current \in CollectorIds \X CollectorRow
  /\ pc = "persist" => result \in Versions
  /\ pc # "persist" => result = NULL

\* A deleted id is not used again, and nothing is polled that never existed.
OnlyKnownPolled ==
  /\ \A c \in retired : collectors[c] = NULL
  /\ \A c \in CollectorIds : (collectors[c] = NULL /\ c \notin retired) =>
       /\ due[c] = NULL /\ requests[c] = NULL
       /\ \A row \in CollectorRow : current # <<c, row>>

\* Whoever polls a collector knows its category, unless that was changed.
CategoryKnown ==
  \A c \in CollectorIds \ moved : collectors[c] # NULL =>
    /\ due[c] # NULL => due[c].category = collectors[c].category
    /\ \A row \in CollectorRow :
         current = <<c, row>> => row.category = collectors[c].category
    /\ requests[c] # NULL => requests[c].row.category = collectors[c].category

IInv == TypeOK /\ EngineHolds /\ OnlyKnownPolled /\ CategoryKnown /\ OkMeansWhole

-----------------------------------------------------------------------------
(* Lemmas about what a poll writes.                                        *)

LEMMA TablesTyped ==
  \A g \in Categories : TablesOf(g) \subseteq RawTables /\ TablesOf(g) # {}
  BY DEF Categories, TablesOf, Persisted, RawTables

LEMMA PersistAllTyped ==
  ASSUME TypeOK, NEW c \in CollectorIds, NEW g \in Categories, NEW v \in Versions
  PROVE  /\ PersistAll(c, g, v) \in [RawTables -> [CollectorIds -> Stored]]
         /\ \A t \in TablesOf(g) : PersistAll(c, g, v)[t][c] = Rows(v, TRUE)
         /\ \A t \in RawTables, d \in CollectorIds \ {c} :
              PersistAll(c, g, v)[t][d] = store[t][d]
<1>1. Rows(v, TRUE) \in Stored
  BY DEF Rows, Stored
<1>. QED
  BY <1>1, TablesTyped DEF TypeOK, PersistAll

LEMMA PersistUpToTyped ==
  ASSUME TypeOK, NEW c \in CollectorIds, NEW g \in Categories, NEW v \in Versions, NEW i
  PROVE  /\ PersistUpTo(c, g, v, i) \in [RawTables -> [CollectorIds -> Stored]]
         /\ \A t \in RawTables, d \in CollectorIds \ {c} :
              PersistUpTo(c, g, v, i)[t][d] = store[t][d]
<1>1. Rows(v, TRUE) \in Stored /\ Rows(v, FALSE) \in Stored
  BY DEF Rows, Stored
<1>. QED
  BY <1>1 DEF TypeOK, PersistUpTo

LEMMA PolledTyped ==
  ASSUME TypeOK, NEW c \in CollectorIds, NEW s \in {"ok", "error"}
  PROVE  /\ Polled(c, s) \in [CollectorIds -> OrNull(CollectorRow)]
         /\ \A d \in CollectorIds :
              /\ Polled(c, s)[d] = NULL <=> collectors[d] = NULL
              /\ d # c => Polled(c, s)[d] = collectors[d]
              /\ collectors[d] # NULL => Polled(c, s)[d].category = collectors[d].category
         /\ collectors[c] # NULL => Polled(c, s)[c].status = s
<1>1. CASE collectors[c] = NULL
  BY <1>1 DEF TypeOK, Polled
<1>2. CASE collectors[c] # NULL
  <2>. DEFINE row == [collectors[c] EXCEPT !.status = s, !.recent = TRUE]
  <2>1. collectors[c] \in CollectorRow
    BY <1>2 DEF TypeOK, OrNull
  <2>2. Polled(c, s) = [collectors EXCEPT ![c] = row]
    BY <1>2, <2>1 DEF Polled, TypeOK, CollectorRow
  <2>3. row \in CollectorRow /\ row.category = collectors[c].category /\ row.status = s
    BY <2>1 DEF CollectorRow
  <2>. HIDE DEF row
  <2>. QED
    BY <2>1, <2>2, <2>3, <1>2, NullAssumption DEF TypeOK, OrNull
<1>. QED
  BY <1>1, <1>2

\* What a PATCH leaves alone, and that a category it changes is noted.
LEMMA UpdateFacts ==
  ASSUME TypeOK, NEW c \in CollectorIds, NEW s \in RowInputs, UpdateCollector(c, s)
  PROVE  /\ collectors' \in [CollectorIds -> OrNull(CollectorRow)]
         /\ moved \subseteq moved' /\ moved' \subseteq CollectorIds
         /\ \A d \in CollectorIds : collectors'[d] = NULL <=> collectors[d] = NULL
         /\ \A d \in CollectorIds \ moved' : collectors[d] # NULL =>
              /\ collectors'[d].category = collectors[d].category
              /\ collectors'[d].status = collectors[d].status
<1>. DEFINE row == [collectors[c] EXCEPT !.category = s.category, !.config = s.config,
                                         !.enabled = s.enabled]
<1>1. collectors[c] \in CollectorRow /\ collectors[c] # NULL /\ s \in Settings
  BY PollAssumption DEF UpdateCollector, TypeOK, OrNull
<1>2. row \in CollectorRow /\ row.category = s.category /\ row.status = collectors[c].status
  BY <1>1 DEF CollectorRow, Settings
<1>3. collectors' = [collectors EXCEPT ![c] = row]
  <2>1. collectors' = [collectors EXCEPT ![c].category = s.category,
                                         ![c].config = s.config,
                                         ![c].enabled = s.enabled]
    BY DEF UpdateCollector
  <2>2. collectors = [d \in CollectorIds |-> collectors[d]]
    BY DEF TypeOK
  <2>. QED
    BY <2>1, <2>2
<1>. HIDE DEF row
<1>4. moved' = IF s.category # collectors[c].category THEN moved \cup {c} ELSE moved
  BY DEF UpdateCollector
<1>. QED
  BY <1>1, <1>2, <1>3, <1>4, NullAssumption DEF TypeOK, OrNull

LEMMA IntervalFacts ==
  ASSUME TypeOK, NEW c \in CollectorIds, IntervalPasses(c)
  PROVE  /\ collectors' \in [CollectorIds -> OrNull(CollectorRow)]
         /\ \A d \in CollectorIds :
              /\ collectors'[d] = NULL <=> collectors[d] = NULL
              /\ collectors[d] # NULL =>
                   /\ collectors'[d].category = collectors[d].category
                   /\ collectors'[d].status = collectors[d].status
<1>. DEFINE row == [collectors[c] EXCEPT !.recent = FALSE]
<1>1. collectors[c] \in CollectorRow
  BY DEF IntervalPasses, TypeOK, OrNull
<1>2. /\ row \in CollectorRow
      /\ row.category = collectors[c].category /\ row.status = collectors[c].status
  BY <1>1 DEF CollectorRow
<1>3. collectors' = [collectors EXCEPT ![c] = row]
  BY <1>1 DEF IntervalPasses, CollectorRow
<1>. HIDE DEF row
<1>. QED
  BY <1>1, <1>2, <1>3, NullAssumption DEF TypeOK, OrNull

-----------------------------------------------------------------------------
(* The invariant holds at first, and every step keeps it.                  *)

LEMMA PairNotNull ==
  \A c \in CollectorIds, row \in CollectorRow : <<c, row>> # NULL
  BY NullAssumption

LEMMA InitInv == Init => IInv
<1>. SUFFICES ASSUME Init PROVE IInv
  OBVIOUS
<1>1. TypeOK
  BY PollAssumption DEF Init, TypeOK, NoneDue, OrNull, Stored, Versions
<1>2. EngineHolds /\ OnlyKnownPolled /\ CategoryKnown
  BY PairNotNull DEF Init, NoneDue, EngineHolds, OnlyKnownPolled, CategoryKnown
<1>3. OkMeansWhole
  BY DEF Init, NoneDue, OkMeansWhole, IsLive
<1>. QED
  BY <1>1, <1>2, <1>3 DEF IInv

\* A step that moves no category, creates and deletes nothing, and after which
\* nobody polls more than before.
LEMMA KnownKept ==
  ASSUME TypeOK, OnlyKnownPolled, CategoryKnown, UNCHANGED <<retired, moved>>,
         \A d \in CollectorIds :
           /\ collectors'[d] = NULL <=> collectors[d] = NULL
           /\ collectors[d] # NULL => collectors'[d].category = collectors[d].category
           /\ due'[d] \in {NULL, due[d]} /\ requests'[d] \in {NULL, requests[d]},
         current' \in {NULL, current}
  PROVE  OnlyKnownPolled' /\ CategoryKnown'
<1>1. OnlyKnownPolled'
  BY PairNotNull DEF OnlyKnownPolled, TypeOK
<1>2. CategoryKnown'
  BY PairNotNull DEF CategoryKnown
<1>. QED
  BY <1>1, <1>2

\* Whoever comes to be "ok" shows one poll, and the others' rows are as before.
LEMMA OkKept ==
  ASSUME OkMeansWhole, TypeOK, moved' = moved,
         \A d \in CollectorIds \ moved :
           (collectors'[d] # NULL /\ collectors'[d].status = "ok") =>
             \/ \E v \in Versions : \A t \in TablesOf(collectors'[d].category) :
                  store'[t][d] = Rows(v, TRUE)
             \/ /\ collectors[d] # NULL /\ collectors[d].status = "ok"
                /\ collectors'[d].category = collectors[d].category
                /\ \A t \in RawTables : store'[t][d] = store[t][d]
  PROVE  OkMeansWhole'
<1>. SUFFICES ASSUME NEW d \in CollectorIds \ moved,
                     collectors'[d] # NULL, collectors'[d].status = "ok",
                     collectors[d] # NULL, collectors[d].status = "ok",
                     collectors'[d].category = collectors[d].category,
                     \A t \in RawTables : store'[t][d] = store[t][d]
              PROVE  \E v \in Versions : \A t \in TablesOf(collectors[d].category) :
                       store'[t][d] = Rows(v, TRUE)
  BY DEF OkMeansWhole, IsLive
<1>1. PICK v \in Versions : \A t \in TablesOf(collectors[d].category) :
                               store[t][d] = Rows(v, TRUE)
  BY DEF OkMeansWhole, IsLive
<1>2. collectors[d].category \in Categories
  BY DEF TypeOK, OrNull, CollectorRow
<1>. QED
  BY <1>1, <1>2, TablesTyped

\* Marking one collector, with its rows or without: the common part of the steps
\* that end a poll.
LEMMA MarkKeeps ==
  ASSUME IInv, NEW c \in CollectorIds, NEW s \in {"ok", "error"},
         collectors' = Polled(c, s), UNCHANGED <<retired, moved>>,
         \A d \in CollectorIds :
           due'[d] \in {NULL, due[d]} /\ requests'[d] \in {NULL, requests[d]},
         current' \in {NULL, current},
         \A t \in RawTables, d \in CollectorIds \ {c} : store'[t][d] = store[t][d],
         (s = "ok" /\ c \notin moved /\ collectors[c] # NULL) =>
           \E v \in Versions : \A t \in TablesOf(collectors[c].category) :
             store'[t][c] = Rows(v, TRUE)
  PROVE  /\ collectors' \in [CollectorIds -> OrNull(CollectorRow)]
         /\ OnlyKnownPolled' /\ CategoryKnown' /\ OkMeansWhole'
<1>1. collectors' \in [CollectorIds -> OrNull(CollectorRow)]
  BY PolledTyped DEF IInv
<1>2. OnlyKnownPolled' /\ CategoryKnown'
  BY PolledTyped, KnownKept DEF IInv
<1>3. ASSUME NEW d \in CollectorIds \ moved, collectors'[d] # NULL, collectors'[d].status = "ok"
      PROVE  \/ \E v \in Versions : \A t \in TablesOf(collectors'[d].category) :
                  store'[t][d] = Rows(v, TRUE)
             \/ /\ collectors[d] # NULL /\ collectors[d].status = "ok"
                /\ collectors'[d].category = collectors[d].category
                /\ \A t \in RawTables : store'[t][d] = store[t][d]
  <2>1. CASE d = c
    <3>1. collectors[c] # NULL /\ s = "ok" /\ collectors'[c].category = collectors[c].category
      BY <1>3, <2>1, PolledTyped DEF IInv
    <3>. QED
      BY <3>1, <1>3, <2>1
  <2>2. CASE d # c
    <3>1. collectors'[d] = collectors[d]
      BY <2>2, PolledTyped DEF IInv
    <3>. QED
      BY <3>1, <1>3, <2>2
  <2>. QED
    BY <2>1, <2>2
<1>4. OkMeansWhole'
  BY <1>3, OkKept DEF IInv
<1>. QED
  BY <1>1, <1>2, <1>4

\* One step of any action keeps the invariant.
LEMMA StepKeepsInv == IInv /\ [Next]_vars => IInv'
<1>. SUFFICES ASSUME IInv, [Next]_vars PROVE IInv'
  OBVIOUS
<1>0. TypeOK /\ EngineHolds /\ OnlyKnownPolled /\ CategoryKnown /\ OkMeansWhole
  BY DEF IInv
<1>1. CASE FetchDue
  <2>1. TypeOK' /\ EngineHolds'
    BY <1>0, <1>1 DEF FetchDue, TypeOK, EngineHolds, IsDue, OrNull
  <2>2. OnlyKnownPolled' /\ CategoryKnown'
    BY <1>0, <1>1 DEF FetchDue, TypeOK, OnlyKnownPolled, CategoryKnown, IsDue
  <2>3. OkMeansWhole'
    BY <1>0, <1>1 DEF FetchDue, OkMeansWhole, IsLive
  <2>. QED
    BY <2>1, <2>2, <2>3 DEF IInv
<1>2. CASE TickEnds \/ (\E c \in CollectorIds : NextUnbuildable(c)) \/ Fail
  <2>1. /\ UNCHANGED <<collectors, retired, store, remote, moved>>
        /\ due' = due \/ due' = NoneDue
        /\ requests' = requests \/ requests' = NoneDue
        /\ pc' = "idle" /\ current' = NULL /\ result' = NULL /\ edits' \in 0..MaxEdits
    BY <1>0, <1>2, PollAssumption DEF TickEnds, NextUnbuildable, IsNext, Fail, Counted,
         EngineHolds, TypeOK
  <2>2. TypeOK' /\ EngineHolds'
    BY <1>0, <2>1 DEF TypeOK, EngineHolds, NoneDue, OrNull
  <2>3. OnlyKnownPolled' /\ CategoryKnown'
    BY <1>0, <2>1, KnownKept DEF NoneDue
  <2>4. OkMeansWhole'
    BY <1>0, <2>1 DEF OkMeansWhole, IsLive
  <2>. QED
    BY <2>2, <2>3, <2>4 DEF IInv
<1>3. ASSUME NEW c \in CollectorIds, NextPolled(c) PROVE IInv'
  <2>1. due[c] \in CollectorRow /\ current = NULL /\ result = NULL
    BY <1>0, <1>3 DEF NextPolled, IsNext, EngineHolds, TypeOK, OrNull
  <2>2. TypeOK' /\ EngineHolds'
    BY <1>0, <1>3, <2>1 DEF NextPolled, TypeOK, EngineHolds, OrNull
  <2>3. OnlyKnownPolled' /\ CategoryKnown'
    BY <1>0, <1>3, <2>1 DEF NextPolled, IsNext, OnlyKnownPolled, CategoryKnown, TypeOK
  <2>4. OkMeansWhole'
    BY <1>0, <1>3 DEF NextPolled, OkMeansWhole, IsLive
  <2>. QED
    BY <2>2, <2>3, <2>4 DEF IInv
<1>4. CASE PollAnswers
  <2>1. remote[current[1]] \in Versions
    BY <1>0, <1>4 DEF PollAnswers, EngineHolds, TypeOK
  <2>2. TypeOK' /\ EngineHolds'
    BY <1>0, <1>4, <2>1 DEF PollAnswers, TypeOK, EngineHolds, OrNull
  <2>3. OnlyKnownPolled' /\ CategoryKnown'
    BY <1>0, <1>4, KnownKept DEF PollAnswers
  <2>4. OkMeansWhole'
    BY <1>0, <1>4 DEF PollAnswers, OkMeansWhole, IsLive
  <2>. QED
    BY <2>2, <2>3, <2>4 DEF IInv
<1>5. CASE Persist \/ PersistPartly
  <2>1. PICK c \in CollectorIds, row \in CollectorRow : current = <<c, row>>
    BY <1>0, <1>5 DEF Persist, PersistPartly, EngineHolds
  <2>2. row.category \in Categories /\ result \in Versions
    BY <1>0, <1>5 DEF Persist, PersistPartly, EngineHolds, CollectorRow
  <2>3. PICK s \in {"ok", "error"} :
          /\ collectors' = Polled(c, s)
          /\ store' \in [RawTables -> [CollectorIds -> Stored]]
          /\ \A t \in RawTables, d \in CollectorIds \ {c} : store'[t][d] = store[t][d]
          /\ s = "ok" => \A t \in TablesOf(row.category) : store'[t][c] = Rows(result, TRUE)
          /\ UNCHANGED <<retired, remote, requests, moved>>
          /\ edits' \in 0..MaxEdits
    <3>1. CASE Persist
      <4>1. store' = PersistAll(c, row.category, result) /\ collectors' = Polled(c, "ok")
        BY <2>1, <3>1 DEF Persist
      <4>2. /\ store' \in [RawTables -> [CollectorIds -> Stored]]
            /\ \A t \in RawTables, d \in CollectorIds \ {c} : store'[t][d] = store[t][d]
            /\ \A t \in TablesOf(row.category) : store'[t][c] = Rows(result, TRUE)
        <5>. DEFINE new == PersistAll(c, row.category, result)
        <5>1. /\ new \in [RawTables -> [CollectorIds -> Stored]]
              /\ \A t \in RawTables, d \in CollectorIds \ {c} : new[t][d] = store[t][d]
          BY <1>0, <2>2, PersistAllTyped
        <5>2. \A t \in TablesOf(row.category) : new[t][c] = Rows(result, TRUE)
          BY <1>0, <2>2, PersistAllTyped
        <5>. QED
          BY <4>1, <5>1, <5>2
      <4>3. UNCHANGED <<retired, remote, requests, edits, moved>> /\ edits \in 0..MaxEdits
        BY <1>0, <3>1 DEF Persist, TypeOK
      <4>. QED
        BY <4>1, <4>2, <4>3
    <3>2. CASE PersistPartly
      <4>1. PICK i : store' = PersistUpTo(c, row.category, result, i)
        BY <2>1, <3>2 DEF PersistPartly
      <4>2. collectors' = Polled(c, "error")
        BY <2>1, <3>2 DEF PersistPartly
      <4>3. /\ store' \in [RawTables -> [CollectorIds -> Stored]]
            /\ \A t \in RawTables, d \in CollectorIds \ {c} : store'[t][d] = store[t][d]
        BY <4>1, <1>0, <2>2, PersistUpToTyped
      <4>4. UNCHANGED <<retired, remote, requests, moved>> /\ edits' \in 0..MaxEdits
        BY <1>0, <3>2, PollAssumption DEF PersistPartly, Counted, TypeOK
      <4>. QED
        BY <4>2, <4>3, <4>4
    <3>. QED
      BY <1>5, <3>1, <3>2
  <2>4. pc' = "next" /\ current' = NULL /\ result' = NULL /\ due' = due
    BY <1>5 DEF Persist, PersistPartly, Done
  <2>5. (c \notin moved /\ collectors[c] # NULL) => row.category = collectors[c].category
    BY <1>0, <2>1 DEF CategoryKnown
  <2>6. /\ collectors' \in [CollectorIds -> OrNull(CollectorRow)]
        /\ OnlyKnownPolled' /\ CategoryKnown' /\ OkMeansWhole'
    BY <2>2, <2>3, <2>4, <2>5, MarkKeeps
  <2>7. TypeOK' /\ EngineHolds'
    BY <1>0, <2>3, <2>4, <2>6 DEF TypeOK, EngineHolds, OrNull
  <2>. QED
    BY <2>6, <2>7 DEF IInv
<1>6. CASE PollFails
  <2>1. PICK c \in CollectorIds, row \in CollectorRow : current = <<c, row>>
    BY <1>0, <1>6 DEF PollFails, EngineHolds
  <2>2. /\ collectors' = Polled(c, "error")
        /\ pc' = "next" /\ current' = NULL /\ result' = NULL /\ due' = due
        /\ UNCHANGED <<retired, store, remote, requests, moved>> /\ edits' \in 0..MaxEdits
    BY <1>0, <1>6, <2>1, PollAssumption DEF PollFails, Done, Counted, TypeOK
  <2>3. /\ collectors' \in [CollectorIds -> OrNull(CollectorRow)]
        /\ OnlyKnownPolled' /\ CategoryKnown' /\ OkMeansWhole'
    BY <2>2, MarkKeeps
  <2>4. TypeOK' /\ EngineHolds'
    BY <1>0, <2>2, <2>3 DEF TypeOK, EngineHolds, OrNull
  <2>. QED
    BY <2>3, <2>4 DEF IInv
<1>7. ASSUME NEW c \in CollectorIds, NextUnresolved(c) PROVE IInv'
  <2>1. /\ collectors' = Polled(c, "error") /\ due' = [due EXCEPT ![c] = NULL]
        /\ UNCHANGED <<retired, store, remote, pc, current, result, requests, edits, moved>>
    BY <1>7 DEF NextUnresolved
  <2>2. due' \in [CollectorIds -> OrNull(CollectorRow)]
        /\ \A d \in CollectorIds : due'[d] \in {NULL, due[d]}
    BY <1>0, <2>1 DEF TypeOK, OrNull
  <2>3. /\ collectors' \in [CollectorIds -> OrNull(CollectorRow)]
        /\ OnlyKnownPolled' /\ CategoryKnown' /\ OkMeansWhole'
    BY <2>1, <2>2, MarkKeeps
  <2>4. TypeOK' /\ EngineHolds'
    BY <1>0, <2>1, <2>2, <2>3 DEF TypeOK, EngineHolds
  <2>. QED
    BY <2>3, <2>4 DEF IInv
<1>8. ASSUME NEW c \in CollectorIds, NowFails(c) \/ NowPersist(c) PROVE IInv'
  <2>1. requests[c] \in Request /\ requests[c].row.category \in Categories
    BY <1>0, <1>8 DEF NowFails, NowPersist, IsAsking, TypeOK, OrNull, Request, CollectorRow
  <2>2. PICK s \in {"ok", "error"} :
          /\ collectors' = Polled(c, s)
          /\ store' \in [RawTables -> [CollectorIds -> Stored]]
          /\ \A t \in RawTables, d \in CollectorIds \ {c} : store'[t][d] = store[t][d]
          /\ (s = "ok" /\ collectors[c] # NULL) =>
               \E v \in Versions : \A t \in TablesOf(requests[c].row.category) :
                 store'[t][c] = Rows(v, TRUE)
          /\ edits' \in 0..MaxEdits
    <3>1. CASE NowFails(c)
      <4>1. collectors' = Polled(c, "error") /\ store' = store /\ edits' \in 0..MaxEdits
        BY <1>0, <3>1, PollAssumption DEF NowFails, Counted, TypeOK
      <4>2. store \in [RawTables -> [CollectorIds -> Stored]]
        BY <1>0 DEF TypeOK
      <4>. QED
        BY <4>1, <4>2
    <3>2. CASE NowPersist(c)
      <4>1. requests[c].result \in Versions
        BY <2>1, <3>2 DEF NowPersist, Request, OrNull
      <4>2. collectors' = Polled(c, "ok") /\ edits' = edits
            /\ store' = IF collectors[c] = NULL THEN store
                        ELSE PersistAll(c, requests[c].row.category, requests[c].result)
        BY <3>2 DEF NowPersist
      <4>3. CASE collectors[c] = NULL
        BY <4>2, <4>3, <1>0 DEF TypeOK
      <4>4. CASE collectors[c] # NULL
        <5>1. /\ store' \in [RawTables -> [CollectorIds -> Stored]]
              /\ \A t \in RawTables, d \in CollectorIds \ {c} : store'[t][d] = store[t][d]
              /\ \A t \in TablesOf(requests[c].row.category) :
                   store'[t][c] = Rows(requests[c].result, TRUE)
          <6>. DEFINE new == PersistAll(c, requests[c].row.category, requests[c].result)
          <6>1. /\ new \in [RawTables -> [CollectorIds -> Stored]]
                /\ \A t \in RawTables, d \in CollectorIds \ {c} : new[t][d] = store[t][d]
            BY <4>1, <2>1, <1>0, PersistAllTyped
          <6>2. \A t \in TablesOf(requests[c].row.category) :
                  new[t][c] = Rows(requests[c].result, TRUE)
            BY <4>1, <2>1, <1>0, PersistAllTyped
          <6>. QED
            BY <4>2, <4>4, <6>1, <6>2
        <5>2. edits' \in 0..MaxEdits
          BY <4>2, <1>0 DEF TypeOK
        <5>. QED
          BY <4>1, <4>2, <5>1, <5>2
      <4>. QED
        BY <4>3, <4>4
    <3>. QED
      BY <1>8, <3>1, <3>2
  <2>3. /\ requests' = [requests EXCEPT ![c] = NULL]
        /\ UNCHANGED <<retired, remote, pc, due, current, result, moved>>
    BY <1>8 DEF NowFails, NowPersist, engine
  <2>4. /\ requests' \in [CollectorIds -> OrNull(Request)]
        /\ \A d \in CollectorIds : requests'[d] \in {NULL, requests[d]}
    BY <1>0, <2>3 DEF TypeOK, OrNull
  <2>5. (c \notin moved /\ collectors[c] # NULL) =>
          requests[c].row.category = collectors[c].category
    BY <1>0, <2>1, NullAssumption DEF CategoryKnown
  <2>8. (s = "ok" /\ c \notin moved /\ collectors[c] # NULL) =>
          \E v \in Versions : \A t \in TablesOf(collectors[c].category) :
            store'[t][c] = Rows(v, TRUE)
    BY <2>2, <2>5
  <2>6. /\ collectors' \in [CollectorIds -> OrNull(CollectorRow)]
        /\ OnlyKnownPolled' /\ CategoryKnown' /\ OkMeansWhole'
    BY <2>2, <2>3, <2>4, <2>8, MarkKeeps
  <2>7. TypeOK' /\ EngineHolds'
    BY <1>0, <2>2, <2>3, <2>4, <2>6 DEF TypeOK, EngineHolds
  <2>. QED
    BY <2>6, <2>7 DEF IInv
<1>9. ASSUME NEW c \in CollectorIds, PollNow(c) PROVE IInv'
  <2>1. collectors[c] \in CollectorRow /\ edits' \in 0..MaxEdits
    BY <1>0, <1>9, PollAssumption DEF PollNow, TypeOK, OrNull, Counted
  <2>2. [row |-> collectors[c], result |-> NULL] \in Request
    BY <2>1 DEF Request, OrNull
  <2>3. TypeOK' /\ EngineHolds'
    BY <1>0, <1>9, <2>1, <2>2 DEF PollNow, engine, TypeOK, EngineHolds, OrNull
  <2>4. OnlyKnownPolled' /\ CategoryKnown'
    BY <1>0, <1>9, <2>1 DEF PollNow, engine, OnlyKnownPolled, CategoryKnown, TypeOK
  <2>5. OkMeansWhole'
    BY <1>0, <1>9 DEF PollNow, OkMeansWhole, IsLive
  <2>. QED
    BY <2>3, <2>4, <2>5 DEF IInv
<1>10. ASSUME NEW c \in CollectorIds, NowAnswers(c) PROVE IInv'
  <2>. DEFINE asked == [requests[c] EXCEPT !.result = remote[c]]
  <2>1. requests[c] \in Request
    BY <1>0, <1>10 DEF NowAnswers, IsAsking, TypeOK, OrNull
  <2>2. asked \in Request /\ asked.row = requests[c].row
    BY <1>0, <2>1 DEF Request, OrNull, TypeOK
  <2>3. requests' = [requests EXCEPT ![c] = asked]
        /\ UNCHANGED <<collectors, retired, store, remote, engine, edits, moved>>
    BY <1>10, <2>1 DEF NowAnswers, Request
  <2>. HIDE DEF asked
  <2>4. TypeOK' /\ EngineHolds'
    BY <1>0, <2>2, <2>3 DEF engine, TypeOK, EngineHolds, OrNull
  <2>5. requests[c] # NULL
    BY <2>1, NullAssumption
  <2>6. OnlyKnownPolled' /\ CategoryKnown'
    BY <1>0, <2>2, <2>3, <2>5 DEF engine, OnlyKnownPolled, CategoryKnown, TypeOK
  <2>7. OkMeansWhole'
    BY <1>0, <2>3 DEF OkMeansWhole, IsLive
  <2>. QED
    BY <2>4, <2>6, <2>7 DEF IInv
<1>11. ASSUME NEW c \in CollectorIds, NowDropped(c) PROVE IInv'
  <2>1. /\ requests' = [requests EXCEPT ![c] = NULL] /\ edits' \in 0..MaxEdits
        /\ UNCHANGED <<collectors, retired, store, remote, engine, moved>>
    BY <1>0, <1>11, PollAssumption DEF NowDropped, Counted, TypeOK
  <2>2. TypeOK' /\ EngineHolds'
    BY <1>0, <2>1 DEF engine, TypeOK, EngineHolds, OrNull
  <2>3. OnlyKnownPolled' /\ CategoryKnown'
    BY <1>0, <2>1, KnownKept DEF engine, TypeOK
  <2>4. OkMeansWhole'
    BY <1>0, <2>1 DEF OkMeansWhole, IsLive
  <2>. QED
    BY <2>2, <2>3, <2>4 DEF IInv
<1>12. ASSUME NEW c \in CollectorIds, RemoteChanges(c) PROVE IInv'
  <2>1. /\ remote' = [remote EXCEPT ![c] = remote[c] + 1] /\ remote[c] + 1 \in Versions
        /\ UNCHANGED <<collectors, retired, store, engine, requests, edits, moved>>
    BY <1>0, <1>12, PollAssumption DEF RemoteChanges, TypeOK, Versions
  <2>2. TypeOK' /\ EngineHolds'
    BY <1>0, <2>1 DEF engine, TypeOK, EngineHolds
  <2>3. OnlyKnownPolled' /\ CategoryKnown' /\ OkMeansWhole'
    BY <1>0, <2>1 DEF engine, OnlyKnownPolled, CategoryKnown, OkMeansWhole, IsLive
  <2>. QED
    BY <2>2, <2>3 DEF IInv
<1>13. ASSUME NEW c \in CollectorIds, IntervalPasses(c) PROVE IInv'
  <2>1. UNCHANGED <<retired, store, remote, engine, requests, edits, moved>>
    BY <1>13 DEF IntervalPasses
  <2>2. TypeOK' /\ EngineHolds'
    BY <1>0, <1>13, <2>1, IntervalFacts DEF engine, TypeOK, EngineHolds
  <2>3. OnlyKnownPolled' /\ CategoryKnown'
    BY <1>0, <1>13, <2>1, IntervalFacts, KnownKept DEF engine
  <2>4. OkMeansWhole'
    BY <1>0, <1>13, <2>1, IntervalFacts, OkKept
  <2>. QED
    BY <2>2, <2>3, <2>4 DEF IInv
<1>14. ASSUME NEW c \in CollectorIds, NEW s \in RowInputs, CreateCollector(c, s) PROVE IInv'
  <2>. DEFINE row == [category |-> s.category, config |-> s.config, enabled |-> s.enabled,
                      status |-> "unknown", recent |-> FALSE]
  <2>1. row \in CollectorRow /\ row.status # "ok"
    BY PollAssumption DEF CollectorRow, Settings
  <2>2. /\ collectors[c] = NULL /\ c \notin retired /\ edits' \in 0..MaxEdits
        /\ collectors' = [collectors EXCEPT ![c] = row]
        /\ UNCHANGED <<retired, store, remote, engine, requests, moved>>
    BY <1>0, <1>14, PollAssumption DEF CreateCollector, Counted, TypeOK
  <2>. HIDE DEF row
  <2>3. TypeOK' /\ EngineHolds'
    BY <1>0, <2>1, <2>2 DEF engine, TypeOK, EngineHolds, OrNull
  <2>4. OnlyKnownPolled' /\ CategoryKnown'
    BY <1>0, <2>1, <2>2, NullAssumption DEF engine, OnlyKnownPolled, CategoryKnown, TypeOK
  <2>5. OkMeansWhole'
    BY <1>0, <2>1, <2>2 DEF OkMeansWhole, IsLive, TypeOK
  <2>. QED
    BY <2>3, <2>4, <2>5 DEF IInv
<1>15. ASSUME NEW c \in CollectorIds, NEW s \in RowInputs, UpdateCollector(c, s) PROVE IInv'
  <2>1. UNCHANGED <<retired, store, remote, engine, requests>>
    BY <1>15 DEF UpdateCollector
  <2>2. edits' \in 0..MaxEdits
    BY <1>0, <1>15, PollAssumption DEF UpdateCollector, Counted, TypeOK
  <2>3. TypeOK' /\ EngineHolds'
    BY <1>0, <1>15, <2>1, <2>2, UpdateFacts DEF engine, TypeOK, EngineHolds
  <2>4. OnlyKnownPolled' /\ CategoryKnown'
    BY <1>0, <1>15, <2>1, UpdateFacts DEF engine, OnlyKnownPolled, CategoryKnown, TypeOK
  <2>5. OkMeansWhole'
    <3>. SUFFICES ASSUME NEW d \in CollectorIds \ moved', collectors'[d] # NULL,
                         collectors'[d].status = "ok"
                  PROVE  \E v \in Versions : \A t \in TablesOf(collectors'[d].category) :
                           store'[t][d] = Rows(v, TRUE)
      BY DEF OkMeansWhole, IsLive
    <3>1. /\ d \notin moved /\ collectors[d] # NULL /\ collectors[d].status = "ok"
          /\ collectors'[d].category = collectors[d].category
      BY <1>0, <1>15, UpdateFacts
    <3>. QED
      BY <1>0, <2>1, <3>1 DEF OkMeansWhole, IsLive
  <2>. QED
    BY <2>3, <2>4, <2>5 DEF IInv
<1>16. ASSUME NEW c \in CollectorIds, DeleteCollector(c) PROVE IInv'
  <2>1. /\ collectors' = [collectors EXCEPT ![c] = NULL] /\ edits' \in 0..MaxEdits
        /\ retired' = retired \cup {c}
        /\ store' = [t \in RawTables |-> [store[t] EXCEPT ![c] = NULL]]
        /\ UNCHANGED <<remote, engine, requests, moved>>
    BY <1>0, <1>16, PollAssumption DEF DeleteCollector, Counted, TypeOK
  <2>2. /\ store' \in [RawTables -> [CollectorIds -> Stored]]
        /\ \A t \in RawTables, d \in CollectorIds \ {c} : store'[t][d] = store[t][d]
    BY <1>0, <2>1 DEF TypeOK, Stored
  <2>3. TypeOK' /\ EngineHolds'
    BY <1>0, <2>1, <2>2 DEF engine, TypeOK, EngineHolds, OrNull
  <2>4. OnlyKnownPolled' /\ CategoryKnown'
    BY <1>0, <2>1 DEF engine, OnlyKnownPolled, CategoryKnown, TypeOK
  <2>5. OkMeansWhole'
    BY <1>0, <2>1, <2>2, OkKept DEF TypeOK
  <2>. QED
    BY <2>3, <2>4, <2>5 DEF IInv
<1>17. CASE UNCHANGED vars
  <2>1. TypeOK' /\ EngineHolds'
    BY <1>0, <1>17 DEF vars, engine, TypeOK, EngineHolds
  <2>2. OnlyKnownPolled' /\ CategoryKnown' /\ OkMeansWhole'
    BY <1>0, <1>17 DEF vars, engine, OnlyKnownPolled, CategoryKnown, OkMeansWhole, IsLive
  <2>. QED
    BY <2>1, <2>2 DEF IInv
<1>. QED
  BY <1>1, <1>2, <1>3, <1>4, <1>5, <1>6, <1>7, <1>8, <1>9, <1>10, <1>11, <1>12, <1>13,
     <1>14, <1>15, <1>16, <1>17
  DEF Next, Engine, Requests, Users, Failures, Time

\* Types, and that a collector in order has the rows of one whole poll in all of
\* its tables, in every behaviour.
THEOREM Invariant == Spec => []Inv
<1>1. IInv => Inv
  BY DEF IInv, Inv
<1>. QED
  BY InitInv, StepKeepsInv, <1>1, PTL DEF Spec

-----------------------------------------------------------------------------
(* The engine, the requests and the users together implement Snapshots.    *)

\* What the refinement shows: the version of the rows of a collector in order.
ShownFacts ==
  \A c \in CollectorIds :
    /\ ~InOrder(c) => Shown(c) = NULL
    /\ InOrder(c) => /\ Shown(c) \in Versions
                     /\ \A v \in Versions : IsWhole(c, v) <=> v = Shown(c)

LEMMA ShownIsWhole == IInv => ShownFacts
<1>. SUFFICES ASSUME IInv, NEW c \in CollectorIds, InOrder(c)
              PROVE  /\ Shown(c) \in Versions
                     /\ \A v \in Versions : IsWhole(c, v) <=> v = Shown(c)
  BY DEF ShownFacts, Shown
<1>1. \E v \in Versions : IsWhole(c, v)
  BY DEF IInv, OkMeansWhole, InOrder, IsWhole
<1>2. Shown(c) \in Versions /\ IsWhole(c, Shown(c))
  BY <1>1 DEF Shown
<1>3. PICK t \in TablesOf(collectors[c].category) : TRUE
  BY TablesTyped DEF IInv, TypeOK, OrNull, CollectorRow, InOrder, IsLive
<1>4. ASSUME NEW v \in Versions, IsWhole(c, v) PROVE v = Shown(c)
  BY <1>2, <1>3, <1>4 DEF IsWhole, Rows
<1>. QED
  BY <1>2, <1>4

LEMMA VersionsAreVersions == NULL \notin Versions /\ NoVersion \notin Versions /\ NoVersion # NULL
  BY NullAssumption, PollAssumption DEF Versions, NoVersion

PollFacts ==
  \A c \in CollectorIds :
    /\ EnginePoll(c) \in Versions \cup {NULL, NoVersion}
    /\ RequestPoll(c) \in Versions \cup {NULL, NoVersion}

LEMMA PollsTyped == IInv => PollFacts
<1>. SUFFICES ASSUME IInv, NEW c \in CollectorIds
              PROVE  /\ EnginePoll(c) \in Versions \cup {NULL, NoVersion}
                     /\ RequestPoll(c) \in Versions \cup {NULL, NoVersion}
  BY DEF PollFacts
<1>1. requests[c] # NULL => requests[c].result \in Versions \cup {NULL}
  BY DEF IInv, TypeOK, OrNull, Request
<1>. QED
  BY <1>1 DEF IInv, TypeOK, OrNull, EnginePoll, RequestPoll

\* A collector whose status, category and rows a step leaves alone.
Untouched(c) ==
  /\ InOrder(c)' => InOrder(c)
  /\ InOrder(c)' => /\ collectors'[c].category = collectors[c].category
                    /\ \A t \in RawTables : store'[t][c] = store[t][c]

LEMMA ShownKept ==
  ASSUME IInv, IInv', NEW c \in CollectorIds, Untouched(c)
  PROVE  /\ Shown(c)' \in {NULL, Shown(c)}
         /\ InOrder(c)' = InOrder(c) => Shown(c)' = Shown(c)
<1>1. ShownFacts /\ ShownFacts'
  BY ShownIsWhole, PTL
<1>2. CASE InOrder(c)'
  <2>1. TablesOf(collectors[c].category) \subseteq RawTables
    BY <1>2, TablesTyped
    DEF Untouched, IInv, TypeOK, OrNull, CollectorRow, InOrder, IsLive
  <2>2. InOrder(c) /\ collectors'[c].category = collectors[c].category
        /\ \A t \in RawTables : store'[t][c] = store[t][c]
    BY <1>2 DEF Untouched
  <2>3. \A v \in Versions : IsWhole(c, v)' <=> IsWhole(c, v)
    BY <2>1, <2>2 DEF IsWhole
  <2>4. Shown(c) \in Versions /\ \A v \in Versions : IsWhole(c, v) <=> v = Shown(c)
    BY <1>1, <2>2 DEF ShownFacts
  <2>5. \A v \in Versions : IsWhole(c, v)' <=> v = Shown(c)'
    BY <1>1, <1>2 DEF ShownFacts
  <2>. QED
    BY <1>2, <2>2, <2>3, <2>4, <2>5
<1>3. CASE ~InOrder(c)'
  BY <1>1, <1>3 DEF ShownFacts
<1>. QED
  BY <1>2, <1>3

\* A step in which polls end at most, and nothing new is shown.
LEMMA QuietStep ==
  ASSUME IInv, IInv', UNCHANGED remote,
         current' = NULL \/ UNCHANGED <<current, result>>,
         \A c \in CollectorIds : requests'[c] \in {NULL, requests[c]} /\ Untouched(c)
  PROVE  Abstract!Drop
<1>1. ASSUME NEW c \in CollectorIds PROVE EnginePoll(c)' \in {NULL, EnginePoll(c)}
  BY DEF EnginePoll
<1>2. ASSUME NEW c \in CollectorIds PROVE RequestPoll(c)' \in {NULL, RequestPoll(c)}
  BY DEF RequestPoll
<1>3. ASSUME NEW c \in CollectorIds PROVE Shown(c)' \in {NULL, Shown(c)}
  BY ShownKept
<1>4. ASSUME NEW c \in CollectorIds PROVE Shown(c)' \in Versions \cup {NULL}
  <2>1. ShownFacts'
    BY ShownIsWhole, PTL
  <2>. QED
    BY <2>1 DEF ShownFacts
<1>5. PollFacts'
  BY PollsTyped, PTL
<1>. QED
  BY <1>1, <1>2, <1>3, <1>4, <1>5 DEF Abstract!Drop, PollFacts

LEMMA SameTables ==
  ASSUME IInv, IInv', UNCHANGED <<collectors, store, moved>>
  PROVE  \A c \in CollectorIds : Untouched(c) /\ Shown(c)' = Shown(c)
<1>1. \A c \in CollectorIds : Untouched(c) /\ InOrder(c)' = InOrder(c)
  BY DEF Untouched, InOrder, IsLive
<1>. QED
  BY <1>1, ShownKept

\* Marking a collector and replacing its rows leaves the others' alone, and what
\* it shows itself is the poll it ends, or nothing.
LEMMA MarkedShown ==
  ASSUME IInv, IInv', NEW c \in CollectorIds, NEW s \in {"ok", "error"},
         collectors' = Polled(c, s), UNCHANGED moved,
         \A t \in RawTables, d \in CollectorIds \ {c} : store'[t][d] = store[t][d]
  PROVE  /\ \A d \in CollectorIds \ {c} : Untouched(d) /\ Shown(d)' = Shown(d)
         /\ (s = "error" \/ collectors[c] = NULL \/ c \in moved) => Untouched(c)
<1>1. \A d \in CollectorIds \ {c} : collectors'[d] = collectors[d]
  BY PolledTyped DEF IInv
<1>2. \A d \in CollectorIds \ {c} : Untouched(d) /\ InOrder(d)' = InOrder(d)
  BY <1>1 DEF Untouched, InOrder, IsLive
<1>3. (s = "error" \/ collectors[c] = NULL \/ c \in moved) => ~InOrder(c)'
  BY PolledTyped DEF IInv, InOrder, IsLive
<1>. QED
  BY <1>2, <1>3, ShownKept DEF Untouched

\* A poll that ends with all of its rows is one Show, if its collector is there
\* and its category was not changed.
LEMMA WholeShown ==
  ASSUME IInv, IInv', NEW c \in CollectorIds, NEW v \in Versions,
         collectors' = Polled(c, "ok"), UNCHANGED moved, c \notin moved, IsLive(c),
         \A t \in RawTables, d \in CollectorIds \ {c} : store'[t][d] = store[t][d],
         \A t \in TablesOf(collectors[c].category) : store'[t][c] = Rows(v, TRUE)
  PROVE  /\ Shown(c)' = v
         /\ \A d \in CollectorIds \ {c} : Shown(d)' = Shown(d)
<1>1. ShownFacts'
  BY ShownIsWhole, PTL
<1>2. InOrder(c)' /\ collectors'[c].category = collectors[c].category
  BY PolledTyped DEF IInv, InOrder, IsLive
<1>3. IsWhole(c, v)'
  BY <1>2 DEF IsWhole
<1>. QED
  BY <1>1, <1>2, <1>3, MarkedShown DEF ShownFacts

LEMMA EngineStepImplements ==
  ASSUME IInv, IInv', Engine
  PROVE  [Abstract!Next]_(Abstract!vars)
<1>0. TypeOK /\ EngineHolds /\ CategoryKnown
  BY DEF IInv
<1>1. CASE FetchDue \/ TickEnds \/ \E c \in CollectorIds : NextUnbuildable(c)
  <2>1. UNCHANGED <<collectors, store, moved, remote, current, result, requests>>
    BY <1>1 DEF FetchDue, TickEnds, NextUnbuildable
  <2>2. Abstract!Drop
    BY <2>1, QuietStep, SameTables
  <2>. QED
    BY <2>2 DEF Abstract!Next
<1>2. ASSUME NEW c \in CollectorIds, NextUnresolved(c) PROVE Abstract!Next
  <2>1. UNCHANGED <<store, moved, remote, current, result, requests>>
        /\ collectors' = Polled(c, "error")
    BY <1>2 DEF NextUnresolved
  <2>2. Abstract!Drop
    BY <2>1, QuietStep, MarkedShown
  <2>. QED
    BY <2>2 DEF Abstract!Next
<1>3. ASSUME NEW c \in CollectorIds, NextPolled(c) PROVE Abstract!Next
  <2>1. current = NULL /\ current' = <<c, due[c]>> /\ due[c] \in CollectorRow
        /\ result = NULL /\ result' = NULL
    BY <1>0, <1>3 DEF NextPolled, IsNext, EngineHolds, TypeOK, OrNull
  <2>2. UNCHANGED <<collectors, store, moved, remote, requests>>
    BY <1>3 DEF NextPolled
  <2>3. \A d \in CollectorIds : Shown(d)' = Shown(d)
    BY <2>2, SameTables
  <2>4. \A d \in CollectorIds :
          /\ EnginePoll(d) = NULL /\ EnginePoll(d)' = (IF d = c THEN NoVersion ELSE NULL)
          /\ RequestPoll(d)' = RequestPoll(d)
    BY <2>1, <2>2, PairNotNull DEF EnginePoll, RequestPoll
  <2>5. Abstract!Open(c, "engine")
    BY <2>2, <2>3, <2>4 DEF Abstract!Open
  <2>. QED
    BY <2>5 DEF Abstract!Next
<1>4. ASSUME PollAnswers PROVE Abstract!Next
  <2>1. PICK c \in CollectorIds, row \in CollectorRow : current = <<c, row>>
    BY <1>0, <1>4 DEF PollAnswers, EngineHolds
  <2>2. /\ UNCHANGED <<collectors, store, moved, remote, requests, current>>
        /\ result = NULL /\ result' = remote[c] /\ remote[c] # NULL
    BY <1>0, <1>4, <2>1, VersionsAreVersions DEF PollAnswers, EngineHolds, TypeOK
  <2>3. \A d \in CollectorIds : Shown(d)' = Shown(d)
    BY <2>2, SameTables
  <2>4. \A d \in CollectorIds :
          /\ EnginePoll(d) = (IF d = c THEN NoVersion ELSE NULL)
          /\ EnginePoll(d)' = (IF d = c THEN remote[c] ELSE NULL)
          /\ RequestPoll(d)' = RequestPoll(d)
    BY <2>1, <2>2, PairNotNull DEF EnginePoll, RequestPoll
  <2>5. Abstract!Answer(c, "engine")
    BY <2>2, <2>3, <2>4 DEF Abstract!Answer
  <2>. QED
    BY <2>5 DEF Abstract!Next
<1>5. ASSUME Persist PROVE Abstract!Next
  <2>1. PICK c \in CollectorIds, row \in CollectorRow : current = <<c, row>>
    BY <1>0, <1>5 DEF Persist, EngineHolds
  <2>2. row.category \in Categories /\ result \in Versions /\ result # NULL
    BY <1>0, <1>5, VersionsAreVersions DEF Persist, EngineHolds, CollectorRow
  <2>3. /\ store' = PersistAll(c, row.category, result)
        /\ collectors' = Polled(c, "ok")
        /\ UNCHANGED <<moved, remote, requests>> /\ current' = NULL
    BY <1>5, <2>1 DEF Persist, Done
  <2>4. /\ \A t \in TablesOf(row.category) : store'[t][c] = Rows(result, TRUE)
        /\ \A t \in RawTables, d \in CollectorIds \ {c} : store'[t][d] = store[t][d]
    <3>. DEFINE new == PersistAll(c, row.category, result)
    <3>1. /\ \A t \in TablesOf(row.category) : new[t][c] = Rows(result, TRUE)
          /\ \A t \in RawTables, d \in CollectorIds \ {c} : new[t][d] = store[t][d]
      BY <1>0, <2>2, PersistAllTyped
    <3>. QED
      BY <2>3, <3>1
  <2>5. CASE collectors[c] = NULL \/ c \in moved
    <3>1. Abstract!Drop
      BY <2>3, <2>4, <2>5, QuietStep, MarkedShown
    <3>. QED
      BY <3>1 DEF Abstract!Next
  <2>6. CASE IsLive(c) /\ c \notin moved
    <3>1. row.category = collectors[c].category
      BY <1>0, <2>1, <2>6 DEF CategoryKnown, IsLive
    <3>2. Shown(c)' = result /\ \A d \in CollectorIds \ {c} : Shown(d)' = Shown(d)
      BY <2>2, <2>3, <2>4, <2>6, <3>1, WholeShown
    <3>3. \A d \in CollectorIds :
            /\ EnginePoll(d) = (IF d = c THEN result ELSE NULL) /\ EnginePoll(d)' = NULL
            /\ RequestPoll(d)' = RequestPoll(d)
      BY <2>1, <2>2, <2>3, PairNotNull DEF EnginePoll, RequestPoll
    <3>4. Abstract!Show(c, "engine")
      BY <2>2, <2>3, <3>2, <3>3 DEF Abstract!Show
    <3>. QED
      BY <3>4 DEF Abstract!Next
  <2>. QED
    BY <2>5, <2>6 DEF IsLive
<1>. QED
  BY <1>1, <1>2, <1>3, <1>4, <1>5 DEF Engine

LEMMA RequestStepImplements ==
  ASSUME IInv, IInv', NEW c \in CollectorIds, NowAnswers(c) \/ NowPersist(c) \/ PollNow(c)
  PROVE  [Abstract!Next]_(Abstract!vars)
<1>0. TypeOK /\ CategoryKnown
  BY DEF IInv
<1>1. ASSUME PollNow(c) PROVE Abstract!Next
  <2>1. /\ UNCHANGED <<collectors, store, moved, remote, current, result>>
        /\ collectors[c] \in CollectorRow /\ requests[c] = NULL
        /\ requests' = [requests EXCEPT ![c] = [row |-> collectors[c], result |-> NULL]]
    BY <1>0, <1>1 DEF PollNow, engine, TypeOK, OrNull
  <2>2. /\ requests'[c] # NULL /\ requests'[c].result = NULL
        /\ \A d \in CollectorIds \ {c} : requests'[d] = requests[d]
    BY <1>0, <2>1, NullAssumption DEF TypeOK, OrNull, Request
  <2>3. \A d \in CollectorIds : Shown(d)' = Shown(d)
    BY <2>1, SameTables
  <2>4. \A d \in CollectorIds :
          /\ EnginePoll(d)' = EnginePoll(d)
          /\ d # c => RequestPoll(d)' = RequestPoll(d)
    BY <2>1, <2>2 DEF EnginePoll, RequestPoll
  <2>5. RequestPoll(c) = NULL /\ RequestPoll(c)' = NoVersion
    BY <2>1, <2>2 DEF RequestPoll
  <2>6. Abstract!Open(c, "request")
    BY <2>1, <2>3, <2>4, <2>5 DEF Abstract!Open
  <2>. QED
    BY <2>6 DEF Abstract!Next
<1>2. ASSUME NowAnswers(c) PROVE Abstract!Next
  <2>1. /\ UNCHANGED <<collectors, store, moved, remote, current, result>>
        /\ requests[c] # NULL /\ requests[c].result = NULL
        /\ requests' = [requests EXCEPT ![c].result = remote[c]]
    BY <1>2 DEF NowAnswers, IsAsking, engine
  <2>2. requests[c] \in Request /\ remote[c] \in Versions /\ remote[c] # NULL
    BY <1>0, <2>1, VersionsAreVersions DEF TypeOK, OrNull
  <2>3. /\ requests'[c] \in Request /\ requests'[c].result = remote[c]
        /\ \A d \in CollectorIds \ {c} : requests'[d] = requests[d]
    BY <1>0, <2>1, <2>2 DEF TypeOK, OrNull, Request
  <2>4. requests'[c] # NULL
    BY <2>3, NullAssumption
  <2>5. \A d \in CollectorIds : Shown(d)' = Shown(d)
    BY <2>1, SameTables
  <2>6. \A d \in CollectorIds :
          /\ EnginePoll(d)' = EnginePoll(d)
          /\ d # c => RequestPoll(d)' = RequestPoll(d)
    BY <2>1, <2>3 DEF EnginePoll, RequestPoll
  <2>7. RequestPoll(c) = NoVersion /\ RequestPoll(c)' = remote[c]
    BY <2>1, <2>2, <2>3, <2>4 DEF RequestPoll
  <2>8. Abstract!Answer(c, "request")
    BY <2>1, <2>5, <2>6, <2>7 DEF Abstract!Answer
  <2>. QED
    BY <2>8 DEF Abstract!Next
<1>3. ASSUME NowPersist(c) PROVE Abstract!Next
  <2>1. /\ UNCHANGED <<moved, remote, current, result>> /\ collectors' = Polled(c, "ok")
        /\ requests[c] # NULL /\ requests[c].result # NULL
        /\ requests' = [requests EXCEPT ![c] = NULL]
    BY <1>3 DEF NowPersist, engine
  <2>2. requests[c].row.category \in Categories /\ requests[c].result \in Versions
    BY <1>0, <2>1 DEF TypeOK, OrNull, Request, CollectorRow
  <2>3. /\ requests'[c] = NULL
        /\ \A d \in CollectorIds \ {c} : requests'[d] = requests[d]
    BY <1>0, <2>1 DEF TypeOK
  <2>. DEFINE new == PersistAll(c, requests[c].row.category, requests[c].result)
  <2>4. /\ \A t \in RawTables, d \in CollectorIds \ {c} : new[t][d] = store[t][d]
        /\ \A t \in TablesOf(requests[c].row.category) :
             new[t][c] = Rows(requests[c].result, TRUE)
    BY <1>0, <2>2, PersistAllTyped
  <2>5. store' = IF collectors[c] = NULL THEN store ELSE new
    BY <1>3 DEF NowPersist
  <2>. HIDE DEF new
  <2>6. \A t \in RawTables, d \in CollectorIds \ {c} : store'[t][d] = store[t][d]
    BY <2>4, <2>5
  <2>7. CASE collectors[c] = NULL \/ c \in moved
    <3>1. Abstract!Drop
      BY <2>1, <2>3, <2>6, <2>7, QuietStep, MarkedShown
    <3>. QED
      BY <3>1 DEF Abstract!Next
  <2>8. CASE IsLive(c) /\ c \notin moved
    <3>1. requests[c].row.category = collectors[c].category
      BY <1>0, <2>1, <2>8 DEF CategoryKnown, IsLive
    <3>2. \A t \in TablesOf(collectors[c].category) :
            store'[t][c] = Rows(requests[c].result, TRUE)
      BY <2>4, <2>5, <2>8, <3>1 DEF IsLive
    <3>3. /\ Shown(c)' = requests[c].result
          /\ \A d \in CollectorIds \ {c} : Shown(d)' = Shown(d)
      BY <2>1, <2>2, <2>6, <2>8, <3>2, WholeShown
    <3>4. \A d \in CollectorIds :
            /\ EnginePoll(d)' = EnginePoll(d)
            /\ d # c => RequestPoll(d)' = RequestPoll(d)
      BY <2>1, <2>3 DEF EnginePoll, RequestPoll
    <3>5. RequestPoll(c) = requests[c].result /\ RequestPoll(c)' = NULL
      BY <2>1, <2>3 DEF RequestPoll
    <3>6. Abstract!Show(c, "request")
      BY <2>1, <2>2, <3>3, <3>4, <3>5 DEF Abstract!Show
    <3>. QED
      BY <3>6 DEF Abstract!Next
  <2>. QED
    BY <2>7, <2>8 DEF IsLive
<1>. QED
  BY <1>1, <1>2, <1>3

\* What users and failures do ends polls and puts collectors out of order; that
\* time passes is not seen.
LEMMA FailureImplements ==
  ASSUME IInv, IInv', PollFails \/ PersistPartly \/ Fail
  PROVE  Abstract!Drop
<1>0. TypeOK /\ EngineHolds
  BY DEF IInv
<1>1. CASE PollFails \/ PersistPartly
  <2>1. PICK d \in CollectorIds, row \in CollectorRow : current = <<d, row>>
    BY <1>0, <1>1 DEF PollFails, PersistPartly, EngineHolds
  <2>2. /\ collectors' = Polled(d, "error") /\ current' = NULL
        /\ UNCHANGED <<moved, remote, requests>>
    BY <1>1, <2>1 DEF PollFails, PersistPartly, Done
  <2>3. CASE PollFails
    BY <2>2, <2>3, MarkedShown, QuietStep DEF PollFails
  <2>4. CASE PersistPartly
    <3>1. row.category \in Categories /\ result \in Versions
      BY <1>0, <2>4 DEF PersistPartly, EngineHolds, CollectorRow
    <3>2. PICK i : store' = PersistUpTo(d, row.category, result, i)
      BY <2>1, <2>4 DEF PersistPartly
    <3>3. \A t \in RawTables, e \in CollectorIds \ {d} :
            PersistUpTo(d, row.category, result, i)[t][e] = store[t][e]
      BY <1>0, <3>1, PersistUpToTyped
    <3>. QED
      BY <2>2, <3>2, <3>3, MarkedShown, QuietStep
  <2>. QED
    BY <1>1, <2>3, <2>4
<1>2. CASE Fail
  <2>1. /\ UNCHANGED <<collectors, store, moved, remote>> /\ current' = NULL
        /\ \A d \in CollectorIds : requests'[d] \in {NULL, requests[d]}
    BY <1>2 DEF Fail, NoneDue
  <2>. QED
    BY <2>1, SameTables, QuietStep
<1>. QED
  BY <1>1, <1>2

LEMMA UserStepImplements ==
  ASSUME IInv, IInv', NEW c \in CollectorIds,
         \/ NowFails(c) \/ NowDropped(c) \/ IntervalPasses(c) \/ DeleteCollector(c)
         \/ \E s \in RowInputs : CreateCollector(c, s) \/ UpdateCollector(c, s)
  PROVE  Abstract!Drop
<1>0. TypeOK
  BY DEF IInv
<1>1. CASE NowFails(c)
  <2>1. /\ collectors' = Polled(c, "error")
        /\ UNCHANGED <<store, moved, remote, current, result>>
        /\ \A d \in CollectorIds : requests'[d] \in {NULL, requests[d]}
    BY <1>0, <1>1 DEF NowFails, engine, TypeOK
  <2>. QED
    BY <2>1, MarkedShown, QuietStep
<1>2. CASE NowDropped(c)
  <2>1. /\ UNCHANGED <<collectors, store, moved, remote, current, result>>
        /\ \A d \in CollectorIds : requests'[d] \in {NULL, requests[d]}
    BY <1>0, <1>2 DEF NowDropped, engine, TypeOK
  <2>. QED
    BY <2>1, SameTables, QuietStep
<1>3. CASE IntervalPasses(c)
  <2>1. UNCHANGED <<store, moved, remote, current, result, requests>>
    BY <1>3 DEF IntervalPasses, engine
  <2>2. \A d \in CollectorIds : Untouched(d)
    BY <1>0, <1>3, <2>1, IntervalFacts DEF Untouched, InOrder, IsLive
  <2>. QED
    BY <2>1, <2>2, QuietStep
<1>4. CASE DeleteCollector(c)
  <2>1. /\ collectors' = [collectors EXCEPT ![c] = NULL]
        /\ store' = [t \in RawTables |-> [store[t] EXCEPT ![c] = NULL]]
        /\ UNCHANGED <<moved, remote, current, result, requests>>
    BY <1>4 DEF DeleteCollector, engine
  <2>2. /\ collectors'[c] = NULL
        /\ \A d \in CollectorIds \ {c} : collectors'[d] = collectors[d]
        /\ \A t \in RawTables, d \in CollectorIds \ {c} : store'[t][d] = store[t][d]
    BY <1>0, <2>1 DEF TypeOK
  <2>3. \A d \in CollectorIds : Untouched(d)
    BY <2>1, <2>2 DEF Untouched, InOrder, IsLive
  <2>. QED
    BY <2>1, <2>3, QuietStep
<1>5. ASSUME NEW s \in RowInputs, CreateCollector(c, s) PROVE Abstract!Drop
  <2>1. UNCHANGED <<store, moved, remote, current, result, requests>>
    BY <1>5 DEF CreateCollector, engine
  <2>2. /\ collectors'[c].status = "unknown"
        /\ \A d \in CollectorIds \ {c} : collectors'[d] = collectors[d]
    BY <1>0, <1>5 DEF CreateCollector, TypeOK
  <2>3. \A d \in CollectorIds : Untouched(d)
    BY <2>1, <2>2 DEF Untouched, InOrder, IsLive
  <2>. QED
    BY <2>1, <2>3, QuietStep
<1>6. ASSUME NEW s \in RowInputs, UpdateCollector(c, s) PROVE Abstract!Drop
  <2>1. UNCHANGED <<store, remote, current, result, requests>>
    BY <1>6 DEF UpdateCollector, engine
  <2>2. \A d \in CollectorIds : Untouched(d)
    BY <1>0, <1>6, <2>1, UpdateFacts DEF Untouched, InOrder, IsLive
  <2>. QED
    BY <2>1, <2>2, QuietStep
<1>. QED
  BY <1>1, <1>2, <1>3, <1>4, <1>5, <1>6

LEMMA StepImplements ==
  ASSUME IInv, IInv', [Next]_vars
  PROVE  [Abstract!Next]_(Abstract!vars)
<1>1. CASE Engine
  BY <1>1, EngineStepImplements
<1>2. CASE Requests \/ \E c \in CollectorIds : PollNow(c)
  BY <1>2, RequestStepImplements DEF Requests
<1>3. CASE \E c \in CollectorIds :
             \/ NowFails(c) \/ NowDropped(c) \/ IntervalPasses(c) \/ DeleteCollector(c)
             \/ \E s \in RowInputs : CreateCollector(c, s) \/ UpdateCollector(c, s)
  BY <1>3, UserStepImplements DEF Abstract!Next
<1>4. CASE PollFails \/ PersistPartly \/ Fail
  BY <1>4, FailureImplements DEF Abstract!Next
<1>5. ASSUME NEW c \in CollectorIds, RemoteChanges(c) PROVE Abstract!Next
  <2>1. /\ UNCHANGED <<collectors, store, moved, current, result, requests>>
        /\ remote' = [remote EXCEPT ![c] = remote[c] + 1] /\ remote[c] + 1 \in Versions
    BY <1>5, PollAssumption DEF RemoteChanges, engine, IInv, TypeOK, Versions
  <2>2. \A d \in CollectorIds : /\ EnginePoll(d)' = EnginePoll(d)
                                /\ RequestPoll(d)' = RequestPoll(d)
                                /\ Shown(d)' = Shown(d)
    BY <2>1, SameTables DEF EnginePoll, RequestPoll
  <2>3. Abstract!Move(c)
    BY <2>1, <2>2 DEF Abstract!Move
  <2>. QED
    BY <2>3 DEF Abstract!Next
<1>6. CASE UNCHANGED vars
  <2>1. UNCHANGED <<collectors, store, moved, current, result, requests, remote>>
    BY <1>6 DEF vars, engine
  <2>2. \A d \in CollectorIds : /\ EnginePoll(d)' = EnginePoll(d)
                                /\ RequestPoll(d)' = RequestPoll(d)
                                /\ Shown(d)' = Shown(d)
    BY <2>1, SameTables DEF EnginePoll, RequestPoll
  <2>. QED
    BY <2>1, <2>2 DEF Abstract!vars
<1>. QED
  BY <1>1, <1>2, <1>3, <1>4, <1>5, <1>6 DEF Next, Users, Failures, Time

LEMMA InitImplements == Init => Abstract!Init
<1>. SUFFICES ASSUME Init PROVE Abstract!Init
  OBVIOUS
<1>1. \A c \in CollectorIds : EnginePoll(c) = NULL /\ RequestPoll(c) = NULL
  BY DEF Init, NoneDue, EnginePoll, RequestPoll
<1>2. \A c \in CollectorIds : Shown(c) = NULL
  BY DEF Init, NoneDue, Shown, InOrder, IsLive
<1>3. remote \in [CollectorIds -> Versions]
  BY PollAssumption DEF Init, Versions
<1>. QED
  BY <1>1, <1>2, <1>3 DEF Abstract!Init

\* Whatever polls, edits and failures overlap, what a collector in order shows is
\* one whole answer of its server, given while that poll was under way.
THEOREM Implements == Spec => ShowsSnapshots
<1>1. IInv /\ IInv' /\ [Next]_vars => [Abstract!Next]_(Abstract!vars)
  BY StepImplements
<1>. QED
  BY InitInv, StepKeepsInv, InitImplements, <1>1, PTL DEF Spec, ShowsSnapshots, Abstract!Spec
=============================================================================
