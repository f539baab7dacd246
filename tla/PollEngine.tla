----------------------------- MODULE PollEngine ------------------------------
(***************************************************************************)
(* The poll engine, the "Poll Now" requests that do the same work on their *)
(* own connection, and the API that edits collectors meanwhile.            *)
(*                                                                         *)
(* What a collector's server holds is a version number, and what one poll  *)
(* left in one raw table is the version it wrote and whether all of its    *)
(* rows went in.  The engine fetches the due collectors once per tick and  *)
(* polls them one after another in id order; its connection leaves foreign *)
(* keys off and commits after a failure, a request's connection has them   *)
(* on and rolls back.                                                      *)
(***************************************************************************)
EXTENDS Integers

CONSTANTS
  NULL,         \* SQL NULL / Python None
  CollectorIds, \* ids of the collectors users may create; never reused
  RowInputs,    \* [category, config, enabled] users may configure
  MaxVersion,   \* bound: changes of one server
  MaxEdits      \* bound: changes by users and failures in one behaviour

Categories == {"dhcp", "dns", "device"}

\* "unresolved": resolve_device_config raises, "unbuildable": the plugin's
\* constructor raises, "good": neither.
Configs == {"good", "unresolved", "unbuildable"}
Settings == [category : Categories, config : Configs, enabled : BOOLEAN]

ASSUME PollAssumption ==
  /\ CollectorIds \subseteq Int
  /\ NULL \notin CollectorIds
  /\ RowInputs \subseteq Settings
  /\ MaxVersion \in Nat /\ MaxEdits \in Nat

VARIABLES
  collectors, \* collectors: id -> row
  retired,    \* ids of deleted collectors
  store,      \* raw tables: (table, collector) -> what a poll left there
  remote,     \* what each collector's server holds now
  pc,         \* the engine: "idle", "next", "polling" or "persist"
  due,        \* the rows the tick fetched and has not polled yet
  current,    \* the row being polled
  result,     \* what its poll returned
  requests,   \* the Poll Now request under way for each collector
  edits,      \* changes by users and failures so far
  moved       \* for properties: collectors whose category was changed

engine == <<pc, due, current, result>>
vars == <<collectors, retired, store, remote, engine, requests, edits, moved>>

-----------------------------------------------------------------------------

RawTables == {"dhcp_leases", "dns_records", "arp_entries", "routes"}

\* The tables a persister replaces, in its order.
Persisted == [dhcp   |-> <<"dhcp_leases", "dns_records">>,
              dns    |-> <<"dns_records">>,
              device |-> <<"arp_entries", "routes">>]

TablesOf(category) ==
  {Persisted[category][i] : i \in DOMAIN Persisted[category]}

Rows(v, whole) == [version |-> v, whole |-> whole]
Versions == 0..MaxVersion
Stored == [version : Versions, whole : BOOLEAN] \cup {NULL}

\* A row of collectors; recent: last_poll_at is within poll_interval_sec.
CollectorRow == [category : Categories, config : Configs, enabled : BOOLEAN,
                 status : {"unknown", "ok", "error"}, recent : BOOLEAN]
OrNull(S) == S \cup {NULL}
Request == [row : CollectorRow, result : OrNull(Versions)]

\* None is no number, no row, and nothing that holds one.
ASSUME NullAssumption ==
  NULL \notin Int /\ NULL \notin CollectorRow /\ NULL \notin Request
    /\ NULL \notin CollectorIds \X CollectorRow

TypeOK ==
  /\ collectors \in [CollectorIds -> OrNull(CollectorRow)]
  /\ retired \subseteq CollectorIds
  /\ store \in [RawTables -> [CollectorIds -> Stored]]
  /\ remote \in [CollectorIds -> Versions]
  /\ pc \in {"idle", "next", "polling", "persist"}
  /\ due \in [CollectorIds -> OrNull(CollectorRow)]
  /\ current \in OrNull(CollectorIds \X CollectorRow)
  /\ result \in OrNull(Versions)
  /\ requests \in [CollectorIds -> OrNull(Request)]
  /\ edits \in 0..MaxEdits
  /\ moved \subseteq CollectorIds

NoneDue == [c \in CollectorIds |-> NULL]

Init ==
  /\ collectors = NoneDue /\ retired = {}
  /\ store = [t \in RawTables |-> [c \in CollectorIds |-> NULL]]
  /\ remote = [c \in CollectorIds |-> 0]
  /\ pc = "idle" /\ due = NoneDue /\ current = NULL /\ result = NULL
  /\ requests = NoneDue
  /\ edits = 0 /\ moved = {}

-----------------------------------------------------------------------------
(* What a poll writes.                                                     *)

\* The persister ran to its end: every table of the category is replaced.
PersistAll(c, category, v) ==
  [t \in RawTables |-> IF t \in TablesOf(category)
                         THEN [store[t] EXCEPT ![c] = Rows(v, TRUE)]
                         ELSE store[t]]

\* It raised while inserting into its i-th table: that one is part filled,
\* those after it still hold the poll before.
PersistUpTo(c, category, v, i) ==
  [t \in RawTables |->
     IF \E j \in 1..(i - 1) : Persisted[category][j] = t
       THEN [store[t] EXCEPT ![c] = Rows(v, TRUE)]
     ELSE IF Persisted[category][i] = t
       THEN [store[t] EXCEPT ![c] = Rows(v, FALSE)]
     ELSE store[t]]

\* UPDATE collectors SET status, last_poll_at WHERE id: nothing if it is gone.
Polled(c, status) ==
  IF collectors[c] = NULL THEN collectors
  ELSE [collectors EXCEPT ![c].status = status, ![c].recent = TRUE]

\* A failure, or a change by a user, counts against the bound.
Counted == edits < MaxEdits /\ edits' = edits + 1

-----------------------------------------------------------------------------
(* The engine.                                                             *)

\* Faulty: a collector in error waits for a Poll Now.
IsDueUnlessError(c) ==
  /\ collectors[c] # NULL /\ collectors[c].enabled
  /\ ~collectors[c].recent /\ collectors[c].status # "error"

IsDue(c) ==
  /\ collectors[c] # NULL /\ collectors[c].enabled /\ ~collectors[c].recent

\* The tick's one SELECT: every row is kept as it is now.
FetchDue ==
  /\ pc = "idle"
  /\ due' = [c \in CollectorIds |-> IF IsDue(c) THEN collectors[c] ELSE NULL]
  /\ pc' = "next"
  /\ UNCHANGED <<collectors, retired, store, remote, current, result, requests,
                 edits, moved>>

IsNext(c) ==
  /\ pc = "next" /\ due[c] # NULL
  /\ \A d \in CollectorIds : due[d] # NULL => c <= d

\* The first steps of _poll_one: credentials, constructor, then the call.
NextUnresolved(c) ==
  /\ IsNext(c) /\ due[c].config = "unresolved"
  /\ collectors' = Polled(c, "error")
  /\ due' = [due EXCEPT ![c] = NULL]
  /\ UNCHANGED <<retired, store, remote, pc, current, result, requests, edits,
                 moved>>

\* The constructor's ValueError leaves _tick: the others are not polled.
NextUnbuildable(c) ==
  /\ IsNext(c) /\ due[c].config = "unbuildable"
  /\ due' = NoneDue /\ pc' = "idle"
  /\ UNCHANGED <<collectors, retired, store, remote, current, result, requests,
                 edits, moved>>

NextPolled(c) ==
  /\ IsNext(c) /\ due[c].config = "good"
  /\ current' = <<c, due[c]>>
  /\ due' = [due EXCEPT ![c] = NULL]
  /\ pc' = "polling"
  /\ UNCHANGED <<collectors, retired, store, remote, result, requests, edits,
                 moved>>

TickEnds ==
  /\ pc = "next" /\ due = NoneDue
  /\ pc' = "idle"
  /\ UNCHANGED <<collectors, retired, store, remote, due, current, result,
                 requests, edits, moved>>

\* collector.poll() has returned what the server held.
PollAnswers ==
  /\ pc = "polling"
  /\ result' = remote[current[1]] /\ pc' = "persist"
  /\ UNCHANGED <<collectors, retired, store, remote, due, current, requests,
                 edits, moved>>

\* One collector is done, whatever came of it.
Done == pc' = "next" /\ current' = NULL /\ result' = NULL /\ UNCHANGED due

PollFails ==
  /\ pc = "polling" /\ Counted
  /\ collectors' = Polled(current[1], "error")
  /\ Done
  /\ UNCHANGED <<retired, store, remote, requests, moved>>

Persist ==
  /\ pc = "persist"
  /\ store' = PersistAll(current[1], current[2].category, result)
  /\ collectors' = Polled(current[1], "ok")
  /\ Done
  /\ UNCHANGED <<retired, remote, requests, edits, moved>>

\* A row could not be stored: the handler marks the collector and commits what
\* was already written.
PersistPartly ==
  /\ pc = "persist" /\ Counted
  /\ \E i \in DOMAIN Persisted[current[2].category] :
       store' = PersistUpTo(current[1], current[2].category, result, i)
  /\ collectors' = Polled(current[1], "error")
  /\ Done
  /\ UNCHANGED <<retired, remote, requests, moved>>

Engine ==
  \/ FetchDue \/ TickEnds \/ PollAnswers \/ Persist
  \/ \E c \in CollectorIds :
       NextUnresolved(c) \/ NextUnbuildable(c) \/ NextPolled(c)

-----------------------------------------------------------------------------
(* Poll Now.                                                               *)

\* A row whose config does not resolve or build is refused without a change.
PollNow(c) ==
  /\ collectors[c] # NULL /\ collectors[c].config = "good"
  /\ requests[c] = NULL /\ Counted
  /\ requests' = [requests EXCEPT ![c] = [row |-> collectors[c], result |-> NULL]]
  /\ UNCHANGED <<collectors, retired, store, remote, engine, moved>>

IsAsking(c) == requests[c] # NULL /\ requests[c].result = NULL

NowAnswers(c) ==
  /\ IsAsking(c)
  /\ requests' = [requests EXCEPT ![c].result = remote[c]]
  /\ UNCHANGED <<collectors, retired, store, remote, engine, edits, moved>>

NowFails(c) ==
  /\ IsAsking(c) /\ Counted
  /\ requests' = [requests EXCEPT ![c] = NULL]
  /\ collectors' = Polled(c, "error")
  /\ UNCHANGED <<retired, store, remote, engine, moved>>

\* Faulty: the row is marked before the rows are known to go in.
NowPersistMarkedFirst(c) ==
  /\ requests[c] # NULL /\ requests[c].result # NULL
  /\ requests' = [requests EXCEPT ![c] = NULL]
  /\ collectors' = Polled(c, "ok")
  /\ \/ store' = PersistAll(c, requests[c].row.category, requests[c].result)
     \/ UNCHANGED store
  /\ UNCHANGED <<retired, remote, engine, edits, moved>>

\* Faulty: the answer is not waited for.
NowPersistEarly(c) ==
  /\ requests[c] # NULL
  /\ requests' = [requests EXCEPT ![c] = NULL]
  /\ collectors' = Polled(c, "ok")
  /\ store' = PersistAll(c, requests[c].row.category, requests[c].result)
  /\ UNCHANGED <<retired, remote, engine, edits, moved>>

\* With foreign keys on, the inserts fail if the collector is gone.
NowPersist(c) ==
  /\ requests[c] # NULL /\ requests[c].result # NULL
  /\ requests' = [requests EXCEPT ![c] = NULL]
  /\ collectors' = Polled(c, "ok")
  /\ store' = IF collectors[c] = NULL THEN store
              ELSE PersistAll(c, requests[c].row.category, requests[c].result)
  /\ UNCHANGED <<retired, remote, engine, edits, moved>>

\* The request raised, or the client left: the connection rolls back.
NowDropped(c) ==
  /\ requests[c] # NULL /\ Counted
  /\ requests' = [requests EXCEPT ![c] = NULL]
  /\ UNCHANGED <<collectors, retired, store, remote, engine, moved>>

Requests == \E c \in CollectorIds : NowAnswers(c) \/ NowPersist(c)

-----------------------------------------------------------------------------
(* Users, servers, time.                                                   *)

CreateCollector(c, s) ==
  /\ collectors[c] = NULL /\ c \notin retired /\ Counted
  /\ collectors' = [collectors EXCEPT ![c] =
       [category |-> s.category, config |-> s.config, enabled |-> s.enabled,
        status |-> "unknown", recent |-> FALSE]]
  /\ UNCHANGED <<retired, store, remote, engine, requests, moved>>

\* PATCH /collectors/{id}: status, last_poll_at and the raw rows stay.
UpdateCollector(c, s) ==
  /\ collectors[c] # NULL /\ Counted
  /\ collectors' = [collectors EXCEPT ![c].category = s.category,
                                      ![c].config = s.config,
                                      ![c].enabled = s.enabled]
  /\ moved' = IF s.category # collectors[c].category THEN moved \cup {c} ELSE moved
  /\ UNCHANGED <<retired, store, remote, engine, requests>>

DeleteCollector(c) ==
  /\ collectors[c] # NULL /\ Counted
  /\ collectors' = [collectors EXCEPT ![c] = NULL]
  /\ retired' = retired \cup {c}
  /\ store' = [t \in RawTables |-> [store[t] EXCEPT ![c] = NULL]]
  /\ UNCHANGED <<remote, engine, requests, moved>>

RemoteChanges(c) ==
  /\ remote[c] < MaxVersion
  /\ remote' = [remote EXCEPT ![c] = @ + 1]
  /\ UNCHANGED <<collectors, retired, store, engine, requests, edits, moved>>

\* poll_interval_sec have passed since the last poll.
IntervalPasses(c) ==
  /\ collectors[c] # NULL /\ collectors[c].recent
  /\ collectors' = [collectors EXCEPT ![c].recent = FALSE]
  /\ UNCHANGED <<retired, store, remote, engine, requests, edits, moved>>

\* A tick fails (the database stays locked) or the process is stopped; only
\* memory is lost, with every request if it is the process.
Fail ==
  /\ Counted
  /\ pc' = "idle" /\ due' = NoneDue /\ current' = NULL /\ result' = NULL
  /\ requests' \in {requests, NoneDue}
  /\ UNCHANGED <<collectors, retired, store, remote, moved>>

Users ==
  \E c \in CollectorIds :
    \/ PollNow(c) \/ DeleteCollector(c)
    \/ \E s \in RowInputs : CreateCollector(c, s) \/ UpdateCollector(c, s)

Failures ==
  \/ PollFails \/ PersistPartly \/ Fail
  \/ \E c \in CollectorIds : NowFails(c) \/ NowDropped(c)

Time == \E c \in CollectorIds : IntervalPasses(c)

Next ==
  \/ Engine \/ Requests \/ Users \/ Failures \/ Time
  \/ \E c \in CollectorIds : RemoteChanges(c)

Spec == Init /\ [][Next]_vars

\* The loop always takes its next step, a server's call ends, and time passes
\* for each collector; users, servers and failures owe nothing.
FairSpec ==
  /\ Spec
  /\ WF_vars(Engine)
  /\ \A c \in CollectorIds : WF_vars(IntervalPasses(c))

-----------------------------------------------------------------------------
(* What users rely on.                                                     *)

IsLive(c) == collectors[c] # NULL

\* A collector whose status is "ok" has, in each of its tables, all the rows of
\* one and the same poll: whatever polls overlapped, failed half way or were
\* cut off, the status and the rows are committed together.
OkMeansWhole ==
  \A c \in CollectorIds \ moved :
    (IsLive(c) /\ collectors[c].status = "ok") =>
      \E v \in Versions : \A t \in TablesOf(collectors[c].category) :
        store[t][c] = Rows(v, TRUE)

Inv == TypeOK /\ OkMeansWhole

\* What a collector in order shows; rows of several polls, or some of one, are
\* no snapshot.
InOrder(c) == IsLive(c) /\ c \notin moved /\ collectors[c].status = "ok"
NoVersion == -1
IsWhole(c, v) ==
  \A t \in TablesOf(collectors[c].category) : store[t][c] = Rows(v, TRUE)
Shown(c) ==
  IF ~InOrder(c) THEN NULL
  ELSE IF \E v \in Versions : IsWhole(c, v)
    THEN CHOOSE v \in Versions : IsWhole(c, v)
    ELSE NoVersion

EnginePoll(c) ==
  IF current = NULL \/ current[1] # c THEN NULL
  ELSE IF result = NULL THEN NoVersion ELSE result
RequestPoll(c) ==
  IF requests[c] = NULL THEN NULL
  ELSE IF requests[c].result = NULL THEN NoVersion ELSE requests[c].result

\* poll_engine.py:7.  "Each poll is treated as a full current-state snapshot for
\* that collector": however scheduled polls, requests, edits and failures
\* overlap, a collector that comes to be "ok" shows what one poll was answered.
Abstract == INSTANCE Snapshots WITH
  Collectors <- CollectorIds, Pollers <- {"engine", "request"}, Versions <- Versions,
  Waiting <- NoVersion, server <- remote,
  polls <- [c \in CollectorIds |-> [p \in {"engine", "request"} |->
              IF p = "engine" THEN EnginePoll(c) ELSE RequestPoll(c)]],
  shown <- [c \in CollectorIds |-> Shown(c)]

ShowsSnapshots == Abstract!Spec

\* Once users, servers and failures are quiet, each enabled collector is "ok" and
\* its tables come to hold what its server holds, unless some enabled collector
\* cannot even be constructed: a stale poll that overwrote a newer one, or a part-filled
\* table, lasts until the next interval only.
EventuallyFresh ==
  LET Steady == \A c \in CollectorIds :
        IsLive(c) /\ collectors[c].enabled => collectors[c].config # "unbuildable"
      Fresh(c) == /\ collectors[c].status = "ok"
                  /\ \A t \in TablesOf(collectors[c].category) :
                       store[t][c] = Rows(remote[c], TRUE)
  IN  <>[]Steady =>
        \A c \in CollectorIds :
          <>[](IsLive(c) /\ collectors[c].enabled /\ collectors[c].config = "good")
            => <>[](IsLive(c) /\ Fresh(c))

-----------------------------------------------------------------------------
(* What the comments and the schema say and the code does not do.          *)

\* poll_engine.py:4: "polls every enabled collector on its own configured
\* interval": none that could be polled is left out for ever.
EveryEnabledIsPolled ==
  \A c \in CollectorIds :
    <>[](IsLive(c) /\ collectors[c].enabled /\ collectors[c].config = "good")
      => <>(IsLive(c) /\ collectors[c].status # "unknown")

\* poll_engine.py:7: "Each poll is treated as a full current-state snapshot for
\* that collector": no part of one is ever on file.
SnapshotsAreWhole ==
  \A t \in RawTables, c \in CollectorIds :
    store[t][c] # NULL => store[t][c].whole
=============================================================================
