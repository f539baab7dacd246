------------------------------- MODULE AppLog --------------------------------
(***************************************************************************)
(* pktIPAM's own log: every record a logger emits goes into a queue, and a *)
(* thread drains the queue into the table app_logs, trimming the table to  *)
(* its newest rows in the same transaction.  When forwarding is on, each   *)
(* record but the forwarder's own also goes into a bounded queue, and      *)
(* another thread sends them to a syslog collector one by one.             *)
(*                                                                         *)
(* A record is the number of its emission; a row's id follows the order of *)
(* the inserts, so the table is the sequence of its records in id order.   *)
(***************************************************************************)
EXTENDS Integers, Sequences, Null

CONSTANTS
  MaxRows,      \* _MAX_ROWS
  MaxQueue,     \* _MAX_QUEUE, of the forwarder
  MaxRecords,   \* bound: records emitted in one behaviour
  MaxLogMishaps \* bound: failed writes and sends, kills, changes of the settings

Forwarders == [queue : Seq(Nat), sending : Nat \cup {NULL}, sent : Nat, dropped : Nat,
               errors : Nat]

ASSUME AppLogAssumption ==
  /\ MaxRows \in Nat \ {0} /\ MaxQueue \in Nat \ {0}
  /\ MaxRecords \in Nat /\ MaxLogMishaps \in Nat
  /\ NULL \notin Nat /\ NULL \notin Forwarders

VARIABLES
  service,    \* the process: "up", "stopping" (the lifespan's shutdown) or "gone"
  queue,      \* the handler's queue
  batch,      \* the records the thread has taken out and not written yet
  drained,    \* the thread has made its last drain
  logs,       \* app_logs
  forward,    \* the forwarder: its queue, the line being sent, its counters; or NULL
  late,       \* lines that replaced forwarders are still sending
  logMishaps,
  (* For stating properties only: *)
  emitted,    \* how many records were emitted
  lost,       \* those that a failed write or the end of the process took away
  cleared,    \* those that an administrator deleted, or that had been trimmed by then
  handed,     \* how many were handed to the forwarder that is there
  received    \* what the collector was sent, in order

handler == <<queue, batch, drained>>
forwarding == <<forward, late, handed, received>>
logVars == <<service, handler, logs, logMishaps, emitted, lost, cleared, forwarding>>

Forwarder(q, sending, sent, dropped, errors) ==
  [queue |-> q, sending |-> sending, sent |-> sent, dropped |-> dropped,
   errors |-> errors]
NewForwarder == Forwarder(<<>>, NULL, 0, 0, 0)

RecordsIn(s) == {s[i] : i \in DOMAIN s}

LogTypeOK ==
  /\ service \in {"up", "stopping", "gone"}
  /\ \A s \in {queue, batch, logs} :
       s \in Seq(1..MaxRecords) /\ Len(s) <= MaxRecords
  /\ drained \in BOOLEAN
  /\ logMishaps \in 0..MaxLogMishaps
  /\ emitted \in 0..MaxRecords
  /\ lost \subseteq 1..emitted /\ cleared \subseteq 1..emitted
  /\ forward # NULL =>
       /\ Len(forward.queue) <= MaxQueue
       /\ RecordsIn(forward.queue) \subseteq 1..emitted
       /\ forward.sending \in (1..emitted) \cup {NULL}
       /\ {forward.sent, forward.dropped, forward.errors} \subseteq 0..handed
  /\ late \subseteq 1..emitted /\ handed \in 0..emitted
  /\ RecordsIn(received) \subseteq 1..emitted

LogInit ==
  /\ service = "up"
  /\ queue = <<>> /\ batch = <<>> /\ drained = FALSE /\ logs = <<>>
  /\ logMishaps = 0 /\ emitted = 0 /\ lost = {} /\ cleared = {}
  /\ forward = NewForwarder /\ late = {} /\ handed = 0 /\ received = <<>>

-----------------------------------------------------------------------------

\* Faulty: a line that finds the queue full is forgotten.
EnqueuedUncounted(line) ==
  IF Len(forward.queue) < MaxQueue
    THEN [forward EXCEPT !.queue = Append(@, line)] ELSE forward

\* put_nowait, with the forwarder's count of what did not fit.
Enqueued(line) ==
  IF Len(forward.queue) < MaxQueue
    THEN [forward EXCEPT !.queue = Append(@, line)]
    ELSE [forward EXCEPT !.dropped = @ + 1]

LogMishap == logMishaps < MaxLogMishaps /\ logMishaps' = logMishaps + 1

\* emit(), of both handlers on pktIPAM's logger; the forwarder skips its own lines.
Emit(own) ==
  /\ emitted < MaxRecords
  /\ emitted' = emitted + 1
  /\ queue' = Append(queue, emitted + 1)
  /\ IF ~own /\ forward # NULL
       THEN forward' = Enqueued(emitted + 1) /\ handed' = handed + 1
       ELSE UNCHANGED <<forward, handed>>

\* Faulty: the newest rows go.
TrimmedAtTheEnd(s) ==
  IF Len(s) < MaxRows THEN s ELSE SubSeq(s, 1, MaxRows - 1)

\* Everything up to the MaxRows-th newest row goes, that row included.
Trimmed(s) ==
  IF Len(s) < MaxRows THEN s
  ELSE SubSeq(s, Len(s) - MaxRows + 2, Len(s))

\* _drain: the thread empties the queue, every two seconds and once more when it
\* is told to stop.
Drain ==
  /\ service # "gone" /\ ~drained /\ batch = <<>>
  /\ \/ queue # <<>> /\ drained' = FALSE
     \/ service = "stopping" /\ drained' = TRUE
  /\ batch' = queue /\ queue' = <<>>
  /\ UNCHANGED <<service, logs, logMishaps, emitted, lost, cleared, forwarding>>

Store ==
  /\ batch # <<>>
  /\ logs' = Trimmed(logs \o batch)
  /\ batch' = <<>>
  /\ UNCHANGED <<service, queue, drained, logMishaps, emitted, lost, cleared, forwarding>>

\* The database stays locked: the batch is given up.
StoreFails ==
  /\ batch # <<>> /\ LogMishap
  /\ lost' = lost \cup RecordsIn(batch)
  /\ batch' = <<>>
  /\ UNCHANGED <<service, queue, drained, logs, emitted, cleared, forwarding>>

\* DELETE /api/logs.
ClearLogs ==
  /\ service = "up"
  /\ logs # <<>>
  /\ logs' = <<>>
  /\ cleared' = (1..emitted) \ (lost \cup RecordsIn(queue) \cup RecordsIn(batch))
  /\ UNCHANGED <<service, handler, logMishaps, emitted, lost, forwarding>>

-----------------------------------------------------------------------------
(* The process.                                                            *)

\* Any module's logger, the shutdown's own lines included.
Say ==
  /\ service # "gone" /\ \E own \in BOOLEAN : Emit(own)
  /\ UNCHANGED <<service, batch, drained, logs, logMishaps, lost, cleared, late, received>>

\* stop(): the thread is told, and waited for.
StopHandler ==
  /\ service = "up"
  /\ service' = "stopping"
  /\ UNCHANGED <<handler, logs, logMishaps, emitted, lost, cleared, forwarding>>

ProcessGone ==
  /\ service' = "gone"
  /\ lost' = lost \cup RecordsIn(queue) \cup RecordsIn(batch)
  /\ queue' = <<>> /\ batch' = <<>> /\ drained' = FALSE
  /\ forward' = NULL /\ late' = {} /\ handed' = 0
  /\ UNCHANGED <<logs, emitted, cleared, received>>

\* What was emitted after the last drain goes with the process.
ProcessExits ==
  service = "stopping" /\ drained /\ batch = <<>> /\ ProcessGone /\ UNCHANGED logMishaps

ProcessKilled == service # "gone" /\ LogMishap /\ ProcessGone

ProcessStarts ==
  /\ service = "gone"
  /\ service' = "up"
  /\ forward' \in {NewForwarder, NULL}
  /\ UNCHANGED <<handler, logs, logMishaps, emitted, lost, cleared, late, handed, received>>

-----------------------------------------------------------------------------
(* The forwarder.                                                          *)

ForwardAside == UNCHANGED <<service, handler, logs, emitted, lost, cleared>>

TakeLine ==
  /\ forward # NULL /\ forward.sending = NULL /\ forward.queue # <<>>
  /\ forward' = [forward EXCEPT !.sending = Head(forward.queue), !.queue = Tail(@)]
  /\ ForwardAside /\ UNCHANGED <<logMishaps, late, handed, received>>

SendLine ==
  /\ forward # NULL /\ forward.sending # NULL
  /\ forward' = [forward EXCEPT !.sending = NULL, !.sent = @ + 1]
  /\ received' = Append(received, forward.sending)
  /\ ForwardAside /\ UNCHANGED <<logMishaps, late, handed>>

\* The line is not tried again; over TCP it may have arrived all the same.
SendFails ==
  /\ forward # NULL /\ forward.sending # NULL /\ LogMishap
  /\ forward' = [forward EXCEPT !.sending = NULL, !.errors = @ + 1]
  /\ received' \in {received, Append(received, forward.sending)}
  /\ ForwardAside /\ UNCHANGED <<late, handed>>

\* configure_forwarding: the handler is replaced, with its queue and its counters;
\* its thread may be at its last line.
Configure ==
  /\ service = "up" /\ LogMishap
  /\ forward' \in {NewForwarder, NULL}
  /\ emitted < MaxRecords /\ emitted' = emitted + 1
  /\ queue' = Append(queue, emitted + 1)
  /\ late' = IF forward = NULL \/ forward.sending = NULL THEN late
             ELSE late \cup {forward.sending}
  /\ handed' = 0
  /\ UNCHANGED <<service, batch, drained, logs, lost, cleared, received>>

\* It goes out, or fails on the closed socket.
LateLine(line) ==
  /\ line \in late
  /\ late' = late \ {line}
  /\ received' \in {received, Append(received, line)}
  /\ ForwardAside /\ UNCHANGED <<logMishaps, forward, handed>>

-----------------------------------------------------------------------------

LogThread == Drain \/ Store
ForwardThread == TakeLine \/ SendLine \/ SendFails

LogNext ==
  \/ LogThread \/ ForwardThread \/ StoreFails \/ ClearLogs \/ Configure \/ Say
  \/ \E line \in late : LateLine(line)
  \/ StopHandler \/ ProcessExits \/ ProcessKilled \/ ProcessStarts

LogSpec == LogInit /\ [][LogNext]_logVars

-----------------------------------------------------------------------------

Kept == RecordsIn(logs) \cup RecordsIn(queue) \cup RecordsIn(batch) \cup lost \cup cleared

\* No record vanishes, is stored twice or out of order: what is neither waiting nor
\* lost with a failed write or the process is in the table, in the order of
\* emission, unless MaxRows - 1 newer records are there.
KeepsNewest ==
  /\ \A i, j \in DOMAIN logs : i < j => logs[i] < logs[j]
  /\ \A r \in (1..emitted) \ Kept :
       /\ Len(logs) >= MaxRows - 1
       /\ \A i \in DOMAIN logs : r < logs[i]

\* A record reaches the collector at most once, also when the forwarder is replaced
\* while it sends, and the forwarder's counters account for every record it was
\* handed: sent, failed, dropped, waiting or under way.
ForwardedOnce ==
  /\ \A i, j \in DOMAIN received : received[i] = received[j] => i = j
  /\ forward # NULL =>
       handed = forward.sent + forward.errors + forward.dropped
                  + Len(forward.queue) + (IF forward.sending = NULL THEN 0 ELSE 1)

LogInv == LogTypeOK /\ KeepsNewest /\ ForwardedOnce

-----------------------------------------------------------------------------
(* What the code's words say and it does not do.                           *)

\* logging_handler.py:8: "Ring-buffers to 10,000 rows".
RingHoldsMaxRows ==
  \A r \in (1..emitted) \ Kept : Len(logs) >= MaxRows
=============================================================================
