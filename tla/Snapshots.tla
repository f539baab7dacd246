------------------------------ MODULE Snapshots ------------------------------
(***************************************************************************)
(* What polling promises, whoever polls and however it is carried out: the *)
(* rows a collector in order shows are one snapshot of its server, taken   *)
(* whole by one poll between its question and its end.  Polls of the same  *)
(* collector may overlap, and then the last to end is shown.               *)
(***************************************************************************)
EXTENDS Naturals

CONSTANTS
  NULL,
  Collectors,
  Pollers,    \* who may be polling a collector
  Versions,   \* what a server may hold
  Waiting     \* a poll that has no answer yet

VARIABLES
  server, \* what each collector's server holds
  polls,  \* collector -> poller -> its poll: NULL, Waiting or its answer
  shown   \* what each collector shows; NULL unless it is in order

vars == <<server, polls, shown>>

Init ==
  /\ server \in [Collectors -> Versions]
  /\ polls = [c \in Collectors |-> [p \in Pollers |-> NULL]]
  /\ shown = [c \in Collectors |-> NULL]

Move(c) ==
  /\ \E v \in Versions : server' = [server EXCEPT ![c] = v]
  /\ UNCHANGED <<polls, shown>>

Open(c, p) ==
  /\ polls[c][p] = NULL
  /\ polls' = [polls EXCEPT ![c][p] = Waiting]
  /\ UNCHANGED <<server, shown>>

Answer(c, p) ==
  /\ polls[c][p] = Waiting
  /\ polls' = [polls EXCEPT ![c][p] = server[c]]
  /\ UNCHANGED <<server, shown>>

\* The whole of the answer is shown.
Show(c, p) ==
  /\ polls[c][p] \in Versions
  /\ polls' = [polls EXCEPT ![c][p] = NULL]
  /\ shown' = [shown EXCEPT ![c] = polls[c][p]]
  /\ UNCHANGED server

\* Polls end without a snapshot, and collectors stop being in order because
\* one failed or they were changed or deleted.
Drop ==
  /\ polls' \in [Collectors -> [Pollers -> Versions \cup {NULL, Waiting}]]
  /\ shown' \in [Collectors -> Versions \cup {NULL}]
  /\ \A c \in Collectors :
       /\ shown'[c] \in {NULL, shown[c]}
       /\ \A p \in Pollers : polls'[c][p] \in {NULL, polls[c][p]}
  /\ UNCHANGED server

Next ==
  \/ Drop
  \/ \E c \in Collectors :
       \/ Move(c)
       \/ \E p \in Pollers : Open(c, p) \/ Answer(c, p) \/ Show(c, p)

Spec == Init /\ [][Next]_vars
=============================================================================
