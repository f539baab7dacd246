------------------------------ MODULE Assistant ------------------------------
(***************************************************************************)
(* What the embedded assistant may read and change: the operations under   *)
(* /api/resonance/data, run by the panel on its user's own session, among  *)
(* the page, the alert engine, the cleanup, and administrators who change  *)
(* what it is trusted with.                                                *)
(*                                                                         *)
(* A request is one action per database call.  A listing is followed for   *)
(* one operation, chosen at the start, over the sequence of the rows that  *)
(* match its filters, in its order.                                        *)
(***************************************************************************)
EXTENDS Integers, FiniteSets, SequencesExt

CONSTANTS
  NULL,
  Users,      \* people signed in here
  Askers,     \* those of them who use the panel
  InitRoles,  \* their roles
  Events,     \* ids of alert events
  RowIds,     \* ids of rows the listing may show
  InitRows,   \* those that match at first, in order
  Listings,   \* the listing operations to follow
  RoleInputs, \* roles an administrator may give
  Settings,   \* [enabled, role, level] an administrator may save
  PageSize,   \* the limit the panel asks for
  MaxEdits    \* bound: calls of the panel, and changes by others

Roles == {"admin", "analyst", "viewer"}
Levels == {"none", "read", "write"}
NoneOf(S) == [x \in S |-> NULL]

VARIABLES
  enabled,  \* resonance_enabled
  levels,   \* resonance_role_levels
  roles,    \* users.role; NULL: the account is not active
  events,   \* alert_events: id -> NULL or its acknowledgement
  rule,     \* enabled of the one alert rule; NULL: deleted
  rows,     \* what the followed listing matches, in its order
  listing,  \* the followed operation
  offered,  \* the operations of the grant and specification the panel has read
  calls,    \* user -> the call under way
  offset,   \* how far the panel's walk through the listing has come
  edits,
  (* For stating properties only: *)
  steady,   \* rows of the result ever since the walk began
  got,      \* rows it was given
  slips,    \* rows that went from behind the offset to before it or away
  walk,     \* "before", "on", "over"
  held      \* user -> the gates that were open at a moment of the call

state == <<enabled, levels, roles, events, rule>>
walkVars == <<offset, got, walk>>
vars == <<state, rows, listing, offered, calls, walkVars, edits,
          steady, slips, held>>

-----------------------------------------------------------------------------
(* The operations.                                                         *)

\* Where a row that starts to match goes, which of those that match may stop to,
\* and whether one may be moved to the front.  Unpaged operations have neither
\* limit nor offset.
Listing(paged, enters, leaves, moves) ==
  [paged |-> paged, enters |-> enters, leaves |-> leaves, moves |-> moves]

ListSubnets          == Listing(TRUE, "anywhere", "any", FALSE) \* ORDER BY cidr
SearchIpAddresses    == Listing(TRUE, "front", "any", TRUE)      \* last_seen DESC
ListVlans            == Listing(FALSE, "anywhere", "any", FALSE) \* vlan_tag
ListConflicts        == Listing(TRUE, "anywhere", "any", FALSE) \* detected_at DESC
ListCollectors       == Listing(FALSE, "anywhere", "any", FALSE) \* name
ListAlertEvents      == Listing(TRUE, "front", "any", FALSE)     \* created_at DESC
ListAlertRules       == Listing(FALSE, "anywhere", "any", FALSE) \* name
SearchApplicationLog == Listing(TRUE, "front", "last", FALSE)   \* id DESC

ListingOf ==
  [listSubnets |-> ListSubnets, searchIpAddresses |-> SearchIpAddresses,
   listVlans |-> ListVlans, listConflicts |-> ListConflicts,
   listCollectors |-> ListCollectors, listAlertEvents |-> ListAlertEvents,
   listAlertRules |-> ListAlertRules, searchApplicationLog |-> SearchApplicationLog]

Reads == DOMAIN ListingOf
Writes == {"ackAlertEvent", "ackAllAlertEvents", "toggleAlertRule"}

ASSUME AssistantAssumption ==
  /\ InitRoles \in [Users -> Roles] /\ Askers \subseteq Users
  /\ RoleInputs \subseteq Roles \cup {NULL}
  /\ Settings \subseteq [enabled : BOOLEAN, role : Roles, level : Levels]
  /\ Listings \subseteq Reads
  /\ InitRows \in Seq(RowIds) /\ IsInjective(InitRows)
  /\ PageSize \in Nat \ {0} /\ MaxEdits \in Nat

\* The page's own rule for the endpoint an operation mirrors.
AppRule(op, role) ==
  role \in CASE op = "toggleAlertRule"   -> {"admin"}
             [] op = "ackAlertEvent"     -> {"admin", "analyst"}
             [] op = "ackAllAlertEvents" -> {"admin", "analyst"}
             [] OTHER                    -> Roles

WritesAreEnabled == \E r \in Roles : levels[r] = "write"

\* The operations of the grant, and those of the narrowed specification.
Granted(allowWrites) == Reads \cup IF allowWrites THEN Writes ELSE {}
Specified(allowWrites) == Granted(allowWrites)

-----------------------------------------------------------------------------

\* at: the database call that is next.
Call(op, target, role) ==
  [op |-> op, target |-> target, role |-> role, at |-> "enabled", was |-> NULL]

CallType ==
  [op : Reads \cup Writes, target : Events \cup {NULL}, role : Roles,
   at : {"enabled", "allowed", "level", "target", "write", "page"},
   was : BOOLEAN \cup {NULL}]

Ack(by, via) == [by |-> by, via |-> via]
Unacked == Ack(NULL, NULL)
Acks == [by : Users, via : {"page", "assistant"}] \cup {Unacked}

TypeOK ==
  /\ enabled \in BOOLEAN
  /\ levels \in [Roles -> Levels]
  /\ roles \in [Users -> Roles \cup {NULL}]
  /\ events \in [Events -> Acks \cup {NULL}]
  /\ rule \in BOOLEAN \cup {NULL}
  /\ rows \in Seq(RowIds) /\ IsInjective(rows)
  /\ listing \in Listings
  /\ offered \in [grant : SUBSET (Reads \cup Writes), spec : SUBSET (Reads \cup Writes)]
  /\ calls \in [Users -> CallType \cup {NULL}]
  /\ offset \in Nat /\ slips \in Nat
  /\ edits \in 0..MaxEdits
  /\ walk \in {"before", "on", "over"}

Init ==
  /\ enabled = TRUE
  /\ levels = [r \in Roles |-> IF r = "viewer" THEN "read" ELSE "write"]
  /\ roles = InitRoles
  /\ events = [e \in Events |-> Unacked]
  /\ rule = TRUE
  /\ rows = InitRows
  /\ listing \in Listings
  /\ offered = [grant |-> Granted(TRUE), spec |-> Specified(TRUE)]
  /\ calls = NoneOf(Users)
  /\ offset = 0 /\ edits = 0
  /\ steady = {} /\ got = {} /\ slips = 0 /\ walk = "before"
  /\ held = [u \in Users |-> {}]

Counted == edits < MaxEdits /\ edits' = edits + 1

WalkAside == UNCHANGED <<walkVars, steady, slips>>
-----------------------------------------------------------------------------
(* A call.                                                                 *)

Gates(role) ==
  {g \in {"enabled", "trusted"} :
     IF g = "enabled" THEN enabled ELSE levels[role] = "write"}

\* The session is read; the panel lists page after page, one at a time.
Ask(u, op, target) ==
  /\ calls[u] = NULL /\ roles[u] # NULL
  /\ op \in offered.grant \cap offered.spec /\ Counted
  /\ calls' = [calls EXCEPT ![u] = Call(op, target, roles[u])]
  /\ held' = [held EXCEPT ![u] = Gates(roles[u])]
  /\ IF op \in Writes
       THEN UNCHANGED <<walk, steady>>
       ELSE /\ op = listing /\ walk # "over"
            /\ {v \in Users : calls[v] # NULL /\ calls[v].op = op} = {}
            /\ walk' = "on"
            /\ steady' = IF walk = "before" THEN Range(rows) ELSE steady
  /\ UNCHANGED <<state, rows, listing, offered, offset, got, slips>>

IsAt(u, at) == calls[u] # NULL /\ calls[u].at = at
GoTo(u, at) == calls' = [calls EXCEPT ![u].at = at]
Ends(u) == calls' = [calls EXCEPT ![u] = NULL]

ReadEnabled(u) ==
  /\ IsAt(u, "enabled")
  /\ IF enabled THEN GoTo(u, "allowed") ELSE Ends(u)
  /\ UNCHANGED <<state, rows, listing, offered, edits, held>> /\ WalkAside

ReadAllowed(u) ==
  /\ IsAt(u, "allowed") /\ levels[calls[u].role] # "none"
  /\ GoTo(u, IF calls[u].op \in Writes THEN "level" ELSE "page")
  /\ UNCHANGED <<state, rows, listing, offered, edits, held>> /\ WalkAside

ReadNotAllowed(u) ==
  /\ IsAt(u, "allowed") /\ levels[calls[u].role] = "none"
  /\ Ends(u)
  /\ UNCHANGED <<state, rows, listing, offered, edits, held>> /\ WalkAside

\* Faulty: any level above "none" will do.
ReadLevelAny(u) ==
  /\ IsAt(u, "level")
  /\ IF AppRule(calls[u].op, calls[u].role) THEN GoTo(u, "target") ELSE Ends(u)
  /\ UNCHANGED <<state, rows, listing, offered, edits, held>> /\ WalkAside

ReadLevel(u) ==
  /\ IsAt(u, "level")
  /\ IF levels[calls[u].role] = "write" /\ AppRule(calls[u].op, calls[u].role)
       THEN GoTo(u, "target") ELSE Ends(u)
  /\ UNCHANGED <<state, rows, listing, offered, edits, held>> /\ WalkAside

IsOutstanding(e) == events[e] = Unacked

\* The SELECT: nothing to do, or the value the write goes by.
ReadTarget(u) ==
  /\ IsAt(u, "target")
  /\ LET call == calls[u]
         isNeeded ==
           CASE call.op = "ackAlertEvent"     -> IsOutstanding(call.target)
             [] call.op = "ackAllAlertEvents" -> \E e \in Events : IsOutstanding(e)
             [] call.op = "toggleAlertRule"   -> rule # NULL
     IN  IF isNeeded
           THEN calls' = [calls EXCEPT ![u].at = "write",
                            ![u].was = IF call.op = "toggleAlertRule" THEN rule ELSE NULL]
           ELSE Ends(u)
  /\ UNCHANGED <<state, rows, listing, offered, edits, held>> /\ WalkAside

AckedBy(u, E) ==
  [e \in Events |-> IF e \in E THEN Ack(u, "assistant") ELSE events[e]]

\* Faulty: the UPDATE goes by the SELECT only.
AckWriteAgain(u) ==
  /\ IsAt(u, "write") /\ calls[u].op = "ackAlertEvent"
  /\ IF events[calls[u].target] # NULL
       THEN events' = AckedBy(u, {calls[u].target}) ELSE UNCHANGED events
  /\ Ends(u)
  /\ UNCHANGED <<enabled, levels, roles, rule, rows, listing, offered, edits, held>>
  /\ WalkAside

\* UPDATE ... AND acked = 0: it may find nothing to change, and is still answered
\* and logged as an acknowledgement.
AckWrite(u) ==
  /\ IsAt(u, "write") /\ calls[u].op = "ackAlertEvent"
  /\ events[calls[u].target] # NULL
  /\ events' = AckedBy(u, {calls[u].target} \cap {e \in Events : IsOutstanding(e)})
  /\ Ends(u)
  /\ UNCHANGED <<enabled, levels, roles, rule, rows, listing, offered, edits, held>>
  /\ WalkAside

\* The event was deleted in between: reading it back fails.
AckFails(u) ==
  /\ IsAt(u, "write") /\ calls[u].op = "ackAlertEvent"
  /\ events[calls[u].target] = NULL
  /\ Ends(u)
  /\ UNCHANGED <<state, rows, listing, offered, edits, held>> /\ WalkAside

AckAllWrite(u) ==
  /\ IsAt(u, "write") /\ calls[u].op = "ackAllAlertEvents"
  /\ events' = AckedBy(u, {e \in Events : IsOutstanding(e)})
  /\ Ends(u)
  /\ UNCHANGED <<enabled, levels, roles, rule, rows, listing, offered, edits, held>>
  /\ WalkAside

ToggleWrite(u) ==
  /\ IsAt(u, "write") /\ calls[u].op = "toggleAlertRule"
  /\ rule' = IF rule = NULL THEN NULL ELSE ~calls[u].was
  /\ Ends(u)
  /\ UNCHANGED <<enabled, levels, roles, events, rows, listing, offered, edits, held>>
  /\ WalkAside

\* Faulty: a page may be cut to nothing.
FittedOrEmpty(page) == {SubSeq(page, 1, k) : k \in 0..Len(page)}

\* _fit: a prefix of the page, by the size of its rows, and never an empty one.
Fitted(page) ==
  IF page = <<>> THEN {page} ELSE {SubSeq(page, 1, k) : k \in 1..Len(page)}

\* LIMIT and OFFSET; the panel goes on behind what it was given until a page is empty.
Page(u) ==
  /\ IsAt(u, "page")
  /\ LET spec == ListingOf[listing]
         page == IF spec.paged
                   THEN SubSeq(rows, offset + 1,
                               IF offset + PageSize < Len(rows)
                                 THEN offset + PageSize ELSE Len(rows))
                   ELSE rows
     IN  \E given \in Fitted(page) :
           /\ got' = got \cup Range(given)
           /\ offset' = offset + Len(given)
           /\ walk' = IF given = <<>> \/ ~spec.paged THEN "over" ELSE "on"
  /\ Ends(u)
  /\ UNCHANGED <<state, rows, listing, offered, edits, held, steady, slips>>

Calls ==
  \E u \in Users :
    \/ ReadEnabled(u) \/ ReadAllowed(u) \/ ReadNotAllowed(u) \/ ReadLevel(u)
    \/ ReadTarget(u) \/ AckWrite(u) \/ AckFails(u) \/ AckAllWrite(u)
    \/ ToggleWrite(u) \/ Page(u)

-----------------------------------------------------------------------------
(* Everybody else.                                                         *)

\* GET /.well-known/resonance.json.
FetchGrant ==
  /\ offered' = [offered EXCEPT !.grant = Granted(WritesAreEnabled)]
  /\ UNCHANGED <<state, rows, listing, calls, edits, held>> /\ WalkAside

\* GET /api/resonance/openapi.json, a request of its own.
FetchSpec ==
  /\ offered' = [offered EXCEPT !.spec = Specified(WritesAreEnabled)]
  /\ UNCHANGED <<state, rows, listing, calls, edits, held>> /\ WalkAside

\* Settings -> Resonance.  A gate that opens during a call counts for it.
SaveSettings(s) ==
  /\ Counted
  /\ enabled' = s.enabled /\ levels' = [levels EXCEPT ![s.role] = s.level]
  /\ held' = [u \in Users |->
       IF calls[u] = NULL THEN {}
       ELSE held[u] \cup (IF s.enabled THEN {"enabled"} ELSE {})
                    \cup (IF levels'[calls[u].role] = "write" THEN {"trusted"} ELSE {})]
  /\ UNCHANGED <<roles, events, rule, rows, listing, offered, calls>>
  /\ WalkAside

\* PATCH /users/{id}.
SetRole(u, role) ==
  /\ Counted
  /\ roles' = [roles EXCEPT ![u] = role]
  /\ UNCHANGED <<enabled, levels, events, rule, rows, listing, offered,
                 calls, held>> /\ WalkAside

\* The page's ack of one event takes over whoever acknowledged before.
PageAck(u, e) ==
  /\ roles[u] \in {"admin", "analyst"}
  /\ events[e] # NULL /\ Counted
  /\ events' = [events EXCEPT ![e] = Ack(u, "page")]
  /\ UNCHANGED <<enabled, levels, roles, rule, rows, listing, offered,
                 calls, held>> /\ WalkAside

\* Its ack of all does not.
PageAckAll(u) ==
  /\ roles[u] \in {"admin", "analyst"} /\ Counted
  /\ events' = [e \in Events |->
                  IF IsOutstanding(e) THEN Ack(u, "page") ELSE events[e]]
  /\ UNCHANGED <<enabled, levels, roles, rule, rows, listing, offered,
                 calls, held>> /\ WalkAside

\* An event is resolved and, in the end, deleted by the alert cleanup.
RemoveEvent(e) ==
  /\ events[e] # NULL /\ Counted
  /\ events' = [events EXCEPT ![e] = NULL]
  /\ UNCHANGED <<enabled, levels, roles, rule, rows, listing, offered,
                 calls, held>> /\ WalkAside

\* An administrator toggles or deletes the rule on the page.
PageRule(r) ==
  /\ rule # NULL /\ r # rule /\ Counted
  /\ rule' = r
  /\ UNCHANGED <<enabled, levels, roles, events, rows, listing, offered,
                 calls, held>> /\ WalkAside

RowsAside ==
  UNCHANGED <<state, listing, offered, calls, held, walkVars>>

\* A row comes to match the filters.
RowEnters(r, p) ==
  /\ r \notin Range(rows) /\ r \notin steady \cup got
  /\ ListingOf[listing].enters = "front" => p = 1
  /\ Counted
  /\ rows' = InsertAt(rows, p, r)
  /\ RowsAside /\ UNCHANGED <<steady, slips>>

\* A row no longer does.
RowLeaves(p) ==
  /\ ListingOf[listing].leaves = "last" => p = Len(rows)
  /\ Counted
  /\ rows' = RemoveAt(rows, p)
  /\ steady' = steady \ {rows[p]}
  /\ slips' = IF walk = "on" /\ p <= offset THEN slips + 1 ELSE slips
  /\ RowsAside

\* A row is seen again, and is the most recent now.
RowMoves(p) ==
  /\ ListingOf[listing].moves /\ Counted
  /\ rows' = <<rows[p]>> \o RemoveAt(rows, p)
  /\ slips' = IF walk = "on" /\ p > offset THEN slips + 1 ELSE slips
  /\ RowsAside /\ UNCHANGED steady

Others ==
  \/ FetchGrant \/ FetchSpec
  \/ \E s \in Settings : SaveSettings(s)
  \/ \E u \in Users, role \in RoleInputs : SetRole(u, role)
  \/ \E u \in Users : PageAckAll(u) \/ \E e \in Events : PageAck(u, e)
  \/ \E e \in Events : RemoveEvent(e)
  \/ \E r \in BOOLEAN \cup {NULL} : PageRule(r)
  \/ \E r \in RowIds, p \in 1..(Len(rows) + 1) : RowEnters(r, p)
  \/ \E p \in DOMAIN rows : RowLeaves(p) \/ RowMoves(p)

Panel ==
  \E u \in Askers :
    \/ \E op \in Reads : Ask(u, op, NULL)
    \/ \E e \in Events : Ask(u, "ackAlertEvent", e)
    \/ \E op \in Writes \ {"ackAlertEvent"} : Ask(u, op, NULL)

\* The process ends, and comes back: its calls are gone.
Restart ==
  /\ calls # NoneOf(Users) /\ Counted
  /\ calls' = NoneOf(Users)
  /\ UNCHANGED <<state, rows, listing, offered, held>> /\ WalkAside

Next == Calls \/ Others \/ Panel \/ Restart

Spec == Init /\ [][Next]_vars

-----------------------------------------------------------------------------

\* A walk through a paged listing, page by page until an empty one, returns every
\* row that matched from its start to its end, save as many as slipped past the
\* offset meanwhile: however few rows fit on a page, and whatever is inserted.
\* Nothing slips in the log, whose rows go from its far end only.
WalkMissesNothing ==
  (walk = "over" /\ ListingOf[listing].paged) =>
    Cardinality((steady \cap Range(rows)) \ got) <= slips

Inv == TypeOK /\ WalkMissesNothing

\* The assistant changes an event or the rule only if, at moments of that very
\* request, it was switched on and the role was set to "write", and if the role
\* may do the same on the page, whatever administrators change meanwhile.
ChangesArePermitted ==
  [][\A u \in Users :
       (calls[u] # NULL /\ calls'[u] = NULL /\ <<events, rule>>' # <<events, rule>>) =>
         /\ held[u] = {"enabled", "trusted"}
         /\ AppRule(calls[u].op, calls[u].role)]_vars

\* Who acknowledged an event first stays on record: only a person on the page
\* takes an acknowledgement over, never the assistant.
AckKept ==
  [][\A e \in Events :
       (events[e] \notin {NULL, Unacked} /\ events'[e] \notin {NULL, events[e]}) =>
         events'[e].via = "page"]_vars

-----------------------------------------------------------------------------
(* What the code's words say and it does not do.                           *)

\* resonance_data.py:1276: "acknowledged: True if this call acknowledged it": a
\* call that got as far as writing has left its user's acknowledgement.
AnswerIsTrue ==
  [][\A u \in Users :
       (IsAt(u, "write") /\ calls[u].op = "ackAlertEvent" /\ calls'[u] = NULL
         /\ edits' = edits /\ events'[calls[u].target] # NULL) =>
         events'[calls[u].target] = Ack(u, "assistant")]_vars
=============================================================================
