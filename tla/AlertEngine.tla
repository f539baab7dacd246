----------------------------- MODULE AlertEngine -----------------------------
(***************************************************************************)
(* The alert engine: rules are evaluated against subnets, conflicts and    *)
(* collectors while the API, the pollers and the reconciliation change     *)
(* all of them.                                                            *)
(*                                                                         *)
(* An evaluation runs on one connection.  Its SELECTs are separate reads   *)
(* until its first INSERT or UPDATE; from there to the commit it is the    *)
(* only writer.  alert_events is kept as a count per target: events of one *)
(* rule, subnet and address differ in nothing the engine looks at.         *)
(***************************************************************************)
EXTENDS Integers, FiniteSets

CONSTANTS
  NULL,        \* SQL NULL / Python None
  RuleIds,     \* ids of the rules users may create; never reused
  SubnetIds,   \* ids of the subnets users may create; never reused
  IPs,         \* addresses that may be in conflict
  Collectors,  \* collectors that may be in status error
  InitSubnets, \* the subnets that exist at the start
  RuleInputs,  \* [cond, threshold, cooldown, enabled] users may configure
  UtilInputs,  \* pct_used a tick may record
  FoundInputs, \* conflicts, [type, ip, subnet], a tick may record
  MaxSame,     \* bound: active events of one target told apart
  MaxEdits     \* bound: changes by others and failures in one behaviour

Conditions == {"subnet_near_exhaustion", "dhcp_pool_exhausted",
               "ip_conflict_detected", "dns_ptr_mismatch", "collector_down"}
OrNull(S) == S \cup {NULL}
Rule == [cond : Conditions, threshold : OrNull(0..100), cooldown : BOOLEAN,
         enabled : BOOLEAN]
Conflict == [type : {"duplicate_ip", "dns_mismatch"}, ip : IPs,
             subnet : OrNull(SubnetIds)]

ASSUME AlertAssumption ==
  /\ RuleIds \subseteq Int
  /\ NULL \notin RuleIds \cup SubnetIds \cup IPs \cup Collectors \cup Rule
  /\ IPs \cap Collectors = {}
  /\ InitSubnets \subseteq SubnetIds
  /\ RuleInputs \subseteq Rule
  /\ UtilInputs \subseteq 0..100
  /\ FoundInputs \subseteq Conflict
  /\ MaxSame \in Nat \ {0} /\ MaxEdits \in Nat
  /\ NULL \notin 0..100

VARIABLES
  subnets, retired, \* existing subnets, and deleted ones
  util,       \* subnet_utilization_history: latest pct_used of each subnet
  conflicts,  \* open records of conflicts
  down,       \* enabled collectors whose status is "error"
  known,      \* subnets the reconciliation tick under way has read
  rules,      \* alert_rules: id -> row
  deleted,    \* ids of deleted rules
  alerts,     \* alert_events as committed: target -> count
  txn,        \* alert_events as the engine has changed it, NULL if it has not
  pc,         \* the engine: "idle", "rule" (next one) or "fire"
  plan,       \* enabled rules as read, not yet done
  bad,        \* targets in violation of the first of them
  todo,       \* those not fired yet
  edits,      \* changes so far, at most MaxEdits
  calm,       \* for properties: nobody wrote since the evaluation began
  fresh       \* nor since the last one that was committed began

world == <<subnets, retired, util, conflicts, down, known, rules, deleted>>
ghost == <<calm, fresh>>
vars == <<world, alerts, txn, pc, plan, bad, todo, edits, ghost>>

-----------------------------------------------------------------------------

Target == [rule : OrNull(RuleIds), subnet : OrNull(SubnetIds),
           mark : OrNull(IPs \cup Collectors)]

\* resolved: "recent" within the rule's cooldown, "past" before it.
Count == [active : 0..MaxSame, resolved : {"none", "past", "recent"}]
Events == [Target -> Count]

ASSUME NoEventsIsNull == NULL \notin Events

NoEvent == [active |-> 0, resolved |-> "none"]
NoRule == [r \in RuleIds |-> NULL]

TypeOK ==
  /\ subnets \subseteq SubnetIds /\ retired \subseteq SubnetIds
  /\ util \in [SubnetIds -> OrNull(0..100)]
  /\ conflicts \subseteq Conflict
  /\ down \subseteq Collectors
  /\ known \subseteq SubnetIds
  /\ rules \in [RuleIds -> OrNull(Rule)] /\ deleted \subseteq RuleIds
  /\ alerts \in Events /\ txn \in OrNull(Events)
  /\ pc \in {"idle", "rule", "fire"}
  /\ plan \in [RuleIds -> OrNull(Rule)]
  /\ bad \subseteq Target /\ todo \subseteq bad
  /\ edits \in 0..MaxEdits
  /\ calm \in BOOLEAN /\ fresh \in BOOLEAN

Init ==
  /\ subnets = InitSubnets /\ retired = {}
  /\ util = [s \in SubnetIds |-> NULL]
  /\ conflicts = {} /\ down = {} /\ known = {}
  /\ rules = NoRule /\ deleted = {}
  /\ alerts = [t \in Target |-> NoEvent] /\ txn = NULL
  /\ pc = "idle" /\ plan = NoRule /\ bad = {} /\ todo = {}
  /\ edits = 0 /\ calm = FALSE /\ fresh = FALSE

-----------------------------------------------------------------------------
(* The conditions.                                                         *)

\* rule["threshold"] or default: a threshold of 0 is taken for none.
Threshold(row) ==
  IF row.threshold \notin {NULL, 0} THEN row.threshold
  ELSE IF row.cond = "dhcp_pool_exhausted" THEN 95 ELSE 85

IsUtilization(cond) == cond \in {"subnet_near_exhaustion", "dhcp_pool_exhausted"}
IsConflict(cond) == cond \in {"ip_conflict_detected", "dns_ptr_mismatch"}

On(r, s, mark) == [rule |-> r, subnet |-> s, mark |-> mark]

\* The targets in violation of rule r, from one SELECT.
Violating(r, row) ==
  IF IsUtilization(row.cond)
    THEN {On(r, s, NULL) :
            s \in {x \in SubnetIds : util[x] # NULL /\ util[x] >= Threshold(row)}}
  ELSE IF IsConflict(row.cond)
    THEN {On(r, c.subnet, c.ip) :
            c \in {x \in conflicts : row.cond = "dns_ptr_mismatch"
                                       => x.type = "dns_mismatch"}}
  ELSE {On(r, NULL, c) : c \in down}

-----------------------------------------------------------------------------
(* One evaluation.                                                         *)

Table == IF txn = NULL THEN alerts ELSE txn

ReadRules ==
  /\ pc = "idle"
  /\ plan' = [r \in RuleIds |-> IF rules[r] # NULL /\ rules[r].enabled
                                  THEN rules[r] ELSE NULL]
  /\ pc' = "rule" /\ calm' = TRUE
  /\ UNCHANGED <<world, alerts, txn, bad, todo, edits, fresh>>

IsNext(r) ==
  plan[r] # NULL /\ \A q \in RuleIds : plan[q] # NULL => r <= q

Gather(r) ==
  /\ pc = "rule" /\ IsNext(r)
  /\ bad' = Violating(r, plan[r]) /\ todo' = bad'
  /\ pc' = "fire"
  /\ UNCHANGED <<world, alerts, txn, plan, edits, ghost>>

\* Faulty: subnet_id = ? AND ip_address = ?, which no NULL satisfies.
HasActiveEqual(table, t) ==
  table[t].active > 0 /\ t.subnet # NULL /\ t.mark # NULL

HasActive(table, t) == table[t].active > 0

\* Faulty: no cooldown.
CoolingDownNever(table, t, row) == FALSE

\* Faulty: a cooldown of 0 minutes counts like any other.
CoolingDownAlways(table, t, row) == table[t].resolved = "recent"

CoolingDown(table, t, row) == row.cooldown /\ table[t].resolved = "recent"

Least(m, n) == IF m < n THEN m ELSE n

\* _fire_or_keep.
Fire(r, t) ==
  /\ pc = "fire" /\ IsNext(r) /\ t \in todo
  /\ todo' = todo \ {t}
  /\ txn' = IF HasActive(Table, t) \/ CoolingDown(Table, t, plan[r]) THEN txn
            ELSE [Table EXCEPT ![t].active = Least(@ + 1, MaxSame)]
  /\ UNCHANGED <<world, alerts, pc, plan, bad, edits, ghost>>

\* Faulty: the subnet of a conflict keeps its event active as well.
KeepsByEither(r, t) ==
  \/ t.subnet # NULL /\ \E b \in bad : b.subnet = t.subnet
  \/ t.mark # NULL /\ \E b \in bad : b.mark = t.mark

\* Subnets count for the utilization rules only, addresses and collectors for
\* the others only.
Keeps(r, t) ==
  LET cond == plan[r].cond
  IN  IF IsUtilization(cond)
        THEN t.subnet # NULL /\ \E b \in bad : b.subnet = t.subnet
        ELSE t.mark # NULL /\ \E b \in bad : b.mark = t.mark

\* Faulty: an event that has lost its subnet is passed over.
ClearedKnown(r) ==
  {t \in Target : /\ t.rule = r /\ Table[t].active > 0
                  /\ (t.subnet # NULL \/ t.mark # NULL) /\ ~Keeps(r, t)}

Cleared(r) ==
  {t \in Target : t.rule = r /\ Table[t].active > 0 /\ ~Keeps(r, t)}

\* _auto_resolve, after the last target; one rule is done.
AutoResolve(r) ==
  /\ pc = "fire" /\ IsNext(r) /\ todo = {}
  /\ LET done == Cleared(r)
     IN  txn' = IF done = {} THEN txn
                ELSE [t \in Target |->
                        IF t \in done THEN [active |-> 0, resolved |-> "recent"]
                        ELSE Table[t]]
  /\ plan' = [plan EXCEPT ![r] = NULL]
  /\ bad' = {} /\ pc' = "rule"
  /\ UNCHANGED <<world, alerts, todo, edits, ghost>>

Commit ==
  /\ pc = "rule" /\ plan = NoRule
  /\ alerts' = Table /\ txn' = NULL /\ pc' = "idle"
  /\ fresh' = calm /\ calm' = FALSE
  /\ UNCHANGED <<world, plan, bad, todo, edits>>

Evaluate ==
  \/ ReadRules \/ Commit
  \/ \E r \in RuleIds : Gather(r) \/ AutoResolve(r) \/ \E t \in todo : Fire(r, t)

\* The evaluation raises or the process stops: nothing of it is committed.
Abort ==
  /\ pc # "idle" /\ edits < MaxEdits /\ edits' = edits + 1
  /\ txn' = NULL /\ plan' = NoRule /\ bad' = {} /\ todo' = {} /\ pc' = "idle"
  /\ calm' = FALSE
  /\ UNCHANGED <<world, alerts, fresh>>

-----------------------------------------------------------------------------
(* Other writers; they wait while the engine holds the write lock.         *)

engine == <<txn, pc, plan, bad, todo>>

Disturb == txn = NULL /\ calm' = FALSE /\ fresh' = FALSE /\ UNCHANGED engine
Edit == Disturb /\ edits < MaxEdits /\ edits' = edits + 1

CreateRule(r, row) ==
  /\ rules[r] = NULL /\ r \notin deleted
  /\ rules' = [rules EXCEPT ![r] = row]
  /\ Edit
  /\ UNCHANGED <<subnets, retired, util, conflicts, down, known, deleted, alerts>>

UpdateRule(r, row) ==
  /\ rules[r] # NULL
  /\ rules' = [rules EXCEPT ![r] = row]
  /\ Edit
  /\ UNCHANGED <<subnets, retired, util, conflicts, down, known, deleted, alerts>>

ToggleRule(r) ==
  /\ rules[r] # NULL
  /\ rules' = [rules EXCEPT ![r].enabled = ~@]
  /\ Edit
  /\ UNCHANGED <<subnets, retired, util, conflicts, down, known, deleted, alerts>>

Merge(a, b) ==
  [active |-> Least(a.active + b.active, MaxSame),
   resolved |-> IF "recent" \in {a.resolved, b.resolved} THEN "recent"
                ELSE IF "past" \in {a.resolved, b.resolved} THEN "past"
                ELSE "none"]

\* DELETE /alerts/rules/{id}: ON DELETE SET NULL takes its events along.
DeleteRule(r) ==
  /\ rules[r] # NULL
  /\ rules' = [rules EXCEPT ![r] = NULL] /\ deleted' = deleted \cup {r}
  /\ alerts' = [t \in Target |->
       IF t.rule = r THEN NoEvent
       ELSE IF t.rule = NULL
         THEN Merge(alerts[t], alerts[On(r, t.subnet, t.mark)])
       ELSE alerts[t]]
  /\ Edit
  /\ UNCHANGED <<subnets, retired, util, conflicts, down, known>>

\* Faulty: resolving twice is counted twice.
ResolveEventTwice(t) ==
  /\ alerts[t] # NoEvent
  /\ alerts' = [alerts EXCEPT ![t].active = @ - 1, ![t].resolved = "recent"]
  /\ Edit
  /\ UNCHANGED world

\* POST /alerts/events/{id}/resolve of one event of t, active or not.
ResolveEvent(t) ==
  /\ alerts[t] # NoEvent
  /\ \/ alerts[t].active > 0
          /\ alerts' = [alerts EXCEPT ![t].active = @ - 1, ![t].resolved = "recent"]
     \/ alerts[t].resolved # "none"
          /\ alerts' = [alerts EXCEPT ![t].resolved = "recent"]
  /\ Edit
  /\ UNCHANGED world

\* The daily cleanup: resolved events created long ago go, however recently
\* they were resolved.
Cleanup(t) ==
  /\ alerts[t].resolved # "none"
  /\ alerts' = [alerts EXCEPT ![t].resolved = "none"]
  /\ Edit
  /\ UNCHANGED world

\* The rule's cooldown_min have passed.
CooldownPasses(t) ==
  LET Past(table) ==
        IF table[t].resolved = "recent"
          THEN [table EXCEPT ![t].resolved = "past"] ELSE table
  IN  /\ Table[t].resolved = "recent"
      /\ alerts' = Past(alerts)
      /\ txn' = IF txn = NULL THEN NULL ELSE Past(txn)
      /\ calm' = FALSE /\ fresh' = FALSE
      /\ UNCHANGED <<world, pc, plan, bad, todo, edits>>

Time == \E t \in Target : CooldownPasses(t)

CreateSubnet(s) ==
  /\ s \notin subnets \cup retired
  /\ subnets' = subnets \cup {s}
  /\ Edit
  /\ UNCHANGED <<retired, util, conflicts, down, known, rules, deleted, alerts>>

\* DELETE /subnets/{id}: samples and conflicts cascade, events lose the subnet.
DeleteSubnet(s) ==
  /\ s \in subnets
  /\ subnets' = subnets \ {s} /\ retired' = retired \cup {s}
  /\ util' = [util EXCEPT ![s] = NULL]
  /\ conflicts' = {c \in conflicts : c.subnet # s}
  /\ alerts' = [t \in Target |->
       IF t.subnet = s THEN NoEvent
       ELSE IF t.subnet = NULL
         THEN Merge(alerts[t], alerts[On(t.rule, s, t.mark)])
       ELSE alerts[t]]
  /\ Edit
  /\ UNCHANGED <<down, known, rules, deleted>>

\* The reconciliation tick (Reconcile.tla), as far as alerts depend on it: it
\* samples and records conflicts for the subnets it read, deleted since or not.
TickReads ==
  /\ known' = subnets
  /\ UNCHANGED <<subnets, retired, util, conflicts, down, rules, deleted, alerts, engine,
                 edits, ghost>>

TickWrites ==
  /\ known # {}
  /\ \E sample \in [known -> UtilInputs] :
       util' = [s \in SubnetIds |-> IF s \in known THEN sample[s] ELSE util[s]]
  /\ \E found \in SUBSET {c \in FoundInputs : c.subnet \in known} :
       conflicts' = conflicts \cup found
  /\ known' = {}
  /\ Edit
  /\ UNCHANGED <<subnets, retired, down, rules, deleted, alerts>>

\* POST /conflicts/{id}/resolve.
ResolveConflict(c) ==
  /\ conflicts' = conflicts \ {c}
  /\ Edit
  /\ UNCHANGED <<subnets, retired, util, down, known, rules, deleted, alerts>>

\* A poll fails or succeeds, or the collector is edited or deleted.
CollectorChanges(c) ==
  /\ down' = IF c \in down THEN down \ {c} ELSE down \cup {c}
  /\ Edit
  /\ UNCHANGED <<subnets, retired, util, conflicts, known, rules, deleted, alerts>>

Users ==
  \/ \E r \in RuleIds :
       \/ ToggleRule(r) \/ DeleteRule(r)
       \/ \E row \in RuleInputs : CreateRule(r, row) \/ UpdateRule(r, row)
  \/ \E t \in Target : ResolveEvent(t) \/ Cleanup(t)
  \/ \E s \in SubnetIds : CreateSubnet(s) \/ DeleteSubnet(s)
  \/ \E c \in conflicts : ResolveConflict(c)
  \/ \E c \in Collectors : CollectorChanges(c)

Next ==
  \/ Evaluate \/ Abort \/ Users \/ TickReads \/ TickWrites \/ Time

Spec == Init /\ [][Next]_vars

\* The loop catches every exception and evaluates again after a sleep, and time
\* passes; nothing else is owed.
FairSpec == Spec /\ WF_vars(Evaluate) /\ WF_vars(Time)

-----------------------------------------------------------------------------
(* What users rely on.                                                     *)

IsEnabled(r) == r # NULL /\ rules[r] # NULL /\ rules[r].enabled

\* However often the engine evaluates, fails, restarts, and users resolve events
\* or edit the rule, a rule has at most one active event for one target: a
\* subnet, an address of a subnet, or a collector.  (Events that have lost their
\* subnet by its deletion may coincide.)
OneActive ==
  \A t \in Target :
    t.rule # NULL /\ (t.subnet # NULL \/ t.mark \in Collectors) =>
      alerts[t].active <= 1

Inv == TypeOK /\ OneActive

\* After an evaluation during which nobody else wrote, and until somebody does,
\* everything in violation of an enabled rule has an active event, or had one
\* that was resolved within the rule's cooldown.
BadIsShown ==
  fresh => \A r \in RuleIds : IsEnabled(r) =>
    \A t \in Violating(r, rules[r]) :
      alerts[t].active > 0 \/ (rules[r].cooldown /\ alerts[t].resolved = "recent")

\* The event's subnet, or its address or collector, is in violation.
Justified(t) ==
  LET row == rules[t.rule]
  IN  \E b \in Violating(t.rule, row) :
        IF IsUtilization(row.cond) THEN b.subnet = t.subnet ELSE b.mark = t.mark

\* Then every active event of an enabled rule has a reason: those whose subnet
\* was deleted, whose conflict was resolved, whose collector recovered and those
\* left from before the rule was edited are resolved.
ClearedIsResolved ==
  fresh => \A t \in Target :
    IsEnabled(t.rule) /\ alerts[t].active > 0 => Justified(t)

\* Within the cooldown an undisturbed evaluation opens no new event for a target,
\* whichever way its last one was resolved.
CooldownHeld ==
  [][Commit /\ calm => \A t \in Target :
       alerts[t].active = 0 /\ alerts'[t].active > 0 =>
         ~(rules[t.rule].cooldown /\ alerts[t].resolved = "recent")]_vars

\* Once everyone else is quiet, exactly what is in violation of an enabled rule
\* comes to be shown, cooldowns, failed evaluations and lost events
\* notwithstanding.
EventuallyTold ==
  <>[](\A r \in RuleIds : IsEnabled(r) =>
         /\ \A t \in Violating(r, rules[r]) : alerts[t].active > 0
         /\ \A t \in Target : t.rule = r /\ alerts[t].active > 0 => Justified(t))

-----------------------------------------------------------------------------
(* What a docstring says and the code does not do.                         *)

\* alerts/engine.py:115: "Auto-resolve active alerts for this rule whose target
\* is no longer in violation."
OnlyViolatingIsActive ==
  fresh => \A t \in Target :
    IsEnabled(t.rule) /\ alerts[t].active > 0 => t \in Violating(t.rule, rules[t.rule])
=============================================================================
