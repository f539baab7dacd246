------------------------- MODULE AlertEngine_proofs -------------------------
(***************************************************************************)
(* Proofs about AlertEngine, for any rules, subnets, addresses, collectors *)
(* and bounds: one active event per target, and that an undisturbed        *)
(* evaluation shows exactly what is in violation and holds the cooldown.   *)
(***************************************************************************)
EXTENDS AlertEngine, TLAPS

-----------------------------------------------------------------------------
(* The inductive invariant.                                                *)

\* No event is about both a subnet and a collector.
Shaped(t) == t.subnet = NULL \/ t.mark \notin Collectors

\* A table with at most one active event for a target whose subnet or collector
\* is known.
Single(table) ==
  \A t \in Target :
    /\ table[t].active > 0 => Shaped(t)
    /\ t.rule # NULL /\ (t.subnet # NULL \/ t.mark \in Collectors) =>
         table[t].active <= 1

\* What the engine found is about the rule it is at.
EngineHolds ==
  /\ Single(alerts) /\ Single(Table)
  /\ pc = "idle" => txn = NULL
  /\ \A t \in bad : Shaped(t)
  /\ pc = "fire" => \A r \in RuleIds : IsNext(r) => \A t \in bad : t.rule = r

IsShown(table, t, row) ==
  table[t].active > 0 \/ (row.cooldown /\ table[t].resolved = "recent")

\* What a table says of a rule that was evaluated.
Settled(table, r) ==
  /\ \A t \in Violating(r, rules[r]) : IsShown(table, t, rules[r])
  /\ \A t \in Target : t.rule = r /\ table[t].active > 0 => Justified(t)

\* An evaluation nobody disturbed knows the rules as they are, has settled those
\* it is done with, and of the one it is at the targets it has fired.
CalmHolds ==
  calm =>
    /\ \A r \in RuleIds : plan[r] # NULL => plan[r] = rules[r]
    /\ \A r \in RuleIds : IsEnabled(r) /\ plan[r] = NULL => Settled(Table, r)
    /\ pc = "fire" => \A r \in RuleIds : IsNext(r) =>
         /\ bad = Violating(r, rules[r])
         /\ \A t \in bad \ todo : IsShown(Table, t, rules[r])

\* It keeps recent resolutions, and has opened nothing within a cooldown.
CooldownHolds ==
  calm => \A t \in Target :
    /\ alerts[t].resolved = "recent" => Table[t].resolved = "recent"
    /\ alerts[t].active = 0 /\ Table[t].active > 0 =>
         /\ t.rule \in RuleIds
         /\ ~(rules[t.rule].cooldown /\ alerts[t].resolved = "recent")

FreshHolds == fresh => \A r \in RuleIds : IsEnabled(r) => Settled(alerts, r)

IInv == TypeOK /\ EngineHolds /\ CalmHolds /\ CooldownHolds /\ FreshHolds

-----------------------------------------------------------------------------
(* Lemmas about targets, counts and tables.                                *)

LEMMA OnTyped ==
  \A r \in OrNull(RuleIds), s \in OrNull(SubnetIds), m \in OrNull(IPs \cup Collectors) :
    On(r, s, m) \in Target
  BY DEF On, Target

LEMMA TargetFields ==
  \A t \in Target : /\ t.rule \in OrNull(RuleIds) /\ t.subnet \in OrNull(SubnetIds)
                    /\ t.mark \in OrNull(IPs \cup Collectors)
  BY DEF Target

\* What a rule's SELECT returns: targets of that rule, none about a subnet and a
\* collector, each with what its condition is about.
LEMMA ViolatingTyped ==
  ASSUME TypeOK, NEW r \in RuleIds, NEW row \in Rule, NEW t \in Violating(r, row)
  PROVE  /\ t \in Target /\ t.rule = r /\ Shaped(t)
         /\ IF IsUtilization(row.cond) THEN t.subnet # NULL ELSE t.mark # NULL
<1>1. CASE IsUtilization(row.cond)
  <2>1. PICK s \in SubnetIds : t = On(r, s, NULL)
    BY <1>1 DEF Violating
  <2>. QED
    BY <1>1, <2>1, AlertAssumption DEF On, Target, OrNull, Shaped
<1>2. CASE ~IsUtilization(row.cond) /\ IsConflict(row.cond)
  <2>1. PICK c \in conflicts : t = On(r, c.subnet, c.ip)
    BY <1>2 DEF Violating
  <2>2. c.subnet \in OrNull(SubnetIds) /\ c.ip \in IPs
    BY DEF TypeOK, Conflict
  <2>. QED
    BY <1>2, <2>1, <2>2, AlertAssumption DEF On, Target, OrNull, Shaped
<1>3. CASE ~IsUtilization(row.cond) /\ ~IsConflict(row.cond)
  <2>1. PICK c \in down : t = On(r, NULL, c)
    BY <1>3 DEF Violating
  <2>2. c \in Collectors
    BY DEF TypeOK
  <2>. QED
    BY <1>3, <2>1, <2>2, AlertAssumption DEF On, Target, OrNull, Shaped
<1>. QED
  BY <1>1, <1>2, <1>3

LEMMA TableTyped == TypeOK => Table \in Events
  BY DEF TypeOK, Table, OrNull

LEMMA LeastTyped ==
  ASSUME NEW m \in Nat, NEW n \in Nat
  PROVE  Least(m, n) \in 0..n /\ Least(m, n) <= m
  BY DEF Least

LEMMA MergeTyped ==
  ASSUME NEW a \in Count, NEW b \in Count
  PROVE  /\ Merge(a, b) \in Count
         /\ Merge(a, b).active > 0 => a.active > 0 \/ b.active > 0
         /\ b.active = 0 => Merge(a, b).active = a.active
<1>1. a.active \in 0..MaxSame /\ b.active \in 0..MaxSame /\ MaxSame \in Nat
  BY AlertAssumption DEF Count
<1>2. Least(a.active + b.active, MaxSame) \in 0..MaxSame
      /\ (b.active = 0 => Least(a.active + b.active, MaxSame) = a.active)
      /\ (Least(a.active + b.active, MaxSame) > 0 => a.active > 0 \/ b.active > 0)
  BY <1>1 DEF Least
<1>3. Merge(a, b).active = Least(a.active + b.active, MaxSame)
      /\ Merge(a, b).resolved \in {"none", "past", "recent"}
      /\ Merge(a, b) = [active |-> Merge(a, b).active, resolved |-> Merge(a, b).resolved]
  BY DEF Merge
<1>. QED
  BY <1>2, <1>3 DEF Count

LEMMA NextIsOne ==
  ASSUME NEW r \in RuleIds, NEW q \in RuleIds, IsNext(r), IsNext(q)
  PROVE  r = q
  BY AlertAssumption DEF IsNext

-----------------------------------------------------------------------------
(* The invariant holds at first, and every step keeps it.                  *)

LEMMA InitInv == Init => IInv
<1>. SUFFICES ASSUME Init PROVE IInv
  OBVIOUS
<1>1. \A t \in Target : alerts[t] = NoEvent
  BY DEF Init
<1>2. NoEvent \in Count
  BY AlertAssumption DEF NoEvent, Count
<1>3. TypeOK
  <2>1. util \in [SubnetIds -> OrNull(0..100)] /\ rules \in [RuleIds -> OrNull(Rule)]
        /\ plan \in [RuleIds -> OrNull(Rule)]
    BY DEF Init, NoRule, OrNull
  <2>2. alerts \in Events
    BY <1>2 DEF Init, Events
  <2>3. 0 \in 0..MaxEdits /\ InitSubnets \subseteq SubnetIds
    BY AlertAssumption
  <2>. QED
    BY <2>1, <2>2, <2>3 DEF Init, TypeOK, OrNull
<1>4. Single(alerts) /\ Table = alerts
  BY <1>1 DEF Single, NoEvent, Init, Table
<1>5. EngineHolds
  BY <1>4 DEF Init, EngineHolds
<1>. QED
  BY <1>3, <1>5 DEF Init, IInv, CalmHolds, CooldownHolds, FreshHolds

\* What others do ends the calm; of the engine's own facts it can disturb only
\* the counts.
LEMMA DisturbKeeps ==
  ASSUME IInv, Disturb, TypeOK', Single(alerts')
  PROVE  IInv'
<1>1. /\ calm' = FALSE /\ fresh' = FALSE /\ txn = NULL
      /\ UNCHANGED <<txn, pc, plan, bad, todo>>
  BY DEF Disturb, engine
<1>2. Single(Table') /\ Table' = alerts'
  BY <1>1 DEF Table
<1>3. \A r \in RuleIds : IsNext(r)' = IsNext(r)
  BY <1>1 DEF IsNext
<1>4. EngineHolds'
  <2>1. Single(alerts)' /\ Single(Table)'
    BY <1>2 DEF Single
  <2>. QED
    BY <1>1, <1>3, <2>1 DEF EngineHolds, IInv
<1>. QED
  BY <1>1, <1>4 DEF IInv, CalmHolds, CooldownHolds, FreshHolds

LEMMA EditTyped ==
  ASSUME TypeOK, Edit
  PROVE  /\ edits' \in 0..MaxEdits /\ calm' \in BOOLEAN /\ fresh' \in BOOLEAN
         /\ UNCHANGED <<txn, pc, plan, bad, todo>> /\ Disturb
<1>1. edits \in 0..MaxEdits /\ edits < MaxEdits /\ edits' = edits + 1 /\ MaxEdits \in Nat
  BY AlertAssumption DEF TypeOK, Edit
<1>2. edits' \in 0..MaxEdits
  BY <1>1
<1>3. Disturb
  BY DEF Edit
<1>4. calm' \in BOOLEAN /\ fresh' \in BOOLEAN /\ UNCHANGED <<txn, pc, plan, bad, todo>>
  BY <1>3 DEF Disturb, engine
<1>. QED
  BY <1>2, <1>3, <1>4

LEMMA RuleStep ==
  ASSUME IInv, NEW r \in RuleIds,
         \/ ToggleRule(r)
         \/ \E row \in RuleInputs : CreateRule(r, row) \/ UpdateRule(r, row)
  PROVE  IInv'
<1>1. PICK row \in Rule : rules' = [rules EXCEPT ![r] = row]
  <2>1. CASE ToggleRule(r)
    <3>1. rules[r] \in Rule
      BY <2>1 DEF ToggleRule, IInv, TypeOK, OrNull
    <3>2. [rules[r] EXCEPT !.enabled = ~rules[r].enabled] \in Rule
      BY <3>1 DEF Rule
    <3>3. rules' = [rules EXCEPT ![r] = [rules[r] EXCEPT !.enabled = ~rules[r].enabled]]
      BY <2>1, <3>1 DEF ToggleRule, IInv, TypeOK
    <3>. QED
      BY <3>2, <3>3
  <2>2. CASE \E row \in RuleInputs : CreateRule(r, row) \/ UpdateRule(r, row)
    BY <2>2, AlertAssumption DEF CreateRule, UpdateRule
  <2>. QED
    BY <2>1, <2>2
<1>2. UNCHANGED <<subnets, retired, util, conflicts, down, known, deleted, alerts>> /\ Edit
  BY DEF ToggleRule, CreateRule, UpdateRule
<1>3. TypeOK'
  BY <1>1, <1>2, EditTyped DEF IInv, TypeOK, OrNull
<1>4. Single(alerts')
  BY <1>2 DEF IInv, EngineHolds
<1>. QED
  BY <1>2, <1>3, <1>4, DisturbKeeps, EditTyped DEF IInv

\* The events of the rule join those that lost theirs before; only targets without
\* a rule gain any.
LEMMA DeleteRuleStep ==
  ASSUME IInv, NEW r \in RuleIds, DeleteRule(r)
  PROVE  IInv'
<1>1. Edit /\ UNCHANGED <<subnets, retired, util, conflicts, down, known>>
      /\ rules' = [rules EXCEPT ![r] = NULL] /\ deleted' = deleted \cup {r}
  BY DEF DeleteRule
<1>2. \A t \in Target :
        alerts'[t] = IF t.rule = r THEN NoEvent
                     ELSE IF t.rule = NULL
                       THEN Merge(alerts[t], alerts[On(r, t.subnet, t.mark)])
                     ELSE alerts[t]
  BY DEF DeleteRule
<1>3. \A t \in Target : On(r, t.subnet, t.mark) \in Target
                        /\ Shaped(On(r, t.subnet, t.mark)) = Shaped(t)
  BY OnTyped, TargetFields DEF OrNull, On, Shaped
<1>4. NoEvent \in Count /\ \A t \in Target : alerts[t] \in Count
  BY AlertAssumption DEF NoEvent, Count, IInv, TypeOK, Events
<1>5. ASSUME NEW t \in Target
      PROVE  alerts'[t] \in Count /\ (alerts'[t].active > 0 => Shaped(t))
  BY <1>2, <1>3, <1>4, MergeTyped DEF NoEvent, IInv, EngineHolds, Single
<1>6. ASSUME NEW t \in Target, t.rule # NULL, t.subnet # NULL \/ t.mark \in Collectors
      PROVE  alerts'[t].active <= 1
  BY <1>2, <1>6 DEF NoEvent, IInv, EngineHolds, Single
<1>7. alerts' \in Events
  <2>1. alerts' = [t \in Target |-> alerts'[t]]
    BY DEF DeleteRule
  <2>. QED
    BY <1>5, <2>1 DEF Events
<1>8. TypeOK'
  BY <1>1, <1>7, EditTyped DEF IInv, TypeOK, OrNull
<1>9. Single(alerts')
  BY <1>5, <1>6 DEF Single
<1>. QED
  BY <1>1, <1>8, <1>9, DisturbKeeps, EditTyped DEF IInv

\* The same for a deleted subnet: a collector's event never had one, so those of
\* collectors do not coincide with others.
LEMMA DeleteSubnetStep ==
  ASSUME IInv, NEW s \in SubnetIds, DeleteSubnet(s)
  PROVE  IInv'
<1>1. /\ Edit /\ UNCHANGED <<down, known, rules, deleted>>
      /\ subnets' = subnets \ {s} /\ retired' = retired \cup {s}
      /\ util' = [util EXCEPT ![s] = NULL]
      /\ conflicts' = {c \in conflicts : c.subnet # s}
  BY DEF DeleteSubnet
<1>2. \A t \in Target :
        alerts'[t] = IF t.subnet = s THEN NoEvent
                     ELSE IF t.subnet = NULL
                       THEN Merge(alerts[t], alerts[On(t.rule, s, t.mark)])
                     ELSE alerts[t]
  BY DEF DeleteSubnet
<1>3. \A t \in Target : /\ On(t.rule, s, t.mark) \in Target
                        /\ On(t.rule, s, t.mark).mark = t.mark
                        /\ On(t.rule, s, t.mark).subnet # NULL
  BY OnTyped, TargetFields, AlertAssumption DEF OrNull, On
<1>4. NoEvent \in Count /\ \A t \in Target : alerts[t] \in Count
  BY AlertAssumption DEF NoEvent, Count, IInv, TypeOK, Events
<1>5. ASSUME NEW t \in Target
      PROVE  alerts'[t] \in Count /\ (alerts'[t].active > 0 => Shaped(t))
  BY <1>2, <1>3, <1>4, MergeTyped DEF NoEvent, IInv, EngineHolds, Single, Shaped
<1>6. ASSUME NEW t \in Target, t.rule # NULL, t.subnet # NULL \/ t.mark \in Collectors
      PROVE  alerts'[t].active <= 1
  <2>1. CASE t.subnet # NULL
    BY <1>2, <1>6, <2>1 DEF NoEvent, IInv, EngineHolds, Single
  <2>2. CASE t.subnet = NULL /\ t.mark \in Collectors
    <3>. DEFINE from == On(t.rule, s, t.mark)
    <3>1. from \in Target /\ ~Shaped(from)
      BY <1>3, <2>2 DEF Shaped
    <3>2. alerts[from].active = 0
      BY <1>4, <3>1 DEF IInv, EngineHolds, Single, Count
    <3>3. alerts'[t] = Merge(alerts[t], alerts[from])
      BY <1>2, <2>2, AlertAssumption
    <3>. HIDE DEF from
    <3>. QED
      BY <1>4, <1>6, <3>1, <3>2, <3>3, MergeTyped DEF IInv, EngineHolds, Single
  <2>. QED
    BY <1>6, <2>1, <2>2
<1>7. alerts' \in Events
  <2>1. alerts' = [t \in Target |-> alerts'[t]]
    BY DEF DeleteSubnet
  <2>. QED
    BY <1>5, <2>1 DEF Events
<1>8. TypeOK'
  BY <1>1, <1>7, EditTyped DEF IInv, TypeOK, OrNull
<1>9. Single(alerts')
  BY <1>5, <1>6 DEF Single
<1>. QED
  BY <1>1, <1>8, <1>9, DisturbKeeps, EditTyped DEF IInv

\* No user opens an event.
LEMMA EventStep ==
  ASSUME IInv, NEW t \in Target, ResolveEvent(t) \/ Cleanup(t)
  PROVE  IInv'
<1>1. Edit /\ UNCHANGED world
  BY DEF ResolveEvent, Cleanup
<1>2. alerts[t] \in Count /\ DOMAIN alerts = Target
  BY DEF IInv, TypeOK, Events
<1>3. PICK row \in Count : alerts' = [alerts EXCEPT ![t] = row] /\ row.active <= alerts[t].active
  <2>1. CASE alerts[t].active > 0
             /\ alerts' = [alerts EXCEPT ![t].active = @ - 1, ![t].resolved = "recent"]
    <3>. DEFINE row == [alerts[t] EXCEPT !.active = alerts[t].active - 1,
                                         !.resolved = "recent"]
    <3>0. alerts[t].active \in 1..MaxSame /\ alerts[t].active - 1 \in 0..MaxSame
      BY <1>2, <2>1, AlertAssumption DEF Count
    <3>1. row \in Count /\ row.active <= alerts[t].active
      <4>1. row \in Count /\ row.active = alerts[t].active - 1
        BY <1>2, <3>0 DEF Count
      <4>. QED
        BY <3>0, <4>1
    <3>2. alerts' = [alerts EXCEPT ![t] = row]
      BY <1>2, <2>1 DEF IInv, TypeOK, Events, Count
    <3>. QED
      BY <3>1, <3>2
  <2>2. CASE \E x \in {"none", "recent"} : alerts' = [alerts EXCEPT ![t].resolved = x]
    <3>1. PICK x \in {"none", "recent"} : alerts' = [alerts EXCEPT ![t].resolved = x]
      BY <2>2
    <3>. DEFINE row == [alerts[t] EXCEPT !.resolved = x]
    <3>2. row \in Count /\ row.active <= alerts[t].active
      BY <1>2, AlertAssumption DEF Count
    <3>3. alerts' = [alerts EXCEPT ![t] = row]
      BY <1>2, <3>1 DEF IInv, TypeOK, Events, Count
    <3>. QED
      BY <3>2, <3>3
  <2>. QED
    BY <2>1, <2>2 DEF ResolveEvent, Cleanup
<1>4. TypeOK'
  BY <1>1, <1>3, EditTyped DEF world, IInv, TypeOK, Events
<1>5. Single(alerts')
  BY <1>2, <1>3, AlertAssumption DEF IInv, EngineHolds, Single, TypeOK, Events, Count
<1>. QED
  BY <1>1, <1>4, <1>5, DisturbKeeps, EditTyped DEF IInv

\* The cooldown of t passes in one table.
Past(table, t) ==
  IF table[t].resolved = "recent" THEN [table EXCEPT ![t].resolved = "past"] ELSE table

LEMMA PastTyped ==
  ASSUME NEW table \in Events, NEW t \in Target
  PROVE  /\ Past(table, t) \in Events
         /\ \A u \in Target : Past(table, t)[u].active = table[u].active
<1>. DEFINE row == [table[t] EXCEPT !.resolved = "past"]
<1>1. table[t] \in Count
  BY DEF Events
<1>2. row \in Count /\ row.active = table[t].active
  BY <1>1 DEF Count
<1>3. [table EXCEPT ![t].resolved = "past"] = [table EXCEPT ![t] = row]
  BY <1>1 DEF Events, Count
<1>. HIDE DEF row
<1>. QED
  BY <1>1, <1>2, <1>3 DEF Events, Past

LEMMA TimeStep ==
  ASSUME IInv, NEW t \in Target, CooldownPasses(t)
  PROVE  IInv'
<1>1. /\ alerts' = Past(alerts, t) /\ txn' = IF txn = NULL THEN NULL ELSE Past(txn, t)
      /\ calm' = FALSE /\ fresh' = FALSE
      /\ UNCHANGED <<subnets, retired, util, conflicts, down, known, rules, deleted,
                     pc, plan, bad, todo, edits>>
  BY DEF CooldownPasses, world, Past
<1>2. alerts \in Events /\ (txn # NULL => txn \in Events)
  BY DEF IInv, TypeOK, OrNull
<1>3. /\ alerts' \in Events /\ (txn # NULL => txn' \in Events)
      /\ (txn = NULL) <=> (txn' = NULL)
      /\ \A u \in Target : alerts'[u].active = alerts[u].active
      /\ txn # NULL => \A u \in Target : txn'[u].active = txn[u].active
  BY <1>1, <1>2, PastTyped, NoEventsIsNull
<1>4. TypeOK'
  BY <1>1, <1>3 DEF IInv, TypeOK, OrNull
<1>5. \A u \in Target : alerts'[u].active = alerts[u].active /\ Table'[u].active = Table[u].active
  BY <1>3 DEF Table
<1>6. EngineHolds'
  <2>1. Single(alerts)' /\ Single(Table)'
    BY <1>5 DEF IInv, EngineHolds, Single
  <2>2. \A r \in RuleIds : IsNext(r)' = IsNext(r)
    BY <1>1 DEF IsNext
  <2>. QED
    BY <1>1, <2>1, <2>2 DEF IInv, EngineHolds
<1>. QED
  BY <1>1, <1>4, <1>6 DEF IInv, CalmHolds, CooldownHolds, FreshHolds

\* Subnets, conflicts and collectors change without touching an event.
LEMMA WorldStep ==
  ASSUME IInv,
         \/ \E s \in SubnetIds : CreateSubnet(s)
         \/ \E c \in conflicts : ResolveConflict(c)
         \/ \E c \in Collectors : CollectorChanges(c)
         \/ TickWrites
  PROVE  IInv'
<1>1. Edit /\ UNCHANGED <<retired, rules, deleted, alerts>>
  BY DEF CreateSubnet, ResolveConflict, CollectorChanges, TickWrites
<1>2. /\ subnets' \subseteq SubnetIds /\ util' \in [SubnetIds -> OrNull(0..100)]
      /\ conflicts' \subseteq Conflict /\ down' \subseteq Collectors
      /\ known' \subseteq SubnetIds
  <2>1. CASE TickWrites
    <3>1. PICK sample \in [known -> UtilInputs] :
            util' = [s \in SubnetIds |-> IF s \in known THEN sample[s] ELSE util[s]]
      BY <2>1 DEF TickWrites
    <3>2. util' \in [SubnetIds -> OrNull(0..100)]
      BY <3>1, AlertAssumption DEF IInv, TypeOK, OrNull
    <3>3. conflicts' \subseteq Conflict
      BY <2>1, AlertAssumption DEF TickWrites, IInv, TypeOK
    <3>. QED
      BY <2>1, <3>2, <3>3 DEF TickWrites, IInv, TypeOK
  <2>. QED
    BY <2>1 DEF CreateSubnet, ResolveConflict, CollectorChanges, IInv, TypeOK
<1>3. TypeOK'
  BY <1>1, <1>2, EditTyped DEF IInv, TypeOK
<1>4. Single(alerts')
  BY <1>1 DEF IInv, EngineHolds
<1>. QED
  BY <1>1, <1>3, <1>4, DisturbKeeps, EditTyped DEF IInv

-----------------------------------------------------------------------------
(* The steps of an evaluation.                                             *)

LEMMA SameWorld ==
  ASSUME UNCHANGED world
  PROVE  \A r \in RuleIds :
           /\ IsEnabled(r)' = IsEnabled(r)
           /\ Violating(r, rules[r])' = Violating(r, rules[r])
           /\ \A t \in Target : t.rule = r => (Justified(t)' <=> Justified(t))
<1>1. UNCHANGED <<util, conflicts, down, rules>>
  BY DEF world
<1>2. \A r \in RuleIds : Violating(r, rules[r])' = Violating(r, rules[r])
  BY <1>1 DEF Violating
<1>. QED
  BY <1>1, <1>2 DEF IsEnabled, Justified

LEMMA EnabledRule ==
  ASSUME TypeOK, NEW r \in RuleIds, IsEnabled(r)
  PROVE  rules[r] \in Rule
  BY DEF IsEnabled, TypeOK, OrNull

LEMMA StaysSettled ==
  ASSUME TypeOK, UNCHANGED world, NEW r \in RuleIds, IsEnabled(r), Settled(Table, r),
         \A t \in Target : t.rule = r => Table'[t] = Table[t]
  PROVE  Settled(Table, r)'
<1>1. rules[r] \in Rule /\ rules' = rules
  BY EnabledRule DEF world
<1>2. \A t \in Violating(r, rules[r]) : t \in Target /\ t.rule = r
  BY <1>1, ViolatingTyped
<1>3. \A t \in Violating(r, rules[r])' : IsShown(Table, t, rules[r])'
  BY <1>1, <1>2, SameWorld DEF Settled, IsShown
<1>4. \A t \in Target : t.rule = r /\ Table'[t].active > 0 => Justified(t)'
  BY SameWorld DEF Settled
<1>. QED
  BY <1>3, <1>4 DEF Settled

LEMMA FreshStays ==
  ASSUME IInv, UNCHANGED world, UNCHANGED alerts, UNCHANGED fresh
  PROVE  FreshHolds'
<1>. SUFFICES ASSUME fresh, NEW r \in RuleIds, IsEnabled(r)' PROVE Settled(alerts, r)'
  BY DEF FreshHolds
<1>1. IsEnabled(r) /\ rules[r] \in Rule /\ rules' = rules
  BY SameWorld, EnabledRule DEF world, IInv
<1>2. Settled(alerts, r)
  BY <1>1 DEF IInv, FreshHolds
<1>3. \A t \in Violating(r, rules[r])' : IsShown(alerts, t, rules[r])'
  BY <1>1, <1>2, SameWorld DEF Settled, IsShown
<1>4. \A t \in Target : t.rule = r /\ alerts'[t].active > 0 => Justified(t)'
  BY <1>2, SameWorld DEF Settled
<1>. QED
  BY <1>3, <1>4 DEF Settled

LEMMA ReadRulesStep ==
  ASSUME IInv, ReadRules
  PROVE  IInv'
<1>1. /\ pc = "idle" /\ pc' = "rule" /\ calm' = TRUE
      /\ plan' = [r \in RuleIds |-> IF rules[r] # NULL /\ rules[r].enabled
                                      THEN rules[r] ELSE NULL]
      /\ UNCHANGED <<world, alerts, txn, bad, todo, edits, fresh>>
  BY DEF ReadRules
<1>2. Table' = Table /\ txn = NULL /\ Table = alerts
  BY <1>1 DEF Table, IInv, EngineHolds
<1>3. TypeOK'
  BY <1>1 DEF world, IInv, TypeOK, OrNull
<1>4. EngineHolds'
  <2>1. Single(alerts)' /\ Single(Table)'
    BY <1>1, <1>2 DEF IInv, EngineHolds, Single
  <2>. QED
    BY <1>1, <2>1 DEF IInv, EngineHolds
<1>5. CalmHolds'
  BY <1>1, <1>3, SameWorld DEF world, CalmHolds, IsEnabled
<1>6. CooldownHolds'
  <2>1. \A t \in Target : alerts'[t] = Table'[t] /\ alerts'[t].active \in 0..MaxSame
    BY <1>1, <1>2 DEF IInv, TypeOK, Events, Count
  <2>. QED
    BY <2>1, AlertAssumption DEF CooldownHolds
<1>. QED
  BY <1>1, <1>3, <1>4, <1>5, <1>6, FreshStays DEF IInv

LEMMA GatherStep ==
  ASSUME IInv, NEW r \in RuleIds, Gather(r)
  PROVE  IInv'
<1>1. /\ pc = "rule" /\ IsNext(r) /\ bad' = Violating(r, plan[r]) /\ todo' = bad'
      /\ pc' = "fire"
      /\ UNCHANGED <<world, alerts, txn, plan, edits, calm, fresh>>
  BY DEF Gather, ghost
<1>2. plan[r] \in Rule
  BY <1>1 DEF IsNext, IInv, TypeOK, OrNull
<1>3. Table' = Table /\ \A q \in RuleIds : IsNext(q)' = IsNext(q)
  BY <1>1 DEF Table, IsNext
<1>4. \A t \in bad' : t \in Target /\ t.rule = r /\ Shaped(t)
  BY <1>1, <1>2, ViolatingTyped DEF IInv
<1>5. TypeOK'
  BY <1>1, <1>4 DEF world, IInv, TypeOK
<1>6. \A q \in RuleIds : IsNext(q) => q = r
  BY <1>1, NextIsOne
<1>7. EngineHolds'
  <2>1. Single(alerts)' /\ Single(Table)'
    BY <1>1, <1>3 DEF IInv, EngineHolds, Single
  <2>. QED
    BY <1>1, <1>3, <1>4, <1>6, <2>1 DEF EngineHolds
<1>8. CalmHolds'
  <2>. SUFFICES ASSUME calm
                PROVE  /\ \A q \in RuleIds : plan'[q] # NULL => plan'[q] = rules'[q]
                       /\ \A q \in RuleIds : IsEnabled(q)' /\ plan'[q] = NULL
                                               => Settled(Table, q)'
                       /\ \A q \in RuleIds : IsNext(q)' =>
                            /\ bad' = Violating(q, rules[q])'
                            /\ \A t \in bad' \ todo' : IsShown(Table, t, rules[q])'
    BY <1>1 DEF CalmHolds
  <2>1. rules' = rules /\ \A q \in RuleIds : plan[q] # NULL => plan[q] = rules[q]
    BY <1>1 DEF world, IInv, CalmHolds
  <2>2. ASSUME NEW q \in RuleIds, IsEnabled(q)', plan'[q] = NULL PROVE Settled(Table, q)'
    BY <1>1, <1>3, <2>2, SameWorld, StaysSettled DEF IInv, CalmHolds
  <2>3. ASSUME NEW q \in RuleIds, IsNext(q)'
        PROVE  /\ bad' = Violating(q, rules[q])'
               /\ \A t \in bad' \ todo' : IsShown(Table, t, rules[q])'
    <3>1. q = r /\ plan[r] = rules[r]
      BY <1>1, <1>3, <1>6, <2>1, <2>3 DEF IsNext
    <3>. QED
      BY <1>1, <3>1, SameWorld
  <2>. QED
    BY <1>1, <2>1, <2>2, <2>3
<1>9. CooldownHolds'
  BY <1>1, <1>3 DEF world, IInv, CooldownHolds
<1>. QED
  BY <1>1, <1>5, <1>7, <1>8, <1>9, FreshStays DEF IInv

\* What firing does to the events of the target.
LEMMA FireFacts ==
  ASSUME IInv, NEW r \in RuleIds, NEW t \in todo, Fire(r, t)
  PROVE  /\ t \in Target /\ t.rule = r /\ Shaped(t) /\ plan[r] \in Rule
         /\ txn' \in OrNull(Events)
         /\ \A u \in Target \ {t} : Table'[u] = Table[u]
         /\ Table'[t].resolved = Table[t].resolved
         /\ \/ Table'[t] = Table[t] /\ IsShown(Table, t, plan[r])
            \/ /\ Table[t].active = 0 /\ Table'[t].active = 1
               /\ ~(plan[r].cooldown /\ Table[t].resolved = "recent")
<1>1. t \in bad /\ t \in Target /\ pc = "fire" /\ IsNext(r)
  BY DEF Fire, IInv, TypeOK
<1>2. t.rule = r /\ Shaped(t)
  BY <1>1 DEF IInv, EngineHolds
<1>3. plan[r] \in Rule
  BY <1>1 DEF IsNext, IInv, TypeOK, OrNull
<1>4. Table \in Events /\ Table[t] \in Count /\ txn \in OrNull(Events)
  BY <1>1, TableTyped DEF Events, IInv, TypeOK
<1>5. CASE HasActive(Table, t) \/ CoolingDown(Table, t, plan[r])
  <2>1. txn' = txn /\ alerts' = alerts
    BY <1>5 DEF Fire
  <2>2. Table' = Table
    BY <2>1 DEF Table
  <2>. QED
    BY <1>1, <1>2, <1>3, <1>4, <1>5, <2>1, <2>2 DEF HasActive, CoolingDown, IsShown
<1>6. CASE ~(HasActive(Table, t) \/ CoolingDown(Table, t, plan[r]))
  <2>1. Table[t].active = 0
    BY <1>4, <1>6, AlertAssumption DEF HasActive, Count
  <2>2. Least(Table[t].active + 1, MaxSame) = 1 /\ 1 \in 0..MaxSame
    BY <2>1, AlertAssumption DEF Least
  <2>. DEFINE row == [Table[t] EXCEPT !.active = 1]
  <2>3. row \in Count /\ row.active = 1 /\ row.resolved = Table[t].resolved
    BY <1>4, <2>2 DEF Count
  <2>4. txn' = [Table EXCEPT ![t] = row]
    <3>1. txn' = [Table EXCEPT ![t].active = Least(@ + 1, MaxSame)]
      BY <1>6 DEF Fire
    <3>. QED
      BY <2>2, <3>1
  <2>. HIDE DEF row
  <2>5. txn' \in Events /\ Table' = txn'
    BY <1>1, <1>4, <2>3, <2>4, NoEventsIsNull DEF Events, Table
  <2>6. /\ \A u \in Target \ {t} : Table'[u] = Table[u]
        /\ Table'[t] = row
    BY <1>1, <1>4, <2>4, <2>5 DEF Events
  <2>. QED
    BY <1>1, <1>2, <1>3, <1>6, <2>1, <2>3, <2>5, <2>6 DEF CoolingDown, OrNull
<1>. QED
  BY <1>5, <1>6

LEMMA FireStep ==
  ASSUME IInv, NEW r \in RuleIds, NEW t \in todo, Fire(r, t)
  PROVE  IInv'
<1>1. /\ pc = "fire" /\ IsNext(r) /\ todo' = todo \ {t}
      /\ UNCHANGED <<world, alerts, pc, plan, bad, edits, calm, fresh>>
  BY DEF Fire, ghost
<1>2. \A q \in RuleIds : IsNext(q)' = IsNext(q)
  BY <1>1 DEF IsNext
<1>3. TypeOK'
  BY <1>1, FireFacts DEF world, IInv, TypeOK
<1>4. EngineHolds'
  <2>1. Single(alerts)'
    BY <1>1 DEF IInv, EngineHolds, Single
  <2>2. Single(Table)'
    BY FireFacts DEF IInv, EngineHolds, Single
  <2>. QED
    BY <1>1, <1>2, <2>1, <2>2 DEF IInv, EngineHolds
<1>5. CalmHolds'
  <2>. SUFFICES ASSUME calm
                PROVE  /\ \A q \in RuleIds : plan'[q] # NULL => plan'[q] = rules'[q]
                       /\ \A q \in RuleIds : IsEnabled(q)' /\ plan'[q] = NULL
                                               => Settled(Table, q)'
                       /\ \A q \in RuleIds : IsNext(q)' =>
                            /\ bad' = Violating(q, rules[q])'
                            /\ \A u \in bad' \ todo' : IsShown(Table, u, rules[q])'
    BY <1>1 DEF CalmHolds
  <2>1. rules' = rules /\ \A q \in RuleIds : plan[q] # NULL => plan[q] = rules[q]
    BY <1>1 DEF world, IInv, CalmHolds
  <2>2. ASSUME NEW q \in RuleIds, IsEnabled(q)', plan'[q] = NULL PROVE Settled(Table, q)'
    <3>1. q # r /\ IsEnabled(q) /\ plan[q] = NULL
      BY <1>1, <2>2, SameWorld DEF IsNext
    <3>2. Settled(Table, q) /\ \A u \in Target : u.rule = q => Table'[u] = Table[u]
      BY <3>1, FireFacts DEF IInv, CalmHolds
    <3>. QED
      BY <1>1, <3>1, <3>2, StaysSettled DEF IInv
  <2>3. ASSUME NEW q \in RuleIds, IsNext(q)'
        PROVE  /\ bad' = Violating(q, rules[q])'
               /\ \A u \in bad' \ todo' : IsShown(Table, u, rules[q])'
    <3>1. q = r /\ plan[r] = rules[r]
      BY <1>1, <1>2, <2>1, <2>3, NextIsOne DEF IsNext
    <3>2. bad = Violating(r, rules[r]) /\ \A u \in bad \ todo : IsShown(Table, u, rules[r])
      BY <1>1 DEF IInv, CalmHolds
    <3>3. ASSUME NEW u \in bad' \ todo' PROVE IsShown(Table, u, rules[q])'
      <4>1. CASE u = t
        BY <2>1, <3>1, <4>1, FireFacts DEF IsShown
      <4>2. CASE u # t
        <5>1. u \in bad \ todo /\ u \in Target /\ Table'[u] = Table[u]
          BY <1>1, <3>3, <4>2, FireFacts DEF IInv, TypeOK
        <5>. QED
          BY <2>1, <3>1, <3>2, <5>1 DEF IsShown
      <4>. QED
        BY <4>1, <4>2
    <3>. QED
      BY <1>1, <3>1, <3>2, <3>3, SameWorld
  <2>. QED
    BY <2>1, <1>1, <2>2, <2>3
<1>6. CooldownHolds'
  <2>. SUFFICES ASSUME calm, NEW u \in Target
                PROVE  /\ alerts'[u].resolved = "recent" => Table'[u].resolved = "recent"
                       /\ alerts'[u].active = 0 /\ Table'[u].active > 0 =>
                            /\ u.rule \in RuleIds
                            /\ ~(rules'[u.rule].cooldown /\ alerts'[u].resolved = "recent")
    BY <1>1 DEF CooldownHolds
  <2>1. rules' = rules /\ alerts' = alerts /\ plan[r] = rules[r]
    BY <1>1 DEF world, IInv, CalmHolds, IsNext
  <2>. QED
    BY <2>1, FireFacts DEF IInv, CooldownHolds
<1>. QED
  BY <1>1, <1>3, <1>4, <1>5, <1>6, FreshStays DEF IInv

LEMMA AutoResolveFacts ==
  ASSUME IInv, NEW r \in RuleIds, AutoResolve(r)
  PROVE  /\ txn' \in OrNull(Events)
         /\ \A t \in Target \ Cleared(r) : Table'[t] = Table[t]
         /\ \A t \in Cleared(r) : /\ t \in Target /\ t.rule = r
                                  /\ Table'[t].active = 0 /\ Table'[t].resolved = "recent"
<1>. DEFINE gone == [active |-> 0, resolved |-> "recent"]
<1>1. gone \in Count /\ gone.active = 0 /\ gone.resolved = "recent"
  BY AlertAssumption DEF Count
<1>2. Table \in Events /\ txn \in OrNull(Events)
  BY TableTyped DEF IInv, TypeOK
<1>3. Cleared(r) \subseteq Target /\ \A t \in Cleared(r) : t.rule = r
  BY DEF Cleared
<1>4. CASE Cleared(r) = {}
  <2>1. txn' = txn /\ alerts' = alerts
    BY <1>4 DEF AutoResolve
  <2>. QED
    BY <1>2, <1>4, <2>1 DEF Table
<1>5. CASE Cleared(r) # {}
  <2>1. txn' = [t \in Target |-> IF t \in Cleared(r) THEN gone ELSE Table[t]]
    BY <1>5 DEF AutoResolve
  <2>. HIDE DEF gone
  <2>2. txn' \in Events
    BY <1>1, <1>2, <2>1 DEF Events
  <2>3. Table' = txn'
    BY <2>2, NoEventsIsNull DEF Table
  <2>. QED
    BY <1>1, <1>3, <2>1, <2>2, <2>3 DEF OrNull
<1>. QED
  BY <1>4, <1>5

LEMMA AutoResolveStep ==
  ASSUME IInv, NEW r \in RuleIds, AutoResolve(r)
  PROVE  IInv'
<1>1. /\ pc = "fire" /\ IsNext(r) /\ todo = {} /\ bad' = {} /\ pc' = "rule"
      /\ plan' = [plan EXCEPT ![r] = NULL]
      /\ UNCHANGED <<world, alerts, todo, edits, calm, fresh>>
  BY DEF AutoResolve, ghost
<1>2. TypeOK'
  BY <1>1, AutoResolveFacts DEF world, IInv, TypeOK, OrNull
<1>3. EngineHolds'
  <2>1. Single(alerts)'
    BY <1>1 DEF IInv, EngineHolds, Single
  <2>2. Single(Table)'
    BY AutoResolveFacts DEF IInv, EngineHolds, Single
  <2>. QED
    BY <1>1, <2>1, <2>2 DEF EngineHolds
<1>4. ASSUME calm PROVE Settled(Table, r)'
  <2>1. /\ plan[r] = rules[r] /\ rules[r] \in Rule /\ rules' = rules
        /\ bad = Violating(r, rules[r])
        /\ \A t \in bad : IsShown(Table, t, rules[r])
    BY <1>1, <1>4 DEF world, IInv, CalmHolds, IsNext, TypeOK, OrNull
  <2>2. ASSUME NEW t \in bad PROVE t \in Target \ Cleared(r)
    <3>1. /\ t \in Target
          /\ IF IsUtilization(rules[r].cond) THEN t.subnet # NULL ELSE t.mark # NULL
      BY <2>1, <2>2, ViolatingTyped DEF IInv
    <3>2. Keeps(r, t)
      BY <2>1, <2>2, <3>1 DEF Keeps
    <3>. QED
      BY <3>1, <3>2 DEF Cleared
  <2>3. \A t \in Violating(r, rules[r])' : IsShown(Table, t, rules[r])'
    BY <1>1, <2>1, <2>2, AutoResolveFacts, SameWorld DEF IsShown
  <2>4. ASSUME NEW t \in Target, t.rule = r, Table'[t].active > 0 PROVE Justified(t)'
    <3>1. t \notin Cleared(r) /\ Table[t].active > 0
      BY <2>4, AutoResolveFacts
    <3>2. Keeps(r, t)
      BY <2>4, <3>1 DEF Cleared
    <3>3. Justified(t)
      BY <2>1, <2>4, <3>2 DEF Keeps, Justified
    <3>. QED
      BY <1>1, <2>4, <3>3, SameWorld
  <2>. QED
    BY <2>3, <2>4 DEF Settled
<1>5. CalmHolds'
  <2>. SUFFICES ASSUME calm
                PROVE  /\ \A q \in RuleIds : plan'[q] # NULL => plan'[q] = rules'[q]
                       /\ \A q \in RuleIds : IsEnabled(q)' /\ plan'[q] = NULL
                                               => Settled(Table, q)'
    BY <1>1 DEF CalmHolds
  <2>1. \A q \in RuleIds : plan'[q] # NULL => plan'[q] = rules'[q]
    BY <1>1 DEF world, IInv, CalmHolds, TypeOK
  <2>2. ASSUME NEW q \in RuleIds, q # r, IsEnabled(q)', plan'[q] = NULL
        PROVE  Settled(Table, q)'
    <3>1. IsEnabled(q) /\ plan[q] = NULL
      BY <1>1, <2>2, SameWorld DEF IInv, TypeOK
    <3>2. Settled(Table, q) /\ \A u \in Target : u.rule = q => Table'[u] = Table[u]
      BY <2>2, <3>1, AutoResolveFacts DEF IInv, CalmHolds
    <3>. QED
      BY <1>1, <3>1, <3>2, StaysSettled DEF IInv
  <2>. QED
    BY <1>4, <2>1, <2>2
<1>6. CooldownHolds'
  <2>. SUFFICES ASSUME calm, NEW u \in Target
                PROVE  /\ alerts'[u].resolved = "recent" => Table'[u].resolved = "recent"
                       /\ alerts'[u].active = 0 /\ Table'[u].active > 0 =>
                            /\ u.rule \in RuleIds
                            /\ ~(rules'[u.rule].cooldown /\ alerts'[u].resolved = "recent")
    BY <1>1 DEF CooldownHolds
  <2>1. rules' = rules /\ alerts' = alerts
    BY <1>1 DEF world
  <2>. QED
    BY <2>1, AutoResolveFacts DEF IInv, CooldownHolds
<1>. QED
  BY <1>1, <1>2, <1>3, <1>5, <1>6, FreshStays DEF IInv

LEMMA CommitStep ==
  ASSUME IInv, Commit
  PROVE  IInv'
<1>1. /\ pc' = "idle" /\ plan = NoRule /\ alerts' = Table /\ txn' = NULL
      /\ fresh' = calm /\ calm' = FALSE
      /\ UNCHANGED <<world, plan, bad, todo, edits>>
  BY DEF Commit
<1>2. Table' = Table
  BY <1>1 DEF Table
<1>3. TypeOK'
  BY <1>1, TableTyped DEF world, IInv, TypeOK, OrNull
<1>4. EngineHolds'
  <2>1. Single(alerts)' /\ Single(Table)'
    BY <1>1, <1>2 DEF IInv, EngineHolds, Single
  <2>. QED
    BY <1>1, <2>1 DEF IInv, EngineHolds
<1>5. FreshHolds'
  <2>. SUFFICES ASSUME calm, NEW r \in RuleIds, IsEnabled(r)' PROVE Settled(alerts, r)'
    BY <1>1 DEF FreshHolds
  <2>1. IsEnabled(r) /\ plan[r] = NULL /\ rules' = rules
    BY <1>1, SameWorld DEF world, NoRule
  <2>2. Settled(Table, r)
    BY <2>1 DEF IInv, CalmHolds
  <2>3. Settled(Table, r)'
    BY <1>1, <1>2, <2>1, <2>2, StaysSettled DEF IInv
  <2>. QED
    BY <1>1, <1>2, <2>3 DEF Settled, IsShown
<1>. QED
  BY <1>1, <1>3, <1>4, <1>5 DEF IInv, CalmHolds, CooldownHolds

LEMMA AbortStep ==
  ASSUME IInv, Abort
  PROVE  IInv'
<1>1. /\ pc' = "idle" /\ plan' = NoRule /\ txn' = NULL /\ bad' = {} /\ todo' = {}
      /\ calm' = FALSE /\ edits' = edits + 1 /\ edits < MaxEdits
      /\ UNCHANGED <<world, alerts, fresh>>
  BY DEF Abort
<1>2. edits' \in 0..MaxEdits
  BY <1>1, AlertAssumption DEF IInv, TypeOK
<1>3. TypeOK'
  BY <1>1, <1>2 DEF world, IInv, TypeOK, OrNull, NoRule
<1>4. EngineHolds'
  <2>1. Single(alerts)' /\ Single(Table)'
    BY <1>1 DEF IInv, EngineHolds, Single, Table
  <2>. QED
    BY <1>1, <2>1 DEF EngineHolds
<1>. QED
  BY <1>1, <1>3, <1>4, FreshStays DEF IInv, CalmHolds, CooldownHolds

\* A step that nothing here depends on: another engine reads, or nobody moves.
LEMMA OtherStep ==
  ASSUME IInv, TickReads \/ UNCHANGED vars
  PROVE  IInv'
<1>1. /\ UNCHANGED <<subnets, retired, util, conflicts, down, rules, deleted, alerts,
                     txn, pc, plan, bad, todo, edits, calm, fresh>>
      /\ known' \subseteq SubnetIds
  BY DEF TickReads, engine, ghost, vars, world, IInv, TypeOK
<1>2. TypeOK'
  BY <1>1 DEF IInv, TypeOK
<1>3. /\ Table' = Table
      /\ \A r \in RuleIds :
           /\ IsNext(r)' = IsNext(r) /\ IsEnabled(r)' = IsEnabled(r)
           /\ Violating(r, rules[r])' = Violating(r, rules[r])
  BY <1>1 DEF Table, IsNext, IsEnabled, Violating
<1>4. \A r \in RuleIds : Settled(Table, r)' <=> Settled(Table, r)
  BY <1>1, <1>3 DEF Settled, IsShown, Justified, Violating
<1>5. \A r \in RuleIds : Settled(alerts, r)' <=> Settled(alerts, r)
  BY <1>1, <1>3 DEF Settled, IsShown, Justified, Violating
<1>6. EngineHolds'
  <2>1. Single(alerts)' /\ Single(Table)'
    BY <1>1, <1>3 DEF IInv, EngineHolds, Single
  <2>. QED
    BY <1>1, <1>3, <2>1 DEF IInv, EngineHolds
<1>7. CalmHolds'
  BY <1>1, <1>3, <1>4 DEF IInv, CalmHolds, IsShown
<1>8. CooldownHolds'
  BY <1>1, <1>3 DEF IInv, CooldownHolds
<1>9. FreshHolds'
  BY <1>1, <1>3, <1>5 DEF IInv, FreshHolds
<1>. QED
  BY <1>2, <1>6, <1>7, <1>8, <1>9 DEF IInv

LEMMA StepKeepsInv == IInv /\ [Next]_vars => IInv'
<1>. SUFFICES ASSUME IInv, [Next]_vars PROVE IInv'
  OBVIOUS
<1>1. CASE Evaluate
  BY <1>1, ReadRulesStep, GatherStep, FireStep, AutoResolveStep, CommitStep DEF Evaluate
<1>2. CASE Abort \/ TickReads \/ UNCHANGED vars
  BY <1>2, AbortStep, OtherStep
<1>3. CASE Users
  BY <1>3, RuleStep, DeleteRuleStep, EventStep, DeleteSubnetStep, WorldStep DEF Users
<1>4. CASE TickWrites
  BY <1>4, WorldStep
<1>5. CASE Time
  BY <1>5, TimeStep DEF Time
<1>. QED
  BY <1>1, <1>2, <1>3, <1>4, <1>5 DEF Next

-----------------------------------------------------------------------------
(* The theorems.                                                           *)

LEMMA Invariance == Spec => []IInv
  BY InitInv, StepKeepsInv, PTL DEF Spec

\* Types, and at most one active event of a rule for one target, however
\* evaluations, users, ticks and polls interleave.
THEOREM Invariant == Spec => []Inv
<1>1. IInv => OneActive
  BY DEF IInv, EngineHolds, Single, OneActive
<1>2. IInv => Inv
  BY <1>1 DEF IInv, Inv
<1>. QED
  BY Invariance, <1>2, PTL

\* An evaluation nobody disturbed leaves nothing in violation untold.
THEOREM BadShown == Spec => []BadIsShown
<1>1. IInv => BadIsShown
  BY DEF IInv, FreshHolds, BadIsShown, Settled, IsShown
<1>. QED
  BY Invariance, <1>1, PTL

\* It leaves no event of an enabled rule without a reason.
THEOREM ClearedResolved == Spec => []ClearedIsResolved
<1>1. IInv => ClearedIsResolved
  <2>. SUFFICES ASSUME IInv, fresh, NEW t \in Target, IsEnabled(t.rule), alerts[t].active > 0
                PROVE  Justified(t)
    BY DEF ClearedIsResolved
  <2>1. t.rule \in RuleIds
    BY TargetFields DEF IsEnabled, OrNull
  <2>. QED
    BY <2>1 DEF IInv, FreshHolds, Settled
<1>. QED
  BY Invariance, <1>1, PTL

\* And it opens nothing within a cooldown.
THEOREM CooldownIsHeld == Spec => CooldownHeld
<1>1. IInv /\ [Next]_vars =>
        [Commit /\ calm => \A t \in Target :
           alerts[t].active = 0 /\ alerts'[t].active > 0 =>
             ~(rules[t.rule].cooldown /\ alerts[t].resolved = "recent")]_vars
  BY DEF IInv, CooldownHolds, Commit
<1>. QED
  BY Invariance, <1>1, PTL DEF Spec, CooldownHeld
=============================================================================
