----------------------------- MODULE Reconcile ------------------------------
(***************************************************************************)
(* The reconciliation engine against everyone else who writes its tables:  *)
(* the pollers, which replace a collector's raw rows, and the API, through *)
(* which users edit addresses, subnets and conflicts.                      *)
(*                                                                         *)
(* The engine reads seven tables with seven SELECTs, each of them its own  *)
(* snapshot, and then writes everything in one transaction; any writer may *)
(* come between two of these steps.  Its connection leaves SQLite's        *)
(* foreign keys off, the API's connections switch them on.                 *)
(***************************************************************************)
EXTENDS IpamData

CONSTANTS
  Category,      \* collector -> "dhcp", "dns" or "device"
  LeaseInputs,   \* DHCP rows the collectors may report
  DnsInputs,     \* DNS rows the collectors may report
  ArpInputs,     \* device sightings the collectors may report
  RouteInputs,   \* routes the collectors may report
  SubnetInputs,  \* subnet rows users may configure
  UserMacs,      \* MACs users may type, NULL for none
  UserNames,     \* hostnames users may type, NULL for none
  UserStatuses,  \* statuses users may choose
  InitSubnets,   \* the subnets table at the start
  MaxEdits       \* bound: writes of pollers and users in one behaviour

ASSUME InputsAssumption ==
  /\ Category \in [Collectors -> {"dhcp", "dns", "device"}]
  /\ LeaseInputs \subseteq Lease
  /\ DnsInputs \subseteq DnsRecord
  /\ ArpInputs \subseteq ArpEntry
  /\ RouteInputs \subseteq Route
  /\ SubnetInputs \subseteq SubnetRow
  /\ UserMacs \subseteq OrNull(Macs)
  /\ UserNames \subseteq OrNull(Names)
  /\ UserStatuses \subseteq {"static", "reserved"}
  /\ InitSubnets \in [SubnetIds -> OrNull(SubnetRow)]
  /\ MaxEdits \in Nat

VARIABLES
  subnets,    \* subnets: id -> row
  retired,    \* ids of deleted subnets (AUTOINCREMENT never reuses them)
  leases, dns, arp, routes,   \* the collectors' raw tables
  rows,       \* ip_addresses: (subnet, address) -> row
  conflicts,  \* conflicts: set of records
  hist,       \* ip_address_history: the last event of each key
  used,       \* subnet_utilization_history: the last sample of each subnet
  pc,         \* what the engine reads or writes next
  view,       \* what the current tick has read so far
  edits,      \* writes so far, at most MaxEdits
  (* For stating properties only: *)
  touched,    \* keys users wrote since the current tick began
  raced,      \* keys some tick wrote on while users did
  calm,       \* nobody else wrote since the current tick began
  fresh       \* nobody else wrote since before the last tick began

raw == <<leases, dns, arp, routes>>
ghost == <<touched, raced, calm, fresh>>
vars == <<subnets, retired, raw, rows, conflicts, hist, used, pc, view, edits,
          ghost>>

-----------------------------------------------------------------------------

Event(event, mac, host) == [event |-> event, mac |-> mac, host |-> host]
Events == [event : {"first_seen", "changed", "released"},
           mac : OrNull(Macs), host : OrNull(Names)]

ASSUME EventAssumption == NULL \notin Events

\* The reading steps of a tick, in order; "write" is its transaction.
Reads == {"subnets", "leases", "dns", "arp", "routes", "manual", "previous"}

NoRows == [k \in Keys |-> NULL]
NoView == [subnets |-> [s \in SubnetIds |-> NULL], leases |-> {}, dns |-> {},
           arp |-> {}, routes |-> {}, manual |-> NoRows, previous |-> NoRows]

Views == [subnets : [SubnetIds -> OrNull(SubnetRow)], leases : SUBSET Lease,
          dns : SUBSET DnsRecord, arp : SUBSET ArpEntry, routes : SUBSET Route,
          manual : [Keys -> OrNull(IpRow)], previous : [Keys -> OrNull(IpRow)]]

\* Every table keeps to its columns, keys and bounds.
TypeOK ==
  /\ subnets \in [SubnetIds -> OrNull(SubnetRow)]
  /\ retired \subseteq SubnetIds
  /\ leases \subseteq Lease /\ dns \subseteq DnsRecord
  /\ arp \subseteq ArpEntry /\ routes \subseteq Route
  /\ rows \in [Keys -> OrNull(IpRow)]
  /\ conflicts \subseteq ConflictRow
  /\ hist \in [Keys -> OrNull(Events)]
  /\ used \in [SubnetIds -> OrNull(Nat)]
  /\ pc \in Reads \cup {"write"}
  /\ view \in Views
  /\ edits \in 0..MaxEdits
  /\ touched \subseteq Keys /\ raced \subseteq Keys
  /\ calm \in BOOLEAN /\ fresh \in BOOLEAN

Init ==
  /\ subnets = InitSubnets /\ retired = {}
  /\ leases = {} /\ dns = {} /\ arp = {} /\ routes = {}
  /\ rows = NoRows /\ conflicts = {} /\ hist = NoRows
  /\ used = [s \in SubnetIds |-> NULL]
  /\ pc = "subnets" /\ view = NoView
  /\ edits = 0 /\ touched = {} /\ raced = {} /\ calm = FALSE /\ fresh = FALSE

-----------------------------------------------------------------------------
(* One tick of the engine.                                                 *)

Tables == <<subnets, retired, raw, rows, conflicts, hist, used>>

ReadSubnets ==
  /\ pc = "subnets"
  /\ view' = [view EXCEPT !.subnets = subnets]
  /\ pc' = "leases"
  /\ touched' = {} /\ calm' = TRUE
  /\ UNCHANGED <<Tables, edits, raced, fresh>>

Read(from, to, v) ==
  /\ pc = from /\ view' = v /\ pc' = to
  /\ UNCHANGED <<Tables, edits, ghost>>

ReadLeases ==
  Read("leases", "dns",
       [view EXCEPT !.leases = {l \in leases : l.state \in {"active", "reserved"}}])

ReadDns == Read("dns", "arp", [view EXCEPT !.dns = dns])
ReadArp == Read("arp", "routes", [view EXCEPT !.arp = arp])
ReadRoutes == Read("routes", "manual", [view EXCEPT !.routes = routes])

ReadManual ==
  Read("manual", "previous",
       [view EXCEPT !.manual =
          [k \in Keys |-> IF IsManual(rows[k]) THEN rows[k] ELSE NULL]])

ReadPrevious ==
  Read("previous", "write",
       [view EXCEPT !.previous =
          [k \in Keys |-> IF IsDiscovered(rows[k]) THEN rows[k] ELSE NULL]])

\* Faulty: seen addresses are remembered without their subnet.
ReleasedByIp(k) ==
  /\ k[2] \notin Reported(view)
  /\ view.previous[k] # NULL
  /\ ~IsBlank(view.previous[k])

\* An address that was tracked and is now reported by no source.
Released(k) ==
  /\ ~Seen(view, k)
  /\ view.previous[k] # NULL
  /\ ~IsBlank(view.previous[k])

NewRow(k, first) ==
  IF Seen(view, k) THEN UpsertRow(rows[k], Merged(view, k, first[k[2]]))
  ELSE IF Released(k) THEN ReleaseRow(rows[k])
  ELSE rows[k]

\* Faulty: a new hostname alone is no change.
NewEventMacOnly(k, first) ==
  LET p == view.previous[k]
      m == Merged(view, k, first[k[2]])
  IN  IF Seen(view, k) /\ view.manual[k] = NULL
        THEN IF p = NULL THEN Event("first_seen", m.mac, m.host)
             ELSE IF p.mac # m.mac THEN Event("changed", m.mac, m.host)
                    ELSE hist[k]
      ELSE IF Released(k) THEN Event("released", p.mac, p.host)
      ELSE hist[k]

\* History is written for a change against what the tick read, not against
\* the row it writes.
NewEvent(k, first) ==
  LET p == view.previous[k]
      m == Merged(view, k, first[k[2]])
  IN  IF Seen(view, k) /\ view.manual[k] = NULL
        THEN IF p = NULL THEN Event("first_seen", m.mac, m.host)
             ELSE IF p.mac # m.mac \/ p.host # m.host
                    THEN Event("changed", m.mac, m.host)
                    ELSE hist[k]
      ELSE IF Released(k) THEN Event("released", p.mac, p.host)
      ELSE hist[k]

UsedCount(s, table) ==
  Cardinality({k \in Keys : /\ k[1] \in Covered(view.subnets, s)
                            /\ table[k] # NULL /\ table[k].status # "free"})

\* The tick's transaction: every write from the first upsert to the commit.
Write ==
  /\ pc = "write"
  /\ \E first \in Orders(view) :
       /\ rows' = [k \in Keys |-> NewRow(k, first)]
       /\ hist' = [k \in Keys |-> NewEvent(k, first)]
       /\ conflicts' = RecordFindings(conflicts, Findings(view, first))
  /\ used' = [s \in SubnetIds |-> IF view.subnets[s] # NULL
                                    THEN UsedCount(s, rows') ELSE used[s]]
  /\ pc' = "subnets" /\ view' = NoView
  /\ raced' = raced \cup touched
  /\ touched' = {} /\ calm' = FALSE /\ fresh' = calm
  /\ UNCHANGED <<subnets, retired, raw, edits>>

Tick == \/ ReadSubnets \/ ReadLeases \/ ReadDns \/ ReadArp \/ ReadRoutes
        \/ ReadManual \/ ReadPrevious \/ Write

-----------------------------------------------------------------------------
(* Writers other than the engine.                                          *)

\* Bookkeeping of one write, of the keys K of ip_addresses.
Edit(K) ==
  /\ edits < MaxEdits
  /\ edits' = edits + 1
  /\ touched' = IF pc = "subnets" THEN {} ELSE touched \cup K
  /\ calm' = FALSE /\ fresh' = FALSE
  /\ UNCHANGED <<pc, view, raced>>

Others(table, c) == {r \in table : r.coll # c}

\* UNIQUE (collector_id, ip_address): INSERT OR IGNORE keeps one row each.
OnePerIp(new) == \A a, b \in new : a.ip = b.ip => a = b

\* A DHCP poll replaces the collector's leases and the A records made of them.
PollDhcp(c) ==
  /\ Category[c] = "dhcp"
  /\ \E new \in SUBSET {l \in LeaseInputs : l.coll = c} :
       /\ OnePerIp(new)
       /\ leases' = Others(leases, c) \cup new
       /\ dns' = Others(dns, c) \cup
            {[coll |-> c, ip |-> l.ip, name |-> l.host] :
               l \in {x \in new : x.state # "expired" /\ x.host # NULL}}
  /\ Edit({})
  /\ UNCHANGED <<subnets, retired, arp, routes, rows, conflicts, hist, used>>

PollDns(c) ==
  /\ Category[c] = "dns"
  /\ \E new \in SUBSET {d \in DnsInputs : d.coll = c} :
       dns' = Others(dns, c) \cup new
  /\ Edit({})
  /\ UNCHANGED <<subnets, retired, leases, arp, routes, rows, conflicts, hist,
                 used>>

PollDevice(c) ==
  /\ Category[c] = "device"
  /\ \E new \in SUBSET {a \in ArpInputs : a.coll = c} :
       /\ OnePerIp(new)
       /\ arp' = Others(arp, c) \cup new
  /\ \E new \in SUBSET {r \in RouteInputs : r.coll = c} :
       routes' = Others(routes, c) \cup new
  /\ Edit({})
  /\ UNCHANGED <<subnets, retired, leases, dns, rows, conflicts, hist, used>>

\* POST /ip-addresses: refused if the subnet is missing or the key taken.
CreateManualIp(k, st, mac, host) ==
  /\ subnets[k[1]] # NULL /\ rows[k] = NULL
  /\ rows' = [rows EXCEPT ![k] = [source |-> "manual", status |-> st,
                                  mac |-> mac, host |-> host]]
  /\ hist' = [hist EXCEPT ![k] = Event("first_seen", mac, host)]
  /\ Edit({k})
  /\ UNCHANGED <<subnets, retired, raw, conflicts, used>>

\* PATCH /ip-addresses/{id}: the row becomes a manual one.
UpdateIpAddress(k, st, mac, host) ==
  /\ rows[k] # NULL
  /\ rows' = [rows EXCEPT ![k] = [source |-> "manual", status |-> st,
                                  mac |-> mac, host |-> host]]
  /\ hist' = IF rows[k].mac # mac \/ rows[k].host # host
               THEN [hist EXCEPT ![k] = Event("changed", mac, host)]
               ELSE hist
  /\ Edit({k})
  /\ UNCHANGED <<subnets, retired, raw, conflicts, used>>

\* DELETE /ip-addresses/{id}.
DeleteIpAddress(k) ==
  /\ rows[k] # NULL
  /\ rows' = [rows EXCEPT ![k] = NULL]
  /\ hist' = IF IsBlank(rows[k]) THEN hist
             ELSE [hist EXCEPT ![k] = Event("released", rows[k].mac, rows[k].host)]
  /\ Edit({k})
  /\ UNCHANGED <<subnets, retired, raw, conflicts, used>>

\* POST /ip-addresses/bulk-update of a set of addresses of one subnet; st is
\* NULL when the request leaves the status alone.  Nothing is logged.
BulkUpdate(s, I, st) ==
  LET K == {s} \X I
  IN  /\ subnets[s] # NULL
      /\ rows' = [k \in Keys |->
           IF k \notin K THEN rows[k]
           ELSE IF rows[k] = NULL
             THEN [source |-> "manual", status |-> Either(st, "static"),
                   mac |-> NULL, host |-> NULL]
             ELSE [rows[k] EXCEPT !.source = "manual",
                                  !.status = Either(st, rows[k].status)]]
      /\ Edit(K)
      /\ UNCHANGED <<subnets, retired, raw, conflicts, hist, used>>

CreateSubnet(s, row) ==
  /\ subnets[s] = NULL /\ s \notin retired
  /\ subnets' = [subnets EXCEPT ![s] = row]
  /\ Edit({})
  /\ UNCHANGED <<retired, raw, rows, conflicts, hist, used>>

\* PATCH /subnets/{id}: the rows filed under the subnet stay where they are.
UpdateSubnet(s, row) ==
  /\ subnets[s] # NULL
  /\ subnets' = [subnets EXCEPT ![s] = row]
  /\ Edit({})
  /\ UNCHANGED <<retired, raw, rows, conflicts, hist, used>>

\* DELETE /subnets/{id}: the foreign keys cascade on the API's connection.
DeleteSubnet(s) ==
  /\ subnets[s] # NULL
  /\ subnets' = [subnets EXCEPT ![s] = NULL]
  /\ retired' = retired \cup {s}
  /\ rows' = [k \in Keys |-> IF k[1] = s THEN NULL ELSE rows[k]]
  /\ hist' = [k \in Keys |-> IF k[1] = s THEN NULL ELSE hist[k]]
  /\ conflicts' = {r \in conflicts : r.subnet # s}
  /\ used' = [used EXCEPT ![s] = NULL]
  /\ Edit({k \in Keys : k[1] = s})
  /\ UNCHANGED raw

\* POST /conflicts/{id}/resolve and /resolve-selected.
ResolveConflicts(R) ==
  /\ conflicts' = (conflicts \ R) \cup {[r EXCEPT !.open = FALSE] : r \in R}
  /\ Edit({})
  /\ UNCHANGED <<subnets, retired, raw, rows, hist, used>>

ResolveAllConflicts ==
  /\ conflicts' = {[r EXCEPT !.open = FALSE] : r \in conflicts}
  /\ Edit({})
  /\ UNCHANGED <<subnets, retired, raw, rows, hist, used>>

AckConflict(r) ==
  /\ conflicts' = (conflicts \ {r}) \cup {[r EXCEPT !.acked = TRUE]}
  /\ Edit({})
  /\ UNCHANGED <<subnets, retired, raw, rows, hist, used>>

\* A tick fails or the process stops: what it read is lost, and its
\* transaction has not happened.  Failures are counted as edits.
Abort ==
  /\ pc # "subnets" /\ edits < MaxEdits
  /\ pc' = "subnets" /\ view' = NoView /\ edits' = edits + 1
  /\ touched' = {} /\ calm' = FALSE
  /\ UNCHANGED <<Tables, raced, fresh>>

Poll == \E c \in Collectors : PollDhcp(c) \/ PollDns(c) \/ PollDevice(c)

\* The dialog sends back the row's own status unless the user picks another.
Offered(k) ==
  UserStatuses \cup
    (IF rows[k] = NULL THEN {} ELSE {rows[k].status} \ {"free"})

EditIp ==
  \E k \in Keys :
    \/ DeleteIpAddress(k)
    \/ \E st \in UserStatuses, mac \in UserMacs, host \in UserNames :
         CreateManualIp(k, st, mac, host)
    \/ \E st \in Offered(k), mac \in UserMacs, host \in UserNames :
         UpdateIpAddress(k, st, mac, host)

EditMany ==
  \E s \in SubnetIds, I \in SUBSET IPs \ {{}}, st \in OrNull(UserStatuses) :
    BulkUpdate(s, I, st)

EditSubnet ==
  \E s \in SubnetIds :
    \/ DeleteSubnet(s)
    \/ \E row \in SubnetInputs : CreateSubnet(s, row) \/ UpdateSubnet(s, row)

EditConflict ==
  \/ ResolveAllConflicts
  \/ \E r \in conflicts : ResolveConflicts({r}) \/ AckConflict(r)

Next == Tick \/ Abort \/ Poll \/ EditIp \/ EditMany \/ EditSubnet \/ EditConflict

Spec == Init /\ [][Next]_vars

\* The engine's loop catches every exception and ticks again after a sleep,
\* so its next step is always taken; users and collectors owe nothing, and
\* ticks fail finitely often.
FairSpec == Spec /\ WF_vars(Tick)

-----------------------------------------------------------------------------
(* What users rely on.                                                     *)

\* Every address shown as in conflict has a duplicate_ip or
\* static_dhcp_mismatch record in the conflicts table that explains it: the
\* status and the record are written by different statements of the tick,
\* and deleting the subnet removes both.
ConflictStatusHasRecord ==
  \A k \in Keys :
    (rows[k] # NULL /\ rows[k].status = "conflict") =>
      \E r \in conflicts : /\ r.type \in {"duplicate_ip", "static_dhcp_mismatch"}
                           /\ r.ip = k[2] /\ r.subnet = k[1]

Inv == TypeOK /\ ConflictStatusHasRecord

\* A tick neither removes a manual row nor turns it into a discovered one,
\* whatever it read before the user created the row (WHERE clauses of the
\* upsert and of the release).
ManualRowsKept ==
  [][Write => \A k \in Keys : IsManual(rows[k]) => IsManual(rows'[k])]_vars

\* A MAC or hostname a user typed on a manual row survives every tick, unless
\* the user typed it while that tick was under way (the merge takes the
\* manual value first, but from what it read).
OwnValuesKept ==
  [][Write => \A k \in Keys \ touched : IsManual(rows[k]) =>
       /\ rows[k].mac # NULL => rows'[k].mac = rows[k].mac
       /\ rows[k].host # NULL => rows'[k].host = rows[k].host]_vars

\* The collectors' current word on an address, stated without the merge.
Live(ip) == {l \in leases : l.ip = ip /\ l.state # "expired"}
LiveActive(ip) == {l \in Live(ip) : l.state = "active"}
SeenNow(k) ==
  LET s == k[1]
      ip == k[2]
  IN  /\ Live(ip) # {} \/ At(dns, ip) # {} \/ At(arp, ip) # {}
      /\ subnets[s] # NULL /\ ip \in subnets[s].block
      /\ \A t \in Existing(subnets) \ {s} :
           ip \in subnets[t].block =>
             \/ Cardinality(subnets[s].block) < Cardinality(subnets[t].block)
             \/ subnets[s].block = subnets[t].block /\ s < t

\* A row agrees with what the collectors report now.
Agrees(k) ==
  LET r == rows[k]
      ip == k[2]
  IN  /\ SeenNow(k) => r # NULL
      /\ IsDiscovered(r) /\ ~SeenNow(k) => IsBlank(r)
      /\ IsDiscovered(r) /\ SeenNow(k) =>
           /\ r.status # "free" /\ r.status # "static"
           /\ r.mac # NULL => \E x \in Live(ip) \cup At(arp, ip) : x.mac = r.mac
           /\ (r.mac = NULL \/ \A l \in Live(ip) : l.mac # r.mac) =>
                Live(ip) = {} \/ \E l \in Live(ip) : l.mac = NULL
           /\ (\E l \in LiveActive(ip) : l.mac # NULL) /\ r.mac # NULL =>
                \/ \E l \in LiveActive(ip) : l.mac = r.mac
                \/ \E l \in LiveActive(ip) : l.mac = NULL
           /\ r.status = "reserved" => LiveActive(ip) = {}
           /\ r.status = "used" => Live(ip) = {}
           /\ r.status = "conflict" =>
                \E l, m \in Live(ip) : l.mac # m.mac

\* After a tick during which nobody else wrote, and until somebody does, every
\* row of ip_addresses is what the collectors report: stale ones are blank.
ViewIsCurrent == fresh => \A k \in Keys : Agrees(k)

\* Then no address is filed as in use under two subnets, however subnets were
\* carved out of each other or resized before (manual rows excepted).
OneHome ==
  fresh => \A k, m \in Keys :
    /\ IsDiscovered(rows[k]) /\ rows[k].status # "free"
    /\ IsDiscovered(rows[m]) /\ rows[m].status # "free"
    /\ k[2] = m[2]
    => k = m

\* The last history event of a discovered row tells its MAC and hostname, so
\* no change of device goes unrecorded; rows that a tick wrote while a user
\* did are excepted.
HistoryExplainsRow ==
  \A k \in Keys \ raced :
    IsDiscovered(rows[k]) =>
      IF hist[k] = NULL \/ hist[k].event = "released"
        THEN rows[k].mac = NULL /\ rows[k].host = NULL
        ELSE rows[k].mac = hist[k].mac /\ rows[k].host = hist[k].host

\* A conflict the user resolved stays resolved while no source reports its
\* address: only a new detection in what the tick read reopens it.
ResolutionStands ==
  [][Write => \A r \in conflicts :
       ~r.open /\ r.ip # NULL /\ r.ip \notin Reported(view)
         => r \in conflicts']_vars

\* A conflict that is still there is open after every undisturbed tick, even
\* if it was resolved before: Resolve does not fix the data.
StillTrueIsOpen ==
  fresh => \A k \in Keys : \A l, m \in Live(k[2]) :
    SeenNow(k) /\ l.mac # NULL /\ m.mac # NULL /\ l.mac # m.mac =>
      \E r \in conflicts : /\ r.type = "duplicate_ip" /\ r.open
                           /\ r.ip = k[2] /\ r.subnet = k[1]

\* The utilization of a subnet, after an undisturbed tick, is the number of its
\* addresses that something reports, each counted once however its subnet is
\* carved up; twin subnets of one network and manual rows are excepted.
RollupCounts ==
  (fresh /\ \A k \in Keys : ~IsManual(rows[k])) =>
    \A s \in Existing(subnets) :
      (\A t \in Existing(subnets) \ {s} : subnets[t].block # subnets[s].block) =>
        used[s] = Cardinality({ip \in subnets[s].block :
                     Live(ip) # {} \/ At(dns, ip) # {} \/ At(arp, ip) # {}})

\* Every overlap, missing route and wrong gateway that is there has an open
\* record after an undisturbed tick.
NetworkIsFlagged ==
  LET Open(type, s, detail) ==
        \E r \in conflicts : /\ r.type = type /\ r.open
                              /\ r.subnet = s /\ r.detail = detail
      Hop(s) == {r.hop : r \in {q \in routes : q.dest = subnets[s].block}}
  IN  fresh => \A s \in Existing(subnets) :
        /\ \A t \in Existing(subnets) :
             s < t /\ subnets[s].block \cap subnets[t].block # {} =>
               Open("subnet_overlap", s, t)
        /\ routes # {} /\ (\A r \in routes : r.dest # subnets[s].block) =>
             Open("subnet_unrouted", s, NULL)
        /\ subnets[s].gateway # NULL /\ Hop(s) \notin SUBSET {NULL}
             /\ subnets[s].gateway \notin Hop(s) =>
             Open("route_gateway_mismatch", s, NULL)

\* Once collectors and users stop changing things, the view settles on what
\* the collectors report, whatever raced before: rows of vanished devices and
\* of deleted subnets are released.
EventuallyCurrent == <>[](\A k \in Keys : Agrees(k))

-----------------------------------------------------------------------------
(* What the comments and documents say and the code does not do.           *)

\* reconcile_engine.py:174: "manual entries are excluded since this loop
\* never touches them".
TicksLeaveManualRowsAlone ==
  [][Write => \A k \in Keys : IsManual(rows[k]) => rows'[k] = rows[k]]_vars

\* reconcile_engine.py:40: "Conflicts are upserted keyed by (conflict_type,
\* ip_address, subnet_id)": one record per finding.
OneRecordPerFinding ==
  \A r, q \in conflicts : Concerns(r, q) => r = q

\* 001_initial.sql:99: ip_addresses.subnet_id REFERENCES subnets(id) ON DELETE
\* CASCADE: no row outlives its subnet.
NoOrphanRows == \A k \in Keys : rows[k] # NULL => subnets[k[1]] # NULL
=============================================================================
