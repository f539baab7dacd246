------------------------------ MODULE IpamData ------------------------------
(***************************************************************************)
(* The tables of pktIPAM's data pipeline and the pure rules of the         *)
(* reconciliation: which subnet an address belongs to, how the raw         *)
(* sources merge into one row of ip_addresses, what counts as a conflict,  *)
(* and how the conflicts table takes an upsert.  Reconcile.tla turns them  *)
(* into a state machine.                                                   *)
(*                                                                         *)
(* A CIDR is the set of addresses it covers, so a longer prefix is a       *)
(* proper subset.  Tables are sets of records: the engine's SELECTs carry  *)
(* no ORDER BY, and "the first row" is a choice (see Firsts).              *)
(*                                                                         *)
(* A definition commented "Faulty" is a variant of the one after it with a *)
(* plausible mistake; no specification uses it.  Put in the other's place, *)
(* it shows that a property notices the mistake.                           *)
(***************************************************************************)
EXTENDS Integers, FiniteSets

CONSTANTS
  NULL,        \* SQL NULL / Python None; also "no such row" in a table
  IPs,         \* addresses
  Macs,        \* MAC addresses, equal up to case
  Names,       \* hostnames
  Collectors,  \* collector ids
  SubnetIds,   \* ids of the subnets users may create; ids are never reused
  Blocks,      \* the CIDRs users may configure, as sets of addresses
  MaxCopies    \* bound: copies of one conflict record told apart

\* CIDRs are nested or disjoint, never partly overlapping; ids are integers.
ASSUME BlocksAssumption ==
  /\ Blocks \subseteq SUBSET IPs
  /\ \A a, b \in Blocks : a \subseteq b \/ b \subseteq a \/ a \cap b = {}
  /\ SubnetIds \subseteq Int
  /\ MaxCopies \in Nat \ {0}

ASSUME FinitenessAssumption ==
  IsFiniteSet(IPs) /\ IsFiniteSet(SubnetIds)

-----------------------------------------------------------------------------
(* Tables.                                                                 *)

OrNull(S) == S \cup {NULL}

SubnetRow == [block : Blocks, gateway : OrNull(IPs)]

Lease == [coll : Collectors, ip : IPs, mac : OrNull(Macs),
          host : OrNull(Names), state : {"active", "reserved", "expired"}]
DnsRecord == [coll : Collectors, ip : IPs, name : Names]
ArpEntry == [coll : Collectors, ip : IPs, mac : OrNull(Macs)]
Route == [coll : Collectors, dest : Blocks, hop : OrNull(IPs)]

\* The UNIQUE (subnet_id, ip_address) key of ip_addresses.
Keys == SubnetIds \X IPs

Statuses == {"free", "used", "reserved", "dhcp", "static", "conflict"}
Sources == {"manual", "dhcp_lease", "arp", "dns_record"}
IpRow == [source : Sources, status : Statuses, mac : OrNull(Macs),
          host : OrNull(Names)]

\* NULL is no value of any column and no row of a table.
ASSUME NullAssumption ==
  /\ NULL \notin IPs \cup Macs \cup Names \cup SubnetIds
  /\ NULL \notin Statuses \cup IpRow \cup Lease

IsManual(row) == row # NULL /\ row.source = "manual"
IsDiscovered(row) == row # NULL /\ row.source # "manual"

\* A released row: nothing sees the address and nothing stale is left on it.
IsBlank(row) == row.mac = NULL /\ row.host = NULL /\ row.status = "free"

-----------------------------------------------------------------------------
(* Which subnet an address belongs to.                                     *)

Existing(subnets) == {s \in SubnetIds : subnets[s] # NULL}

\* The most specific subnet holding ip: a set of at most one id.  Two texts
\* may name one network (strict=False); the first in id order then wins.
Home(subnets, ip) ==
  LET Holding == {s \in Existing(subnets) : ip \in subnets[s].block}
      Before(s, t) == \/ subnets[s].block = subnets[t].block /\ s <= t
                      \/ /\ subnets[s].block # subnets[t].block
                         /\ subnets[s].block \subseteq subnets[t].block
  IN  {s \in Holding : \A t \in Holding : Before(s, t)}

\* Faulty: a supernet's own rows only.
CoveredItself(subnets, s) == {s}

\* s and every subnet carved out of it, whose rows count for its utilization.
Covered(subnets, s) ==
  {s} \cup {t \in Existing(subnets) :
              /\ subnets[t].block # subnets[s].block
              /\ subnets[t].block \subseteq subnets[s].block}

-----------------------------------------------------------------------------
(* Merging the sources.  A view v is what one tick has read:               *)
(* [subnets, leases, dns, arp, routes, manual, previous].                  *)

At(rows, ip) == {r \in rows : r.ip = ip}
Either(x, y) == IF x # NULL THEN x ELSE y
Known(S) == S \ {NULL}

\* What "the first row" of a query result may be.
Firsts(S) == IF S = {} THEN {NULL} ELSE S

Reported(v) == {r.ip : r \in v.leases \cup v.dns \cup v.arp}

\* Addresses this tick writes a row for.
Seen(v, k) == k[2] \in Reported(v) /\ k[1] \in Home(v.subnets, k[2])

\* Active leases are preferred to the DHCP server's fixed reservations.
Leading(v, ip) ==
  LET here == At(v.leases, ip)
      active == {l \in here : l.state = "active"}
  IN  IF active # {} THEN active ELSE here

\* The rows a tick may take first for ip: a lease, a sighted MAC, a DNS name.
FirstRows(v, ip) ==
  [lease : Firsts(Leading(v, ip)),
   mac   : Firsts(Known({a.mac : a \in At(v.arp, ip)})),
   name  : Firsts({d.name : d \in At(v.dns, ip)})]

\* One choice of first rows for every address.
Orders(v) ==
  {f \in [IPs -> UNION {FirstRows(v, ip) : ip \in IPs}] :
     \A ip \in IPs : f[ip] \in FirstRows(v, ip)}

DuplicateIp(v, ip) ==
  \E l, m \in At(v.leases, ip) :
     l.mac # NULL /\ m.mac # NULL /\ l.mac # m.mac

StaticMismatch(manual, lease) ==
  /\ manual # NULL /\ lease # NULL
  /\ manual.mac # NULL /\ lease.mac # NULL
  /\ manual.mac # lease.mac

\* DNS alone names the address: no lease, sighting or manual entry.
DnsMismatch(v, k) ==
  /\ At(v.dns, k[2]) # {}
  /\ At(v.leases, k[2]) = {} /\ At(v.arp, k[2]) = {}
  /\ v.manual[k] = NULL

\* Faulty: a sighted MAC is preferred to the lease's.
DiscoveredSightingFirst(v, ip, first) ==
  LET lease == first.lease
      leased == lease # NULL
      allReserved == \A l \in At(v.leases, ip) : l.state = "reserved"
  IN  [status |-> IF ~leased THEN "used"
                  ELSE IF allReserved THEN "reserved" ELSE "dhcp",
       mac    |-> IF leased THEN Either(first.mac, lease.mac) ELSE first.mac,
       host   |-> IF leased THEN Either(lease.host, first.name)
                  ELSE first.name,
       source |-> IF leased THEN "dhcp_lease"
                  ELSE IF At(v.arp, ip) # {} THEN "arp" ELSE "dns_record"]

\* What the collectors alone say about an address.
Discovered(v, ip, first) ==
  LET lease == first.lease
      leased == lease # NULL
      allReserved == \A l \in At(v.leases, ip) : l.state = "reserved"
  IN  [status |-> IF ~leased THEN "used"
                  ELSE IF allReserved THEN "reserved" ELSE "dhcp",
       mac    |-> IF leased THEN Either(lease.mac, first.mac) ELSE first.mac,
       host   |-> IF leased THEN Either(lease.host, first.name)
                  ELSE first.name,
       source |-> IF leased THEN "dhcp_lease"
                  ELSE IF At(v.arp, ip) # {} THEN "arp" ELSE "dns_record"]

\* Faulty: the collectors' values are preferred to the manual entry's.
MergedCollectorFirst(v, k, first) ==
  LET d == Discovered(v, k[2], first)
      m == v.manual[k]
      base == IF m = NULL THEN d
              ELSE [status |-> "static", source |-> "manual",
                    mac |-> Either(d.mac, m.mac),
                    host |-> Either(d.host, m.host)]
  IN  IF DuplicateIp(v, k[2]) \/ StaticMismatch(m, first.lease)
        THEN [base EXCEPT !.status = "conflict"] ELSE base

\* Precedence: manual entry, then lease, then sighting.
Merged(v, k, first) ==
  LET d == Discovered(v, k[2], first)
      m == v.manual[k]
      base == IF m = NULL THEN d
              ELSE [status |-> "static", source |-> "manual",
                    mac |-> Either(m.mac, d.mac),
                    host |-> Either(m.host, d.host)]
  IN  IF DuplicateIp(v, k[2]) \/ StaticMismatch(m, first.lease)
        THEN [base EXCEPT !.status = "conflict"] ELSE base

\* Faulty: the upsert without its WHERE clause.
UpsertAnyRow(old, new) == new

\* INSERT ... ON CONFLICT DO UPDATE ... WHERE: a row that became manual
\* since the view was read is not overwritten by a discovered one.
UpsertRow(old, new) ==
  IF IsManual(old) /\ new.source # "manual" THEN old ELSE new

\* UPDATE ... SET status = 'free', ... WHERE source != 'manual'.
ReleaseRow(old) ==
  IF IsDiscovered(old)
    THEN [old EXCEPT !.status = "free", !.mac = NULL, !.host = NULL]
    ELSE old

-----------------------------------------------------------------------------
(* Findings and the conflicts table.                                       *)

Finding(type, ip, subnet, detail) ==
  [type |-> type, ip |-> ip, subnet |-> subnet, detail |-> detail]

ConflictTypes == {"duplicate_ip", "static_dhcp_mismatch", "dns_mismatch",
                  "duplicate_mac", "subnet_overlap", "subnet_unrouted",
                  "route_gateway_mismatch"}

\* Faulty: a mismatch with the manual entry is shown but not recorded.
AddressFindingsNoStatic(v, first) ==
  LET seen == {k \in Keys : Seen(v, k)}
      dup == {k \in seen : DuplicateIp(v, k[2])}
      dns == {k \in seen : DnsMismatch(v, k)}
  IN  {Finding("duplicate_ip", k[2], k[1], NULL) : k \in dup}
      \cup {Finding("dns_mismatch", k[2], k[1], NULL) : k \in dns}

AddressFindings(v, first) ==
  LET seen == {k \in Keys : Seen(v, k)}
      dup == {k \in seen : DuplicateIp(v, k[2])}
      static == {k \in seen : StaticMismatch(v.manual[k], first[k[2]].lease)}
      dns == {k \in seen : DnsMismatch(v, k)}
  IN  {Finding("duplicate_ip", k[2], k[1], NULL) : k \in dup}
      \cup {Finding("static_dhcp_mismatch", k[2], k[1], NULL) : k \in static}
      \cup {Finding("dns_mismatch", k[2], k[1], NULL) : k \in dns}

\* One record per MAC bound to several addresses; no address, no subnet.
MacFindings(v) ==
  LET bound == v.leases \cup v.arp
  IN  {Finding("duplicate_mac", NULL, NULL, m) :
         m \in {x \in Macs : \E a, b \in bound :
                               a.mac = x /\ b.mac = x /\ a.ip # b.ip}}

\* Keyed by the first subnet of the pair; the other one is a detail.
OverlapFindings(v) ==
  {Finding("subnet_overlap", NULL, p[1], p[2]) :
     p \in {q \in Existing(v.subnets) \X Existing(v.subnets) :
              /\ q[1] < q[2]
              /\ v.subnets[q[1]].block \cap v.subnets[q[2]].block # {}}}

\* Faulty: any discovered route of the network vouches for the gateway.
RouteFindingsUnroutedOnly(v) ==
  LET To(s) == {r \in v.routes : r.dest = v.subnets[s].block}
  IN  IF v.routes = {} THEN {}
      ELSE {Finding("subnet_unrouted", NULL, s, NULL) :
              s \in {t \in Existing(v.subnets) : To(t) = {}}}

RouteFindings(v) ==
  LET To(s) == {r \in v.routes : r.dest = v.subnets[s].block}
      Hops(s) == Known({r.hop : r \in To(s)})
      unrouted == {s \in Existing(v.subnets) : To(s) = {}}
      wrong == {s \in Existing(v.subnets) \ unrouted :
                  /\ v.subnets[s].gateway # NULL
                  /\ Hops(s) # {} /\ v.subnets[s].gateway \notin Hops(s)}
  IN  IF v.routes = {} THEN {}
      ELSE {Finding("subnet_unrouted", NULL, s, NULL) : s \in unrouted}
           \cup {Finding("route_gateway_mismatch", NULL, s, NULL) : s \in wrong}

Findings(v, first) ==
  AddressFindings(v, first) \cup MacFindings(v) \cup OverlapFindings(v)
    \cup RouteFindings(v)

ConflictRow ==
  [type : ConflictTypes, ip : OrNull(IPs), subnet : OrNull(SubnetIds),
   detail : OrNull(Macs \cup SubnetIds), copy : 1..MaxCopies,
   open : BOOLEAN, acked : BOOLEAN]

Concerns(row, f) ==
  /\ row.type = f.type /\ row.ip = f.ip
  /\ row.subnet = f.subnet /\ row.detail = f.detail

\* SQLite's UNIQUE takes two NULLs as different: only a finding with both an
\* address and a subnet can meet an existing row.
IsKeyed(f) == f.ip # NULL /\ f.subnet # NULL

NewConflict(f, copy, acked) ==
  [type |-> f.type, ip |-> f.ip, subnet |-> f.subnet, detail |-> f.detail,
   copy |-> copy, open |-> TRUE, acked |-> acked]

\* The copy of its record a finding is written to: a keyed one meets its only
\* row, any other is inserted again.  The last copy stands for all later ones.
CopyFor(table, f) ==
  LET next == Cardinality({r \in table : Concerns(r, f)}) + 1
  IN  IF IsKeyed(f) THEN 1 ELSE IF next \in 1..MaxCopies THEN next ELSE MaxCopies

Written(table, r, f) == Concerns(r, f) /\ r.copy = CopyFor(table, f)

\* An upsert keeps the row's acknowledgement.
Acked(table, f) ==
  IsKeyed(f) /\ \E r \in table : Written(table, r, f) /\ r.acked

\* Faulty: ON CONFLICT DO NOTHING, a resolved record stays resolved.
RecordOnlyNew(table, found) ==
  table \cup {NewConflict(f, CopyFor(table, f), FALSE) :
                f \in {g \in found : \A r \in table : ~Written(table, r, g)}}

\* Faulty: every tick reopens the whole table.
RecordReopeningAll(table, found) ==
  {[r EXCEPT !.open = TRUE] :
     r \in {q \in table : \A f \in found : ~Written(table, q, f)}}
    \cup {NewConflict(f, CopyFor(table, f), Acked(table, f)) : f \in found}

\* Every finding leaves an open record behind.
RecordFindings(table, found) ==
  {r \in table : \A f \in found : ~Written(table, r, f)}
    \cup {NewConflict(f, CopyFor(table, f), Acked(table, f)) : f \in found}
=============================================================================
