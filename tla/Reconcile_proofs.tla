-------------------------- MODULE Reconcile_proofs ---------------------------
(***************************************************************************)
(* Theorems about Reconcile for every network, every set of collectors and *)
(* every bound: its tables keep their types, every address shown as in     *)
(* conflict has its record, no tick takes a manual row or what a user      *)
(* typed away, and resolved records stay resolved.  After a tick nobody    *)
(* disturbed the rows, the open conflicts and the utilization are those    *)
(* of what the collectors report, and the history tells every row.         *)
(***************************************************************************)
EXTENDS Reconcile, FiniteSetTheorems, WellFoundedInduction, TLAPS

-----------------------------------------------------------------------------
(* What the merge returns.                                                 *)

FirstType == [lease : OrNull(Lease), mac : OrNull(Macs), name : OrNull(Names)]

\* A choice of first rows yields, for every address, rows of the right tables.
LEMMA OrdersType ==
  ASSUME NEW v \in Views, NEW first \in Orders(v), NEW ip \in IPs
  PROVE  first[ip] \in FirstType
<1>1. first[ip] \in FirstRows(v, ip)
  BY DEF Orders
<1>2. Firsts(Leading(v, ip)) \subseteq OrNull(Lease)
  BY DEF Firsts, Leading, At, OrNull, Views
<1>3. Firsts(Known({a.mac : a \in At(v.arp, ip)})) \subseteq OrNull(Macs)
  BY DEF Firsts, Known, At, OrNull, Views, ArpEntry
<1>4. Firsts({d.name : d \in At(v.dns, ip)}) \subseteq OrNull(Names)
  BY DEF Firsts, At, OrNull, Views, DnsRecord
<1> QED
  BY <1>1, <1>2, <1>3, <1>4 DEF FirstRows, FirstType

\* What the collectors say about an address is a row of ip_addresses.
LEMMA DiscoveredType ==
  ASSUME NEW v \in Views, NEW ip \in IPs, NEW first \in FirstType
  PROVE  /\ Discovered(v, ip, first) \in IpRow
         /\ Discovered(v, ip, first).source # "manual"
         /\ Discovered(v, ip, first).status # "conflict"
<1>1. first.lease # NULL => first.lease \in Lease
  BY DEF FirstType, OrNull
<1> QED
  BY <1>1 DEF Discovered, FirstType, IpRow, Lease, Either, OrNull, Sources,
              Statuses

\* So is a merged row, and its status is "conflict" only for one of the two
\* conflicts the merge looks for.
LEMMA MergedType ==
  ASSUME NEW v \in Views, NEW k \in Keys, NEW first \in FirstType
  PROVE  /\ Merged(v, k, first) \in IpRow
         /\ Merged(v, k, first).status = "conflict" =>
              DuplicateIp(v, k[2]) \/ StaticMismatch(v.manual[k], first.lease)
<1> DEFINE d == Discovered(v, k[2], first)
<1> DEFINE m == v.manual[k]
<1> DEFINE base == IF m = NULL THEN d
                   ELSE [status |-> "static", source |-> "manual",
                         mac |-> Either(m.mac, d.mac),
                         host |-> Either(m.host, d.host)]
<1>1. d \in IpRow /\ d.status # "conflict"
  BY DiscoveredType DEF Keys
<1>2. m # NULL => m \in IpRow
  BY DEF Views, OrNull
<1>3. base \in IpRow /\ base.status # "conflict"
  BY <1>1, <1>2 DEF IpRow, Either, Sources, Statuses
<1> HIDE DEF base
<1>4. [base EXCEPT !.status = "conflict"] \in IpRow
  BY <1>3 DEF IpRow, Statuses
<1>5. Merged(v, k, first) =
        IF DuplicateIp(v, k[2]) \/ StaticMismatch(m, first.lease)
          THEN [base EXCEPT !.status = "conflict"] ELSE base
  BY DEF Merged, base
<1> QED
  BY <1>3, <1>4, <1>5

-----------------------------------------------------------------------------
(* What the conflicts table takes in.                                      *)

FindingType == [type : ConflictTypes, ip : OrNull(IPs), subnet : OrNull(SubnetIds),
                detail : OrNull(Macs \cup SubnetIds)]

LEMMA FindingsType ==
  ASSUME NEW v \in Views, NEW first \in Orders(v)
  PROVE  Findings(v, first) \subseteq FindingType
<1>1. AddressFindings(v, first) \subseteq FindingType
  BY DEF AddressFindings, FindingType, Finding, Keys, OrNull, ConflictTypes
<1>2. MacFindings(v) \subseteq FindingType
  BY DEF MacFindings, FindingType, Finding, OrNull, ConflictTypes
<1>3. OverlapFindings(v) \subseteq FindingType
  BY DEF OverlapFindings, FindingType, Finding, OrNull, ConflictTypes, Existing
<1>4. RouteFindings(v) \subseteq FindingType
  <2>1. \A s \in SubnetIds :
          /\ Finding("subnet_unrouted", NULL, s, NULL) \in FindingType
          /\ Finding("route_gateway_mismatch", NULL, s, NULL) \in FindingType
    BY DEF FindingType, Finding, OrNull, ConflictTypes
  <2>2. Existing(v.subnets) \subseteq SubnetIds
    BY DEF Existing
  <2> QED BY <2>1, <2>2 DEF RouteFindings
<1> QED
  BY <1>1, <1>2, <1>3, <1>4 DEF Findings

LEMMA RecordFindingsType ==
  ASSUME NEW table \in SUBSET ConflictRow, NEW found \in SUBSET FindingType
  PROVE  RecordFindings(table, found) \subseteq ConflictRow
<1>1. ASSUME NEW f \in FindingType
      PROVE  CopyFor(table, f) \in 1..MaxCopies
  BY BlocksAssumption DEF CopyFor
<1>2. ASSUME NEW f \in FindingType
      PROVE  Acked(table, f) \in BOOLEAN
  BY DEF Acked
<1>3. ASSUME NEW f \in FindingType, NEW c \in 1..MaxCopies, NEW a \in BOOLEAN
      PROVE  NewConflict(f, c, a) \in ConflictRow
  BY DEF NewConflict, FindingType, ConflictRow
<1> QED
  BY <1>1, <1>2, <1>3 DEF RecordFindings

\* A record names the same conflict of the same address before and after:
\* the table forgets nothing, and it takes in every finding.
LEMMA RecordFindingsKeeps ==
  ASSUME NEW table \in SUBSET ConflictRow, NEW found \in SUBSET FindingType
  PROVE  /\ \A r \in table : \E q \in RecordFindings(table, found) :
              q.type = r.type /\ q.ip = r.ip /\ q.subnet = r.subnet
         /\ \A f \in found :
              \E q \in RecordFindings(table, found) :
                q.type = f.type /\ q.ip = f.ip /\ q.subnet = f.subnet
<1> DEFINE new(f) == NewConflict(f, CopyFor(table, f), Acked(table, f))
<1>1. \A f \in found : new(f) \in RecordFindings(table, found)
  BY DEF RecordFindings
<1>2. \A f : new(f).type = f.type /\ new(f).ip = f.ip /\ new(f).subnet = f.subnet
  BY DEF NewConflict
<1> HIDE DEF new
<1>3. ASSUME NEW r \in table
      PROVE  \E q \in RecordFindings(table, found) :
               q.type = r.type /\ q.ip = r.ip /\ q.subnet = r.subnet
  <2>1. CASE \A f \in found : ~Written(table, r, f)
    <3>1. r \in RecordFindings(table, found)
      BY <2>1 DEF RecordFindings
    <3> QED BY <3>1
  <2>2. CASE \E f \in found : Written(table, r, f)
    <3>1. PICK f \in found : Concerns(r, f)
      BY <2>2 DEF Written
    <3> QED BY <3>1, <1>1, <1>2 DEF Concerns
  <2> QED BY <2>1, <2>2
<1> QED
  BY <1>1, <1>2, <1>3

\* Whatever a tick merges into status "conflict", it also records.
LEMMA MergeConflictIsFound ==
  ASSUME NEW v \in Views, NEW first \in Orders(v), NEW k \in Keys, Seen(v, k),
         Merged(v, k, first[k[2]]).status = "conflict"
  PROVE  \E f \in Findings(v, first) :
            /\ IsKeyed(f) /\ f.ip = k[2] /\ f.subnet = k[1]
            /\ f.type \in {"duplicate_ip", "static_dhcp_mismatch"}
<1> DEFINE dup == Finding("duplicate_ip", k[2], k[1], NULL)
<1> DEFINE mis == Finding("static_dhcp_mismatch", k[2], k[1], NULL)
<1>1. DuplicateIp(v, k[2]) \/ StaticMismatch(v.manual[k], first[k[2]].lease)
  BY OrdersType, MergedType DEF Keys
<1>2. k[1] # NULL /\ k[2] # NULL
  BY NullAssumption DEF Keys
<1>3. IsKeyed(dup) /\ IsKeyed(mis)
  BY <1>2 DEF IsKeyed, Finding
<1>4. dup \in Findings(v, first) \/ mis \in Findings(v, first)
  BY <1>1 DEF Findings, AddressFindings
<1> QED
  BY <1>3, <1>4 DEF Finding

-----------------------------------------------------------------------------
(* Types.                                                                  *)

\* Reading steps change the view alone.
LEMMA ReadsType == TypeOK /\ (Tick \/ Abort) /\ ~Write => TypeOK'
<1> SUFFICES ASSUME TypeOK, Tick \/ Abort, ~Write PROVE TypeOK'
  OBVIOUS
<1> USE DEF TypeOK, Tables, raw, ghost, Reads
<1> NoView \in Views /\ view \in Views
  BY DEF NoView, NoRows, Views, OrNull
<1>1. CASE ReadSubnets
  <2>1. view' \in Views
    BY <1>1 DEF ReadSubnets, Views
  <2> QED BY <1>1, <2>1 DEF ReadSubnets
<1>2. CASE ReadLeases
  <2>1. view' \in Views
    BY <1>2 DEF ReadLeases, Read, Views
  <2> QED BY <1>2, <2>1 DEF ReadLeases, Read
<1>3. CASE ReadDns
  <2>1. view' \in Views
    BY <1>3 DEF ReadDns, Read, Views
  <2> QED BY <1>3, <2>1 DEF ReadDns, Read
<1>4. CASE ReadArp
  <2>1. view' \in Views
    BY <1>4 DEF ReadArp, Read, Views
  <2> QED BY <1>4, <2>1 DEF ReadArp, Read
<1>5. CASE ReadRoutes
  <2>1. view' \in Views
    BY <1>5 DEF ReadRoutes, Read, Views
  <2> QED BY <1>5, <2>1 DEF ReadRoutes, Read
<1>6. CASE ReadManual
  <2>1. [k \in Keys |-> IF IsManual(rows[k]) THEN rows[k] ELSE NULL]
          \in [Keys -> OrNull(IpRow)]
    BY DEF OrNull
  <2>2. view' \in Views
    BY <1>6, <2>1 DEF ReadManual, Read, Views
  <2> QED BY <1>6, <2>2 DEF ReadManual, Read
<1>7. CASE ReadPrevious
  <2>1. [k \in Keys |-> IF IsDiscovered(rows[k]) THEN rows[k] ELSE NULL]
          \in [Keys -> OrNull(IpRow)]
    BY DEF OrNull
  <2>2. view' \in Views
    BY <1>7, <2>1 DEF ReadPrevious, Read, Views
  <2> QED BY <1>7, <2>2 DEF ReadPrevious, Read
<1>8. CASE Abort
  <2>1. edits' \in 0..MaxEdits
    BY <1>8, InputsAssumption DEF Abort
  <2> QED BY <1>8, <2>1 DEF Abort
<1> QED
  BY <1>1, <1>2, <1>3, <1>4, <1>5, <1>6, <1>7, <1>8 DEF Tick

\* The row a tick leaves at a key is a row or none.
LEMMA NewRowType ==
  ASSUME TypeOK, NEW first \in Orders(view), NEW k \in Keys
  PROVE  NewRow(k, first) \in OrNull(IpRow)
<1>1. Merged(view, k, first[k[2]]) \in IpRow
  BY OrdersType, MergedType DEF TypeOK, Keys
<1>2. rows[k] \in OrNull(IpRow)
  BY DEF TypeOK
<1>3. UpsertRow(rows[k], Merged(view, k, first[k[2]])) \in OrNull(IpRow)
  BY <1>1, <1>2 DEF UpsertRow, OrNull
<1>4. ReleaseRow(rows[k]) \in OrNull(IpRow)
  BY <1>2 DEF ReleaseRow, IsDiscovered, OrNull, IpRow, Statuses
<1> QED
  BY <1>2, <1>3, <1>4 DEF NewRow

LEMMA NewEventType ==
  ASSUME TypeOK, NEW first \in Orders(view), NEW k \in Keys
  PROVE  NewEvent(k, first) \in OrNull(Events)
<1>1. Merged(view, k, first[k[2]]) \in IpRow
  BY OrdersType, MergedType DEF TypeOK, Keys
<1>2. view.previous[k] # NULL => view.previous[k] \in IpRow
  BY DEF TypeOK, Views, OrNull
<1>3. hist[k] \in OrNull(Events)
  BY DEF TypeOK
<1> QED
  BY <1>1, <1>2, <1>3 DEF NewEvent, Released, Event, Events, OrNull, IpRow

\* The keys are finitely many, so their counts are numbers.
LEMMA UsedCountType ==
  ASSUME NEW s, NEW table
  PROVE  UsedCount(s, table) \in Nat
<1>1. IsFiniteSet(Keys)
  BY FinitenessAssumption, FS_Product DEF Keys
<1>2. IsFiniteSet({k \in Keys : /\ k[1] \in Covered(view.subnets, s)
                               /\ table[k] # NULL /\ table[k].status # "free"})
  BY <1>1, FS_Subset
<1> QED
  BY <1>2, FS_CardinalityType DEF UsedCount

LEMMA WriteType == TypeOK /\ Write => TypeOK'
<1> SUFFICES ASSUME TypeOK, Write PROVE TypeOK'
  OBVIOUS
<1> PICK first \in Orders(view) :
      /\ rows' = [k \in Keys |-> NewRow(k, first)]
      /\ hist' = [k \in Keys |-> NewEvent(k, first)]
      /\ conflicts' = RecordFindings(conflicts, Findings(view, first))
  BY DEF Write
<1>1. rows' \in [Keys -> OrNull(IpRow)]
  BY NewRowType
<1>2. hist' \in [Keys -> OrNull(Events)]
  BY NewEventType
<1>3. conflicts' \subseteq ConflictRow
  BY FindingsType, RecordFindingsType DEF TypeOK
<1>4. used' \in [SubnetIds -> OrNull(Nat)]
  BY UsedCountType DEF Write, TypeOK, OrNull
<1>5. NoView \in Views
  BY DEF NoView, NoRows, Views, OrNull
<1> QED
  BY <1>1, <1>2, <1>3, <1>4, <1>5 DEF Write, TypeOK, raw, Reads

\* What every write outside the engine does to the engine's own variables.
LEMMA EditType ==
  ASSUME TypeOK, NEW K \in SUBSET Keys, Edit(K)
  PROVE  /\ pc' = pc /\ view' = view
         /\ edits' \in 0..MaxEdits
         /\ touched' \subseteq Keys /\ raced' \subseteq Keys
         /\ calm' \in BOOLEAN /\ fresh' \in BOOLEAN
<1>1. edits' \in 0..MaxEdits
  BY InputsAssumption DEF Edit, TypeOK
<1>2. touched' \subseteq Keys
  BY DEF Edit, TypeOK
<1> QED
  BY <1>1, <1>2 DEF Edit, TypeOK

LEMMA PollType == TypeOK /\ Poll => TypeOK'
<1> SUFFICES ASSUME TypeOK, NEW c \in Collectors,
                    PollDhcp(c) \/ PollDns(c) \/ PollDevice(c)
             PROVE  TypeOK'
  BY DEF Poll
<1>1. Edit({})
  BY DEF PollDhcp, PollDns, PollDevice
<1>2. CASE PollDhcp(c)
  <2>1. PICK new \in SUBSET {l \in LeaseInputs : l.coll = c} :
          /\ leases' = Others(leases, c) \cup new
          /\ dns' = Others(dns, c) \cup
               {[coll |-> c, ip |-> l.ip, name |-> l.host] :
                  l \in {x \in new : x.state # "expired" /\ x.host # NULL}}
    BY <1>2 DEF PollDhcp
  <2>2. leases' \subseteq Lease
    BY <2>1, InputsAssumption DEF Others, TypeOK
  <2>3. dns' \subseteq DnsRecord
    <3>1. \A l \in Lease : l.host # NULL =>
            [coll |-> c, ip |-> l.ip, name |-> l.host] \in DnsRecord
      BY DEF Lease, DnsRecord, OrNull
    <3> QED BY <2>1, <3>1, InputsAssumption DEF Others, TypeOK
  <2> QED BY <1>1, <1>2, <2>2, <2>3, EditType DEF PollDhcp, TypeOK
<1>3. CASE PollDns(c)
  <2>1. dns' \subseteq DnsRecord
    BY <1>3, InputsAssumption DEF PollDns, Others, TypeOK
  <2> QED BY <1>1, <1>3, <2>1, EditType DEF PollDns, TypeOK
<1>4. CASE PollDevice(c)
  <2>1. arp' \subseteq ArpEntry /\ routes' \subseteq Route
    BY <1>4, InputsAssumption DEF PollDevice, Others, TypeOK
  <2> QED BY <1>1, <1>4, <2>1, EditType DEF PollDevice, TypeOK
<1> QED
  BY <1>2, <1>3, <1>4

LEMMA EditIpType == TypeOK /\ EditIp => TypeOK'
<1> SUFFICES ASSUME TypeOK, EditIp PROVE TypeOK'
  OBVIOUS
<1> USE InputsAssumption
<1>1. CASE \E k \in Keys : DeleteIpAddress(k)
  <2>1. PICK k \in Keys : DeleteIpAddress(k)
    BY <1>1
  <2>2. rows' \in [Keys -> OrNull(IpRow)]
    BY <2>1 DEF DeleteIpAddress, TypeOK, OrNull
  <2>3. rows[k] \in IpRow
    BY <2>1 DEF DeleteIpAddress, TypeOK, OrNull
  <2>4. hist' \in [Keys -> OrNull(Events)]
    BY <2>1, <2>3 DEF DeleteIpAddress, TypeOK, OrNull, Event, Events, IpRow
  <2> QED BY <2>1, <2>2, <2>4, EditType DEF DeleteIpAddress, TypeOK, raw
<1>2. ASSUME NEW k \in Keys, NEW st \in Statuses, NEW mac \in UserMacs,
             NEW host \in UserNames,
             CreateManualIp(k, st, mac, host) \/ UpdateIpAddress(k, st, mac, host)
      PROVE  TypeOK'
  <2>1. [source |-> "manual", status |-> st, mac |-> mac, host |-> host] \in IpRow
    BY DEF IpRow, Sources, Statuses
  <2>2. rows' \in [Keys -> OrNull(IpRow)]
    BY <1>2, <2>1 DEF CreateManualIp, UpdateIpAddress, TypeOK, OrNull
  <2>3. \A e \in {"first_seen", "changed"} : Event(e, mac, host) \in Events
    BY DEF Event, Events
  <2>4. hist' \in [Keys -> OrNull(Events)]
    BY <1>2, <2>3 DEF CreateManualIp, UpdateIpAddress, TypeOK, OrNull
  <2>5. Edit({k})
    BY <1>2 DEF CreateManualIp, UpdateIpAddress
  <2> QED BY <1>2, <2>2, <2>4, <2>5, EditType
          DEF CreateManualIp, UpdateIpAddress, TypeOK, raw
<1>3. \A k \in Keys : UserStatuses \cup Offered(k) \subseteq Statuses
  BY DEF Offered, Statuses, TypeOK, OrNull, IpRow
<1> QED
  BY <1>1, <1>2, <1>3 DEF EditIp

LEMMA EditManyType == TypeOK /\ EditMany => TypeOK'
<1> SUFFICES ASSUME TypeOK, NEW s \in SubnetIds, NEW I \in SUBSET IPs,
                    NEW st \in OrNull(UserStatuses), BulkUpdate(s, I, st)
             PROVE  TypeOK'
  BY DEF EditMany
<1>1. ASSUME NEW k \in Keys PROVE rows'[k] \in OrNull(IpRow)
  <2>1. st # NULL => st \in Statuses
    BY InputsAssumption DEF OrNull, Statuses
  <2>2. rows[k] # NULL => rows[k] \in IpRow
    BY DEF TypeOK, OrNull
  <2>3. CASE k \notin {s} \X I
    BY <2>2, <2>3 DEF BulkUpdate, OrNull
  <2>4. CASE k \in {s} \X I /\ rows[k] = NULL
    <3>1. rows'[k] = [source |-> "manual", status |-> Either(st, "static"),
                      mac |-> NULL, host |-> NULL]
      BY <2>4 DEF BulkUpdate
    <3> QED BY <2>1, <3>1 DEF OrNull, IpRow, Either, Sources, Statuses
  <2>5. CASE k \in {s} \X I /\ rows[k] # NULL
    <3>1. rows'[k] = [rows[k] EXCEPT !.source = "manual",
                                     !.status = Either(st, rows[k].status)]
      BY <2>5 DEF BulkUpdate
    <3> QED BY <2>1, <2>2, <2>5, <3>1 DEF OrNull, IpRow, Either, Sources
  <2> QED BY <2>3, <2>4, <2>5
<1>2. rows' \in [Keys -> OrNull(IpRow)]
  <2>1. rows' = [k \in Keys |-> rows'[k]]
    BY DEF BulkUpdate
  <2> QED BY <1>1, <2>1
<1>3. {s} \X I \subseteq Keys
  BY DEF Keys
<1> QED
  BY <1>2, <1>3, EditType DEF BulkUpdate, TypeOK, raw

LEMMA EditSubnetType == TypeOK /\ EditSubnet => TypeOK'
<1> SUFFICES ASSUME TypeOK, NEW s \in SubnetIds,
                    \/ DeleteSubnet(s)
                    \/ \E row \in SubnetInputs : CreateSubnet(s, row) \/ UpdateSubnet(s, row)
             PROVE  TypeOK'
  BY DEF EditSubnet
<1>1. CASE DeleteSubnet(s)
  BY <1>1, EditType DEF DeleteSubnet, TypeOK, OrNull, raw
<1>2. ASSUME NEW row \in SubnetInputs, CreateSubnet(s, row) \/ UpdateSubnet(s, row)
      PROVE  TypeOK'
  <2>1. subnets' \in [SubnetIds -> OrNull(SubnetRow)]
    BY <1>2, InputsAssumption DEF CreateSubnet, UpdateSubnet, TypeOK, OrNull
  <2>2. Edit({})
    BY <1>2 DEF CreateSubnet, UpdateSubnet
  <2> QED BY <1>2, <2>1, <2>2, EditType DEF CreateSubnet, UpdateSubnet, TypeOK, raw
<1> QED
  BY <1>1, <1>2

LEMMA EditConflictType == TypeOK /\ EditConflict => TypeOK'
<1> SUFFICES ASSUME TypeOK, EditConflict PROVE TypeOK'
  OBVIOUS
<1>1. \A r \in ConflictRow : /\ [r EXCEPT !.open = FALSE] \in ConflictRow
                             /\ [r EXCEPT !.acked = TRUE] \in ConflictRow
  BY DEF ConflictRow
<1>2. CASE ResolveAllConflicts
  <2>1. conflicts' \subseteq ConflictRow
    BY <1>1, <1>2 DEF ResolveAllConflicts, TypeOK
  <2> QED BY <1>2, <2>1, EditType DEF ResolveAllConflicts, TypeOK, raw
<1>3. ASSUME NEW r \in conflicts, ResolveConflicts({r}) \/ AckConflict(r)
      PROVE  TypeOK'
  <2>1. conflicts' \subseteq conflicts \cup {[r EXCEPT !.open = FALSE],
                                            [r EXCEPT !.acked = TRUE]}
    BY <1>3 DEF ResolveConflicts, AckConflict
  <2>2. Edit({})
    BY <1>3 DEF ResolveConflicts, AckConflict
  <2>3. conflicts' \subseteq ConflictRow
    BY <1>1, <2>1 DEF TypeOK
  <2> QED BY <1>3, <2>2, <2>3, EditType DEF ResolveConflicts, AckConflict, TypeOK, raw
<1> QED
  BY <1>2, <1>3 DEF EditConflict

LEMMA InitType == Init => TypeOK
<1> SUFFICES ASSUME Init PROVE TypeOK
  OBVIOUS
<1>1. NoRows \in [Keys -> OrNull(IpRow)] /\ NoRows \in [Keys -> OrNull(Events)]
  BY DEF NoRows, OrNull
<1>2. NoView \in Views
  BY <1>1 DEF NoView, Views, OrNull
<1>3. used \in [SubnetIds -> OrNull(Nat)]
  BY DEF Init, OrNull
<1>4. edits \in 0..MaxEdits
  BY InputsAssumption DEF Init
<1>5. subnets \in [SubnetIds -> OrNull(SubnetRow)]
  BY InputsAssumption DEF Init
<1> QED
  BY <1>1, <1>2, <1>3, <1>4, <1>5 DEF Init, TypeOK, Reads

\* Every table keeps to its columns, keys and value domains, whatever the
\* engine, the pollers and the users do and in whatever order (the column
\* constraints of the schema, and the reads of _tick).
THEOREM TypeCorrect == Spec => []TypeOK
<1>1. TypeOK /\ [Next]_vars => TypeOK'
  <2> SUFFICES ASSUME TypeOK, [Next]_vars PROVE TypeOK'
    OBVIOUS
  <2>1. CASE UNCHANGED vars
    BY <2>1 DEF vars, raw, ghost, TypeOK
  <2> QED
    BY <2>1, ReadsType, WriteType, PollType, EditIpType, EditManyType,
       EditSubnetType, EditConflictType DEF Next
<1> QED
  BY <1>1, InitType, PTL DEF Spec

-----------------------------------------------------------------------------
(* Conflicts shown and conflicts recorded.                                 *)

Explains(r, k) == /\ r.type \in {"duplicate_ip", "static_dhcp_mismatch"}
                  /\ r.ip = k[2] /\ r.subnet = k[1]

\* A tick writes the status and the record together, and drops no record.
LEMMA WriteExplains ==
  ASSUME TypeOK, ConflictStatusHasRecord, Write
  PROVE  ConflictStatusHasRecord'
<1> PICK first \in Orders(view) :
      /\ rows' = [k \in Keys |-> NewRow(k, first)]
      /\ conflicts' = RecordFindings(conflicts, Findings(view, first))
  BY DEF Write
<1> SUFFICES ASSUME NEW k \in Keys, rows'[k] # NULL, rows'[k].status = "conflict"
             PROVE  \E r \in conflicts' : Explains(r, k)
  BY DEF ConflictStatusHasRecord, Explains
<1>1. view \in Views /\ conflicts \in SUBSET ConflictRow
      /\ Findings(view, first) \in SUBSET FindingType
  BY FindingsType DEF TypeOK
<1>2. rows'[k] = NewRow(k, first)
  OBVIOUS
<1>3. CASE Seen(view, k) /\ rows'[k] = Merged(view, k, first[k[2]])
  BY <1>1, <1>3, MergeConflictIsFound, RecordFindingsKeeps DEF Explains
<1>4. CASE rows'[k] = rows[k]
  <2>1. PICK r \in conflicts : Explains(r, k)
    BY <1>4 DEF ConflictStatusHasRecord, Explains
  <2> QED BY <1>1, <2>1, RecordFindingsKeeps DEF Explains
<1>5. CASE rows'[k] = ReleaseRow(rows[k]) /\ rows'[k] # rows[k]
  <2>1. rows[k] \in IpRow
    BY <1>5 DEF ReleaseRow, IsDiscovered, TypeOK, OrNull
  <2>2. rows'[k].status = "free"
    BY <1>5, <2>1 DEF ReleaseRow, IpRow
  <2> QED BY <2>2
<1> QED
  BY <1>2, <1>3, <1>4, <1>5 DEF NewRow, UpsertRow

\* Users never choose the status "conflict"; they close records or mark them,
\* and delete them only together with the rows of their subnet.
LEMMA EditsExplain ==
  ASSUME TypeOK, ConflictStatusHasRecord,
         EditIp \/ EditMany \/ EditSubnet \/ EditConflict
  PROVE  ConflictStatusHasRecord'
<1> "conflict" \notin UserStatuses
  BY InputsAssumption
<1> SUFFICES ASSUME NEW k \in Keys, rows'[k] # NULL, rows'[k].status = "conflict"
             PROVE  \E r \in conflicts' : Explains(r, k)
  BY DEF ConflictStatusHasRecord, Explains
<1>1. ASSUME rows[k] # NULL, rows[k].status = "conflict"
      PROVE  \E r \in conflicts : Explains(r, k)
  BY <1>1 DEF ConflictStatusHasRecord, Explains
<1>2. k[1] # NULL
  BY NullAssumption DEF Keys
<1>3. CASE EditIp
  <2>1. conflicts' = conflicts
    BY <1>3 DEF EditIp, DeleteIpAddress, CreateManualIp, UpdateIpAddress
  <2>2. rows[k] # NULL /\ rows[k].status = "conflict"
    BY <1>3 DEF EditIp, DeleteIpAddress, CreateManualIp, UpdateIpAddress,
       Offered, TypeOK
  <2> QED BY <1>1, <2>1, <2>2
<1>4. CASE EditMany
  <2>1. PICK s \in SubnetIds, I \in SUBSET IPs, st \in OrNull(UserStatuses) :
          BulkUpdate(s, I, st)
    BY <1>4 DEF EditMany
  <2>2. rows[k] # NULL /\ rows[k].status = "conflict"
    <3>1. st # "conflict"
      BY NullAssumption DEF OrNull, Statuses
    <3>2. rows[k] # NULL => rows[k] \in IpRow
      BY DEF TypeOK, OrNull
    <3> QED BY <2>1, <3>1, <3>2 DEF BulkUpdate, Either, IpRow
  <2> QED BY <1>1, <2>1, <2>2 DEF BulkUpdate
<1>5. CASE EditSubnet
  <2>1. PICK s \in SubnetIds :
          \/ DeleteSubnet(s)
          \/ \E row \in SubnetInputs : CreateSubnet(s, row) \/ UpdateSubnet(s, row)
    BY <1>5 DEF EditSubnet
  <2>2. CASE DeleteSubnet(s)
    BY <1>1, <2>2 DEF DeleteSubnet, Explains
  <2>3. CASE ~DeleteSubnet(s)
    BY <1>1, <2>1, <2>3 DEF CreateSubnet, UpdateSubnet
  <2> QED BY <2>2, <2>3
<1>6. CASE EditConflict
  <2>1. rows' = rows
    BY <1>6 DEF EditConflict, ResolveAllConflicts, ResolveConflicts, AckConflict
  <2>2. PICK r \in conflicts : Explains(r, k)
    BY <1>1, <2>1
  <2>3. r \in ConflictRow
    BY DEF TypeOK
  <2>4. /\ Explains([r EXCEPT !.open = FALSE], k)
        /\ Explains([r EXCEPT !.acked = TRUE], k)
    BY <2>2, <2>3 DEF Explains, ConflictRow
  <2>5. \/ r \in conflicts'
        \/ [r EXCEPT !.open = FALSE] \in conflicts'
        \/ [r EXCEPT !.acked = TRUE] \in conflicts'
    <3>1. CASE ResolveAllConflicts
      BY <3>1 DEF ResolveAllConflicts
    <3>2. ASSUME NEW q \in conflicts, ResolveConflicts({q}) \/ AckConflict(q)
          PROVE  \/ r \in conflicts'
                 \/ [r EXCEPT !.open = FALSE] \in conflicts'
                 \/ [r EXCEPT !.acked = TRUE] \in conflicts'
      BY <3>2 DEF ResolveConflicts, AckConflict
    <3> QED BY <1>6, <3>1, <3>2 DEF EditConflict
  <2> QED BY <2>2, <2>4, <2>5
<1> QED
  BY <1>3, <1>4, <1>5, <1>6

\* Every address shown as in conflict has a record of why, in every
\* interleaving of ticks, polls and edits (_tick's status = "conflict" beside
\* its _upsert_conflict, and ON DELETE CASCADE on conflicts.subnet_id).
THEOREM ConflictsRecorded == Spec => []ConflictStatusHasRecord
<1>1. Init => ConflictStatusHasRecord
  BY DEF Init, NoRows, ConflictStatusHasRecord
<1>2. TypeOK /\ ConflictStatusHasRecord /\ [Next]_vars => ConflictStatusHasRecord'
  <2> SUFFICES ASSUME TypeOK, ConflictStatusHasRecord, [Next]_vars
               PROVE  ConflictStatusHasRecord'
    OBVIOUS
  <2>1. CASE (Tick /\ ~Write) \/ Abort \/ Poll \/ UNCHANGED vars
    <3>1. rows' = rows /\ conflicts' = conflicts
      BY <2>1 DEF Tick, ReadSubnets, ReadLeases, ReadDns, ReadArp, ReadRoutes,
         ReadManual, ReadPrevious, Read, Abort, Tables, Poll, PollDhcp, PollDns,
         PollDevice, vars
    <3> QED BY <3>1 DEF ConflictStatusHasRecord
  <2> QED
    BY <2>1, WriteExplains, EditsExplain DEF Next
<1> QED
  BY <1>1, <1>2, TypeCorrect, PTL DEF Spec

\* Both together, in every reachable state: the invariant the model checker
\* evaluates on small networks (_tick, and every handler that edits the tables).
THEOREM Invariant == Spec => []Inv
BY TypeCorrect, ConflictsRecorded, PTL DEF Inv

-----------------------------------------------------------------------------
(* Manual rows.                                                            *)

\* No tick removes a manual row or makes it a discovered one, not even a row
\* created after the tick read the table (the WHERE clauses of the upsert and
\* of the release).
THEOREM ManualKept == Spec => ManualRowsKept
<1>1. TypeOK /\ [Next]_vars =>
        [Write => \A k \in Keys : IsManual(rows[k]) => IsManual(rows'[k])]_vars
  <2> SUFFICES ASSUME TypeOK, Write, NEW k \in Keys, IsManual(rows[k])
               PROVE  IsManual(rows'[k])
    OBVIOUS
  <2> PICK first \in Orders(view) : rows' = [j \in Keys |-> NewRow(j, first)]
    BY DEF Write
  <2>1. Merged(view, k, first[k[2]]) \in IpRow
    BY OrdersType, MergedType DEF TypeOK, Keys
  <2>2. NULL \notin IpRow
    BY NullAssumption
  <2> QED
    BY <2>1, <2>2 DEF NewRow, UpsertRow, ReleaseRow, IsManual, IsDiscovered
<1> QED
  BY <1>1, TypeCorrect, PTL DEF Spec, ManualRowsKept

-----------------------------------------------------------------------------
(* What users typed.                                                       *)

\* The strengthening: once the manual rows are read, the view of a key nobody
\* has written since the tick began is what the table still holds.
ManualViewHolds ==
  pc \in {"previous", "write"} =>
    \A k \in Keys \ touched :
      view.manual[k] = IF IsManual(rows[k]) THEN rows[k] ELSE NULL

\* A change of one row of ip_addresses by a user is noted in touched.
LEMMA EditsTouch ==
  ASSUME TypeOK, Poll \/ EditIp \/ EditMany \/ EditSubnet \/ EditConflict
  PROVE  /\ pc' = pc /\ view' = view
         /\ pc # "subnets" => /\ touched \subseteq touched'
                              /\ \A k \in Keys \ touched' : rows'[k] = rows[k]
<1>1. CASE Poll \/ EditConflict
  BY <1>1 DEF Poll, PollDhcp, PollDns, PollDevice, EditConflict,
     ResolveAllConflicts, ResolveConflicts, AckConflict, Edit
<1>2. CASE EditIp
  <2>1. PICK k \in Keys :
          /\ Edit({k})
          /\ \A j \in Keys \ {k} : rows'[j] = rows[j]
    BY <1>2 DEF EditIp, DeleteIpAddress, CreateManualIp, UpdateIpAddress, TypeOK
  <2> QED BY <2>1 DEF Edit
<1>3. CASE EditMany
  <2>1. PICK s \in SubnetIds, I \in SUBSET IPs, st \in OrNull(UserStatuses) :
          BulkUpdate(s, I, st)
    BY <1>3 DEF EditMany
  <2>2. Edit({s} \X I) /\ \A k \in Keys \ ({s} \X I) : rows'[k] = rows[k]
    BY <2>1 DEF BulkUpdate
  <2> QED BY <2>2 DEF Edit
<1>4. CASE EditSubnet
  <2>1. PICK s \in SubnetIds :
          \/ DeleteSubnet(s)
          \/ \E row \in SubnetInputs : CreateSubnet(s, row) \/ UpdateSubnet(s, row)
    BY <1>4 DEF EditSubnet
  <2>2. CASE DeleteSubnet(s)
    <3>1. /\ Edit({k \in Keys : k[1] = s})
          /\ \A k \in Keys : k[1] # s => rows'[k] = rows[k]
      BY <2>2 DEF DeleteSubnet
    <3> QED BY <3>1 DEF Edit
  <2>3. CASE ~DeleteSubnet(s)
    BY <2>1, <2>3 DEF CreateSubnet, UpdateSubnet, Edit
  <2> QED BY <2>2, <2>3
<1> QED
  BY <1>1, <1>2, <1>3, <1>4

LEMMA ManualViewInvariant == Spec => []ManualViewHolds
<1>1. Init => ManualViewHolds
  BY DEF Init, ManualViewHolds
<1>2. TypeOK /\ ManualViewHolds /\ [Next]_vars => ManualViewHolds'
  <2> SUFFICES ASSUME TypeOK, ManualViewHolds, [Next]_vars,
                      pc' \in {"previous", "write"}, NEW k \in Keys \ touched'
               PROVE  view'.manual[k] = IF IsManual(rows'[k]) THEN rows'[k] ELSE NULL
    BY DEF ManualViewHolds
  <2>1. CASE ReadManual
    BY <2>1 DEF ReadManual, Read, Tables, ghost, TypeOK, Views
  <2>2. CASE ReadPrevious
    <3>1. /\ pc = "previous" /\ touched' = touched /\ rows' = rows
          /\ view'.manual = view.manual
      BY <2>2 DEF ReadPrevious, Read, Tables, ghost, TypeOK, Views
    <3> QED BY <3>1 DEF ManualViewHolds
  <2>3. CASE ReadSubnets \/ ReadLeases \/ ReadDns \/ ReadArp \/ ReadRoutes
             \/ Write \/ Abort
    BY <2>3 DEF ReadSubnets, ReadLeases, ReadDns, ReadArp, ReadRoutes, Read,
       Write, Abort
  <2>4. CASE Poll \/ EditIp \/ EditMany \/ EditSubnet \/ EditConflict
    BY <2>4, EditsTouch DEF ManualViewHolds
  <2>5. CASE UNCHANGED vars
    BY <2>5 DEF vars, ghost, ManualViewHolds
  <2> QED
    BY <2>1, <2>2, <2>3, <2>4, <2>5 DEF Next, Tick
<1> QED
  BY <1>1, <1>2, TypeCorrect, PTL DEF Spec

\* A MAC or hostname a user typed survives every tick under way when the user
\* was not typing (the manual-first merge of _tick, lines 242 to 246).
THEOREM OwnKept == Spec => OwnValuesKept
<1> DEFINE Kept(k) == /\ rows[k].mac # NULL => rows'[k].mac = rows[k].mac
                      /\ rows[k].host # NULL => rows'[k].host = rows[k].host
<1>1. TypeOK /\ ManualViewHolds /\ [Next]_vars =>
        [Write => \A k \in Keys \ touched : IsManual(rows[k]) => Kept(k)]_vars
  <2> SUFFICES ASSUME TypeOK, ManualViewHolds, Write, NEW k \in Keys \ touched,
                      IsManual(rows[k])
               PROVE  Kept(k)
    OBVIOUS
  <2> PICK first \in Orders(view) : rows' = [j \in Keys |-> NewRow(j, first)]
    BY DEF Write
  <2>1. view.manual[k] = rows[k] /\ rows[k] # NULL
    BY DEF ManualViewHolds, Write, IsManual
  <2>2. rows'[k] = NewRow(k, first)
    OBVIOUS
  <2>3. CASE Seen(view, k)
    <3>1. rows'[k] = Merged(view, k, first[k[2]]) \/ rows'[k] = rows[k]
      BY <2>2, <2>3 DEF NewRow, UpsertRow
    <3>2. /\ Merged(view, k, first[k[2]]).mac
               = Either(rows[k].mac, Discovered(view, k[2], first[k[2]]).mac)
          /\ Merged(view, k, first[k[2]]).host
               = Either(rows[k].host, Discovered(view, k[2], first[k[2]]).host)
      BY <2>1 DEF Merged
    <3> QED BY <3>1, <3>2 DEF Either
  <2>4. CASE ~Seen(view, k)
    BY <2>2, <2>4 DEF NewRow, ReleaseRow, IsDiscovered, IsManual
  <2> QED BY <2>3, <2>4
<1> QED
  BY <1>1, TypeCorrect, ManualViewInvariant, PTL DEF Spec, OwnValuesKept

-----------------------------------------------------------------------------
(* Resolved records.                                                       *)

\* Only a finding about an address the tick saw concerns an address.
LEMMA AddressFindingsAreReported ==
  ASSUME NEW v, NEW first, NEW f \in Findings(v, first), f.ip # NULL
  PROVE  f.ip \in Reported(v)
<1>1. f \in AddressFindings(v, first)
  <2>1. ASSUME f \in MacFindings(v) \cup OverlapFindings(v) PROVE FALSE
    <3>1. PICK type, s, detail : f = Finding(type, NULL, s, detail)
      BY <2>1 DEF MacFindings, OverlapFindings
    <3> QED BY <3>1 DEF Finding
  <2>2. ASSUME f \in RouteFindings(v) PROVE FALSE
    <3>1. PICK type \in ConflictTypes, s \in SubnetIds : f = Finding(type, NULL, s, NULL)
      BY <2>2 DEF RouteFindings, Existing, ConflictTypes
    <3> QED BY <3>1 DEF Finding
  <2> QED BY <2>1, <2>2 DEF Findings
<1> QED
  BY <1>1 DEF AddressFindings, Finding, Seen

\* A record a user resolved is not reopened by a tick that read nothing about
\* its address (_upsert_conflict reopens only what was detected).
THEOREM ResolvedStands == Spec => ResolutionStands
<1>1. [Next]_vars =>
        [Write => \A r \in conflicts :
           ~r.open /\ r.ip # NULL /\ r.ip \notin Reported(view)
             => r \in conflicts']_vars
  <2> SUFFICES ASSUME Write, NEW r \in conflicts, r.ip # NULL,
                      r.ip \notin Reported(view)
               PROVE  r \in conflicts'
    OBVIOUS
  <2> PICK first \in Orders(view) :
        conflicts' = RecordFindings(conflicts, Findings(view, first))
    BY DEF Write
  <2>1. ASSUME NEW f \in Findings(view, first) PROVE ~Written(conflicts, r, f)
    BY <2>1, AddressFindingsAreReported DEF Written, Concerns
  <2> QED BY <2>1 DEF RecordFindings
<1> QED
  BY <1>1, PTL DEF Spec, ResolutionStands

-----------------------------------------------------------------------------
(* Which subnet an address is filed under.                                 *)

\* A table of subnets: what the engine reads and users edit.
SubnetTables == [SubnetIds -> OrNull(SubnetRow)]

LEMMA SubnetRowType ==
  ASSUME NEW S \in SubnetTables, NEW s \in Existing(S)
  PROVE  /\ s \in SubnetIds /\ s \in Int
         /\ S[s].block \in Blocks /\ S[s].block \subseteq IPs
         /\ IsFiniteSet(S[s].block) /\ Cardinality(S[s].block) \in Nat
<1>1. s \in SubnetIds /\ S[s] \in SubnetRow
  BY DEF Existing, SubnetTables, OrNull
<1>2. S[s].block \in Blocks /\ S[s].block \subseteq IPs
  BY <1>1, BlocksAssumption DEF SubnetRow
<1>3. IsFiniteSet(S[s].block)
  BY <1>2, FinitenessAssumption, FS_Subset
<1> QED
  BY <1>1, <1>2, <1>3, BlocksAssumption, FS_CardinalityType

\* Of two blocks with an address in common the smaller one lies in the other,
\* so the longer prefix is the more specific network.
LEMMA SmallerIsInside ==
  ASSUME NEW a \in Blocks, NEW b \in Blocks, a \cap b # {}, a # b
  PROVE  a \subseteq b <=> Cardinality(a) < Cardinality(b)
<1>1. IsFiniteSet(a) /\ IsFiniteSet(b)
  BY BlocksAssumption, FinitenessAssumption, FS_Subset
<1>2. Cardinality(a) \in Nat /\ Cardinality(b) \in Nat
  BY <1>1, FS_CardinalityType
<1>3. a \subseteq b => Cardinality(a) <= Cardinality(b) /\ Cardinality(a) # Cardinality(b)
  BY <1>1, FS_Subset
<1>4. b \subseteq a => Cardinality(b) <= Cardinality(a)
  BY <1>1, FS_Subset
<1>5. a \subseteq b \/ b \subseteq a
  BY BlocksAssumption
<1> QED
  BY <1>2, <1>3, <1>4, <1>5

\* The order in which _SubnetIndex.lookup prefers the subnets of an address.
Precedes(S, s, t) ==
  \/ S[s].block = S[t].block /\ s <= t
  \/ S[s].block # S[t].block /\ S[s].block \subseteq S[t].block

Holders(S, ip) == {s \in Existing(S) : ip \in S[s].block}

LEMMA HomeIsFirst ==
  ASSUME NEW S, NEW ip
  PROVE  Home(S, ip) = {s \in Holders(S, ip) : \A t \in Holders(S, ip) : Precedes(S, s, t)}
BY DEF Home, Holders, Precedes

LEMMA PrecedesIsTotal ==
  ASSUME NEW S \in SubnetTables, NEW ip \in IPs,
         NEW s \in Holders(S, ip), NEW t \in Holders(S, ip)
  PROVE  /\ Precedes(S, s, t) \/ Precedes(S, t, s)
         /\ Precedes(S, s, t) /\ Precedes(S, t, s) => s = t
         /\ \A u \in Holders(S, ip) :
              Precedes(S, u, s) /\ Precedes(S, s, t) => Precedes(S, u, t)
<1>1. \A u \in Holders(S, ip) : u \in Int /\ S[u].block \in Blocks /\ ip \in S[u].block
  BY SubnetRowType DEF Holders
<1>2. S[s].block \subseteq S[t].block \/ S[t].block \subseteq S[s].block
  BY <1>1, BlocksAssumption
<1>3. Precedes(S, s, t) \/ Precedes(S, t, s)
  BY <1>1, <1>2 DEF Precedes
<1>4. ASSUME Precedes(S, s, t), Precedes(S, t, s) PROVE s = t
  <2>1. S[s].block \subseteq S[t].block /\ S[t].block \subseteq S[s].block
    BY <1>4 DEF Precedes
  <2>2. S[s].block = S[t].block
    BY <2>1
  <2> QED BY <1>1, <1>4, <2>2 DEF Precedes
<1>5. ASSUME NEW u \in Holders(S, ip), Precedes(S, u, s), Precedes(S, s, t)
      PROVE  Precedes(S, u, t)
  <2>1. S[u].block \subseteq S[s].block /\ S[s].block \subseteq S[t].block
    BY <1>5 DEF Precedes
  <2>2. CASE S[u].block = S[t].block
    <3>1. S[u].block = S[s].block /\ S[s].block = S[t].block
      BY <2>1, <2>2
    <3> QED BY <1>1, <1>5, <3>1 DEF Precedes
  <2> QED BY <2>1, <2>2 DEF Precedes
<1> QED
  BY <1>3, <1>4, <1>5

\* An address has at most one home.
LEMMA HomeIsUnique ==
  ASSUME NEW S \in SubnetTables, NEW ip \in IPs,
         NEW s \in Home(S, ip), NEW t \in Home(S, ip)
  PROVE  s = t
BY HomeIsFirst, PrecedesIsTotal

\* It has one as soon as some subnet holds it: among the subnets that hold it,
\* take one with the fewest before it.
LEMMA HomeExists ==
  ASSUME NEW S \in SubnetTables, NEW ip \in IPs, Holders(S, ip) # {}
  PROVE  Home(S, ip) # {}
<1> DEFINE H == Holders(S, ip)
<1> DEFINE before(t) == {u \in H : Precedes(S, u, t)}
<1> DEFINE T == {before(t) : t \in H}
<1>1. H \subseteq SubnetIds /\ IsFiniteSet(H)
  BY FinitenessAssumption, FS_Subset DEF Holders, Existing
<1>2. \A t \in H : IsFiniteSet(before(t)) /\ before(t) \subseteq SubnetIds
  BY <1>1, FS_Subset
<1>3. T \subseteq FiniteSubsetsOf(SubnetIds) /\ T # {}
  BY <1>2 DEF FiniteSubsetsOf
<1>4. PICK x \in T : \A y \in T : ~(<<y, x>> \in StrictSubsetOrdering(SubnetIds))
  <2> HIDE DEF T
  <2> QED BY <1>3, FS_StrictSubsetOrderingWellFounded, WFMin
<1>5. PICK t \in H : x = before(t)
  OBVIOUS
<1>6. ASSUME NEW u \in H PROVE Precedes(S, t, u)
  <2> SUFFICES ASSUME ~Precedes(S, t, u) PROVE FALSE
    OBVIOUS
  <2>1. Precedes(S, u, t)
    BY PrecedesIsTotal
  <2>2. before(u) \subseteq before(t)
    BY <2>1, PrecedesIsTotal
  <2>3. t \in before(t) /\ t \notin before(u)
    BY PrecedesIsTotal
  <2>4. before(u) \in T /\ before(u) \subseteq SubnetIds /\ x \subseteq SubnetIds
    BY <1>1, <1>5
  <2>5. <<before(u), x>> \in StrictSubsetOrdering(SubnetIds)
    BY <2>2, <2>3, <2>4, <1>5 DEF StrictSubsetOrdering
  <2> QED BY <1>4, <2>4, <2>5
<1> QED
  BY <1>6, HomeIsFirst

-----------------------------------------------------------------------------
(* What an undisturbed tick has read.                                      *)

ActiveOf(table) == {l \in table : l.state \in {"active", "reserved"}}
ManualOf(table) == [k \in Keys |-> IF IsManual(table[k]) THEN table[k] ELSE NULL]
DiscoveredOf(table) ==
  [k \in Keys |-> IF IsDiscovered(table[k]) THEN table[k] ELSE NULL]

\* The strengthening: as long as nobody else wrote since the tick began, what
\* it has read so far is what the tables hold.
CalmViewHolds ==
  calm =>
    /\ pc # "subnets"
    /\ view.subnets = subnets
    /\ pc # "leases" => view.leases = ActiveOf(leases)
    /\ pc \notin {"leases", "dns"} => view.dns = dns
    /\ pc \notin {"leases", "dns", "arp"} => view.arp = arp
    /\ pc \in {"manual", "previous", "write"} => view.routes = routes
    /\ pc \in {"previous", "write"} => view.manual = ManualOf(rows)
    /\ pc = "write" => view.previous = DiscoveredOf(rows)

\* Whoever else writes ends the calm.
LEMMA EditsEndCalm ==
  ASSUME Poll \/ EditIp \/ EditMany \/ EditSubnet \/ EditConflict
  PROVE  calm' = FALSE /\ fresh' = FALSE /\ raced' = raced
<1>1. \E K : Edit(K)
  <2>1. CASE Poll
    BY <2>1 DEF Poll, PollDhcp, PollDns, PollDevice
  <2>2. CASE EditIp
    BY <2>2 DEF EditIp, DeleteIpAddress, CreateManualIp, UpdateIpAddress
  <2>3. CASE EditMany
    <3>1. PICK s \in SubnetIds, I \in SUBSET IPs, st \in OrNull(UserStatuses) :
            BulkUpdate(s, I, st)
      BY <2>3 DEF EditMany
    <3> QED BY <3>1 DEF BulkUpdate
  <2>4. CASE EditSubnet
    BY <2>4 DEF EditSubnet, DeleteSubnet, CreateSubnet, UpdateSubnet
  <2>5. CASE EditConflict
    BY <2>5 DEF EditConflict, ResolveAllConflicts, ResolveConflicts, AckConflict
  <2> QED BY <2>1, <2>2, <2>3, <2>4, <2>5
<1> QED
  BY <1>1 DEF Edit

LEMMA CalmViewInvariant == Spec => []CalmViewHolds
<1>1. Init => CalmViewHolds
  BY DEF Init, CalmViewHolds
<1>2. TypeOK /\ CalmViewHolds /\ [Next]_vars => CalmViewHolds'
  <2> SUFFICES ASSUME TypeOK, CalmViewHolds, [Next]_vars PROVE CalmViewHolds'
    OBVIOUS
  <2> USE DEF CalmViewHolds, Tables, raw, ghost
  <2>0. view \in Views
    BY DEF TypeOK
  <2>1. CASE ReadSubnets
    <3>1. view'.subnets = subnets
      BY <2>0, <2>1 DEF ReadSubnets, Views
    <3> QED BY <2>1, <3>1 DEF ReadSubnets
  <2>2. CASE ReadLeases
    <3>1. /\ view'.subnets = view.subnets
          /\ view'.leases = ActiveOf(leases)
      BY <2>0, <2>2 DEF ReadLeases, Read, Views, ActiveOf
    <3> QED BY <2>2, <3>1 DEF ReadLeases, Read
  <2>3. CASE ReadDns
    <3>1. /\ view'.subnets = view.subnets /\ view'.leases = view.leases
          /\ view'.dns = dns
      BY <2>0, <2>3 DEF ReadDns, Read, Views
    <3> QED BY <2>3, <3>1 DEF ReadDns, Read
  <2>4. CASE ReadArp
    <3>1. /\ view'.subnets = view.subnets /\ view'.leases = view.leases
          /\ view'.dns = view.dns /\ view'.arp = arp
      BY <2>0, <2>4 DEF ReadArp, Read, Views
    <3> QED BY <2>4, <3>1 DEF ReadArp, Read
  <2>5. CASE ReadRoutes
    <3>1. /\ view'.subnets = view.subnets /\ view'.leases = view.leases
          /\ view'.dns = view.dns /\ view'.arp = view.arp
          /\ view'.routes = routes
      BY <2>0, <2>5 DEF ReadRoutes, Read, Views
    <3> QED BY <2>5, <3>1 DEF ReadRoutes, Read
  <2>6. CASE ReadManual
    <3>1. /\ view'.subnets = view.subnets /\ view'.leases = view.leases
          /\ view'.dns = view.dns /\ view'.arp = view.arp
          /\ view'.routes = view.routes
          /\ view'.manual = ManualOf(rows)
      BY <2>0, <2>6 DEF ReadManual, Read, Views, ManualOf
    <3> QED BY <2>6, <3>1 DEF ReadManual, Read
  <2>7. CASE ReadPrevious
    <3>1. /\ view'.subnets = view.subnets /\ view'.leases = view.leases
          /\ view'.dns = view.dns /\ view'.arp = view.arp
          /\ view'.routes = view.routes /\ view'.manual = view.manual
          /\ view'.previous = DiscoveredOf(rows)
      BY <2>0, <2>7 DEF ReadPrevious, Read, Views, DiscoveredOf
    <3> QED BY <2>7, <3>1 DEF ReadPrevious, Read
  <2>8. CASE Write \/ Abort
    BY <2>8 DEF Write, Abort
  <2>9. CASE Poll \/ EditIp \/ EditMany \/ EditSubnet \/ EditConflict
    BY <2>9, EditsEndCalm
  <2>10. CASE UNCHANGED vars
    BY <2>10 DEF vars
  <2> QED
    BY <2>1, <2>2, <2>3, <2>4, <2>5, <2>6, <2>7, <2>8, <2>9, <2>10 DEF Next, Tick
<1> QED
  BY <1>1, <1>2, TypeCorrect, PTL DEF Spec

\* While fresh, only a tick's transaction changes a table.
LEMMA FreshStaysOrWrites ==
  ASSUME [Next]_vars, fresh'
  PROVE  \/ Write /\ calm
         \/ fresh /\ UNCHANGED Tables
<1> USE DEF Tables, raw, ghost
<1>1. CASE Write
  BY <1>1 DEF Write
<1>2. CASE ReadSubnets \/ Abort
  BY <1>2 DEF ReadSubnets, Abort
<1>3. CASE ReadLeases \/ ReadDns \/ ReadArp \/ ReadRoutes \/ ReadManual \/ ReadPrevious
  BY <1>3 DEF ReadLeases, ReadDns, ReadArp, ReadRoutes, ReadManual, ReadPrevious, Read
<1>4. CASE Poll \/ EditIp \/ EditMany \/ EditSubnet \/ EditConflict
  BY <1>4, EditsEndCalm
<1>5. CASE UNCHANGED vars
  BY <1>5 DEF vars
<1> QED
  BY <1>1, <1>2, <1>3, <1>4, <1>5 DEF Next, Tick

-----------------------------------------------------------------------------
(* The rows an undisturbed tick leaves behind.                             *)

\* The part of the view the rows are merged from is the tables' contents.
ViewOfNow ==
  /\ view.subnets = subnets /\ view.leases = ActiveOf(leases)
  /\ view.dns = dns /\ view.arp = arp
  /\ view.routes = routes /\ view.manual = ManualOf(rows)
  /\ view.previous = DiscoveredOf(rows)

LEMMA LiveIsRead ==
  ASSUME TypeOK, ViewOfNow, NEW ip
  PROVE  At(view.leases, ip) = Live(ip)
<1>1. \A l \in leases : l.state # "expired" <=> l.state \in {"active", "reserved"}
  BY DEF TypeOK, Lease
<1> QED
  BY <1>1 DEF ViewOfNow, ActiveOf, At, Live

\* The engine's lookup of an address and the reader's idea of the most
\* specific network agree.
LEMMA SeenIsNow ==
  ASSUME TypeOK, ViewOfNow, NEW k \in Keys
  PROVE  Seen(view, k) <=> SeenNow(k)
<1> DEFINE s == k[1]
<1> DEFINE ip == k[2]
<1>1. s \in SubnetIds /\ ip \in IPs /\ subnets \in SubnetTables
  BY DEF Keys, TypeOK, SubnetTables
<1>2. ip \in Reported(view) <=> Live(ip) # {} \/ At(dns, ip) # {} \/ At(arp, ip) # {}
  BY LiveIsRead DEF Reported, At, ViewOfNow
<1>3. s \in Holders(subnets, ip) <=> subnets[s] # NULL /\ ip \in subnets[s].block
  BY <1>1 DEF Holders, Existing
<1>4. ASSUME s \in Holders(subnets, ip), NEW t \in Holders(subnets, ip), t # s
      PROVE  Precedes(subnets, s, t) <=>
               \/ Cardinality(subnets[s].block) < Cardinality(subnets[t].block)
               \/ subnets[s].block = subnets[t].block /\ s < t
  <2>1. /\ s \in Existing(subnets) /\ t \in Existing(subnets)
        /\ ip \in subnets[s].block \cap subnets[t].block
    BY <1>4 DEF Holders
  <2>2. /\ s \in Int /\ t \in Int
        /\ subnets[s].block \in Blocks /\ subnets[t].block \in Blocks
        /\ Cardinality(subnets[s].block) \in Nat
    BY <1>1, <2>1, SubnetRowType
  <2>3. CASE subnets[s].block = subnets[t].block
    BY <1>4, <2>2, <2>3 DEF Precedes
  <2>4. CASE subnets[s].block # subnets[t].block
    <3>1. subnets[s].block \subseteq subnets[t].block <=>
            Cardinality(subnets[s].block) < Cardinality(subnets[t].block)
      BY <2>1, <2>2, <2>4, SmallerIsInside
    <3> QED BY <2>4, <3>1 DEF Precedes
  <2> QED BY <2>3, <2>4
<1>5. Precedes(subnets, s, s)
  <2>1. s \in Int
    BY <1>1, BlocksAssumption
  <2> HIDE DEF s
  <2> QED BY <2>1 DEF Precedes
<1>6. s \in Home(subnets, ip) <=>
        /\ subnets[s] # NULL /\ ip \in subnets[s].block
        /\ \A t \in Existing(subnets) \ {s} :
             ip \in subnets[t].block =>
               \/ Cardinality(subnets[s].block) < Cardinality(subnets[t].block)
               \/ subnets[s].block = subnets[t].block /\ s < t
  <2> HIDE DEF s, ip
  <2> QED BY <1>3, <1>4, <1>5, HomeIsFirst DEF Holders
<1> QED
  BY <1>2, <1>6 DEF Seen, SeenNow, ViewOfNow

\* The first rows a tick takes are rows of the collectors, active leases first.
LEMMA FirstRowsAreLive ==
  ASSUME TypeOK, ViewOfNow, NEW first \in Orders(view), NEW ip \in IPs
  PROVE  LET f == first[ip]
         IN  /\ f.lease = NULL => Live(ip) = {}
             /\ f.lease # NULL => f.lease \in Live(ip)
             /\ LiveActive(ip) # {} => f.lease \in LiveActive(ip)
             /\ f.mac # NULL => \E a \in At(arp, ip) : a.mac = f.mac
<1> DEFINE f == first[ip]
<1>1. f \in FirstRows(view, ip)
  BY DEF Orders
<1>2. f.lease \in Firsts(Leading(view, ip))
      /\ f.mac \in Firsts(Known({a.mac : a \in At(view.arp, ip)}))
  BY <1>1 DEF FirstRows
<1>3. Leading(view, ip) = IF LiveActive(ip) # {} THEN LiveActive(ip) ELSE Live(ip)
  <2>1. At(view.leases, ip) = Live(ip)
    BY LiveIsRead
  <2>2. {l \in At(view.leases, ip) : l.state = "active"} = LiveActive(ip)
    BY <2>1, Zenon DEF LiveActive
  <2> QED BY <2>1, <2>2, Zenon DEF Leading
<1>4. NULL \notin Live(ip)
  BY NullAssumption DEF Live, TypeOK
<1>5. LiveActive(ip) \subseteq Live(ip)
  BY DEF LiveActive
<1>6. f.mac # NULL => \E a \in At(arp, ip) : a.mac = f.mac
  BY <1>2 DEF Firsts, Known, ViewOfNow
<1> QED
  BY <1>2, <1>3, <1>4, <1>5, <1>6 DEF Firsts

\* What an undisturbed tick says of an address the collectors report.
LEMMA DiscoveredAgrees ==
  ASSUME TypeOK, ViewOfNow, NEW first \in Orders(view), NEW ip \in IPs
  PROVE  LET d == Discovered(view, ip, first[ip])
         IN  /\ d.status \in {"used", "reserved", "dhcp"}
             /\ d.mac # NULL => \E x \in Live(ip) \cup At(arp, ip) : x.mac = d.mac
             /\ (d.mac = NULL \/ \A l \in Live(ip) : l.mac # d.mac) =>
                  Live(ip) = {} \/ \E l \in Live(ip) : l.mac = NULL
             /\ (\E l \in LiveActive(ip) : l.mac # NULL) /\ d.mac # NULL =>
                  \/ \E l \in LiveActive(ip) : l.mac = d.mac
                  \/ \E l \in LiveActive(ip) : l.mac = NULL
             /\ d.status = "reserved" => LiveActive(ip) = {}
             /\ d.status = "used" => Live(ip) = {}
<1> DEFINE f == first[ip]
<1> DEFINE d == Discovered(view, ip, f)
<1>1. /\ f.lease = NULL => Live(ip) = {}
      /\ f.lease # NULL => f.lease \in Live(ip)
      /\ LiveActive(ip) # {} => f.lease \in LiveActive(ip)
      /\ f.mac # NULL => \E a \in At(arp, ip) : a.mac = f.mac
  BY FirstRowsAreLive
<1>2. d.mac = IF f.lease # NULL THEN Either(f.lease.mac, f.mac) ELSE f.mac
  BY DEF Discovered
<1>3. d.status = IF f.lease = NULL THEN "used"
                 ELSE IF \A l \in Live(ip) : l.state = "reserved"
                        THEN "reserved" ELSE "dhcp"
  BY LiveIsRead DEF Discovered
<1>4. \A l \in LiveActive(ip) : l \in Live(ip) /\ l.state = "active"
  BY DEF LiveActive
<1> HIDE DEF d, f
<1>5. d.status \in {"used", "reserved", "dhcp"}
  BY <1>3
<1>6. d.mac # NULL => \E x \in Live(ip) \cup At(arp, ip) : x.mac = d.mac
  BY <1>1, <1>2 DEF Either
<1>7. (d.mac = NULL \/ \A l \in Live(ip) : l.mac # d.mac) =>
        Live(ip) = {} \/ \E l \in Live(ip) : l.mac = NULL
  BY <1>1, <1>2 DEF Either
<1>8. (\E l \in LiveActive(ip) : l.mac # NULL) /\ d.mac # NULL =>
        \/ \E l \in LiveActive(ip) : l.mac = d.mac
        \/ \E l \in LiveActive(ip) : l.mac = NULL
  <2>1. LiveActive(ip) # {} => f.lease \in LiveActive(ip) /\ f.lease # NULL
    BY <1>1, <1>4
  <2> QED BY <2>1, <1>2 DEF Either
<1>9. d.status = "reserved" => LiveActive(ip) = {}
  BY <1>3, <1>4
<1>10. d.status = "used" => Live(ip) = {}
  BY <1>1, <1>3
<1> QED
  BY <1>5, <1>6, <1>7, <1>8, <1>9, <1>10 DEF d, f

LEMMA CalmWriteView ==
  ASSUME TypeOK, CalmViewHolds, calm, Write
  PROVE  ViewOfNow
BY DEF CalmViewHolds, Write, ViewOfNow

\* The row of an address the collectors report: a manual one, or theirs.
LEMMA SeenRowAgrees ==
  ASSUME TypeOK, ViewOfNow, NEW first \in Orders(view), NEW k \in Keys,
         Seen(view, k)
  PROVE  LET r == NewRow(k, first)
             d == Discovered(view, k[2], first[k[2]])
         IN  /\ r # NULL
             /\ IsDiscovered(r) => /\ r.mac = d.mac
                                   /\ \/ r.status = d.status
                                      \/ /\ r.status = "conflict"
                                         /\ DuplicateIp(view, k[2])
<1> DEFINE m == Merged(view, k, first[k[2]])
<1> DEFINE d == Discovered(view, k[2], first[k[2]])
<1> DEFINE r == NewRow(k, first)
<1>1. first[k[2]] \in FirstType
  BY OrdersType DEF TypeOK, Keys
<1>2. m \in IpRow /\ d \in IpRow /\ d.source # "manual"
  BY <1>1, MergedType, DiscoveredType DEF TypeOK, Keys
<1>3. r = UpsertRow(rows[k], m)
  BY DEF NewRow
<1>4. r # NULL /\ (IsDiscovered(r) => r = m /\ m.source # "manual")
  BY <1>2, <1>3, NullAssumption DEF UpsertRow, IsManual, IsDiscovered
<1>5. view.manual[k] # NULL => m.source = "manual"
  <2>1. SUFFICES ASSUME view.manual[k] # NULL PROVE m.source = "manual"
    OBVIOUS
  <2>2. \A st, mac, host : LET b == [status |-> st, source |-> "manual",
                                     mac |-> mac, host |-> host]
                           IN  b.source = "manual" /\ [b EXCEPT !.status = "conflict"].source
                                                          = "manual"
    OBVIOUS
  <2> QED BY <2>1, <2>2 DEF Merged
<1>6. view.manual[k] = NULL =>
        m = IF DuplicateIp(view, k[2]) THEN [d EXCEPT !.status = "conflict"] ELSE d
  BY DEF Merged, StaticMismatch
<1>7. /\ [d EXCEPT !.status = "conflict"].mac = d.mac
      /\ [d EXCEPT !.status = "conflict"].status = "conflict"
  BY <1>2 DEF IpRow
<1> HIDE DEF m, d, r
<1>8. IsDiscovered(r) => /\ r.mac = d.mac
                         /\ \/ r.status = d.status
                            \/ r.status = "conflict" /\ DuplicateIp(view, k[2])
  BY <1>4, <1>5, <1>6, <1>7
<1> QED
  BY <1>4, <1>8 DEF m, d, r

\* The row of any other address: a manual one, none, or one left blank.
LEMMA UnseenRowAgrees ==
  ASSUME TypeOK, ViewOfNow, NEW first, NEW k \in Keys, ~Seen(view, k),
         IsDiscovered(NewRow(k, first))
  PROVE  IsBlank(NewRow(k, first))
<1>1. NewRow(k, first) = IF Released(k) THEN ReleaseRow(rows[k]) ELSE rows[k]
  BY DEF NewRow
<1>2. IsDiscovered(rows[k])
  BY <1>1 DEF ReleaseRow
<1>3. rows[k] \in IpRow
  BY <1>2 DEF IsDiscovered, TypeOK, OrNull
<1>4. view.previous[k] = rows[k] /\ rows[k] # NULL
  BY <1>2 DEF ViewOfNow, DiscoveredOf, IsDiscovered
<1>5. Released(k) <=> ~IsBlank(rows[k])
  BY <1>4 DEF Released
<1>6. IsBlank(ReleaseRow(rows[k]))
  BY <1>2, <1>3 DEF IsBlank, ReleaseRow, IpRow
<1> QED
  BY <1>1, <1>5, <1>6

\* Agrees, of a row that is not there yet.
RowAgrees(k, r) ==
  LET ip == k[2]
  IN  /\ SeenNow(k) => r # NULL
      /\ IsDiscovered(r) /\ ~SeenNow(k) => IsBlank(r)
      /\ IsDiscovered(r) /\ SeenNow(k) =>
           /\ r.status # "free" /\ r.status # "static"
           /\ r.mac # NULL => \E x \in Live(ip) \cup At(arp, ip) : x.mac = r.mac
           /\ (r.mac = NULL \/ \A l \in Live(ip) : l.mac # r.mac) =>
                Live(ip) = {} \/ \E l \in Live(ip) : l.mac = NULL
           /\ (\E l \in LiveActive(ip) : l.mac # NULL) /\ r.mac # NULL =>
                \/ \E l \in LiveActive(ip) : l.mac = r.mac
                \/ \E l \in LiveActive(ip) : l.mac = NULL
           /\ r.status = "reserved" => LiveActive(ip) = {}
           /\ r.status = "used" => Live(ip) = {}
           /\ r.status = "conflict" =>
                \E l, m \in Live(ip) : l.mac # m.mac

LEMMA NewRowAgrees ==
  ASSUME TypeOK, ViewOfNow, NEW first \in Orders(view), NEW k \in Keys
  PROVE  RowAgrees(k, NewRow(k, first))
<1> DEFINE r == NewRow(k, first)
<1> DEFINE ip == k[2]
<1>1. Seen(view, k) <=> SeenNow(k)
  BY SeenIsNow
<1>2. CASE ~Seen(view, k)
  BY <1>1, <1>2, UnseenRowAgrees DEF RowAgrees
<1>3. CASE Seen(view, k)
  <2> DEFINE d == Discovered(view, ip, first[ip])
  <2>1. ip \in IPs
    BY DEF Keys
  <2>2. /\ d.status \in {"used", "reserved", "dhcp"}
        /\ d.mac # NULL => \E x \in Live(ip) \cup At(arp, ip) : x.mac = d.mac
        /\ (d.mac = NULL \/ \A l \in Live(ip) : l.mac # d.mac) =>
             Live(ip) = {} \/ \E l \in Live(ip) : l.mac = NULL
        /\ (\E l \in LiveActive(ip) : l.mac # NULL) /\ d.mac # NULL =>
             \/ \E l \in LiveActive(ip) : l.mac = d.mac
             \/ \E l \in LiveActive(ip) : l.mac = NULL
        /\ d.status = "reserved" => LiveActive(ip) = {}
        /\ d.status = "used" => Live(ip) = {}
    BY <2>1, DiscoveredAgrees
  <2>3. /\ r # NULL
        /\ IsDiscovered(r) => /\ r.mac = d.mac
                              /\ \/ r.status = d.status
                                 \/ r.status = "conflict" /\ DuplicateIp(view, ip)
    BY <1>3, SeenRowAgrees
  <2>4. DuplicateIp(view, ip) => \E l, m \in Live(ip) : l.mac # m.mac
    BY LiveIsRead DEF DuplicateIp
  <2> HIDE DEF d, r, ip
  <2>5. RowAgrees(k, r)
    <3>1. SUFFICES ASSUME IsDiscovered(r)
                   PROVE  /\ r.status # "free" /\ r.status # "static"
                          /\ r.status = "reserved" => LiveActive(ip) = {}
                          /\ r.status = "used" => Live(ip) = {}
                          /\ r.status = "conflict" =>
                               \E l, m \in Live(ip) : l.mac # m.mac
      BY <1>1, <1>3, <2>2, <2>3 DEF RowAgrees, ip
    <3> QED BY <3>1, <2>2, <2>3, <2>4
  <2> QED BY <2>5 DEF r
<1> QED
  BY <1>2, <1>3

\* Agrees reads nothing but the raw tables, the subnets and the rows.
LEMMA AgreesLater ==
  ASSUME UNCHANGED <<subnets, leases, dns, arp>>, NEW k \in Keys,
         RowAgrees(k, rows'[k])
  PROVE  Agrees(k)'
<1>1. \A ip : Live(ip)' = Live(ip) /\ LiveActive(ip)' = LiveActive(ip)
              /\ At(dns, ip)' = At(dns, ip) /\ At(arp, ip)' = At(arp, ip)
  BY DEF Live, LiveActive, At
<1>2. SeenNow(k)' <=> SeenNow(k)
  BY <1>1 DEF SeenNow
<1> QED
  BY <1>1, <1>2 DEF Agrees, RowAgrees

\* After a tick nobody disturbed, and until somebody writes, every row is what
\* the collectors report and the rows of vanished addresses are blank, for any
\* network and whatever races came before (_tick: the merge, lines 197 to 293,
\* and the release of lines 302 to 315).
THEOREM ViewCurrent == Spec => []ViewIsCurrent
<1>1. Init => ViewIsCurrent
  BY DEF Init, ViewIsCurrent
<1>2. TypeOK /\ CalmViewHolds /\ ViewIsCurrent /\ [Next]_vars => ViewIsCurrent'
  <2> SUFFICES ASSUME TypeOK, CalmViewHolds, ViewIsCurrent, [Next]_vars, fresh',
                      NEW k \in Keys
               PROVE  Agrees(k)'
    BY DEF ViewIsCurrent
  <2>1. CASE Write /\ calm
    <3>1. PICK first \in Orders(view) : rows' = [j \in Keys |-> NewRow(j, first)]
      BY <2>1 DEF Write
    <3>2. RowAgrees(k, rows'[k])
      BY <2>1, <3>1, CalmWriteView, NewRowAgrees
    <3> QED BY <2>1, <3>2, AgreesLater DEF Write, raw
  <2>2. CASE fresh /\ UNCHANGED Tables
    <3>1. Agrees(k)
      BY <2>2 DEF ViewIsCurrent
    <3>2. UNCHANGED <<subnets, leases, dns, arp, rows>>
      BY <2>2 DEF Tables, raw
    <3>3. RowAgrees(k, rows'[k])
      BY <3>1, <3>2 DEF Agrees, RowAgrees
    <3> QED BY <3>2, <3>3, AgreesLater
  <2> QED BY <2>1, <2>2, FreshStaysOrWrites
<1> QED
  BY <1>1, <1>2, TypeCorrect, CalmViewInvariant, PTL DEF Spec

-----------------------------------------------------------------------------
(* One home for every address.                                             *)

\* An address is reported now in at most one subnet.
LEMMA SeenNowOnce ==
  ASSUME TypeOK, NEW k \in Keys, NEW m \in Keys, SeenNow(k), SeenNow(m),
         k[2] = m[2]
  PROVE  k = m
<1> DEFINE s == k[1]
<1> DEFINE t == m[1]
<1>1. s \in Existing(subnets) /\ t \in Existing(subnets)
  BY DEF SeenNow, Existing, Keys
<1>2. subnets \in SubnetTables
  BY DEF TypeOK, SubnetTables
<1>3. /\ s \in Int /\ t \in Int
      /\ Cardinality(subnets[s].block) \in Nat /\ Cardinality(subnets[t].block) \in Nat
  BY <1>1, <1>2, SubnetRowType
<1>4. s # t =>
        /\ \/ Cardinality(subnets[s].block) < Cardinality(subnets[t].block)
           \/ subnets[s].block = subnets[t].block /\ s < t
        /\ \/ Cardinality(subnets[t].block) < Cardinality(subnets[s].block)
           \/ subnets[t].block = subnets[s].block /\ t < s
  BY <1>1 DEF SeenNow
<1>5. s = t
  <2> HIDE DEF s, t
  <2> QED BY <1>3, <1>4
<1> QED
  BY <1>5 DEF Keys

\* After a tick nobody disturbed no address is in use under two subnets, however
\* subnets were carved out of each other before (_SubnetIndex.lookup, and the
\* release, which judges the pair of subnet and address).
THEOREM OneHomeHolds == Spec => []OneHome
<1>1. TypeOK /\ ViewIsCurrent => OneHome
  <2> SUFFICES ASSUME TypeOK, ViewIsCurrent, fresh, NEW k \in Keys, NEW m \in Keys,
                      IsDiscovered(rows[k]), rows[k].status # "free",
                      IsDiscovered(rows[m]), rows[m].status # "free",
                      k[2] = m[2]
               PROVE  k = m
    BY DEF OneHome
  <2>1. SeenNow(k) /\ SeenNow(m)
    BY DEF ViewIsCurrent, Agrees, IsBlank
  <2> QED BY <2>1, SeenNowOnce
<1> QED
  BY <1>1, TypeCorrect, ViewCurrent, PTL

-----------------------------------------------------------------------------
(* What the history tells.                                                 *)

\* The strengthening: of a key nobody has written since the tick began, the
\* previous state the tick read is still in the table.
PreviousViewHolds ==
  pc = "write" =>
    \A k \in Keys \ touched :
      view.previous[k] = IF IsDiscovered(rows[k]) THEN rows[k] ELSE NULL

LEMMA PreviousViewInvariant == Spec => []PreviousViewHolds
<1>1. Init => PreviousViewHolds
  BY DEF Init, PreviousViewHolds
<1>2. TypeOK /\ PreviousViewHolds /\ [Next]_vars => PreviousViewHolds'
  <2> SUFFICES ASSUME TypeOK, PreviousViewHolds, [Next]_vars, pc' = "write",
                      NEW k \in Keys \ touched'
               PROVE  view'.previous[k]
                        = IF IsDiscovered(rows'[k]) THEN rows'[k] ELSE NULL
    BY DEF PreviousViewHolds
  <2>1. CASE ReadPrevious
    BY <2>1 DEF ReadPrevious, Read, Tables, ghost, TypeOK, Views
  <2>2. CASE ReadSubnets \/ ReadLeases \/ ReadDns \/ ReadArp \/ ReadRoutes
             \/ ReadManual \/ Write \/ Abort
    BY <2>2 DEF ReadSubnets, ReadLeases, ReadDns, ReadArp, ReadRoutes,
       ReadManual, Read, Write, Abort
  <2>3. CASE Poll \/ EditIp \/ EditMany \/ EditSubnet \/ EditConflict
    BY <2>3, EditsTouch DEF PreviousViewHolds
  <2>4. CASE UNCHANGED vars
    BY <2>4 DEF vars, ghost, PreviousViewHolds
  <2> QED
    BY <2>1, <2>2, <2>3, <2>4 DEF Next, Tick
<1> QED
  BY <1>1, <1>2, TypeCorrect, PTL DEF Spec

\* HistoryExplainsRow, of one row and one last event.
Explained(r, e) ==
  IsDiscovered(r) => IF e = NULL \/ e.event = "released"
                       THEN r.mac = NULL /\ r.host = NULL
                       ELSE r.mac = e.mac /\ r.host = e.host

\* The tick logs exactly what it changes on a key nobody else writes.
LEMMA WriteIsExplained ==
  ASSUME TypeOK, ManualViewHolds, PreviousViewHolds, pc = "write",
         NEW first \in Orders(view), NEW k \in Keys \ touched,
         Explained(rows[k], hist[k])
  PROVE  Explained(NewRow(k, first), NewEvent(k, first))
<1> DEFINE m == Merged(view, k, first[k[2]])
<1> DEFINE r == NewRow(k, first)
<1> DEFINE e == NewEvent(k, first)
<1>1. view.manual[k] = IF IsManual(rows[k]) THEN rows[k] ELSE NULL
  BY DEF ManualViewHolds
<1>2. view.previous[k] = IF IsDiscovered(rows[k]) THEN rows[k] ELSE NULL
  BY DEF PreviousViewHolds
<1>3. rows[k] # NULL => rows[k] \in IpRow
  BY DEF TypeOK, OrNull
<1>4. m \in IpRow
  BY OrdersType, MergedType DEF TypeOK, Keys
<1>5. CASE Seen(view, k) /\ IsManual(rows[k])
  <2>1. ~IsDiscovered(r)
    <3>1. view.manual[k] # NULL
      BY <1>1, <1>5 DEF IsManual
    <3>2. m.source = "manual"
      BY <3>1, <1>4 DEF Merged
    <3> QED BY <1>5, <3>2 DEF NewRow, UpsertRow, IsDiscovered
  <2> QED BY <2>1 DEF Explained
<1>6. CASE Seen(view, k) /\ ~IsManual(rows[k])
  <2>1. r = m
    BY <1>6 DEF NewRow, UpsertRow
  <2>2. e = IF rows[k] = NULL THEN Event("first_seen", m.mac, m.host)
            ELSE IF rows[k].mac # m.mac \/ rows[k].host # m.host
                   THEN Event("changed", m.mac, m.host) ELSE hist[k]
    BY <1>1, <1>2, <1>6 DEF NewEvent, IsManual, IsDiscovered
  <2>3. \A t \in {"first_seen", "changed"} :
          Event(t, m.mac, m.host) # NULL => Explained(m, Event(t, m.mac, m.host))
    BY DEF Explained, Event
  <2>4. \A t \in {"first_seen", "changed"} : Event(t, m.mac, m.host) # NULL
    BY <1>4, EventAssumption DEF Event, Events, IpRow
  <2>5. CASE rows[k] # NULL /\ rows[k].mac = m.mac /\ rows[k].host = m.host
    BY <1>6, <2>1, <2>2, <2>5 DEF Explained, IsDiscovered, IsManual
  <2> QED BY <2>1, <2>2, <2>3, <2>4, <2>5
<1>7. CASE ~Seen(view, k) /\ Released(k)
  <2>1. IsDiscovered(rows[k])
    BY <1>2, <1>7 DEF Released
  <2>2. r.mac = NULL /\ r.host = NULL
    BY <1>3, <1>7, <2>1 DEF NewRow, ReleaseRow, IsDiscovered, IpRow
  <2>3. e.event = "released"
    BY <1>7 DEF NewEvent, Event
  <2> QED BY <2>2, <2>3 DEF Explained
<1>8. CASE ~Seen(view, k) /\ ~Released(k)
  BY <1>8 DEF NewRow, NewEvent
<1> QED
  BY <1>5, <1>6, <1>7, <1>8

\* Users leave manual rows or none behind them, or do not touch the row.
LEMMA EditsKeepDiscovered ==
  ASSUME TypeOK, Poll \/ EditIp \/ EditMany \/ EditSubnet \/ EditConflict,
         NEW k \in Keys, IsDiscovered(rows'[k])
  PROVE  rows'[k] = rows[k] /\ hist'[k] = hist[k]
<1>1. CASE Poll \/ EditConflict
  BY <1>1 DEF Poll, PollDhcp, PollDns, PollDevice, EditConflict,
     ResolveAllConflicts, ResolveConflicts, AckConflict
<1>2. CASE EditIp
  <2>1. PICK j \in Keys :
          \/ DeleteIpAddress(j)
          \/ \E st, mac, host : CreateManualIp(j, st, mac, host)
                                  \/ UpdateIpAddress(j, st, mac, host)
    BY <1>2 DEF EditIp
  <2>2. CASE DeleteIpAddress(j)
    BY <2>2 DEF DeleteIpAddress, TypeOK, IsDiscovered
  <2>3. ASSUME NEW st, NEW mac, NEW host,
               CreateManualIp(j, st, mac, host) \/ UpdateIpAddress(j, st, mac, host)
        PROVE  rows'[k] = rows[k] /\ hist'[k] = hist[k]
    <3>1. k # j
      BY <2>3 DEF CreateManualIp, UpdateIpAddress, TypeOK, IsDiscovered
    <3> QED BY <2>3, <3>1 DEF CreateManualIp, UpdateIpAddress, TypeOK
  <2> QED BY <2>1, <2>2, <2>3
<1>3. CASE EditMany
  <2>1. PICK s \in SubnetIds, I \in SUBSET IPs, st \in OrNull(UserStatuses) :
          BulkUpdate(s, I, st)
    BY <1>3 DEF EditMany
  <2>2. rows[k] # NULL => rows[k] \in IpRow
    BY DEF TypeOK, OrNull
  <2>3. k \notin {s} \X I
    BY <2>1, <2>2 DEF BulkUpdate, IsDiscovered, IpRow
  <2> QED BY <2>1, <2>3 DEF BulkUpdate
<1>4. CASE EditSubnet
  <2>1. PICK s \in SubnetIds :
          \/ DeleteSubnet(s)
          \/ \E row \in SubnetInputs : CreateSubnet(s, row) \/ UpdateSubnet(s, row)
    BY <1>4 DEF EditSubnet
  <2>2. CASE DeleteSubnet(s)
    BY <2>2 DEF DeleteSubnet, IsDiscovered
  <2>3. CASE ~DeleteSubnet(s)
    BY <2>1, <2>3 DEF CreateSubnet, UpdateSubnet
  <2> QED BY <2>2, <2>3
<1> QED
  BY <1>1, <1>2, <1>3, <1>4

\* The last history event of a discovered row tells its MAC and hostname,
\* whatever was edited, released or re-discovered before, unless a tick wrote
\* the row while a user did (_tick, lines 275 to 315, and the handlers that
\* write ip_address_history).
THEOREM HistoryExplains == Spec => []HistoryExplainsRow
<1>1. Init => HistoryExplainsRow
  BY DEF Init, NoRows, HistoryExplainsRow, IsDiscovered
<1>2. TypeOK /\ ManualViewHolds /\ PreviousViewHolds /\ HistoryExplainsRow
        /\ [Next]_vars => HistoryExplainsRow'
  <2> SUFFICES ASSUME TypeOK, ManualViewHolds, PreviousViewHolds,
                      HistoryExplainsRow, [Next]_vars, NEW k \in Keys \ raced'
               PROVE  Explained(rows'[k], hist'[k])
    BY DEF HistoryExplainsRow, Explained
  <2>1. k \notin raced => Explained(rows[k], hist[k])
    BY DEF HistoryExplainsRow, Explained
  <2>2. CASE Write
    <3>1. PICK first \in Orders(view) :
            /\ rows' = [j \in Keys |-> NewRow(j, first)]
            /\ hist' = [j \in Keys |-> NewEvent(j, first)]
      BY <2>2 DEF Write
    <3>2. k \notin raced /\ k \notin touched /\ pc = "write"
      BY <2>2 DEF Write
    <3>3. Explained(NewRow(k, first), NewEvent(k, first))
      BY <2>1, <3>2, WriteIsExplained
    <3> QED BY <3>1, <3>3
  <2>3. CASE ReadSubnets \/ ReadLeases \/ ReadDns \/ ReadArp \/ ReadRoutes
             \/ ReadManual \/ ReadPrevious \/ Abort \/ UNCHANGED vars
    <3>1. UNCHANGED <<rows, hist, raced>>
      BY <2>3 DEF ReadSubnets, ReadLeases, ReadDns, ReadArp, ReadRoutes,
         ReadManual, ReadPrevious, Read, Abort, Tables, ghost, vars
    <3> QED BY <2>1, <3>1
  <2>4. CASE Poll \/ EditIp \/ EditMany \/ EditSubnet \/ EditConflict
    <3>1. raced' = raced
      BY <2>4, EditsEndCalm
    <3>2. IsDiscovered(rows'[k]) => rows'[k] = rows[k] /\ hist'[k] = hist[k]
      BY <2>4, EditsKeepDiscovered
    <3> QED BY <2>1, <3>1, <3>2 DEF Explained
  <2> QED
    BY <2>2, <2>3, <2>4 DEF Next, Tick
<1> QED
  BY <1>1, <1>2, TypeCorrect, ManualViewInvariant, PreviousViewInvariant, PTL
     DEF Spec

-----------------------------------------------------------------------------
(* Conflicts that are still there.                                         *)

\* Every finding leaves an open record of exactly what was found.
LEMMA RecordFindingsOpens ==
  ASSUME NEW table, NEW found, NEW f \in found
  PROVE  \E q \in RecordFindings(table, found) :
            /\ q.type = f.type /\ q.ip = f.ip /\ q.subnet = f.subnet
            /\ q.detail = f.detail /\ q.open
<1> DEFINE q == NewConflict(f, CopyFor(table, f), Acked(table, f))
<1>1. q \in RecordFindings(table, found)
  BY DEF RecordFindings
<1>2. /\ q.type = f.type /\ q.ip = f.ip /\ q.subnet = f.subnet
      /\ q.detail = f.detail /\ q.open
  BY DEF NewConflict
<1> QED
  BY <1>1, <1>2

\* Two devices that lease one address now have an open record after every tick
\* nobody disturbed, even if a user resolved it before the tick
\* (_upsert_conflict sets resolved_at back to NULL).
THEOREM StillTrueOpen == Spec => []StillTrueIsOpen
<1> DEFINE Both(k) == /\ SeenNow(k)
                      /\ \E l, m \in Live(k[2]) :
                           l.mac # NULL /\ m.mac # NULL /\ l.mac # m.mac
<1> DEFINE Open(k, table) == \E r \in table : /\ r.type = "duplicate_ip" /\ r.open
                                              /\ r.ip = k[2] /\ r.subnet = k[1]
<1>1. StillTrueIsOpen <=> (fresh => \A k \in Keys : Both(k) => Open(k, conflicts))
  BY DEF StillTrueIsOpen
<1>2. Init => StillTrueIsOpen
  BY DEF Init, StillTrueIsOpen
<1>3. TypeOK /\ CalmViewHolds /\ StillTrueIsOpen /\ [Next]_vars => StillTrueIsOpen'
  <2> SUFFICES ASSUME TypeOK, CalmViewHolds, StillTrueIsOpen, [Next]_vars, fresh',
                      NEW k \in Keys, Both(k)'
               PROVE  Open(k, conflicts')
    BY DEF StillTrueIsOpen
  <2>1. UNCHANGED <<subnets, leases, dns, arp>>
    BY FreshStaysOrWrites DEF Write, Tables, raw
  <2>2. Live(k[2])' = Live(k[2]) /\ (SeenNow(k)' <=> SeenNow(k))
    BY <2>1 DEF SeenNow, Live, At
  <2>3. Both(k)
    BY <2>2
  <2>4. CASE Write /\ calm
    <3>1. PICK first \in Orders(view) :
            conflicts' = RecordFindings(conflicts, Findings(view, first))
      BY <2>4 DEF Write
    <3>2. ViewOfNow
      BY <2>4, CalmWriteView
    <3>3. Seen(view, k) /\ DuplicateIp(view, k[2])
      BY <2>3, <3>2, SeenIsNow, LiveIsRead DEF DuplicateIp
    <3> DEFINE f == Finding("duplicate_ip", k[2], k[1], NULL)
    <3>4. f \in Findings(view, first)
      BY <3>3 DEF Findings, AddressFindings
    <3>5. f.type = "duplicate_ip" /\ f.ip = k[2] /\ f.subnet = k[1]
      BY DEF Finding
    <3> HIDE DEF f
    <3> QED BY <3>1, <3>4, <3>5, RecordFindingsOpens
  <2>5. CASE fresh /\ UNCHANGED Tables
    BY <1>1, <2>3, <2>5 DEF Tables
  <2> QED BY <2>4, <2>5, FreshStaysOrWrites
<1> QED
  BY <1>2, <1>3, TypeCorrect, CalmViewInvariant, PTL DEF Spec

\* What a record must say to explain an overlap or a route.
IsFlagged(table, type, s, detail) ==
  \E r \in table : /\ r.type = type /\ r.open
                   /\ r.subnet = s /\ r.detail = detail

LEMMA FindingIsFlagged ==
  ASSUME NEW table, NEW found, NEW type, NEW s, NEW detail,
         Finding(type, NULL, s, detail) \in found
  PROVE  IsFlagged(RecordFindings(table, found), type, s, detail)
<1> DEFINE f == Finding(type, NULL, s, detail)
<1>1. f.type = type /\ f.subnet = s /\ f.detail = detail
  BY DEF Finding
<1> HIDE DEF f
<1>2. f \in found
  BY DEF f
<1> QED
  BY <1>1, <1>2, RecordFindingsOpens DEF IsFlagged

\* NetworkIsFlagged of one subnet.
SubnetIsFlagged(table, s) ==
  LET Hop == {r.hop : r \in {q \in routes : q.dest = subnets[s].block}}
  IN  /\ \A t \in Existing(subnets) :
           s < t /\ subnets[s].block \cap subnets[t].block # {} =>
             IsFlagged(table, "subnet_overlap", s, t)
      /\ routes # {} /\ (\A r \in routes : r.dest # subnets[s].block) =>
           IsFlagged(table, "subnet_unrouted", s, NULL)
      /\ subnets[s].gateway # NULL /\ Hop \notin SUBSET {NULL}
           /\ subnets[s].gateway \notin Hop =>
           IsFlagged(table, "route_gateway_mismatch", s, NULL)

LEMMA CalmWriteFlags ==
  ASSUME ViewOfNow, NEW first, NEW s \in Existing(subnets)
  PROVE  SubnetIsFlagged(RecordFindings(conflicts, Findings(view, first)), s)
<1> DEFINE found == Findings(view, first)
<1> DEFINE Hop == {r.hop : r \in {q \in routes : q.dest = subnets[s].block}}
<1> USE DEF ViewOfNow
<1>1. ASSUME NEW t \in Existing(subnets), s < t,
             subnets[s].block \cap subnets[t].block # {}
      PROVE  Finding("subnet_overlap", NULL, s, t) \in found
  <2> DEFINE pairs == {q \in Existing(view.subnets) \X Existing(view.subnets) :
                         /\ q[1] < q[2]
                         /\ view.subnets[q[1]].block \cap view.subnets[q[2]].block # {}}
  <2>1. <<s, t>> \in pairs
    BY <1>1
  <2>2. OverlapFindings(view)
          = {Finding("subnet_overlap", NULL, p[1], p[2]) : p \in pairs}
    BY DEF OverlapFindings
  <2> HIDE DEF pairs
  <2>3. Finding("subnet_overlap", NULL, s, t) \in OverlapFindings(view)
    BY <2>1, <2>2
  <2> QED BY <2>3 DEF Findings
<1>2. ASSUME routes # {}, \A r \in routes : r.dest # subnets[s].block
      PROVE  Finding("subnet_unrouted", NULL, s, NULL) \in found
  <2>1. Finding("subnet_unrouted", NULL, s, NULL) \in RouteFindings(view)
    BY <1>2 DEF RouteFindings
  <2> QED BY <2>1 DEF Findings
<1>3. ASSUME subnets[s].gateway # NULL, Hop \notin SUBSET {NULL},
             subnets[s].gateway \notin Hop
      PROVE  Finding("route_gateway_mismatch", NULL, s, NULL) \in found
  <2>1. Known(Hop) # {} /\ subnets[s].gateway \notin Known(Hop)
    BY <1>3 DEF Known
  <2>2. {q \in routes : q.dest = subnets[s].block} # {}
    BY <1>3
  <2>3. Finding("route_gateway_mismatch", NULL, s, NULL) \in RouteFindings(view)
    BY <1>3, <2>1, <2>2 DEF RouteFindings
  <2> QED BY <2>3 DEF Findings
<1> QED
  BY <1>1, <1>2, <1>3, FindingIsFlagged DEF SubnetIsFlagged

\* Every overlap, missing route and wrong gateway that is there has an open
\* record after a tick nobody disturbed (_tick, lines 333 to 376), whatever
\* routes vanished or subnets were edited before.
THEOREM NetworkFlagged == Spec => []NetworkIsFlagged
<1>1. NetworkIsFlagged <=>
        (fresh => \A s \in Existing(subnets) : SubnetIsFlagged(conflicts, s))
  BY DEF NetworkIsFlagged, SubnetIsFlagged, IsFlagged
<1>2. Init => NetworkIsFlagged
  BY DEF Init, NetworkIsFlagged
<1>3. CalmViewHolds /\ TypeOK /\ NetworkIsFlagged /\ [Next]_vars => NetworkIsFlagged'
  <2> SUFFICES ASSUME TypeOK, CalmViewHolds, NetworkIsFlagged, [Next]_vars, fresh',
                      NEW s \in Existing(subnets)'
               PROVE  SubnetIsFlagged(conflicts, s)'
    BY DEF NetworkIsFlagged, SubnetIsFlagged, IsFlagged
  <2>1. UNCHANGED <<subnets, routes>>
    BY FreshStaysOrWrites DEF Write, Tables, raw
  <2>2. s \in Existing(subnets)
    BY <2>1 DEF Existing
  <2>3. SubnetIsFlagged(conflicts', s)
    <3>1. CASE Write /\ calm
      <4>1. PICK first \in Orders(view) :
              conflicts' = RecordFindings(conflicts, Findings(view, first))
        BY <3>1 DEF Write
      <4> QED BY <2>2, <3>1, <4>1, CalmWriteView, CalmWriteFlags
    <3>2. CASE fresh /\ UNCHANGED Tables
      BY <1>1, <2>2, <3>2 DEF Tables
    <3> QED BY <3>1, <3>2, FreshStaysOrWrites
  <2> QED BY <2>1, <2>3 DEF SubnetIsFlagged, Existing
<1> QED
  BY <1>2, <1>3, TypeCorrect, CalmViewInvariant, PTL DEF Spec

-----------------------------------------------------------------------------
(* Utilization.                                                            *)

ReportedIn(s) ==
  {ip \in subnets[s].block : Live(ip) # {} \/ At(dns, ip) # {} \/ At(arp, ip) # {}}

HasNoTwin(s) == \A t \in Existing(subnets) \ {s} : subnets[t].block # subnets[s].block

\* Every reported address of a subnet has its home in the subnet or in one
\* carved out of it.
LEMMA HomeIsCovered ==
  ASSUME TypeOK, NEW s \in Existing(subnets), HasNoTwin(s),
         NEW ip \in subnets[s].block
  PROVE  \E h \in Covered(subnets, s) : h \in SubnetIds /\ h \in Home(subnets, ip)
<1>1. subnets \in SubnetTables
  BY DEF TypeOK, SubnetTables
<1>2. ip \in IPs /\ s \in Holders(subnets, ip)
  BY <1>1, SubnetRowType DEF Holders
<1>3. PICK h : h \in Home(subnets, ip)
  BY <1>1, <1>2, HomeExists
<1>4. h \in Existing(subnets) /\ Precedes(subnets, h, s)
  BY <1>2, <1>3, HomeIsFirst DEF Holders
<1>5. h \in Covered(subnets, s)
  BY <1>4 DEF Precedes, HasNoTwin, Covered
<1> QED
  BY <1>3, <1>4, <1>5 DEF Existing

\* Rows that agree with the collectors are counted once for every reported
\* address: the addresses and the counted rows are in bijection.
LEMMA CountIsReported ==
  ASSUME TypeOK, ViewOfNow, NEW s \in Existing(subnets), HasNoTwin(s),
         NEW table, \A k \in Keys : RowAgrees(k, table[k]) /\ ~IsManual(table[k])
  PROVE  UsedCount(s, table) = Cardinality(ReportedIn(s))
<1> DEFINE K == {k \in Keys : /\ k[1] \in Covered(view.subnets, s)
                              /\ table[k] # NULL /\ table[k].status # "free"}
<1> DEFINE R == ReportedIn(s)
<1> DEFINE f == [k \in K |-> k[2]]
<1>1. ASSUME NEW k \in Keys
      PROVE  table[k] # NULL /\ table[k].status # "free" <=> SeenNow(k)
  BY DEF RowAgrees, IsManual, IsDiscovered, IsBlank
<1>2. K = {k \in Keys : k[1] \in Covered(subnets, s) /\ SeenNow(k)}
  BY <1>1 DEF ViewOfNow
<1>3. IsFiniteSet(K)
  <2>1. IsFiniteSet(Keys)
    BY FinitenessAssumption, FS_Product DEF Keys
  <2> QED BY <2>1, FS_Subset
<1>4. f \in [K -> R]
  <2> SUFFICES ASSUME NEW k \in K PROVE k[2] \in R
    OBVIOUS
  <2>1. k[1] \in Covered(subnets, s) /\ SeenNow(k)
    BY <1>2
  <2>2. subnets[k[1]].block \subseteq subnets[s].block
    BY <2>1 DEF Covered
  <2> QED BY <2>1, <2>2 DEF SeenNow, ReportedIn
<1>5. \A k, m \in K : f[k] = f[m] => k = m
  BY <1>2, SeenNowOnce
<1>6. ASSUME NEW ip \in R PROVE \E k \in K : f[k] = ip
  <2>1. ip \in subnets[s].block /\ ip \in IPs
    <3>1. subnets \in SubnetTables
      BY DEF TypeOK, SubnetTables
    <3> QED BY <3>1, SubnetRowType DEF ReportedIn
  <2>2. PICK h \in Covered(subnets, s) : h \in SubnetIds /\ h \in Home(subnets, ip)
    BY <2>1, HomeIsCovered
  <2> DEFINE k == <<h, ip>>
  <2>3. k \in Keys
    BY <2>1, <2>2 DEF Keys
  <2>4. ip \in Reported(view)
    BY LiveIsRead DEF Reported, ReportedIn, At, ViewOfNow
  <2>5. Seen(view, k)
    BY <2>2, <2>4 DEF Seen, ViewOfNow
  <2>6. k \in K
    BY <1>2, <2>2, <2>3, <2>5, SeenIsNow
  <2> QED BY <2>6
<1> HIDE DEF K, R, f
<1>7. f \in Bijection(K, R)
  BY <1>4, <1>5, <1>6 DEF Bijection, Injection, Surjection, IsInjective
<1>8. Cardinality(R) = Cardinality(K)
  BY <1>3, <1>7, FS_Bijection DEF ExistsBijection
<1> QED
  BY <1>8 DEF UsedCount, K, R

\* The utilization a tick nobody disturbed records for a subnet is the number
\* of its reported addresses, each counted once however the subnet is carved
\* up (_tick, lines 382 to 397).
THEOREM RollupsCount == Spec => []RollupCounts
<1> DEFINE NoManual == \A k \in Keys : ~IsManual(rows[k])
<1>1. RollupCounts <=>
        (fresh /\ NoManual => \A s \in Existing(subnets) :
           HasNoTwin(s) => used[s] = Cardinality(ReportedIn(s)))
  BY DEF RollupCounts, HasNoTwin, ReportedIn
<1>2. Init => RollupCounts
  BY DEF Init, RollupCounts
<1>3. CalmViewHolds /\ TypeOK /\ RollupCounts /\ [Next]_vars => RollupCounts'
  <2> SUFFICES ASSUME TypeOK, CalmViewHolds, RollupCounts, [Next]_vars, fresh',
                      NoManual', NEW s \in Existing(subnets)', HasNoTwin(s)'
               PROVE  used'[s] = Cardinality(ReportedIn(s)')
    BY DEF RollupCounts, HasNoTwin, ReportedIn
  <2>1. UNCHANGED <<subnets, leases, dns, arp>>
    BY FreshStaysOrWrites DEF Write, Tables, raw
  <2>2. s \in Existing(subnets) /\ HasNoTwin(s)
    BY <2>1 DEF Existing, HasNoTwin
  <2>3. ReportedIn(s)' = ReportedIn(s)
    BY <2>1 DEF ReportedIn, Live, At
  <2>4. CASE Write /\ calm
    <3>1. PICK first \in Orders(view) : rows' = [j \in Keys |-> NewRow(j, first)]
      BY <2>4 DEF Write
    <3>2. ViewOfNow
      BY <2>4, CalmWriteView
    <3>3. \A k \in Keys : RowAgrees(k, rows'[k]) /\ ~IsManual(rows'[k])
      BY <3>1, <3>2, NewRowAgrees
    <3>4. UsedCount(s, rows') = Cardinality(ReportedIn(s))
      BY <2>2, <3>2, <3>3, CountIsReported
    <3>5. s \in SubnetIds /\ view.subnets[s] # NULL
      BY <2>2, <3>2 DEF Existing, ViewOfNow
    <3> QED BY <2>3, <2>4, <3>4, <3>5 DEF Write
  <2>5. CASE fresh /\ UNCHANGED Tables
    <3>1. NoManual
      BY <2>5 DEF Tables
    <3> QED BY <1>1, <2>2, <2>3, <2>5, <3>1 DEF Tables
  <2> QED BY <2>4, <2>5, FreshStaysOrWrites
<1> QED
  BY <1>2, <1>3, TypeCorrect, CalmViewInvariant, PTL DEF Spec
=============================================================================
