------------------------------ MODULE Capacity ------------------------------
(***************************************************************************)
(* The capacity planner: how many addresses a request needs, where they    *)
(* fit (app/api/capacity.py), and the reservation of a range found.  The   *)
(* subnet tree (app/api/subnets.py) and the address grid                   *)
(* (app/api/ip_addresses.py) read the same tables and are compared with it.*)
(*                                                                         *)
(* A search reads the subnets and then, subnet by subnet, the addresses in *)
(* use; a reservation reads both again before it writes.  Between the      *)
(* reads and the write, users edit, the reconciliation ticks and other     *)
(* requests reserve.  A tick is one step here: Reconcile.tla has its own   *)
(* interleavings.                                                          *)
(***************************************************************************)
EXTENDS Integers, FiniteSets, FiniteSetsExt

CONSTANTS
  NULL,
  Width,           \* bits of an address: 32 for IPv4
  SubnetIds, Requests,
  PerSubnet,       \* MAX_CANDIDATES_PER_SUBNET
  Total,           \* MAX_TOTAL_CANDIDATES
  MaxScan,         \* MAX_ALIGNED_SCAN_BLOCKS
  MaxFallback,     \* MAX_FALLBACK_SCAN_ADDRESSES
  MaxReservation,  \* MAX_RESERVATION_SIZE
  InitNetworks,    \* the networks configured at first, by subnet id
  NetworkInputs,   \* the networks users may add or change to
  HostInputs,      \* [hosts, buffer]: what users ask for
  RangeInputs,     \* [subnet, from, to]: ranges asked for without a search
  Sighted,         \* the addresses users and collectors touch one by one
  MaxEdits         \* bound: users' searches, reservations and edits

\* 2^b.
Size[b \in Nat] == IF b = 0 THEN 1 ELSE 2 * Size[b - 1]

Addresses == 0..(Size[Width] - 1)
Keys == SubnetIds \X Addresses

\* A network of Size[bits] addresses from a multiple of that number.
Networks == {n \in [first : Addresses, bits : 0..Width] : n.first % Size[n.bits] = 0}
AddressesOf(n) == n.first..(n.first + Size[n.bits] - 1)

Row == [status : {"free", "used", "static", "reserved"},
        source : {"manual", "discovered"}, owner : Requests \cup {NULL}]
Span == [subnet : SubnetIds, from : Addresses, to : Addresses]

\* The code's own numbers satisfy the third line: a network small enough for the
\* fallback has had all of its blocks, of four addresses or more, scanned.
ASSUME CapacityAssumption ==
  /\ {Width, PerSubnet, Total, MaxReservation} \subseteq Nat \ {0}
  /\ {MaxScan, MaxFallback, MaxEdits} \subseteq Nat
  /\ MaxFallback <= 4 * MaxScan
  /\ InitNetworks \in [SubnetIds -> Networks \cup {NULL}]
  /\ NetworkInputs \subseteq Networks /\ RangeInputs \subseteq Span
  /\ Sighted \subseteq Addresses
  /\ \A h \in HostInputs : h.hosts \in Nat \ {0} /\ h.buffer \in Nat
  /\ NULL \notin Networks \cup Row \cup Span \cup Requests

VARIABLES
  subnets,   \* id -> its network; NULL if there is no such subnet
  retired,   \* ids of deleted subnets, never given again
  rows,      \* <<subnet, address>> -> its row of ip_addresses, or NULL
  requests,  \* what each client of the planner is doing
  edits,     \* number of requests and edits so far
  (* For stating properties only: *)
  late       \* per request: keys claimed since it read the used addresses

vars == <<subnets, retired, rows, requests, edits, late>>

\* hosts() leaves out the network and broadcast addresses; /31 and /32 have none.
Hosts(n) ==
  IF n.bits > 1 THEN (n.first + 1)..(n.first + Size[n.bits] - 2) ELSE AddressesOf(n)

KeysOf(r) == {r.subnet} \X (r.from..r.to)

Steps == {"idle", "search", "asked", "fits", "write"}
Request ==
  [step : Steps,
   view : [SubnetIds -> Networks \cup {NULL}] \cup {NULL},  \* subnets as searched
   need : Nat, most : Nat,      \* hosts required; candidates wanted per subnet
   todo : SUBSET SubnetIds,     \* subnets still to search
   found : Nat,                 \* number of candidates so far
   want : Span \cup {NULL}]     \* the candidate the user picks, being reserved

Idle == [step |-> "idle", view |-> NULL, need |-> 0, most |-> 0, todo |-> {},
         found |-> 0, want |-> NULL]
Wanting(step, range) == [Idle EXCEPT !.step = step, !.want = range]

TypeOK ==
  /\ subnets \in [SubnetIds -> Networks \cup {NULL}]
  /\ retired \subseteq SubnetIds
  /\ rows \in [Keys -> Row \cup {NULL}]
  /\ requests \in [Requests -> Request]
  /\ edits \in 0..MaxEdits
  /\ late \in [Requests -> SUBSET Keys]

Init ==
  /\ subnets = InitNetworks
  /\ retired = {}
  /\ rows = [k \in Keys |-> NULL]
  /\ requests = [q \in Requests |-> Idle]
  /\ edits = 0
  /\ late = [q \in Requests |-> {}]

-----------------------------------------------------------------------------
(* The algorithms.                                                         *)

\* ceil(hosts * (1 + buffer%)).
Required(h) == -((-(h.hosts * (100 + h.buffer))) \div 100)

\* The block sizes large enough; the least is chosen, none at all is a 400.
LargeEnough(need) == {b \in 2..Width : Size[b] - 2 >= need}

Existing(nets) == {s \in SubnetIds : nets[s] # NULL}

\* Networks carved out of n: n strictly contains them.
Carved(nets, s) ==
  {nets[t] : t \in {u \in Existing(nets) :
      u # s /\ nets[u].bits < nets[s].bits
            /\ AddressesOf(nets[u]) \subseteq AddressesOf(nets[s])}}

IsClaimed(row) == row # NULL /\ row.status # "free"

\* The addresses with a row in s that is not free.
Used(table, s) == {a \in Addresses : IsClaimed(table[<<s, a>>])}

\* No host of block k in s is used, and nothing is carved out of it.
IsClean(nets, s, used, k) ==
  /\ Hosts(k) \cap used = {}
  /\ \A d \in Carved(nets, s) : AddressesOf(k) \cap AddressesOf(d) = {}

\* The aligned blocks of Size[b] addresses of s.
BlocksOf(nets, s, b) ==
  {k \in Networks : k.bits = b /\ k.first \in AddressesOf(nets[s])}

\* The clean ones among the MaxScan first, and of those the first `most'.
AlignedBlocks(nets, s, used, b, most) ==
  LET clean == {k \in BlocksOf(nets, s, b) :
                  /\ (k.first - nets[s].first) \div Size[b] < MaxScan
                  /\ IsClean(nets, s, used, k)}
  IN  {k \in clean : Cardinality({j \in clean : j.first < k.first}) < most}

Unclaimed(nets, s, used) ==
  Hosts(nets[s]) \ (used \cup UNION {AddressesOf(d) : d \in Carved(nets, s)})

\* Starts of the runs of `length' free addresses in a row.
RunStarts(free, length) == {a \in free : a..(a + length - 1) \subseteq free}

\* The first `need' addresses of the first of the longest free runs.
LongestRun(free, need) ==
  LET lengths == {l \in 1..Cardinality(free) : RunStarts(free, l) # {}}
  IN  IF lengths = {} \/ Max(lengths) < need THEN {}
      ELSE {Min(RunStarts(free, Max(lengths)))}

\* Faulty: the run is sought past the subnets carved out.
FindCandidatesOverCarved(nets, s, used, need, most) ==
  LET b == Min(LargeEnough(need))
  IN  IF b > nets[s].bits THEN {}
      ELSE {[subnet |-> s, from |-> a, to |-> a + need - 1, aligned |-> FALSE] :
              a \in LongestRun(Hosts(nets[s]) \ used, need)}

\* What one subnet offers: clean aligned blocks of the smallest size that
\* fits, else one run of free addresses.
FindCandidates(nets, s, used, need, most) ==
  LET b == Min(LargeEnough(need))
      aligned == AlignedBlocks(nets, s, used, b, most)
      run == LongestRun(Unclaimed(nets, s, used), need)
  IN  IF b > nets[s].bits THEN {}
      ELSE IF aligned # {} \/ Size[nets[s].bits] > MaxFallback
        THEN {[subnet |-> s, from |-> Min(Hosts(k)), to |-> Max(Hosts(k)),
               aligned |-> TRUE] : k \in aligned}
        ELSE {[subnet |-> s, from |-> a, to |-> a + need - 1,
               aligned |-> FALSE] : a \in run}

\* What the reservation refuses with 400 or 409 for the subnets it read.
IsWithin(nets, r) ==
  /\ nets[r.subnet] # NULL
  /\ {r.from, r.to} \subseteq AddressesOf(nets[r.subnet])
  /\ r.from <= r.to /\ r.to - r.from + 1 <= MaxReservation
  /\ \A d \in Carved(nets, r.subnet) : (r.from..r.to) \cap AddressesOf(d) = {}

\* The grid of a subnet: every usable address, free or not.
Grid(nets, table, s) ==
  [a \in Hosts(nets[s]) |->
     IF table[<<s, a>>] = NULL THEN "free" ELSE table[<<s, a>>].status]

\* The tightest subnet containing s: the first of them in the list's order
\* when two texts name one network.
Parents(nets, s) ==
  LET around == {t \in Existing(nets) : /\ t # s /\ nets[s].bits < nets[t].bits
                   /\ AddressesOf(nets[s]) \subseteq AddressesOf(nets[t])}
  IN  {t \in around : \A u \in around : nets[t].bits <= nets[u].bits}

-----------------------------------------------------------------------------
(* Requests.                                                               *)

At(q, step) == requests[q].step = step
Goto(q, r) == requests' = [requests EXCEPT ![q] = r]
Counted == edits < MaxEdits /\ edits' = edits + 1

\* Who has read the used addresses and not yet written learns nothing more.
Watched ==
  late' = [q \in Requests |->
    IF At(q, "write") /\ requests'[q].step = "write"
      THEN late[q] \cup {k \in Keys : IsClaimed(rows'[k]) /\ rows'[k] # rows[k]}
      ELSE {}]

\* GET /capacity/search of one subnet (404 if it is missing) or of all.
SearchSubnets(q, h, S, most) ==
  /\ At(q, "idle") /\ LargeEnough(Required(h)) # {}
  /\ S # {} /\ S \subseteq Existing(subnets)
  /\ Goto(q, [Idle EXCEPT !.step = "search", !.view = subnets, !.todo = S,
                          !.need = Required(h), !.most = most])
  /\ Counted /\ UNCHANGED <<subnets, retired, rows>>

SpanOf(c) == [subnet |-> c.subnet, from |-> c.from, to |-> c.to]

\* The used addresses of the next subnet, in any order, are read and searched;
\* Total candidates fill the answer.  Of all those found the user picks one, or none.
SearchUsed(q, s) ==
  LET r == requests[q]
      found == FindCandidates(r.view, s, Used(rows, s), r.need, r.most)
      total == r.found + Cardinality(found)
  IN  /\ At(q, "search") /\ s \in r.todo
      /\ \E w \in {r.want} \cup {SpanOf(c) : c \in found} :
           Goto(q, IF r.todo # {s} /\ total < Total
                     THEN [r EXCEPT !.found = total, !.todo = @ \ {s}, !.want = w]
                     ELSE IF w # NULL THEN Wanting("asked", w) ELSE Idle)
      /\ UNCHANGED <<subnets, retired, rows, edits>>

\* POST /capacity/reserve of any range; what an older search found is one.
Ask(q, range) ==
  /\ At(q, "idle")
  /\ Goto(q, Wanting("asked", range))
  /\ Counted /\ UNCHANGED <<subnets, retired, rows>>

\* The subnets are read and the range is judged.
ReserveSubnets(q) ==
  /\ At(q, "asked")
  /\ Goto(q, IF IsWithin(subnets, requests[q].want)
               THEN [requests[q] EXCEPT !.step = "fits"]
               ELSE Idle)
  /\ UNCHANGED <<subnets, retired, rows, edits>>

\* The addresses in use are read and the range is compared with them.
ReserveUsed(q) ==
  LET w == requests[q].want
  IN  /\ At(q, "fits")
      /\ Goto(q, IF (w.from..w.to) \cap Used(rows, w.subnet) = {}
                   THEN [requests[q] EXCEPT !.step = "write"]
                   ELSE Idle)
      /\ UNCHANGED <<subnets, retired, rows, edits>>

ReservedRow(q) == [status |-> "reserved", source |-> "manual", owner |-> q]

\* Faulty: a row that is there keeps its source.
ReserveWriteSourceKept(q) ==
  LET w == requests[q].want
      K == KeysOf(w)
  IN  /\ At(q, "write") /\ subnets[w.subnet] # NULL
      /\ rows' = [k \in Keys |-> IF k \notin K THEN rows[k]
                                 ELSE IF rows[k] = NULL THEN ReservedRow(q)
                                 ELSE [ReservedRow(q) EXCEPT !.source = rows[k].source]]
      /\ Goto(q, Idle)
      /\ UNCHANGED <<subnets, retired, edits>>

\* One transaction upserts the whole range, over whatever is there by now.
ReserveWrite(q) ==
  LET w == requests[q].want
      K == KeysOf(w)
  IN  /\ At(q, "write") /\ subnets[w.subnet] # NULL
      /\ rows' = [k \in Keys |-> IF k \in K THEN ReservedRow(q) ELSE rows[k]]
      /\ Goto(q, Idle)
      /\ UNCHANGED <<subnets, retired, edits>>

\* The subnet was deleted meanwhile: the foreign key refuses the first row.
ReserveFails(q) ==
  /\ At(q, "write") /\ subnets[requests[q].want.subnet] = NULL
  /\ Goto(q, Idle)
  /\ UNCHANGED <<subnets, retired, rows, edits>>

-----------------------------------------------------------------------------
(* The rest of the program.                                                *)

Edit == Counted /\ UNCHANGED requests

\* POST and PATCH /subnets: rows stay where they are filed.
SetSubnet(s, n) ==
  /\ Edit /\ s \notin retired
  /\ subnets' = [subnets EXCEPT ![s] = n]
  /\ UNCHANGED <<retired, rows>>

\* DELETE /subnets/{id}: its rows go with it.
DeleteSubnet(s) ==
  /\ Edit /\ subnets[s] # NULL
  /\ subnets' = [subnets EXCEPT ![s] = NULL]
  /\ retired' = retired \cup {s}
  /\ rows' = [k \in Keys |-> IF k[1] = s THEN NULL ELSE rows[k]]

\* POST and PATCH /ip-addresses and the grid's bulk update, of one address.
EditIp(k, status) ==
  /\ Edit /\ subnets[k[1]] # NULL
  /\ rows' = [rows EXCEPT ![k] =
                [status |-> status, source |-> "manual", owner |-> NULL]]
  /\ UNCHANGED <<subnets, retired>>

\* DELETE /ip-addresses/{id}.
DeleteIp(k) ==
  /\ Edit /\ rows[k] # NULL
  /\ rows' = [rows EXCEPT ![k] = NULL]
  /\ UNCHANGED <<subnets, retired>>

\* A tick writes an address some collector reported, in its tightest subnet:
\* a manual row stays manual and becomes 'static'.
Discover(s, a) ==
  /\ subnets[s] # NULL /\ a \in AddressesOf(subnets[s])
  /\ \A t \in Existing(subnets) :
       a \in AddressesOf(subnets[t]) => subnets[s].bits <= subnets[t].bits
  /\ rows' = [rows EXCEPT ![<<s, a>>] =
       IF @ # NULL /\ @.source = "manual" THEN [@ EXCEPT !.status = "static"]
       ELSE [status |-> "used", source |-> "discovered", owner |-> NULL]]
  /\ UNCHANGED <<subnets, retired, requests, edits>>

\* A tick frees a discovered row no collector reports any more.
Release(k) ==
  /\ rows[k] # NULL /\ rows[k].source = "discovered"
  /\ rows' = [rows EXCEPT ![k].status = "free"]
  /\ UNCHANGED <<subnets, retired, requests, edits>>

Search == \E q \in Requests :
  \/ \E h \in HostInputs :
       \/ SearchSubnets(q, h, Existing(subnets), 1)
       \/ \E s \in SubnetIds : SearchSubnets(q, h, {s}, PerSubnet)
  \/ \E s \in SubnetIds : SearchUsed(q, s)

Reserve == \E q \in Requests :
  \/ \E r \in RangeInputs : Ask(q, r)
  \/ ReserveSubnets(q) \/ ReserveUsed(q) \/ ReserveWrite(q) \/ ReserveFails(q)

Users ==
  \/ \E s \in SubnetIds : DeleteSubnet(s) \/ \E n \in NetworkInputs : SetSubnet(s, n)
  \/ \E k \in SubnetIds \X Sighted :
       DeleteIp(k) \/ \E st \in {"free", "static"} : EditIp(k, st)

\* A tick may find nothing to write.
Tick ==
  \/ \E s \in SubnetIds, a \in Sighted : Discover(s, a) \/ Release(<<s, a>>)
  \/ UNCHANGED <<subnets, retired, rows, requests, edits>>

Next == (Search \/ Reserve \/ Users \/ Tick) /\ Watched

Spec == Init /\ [][Next]_vars

-----------------------------------------------------------------------------
(* Properties.                                                             *)

Asked == {n \in {Required(h) : h \in HostInputs} : LargeEnough(n) # {}}
Found(s, need) == FindCandidates(subnets, s, Used(rows, s), need, PerSubnet)

\* What a search finds is room enough, every address of it is free in the grid
\* of that subnet and in no subnet carved out of it, and no two candidates
\* overlap; a run is offered only when no aligned block of the subnet, scanned or
\* not, is clean.
FoundIsFree ==
  \A s \in Existing(subnets), need \in Asked : \A c \in Found(s, need) :
    /\ c.to - c.from + 1 >= need
    /\ \A a \in c.from..c.to :
         /\ a \in Hosts(subnets[s]) /\ Grid(subnets, rows, s)[a] = "free"
         /\ \A t \in Existing(subnets) : a \in AddressesOf(subnets[t]) =>
              AddressesOf(subnets[s]) \subseteq AddressesOf(subnets[t])
    /\ \A d \in Found(s, need) : c = d \/ KeysOf(c) \cap KeysOf(d) = {}
    /\ LET b == Min(LargeEnough(need))
       IN  IF c.aligned THEN c.to - c.from + 1 = Size[b] - 2
           ELSE \A k \in BlocksOf(subnets, s, b) :
                  ~IsClean(subnets, s, Used(rows, s), k)

\* A search that finds nothing in a subnet missed nothing there: no run of free
\* addresses is long enough.  (Not so for /31 and /32 networks, smaller than
\* the smallest block, and networks too large for the fallback.)
NothingMissed ==
  \A s \in Existing(subnets), need \in Asked :
    (Found(s, need) = {} /\ subnets[s].bits > 1 /\ Size[subnets[s].bits] <= MaxFallback)
      => RunStarts(Unclaimed(subnets, s, Used(rows, s)), need) = {}

\* What a search finds, the reservation accepts as long as nothing changes,
\* unless it is larger than one reservation may be.
FoundIsAccepted ==
  \A s \in Existing(subnets), need \in Asked : \A c \in Found(s, need) :
    c.to - c.from < MaxReservation =>
      /\ IsWithin(subnets, SpanOf(c))
      /\ (c.from..c.to) \cap Used(rows, s) = {}

\* The tree of the subnets page and the planner agree on what is carved out of
\* a subnet, as long as no two texts name one network: a subnet has one parent at
\* most, and is carved out of that parent and of what the parent is carved out of,
\* and of nothing else.
TreeIsContainment ==
  (\A s, t \in Existing(subnets) : s # t => subnets[s] # subnets[t]) =>
    \A s \in Existing(subnets) :
      /\ Cardinality(Parents(subnets, s)) <= 1
      /\ \A t \in Existing(subnets) :
           subnets[s] \in Carved(subnets, t) <=>
             \E p \in Parents(subnets, s) :
               p = t \/ subnets[p] \in Carved(subnets, t)

\* A reservation about to be written takes an address in use only if that was
\* claimed after the request looked.
OnlyRacesOverbook ==
  \A q \in Requests : At(q, "write") =>
    \A k \in KeysOf(requests[q].want) : IsClaimed(rows[k]) => k \in late[q]

Inv == TypeOK /\ FoundIsFree /\ NothingMissed /\ FoundIsAccepted
         /\ TreeIsContainment /\ OnlyRacesOverbook

\* Only a user's edit ends a reservation: whatever the collectors report or
\* stop reporting, and whoever else reserves, its addresses stay claimed.
IsHeld(row) == IsClaimed(row) /\ row.owner # NULL
ReservationsStand ==
  [][\A k \in Keys : IsHeld(rows[k]) /\ ~IsHeld(rows'[k]) => edits' # edits]_vars

\* What the planner's words suggest and the code does not do: an address two
\* requests were told is theirs, because both looked before either wrote.
NoOverbooking ==
  [][\A k \in Keys : IsHeld(rows[k]) /\ IsHeld(rows'[k])
                       => rows'[k].owner = rows[k].owner]_vars
=============================================================================
