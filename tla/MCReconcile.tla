---------------------------- MODULE MCReconcile -----------------------------
(***************************************************************************)
(* Small instances of Reconcile.  One network "wide" of two addresses and  *)
(* "narrow", the first of them alone; two DHCP servers, a DNS server and a *)
(* device collector.  Each .cfg picks its inputs among the sets below.     *)
(***************************************************************************)
EXTENDS Reconcile

CONSTANTS a1, a2, m1, m2, h1, h2, s1, s2, d1, v1

MCBlocks == {{a1}, {a1, a2}}
MCBlocks1 == {{a1}}

LeaseOf(c, ip, mac, host, state) ==
  [coll |-> c, ip |-> ip, mac |-> mac, host |-> host, state |-> state]

Sub(block, gateway) == [block |-> block, gateway |-> gateway]

MCCategory == [c \in Collectors |-> IF c = d1 THEN "dns"
                                    ELSE IF c = v1 THEN "device" ELSE "dhcp"]

\* One server's lease of a1, in three forms.
OneLease == {LeaseOf(s1, a1, m1, h1, "active"),
             LeaseOf(s1, a1, m2, NULL, "active"),
             LeaseOf(s1, a1, NULL, h1, "reserved")}

Names1 == {[coll |-> d1, ip |-> a1, name |-> h2]}
Sighting1 == {[coll |-> v1, ip |-> a1, mac |-> m2]}
\* One device that moves between two addresses, and a rival for the first.
Trio == {LeaseOf(s1, a1, m1, NULL, "active"),
         LeaseOf(s1, a2, m1, NULL, "active"),
         LeaseOf(s2, a1, m2, NULL, "reserved")}
Route1 == {[coll |-> v1, dest |-> {a1, a2}, hop |-> a1]}
None == {}

NarrowOnly == {Sub({a1}, NULL)}
Both == {Sub({a1}, NULL), Sub({a1, a2}, NULL)}

\* Subnet 1 configured at the start; all others (if any) still to create.
StartNarrow == [s \in SubnetIds |-> IF s = 1 THEN Sub({a1}, NULL) ELSE NULL]
StartGate == [s \in SubnetIds |-> IF s = 1 THEN Sub({a1, a2}, a2) ELSE NULL]

MCUserMacs == {NULL, m1}
MCUserNames == {NULL, h2}
NoName == {NULL}
=============================================================================
