--------------------------- MODULE Capacity_proofs ---------------------------
(***************************************************************************)
(* Proofs about Capacity, for any number of bits, networks, subnets,       *)
(* requests, sightings and bounds.  A run that is found holds nothing      *)
(* claimed and no part of another run, no better run was there to be       *)
(* offered, the tree of networks is containment, and what was reserved     *)
(* stays reserved until a user gives it up.                                *)
(*                                                                         *)
(* Networks have power-of-two sizes and start at multiples of them.  The   *)
(* powers are the recursive function Size, shown to exist and to double by *)
(* a least counterexample; two networks then nest or lie apart.            *)
(***************************************************************************)
EXTENDS Capacity, FiniteSetTheorems, WellFoundedInduction, TLAPS

-----------------------------------------------------------------------------
(* Least and greatest elements.                                            *)

LEMMA LeastExists ==
  ASSUME NEW S, S \subseteq Nat, S # {}
  PROVE  \E m \in S : \A n \in S : m <= n
  <1> DEFINE R == {s \in Nat \X Nat : s[1] < s[2]}
  <1>1. IsWellFoundedOn(R, Nat)
    BY NatLessThanWellFounded DEF OpToRel
  <1>2. \E m \in S : \A n \in S : <<n, m>> \notin R
    BY <1>1, WFMin
  <1>3. \A m, n \in S : <<n, m>> \notin R => m <= n
    OBVIOUS
  <1> HIDE DEF R
  <1> QED BY <1>2, <1>3

LEMMA MinIs ==
  ASSUME NEW S, S \subseteq Nat, S # {}
  PROVE  Min(S) \in S /\ \A n \in S : Min(S) <= n
  BY LeastExists DEF Min

\* In a set of numbers below a bound the greatest is there.
LEMMA MaxIs ==
  ASSUME NEW S, S \subseteq Nat, S # {}, NEW top \in Nat, \A n \in S : n <= top
  PROVE  Max(S) \in S /\ \A n \in S : n <= Max(S)
  <1> DEFINE above == {u \in Nat : \A n \in S : n <= u}
  <1>1. PICK m \in above : \A u \in above : m <= u
    <2>1. above \subseteq Nat /\ top \in above
      OBVIOUS
    <2> HIDE DEF above
    <2> QED BY <2>1, LeastExists
  <1>2. m \in S
    <2> SUFFICES ASSUME m \notin S PROVE FALSE
      OBVIOUS
    <2>1. PICK n \in S : TRUE
      OBVIOUS
    <2>2. n <= m /\ n # m /\ m \in Nat /\ n \in Nat
      BY <2>1
    <2>3. m - 1 \in above
      BY <2>2
    <2> QED BY <1>1, <2>2, <2>3
  <1>3. \E x \in S : \A y \in S : x >= y
    BY <1>2
  <1> QED BY <1>3 DEF Max

-----------------------------------------------------------------------------
(* Powers of two.                                                          *)

\* The recursion of Size defines a function: its beginnings exist and agree.
LEMMA SizeIs == Size = [b \in Nat |-> IF b = 0 THEN 1 ELSE 2 * Size[b - 1]]
  <1> DEFINE Begins(n) == {g \in [0..n -> Nat] :
                             \A b \in 0..n : g[b] = IF b = 0 THEN 1 ELSE 2 * g[b - 1]}
  <1>1. \A n \in Nat : Begins(n) # {}
    <2> DEFINE bad == {n \in Nat : Begins(n) = {}}
    <2> SUFFICES ASSUME bad # {} PROVE FALSE
      OBVIOUS
    <2>1. PICK n \in bad : \A k \in bad : n <= k
      <3> HIDE DEF bad
      <3>1. bad \subseteq Nat
        BY DEF bad
      <3> QED BY <3>1, LeastExists
    <2>2. CASE n = 0
      <3>1. [b \in 0..0 |-> 1] \in Begins(0)
        OBVIOUS
      <3> QED BY <2>1, <2>2, <3>1
    <2>3. CASE n # 0
      <3>1. n \in Nat /\ n - 1 \in Nat /\ n - 1 \notin bad
        <4>1. n \in Nat
          BY <2>1
        <4> HIDE DEF bad
        <4> QED BY <4>1, <2>1, <2>3
      <3>2. PICK g : g \in Begins(n - 1)
        BY <3>1
      <3> DEFINE h == [b \in 0..n |-> IF b = n THEN 2 * g[n - 1] ELSE g[b]]
      <3>3. /\ g \in [0..(n - 1) -> Nat]
            /\ \A b \in 0..(n - 1) : g[b] = IF b = 0 THEN 1 ELSE 2 * g[b - 1]
        BY <3>2
      <3>4. h \in [0..n -> Nat]
        BY <3>1, <3>3
      <3>5. ASSUME NEW b \in 0..n PROVE h[b] = IF b = 0 THEN 1 ELSE 2 * h[b - 1]
        <4>1. CASE b = n
          <5>1. h[b] = 2 * g[n - 1] /\ b - 1 \in 0..n /\ b - 1 # n /\ h[b - 1] = g[n - 1]
            BY <4>1, <3>1, <2>3
          <5> QED BY <5>1, <4>1, <2>3
        <4>2. CASE b # n
          <5>1. b \in 0..(n - 1) /\ h[b] = g[b]
            BY <4>2, <3>1
          <5>2. b # 0 => h[b - 1] = g[b - 1]
            BY <4>2, <3>1
          <5> QED BY <5>1, <5>2, <3>3
        <4> QED BY <4>1, <4>2
      <3>6. h \in Begins(n)
        BY <3>4, <3>5
      <3> QED BY <3>6, <2>1
    <2> QED BY <2>2, <2>3
  <1>2. ASSUME NEW n \in Nat, NEW m \in Nat, n <= m,
               NEW g \in Begins(n), NEW h \in Begins(m)
        PROVE  g[n] = h[n]
    <2> DEFINE bad == {b \in 0..n : g[b] # h[b]}
    <2>1. CASE bad # {}
      <3>1. PICK b \in bad : \A k \in bad : b <= k
        <4>1. bad \subseteq Nat
          OBVIOUS
        <4> HIDE DEF bad
        <4> QED BY <2>1, <4>1, LeastExists
      <3>2. b # 0 => b - 1 \in 0..n /\ g[b - 1] = h[b - 1]
        BY <3>1
      <3>3. b \in 0..m /\ b \in 0..n /\ g[b] # h[b]
        BY <1>2, <3>1
      <3>4. g[b] = (IF b = 0 THEN 1 ELSE 2 * g[b - 1])
            /\ h[b] = (IF b = 0 THEN 1 ELSE 2 * h[b - 1])
        BY <3>3
      <3> HIDE DEF Begins, bad
      <3>5. CASE b = 0
        BY <3>3, <3>4, <3>5
      <3>6. CASE b # 0
        BY <3>2, <3>3, <3>4, <3>6
      <3> QED BY <3>5, <3>6
    <2>2. CASE bad = {}
      <3> HIDE DEF Begins
      <3>1. n \in 0..n
        OBVIOUS
      <3> QED BY <2>2, <3>1, Zenon
    <2> QED BY <2>1, <2>2
  <1> DEFINE first(n) == CHOOSE g \in Begins(n) : TRUE
             f == [n \in Nat |-> first(n)[n]]
  <1>3. \A n \in Nat : first(n) \in Begins(n)
    BY <1>1
  <1>4. \A n \in Nat : f[n] = first(n)[n]
    OBVIOUS
  <1>5. f = [n \in Nat |-> first(n)[n]]
    OBVIOUS
  <1> HIDE DEF first, f
  <1>6. ASSUME NEW n \in Nat PROVE f[n] = IF n = 0 THEN 1 ELSE 2 * f[n - 1]
    <2>1. first(n)[n] = IF n = 0 THEN 1 ELSE 2 * first(n)[n - 1]
      BY <1>3
    <2>2. CASE n = 0
      BY <2>1, <2>2, <1>4
    <2>3. CASE n # 0
      <3>1. n - 1 \in Nat /\ n - 1 <= n
        BY <2>3
      <3>2. first(n - 1)[n - 1] = first(n)[n - 1]
        <4> HIDE DEF Begins
        <4> QED BY <1>2, <1>3, <3>1
      <3> QED BY <1>4, <2>1, <2>3, <3>1, <3>2
    <2> QED BY <2>2, <2>3
  <1>7. f = [n \in Nat |-> IF n = 0 THEN 1 ELSE 2 * f[n - 1]]
    BY <1>4, <1>5, <1>6
  <1>8. \E g : g = [n \in Nat |-> IF n = 0 THEN 1 ELSE 2 * g[n - 1]]
    BY <1>7
  <1> QED BY <1>8 DEF Size

LEMMA SizeGrows ==
  /\ Size[0] = 1
  /\ \A b \in Nat : Size[b] \in Nat \ {0} /\ Size[b + 1] = 2 * Size[b]
  <1>1. Size[0] = 1
    BY SizeIs
  <1>2. \A b \in Nat : Size[b + 1] = 2 * Size[b]
    <2> TAKE b \in Nat
    <2>1. b + 1 \in Nat /\ b + 1 # 0 /\ (b + 1) - 1 = b
      OBVIOUS
    <2>2. Size[b + 1] = IF b + 1 = 0 THEN 1 ELSE 2 * Size[(b + 1) - 1]
      BY <2>1, SizeIs
    <2> QED BY <2>1, <2>2
  <1>3. \A b \in Nat : Size[b] \in Nat \ {0}
    <2> DEFINE bad == {b \in Nat : Size[b] \notin Nat \ {0}}
    <2> SUFFICES ASSUME bad # {} PROVE FALSE
      OBVIOUS
    <2>1. bad \subseteq Nat
      OBVIOUS
    <2> HIDE DEF bad
    <2>2. PICK n \in bad : \A k \in bad : n <= k
      BY <2>1, LeastExists
    <2>3. n \in Nat /\ n # 0
      BY <1>1, <2>2 DEF bad
    <2>4. n - 1 \in Nat /\ (n - 1) + 1 = n /\ n - 1 \notin bad
      BY <2>1, <2>2, <2>3
    <2>5. Size[n - 1] \in Nat \ {0}
      BY <2>4 DEF bad
    <2>6. Size[n] = 2 * Size[n - 1]
      BY <1>2, <2>4
    <2> QED BY <2>2, <2>5, <2>6 DEF bad
  <1> QED BY <1>1, <1>2, <1>3

\* A larger power is a multiple of a smaller one.
LEMMA SizeDivides ==
  ASSUME NEW a \in Nat, NEW b \in Nat, a <= b
  PROVE  \E q \in Nat \ {0} : Size[b] = q * Size[a] /\ (a < b => q >= 2)
  <1> DEFINE good(n) == \E q \in Nat \ {0} : Size[n] = q * Size[a] /\ (a < n => q >= 2)
             bad == {n \in Nat : a <= n /\ ~good(n)}
  <1> SUFFICES ASSUME bad # {} PROVE FALSE
    OBVIOUS
  <1>1. bad \subseteq Nat
    OBVIOUS
  <1> HIDE DEF bad
  <1>2. PICK n \in bad : \A k \in bad : n <= k
    BY <1>1, LeastExists
  <1>3. n \in Nat /\ a <= n /\ ~good(n)
    BY <1>2 DEF bad
  <1>4. n # a
    <2>1. good(a)
      BY SizeGrows
    <2> QED BY <1>3, <2>1
  <1>5. n - 1 \in Nat /\ a <= n - 1 /\ n - 1 \notin bad
    BY <1>1, <1>2, <1>3, <1>4
  <1>6. good(n - 1)
    BY <1>5 DEF bad
  <1>7. PICK q \in Nat \ {0} : Size[n - 1] = q * Size[a]
    BY <1>6
  <1>8. Size[n] = 2 * Size[n - 1] /\ Size[a] \in Nat
    <2>1. (n - 1) + 1 = n
      BY <1>3
    <2> QED BY <1>5, <2>1, SizeGrows
  <1>9. Size[n] = (2 * q) * Size[a] /\ 2 * q \in Nat \ {0} /\ 2 * q >= 2
    BY <1>7, <1>8
  <1> HIDE DEF good
  <1>10. good(n)
    BY <1>9 DEF good
  <1> QED BY <1>3, <1>10

LEMMA SizeOrder ==
  ASSUME NEW a \in Nat, NEW b \in Nat, a <= b
  PROVE  Size[a] <= Size[b] /\ (a < b => 2 * Size[a] <= Size[b])
  <1>1. PICK q \in Nat \ {0} : Size[b] = q * Size[a] /\ (a < b => q >= 2)
    BY SizeDivides
  <1>2. Size[a] \in Nat \ {0}
    BY SizeGrows
  <1>3. \A r, s, u \in Nat : r <= s => r * u <= s * u
    OBVIOUS
  <1>4. 1 * Size[a] <= q * Size[a] /\ (a < b => 2 * Size[a] <= q * Size[a])
    BY <1>1, <1>2, <1>3
  <1> QED BY <1>1, <1>2, <1>4

-----------------------------------------------------------------------------
(* Networks.                                                               *)

\* Multiples of d less than d apart are the same.
LEMMA MultiplesApart ==
  ASSUME NEW d \in Nat \ {0}, NEW a \in Int, NEW b \in Int, a * d < b * d + d
  PROVE  a * d <= b * d
  <1>1. \A x, y \in Int : x < y => x * d + d <= y * d
    OBVIOUS
  <1>2. ~(b < a)
    BY <1>1
  <1>3. \A x, y \in Int : x <= y => x * d <= y * d
    OBVIOUS
  <1> QED BY <1>2, <1>3

\* A network starts at a multiple of the size of any smaller one.
LEMMA NetworkIs ==
  ASSUME CapacityAssumption, NEW n \in Networks
  PROVE  /\ n.first \in Addresses /\ n.first \in Nat /\ n.bits \in 0..Width /\ n.bits \in Nat
         /\ Size[n.bits] \in Nat \ {0}
         /\ \A b \in 0..n.bits : \E q \in Nat : n.first = q * Size[b]
         /\ n = [first |-> n.first, bits |-> n.bits]
  <1>1. /\ n.first \in Addresses /\ n.first \in Nat /\ n.bits \in 0..Width /\ n.bits \in Nat
        /\ n.first % Size[n.bits] = 0 /\ n = [first |-> n.first, bits |-> n.bits]
    <2>1. Width \in Nat /\ Size[Width] \in Nat \ {0}
      BY SizeGrows DEF CapacityAssumption
    <2> QED BY <2>1 DEF Networks, Addresses
  <1>2. Size[n.bits] \in Nat \ {0}
    BY <1>1, SizeGrows
  <1>3. ASSUME NEW b \in 0..n.bits PROVE \E q \in Nat : n.first = q * Size[b]
    <2>1. PICK r \in Nat \ {0} : Size[n.bits] = r * Size[b]
      BY <1>1, SizeDivides
    <2>2. Size[b] \in Nat /\ b \in Nat
      BY <1>1, SizeGrows
    <2> DEFINE p == n.first \div Size[n.bits]
    <2>3. \A x \in Nat, d \in Nat \ {0} :
            x % d = 0 => x \div d \in Nat /\ x = (x \div d) * d
      OBVIOUS
    <2>4. p \in Nat /\ n.first = p * Size[n.bits]
      BY <1>1, <1>2, <2>3
    <2> HIDE DEF p
    <2>5. \A x, y, z \in Nat : x * (y * z) = (x * y) * z
      OBVIOUS
    <2>6. n.first = (p * r) * Size[b]
      BY <2>1, <2>2, <2>4, <2>5
    <2>7. p * r \in Nat
      BY <2>1, <2>4
    <2> QED BY <2>6, <2>7
  <1> QED BY <1>1, <1>2, <1>3

\* Two networks are apart, or the smaller one is within the other.
LEMMA NetworksNest ==
  ASSUME CapacityAssumption, NEW n \in Networks, NEW m \in Networks, n.bits <= m.bits,
         AddressesOf(n) \cap AddressesOf(m) # {}
  PROVE  /\ AddressesOf(n) \subseteq AddressesOf(m) /\ m.first <= n.first
         /\ n.first + Size[n.bits] <= m.first + Size[m.bits]
         /\ n.bits = m.bits => n = m
  <1> DEFINE d == Size[n.bits]
             e == Size[m.bits]
  <1>1. /\ n.first \in Nat /\ n.bits \in Nat /\ d \in Nat \ {0}
        /\ m.first \in Nat /\ m.bits \in Nat /\ e \in Nat \ {0}
    BY NetworkIs
  <1>2. PICK x \in Nat : n.first <= x /\ x < n.first + d /\ m.first <= x /\ x < m.first + e
    BY <1>1 DEF AddressesOf
  <1>3. PICK p \in Nat : n.first = p * d
    BY NetworkIs
  <1>4. PICK q \in Nat : m.first = q * d
    <2>1. n.bits \in 0..m.bits
      BY <1>1
    <2> QED BY <2>1, NetworkIs
  <1>5. PICK r \in Nat \ {0} : e = r * d
    BY <1>1, SizeDivides
  <1> HIDE DEF d, e
  <1>6. m.first <= n.first
    <2>1. q * d < p * d + d
      BY <1>1, <1>2, <1>3, <1>4
    <2> QED BY <1>1, <1>3, <1>4, <2>1, MultiplesApart
  <1>7. n.first + d <= m.first + e
    <2>1. m.first + e = (q + r) * d /\ n.first + d = (p + 1) * d
      BY <1>1, <1>3, <1>4, <1>5
    <2>2. (p + 1) * d < (q + r) * d + d
      BY <1>1, <1>2, <2>1
    <2> QED BY <1>1, <2>1, <2>2, MultiplesApart
  <1>8. AddressesOf(n) \subseteq AddressesOf(m)
    BY <1>1, <1>6, <1>7 DEF AddressesOf, d, e
  <1>9. ASSUME n.bits = m.bits PROVE n = m
    <2>1. d = e
      BY <1>9 DEF d, e
    <2>2. n.first = m.first
      BY <1>1, <1>6, <1>7, <2>1
    <2> QED BY <1>9, <2>2, NetworkIs
  <1> QED BY <1>6, <1>7, <1>8, <1>9 DEF d, e

LEMMA NetworkFits ==
  ASSUME CapacityAssumption, NEW n \in Networks
  PROVE  /\ AddressesOf(n) \subseteq Addresses /\ n.first \in AddressesOf(n)
         /\ Hosts(n) \subseteq AddressesOf(n) /\ Hosts(n) # {}
         /\ \A b \in 0..n.bits : Size[b] <= Size[n.bits]
  <1> DEFINE all == [first |-> 0, bits |-> Width]
  <1>1. /\ n.first \in Nat /\ n.bits \in 0..Width /\ Size[n.bits] \in Nat \ {0}
        /\ n.bits \in Nat /\ Width \in Nat /\ Size[Width] \in Nat \ {0}
        /\ n.first \in Addresses
    BY NetworkIs, SizeGrows DEF CapacityAssumption
  <1>2. all \in Networks
    <2>1. 0 % Size[Width] = 0
      BY <1>1
    <2>2. all \in [first : Addresses, bits : 0..Width] /\ all.first = 0 /\ all.bits = Width
      BY <1>1 DEF Addresses
    <2> HIDE DEF all
    <2> QED BY <2>1, <2>2 DEF Networks
  <1>3. AddressesOf(all) = Addresses
    BY <1>1 DEF AddressesOf, Addresses
  <1>4. n.first \in AddressesOf(n)
    BY <1>1 DEF AddressesOf
  <1>5. AddressesOf(n) \subseteq Addresses
    <2>1. n.bits <= all.bits
      BY <1>1
    <2> HIDE DEF all
    <2> QED BY <1>1, <1>2, <1>3, <1>4, <2>1, NetworksNest
  <1>6. \A b \in 0..n.bits : Size[b] <= Size[n.bits]
    BY <1>1, SizeOrder
  <1>7. n.bits > 1 => Size[n.bits] >= 4
    <2>1. Size[2] = 4
      <3>1. Size[0 + 1] = 2 * Size[0] /\ Size[1 + 1] = 2 * Size[1] /\ Size[0] = 1
        BY SizeGrows
      <3> QED BY <3>1
    <2> QED BY <1>1, <1>6, <2>1
  <1>8. Hosts(n) \subseteq AddressesOf(n) /\ Hosts(n) # {}
    BY <1>1, <1>4, <1>7 DEF Hosts, AddressesOf
  <1> QED BY <1>4, <1>5, <1>6, <1>8

-----------------------------------------------------------------------------
(* The algorithms.                                                         *)

LEMMA RequiredIs ==
  ASSUME CapacityAssumption, NEW h \in HostInputs
  PROVE  Required(h) \in Nat \ {0}
  <1> DEFINE x == h.hosts * (100 + h.buffer)
  <1>1. h.hosts \in Nat \ {0} /\ 100 + h.buffer \in Nat /\ 100 + h.buffer >= 100
    BY DEF CapacityAssumption
  <1>2. \A y \in Nat \ {0}, z \in Nat : z >= 100 => y * z \in Nat /\ y * z >= 100
    OBVIOUS
  <1>3. x \in Nat /\ x >= 100
    BY <1>1, <1>2
  <1>4. Required(h) = -((-x) \div 100)
    BY DEF Required
  <1> HIDE DEF x
  <1> QED BY <1>3, <1>4

LEMMA BlockSize ==
  ASSUME CapacityAssumption, NEW need \in Nat, LargeEnough(need) # {}
  PROVE  LET b == Min(LargeEnough(need))
         IN  /\ b \in 2..Width /\ b \in Nat /\ Size[b] - 2 >= need
             /\ Size[b] \in Nat /\ Size[b] >= 4
             /\ \A c \in 2..Width : Size[c] - 2 >= need => b <= c
  <1> DEFINE b == Min(LargeEnough(need))
  <1>1. Width \in Nat /\ LargeEnough(need) \subseteq Nat
    BY DEF CapacityAssumption, LargeEnough
  <1>2. b \in LargeEnough(need) /\ \A c \in LargeEnough(need) : b <= c
    BY <1>1, MinIs
  <1> HIDE DEF b
  <1>3. b \in 2..Width /\ b \in Nat /\ Size[b] - 2 >= need
    BY <1>1, <1>2 DEF LargeEnough
  <1>4. Size[b] \in Nat /\ Size[b] >= 4
    <2>1. Size[0 + 1] = 2 * Size[0] /\ Size[1 + 1] = 2 * Size[1] /\ Size[0] = 1
      BY SizeGrows
    <2>2. Size[2] = 4
      BY <2>1
    <2>3. Size[2] <= Size[b] /\ Size[b] \in Nat
      BY <1>3, SizeOrder, SizeGrows
    <2> QED BY <2>2, <2>3
  <1>5. \A c \in 2..Width : Size[c] - 2 >= need => b <= c
    BY <1>2 DEF LargeEnough
  <1> QED BY <1>3, <1>4, <1>5 DEF b

LEMMA CarvedIs ==
  ASSUME CapacityAssumption, NEW nets \in [SubnetIds -> Networks \cup {NULL}], NEW s \in Existing(nets)
  PROVE  /\ nets[s] \in Networks
         /\ \A d \in Carved(nets, s) :
              /\ d \in Networks /\ d.bits < nets[s].bits
              /\ AddressesOf(d) \subseteq AddressesOf(nets[s])
         /\ \A t \in Existing(nets) :
              (nets[t].bits < nets[s].bits /\ AddressesOf(nets[t]) \subseteq AddressesOf(nets[s]))
                => nets[t] \in Carved(nets, s)
  <1>1. nets[s] \in Networks /\ \A t \in Existing(nets) : nets[t] \in Networks
    BY DEF Existing
  <1>2. ASSUME NEW d \in Carved(nets, s)
        PROVE  /\ d \in Networks /\ d.bits < nets[s].bits
               /\ AddressesOf(d) \subseteq AddressesOf(nets[s])
    BY <1>1 DEF Carved
  <1>3. ASSUME NEW t \in Existing(nets), nets[t].bits < nets[s].bits,
               AddressesOf(nets[t]) \subseteq AddressesOf(nets[s])
        PROVE  nets[t] \in Carved(nets, s)
    <2>1. nets[t].bits \in Nat
      BY <1>1, NetworkIs
    <2>2. t # s
      BY <1>3, <2>1
    <2> QED BY <1>3, <2>2 DEF Carved
  <1> QED BY <1>1, <1>2, <1>3

\* An aligned block lies in the subnet, and its hosts are hosts of the subnet.
LEMMA BlockFits ==
  ASSUME CapacityAssumption, NEW nets \in [SubnetIds -> Networks \cup {NULL}],
         NEW s \in Existing(nets), NEW b \in 2..nets[s].bits, NEW k \in BlocksOf(nets, s, b)
  PROVE  /\ k \in Networks /\ k.bits = b /\ AddressesOf(k) \subseteq AddressesOf(nets[s])
         /\ k.first \in Nat /\ Size[b] \in Nat /\ Size[b] >= 4
         /\ Hosts(k) = (k.first + 1)..(k.first + Size[b] - 2)
         /\ Min(Hosts(k)) = k.first + 1 /\ Max(Hosts(k)) = k.first + Size[b] - 2
         /\ Hosts(k) \subseteq Hosts(nets[s])
         /\ nets[s].first <= k.first
         /\ k.first + Size[b] <= nets[s].first + Size[nets[s].bits]
  <1> DEFINE n == nets[s]
  <1>1. n \in Networks
    BY CarvedIs
  <1> HIDE DEF n
  <1>2. /\ k \in Networks /\ k.bits = b /\ k.first \in AddressesOf(n)
        /\ k.first \in Nat /\ n.first \in Nat /\ n.bits \in Nat /\ b \in Nat /\ b <= n.bits
        /\ Size[n.bits] \in Nat
    BY <1>1, NetworkIs DEF BlocksOf, n
  <1>3. Size[b] \in Nat /\ Size[b] >= 4
    <2>1. Size[0 + 1] = 2 * Size[0] /\ Size[1 + 1] = 2 * Size[1] /\ Size[0] = 1
      BY SizeGrows
    <2>2. Size[2] = 4
      BY <2>1
    <2>3. Size[2] <= Size[b] /\ Size[b] \in Nat
      BY <1>2, SizeOrder, SizeGrows
    <2> QED BY <2>2, <2>3
  <1>4. /\ AddressesOf(k) \subseteq AddressesOf(n) /\ n.first <= k.first
        /\ k.first + Size[b] <= n.first + Size[n.bits]
    <2>1. k.first \in AddressesOf(k)
      BY <1>2, NetworkFits
    <2> QED BY <1>1, <1>2, <2>1, NetworksNest
  <1>5. Hosts(k) = (k.first + 1)..(k.first + Size[b] - 2) /\ b > 1
    BY <1>2 DEF Hosts
  <1> DEFINE lo == k.first + 1
             hi == k.first + Size[b] - 2
  <1>6. lo \in Nat /\ hi \in Nat /\ lo <= hi
    BY <1>2, <1>3
  <1> HIDE DEF lo, hi
  <1>7. Min(lo..hi) = lo /\ Max(lo..hi) = hi
    <2>1. lo..hi \subseteq Nat /\ lo \in lo..hi /\ hi \in lo..hi /\ \A i \in lo..hi : i <= hi
      BY <1>6
    <2>2. Min(lo..hi) \in lo..hi /\ \A i \in lo..hi : Min(lo..hi) <= i
      BY <2>1, MinIs
    <2>3. Max(lo..hi) \in lo..hi /\ \A i \in lo..hi : i <= Max(lo..hi)
      BY <1>6, <2>1, MaxIs
    <2> QED BY <1>6, <2>1, <2>2, <2>3
  <1>8. Hosts(k) \subseteq Hosts(n)
    BY <1>2, <1>3, <1>4, <1>5 DEF Hosts
  <1> QED BY <1>2, <1>3, <1>4, <1>5, <1>7, <1>8 DEF n, lo, hi

\* The run found is free, there is one at most, and none only if none is long enough.
LEMMA LongestRunIs ==
  ASSUME NEW free, free \subseteq Nat, IsFiniteSet(free), NEW need \in Nat \ {0}
  PROVE  /\ \A a \in LongestRun(free, need) : a \in Nat /\ a..(a + need - 1) \subseteq free
         /\ \A a, c \in LongestRun(free, need) : a = c
         /\ LongestRun(free, need) = {} => RunStarts(free, need) = {}
  <1> DEFINE lengths == {l \in 1..Cardinality(free) : RunStarts(free, l) # {}}
             run == {Min(RunStarts(free, Max(lengths)))}
  <1>1. Cardinality(free) \in Nat
    BY FS_CardinalityType
  <1>2. lengths \subseteq Nat /\ \A l \in lengths : l <= Cardinality(free)
    BY <1>1
  <1>3. lengths # {} => Max(lengths) \in lengths /\ \A l \in lengths : l <= Max(lengths)
    <2> HIDE DEF lengths
    <2> QED BY <1>1, <1>2, MaxIs
  <1>4. LongestRun(free, need) = IF lengths = {} \/ Max(lengths) < need THEN {} ELSE run
    BY DEF LongestRun
  <1>5. lengths # {} =>
          /\ Min(RunStarts(free, Max(lengths))) \in RunStarts(free, Max(lengths))
          /\ Max(lengths) \in Nat
    <2> SUFFICES ASSUME lengths # {}
                 PROVE  /\ Min(RunStarts(free, Max(lengths))) \in RunStarts(free, Max(lengths))
                        /\ Max(lengths) \in Nat
      OBVIOUS
    <2>1. RunStarts(free, Max(lengths)) # {} /\ Max(lengths) \in Nat
      BY <1>2, <1>3
    <2>2. RunStarts(free, Max(lengths)) \subseteq Nat
      BY DEF RunStarts
    <2> HIDE DEF lengths
    <2> QED BY <2>1, <2>2, MinIs
  <1>6. ASSUME NEW a \in RunStarts(free, need) PROVE need \in lengths
    <2>1. a \in Nat /\ a + need - 1 \in Int /\ a..(a + need - 1) \subseteq free
      BY DEF RunStarts
    <2>2. IsFiniteSet(a..(a + need - 1)) /\ Cardinality(a..(a + need - 1)) = need
      BY <2>1, FS_Interval
    <2>3. need <= Cardinality(free)
      BY <2>1, <2>2, FS_Subset
    <2> QED BY <1>1, <1>6, <2>3
  <1> HIDE DEF lengths
  <1>7. ASSUME NEW a \in LongestRun(free, need)
        PROVE  a \in Nat /\ a..(a + need - 1) \subseteq free
    <2>1. lengths # {} /\ ~(Max(lengths) < need) /\ a \in run
      BY <1>4
    <2>2. a \in RunStarts(free, Max(lengths)) /\ Max(lengths) \in Nat
      BY <1>5, <2>1
    <2>3. a \in Nat /\ a..(a + Max(lengths) - 1) \subseteq free
      BY <2>2 DEF RunStarts
    <2> QED BY <2>1, <2>2, <2>3
  <1>8. \A a, c \in LongestRun(free, need) : a = c
    BY <1>4
  <1>9. ASSUME LongestRun(free, need) = {} PROVE RunStarts(free, need) = {}
    <2> SUFFICES ASSUME NEW a \in RunStarts(free, need) PROVE FALSE
      OBVIOUS
    <2>1. need \in lengths /\ need <= Max(lengths) /\ Max(lengths) \in Nat
      BY <1>3, <1>5, <1>6
    <2> QED BY <1>4, <1>9, <2>1
  <1> QED BY <1>7, <1>8, <1>9

LEMMA UnclaimedIs ==
  ASSUME CapacityAssumption, NEW nets \in [SubnetIds -> Networks \cup {NULL}],
         NEW s \in Existing(nets), NEW used
  PROVE  /\ Unclaimed(nets, s, used) \subseteq Hosts(nets[s])
         /\ Unclaimed(nets, s, used) \subseteq Nat
         /\ IsFiniteSet(Unclaimed(nets, s, used))
         /\ Unclaimed(nets, s, used) \cap used = {}
         /\ \A d \in Carved(nets, s) : Unclaimed(nets, s, used) \cap AddressesOf(d) = {}
  <1> DEFINE n == nets[s]
             A == Addresses
  <1>1. n \in Networks
    BY CarvedIs
  <1>2. Hosts(n) \subseteq A
    BY <1>1, NetworkFits
  <1>3. A \subseteq Nat /\ IsFiniteSet(A)
    <2>1. Size[Width] \in Nat \ {0}
      BY SizeGrows DEF CapacityAssumption
    <2> DEFINE top == Size[Width] - 1
    <2>2. A = 0..top /\ top \in Int /\ 0 \in Int
      BY <2>1 DEF Addresses
    <2> HIDE DEF top, A
    <2>3. IsFiniteSet(0..top)
      BY <2>2, FS_Interval
    <2>4. 0..top \subseteq Nat
      BY <2>2
    <2> QED BY <2>2, <2>3, <2>4
  <1>4. Unclaimed(nets, s, used) \subseteq Hosts(n)
    BY DEF Unclaimed
  <1>5. IsFiniteSet(Unclaimed(nets, s, used))
    <2>1. Unclaimed(nets, s, used) \subseteq A
      BY <1>2, <1>4
    <2> HIDE DEF A
    <2> QED BY <1>3, <2>1, FS_Subset
  <1>6. \A d \in Carved(nets, s) : Unclaimed(nets, s, used) \cap AddressesOf(d) = {}
    BY DEF Unclaimed
  <1>7. Unclaimed(nets, s, used) \cap used = {}
    BY DEF Unclaimed
  <1> HIDE DEF A
  <1> QED BY <1>2, <1>3, <1>4, <1>5, <1>6, <1>7

LEMMA QuotientBelow ==
  ASSUME NEW x \in Nat, NEW d \in Nat \ {0}, NEW m \in Nat, x < d * m
  PROVE  x \div d < m
  <1> DEFINE q == x \div d
  <1>1. q \in Nat /\ q * d <= x
    OBVIOUS
  <1> HIDE DEF q
  <1>2. \A y \in Nat : m <= y => d * m <= y * d
    OBVIOUS
  <1>3. q < m
    BY <1>1, <1>2
  <1> QED BY <1>3 DEF q

\* The aligned blocks offered are clean; none is offered only if none is among those
\* scanned.
LEMMA AlignedIs ==
  ASSUME CapacityAssumption, NEW nets \in [SubnetIds -> Networks \cup {NULL}],
         NEW s \in Existing(nets), NEW used, NEW b, NEW most \in Nat \ {0}
  PROVE  /\ \A k \in AlignedBlocks(nets, s, used, b, most) :
              k \in BlocksOf(nets, s, b) /\ IsClean(nets, s, used, k)
         /\ \A k \in BlocksOf(nets, s, b) :
              (IsClean(nets, s, used, k) /\ (k.first - nets[s].first) \div Size[b] < MaxScan)
                => AlignedBlocks(nets, s, used, b, most) # {}
  <1> DEFINE clean == {k \in BlocksOf(nets, s, b) :
                         /\ (k.first - nets[s].first) \div Size[b] < MaxScan
                         /\ IsClean(nets, s, used, k)}
             before(k) == {j \in clean : j.first < k.first}
  <1>1. AlignedBlocks(nets, s, used, b, most) = {k \in clean : Cardinality(before(k)) < most}
    BY DEF AlignedBlocks
  <1>2. \A k \in clean : k \in BlocksOf(nets, s, b) /\ IsClean(nets, s, used, k)
    OBVIOUS
  <1>3. ASSUME clean # {} PROVE \E k \in clean : Cardinality(before(k)) < most
    <2> DEFINE firsts == {k.first : k \in clean}
    <2>1. firsts \subseteq Nat
      <3>1. \A k \in clean : k.first \in Nat
        BY NetworkIs DEF BlocksOf
      <3> HIDE DEF clean
      <3> QED BY <3>1
    <2> HIDE DEF clean
    <2>2. firsts # {}
      <3>1. PICK k \in clean : TRUE
        BY <1>3
      <3>2. k.first \in firsts
        OBVIOUS
      <3> QED BY <3>2
    <2> HIDE DEF firsts
    <2>3. PICK f \in firsts : \A g \in firsts : f <= g
      BY <2>1, <2>2, LeastExists
    <2>4. PICK k \in clean : f = k.first
      BY <2>3 DEF firsts
    <2>5. \A j \in clean : j.first \in firsts
      BY DEF firsts
    <2>6. before(k) = {}
      BY <2>1, <2>3, <2>4, <2>5
    <2>7. Cardinality(before(k)) = 0
      BY <2>6, FS_EmptySet
    <2> HIDE DEF before
    <2> QED BY <2>7
  <1>4. \A k \in BlocksOf(nets, s, b) :
          (IsClean(nets, s, used, k) /\ (k.first - nets[s].first) \div Size[b] < MaxScan)
            => k \in clean
    OBVIOUS
  <1> HIDE DEF clean, before
  <1> QED BY <1>1, <1>2, <1>3, <1>4

\* What one subnet offers: where it lies, what it keeps clear of, how large it is.
IsClear(nets, s, used, c) ==
  /\ c.subnet = s /\ c.from \in Nat /\ c.to \in Nat /\ c.from <= c.to
  /\ c.from..c.to \subseteq Hosts(nets[s]) /\ (c.from..c.to) \cap used = {}
  /\ \A d \in Carved(nets, s) : (c.from..c.to) \cap AddressesOf(d) = {}

HasSize(nets, s, used, need, c) ==
  LET b == Min(LargeEnough(need))
  IN  /\ c.to - c.from + 1 >= need
      /\ IF c.aligned THEN c.to - c.from + 1 = Size[b] - 2
         ELSE \A k \in BlocksOf(nets, s, b) : ~IsClean(nets, s, used, k)

LEMMA CandidateIs ==
  ASSUME CapacityAssumption, NEW nets \in [SubnetIds -> Networks \cup {NULL}],
         NEW s \in Existing(nets), NEW used, NEW need \in Nat \ {0}, LargeEnough(need) # {},
         NEW most \in Nat \ {0}, NEW c \in FindCandidates(nets, s, used, need, most)
  PROVE  IsClear(nets, s, used, c) /\ HasSize(nets, s, used, need, c)
  <1> DEFINE n == nets[s]
             b == Min(LargeEnough(need))
             aligned == AlignedBlocks(nets, s, used, b, most)
             free == Unclaimed(nets, s, used)
  <1>1. /\ n \in Networks /\ n.bits \in 0..Width /\ n.bits \in Nat /\ n.first \in Nat
        /\ Size[n.bits] \in Nat
    BY CarvedIs, NetworkIs
  <1>2. /\ b \in 2..Width /\ b \in Nat /\ Size[b] - 2 >= need
        /\ Size[b] \in Nat /\ Size[b] >= 4
    BY BlockSize
  <1>3. /\ ~(b > n.bits)
        /\ \/ \E k \in aligned :
                c = [subnet |-> s, from |-> Min(Hosts(k)), to |-> Max(Hosts(k)),
                     aligned |-> TRUE]
           \/ /\ aligned = {} /\ ~(Size[n.bits] > MaxFallback)
              /\ \E a \in LongestRun(free, need) :
                   c = [subnet |-> s, from |-> a, to |-> a + need - 1, aligned |-> FALSE]
    BY DEF FindCandidates
  <1> HIDE DEF b
  <1>4. b \in 2..n.bits
    BY <1>1, <1>2, <1>3
  <1>5. /\ \A k \in aligned : k \in BlocksOf(nets, s, b) /\ IsClean(nets, s, used, k)
        /\ \A k \in BlocksOf(nets, s, b) :
             (IsClean(nets, s, used, k) /\ (k.first - n.first) \div Size[b] < MaxScan)
               => aligned # {}
    BY AlignedIs
  <1> HIDE DEF aligned, free
  <1>6. ASSUME NEW k \in aligned,
               c = [subnet |-> s, from |-> Min(Hosts(k)), to |-> Max(Hosts(k)),
                    aligned |-> TRUE]
        PROVE  /\ IsClear(nets, s, used, c) /\ c.to - c.from + 1 >= need
               /\ c.aligned /\ c.to - c.from + 1 = Size[b] - 2
    <2>1. k \in BlocksOf(nets, s, b) /\ IsClean(nets, s, used, k)
      BY <1>5
    <2>2. /\ k \in Networks /\ k.first \in Nat
          /\ Hosts(k) = (k.first + 1)..(k.first + Size[b] - 2)
          /\ Min(Hosts(k)) = k.first + 1 /\ Max(Hosts(k)) = k.first + Size[b] - 2
          /\ Hosts(k) \subseteq Hosts(n)
      BY <1>4, <2>1, BlockFits
    <2>3. Hosts(k) \subseteq AddressesOf(k)
      BY <2>2, NetworkFits
    <2>4. /\ c.subnet = s /\ c.from = k.first + 1 /\ c.to = k.first + Size[b] - 2
          /\ c.aligned /\ c.from..c.to = Hosts(k)
      BY <1>6, <2>2
    <2>5. (c.from..c.to) \cap used = {}
          /\ \A d \in Carved(nets, s) : (c.from..c.to) \cap AddressesOf(d) = {}
      BY <2>1, <2>3, <2>4 DEF IsClean
    <2>6. /\ c.from \in Nat /\ c.to \in Nat /\ c.from <= c.to
          /\ c.to - c.from + 1 = Size[b] - 2
      <3>1. \A f, z \in Nat : z >= 4 =>
              /\ f + 1 \in Nat /\ f + z - 2 \in Nat /\ f + 1 <= f + z - 2
              /\ (f + z - 2) - (f + 1) + 1 = z - 2
        OBVIOUS
      <3>2. c.from = k.first + 1 /\ c.to = k.first + Size[b] - 2
        BY <2>4
      <3>3. k.first \in Nat /\ Size[b] \in Nat /\ Size[b] >= 4
        BY <1>2, <2>2
      <3> QED BY <3>1, <3>2, <3>3
    <2> QED BY <1>2, <2>2, <2>4, <2>5, <2>6 DEF IsClear
  <1>7. ASSUME NEW a \in LongestRun(free, need),
               c = [subnet |-> s, from |-> a, to |-> a + need - 1, aligned |-> FALSE]
        PROVE  IsClear(nets, s, used, c) /\ c.to - c.from + 1 >= need /\ ~c.aligned
    <2>1. /\ free \subseteq Hosts(n) /\ free \subseteq Nat /\ IsFiniteSet(free)
          /\ free \cap used = {} /\ \A d \in Carved(nets, s) : free \cap AddressesOf(d) = {}
      BY UnclaimedIs DEF free
    <2>2. a \in Nat /\ a..(a + need - 1) \subseteq free
      BY <2>1, LongestRunIs
    <2>3. c.subnet = s /\ c.from = a /\ c.to = a + need - 1 /\ ~c.aligned
      BY <1>7
    <2>4. c.from..c.to \subseteq free
      BY <2>2, <2>3
    <2>5. c.from \in Nat /\ c.to \in Nat /\ c.from <= c.to /\ c.to - c.from + 1 >= need
      BY <2>2, <2>3
    <2> QED BY <2>1, <2>3, <2>4, <2>5 DEF IsClear
  <1>8. ASSUME aligned = {}, ~(Size[n.bits] > MaxFallback), NEW k \in BlocksOf(nets, s, b)
        PROVE  ~IsClean(nets, s, used, k)
    <2>1. k.first \in Nat /\ n.first <= k.first
          /\ k.first + Size[b] <= n.first + Size[n.bits]
      BY <1>4, BlockFits
    <2>2. MaxFallback \in Nat /\ MaxScan \in Nat /\ MaxFallback <= 4 * MaxScan
      BY DEF CapacityAssumption
    <2>3. k.first - n.first \in Nat /\ k.first - n.first < 4 * MaxScan
      BY <1>1, <1>2, <1>8, <2>1, <2>2
    <2>4. 4 * MaxScan <= Size[b] * MaxScan
      BY <1>2, <2>2
    <2>5. k.first - n.first < Size[b] * MaxScan
      BY <1>2, <2>2, <2>3, <2>4
    <2>6. (k.first - n.first) \div Size[b] < MaxScan
      BY <1>2, <2>2, <2>3, <2>5, QuotientBelow
    <2> QED BY <1>5, <1>8, <2>6
  <1>9. CASE \E k \in aligned :
               c = [subnet |-> s, from |-> Min(Hosts(k)), to |-> Max(Hosts(k)),
                    aligned |-> TRUE]
    BY <1>6, <1>9 DEF HasSize, b
  <1>10. CASE /\ aligned = {} /\ ~(Size[n.bits] > MaxFallback)
              /\ \E a \in LongestRun(free, need) :
                   c = [subnet |-> s, from |-> a, to |-> a + need - 1, aligned |-> FALSE]
    BY <1>7, <1>8, <1>10 DEF HasSize, b
  <1> QED BY <1>3, <1>9, <1>10

\* Two candidates of one subnet share no address.
LEMMA CandidatesApart ==
  ASSUME CapacityAssumption, NEW nets \in [SubnetIds -> Networks \cup {NULL}],
         NEW s \in Existing(nets), NEW used, NEW need \in Nat \ {0}, LargeEnough(need) # {},
         NEW most \in Nat \ {0}, NEW c \in FindCandidates(nets, s, used, need, most),
         NEW d \in FindCandidates(nets, s, used, need, most), c # d
  PROVE  (c.from..c.to) \cap (d.from..d.to) = {}
  <1> DEFINE b == Min(LargeEnough(need))
             aligned == AlignedBlocks(nets, s, used, b, most)
             run == LongestRun(Unclaimed(nets, s, used), need)
             block(k) == [subnet |-> s, from |-> Min(Hosts(k)), to |-> Max(Hosts(k)),
                          aligned |-> TRUE]
             part(a) == [subnet |-> s, from |-> a, to |-> a + need - 1, aligned |-> FALSE]
  <1>1. /\ ~(b > nets[s].bits)
        /\ (\E k \in aligned : c = block(k)) \/ (aligned = {} /\ \E a \in run : c = part(a))
    BY DEF FindCandidates
  <1>2. (\E k \in aligned : d = block(k)) \/ (aligned = {} /\ \E a \in run : d = part(a))
    BY DEF FindCandidates
  <1>0. b \in 2..nets[s].bits
    BY <1>1, BlockSize, CarvedIs, NetworkIs
  <1>3. \A k \in aligned : k \in BlocksOf(nets, s, b)
    BY AlignedIs
  <1>4. \A a, e \in run : a = e
    BY UnclaimedIs, LongestRunIs
  <1> HIDE DEF b, aligned, run
  <1>5. CASE (\E k \in aligned : c = block(k)) /\ \E k \in aligned : d = block(k)
    <2>1. PICK k \in aligned : c = block(k)
      BY <1>5
    <2>2. PICK j \in aligned : d = block(j)
      BY <1>5
    <2>3. k # j
      BY <2>1, <2>2
    <2>4. /\ k \in Networks /\ k.bits = b /\ k.first \in Nat
          /\ Hosts(k) = Min(Hosts(k))..Max(Hosts(k))
      BY <1>0, <1>3, BlockFits
    <2>5. /\ j \in Networks /\ j.bits = b /\ j.first \in Nat
          /\ Hosts(j) = Min(Hosts(j))..Max(Hosts(j))
      BY <1>0, <1>3, BlockFits
    <2>6. AddressesOf(k) \cap AddressesOf(j) = {}
      BY <2>3, <2>4, <2>5, NetworksNest, NetworkIs
    <2>7. Hosts(k) \cap Hosts(j) = {}
      BY <2>4, <2>5, <2>6, NetworkFits
    <2>8. c.from..c.to = Hosts(k) /\ d.from..d.to = Hosts(j)
      BY <2>1, <2>2, <2>4, <2>5
    <2> QED BY <2>7, <2>8
  <1>6. CASE aligned = {}
    <2>1. (\E a \in run : c = part(a)) /\ (\E a \in run : d = part(a))
      BY <1>1, <1>2, <1>6
    <2> QED BY <1>4, <2>1
  <1> QED BY <1>1, <1>2, <1>5, <1>6

LEMMA CandidatesFinite ==
  ASSUME CapacityAssumption, NEW nets \in [SubnetIds -> Networks \cup {NULL}],
         NEW s \in Existing(nets), NEW used, NEW need \in Nat \ {0}, LargeEnough(need) # {},
         NEW most \in Nat \ {0}
  PROVE  LET found == FindCandidates(nets, s, used, need, most)
         IN  /\ IsFiniteSet(found) /\ Cardinality(found) \in Nat
             /\ \A c \in found : SpanOf(c) \in Span /\ SpanOf(c).from <= SpanOf(c).to
  <1> DEFINE found == FindCandidates(nets, s, used, need, most)
             hosts == Hosts(nets[s])
             from == [c \in found |-> c.from]
  <1>1. hosts \subseteq Addresses
    BY CarvedIs, NetworkFits
  <1>2. ASSUME NEW c \in found
        PROVE  /\ c.subnet = s /\ c.from \in Nat /\ c.to \in Nat /\ c.from <= c.to
               /\ c.from..c.to \subseteq hosts
    <2>1. IsClear(nets, s, used, c)
      BY CandidateIs
    <2> QED BY <2>1 DEF IsClear
  <1>3. ASSUME NEW c \in found, NEW d \in found, c # d
        PROVE  (c.from..c.to) \cap (d.from..d.to) = {}
    BY <1>3, CandidatesApart
  <1> HIDE DEF found, hosts
  <1>4. ASSUME NEW c \in found
        PROVE  c.from \in c.from..c.to /\ c.to \in c.from..c.to
    BY <1>2
  <1>5. IsFiniteSet(hosts)
    <2>1. /\ Size[Width] \in Nat \ {0} /\ Size[Width] - 1 \in Nat
          /\ \A a \in hosts : a <= Size[Width] - 1
          /\ hosts \in SUBSET Nat
      <3>1. Size[Width] \in Nat \ {0}
        BY SizeGrows DEF CapacityAssumption
      <3>2. \A a \in Addresses : a \in Nat /\ a <= Size[Width] - 1
        BY <3>1 DEF Addresses
      <3> QED BY <1>1, <3>1, <3>2
    <2> QED BY <2>1, FS_BoundedSetOfNaturals
  <1>6. from \in Injection(found, hosts)
    <2>1. from \in [found -> hosts]
      BY <1>2, <1>4
    <2>2. \A c, d \in found : c.from = d.from => c = d
      BY <1>3, <1>4
    <2>3. \A c, d \in DOMAIN from : from[c] = from[d] => c = d
      BY <2>2
    <2> QED BY <2>1, <2>3 DEF Injection, IsInjective
  <1>7. IsFiniteSet(found)
    <2> HIDE DEF from
    <2> QED BY <1>5, <1>6, FS_Injection
  <1>8. Cardinality(found) \in Nat
    BY <1>7, FS_CardinalityType
  <1>9. ASSUME NEW c \in found PROVE SpanOf(c) \in Span /\ SpanOf(c).from <= SpanOf(c).to
    <2>1. s \in SubnetIds
      BY DEF Existing
    <2>2. c.from \in Addresses /\ c.to \in Addresses
      BY <1>1, <1>2, <1>4
    <2> QED BY <1>2, <2>1, <2>2 DEF SpanOf, Span
  <1> QED BY <1>7, <1>8, <1>9 DEF found

-----------------------------------------------------------------------------
(* What a search finds.                                                    *)

LEMMA AskedIs ==
  ASSUME CapacityAssumption, NEW need \in Asked
  PROVE  need \in Nat \ {0} /\ LargeEnough(need) # {}
  BY RequiredIs DEF Asked

LEMMA GridShows ==
  ASSUME CapacityAssumption, TypeOK, NEW s \in Existing(subnets), NEW a \in Hosts(subnets[s]),
         a \notin Used(rows, s)
  PROVE  Grid(subnets, rows, s)[a] = "free"
  <1>1. a \in Addresses /\ s \in SubnetIds
    BY CarvedIs, NetworkFits DEF TypeOK, Existing
  <1>2. ~IsClaimed(rows[<<s, a>>])
    BY <1>1 DEF Used
  <1> QED BY <1>2 DEF Grid, IsClaimed

LEMMA FoundFree == CapacityAssumption /\ TypeOK => FoundIsFree
  <1> SUFFICES ASSUME CapacityAssumption, TypeOK, NEW s \in Existing(subnets),
                      NEW need \in Asked, NEW c \in Found(s, need)
               PROVE  /\ c.to - c.from + 1 >= need
                      /\ \A a \in c.from..c.to :
                           /\ a \in Hosts(subnets[s]) /\ Grid(subnets, rows, s)[a] = "free"
                           /\ \A t \in Existing(subnets) : a \in AddressesOf(subnets[t]) =>
                                AddressesOf(subnets[s]) \subseteq AddressesOf(subnets[t])
                      /\ \A d \in Found(s, need) : c = d \/ KeysOf(c) \cap KeysOf(d) = {}
                      /\ LET b == Min(LargeEnough(need))
                         IN  IF c.aligned THEN c.to - c.from + 1 = Size[b] - 2
                             ELSE \A k \in BlocksOf(subnets, s, b) :
                                    ~IsClean(subnets, s, Used(rows, s), k)
    BY DEF FoundIsFree
  <1> DEFINE used == Used(rows, s)
             b == Min(LargeEnough(need))
  <1>1. /\ need \in Nat \ {0} /\ LargeEnough(need) # {}
        /\ subnets \in [SubnetIds -> Networks \cup {NULL}]
        /\ PerSubnet \in Nat \ {0}
    BY AskedIs DEF TypeOK, CapacityAssumption
  <1>2. \A d \in Found(s, need) : d \in FindCandidates(subnets, s, used, need, PerSubnet)
    BY DEF Found
  <1> HIDE DEF used, b
  <1>3. /\ c.to - c.from + 1 >= need
        /\ c.from..c.to \subseteq Hosts(subnets[s]) /\ (c.from..c.to) \cap used = {}
        /\ \A d \in Carved(subnets, s) : (c.from..c.to) \cap AddressesOf(d) = {}
    <2>1. IsClear(subnets, s, used, c) /\ HasSize(subnets, s, used, need, c)
      BY <1>1, <1>2, CandidateIs
    <2> QED BY <2>1 DEF IsClear, HasSize
  <1>4. IF c.aligned THEN c.to - c.from + 1 = Size[b] - 2
        ELSE \A k \in BlocksOf(subnets, s, b) : ~IsClean(subnets, s, used, k)
    <2>1. HasSize(subnets, s, used, need, c)
      BY <1>1, <1>2, CandidateIs
    <2> QED BY <2>1 DEF HasSize, b
  <1>5. ASSUME NEW a \in c.from..c.to
        PROVE  a \in Hosts(subnets[s]) /\ Grid(subnets, rows, s)[a] = "free"
    <2>1. a \in Hosts(subnets[s]) /\ a \notin used
      BY <1>3
    <2> QED BY <2>1, GridShows DEF used
  <1>6. ASSUME NEW a \in c.from..c.to, NEW t \in Existing(subnets),
               a \in AddressesOf(subnets[t])
        PROVE  AddressesOf(subnets[s]) \subseteq AddressesOf(subnets[t])
    <2> DEFINE n == subnets[s]
               m == subnets[t]
    <2>1. n \in Networks /\ m \in Networks /\ n.bits \in Nat /\ m.bits \in Nat
      BY <1>1, CarvedIs, NetworkIs
    <2>2. a \in AddressesOf(n)
      BY <1>3, <2>1, NetworkFits
    <2>3. AddressesOf(n) \cap AddressesOf(m) # {}
      BY <1>6, <2>2
    <2>4. CASE n.bits <= m.bits
      <3>1. AddressesOf(n) \subseteq AddressesOf(m)
        <4> HIDE DEF n, m
        <4> QED BY <2>1, <2>3, <2>4, NetworksNest
      <3> QED BY <3>1
    <2>5. CASE m.bits < n.bits
      <3>1. AddressesOf(m) \subseteq AddressesOf(n)
        <4> HIDE DEF n, m
        <4>1. m.bits <= n.bits
          BY <2>1, <2>5
        <4> QED BY <2>1, <2>3, <4>1, NetworksNest
      <3>2. m \in Carved(subnets, s)
        BY <1>1, <2>5, <3>1, CarvedIs
      <3> QED BY <1>3, <1>6, <3>2
    <2> QED BY <2>1, <2>4, <2>5
  <1>7. ASSUME NEW d \in Found(s, need), c # d
        PROVE  KeysOf(c) \cap KeysOf(d) = {}
    <2>1. (c.from..c.to) \cap (d.from..d.to) = {}
      BY <1>1, <1>2, <1>7, CandidatesApart
    <2> QED BY <2>1 DEF KeysOf
  <1> QED BY <1>3, <1>4, <1>5, <1>6, <1>7 DEF used, b

LEMMA FoundAccepted == CapacityAssumption /\ TypeOK => FoundIsAccepted
  <1> SUFFICES ASSUME CapacityAssumption, TypeOK, NEW s \in Existing(subnets),
                      NEW need \in Asked, NEW c \in Found(s, need),
                      c.to - c.from < MaxReservation
               PROVE  /\ IsWithin(subnets, SpanOf(c))
                      /\ (c.from..c.to) \cap Used(rows, s) = {}
    BY DEF FoundIsAccepted
  <1> DEFINE used == Used(rows, s)
  <1>1. /\ need \in Nat \ {0} /\ LargeEnough(need) # {}
        /\ subnets \in [SubnetIds -> Networks \cup {NULL}]
        /\ PerSubnet \in Nat \ {0} /\ MaxReservation \in Nat
    BY AskedIs DEF TypeOK, CapacityAssumption
  <1>2. c \in FindCandidates(subnets, s, used, need, PerSubnet)
    BY DEF Found
  <1> HIDE DEF used
  <1>3. /\ c.subnet = s /\ c.from \in Nat /\ c.to \in Nat /\ c.from <= c.to
        /\ c.from..c.to \subseteq Hosts(subnets[s]) /\ (c.from..c.to) \cap used = {}
        /\ \A d \in Carved(subnets, s) : (c.from..c.to) \cap AddressesOf(d) = {}
    <2>1. IsClear(subnets, s, used, c)
      BY <1>1, <1>2, CandidateIs
    <2> QED BY <2>1 DEF IsClear
  <1>4. {c.from, c.to} \subseteq AddressesOf(subnets[s])
    <2>1. Hosts(subnets[s]) \subseteq AddressesOf(subnets[s])
      BY <1>1, CarvedIs, NetworkFits
    <2>2. c.from \in c.from..c.to /\ c.to \in c.from..c.to
      BY <1>3
    <2> QED BY <1>3, <2>1, <2>2
  <1>5. SpanOf(c).subnet = s /\ SpanOf(c).from = c.from /\ SpanOf(c).to = c.to
    BY <1>3 DEF SpanOf
  <1>6. c.to - c.from + 1 <= MaxReservation /\ subnets[s] # NULL
    BY <1>1, <1>3 DEF Existing
  <1>7. IsWithin(subnets, SpanOf(c))
    BY <1>3, <1>4, <1>5, <1>6 DEF IsWithin
  <1> QED BY <1>3, <1>7 DEF used

LEMMA NoneMissed == CapacityAssumption /\ TypeOK => NothingMissed
  <1> SUFFICES ASSUME CapacityAssumption, TypeOK, NEW s \in Existing(subnets),
                      NEW need \in Asked, Found(s, need) = {}, subnets[s].bits > 1,
                      Size[subnets[s].bits] <= MaxFallback
               PROVE  RunStarts(Unclaimed(subnets, s, Used(rows, s)), need) = {}
    BY DEF NothingMissed
  <1> DEFINE used == Used(rows, s)
             n == subnets[s]
             b == Min(LargeEnough(need))
             free == Unclaimed(subnets, s, used)
             aligned == AlignedBlocks(subnets, s, used, b, PerSubnet)
  <1>1. /\ need \in Nat \ {0} /\ LargeEnough(need) # {}
        /\ subnets \in [SubnetIds -> Networks \cup {NULL}]
        /\ MaxFallback \in Nat
    BY AskedIs DEF TypeOK, CapacityAssumption
  <1>2. /\ n \in Networks /\ n.bits \in Nat /\ n.bits \in 0..Width /\ n.first \in Nat
        /\ Size[n.bits] \in Nat
    BY <1>1, CarvedIs, NetworkIs
  <1>3. /\ b \in 2..Width /\ b \in Nat
        /\ \A c \in 2..Width : Size[c] - 2 >= need => b <= c
    BY <1>1, BlockSize
  <1>4. free \subseteq Hosts(n) /\ free \subseteq Nat /\ IsFiniteSet(free)
    BY <1>1, UnclaimedIs
  <1>5. \/ b > n.bits
        \/ aligned = {} /\ LongestRun(free, need) = {}
    <2>1. FindCandidates(subnets, s, used, need, PerSubnet) = {}
      BY DEF Found
    <2>2. ~(Size[n.bits] > MaxFallback)
      BY <1>1, <1>2
    <2> DEFINE run == LongestRun(free, need)
               blocks == {[subnet |-> s, from |-> Min(Hosts(k)), to |-> Max(Hosts(k)),
                           aligned |-> TRUE] : k \in aligned}
               runs == {[subnet |-> s, from |-> a, to |-> a + need - 1,
                         aligned |-> FALSE] : a \in run}
    <2>3. (IF b > n.bits THEN {}
           ELSE IF aligned # {} \/ Size[n.bits] > MaxFallback THEN blocks ELSE runs) = {}
      BY <2>1 DEF FindCandidates
    <2> HIDE DEF b, n, aligned, run
    <2>4. ASSUME aligned # {} PROVE blocks # {}
      <3>1. PICK k \in aligned : TRUE
        BY <2>4
      <3>2. [subnet |-> s, from |-> Min(Hosts(k)), to |-> Max(Hosts(k)), aligned |-> TRUE]
              \in blocks
        OBVIOUS
      <3> QED BY <3>2
    <2>5. ASSUME run # {} PROVE runs # {}
      <3>1. PICK a \in run : TRUE
        BY <2>5
      <3>2. [subnet |-> s, from |-> a, to |-> a + need - 1, aligned |-> FALSE] \in runs
        OBVIOUS
      <3> QED BY <3>2
    <2> HIDE DEF blocks, runs
    <2>6. b > n.bits \/ (aligned = {} /\ run = {})
      BY <2>2, <2>3, <2>4, <2>5
    <2> QED BY <2>6 DEF run
  <1> HIDE DEF used, b, free, aligned
  <1>6. CASE b > n.bits
    <2>1. ~(Size[n.bits] - 2 >= need)
      BY <1>2, <1>3, <1>6
    <2> SUFFICES ASSUME NEW a \in RunStarts(free, need) PROVE FALSE
      BY DEF free, used
    <2>2. a \in Nat /\ a..(a + need - 1) \subseteq Hosts(n)
      BY <1>4 DEF RunStarts
    <2>3. a \in Hosts(n) /\ a + need - 1 \in Hosts(n)
      BY <1>1, <2>2
    <2>4. Hosts(n) = (n.first + 1)..(n.first + Size[n.bits] - 2)
      BY DEF Hosts
    <2>5. n.first + 1 <= a /\ a + need - 1 <= n.first + Size[n.bits] - 2
      BY <2>3, <2>4
    <2> HIDE DEF n
    <2> QED BY <1>1, <1>2, <2>1, <2>2, <2>5
  <1>7. CASE aligned = {} /\ LongestRun(free, need) = {}
    BY <1>1, <1>4, <1>7, LongestRunIs DEF free, used
  <1> QED BY <1>5, <1>6, <1>7

-----------------------------------------------------------------------------
(* The tree.                                                               *)

LEMMA TreeContains == CapacityAssumption /\ TypeOK => TreeIsContainment
  <1> SUFFICES ASSUME CapacityAssumption, TypeOK,
                      \A s, t \in Existing(subnets) : s # t => subnets[s] # subnets[t],
                      NEW s \in Existing(subnets)
               PROVE  /\ Cardinality(Parents(subnets, s)) <= 1
                      /\ \A t \in Existing(subnets) :
                           subnets[s] \in Carved(subnets, t) <=>
                             \E p \in Parents(subnets, s) :
                               p = t \/ subnets[p] \in Carved(subnets, t)
    BY DEF TreeIsContainment
  <1> DEFINE E == Existing(subnets)
             net(t) == subnets[t]
             in(u, t) == net(u).bits < net(t).bits
                         /\ AddressesOf(net(u)) \subseteq AddressesOf(net(t))
             around == {t \in E : t # s /\ in(s, t)}
  <1>1. \A t \in E : /\ net(t) \in Networks /\ net(t).bits \in Nat
                     /\ AddressesOf(net(t)) # {}
    <2>1. \A t \in E : net(t) \in Networks
      BY DEF TypeOK, Existing
    <2> HIDE DEF net, E
    <2> QED BY <2>1, NetworkIs, NetworkFits
  <1>2. Parents(subnets, s) = {t \in around : \A u \in around : net(t).bits <= net(u).bits}
    BY DEF Parents
  <1>3. ASSUME NEW u \in E, NEW t \in E PROVE net(u) \in Carved(subnets, t) <=> in(u, t)
    <2>1. net(u) \in Carved(subnets, t) <=>
            \E v \in E : v # t /\ in(v, t) /\ net(v) = net(u)
      BY DEF Carved
    <2>2. in(u, t) => u # t
      BY <1>1
    <2>3. \A v \in E : net(v) = net(u) => v = u
      OBVIOUS
    <2> HIDE DEF in, net, E
    <2> QED BY <2>1, <2>2, <2>3
  <1>4. ASSUME NEW t \in around, NEW u \in around, net(t).bits <= net(u).bits
        PROVE  t = u \/ in(t, u)
    <2>1. t \in E /\ u \in E /\ in(s, t) /\ in(s, u)
      OBVIOUS
    <2>2. AddressesOf(net(t)) \cap AddressesOf(net(u)) # {}
      <3>1. AddressesOf(net(s)) # {}
        BY <1>1
      <3> QED BY <2>1, <3>1
    <2>3. /\ AddressesOf(net(t)) \subseteq AddressesOf(net(u))
          /\ net(t).bits = net(u).bits => net(t) = net(u)
      <3> HIDE DEF net, E, around
      <3> QED BY <1>1, <1>4, <2>1, <2>2, NetworksNest
    <2>4. net(t) = net(u) => t = u
      BY <2>1
    <2>5. net(t).bits \in Nat /\ net(u).bits \in Nat
      BY <1>1, <2>1
    <2> HIDE DEF net, E, around
    <2> QED BY <1>4, <2>3, <2>4, <2>5
  <1>5. around # {} => \E t \in around : \A u \in around : net(t).bits <= net(u).bits
    <2> SUFFICES ASSUME around # {}
                 PROVE  \E t \in around : \A u \in around : net(t).bits <= net(u).bits
      OBVIOUS
    <2> DEFINE B == {net(t).bits : t \in around}
    <2>1. B \subseteq Nat
      BY <1>1
    <2>2. B # {}
      OBVIOUS
    <2>3. \A t \in around : net(t).bits \in B
      OBVIOUS
    <2>4. \A x \in B : \E t \in around : x = net(t).bits
      OBVIOUS
    <2> HIDE DEF B, around, net, E
    <2>5. PICK x \in B : \A y \in B : x <= y
      BY <2>1, <2>2, LeastExists
    <2> QED BY <2>3, <2>4, <2>5
  <1>6. \A t, u, v \in E : in(t, u) /\ in(u, v) => in(t, v)
    <2>1. \A t \in E : net(t).bits \in Nat
      BY <1>1
    <2> HIDE DEF net, E
    <2> QED BY <2>1
  <1>7. around \subseteq E /\ (\A t \in around : in(s, t)) /\ (\A t \in E : in(s, t) => t \in around)
    <2>1. \A t \in E : in(s, t) => t # s
      BY <1>1
    <2> QED BY <2>1
  <1>8. s \in E /\ \A t \in E : net(t).bits \in Nat
    BY <1>1
  <1>9. \A p \in Parents(subnets, s) : net(p) = subnets[p]
    OBVIOUS
  <1> HIDE DEF E, net, around
  <1>10. \A t, u \in Parents(subnets, s) : t = u
    <2> SUFFICES ASSUME NEW t \in Parents(subnets, s), NEW u \in Parents(subnets, s),
                        t # u
                 PROVE  FALSE
      OBVIOUS
    <2>1. /\ t \in around /\ u \in around
          /\ net(t).bits <= net(u).bits /\ net(u).bits <= net(t).bits
      BY <1>2
    <2>2. in(t, u) /\ net(t).bits \in Nat /\ net(u).bits \in Nat
      BY <1>4, <1>7, <1>8, <2>1
    <2> QED BY <2>1, <2>2
  <1>11. Cardinality(Parents(subnets, s)) <= 1
    <2>1. CASE Parents(subnets, s) = {}
      BY <2>1, FS_EmptySet
    <2>2. CASE \E p : p \in Parents(subnets, s)
      <3>1. PICK p : p \in Parents(subnets, s)
        BY <2>2
      <3>2. Parents(subnets, s) = {p}
        BY <1>10, <3>1
      <3>3. Cardinality({p}) = 1
        BY FS_Singleton
      <3> QED BY <3>2, <3>3
    <2> QED BY <2>1, <2>2
  <1>12. ASSUME NEW t \in E
         PROVE  in(s, t) <=> \E p \in Parents(subnets, s) : p = t \/ in(p, t)
    <2>1. ASSUME in(s, t) PROVE \E p \in Parents(subnets, s) : p = t \/ in(p, t)
      <3>1. t \in around
        BY <1>7, <2>1
      <3>2. PICK p \in around : \A u \in around : net(p).bits <= net(u).bits
        BY <1>5, <3>1
      <3>3. p \in Parents(subnets, s)
        BY <1>2, <3>2
      <3>4. p = t \/ in(p, t)
        BY <1>4, <3>1, <3>2
      <3> HIDE DEF in
      <3> QED BY <3>3, <3>4
    <2>2. ASSUME NEW p \in Parents(subnets, s), p = t \/ in(p, t) PROVE in(s, t)
      <3>1. p \in E /\ in(s, p)
        BY <1>2, <1>7
      <3> HIDE DEF in
      <3> QED BY <1>6, <1>8, <2>2, <3>1
    <2> HIDE DEF in
    <2> QED BY <2>1, <2>2
  <1>13. \A p \in Parents(subnets, s) : p \in E
    BY <1>2, <1>7
  <1> HIDE DEF in
  <1>14. ASSUME NEW t \in E
         PROVE  net(s) \in Carved(subnets, t) <=>
                  \E p \in Parents(subnets, s) : p = t \/ net(p) \in Carved(subnets, t)
    BY <1>3, <1>8, <1>12, <1>13
  <1> QED BY <1>11, <1>14 DEF net, E

-----------------------------------------------------------------------------
(* The inductive invariant.                                                *)

\* A search knows the subnets it goes through and a size that some block has; a
\* reservation knows its range.
IsSearch(r) ==
  /\ r.view \in [SubnetIds -> Networks \cup {NULL}] /\ r.todo \subseteq Existing(r.view)
  /\ r.need \in Nat \ {0} /\ LargeEnough(r.need) # {} /\ r.most \in Nat \ {0}
IsKnown(r) ==
  /\ r.step = "search" => IsSearch(r)
  /\ r.step \in {"asked", "fits", "write"} => r.want \in Span
RequestsHold == \A q \in Requests : IsKnown(requests[q])

\* A row with an owner was written by a reservation, and ticks leave it manual.
OwnersHold ==
  \A k \in Keys : (rows[k] # NULL /\ rows[k].owner # NULL) => rows[k].source = "manual"

IInv == TypeOK /\ RequestsHold /\ OwnersHold /\ OnlyRacesOverbook

\* What the tables hold, whoever asks.
TablesTyped ==
  /\ subnets \in [SubnetIds -> Networks \cup {NULL}] /\ retired \subseteq SubnetIds
  /\ rows \in [Keys -> Row \cup {NULL}] /\ edits \in 0..MaxEdits

LEMMA TablesOfInv == IInv => TablesTyped
  BY DEF IInv, TypeOK, TablesTyped

LEMMA SpanFits ==
  ASSUME CapacityAssumption, NEW w \in Span
  PROVE  KeysOf(w) \subseteq Keys
  <1>0. Size[Width] \in Nat
    BY SizeGrows DEF CapacityAssumption
  <1>1. w.subnet \in SubnetIds /\ w.from \in Addresses /\ w.to \in Addresses
    BY DEF Span
  <1>2. \A a \in w.from..w.to : a \in Addresses
    BY <1>0, <1>1 DEF Addresses
  <1> QED BY <1>1, <1>2 DEF KeysOf, Keys

LEMMA RowsAre ==
  ASSUME CapacityAssumption
  PROVE  /\ \A q \in Requests : /\ ReservedRow(q) \in Row /\ ReservedRow(q) # NULL
                                /\ ReservedRow(q).owner = q /\ q # NULL
                                /\ ReservedRow(q).source = "manual"
                                /\ ReservedRow(q).status = "reserved"
         /\ \A st \in {"free", "used", "static", "reserved"}, so \in {"manual", "discovered"} :
              /\ [status |-> st, source |-> so, owner |-> NULL] \in Row
              /\ [status |-> st, source |-> so, owner |-> NULL].owner = NULL
         /\ \A r \in Row : /\ r # NULL /\ r.source \in {"manual", "discovered"}
              /\ \A st \in {"free", "used", "static", "reserved"} :
                   /\ [r EXCEPT !.status = st] \in Row /\ [r EXCEPT !.status = st].status = st
                   /\ [r EXCEPT !.status = st].owner = r.owner
                   /\ [r EXCEPT !.status = st].source = r.source
  <1>1. NULL \notin Row /\ NULL \notin Requests
    BY DEF CapacityAssumption
  <1>2. \A q \in Requests : ReservedRow(q) \in Row
    BY DEF ReservedRow, Row
  <1>3. \A q \in Requests : ReservedRow(q).owner = q /\ ReservedRow(q).source = "manual"
                            /\ ReservedRow(q).status = "reserved"
    BY DEF ReservedRow
  <1>4. \A st \in {"free", "used", "static", "reserved"}, so \in {"manual", "discovered"} :
          /\ [status |-> st, source |-> so, owner |-> NULL] \in Row
          /\ [status |-> st, source |-> so, owner |-> NULL].owner = NULL
    BY DEF Row
  <1>5. ASSUME NEW r \in Row, NEW st \in {"free", "used", "static", "reserved"}
        PROVE  /\ [r EXCEPT !.status = st] \in Row /\ [r EXCEPT !.status = st].status = st
               /\ [r EXCEPT !.status = st].owner = r.owner
               /\ [r EXCEPT !.status = st].source = r.source
    BY DEF Row
  <1>6. \A r \in Row : r # NULL /\ r.source \in {"manual", "discovered"}
    BY <1>1 DEF Row
  <1>7. \A q \in Requests : ReservedRow(q) # NULL /\ q # NULL
    BY <1>1, <1>2
  <1> QED BY <1>2, <1>3, <1>4, <1>5, <1>6, <1>7

\* A step of one client: what it comes to know, and what it saw if it will write.
LEMMA ClientKeeps ==
  ASSUME CapacityAssumption, IInv, Watched, TablesTyped', OwnersHold', NEW q \in Requests,
         NEW r \in Request, requests' = [requests EXCEPT ![q] = r], IsKnown(r),
         r.step = "write" =>
           ~At(q, "write") /\ \A k \in KeysOf(r.want) : ~IsClaimed(rows'[k])
  PROVE  IInv'
  <1>1. /\ requests' \in [Requests -> Request]
        /\ \A p \in Requests : requests'[p] = IF p = q THEN r ELSE requests[p]
    BY DEF IInv, TypeOK
  <1>2. late' \in [Requests -> SUBSET Keys]
    BY DEF IInv, TypeOK, Watched
  <1>3. TypeOK'
    BY <1>1, <1>2 DEF TypeOK, TablesTyped
  <1>4. RequestsHold'
    BY <1>1 DEF IInv, RequestsHold
  <1>5. OnlyRacesOverbook'
    <2> SUFFICES ASSUME NEW p \in Requests, requests'[p].step = "write",
                        NEW k \in KeysOf(requests'[p].want), IsClaimed(rows'[k])
                 PROVE  k \in late'[p]
      BY DEF OnlyRacesOverbook, At
    <2>1. p # q /\ requests'[p] = requests[p]
      BY <1>1
    <2>2. k \in Keys
      <3>1. requests[p].want \in Span
        BY <2>1 DEF IInv, RequestsHold, IsKnown
      <3> QED BY <2>1, <3>1, SpanFits
    <2>3. late'[p] = late[p] \cup {j \in Keys : IsClaimed(rows'[j]) /\ rows'[j] # rows[j]}
      BY <2>1 DEF Watched, At
    <2>4. IsClaimed(rows[k]) => k \in late[p]
      BY <2>1 DEF IInv, OnlyRacesOverbook, At
    <2> QED BY <2>2, <2>3, <2>4
  <1> QED BY <1>3, <1>4, <1>5 DEF IInv

\* A step of somebody else.
LEMMA OthersKeep ==
  ASSUME CapacityAssumption, IInv, Watched, TablesTyped', OwnersHold', UNCHANGED requests
  PROVE  IInv'
  <1>1. late' \in [Requests -> SUBSET Keys]
    BY DEF IInv, TypeOK, Watched
  <1>2. TypeOK'
    BY <1>1 DEF IInv, TypeOK, TablesTyped
  <1>3. RequestsHold'
    BY DEF IInv, RequestsHold
  <1>4. OnlyRacesOverbook'
    <2> SUFFICES ASSUME NEW p \in Requests, requests[p].step = "write",
                        NEW k \in KeysOf(requests[p].want), IsClaimed(rows'[k])
                 PROVE  k \in late'[p]
      BY DEF OnlyRacesOverbook, At
    <2>1. k \in Keys
      <3>1. requests[p].want \in Span
        BY DEF IInv, RequestsHold, IsKnown
      <3> QED BY <3>1, SpanFits
    <2>2. late'[p] = late[p] \cup {j \in Keys : IsClaimed(rows'[j]) /\ rows'[j] # rows[j]}
      BY DEF Watched, At
    <2>3. IsClaimed(rows[k]) => k \in late[p]
      BY DEF IInv, OnlyRacesOverbook, At
    <2> QED BY <2>1, <2>2, <2>3
  <1> QED BY <1>2, <1>3, <1>4 DEF IInv

LEMMA IdleIs ==
  ASSUME CapacityAssumption
  PROVE  /\ Idle \in Request /\ IsKnown(Idle) /\ Idle.step = "idle"
         /\ \A w \in Span : LET r == Wanting("asked", w)
                            IN r \in Request /\ IsKnown(r) /\ r.step = "asked"
  <1>1. Idle \in Request /\ Idle.step = "idle"
    BY DEF Idle, Request, Steps
  <1>2. ASSUME NEW w \in Span
        PROVE  /\ Wanting("asked", w) \in Request /\ Wanting("asked", w).step = "asked"
               /\ Wanting("asked", w).want = w
    BY DEF Idle, Request, Steps, Wanting
  <1> QED BY <1>1, <1>2 DEF IsKnown

LEMMA RequestIs ==
  ASSUME IInv, NEW q \in Requests
  PROVE  requests[q] \in Request /\ IsKnown(requests[q])
  BY DEF IInv, TypeOK, RequestsHold

LEMMA EditsCounted ==
  ASSUME CapacityAssumption, IInv, Counted
  PROVE  edits' \in 0..MaxEdits /\ edits' # edits
  BY DEF CapacityAssumption, IInv, TypeOK, Counted

LEMMA TablesSame ==
  ASSUME CapacityAssumption, IInv, UNCHANGED <<subnets, retired, rows>>,
         edits' = edits \/ Counted
  PROVE  TablesTyped' /\ OwnersHold'
  <1>1. edits' \in 0..MaxEdits
    BY EditsCounted DEF IInv, TypeOK
  <1> QED BY <1>1 DEF IInv, TypeOK, TablesTyped, OwnersHold

-----------------------------------------------------------------------------
(* Every step keeps the invariant.                                         *)

LEMMA SearchSubnetsKeeps ==
  ASSUME CapacityAssumption, IInv, Watched, NEW q \in Requests, NEW h \in HostInputs,
         NEW S, NEW most \in Nat \ {0}, SearchSubnets(q, h, S, most)
  PROVE  IInv'
  <1> DEFINE r == [Idle EXCEPT !.step = "search", !.view = subnets, !.todo = S,
                               !.need = Required(h), !.most = most]
  <1>1. /\ At(q, "idle") /\ LargeEnough(Required(h)) # {} /\ S \subseteq Existing(subnets)
        /\ requests' = [requests EXCEPT ![q] = r] /\ Counted
        /\ UNCHANGED <<subnets, retired, rows>>
    BY DEF SearchSubnets, Goto
  <1>2. subnets \in [SubnetIds -> Networks \cup {NULL}] /\ S \in SUBSET SubnetIds
    BY <1>1 DEF IInv, TypeOK, Existing
  <1>3. Required(h) \in Nat \ {0}
    BY RequiredIs
  <1>4. /\ r.step = "search" /\ r.view = subnets /\ r.need = Required(h)
        /\ r.most = most /\ r.todo = S
    BY IdleIs DEF Request
  <1>5. r \in Request
    BY <1>2, <1>3, IdleIs DEF Request, Steps
  <1> HIDE DEF r
  <1>6. r.step = "search" /\ IsSearch(r)
    BY <1>1, <1>2, <1>3, <1>4 DEF IsSearch
  <1>7. TablesTyped' /\ OwnersHold'
    BY <1>1, TablesSame
  <1> QED BY <1>1, <1>5, <1>6, <1>7, ClientKeeps DEF IsKnown

LEMMA SearchUsedKeeps ==
  ASSUME CapacityAssumption, IInv, Watched, NEW q \in Requests, NEW s \in SubnetIds,
         SearchUsed(q, s)
  PROVE  IInv'
  <1> DEFINE r == requests[q]
             found == FindCandidates(r.view, s, Used(rows, s), r.need, r.most)
             total == r.found + Cardinality(found)
             next(w) == [r EXCEPT !.found = total, !.todo = @ \ {s}, !.want = w]
  <1>1. /\ r.step = "search" /\ s \in r.todo /\ UNCHANGED <<subnets, retired, rows, edits>>
        /\ \E w \in {r.want} \cup {SpanOf(c) : c \in found} :
             requests' = [requests EXCEPT ![q] =
               IF r.todo # {s} /\ total < Total THEN next(w)
               ELSE IF w # NULL THEN Wanting("asked", w) ELSE Idle]
    BY DEF SearchUsed, At, Goto
  <1>2. r \in Request /\ IsSearch(r)
    BY <1>1, RequestIs DEF IsKnown
  <1>3. /\ r.want \in Span \cup {NULL} /\ r.found \in Nat /\ r.todo \subseteq SubnetIds
        /\ r.view \in [SubnetIds -> Networks \cup {NULL}] /\ s \in Existing(r.view)
        /\ r.need \in Nat \ {0} /\ LargeEnough(r.need) # {} /\ r.most \in Nat \ {0}
    BY <1>1, <1>2 DEF Request, IsSearch
  <1>4. Cardinality(found) \in Nat /\ \A c \in found : SpanOf(c) \in Span
    <2> HIDE DEF r
    <2> QED BY <1>3, CandidatesFinite
  <1> HIDE DEF r, found
  <1>5. total \in Nat
    BY <1>3, <1>4
  <1> HIDE DEF total
  <1> HIDE DEF next
  <1>6. PICK w \in {r.want} \cup {SpanOf(c) : c \in found} :
          requests' = [requests EXCEPT ![q] =
               IF r.todo # {s} /\ total < Total THEN next(w)
               ELSE IF w # NULL THEN Wanting("asked", w) ELSE Idle]
    BY <1>1
  <1>11. w \in Span \cup {NULL}
    BY <1>3, <1>4
  <1>7. TablesTyped' /\ OwnersHold'
    BY <1>1, TablesSame
  <1>8. CASE r.todo # {s} /\ total < Total
    <2>1. requests' = [requests EXCEPT ![q] = next(w)]
      BY <1>6, <1>8
    <2>2. next(w) \in Request
      BY <1>2, <1>5, <1>11 DEF Request, next
    <2>3. /\ next(w).step = "search" /\ next(w).view = r.view /\ next(w).need = r.need
          /\ next(w).most = r.most /\ next(w).todo = r.todo \ {s}
      BY <1>1, <1>2 DEF Request, next
    <2>4. IsKnown(next(w))
      BY <1>2, <2>3 DEF IsSearch, IsKnown
    <2> QED BY <1>7, <2>1, <2>2, <2>3, <2>4, ClientKeeps
  <1>9. CASE ~(r.todo # {s} /\ total < Total) /\ w # NULL
    <2>1. requests' = [requests EXCEPT ![q] = Wanting("asked", w)] /\ w \in Span
      BY <1>6, <1>9, <1>11
    <2>2. Wanting("asked", w) \in Request /\ IsKnown(Wanting("asked", w))
          /\ Wanting("asked", w).step = "asked"
      BY <2>1, IdleIs
    <2> QED BY <1>7, <2>1, <2>2, ClientKeeps
  <1>10. CASE ~(r.todo # {s} /\ total < Total) /\ w = NULL
    <2>1. requests' = [requests EXCEPT ![q] = Idle]
      BY <1>6, <1>10
    <2> QED BY <1>7, <2>1, IdleIs, ClientKeeps
  <1> QED BY <1>8, <1>9, <1>10

LEMMA AskKeeps ==
  ASSUME CapacityAssumption, IInv, Watched, NEW q \in Requests, NEW range \in RangeInputs,
         Ask(q, range)
  PROVE  IInv'
  <1>1. /\ requests' = [requests EXCEPT ![q] = Wanting("asked", range)] /\ Counted
        /\ UNCHANGED <<subnets, retired, rows>>
    BY DEF Ask, Goto
  <1>2. TablesTyped' /\ OwnersHold'
    BY <1>1, TablesSame
  <1>3. range \in Span
    BY DEF CapacityAssumption
  <1>4. Wanting("asked", range) \in Request /\ IsKnown(Wanting("asked", range))
        /\ Wanting("asked", range).step = "asked"
    BY <1>3, IdleIs
  <1> QED BY <1>1, <1>2, <1>4, ClientKeeps

\* A reservation that goes on to its next read or write, or gives up.
LEMMA JudgeKeeps ==
  ASSUME CapacityAssumption, IInv, Watched, NEW q \in Requests,
         ReserveSubnets(q) \/ ReserveUsed(q) \/ ReserveFails(q)
  PROVE  IInv'
  <1> DEFINE r == requests[q]
             w == r.want
             on(step) == [r EXCEPT !.step = step]
  <1>1. /\ r.step \in {"asked", "fits", "write"}
        /\ UNCHANGED <<subnets, retired, rows, edits>>
        /\ \/ requests' = [requests EXCEPT ![q] = Idle]
           \/ requests' = [requests EXCEPT ![q] = on("fits")]
           \/ /\ requests' = [requests EXCEPT ![q] = on("write")] /\ r.step = "fits"
              /\ (w.from..w.to) \cap Used(rows, w.subnet) = {}
    BY DEF ReserveSubnets, ReserveUsed, ReserveFails, At, Goto
  <1>2. TablesTyped' /\ OwnersHold'
    BY <1>1, TablesSame
  <1>3. r \in Request /\ w \in Span
    BY <1>1, RequestIs DEF IsKnown
  <1>4. CASE requests' = [requests EXCEPT ![q] = Idle]
    BY <1>2, <1>4, IdleIs, ClientKeeps
  <1>5. ASSUME NEW step \in {"fits", "write"}
        PROVE  /\ on(step) \in Request /\ on(step).step = step /\ on(step).want = w
               /\ IsKnown(on(step))
    <2>1. on(step) \in Request /\ on(step).step = step /\ on(step).want = w
      BY <1>3 DEF Request, Steps
    <2> QED BY <1>3, <2>1 DEF IsKnown
  <1> HIDE DEF on
  <1>6. CASE requests' = [requests EXCEPT ![q] = on("fits")]
    BY <1>2, <1>5, <1>6, ClientKeeps
  <1>7. CASE /\ requests' = [requests EXCEPT ![q] = on("write")] /\ r.step = "fits"
             /\ (w.from..w.to) \cap Used(rows, w.subnet) = {}
    <2>1. ASSUME NEW k \in KeysOf(w) PROVE ~IsClaimed(rows'[k])
      <3>1. k \in Keys /\ k[1] = w.subnet /\ k[2] \in w.from..w.to /\ k = <<w.subnet, k[2]>>
        BY <1>3, SpanFits DEF KeysOf
      <3>2. k[2] \in Addresses /\ k[2] \notin Used(rows, w.subnet)
        BY <1>7, <3>1 DEF Keys
      <3> QED BY <1>1, <3>1, <3>2 DEF Used
    <2>2. ~At(q, "write")
      BY <1>7 DEF At
    <2>3. on("write") \in Request /\ on("write").want = w /\ IsKnown(on("write"))
      BY <1>5
    <2> HIDE DEF w
    <2> QED BY <1>2, <1>7, <2>1, <2>2, <2>3, ClientKeeps
  <1> QED BY <1>1, <1>4, <1>6, <1>7

LEMMA ReserveWriteKeeps ==
  ASSUME CapacityAssumption, IInv, Watched, NEW q \in Requests, ReserveWrite(q)
  PROVE  IInv'
  <1> DEFINE K == KeysOf(requests[q].want)
  <1>1. /\ rows' = [k \in Keys |-> IF k \in K THEN ReservedRow(q) ELSE rows[k]]
        /\ requests' = [requests EXCEPT ![q] = Idle]
        /\ UNCHANGED <<subnets, retired, edits>>
    BY DEF ReserveWrite, Goto
  <1> HIDE DEF K
  <1>2. ReservedRow(q) \in Row /\ ReservedRow(q).source = "manual"
    BY RowsAre
  <1>3. TablesTyped' /\ OwnersHold'
    BY <1>1, <1>2, TablesOfInv DEF TablesTyped, IInv, OwnersHold
  <1> QED BY <1>1, <1>3, IdleIs, ClientKeeps

LEMMA UsersKeep ==
  ASSUME CapacityAssumption, IInv, Watched, Users
  PROVE  IInv'
  <1>0. TablesTyped /\ OwnersHold
    BY TablesOfInv DEF IInv
  <1>1. Edit
    BY DEF Users, DeleteSubnet, SetSubnet, DeleteIp, EditIp
  <1>2. UNCHANGED requests /\ edits' \in 0..MaxEdits
    BY <1>1, EditsCounted DEF Edit
  <1>3. ASSUME NEW s \in SubnetIds, DeleteSubnet(s) PROVE TablesTyped' /\ OwnersHold'
    BY <1>0, <1>2, <1>3 DEF DeleteSubnet, TablesTyped, OwnersHold
  <1>4. ASSUME NEW s \in SubnetIds, NEW n \in NetworkInputs, SetSubnet(s, n)
        PROVE  TablesTyped' /\ OwnersHold'
    BY <1>0, <1>2, <1>4 DEF SetSubnet, TablesTyped, OwnersHold, CapacityAssumption
  <1>5. ASSUME NEW k \in SubnetIds \X Sighted, DeleteIp(k) PROVE TablesTyped' /\ OwnersHold'
    BY <1>0, <1>2, <1>5 DEF DeleteIp, TablesTyped, OwnersHold
  <1>6. ASSUME NEW k \in SubnetIds \X Sighted, NEW st \in {"free", "static"}, EditIp(k, st)
        PROVE  TablesTyped' /\ OwnersHold'
    <2> DEFINE row == [status |-> st, source |-> "manual", owner |-> NULL]
    <2>1. rows' = [rows EXCEPT ![k] = row] /\ UNCHANGED <<subnets, retired>>
      BY <1>6 DEF EditIp
    <2>2. row \in Row /\ row.owner = NULL
      BY RowsAre
    <2> HIDE DEF row
    <2> QED BY <1>0, <1>2, <2>1, <2>2 DEF TablesTyped, OwnersHold
  <1>7. TablesTyped' /\ OwnersHold'
    BY <1>3, <1>4, <1>5, <1>6 DEF Users
  <1> QED BY <1>2, <1>7, OthersKeep

LEMMA TickKeeps ==
  ASSUME CapacityAssumption, IInv, Watched, Tick
  PROVE  IInv'
  <1>0. TablesTyped /\ OwnersHold
    BY TablesOfInv DEF IInv
  <1>1. UNCHANGED <<subnets, retired, requests, edits>>
    BY DEF Tick, Discover, Release
  <1>2. ASSUME NEW s \in SubnetIds, NEW a \in Sighted, Discover(s, a)
        PROVE  TablesTyped' /\ OwnersHold'
    <2> DEFINE k == <<s, a>>
               seen == [status |-> "used", source |-> "discovered", owner |-> NULL]
               row == IF rows[k] # NULL /\ rows[k].source = "manual"
                        THEN [rows[k] EXCEPT !.status = "static"] ELSE seen
    <2>1. rows' = [rows EXCEPT ![k] = row]
      BY <1>2 DEF Discover
    <2>2. k \in Keys
      BY DEF Keys, CapacityAssumption
    <2>3. rows[k] \in Row \cup {NULL}
      BY <1>0, <2>2 DEF TablesTyped
    <2>4. seen \in Row /\ seen.owner = NULL
      BY RowsAre
    <2>5. (rows[k] # NULL /\ rows[k].source = "manual") =>
            /\ [rows[k] EXCEPT !.status = "static"] \in Row
            /\ [rows[k] EXCEPT !.status = "static"].source = "manual"
      BY <2>3, RowsAre
    <2> HIDE DEF k, seen
    <2>6. row \in Row /\ (row.owner # NULL => row.source = "manual")
      BY <2>4, <2>5
    <2> HIDE DEF row
    <2> QED BY <1>0, <1>1, <2>1, <2>2, <2>6 DEF TablesTyped, OwnersHold
  <1>3. ASSUME NEW s \in SubnetIds, NEW a \in Sighted, Release(<<s, a>>)
        PROVE  TablesTyped' /\ OwnersHold'
    <2> DEFINE k == <<s, a>>
               row == [rows[k] EXCEPT !.status = "free"]
    <2>1. /\ rows' = [rows EXCEPT ![k] = row]
          /\ rows[k] # NULL /\ rows[k].source = "discovered"
      BY <1>3 DEF Release
    <2>2. k \in Keys
      BY DEF Keys, CapacityAssumption
    <2>3. rows[k] \in Row
      BY <1>0, <2>1, <2>2 DEF TablesTyped
    <2>4. row \in Row /\ row.owner = rows[k].owner
      BY <2>3, RowsAre
    <2>5. rows[k].owner = NULL
      BY <1>0, <2>1, <2>2 DEF OwnersHold
    <2> HIDE DEF k, row
    <2> QED BY <1>0, <1>1, <2>1, <2>2, <2>4, <2>5 DEF TablesTyped, OwnersHold
  <1>4. ASSUME UNCHANGED rows PROVE TablesTyped' /\ OwnersHold'
    BY <1>1, <1>4, TablesSame
  <1>5. \/ \E s \in SubnetIds, a \in Sighted : Discover(s, a) \/ Release(<<s, a>>)
        \/ UNCHANGED rows
    BY DEF Tick
  <1>6. TablesTyped' /\ OwnersHold'
    BY <1>2, <1>3, <1>4, <1>5
  <1> QED BY <1>1, <1>6, OthersKeep

LEMMA InitInv == CapacityAssumption /\ Init => IInv
  <1> SUFFICES ASSUME CapacityAssumption, Init PROVE IInv
    OBVIOUS
  <1>1. \A q \in Requests : requests[q] = Idle
    BY DEF Init
  <1>2. requests \in [Requests -> Request]
    BY IdleIs DEF Init
  <1>3. TypeOK
    BY <1>2 DEF Init, TypeOK, CapacityAssumption
  <1>4. RequestsHold
    BY <1>1, IdleIs DEF RequestsHold
  <1>5. OwnersHold
    BY DEF Init, OwnersHold
  <1>6. OnlyRacesOverbook
    BY <1>1, IdleIs DEF OnlyRacesOverbook, At
  <1> QED BY <1>3, <1>4, <1>5, <1>6 DEF IInv

LEMMA NextInv ==
  ASSUME CapacityAssumption, IInv, [Next]_vars
  PROVE  IInv'
  <1>1. CASE Search /\ Watched
    <2>1. PerSubnet \in Nat \ {0} /\ 1 \in Nat \ {0}
      BY DEF CapacityAssumption
    <2> QED BY <1>1, <2>1, SearchSubnetsKeeps, SearchUsedKeeps DEF Search
  <1>2. CASE Reserve /\ Watched
    BY <1>2, AskKeeps, JudgeKeeps, ReserveWriteKeeps DEF Reserve
  <1>3. CASE Users /\ Watched
    BY <1>3, UsersKeep
  <1>4. CASE Tick /\ Watched
    BY <1>4, TickKeeps
  <1>5. CASE UNCHANGED vars
    BY <1>5 DEF vars, IInv, TypeOK, RequestsHold, OwnersHold, OnlyRacesOverbook, At
  <1> QED BY <1>1, <1>2, <1>3, <1>4, <1>5 DEF Next

-----------------------------------------------------------------------------
(* The theorems.                                                           *)

\* For any addresses, subnets, requests and bounds: what a search finds is room
\* enough, free and accepted, nothing that fits is missed, the tree of the subnets is
\* their containment, and a reservation takes an address in use only if that was
\* claimed after it looked.
THEOREM Invariant == Spec => []Inv
  <1>1. Init => IInv
    BY CapacityAssumption, InitInv
  <1>2. IInv /\ [Next]_vars => IInv'
    BY CapacityAssumption, NextInv
  <1>3. IInv => Inv
    BY CapacityAssumption, FoundFree, NoneMissed, FoundAccepted, TreeContains DEF IInv, Inv
  <1> QED BY <1>1, <1>2, <1>3, PTL DEF Spec

\* Only a user's edit ends a reservation: no tick and no other reservation frees an
\* address that is held.
THEOREM ReservationsHeld == Spec => ReservationsStand
  <1>1. Init => IInv
    BY CapacityAssumption, InitInv
  <1>2. IInv /\ [Next]_vars => IInv'
    BY CapacityAssumption, NextInv
  <1>3. ASSUME IInv, [Next]_vars
        PROVE  [\A k \in Keys : IsHeld(rows[k]) /\ ~IsHeld(rows'[k]) => edits' # edits]_vars
    <2> SUFFICES ASSUME Next, NEW k \in Keys, IsHeld(rows[k]), ~IsHeld(rows'[k])
                 PROVE  edits' # edits
      BY <1>3
    <2>1. /\ rows[k] \in Row /\ rows[k].owner # NULL /\ rows[k].source = "manual"
          /\ rows'[k] # rows[k]
      BY <1>3 DEF IInv, TypeOK, OwnersHold, IsHeld, IsClaimed
    <2>2. CASE Search
      BY <2>1, <2>2 DEF Search, SearchSubnets, SearchUsed
    <2>3. CASE Reserve
      <3>1. PICK q \in Requests : ReserveWrite(q)
        BY <2>1, <2>3 DEF Reserve, Ask, ReserveSubnets, ReserveUsed, ReserveFails
      <3>2. rows'[k] = ReservedRow(q)
        BY <2>1, <3>1 DEF ReserveWrite
      <3>3. IsHeld(ReservedRow(q))
        BY CapacityAssumption, RowsAre DEF IsHeld, IsClaimed
      <3> QED BY <3>2, <3>3
    <2>4. CASE Users
      <3>1. Counted
        BY <2>4 DEF Users, DeleteSubnet, SetSubnet, DeleteIp, EditIp, Edit
      <3> QED BY <1>3, <3>1, CapacityAssumption, EditsCounted
    <2>5. CASE Tick
      <3>1. ASSUME NEW s \in SubnetIds, NEW a \in Sighted, Discover(s, a)
            PROVE  FALSE
        <4>1. k = <<s, a>>
          BY <2>1, <3>1 DEF Discover, IInv, TypeOK
        <4>2. rows'[k] = [rows[k] EXCEPT !.status = "static"]
          BY <1>3, <2>1, <3>1, <4>1, CapacityAssumption, RowsAre DEF Discover, IInv, TypeOK
        <4>3. /\ rows'[k] \in Row /\ rows'[k] # NULL /\ rows'[k].status = "static"
              /\ rows'[k].owner # NULL
          <5>1. "static" \in {"free", "used", "static", "reserved"}
            OBVIOUS
          <5>2. /\ [rows[k] EXCEPT !.status = "static"] \in Row
                /\ [rows[k] EXCEPT !.status = "static"].status = "static"
                /\ [rows[k] EXCEPT !.status = "static"].owner = rows[k].owner
            BY <2>1, <5>1, CapacityAssumption, RowsAre
          <5>3. /\ rows'[k] \in Row /\ rows'[k].status = "static"
                /\ rows'[k].owner = rows[k].owner
            BY <4>2, <5>2
          <5> QED BY <2>1, <5>3, CapacityAssumption, RowsAre
        <4> QED BY <4>3 DEF IsHeld, IsClaimed
      <3>2. ASSUME NEW s \in SubnetIds, NEW a \in Sighted, Release(<<s, a>>)
            PROVE  FALSE
        <4>1. k = <<s, a>>
          BY <1>3, <2>1, <3>2 DEF Release, IInv, TypeOK
        <4> QED BY <2>1, <3>2, <4>1 DEF Release
      <3>3. ~UNCHANGED rows
        BY <2>1
      <3> QED BY <2>5, <3>1, <3>2, <3>3 DEF Tick
    <2> QED BY <2>2, <2>3, <2>4, <2>5 DEF Next
  <1> QED BY <1>1, <1>2, <1>3, PTL DEF Spec, ReservationsStand
=============================================================================
