----------------------------- MODULE MCCapacity -----------------------------
(* Instances of Capacity for TLC: addresses of three or four bits.         *)
EXTENDS Capacity, TLC

Net(first, bits) == [first |-> first, bits |-> bits]
Ask1(hosts, buffer) == [hosts |-> hosts, buffer |-> buffer]

\* Eight addresses, and the upper half carved out of them.
Nested == (1 :> Net(0, 3)) @@ (2 :> Net(4, 2)) @@ (3 :> NULL)
\* A second text of the whole, and a pair.
Added == {Net(0, 3), Net(6, 1)}
\* One host, and three: two and a quarter more.
Asks == {Ask1(1, 0), Ask1(2, 25)}
Ranges == {[subnet |-> 1, from |-> 2, to |-> 4], [subnet |-> 1, from |-> 2, to |-> 2]}
Everyone == Permutations(Requests)
=============================================================================
