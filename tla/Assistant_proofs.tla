-------------------------- MODULE Assistant_proofs --------------------------
(***************************************************************************)
(* Proofs about Assistant, for any people, settings, listings, page size   *)
(* and bound: a change has every gate behind it, an acknowledgement stays, *)
(* and a walk through a listing leaves out no more than slipped.           *)
(***************************************************************************)
EXTENDS Assistant, FiniteSetTheorems, SequenceTheorems, TLAPS

-----------------------------------------------------------------------------
(* The inductive invariant.                                                *)

\* A gate that is open now, or that the call has passed, was open in the call; and
\* a call that got past its level may do the same on the page.
GatesHold ==
  /\ held \in [Users -> SUBSET {"enabled", "trusted"}]
  /\ \A u \in Users : calls[u] # NULL =>
       /\ enabled => "enabled" \in held[u]
       /\ levels[calls[u].role] = "write" => "trusted" \in held[u]
       /\ calls[u].at # "enabled" => "enabled" \in held[u]
       /\ calls[u].at \in {"target", "write"} =>
            "trusted" \in held[u] /\ AppRule(calls[u].op, calls[u].role)

\* A change goes by what its SELECT returned.
TargetsHold ==
  \A u \in Users : calls[u] # NULL =>
    /\ calls[u].at \in {"level", "target", "write"} => calls[u].op \in Writes
    /\ calls[u].at = "page" => calls[u].op \notin Writes
    /\ (calls[u].at = "write" /\ calls[u].op = "toggleAlertRule") => calls[u].was \in BOOLEAN

IsReading(u) == calls[u] # NULL /\ calls[u].op \notin Writes

\* One page at a time, and only while the walk is under way.
ReadersHold ==
  \A u \in Users : IsReading(u) =>
    /\ calls[u].op = listing /\ walk = "on"
    /\ \A v \in Users : IsReading(v) => u = v

\* Rows that matched all along, are before the offset, and were not given.
PassedOver == {r \in steady \ got : \E i \in DOMAIN rows : i <= offset /\ rows[i] = r}

WalkHolds ==
  /\ steady \subseteq Range(rows)
  /\ walk = "before" => offset = 0 /\ got = {} /\ steady = {} /\ slips = 0
  /\ walk # "over" => Cardinality(PassedOver) <= slips

IInv == TypeOK /\ GatesHold /\ TargetsHold /\ ReadersHold /\ WalkHolds /\ WalkMissesNothing
-----------------------------------------------------------------------------
(* Lemmas about sequences of rows.                                         *)

LEMMA RemoveAtRows ==
  ASSUME NEW S, NEW s \in Seq(S), NEW p \in 1..Len(s)
  PROVE  /\ RemoveAt(s, p) \in Seq(S) /\ Len(RemoveAt(s, p)) = Len(s) - 1
         /\ \A i \in 1..(Len(s) - 1) :
              RemoveAt(s, p)[i] = IF i < p THEN s[i] ELSE s[i + 1]
<1>. DEFINE before == SubSeq(s, 1, p - 1)
            after == SubSeq(s, p + 1, Len(s))
<1>1. Len(s) \in Nat /\ p \in Nat /\ \A i \in 1..Len(s) : s[i] \in S
  BY LenProperties, ElementOfSeq
<1>2. /\ before \in Seq(S) /\ Len(before) = p - 1
      /\ \A i \in 1..(p - 1) : before[i] = s[i]
  <2>1. \A i \in 1..(p - 1) : s[i] \in S
    BY <1>1
  <2>2. /\ SubSeq(s, 1, p - 1) \in Seq(S)
        /\ Len(SubSeq(s, 1, p - 1)) = IF 1 <= p - 1 THEN (p - 1) - 1 + 1 ELSE 0
        /\ \A i \in 1..((p - 1) - 1 + 1) : SubSeq(s, 1, p - 1)[i] = s[1 + i - 1]
    BY <2>1, <1>1, SubSeqProperties
  <2>. QED
    BY <2>2, <1>1
<1>3. /\ after \in Seq(S) /\ Len(after) = Len(s) - p
      /\ \A i \in 1..(Len(s) - p) : after[i] = s[p + i]
  <2>1. \A i \in (p + 1)..Len(s) : s[i] \in S
    BY <1>1
  <2>2. /\ SubSeq(s, p + 1, Len(s)) \in Seq(S)
        /\ Len(SubSeq(s, p + 1, Len(s))) =
             IF p + 1 <= Len(s) THEN Len(s) - (p + 1) + 1 ELSE 0
        /\ \A i \in 1..(Len(s) - (p + 1) + 1) :
             SubSeq(s, p + 1, Len(s))[i] = s[(p + 1) + i - 1]
    BY <2>1, <1>1, SubSeqProperties
  <2>. QED
    BY <2>2, <1>1
<1>4. RemoveAt(s, p) = before \o after
  BY DEF RemoveAt
<1>. HIDE DEF before, after
<1>5. /\ before \o after \in Seq(S) /\ Len(before \o after) = Len(before) + Len(after)
      /\ \A i \in 1..(Len(before) + Len(after)) : (before \o after)[i] =
           IF i <= Len(before) THEN before[i] ELSE after[i - Len(before)]
  BY <1>2, <1>3, ConcatProperties
<1>6. ASSUME NEW i \in 1..(Len(s) - 1)
      PROVE  (before \o after)[i] = IF i < p THEN s[i] ELSE s[i + 1]
  <2>1. CASE i < p
    <3>1. i \in 1..(p - 1) /\ i <= Len(before) /\ i \in 1..(Len(before) + Len(after))
      BY <2>1, <1>1, <1>2, <1>3
    <3>. QED
      BY <3>1, <2>1, <1>2, <1>5
  <2>2. CASE ~(i < p)
    <3>1. /\ i - (p - 1) \in 1..(Len(s) - p) /\ ~(i <= Len(before))
          /\ i \in 1..(Len(before) + Len(after)) /\ p + (i - (p - 1)) = i + 1
      BY <2>2, <1>1, <1>2, <1>3
    <3>2. (before \o after)[i] = after[i - (p - 1)]
      BY <3>1, <1>2, <1>5
    <3>3. after[i - (p - 1)] = s[i + 1]
      BY <3>1, <1>3
    <3>. QED
      BY <3>2, <3>3, <2>2
  <2>. QED
    BY <2>1, <2>2
<1>. QED
  BY <1>1, <1>2, <1>3, <1>4, <1>5, <1>6

LEMMA MovedRows ==
  ASSUME NEW S, NEW s \in Seq(S), NEW p \in 1..Len(s)
  PROVE  LET t == <<s[p]>> \o RemoveAt(s, p)
         IN  /\ t \in Seq(S) /\ Len(t) = Len(s)
             /\ \A i \in 1..Len(s) :
                  t[i] = IF i = 1 THEN s[p] ELSE IF i <= p THEN s[i - 1] ELSE s[i]
<1>. DEFINE first == <<s[p]>>
            rest == RemoveAt(s, p)
<1>1. Len(s) \in Nat /\ p \in Nat /\ s[p] \in S
  BY LenProperties, ElementOfSeq
<1>2. first \in Seq(S) /\ Len(first) = 1 /\ first[1] = s[p]
  BY <1>1
<1>3. /\ rest \in Seq(S) /\ Len(rest) = Len(s) - 1
      /\ \A i \in 1..(Len(s) - 1) : rest[i] = IF i < p THEN s[i] ELSE s[i + 1]
  BY RemoveAtRows
<1>. HIDE DEF first, rest
<1>4. /\ first \o rest \in Seq(S) /\ Len(first \o rest) = Len(first) + Len(rest)
      /\ \A i \in 1..(Len(first) + Len(rest)) : (first \o rest)[i] =
           IF i <= Len(first) THEN first[i] ELSE rest[i - Len(first)]
  BY <1>2, <1>3, ConcatProperties
<1>5. ASSUME NEW i \in 1..Len(s)
      PROVE  (first \o rest)[i] =
               IF i = 1 THEN s[p] ELSE IF i <= p THEN s[i - 1] ELSE s[i]
  <2>1. (first \o rest)[i] = IF i = 1 THEN s[p] ELSE rest[i - 1]
    BY <1>1, <1>2, <1>3, <1>4
  <2>2. CASE i = 1
    BY <2>1, <2>2
  <2>3. CASE i # 1
    <3>1. i - 1 \in 1..(Len(s) - 1) /\ (i - 1) + 1 = i /\ (i - 1 < p <=> i <= p)
      BY <2>3, <1>1
    <3>2. rest[i - 1] = IF i - 1 < p THEN s[i - 1] ELSE s[(i - 1) + 1]
      BY <3>1, <1>3
    <3>. QED
      BY <3>1, <3>2, <2>1, <2>3
  <2>. QED
    BY <2>2, <2>3
<1>6. Len(first \o rest) = Len(s)
  BY <1>1, <1>2, <1>3, <1>4
<1>. QED
  BY <1>4, <1>5, <1>6 DEF first, rest

\* t is s with e put in at p.
IsInserted(t, s, p, e) ==
  /\ Len(t) = Len(s) + 1
  /\ \A i \in 1..(Len(s) + 1) :
       t[i] = IF i < p THEN s[i] ELSE IF i = p THEN e ELSE s[i - 1]

LEMMA InsertAtRows ==
  ASSUME NEW S, NEW s \in Seq(S), NEW e \in S, NEW p \in 1..(Len(s) + 1)
  PROVE  InsertAt(s, p, e) \in Seq(S) /\ IsInserted(InsertAt(s, p, e), s, p, e)
<1>. DEFINE before == SubSeq(s, 1, p - 1)
            middle == <<e>>
            after == SubSeq(s, p, Len(s))
            front == before \o middle
<1>1. Len(s) \in Nat /\ p \in Nat /\ \A i \in 1..Len(s) : s[i] \in S
  BY LenProperties, ElementOfSeq
<1>2. /\ before \in Seq(S) /\ Len(before) = p - 1
      /\ \A i \in 1..(p - 1) : before[i] = s[i]
  <2>1. \A i \in 1..(p - 1) : s[i] \in S
    BY <1>1
  <2>2. /\ SubSeq(s, 1, p - 1) \in Seq(S)
        /\ Len(SubSeq(s, 1, p - 1)) = IF 1 <= p - 1 THEN (p - 1) - 1 + 1 ELSE 0
        /\ \A i \in 1..((p - 1) - 1 + 1) : SubSeq(s, 1, p - 1)[i] = s[1 + i - 1]
    BY <2>1, <1>1, SubSeqProperties
  <2>. QED
    BY <2>2, <1>1
<1>3. middle \in Seq(S) /\ Len(middle) = 1 /\ middle[1] = e
  OBVIOUS
<1>4. /\ after \in Seq(S) /\ Len(after) = Len(s) + 1 - p
      /\ \A i \in 1..(Len(s) + 1 - p) : after[i] = s[p + i - 1]
  <2>1. \A i \in p..Len(s) : s[i] \in S
    BY <1>1
  <2>2. /\ SubSeq(s, p, Len(s)) \in Seq(S)
        /\ Len(SubSeq(s, p, Len(s))) = IF p <= Len(s) THEN Len(s) - p + 1 ELSE 0
        /\ \A i \in 1..(Len(s) - p + 1) : SubSeq(s, p, Len(s))[i] = s[p + i - 1]
    BY <2>1, <1>1, SubSeqProperties
  <2>. QED
    BY <2>2, <1>1
<1>5. InsertAt(s, p, e) = front \o after
  BY DEF InsertAt
<1>. HIDE DEF before, middle, after
<1>6. /\ front \in Seq(S) /\ Len(front) = Len(before) + Len(middle)
      /\ \A i \in 1..(Len(before) + Len(middle)) : front[i] =
           IF i <= Len(before) THEN before[i] ELSE middle[i - Len(before)]
  BY <1>2, <1>3, ConcatProperties
<1>. HIDE DEF front
<1>7. /\ front \o after \in Seq(S) /\ Len(front \o after) = Len(front) + Len(after)
      /\ \A i \in 1..(Len(front) + Len(after)) : (front \o after)[i] =
           IF i <= Len(front) THEN front[i] ELSE after[i - Len(front)]
  <2>1. front \in Seq(S) /\ after \in Seq(S)
    BY <1>4, <1>6
  <2>. QED
    BY <2>1, ConcatProperties
<1>8. ASSUME NEW i \in 1..(Len(s) + 1)
      PROVE  (front \o after)[i] =
               IF i < p THEN s[i] ELSE IF i = p THEN e ELSE s[i - 1]
  <2>1. Len(front) = p /\ i \in 1..(Len(front) + Len(after))
    BY <1>1, <1>2, <1>3, <1>4, <1>6
  <2>2. (front \o after)[i] = IF i <= p THEN front[i] ELSE after[i - p]
    BY <2>1, <1>7
  <2>3. CASE i < p
    <3>1. i \in 1..(p - 1) /\ i <= p /\ i \in 1..(Len(before) + Len(middle))
      BY <2>3, <1>1, <1>2, <1>3
    <3>2. front[i] = before[i] /\ before[i] = s[i]
      BY <3>1, <1>1, <1>2, <1>6
    <3>. QED
      BY <3>1, <3>2, <2>2, <2>3
  <2>4. CASE i = p
    <3>1. /\ i \in 1..(Len(before) + Len(middle)) /\ ~(i <= Len(before))
          /\ i - Len(before) = 1 /\ i <= p /\ ~(i < p)
      BY <2>4, <1>1, <1>2, <1>3
    <3>. QED
      BY <3>1, <2>2, <2>4, <1>3, <1>6
  <2>5. CASE i > p
    <3>1. i - p \in 1..(Len(s) + 1 - p) /\ p + (i - p) - 1 = i - 1 /\ ~(i <= p)
      BY <2>5, <1>1
    <3>2. after[i - p] = s[i - 1]
      BY <3>1, <1>4
    <3>. QED
      BY <3>1, <3>2, <2>2, <2>5, <1>1
  <2>6. i < p \/ i = p \/ i > p
    BY <1>1
  <2>. QED
    BY <2>3, <2>4, <2>5, <2>6
<1>. QED
  <2>1. Len(front \o after) = Len(s) + 1
    BY <1>1, <1>2, <1>3, <1>4, <1>6, <1>7
  <2>. QED
    BY <2>1, <1>5, <1>7, <1>8 DEF IsInserted

LEMMA RangeFinite ==
  ASSUME NEW S, NEW s \in Seq(S)
  PROVE  IsFiniteSet(Range(s))
<1>1. Len(s) \in Nat /\ DOMAIN s = 1..Len(s) /\ s \in [1..Len(s) -> S]
  BY LenProperties
<1>2. s \in Surjection(DOMAIN s, Range(s))
  BY <1>1 DEF Surjection, Range
<1>3. IsFiniteSet(1..Len(s))
  BY <1>1, FS_Interval
<1>. QED
  BY <1>1, <1>2, <1>3, FS_Surjection
-----------------------------------------------------------------------------
(* Lemmas about the walk.                                                  *)

Missed == (steady \cap Range(rows)) \ got

LEMMA RowsTyped ==
  ASSUME TypeOK
  PROVE  /\ Len(rows) \in Nat /\ DOMAIN rows = 1..Len(rows)
         /\ \A i \in 1..Len(rows) : rows[i] \in RowIds
  BY LenProperties, ElementOfSeq DEF TypeOK

LEMMA WalkFinite ==
  ASSUME TypeOK
  PROVE  /\ IsFiniteSet(PassedOver) /\ IsFiniteSet(Missed)
         /\ Cardinality(PassedOver) \in Nat /\ Cardinality(Missed) \in Nat
         /\ PassedOver \subseteq Missed
<1>1. IsFiniteSet(Range(rows))
  BY RangeFinite DEF TypeOK
<1>2. PassedOver \subseteq Missed /\ Missed \subseteq Range(rows)
  BY DEF PassedOver, Missed, Range
<1>3. IsFiniteSet(PassedOver) /\ IsFiniteSet(Missed)
  BY <1>1, <1>2, FS_Subset
<1>. QED
  BY <1>2, <1>3, FS_CardinalityType

\* What a change of the rows may do to the walk: at most one more row is passed over,
\* and then it is counted.
LEMMA RowsWalk ==
  ASSUME TypeOK, WalkHolds, WalkMissesNothing,
         UNCHANGED <<listing, offset, got, walk>>,
         steady' \subseteq steady, steady' \subseteq Range(rows'),
         slips' = slips \/ slips' = slips + 1, walk = "before" => slips' = slips,
         walk = "on" =>
           \/ PassedOver' \subseteq PassedOver
           \/ slips' = slips + 1 /\ \E x : PassedOver' \subseteq PassedOver \cup {x}
  PROVE  WalkHolds' /\ WalkMissesNothing'
<1>1. /\ IsFiniteSet(PassedOver) /\ IsFiniteSet(Missed)
      /\ Cardinality(PassedOver) \in Nat /\ Cardinality(Missed) \in Nat
  BY WalkFinite
<1>2. slips \in Nat /\ slips' \in Nat /\ slips <= slips'
  <2>1. slips \in Nat
    BY DEF TypeOK
  <2>. QED
    BY <2>1
<1>3. CASE walk = "before"
  <2>1. PassedOver' = {} /\ Cardinality({}) = 0
    BY <1>3, FS_EmptySet DEF PassedOver, WalkHolds
  <2>. QED
    BY <2>1, <1>2, <1>3 DEF WalkHolds, WalkMissesNothing
<1>4. CASE walk = "on"
  <2>1. Cardinality(PassedOver) <= slips
    BY <1>4 DEF WalkHolds
  <2>2. CASE PassedOver' \subseteq PassedOver
    <3>1. IsFiniteSet(PassedOver') /\ Cardinality(PassedOver') <= Cardinality(PassedOver)
      BY <2>2, <1>1, FS_Subset
    <3>2. Cardinality(PassedOver') \in Nat
      BY <3>1, FS_CardinalityType
    <3>3. Cardinality(PassedOver') <= slips'
      BY <3>1, <3>2, <2>1, <1>1, <1>2
    <3>. QED
      BY <3>3, <1>4 DEF WalkHolds, WalkMissesNothing
  <2>3. ASSUME slips' = slips + 1, NEW x, PassedOver' \subseteq PassedOver \cup {x}
        PROVE  WalkHolds' /\ WalkMissesNothing'
    <3>1. /\ IsFiniteSet(PassedOver \cup {x})
          /\ Cardinality(PassedOver \cup {x}) <= Cardinality(PassedOver) + 1
      <4>1. /\ IsFiniteSet(PassedOver \cup {x})
            /\ \/ Cardinality(PassedOver \cup {x}) = Cardinality(PassedOver)
               \/ Cardinality(PassedOver \cup {x}) = Cardinality(PassedOver) + 1
        BY <1>1, FS_AddElement
      <4>. QED
        BY <4>1, <1>1
    <3>2. /\ IsFiniteSet(PassedOver')
          /\ Cardinality(PassedOver') <= Cardinality(PassedOver \cup {x})
      BY <2>3, <3>1, FS_Subset
    <3>3. Cardinality(PassedOver') \in Nat /\ Cardinality(PassedOver \cup {x}) \in Nat
      BY <3>1, <3>2, FS_CardinalityType
    <3>4. Cardinality(PassedOver') <= slips'
      BY <2>3, <3>1, <3>2, <3>3, <2>1, <1>1, <1>2
    <3>. QED
      BY <3>4, <1>4 DEF WalkHolds, WalkMissesNothing
  <2>. QED
    BY <2>2, <2>3, <1>4
<1>5. CASE walk = "over"
  <2>1. Missed' \subseteq Missed
    BY DEF Missed, WalkHolds
  <2>2. IsFiniteSet(Missed') /\ Cardinality(Missed') <= Cardinality(Missed)
    BY <2>1, <1>1, FS_Subset
  <2>3. Cardinality(Missed') \in Nat
    BY <2>2, FS_CardinalityType
  <2>4. ListingOf[listing].paged => Cardinality(Missed) <= slips
    BY <1>5 DEF WalkMissesNothing, Missed
  <2>5. ListingOf[listing].paged => Cardinality(Missed') <= slips'
    BY <2>2, <2>3, <2>4, <1>1, <1>2
  <2>6. WalkMissesNothing'
    BY <2>5 DEF WalkMissesNothing, Missed
  <2>. QED
    BY <2>6, <1>5 DEF WalkHolds
<1>. QED
  BY <1>3, <1>4, <1>5 DEF TypeOK
\* What RowEnters, RowLeaves and RowMoves leave to be shown of the rest.
RowsHold == /\ rows' \in Seq(RowIds) /\ IsInjective(rows')
            /\ slips' \in Nat /\ WalkHolds' /\ WalkMissesNothing'

LEMMA Rising ==
  ASSUME TypeOK, slips' = slips \/ slips' = slips + 1
  PROVE  slips' \in Nat
<1>1. slips \in Nat
  BY DEF TypeOK
<1>. QED
  BY <1>1

LEMMA EntersHold ==
  ASSUME TypeOK, WalkHolds, WalkMissesNothing,
         NEW r \in RowIds, NEW p \in 1..(Len(rows) + 1), RowEnters(r, p)
  PROVE  RowsHold
<1>. DEFINE t == InsertAt(rows, p, r)
            Old(i) == IF i < p THEN i ELSE i - 1
<1>1. /\ Len(rows) \in Nat /\ DOMAIN rows = 1..Len(rows) /\ rows \in Seq(RowIds)
      /\ offset \in Nat /\ p \in Nat
  <2>1. Len(rows) \in Nat /\ DOMAIN rows = 1..Len(rows)
    BY RowsTyped
  <2>2. rows \in Seq(RowIds) /\ offset \in Nat
    BY DEF TypeOK
  <2>. QED
    BY <2>1, <2>2
<1>2. /\ t \in Seq(RowIds) /\ Len(t) = Len(rows) + 1
      /\ \A i \in 1..(Len(rows) + 1) :
           t[i] = IF i < p THEN rows[i] ELSE IF i = p THEN r ELSE rows[i - 1]
  <2>1. rows \in Seq(RowIds)
    BY <1>1
  <2>2. t \in Seq(RowIds) /\ IsInserted(t, rows, p, r)
    BY <2>1, InsertAtRows
  <2>. HIDE DEF t
  <2>. QED
    BY <2>2 DEF IsInserted
<1>3. rows' = t /\ r \notin Range(rows) /\ r \notin steady
  BY DEF RowEnters
<1>. HIDE DEF t
<1>4. DOMAIN t = 1..(Len(rows) + 1)
  BY <1>2, LenProperties
<1>5. ASSUME NEW i \in DOMAIN t, i # p
      PROVE  Old(i) \in DOMAIN rows /\ Old(i) <= i /\ t[i] = rows[Old(i)]
  <2>1. i \in 1..(Len(rows) + 1)
    BY <1>4
  <2>2. CASE i < p
    BY <2>1, <2>2, <1>1, <1>2
  <2>3. CASE ~(i < p)
    <3>1. i - 1 \in 1..Len(rows) /\ i - 1 <= i
      BY <2>1, <2>3, <1>1, <1>5
    <3>. QED
      BY <3>1, <2>1, <2>3, <1>1, <1>2, <1>5
  <2>. QED
    BY <2>2, <2>3
<1>6. t[p] = r /\ p \in DOMAIN t
  BY <1>1, <1>2, <1>4
<1>7. \A i \in DOMAIN rows : rows[i] # r /\ rows[i] \in Range(t)
  <2>. SUFFICES ASSUME NEW i \in DOMAIN rows PROVE rows[i] # r /\ rows[i] \in Range(t)
    OBVIOUS
  <2>1. rows[i] # r
    BY <1>3 DEF Range
  <2>2. CASE i < p
    <3>1. i \in 1..(Len(rows) + 1)
      BY <1>1
    <3>2. t[i] = rows[i]
      BY <3>1, <2>2, <1>2
    <3>. QED
      BY <3>1, <3>2, <2>1, <1>4 DEF Range
  <2>3. CASE ~(i < p)
    <3>1. /\ i + 1 \in 1..(Len(rows) + 1) /\ ~(i + 1 < p) /\ i + 1 # p
          /\ (i + 1) - 1 = i
      BY <2>3, <1>1
    <3>2. t[i + 1] = rows[(i + 1) - 1]
      BY <3>1, <1>2
    <3>. QED
      BY <3>1, <3>2, <2>1, <1>4 DEF Range
  <2>. QED
    BY <2>2, <2>3
<1>8. IsInjective(t)
  <2>. SUFFICES ASSUME NEW i \in DOMAIN t, NEW j \in DOMAIN t, t[i] = t[j] PROVE i = j
    BY DEF IsInjective
  <2>1. CASE i # p /\ j # p
    <3>1. Old(i) = Old(j)
      BY <2>1, <1>5 DEF TypeOK, IsInjective
    <3>2. i \in Int /\ j \in Int
      BY <1>4
    <3>. QED
      BY <3>1, <3>2, <2>1, <1>1
  <2>2. CASE i = p \/ j = p
    BY <2>2, <1>5, <1>6, <1>7
  <2>. QED
    BY <2>1, <2>2
<1>9. PassedOver' \subseteq PassedOver
  <2>. SUFFICES ASSUME NEW s \in steady \ got, NEW i \in DOMAIN t, i <= offset, t[i] = s
                PROVE  \E j \in DOMAIN rows : j <= offset /\ rows[j] = s
    BY <1>3 DEF PassedOver, RowEnters, RowsAside, walkVars
  <2>1. i # p
    BY <1>3, <1>6
  <2>2. Old(i) \in DOMAIN rows /\ Old(i) <= i /\ rows[Old(i)] = s
    BY <2>1, <1>5
  <2>. HIDE DEF Old
  <2>3. Old(i) \in Int /\ i \in Int
    BY <2>2, <1>1, <1>4
  <2>4. Old(i) <= offset
    BY <2>2, <2>3, <1>1
  <2>. QED
    BY <2>2, <2>4
<1>10. steady \subseteq Range(t)
  BY <1>7 DEF WalkHolds, Range
<1>11. /\ UNCHANGED <<listing, offset, got, walk>> /\ steady' = steady /\ slips' = slips
  BY DEF RowEnters, RowsAside, walkVars
<1>. QED
  BY <1>2, <1>3, <1>8, <1>9, <1>10, <1>11, RowsWalk, Rising DEF RowsHold

LEMMA LeavesHold ==
  ASSUME TypeOK, WalkHolds, WalkMissesNothing, NEW p \in DOMAIN rows, RowLeaves(p)
  PROVE  RowsHold
<1>. DEFINE t == RemoveAt(rows, p)
            Old(i) == IF i < p THEN i ELSE i + 1
            New(i) == IF i < p THEN i ELSE i - 1
<1>1. /\ Len(rows) \in Nat /\ DOMAIN rows = 1..Len(rows) /\ rows \in Seq(RowIds)
      /\ offset \in Nat /\ p \in Nat /\ p \in 1..Len(rows)
  <2>1. Len(rows) \in Nat /\ DOMAIN rows = 1..Len(rows)
    BY RowsTyped
  <2>2. rows \in Seq(RowIds) /\ offset \in Nat
    BY DEF TypeOK
  <2>. QED
    BY <2>1, <2>2
<1>2. /\ t \in Seq(RowIds) /\ Len(t) = Len(rows) - 1
      /\ \A i \in 1..(Len(rows) - 1) : t[i] = IF i < p THEN rows[i] ELSE rows[i + 1]
  <2>1. rows \in Seq(RowIds) /\ p \in 1..Len(rows)
    BY <1>1
  <2>. QED
    BY <2>1, RemoveAtRows, Zenon
<1>3. rows' = t /\ steady' = steady \ {rows[p]}
  BY DEF RowLeaves
<1>. HIDE DEF t
<1>4. DOMAIN t = 1..(Len(rows) - 1)
  BY <1>2, LenProperties
<1>5. ASSUME NEW i \in DOMAIN t
      PROVE  Old(i) \in DOMAIN rows /\ t[i] = rows[Old(i)]
  <2>1. i \in 1..(Len(rows) - 1) /\ i + 1 \in 1..Len(rows) /\ i \in 1..Len(rows)
    BY <1>1, <1>4
  <2>. QED
    BY <2>1, <1>1, <1>2
<1>6. ASSUME NEW i \in DOMAIN rows, i # p
      PROVE  New(i) \in DOMAIN t /\ t[New(i)] = rows[i]
  <2>1. CASE i < p
    <3>1. i \in 1..(Len(rows) - 1)
      BY <2>1, <1>1
    <3>. QED
      BY <3>1, <2>1, <1>2, <1>4
  <2>2. CASE ~(i < p)
    <3>1. i - 1 \in 1..(Len(rows) - 1) /\ ~(i - 1 < p) /\ (i - 1) + 1 = i
      BY <2>2, <1>1, <1>6
    <3>. QED
      BY <3>1, <2>2, <1>2, <1>4
  <2>. QED
    BY <2>1, <2>2
<1>7. IsInjective(t)
  <2>. SUFFICES ASSUME NEW i \in DOMAIN t, NEW j \in DOMAIN t, t[i] = t[j] PROVE i = j
    BY DEF IsInjective
  <2>1. Old(i) = Old(j)
    BY <1>5 DEF TypeOK, IsInjective
  <2>2. i \in Int /\ j \in Int
    BY <1>4
  <2>. QED
    BY <2>1, <2>2, <1>1
<1>8. steady' \subseteq Range(t)
  <2>. SUFFICES ASSUME NEW s \in steady, s # rows[p] PROVE s \in Range(t)
    BY <1>3
  <2>1. PICK i \in DOMAIN rows : rows[i] = s
    BY DEF WalkHolds, Range
  <2>2. New(i) \in DOMAIN t /\ t[New(i)] = s
    BY <2>1, <1>6
  <2>. HIDE DEF New
  <2>. QED
    BY <2>2 DEF Range
<1>9. UNCHANGED <<listing, offset, got, walk>>
  BY DEF RowLeaves, RowsAside, walkVars
<1>10. ASSUME NEW s \in steady \ got, NEW i \in DOMAIN t, i <= offset, t[i] = s
       PROVE  s \in PassedOver \/ (p <= offset /\ s = rows[offset + 1])
  <2>1. Old(i) \in DOMAIN rows /\ rows[Old(i)] = s /\ i \in Nat
    BY <1>4, <1>5, <1>10
  <2>2. Old(i) <= offset \/ (p <= offset /\ Old(i) = offset + 1)
    BY <2>1, <1>1, <1>10
  <2>. HIDE DEF Old
  <2>. QED
    BY <2>1, <2>2 DEF PassedOver
<1>11. \A s \in PassedOver' : s \in PassedOver \/ (p <= offset /\ s = rows[offset + 1])
  BY <1>3, <1>9, <1>10 DEF PassedOver
<1>12. slips' = IF walk = "on" /\ p <= offset THEN slips + 1 ELSE slips
  BY DEF RowLeaves
<1>13. walk = "on" =>
         \/ PassedOver' \subseteq PassedOver
         \/ slips' = slips + 1 /\ \E x : PassedOver' \subseteq PassedOver \cup {x}
  <2>1. CASE p <= offset
    <3>1. PassedOver' \subseteq PassedOver \cup {rows[offset + 1]}
      BY <1>11
    <3>. QED
      BY <3>1, <2>1, <1>12
  <2>2. CASE ~(p <= offset)
    BY <2>2, <1>11
  <2>. QED
    BY <2>1, <2>2
<1>14. /\ slips' = slips \/ slips' = slips + 1
       /\ walk = "before" => slips' = slips
  BY <1>12
<1>15. slips' \in Nat
  BY <1>14, Rising
<1>16. WalkHolds' /\ WalkMissesNothing'
  BY <1>3, <1>8, <1>9, <1>13, <1>14, RowsWalk
<1>. QED
  BY <1>2, <1>3, <1>7, <1>15, <1>16 DEF RowsHold
LEMMA MovesHold ==
  ASSUME TypeOK, WalkHolds, WalkMissesNothing, NEW p \in DOMAIN rows, RowMoves(p)
  PROVE  RowsHold
<1>. DEFINE t == <<rows[p]>> \o RemoveAt(rows, p)
            Old(i) == IF i = 1 THEN p ELSE IF i <= p THEN i - 1 ELSE i
            New(i) == IF i = p THEN 1 ELSE IF i < p THEN i + 1 ELSE i
<1>1. /\ Len(rows) \in Nat /\ DOMAIN rows = 1..Len(rows) /\ rows \in Seq(RowIds)
      /\ offset \in Nat /\ p \in Nat /\ p \in 1..Len(rows)
  <2>1. Len(rows) \in Nat /\ DOMAIN rows = 1..Len(rows)
    BY RowsTyped
  <2>2. rows \in Seq(RowIds) /\ offset \in Nat
    BY DEF TypeOK
  <2>. QED
    BY <2>1, <2>2
<1>2. /\ t \in Seq(RowIds) /\ Len(t) = Len(rows)
      /\ \A i \in 1..Len(rows) :
           t[i] = IF i = 1 THEN rows[p] ELSE IF i <= p THEN rows[i - 1] ELSE rows[i]
  <2>1. rows \in Seq(RowIds) /\ p \in 1..Len(rows)
    BY <1>1
  <2>. QED
    BY <2>1, MovedRows
<1>3. rows' = t /\ steady' = steady
  BY DEF RowMoves
<1>. HIDE DEF t
<1>4. DOMAIN t = 1..Len(rows)
  BY <1>2, LenProperties
<1>5. ASSUME NEW i \in DOMAIN t
      PROVE  Old(i) \in DOMAIN rows /\ t[i] = rows[Old(i)]
  <2>1. i \in 1..Len(rows) /\ i \in Int
    BY <1>4
  <2>2. i # 1 => i - 1 \in 1..Len(rows)
    BY <2>1, <1>1
  <2>3. t[i] = IF i = 1 THEN rows[p] ELSE IF i <= p THEN rows[i - 1] ELSE rows[i]
    BY <2>1, <1>2
  <2>. QED
    BY <2>1, <2>2, <2>3, <1>1
<1>6. ASSUME NEW i \in DOMAIN rows
      PROVE  New(i) \in DOMAIN t /\ t[New(i)] = rows[i]
  <2>1. i \in 1..Len(rows) /\ i \in Int
    BY <1>1
  <2>2. CASE i = p
    <3>1. 1 \in 1..Len(rows)
      BY <1>1
    <3>. QED
      BY <3>1, <2>2, <1>2, <1>4
  <2>3. CASE i < p
    <3>1. i + 1 \in 1..Len(rows) /\ i + 1 # 1 /\ i + 1 <= p /\ (i + 1) - 1 = i /\ i # p
      BY <2>1, <2>3, <1>1
    <3>2. t[i + 1] = rows[(i + 1) - 1]
      BY <3>1, <1>2
    <3>. QED
      BY <3>1, <3>2, <2>3, <1>4
  <2>4. CASE i > p
    <3>1. i # 1 /\ ~(i <= p) /\ i # p /\ ~(i < p)
      BY <2>1, <2>4, <1>1
    <3>2. t[i] = rows[i]
      BY <3>1, <2>1, <1>2
    <3>. QED
      BY <3>1, <3>2, <2>1, <1>4
  <2>5. i = p \/ i < p \/ i > p
    BY <2>1, <1>1
  <2>. QED
    BY <2>2, <2>3, <2>4, <2>5
<1>7. IsInjective(t)
  <2>. SUFFICES ASSUME NEW i \in DOMAIN t, NEW j \in DOMAIN t, t[i] = t[j] PROVE i = j
    BY DEF IsInjective
  <2>1. Old(i) = Old(j)
    BY <1>5 DEF TypeOK, IsInjective
  <2>2. i \in Int /\ j \in Int /\ i >= 1 /\ j >= 1
    BY <1>1, <1>4
  <2>. QED
    BY <2>1, <2>2, <1>1
<1>8. steady' \subseteq Range(t)
  <2>. SUFFICES ASSUME NEW s \in steady PROVE s \in Range(t)
    BY <1>3
  <2>1. PICK i \in DOMAIN rows : rows[i] = s
    BY DEF WalkHolds, Range
  <2>2. New(i) \in DOMAIN t /\ t[New(i)] = s
    BY <2>1, <1>6
  <2>. HIDE DEF New
  <2>. QED
    BY <2>2 DEF Range
<1>9. UNCHANGED <<listing, offset, got, walk>>
  BY DEF RowMoves, RowsAside, walkVars
<1>10. ASSUME NEW s \in steady \ got, NEW i \in DOMAIN t, i <= offset, t[i] = s
       PROVE  s \in PassedOver \/ (p > offset /\ s = rows[p])
  <2>1. Old(i) \in DOMAIN rows /\ rows[Old(i)] = s /\ i \in Nat /\ i >= 1
    BY <1>1, <1>4, <1>5, <1>10
  <2>2. Old(i) <= offset \/ (p > offset /\ Old(i) = p)
    BY <2>1, <1>1, <1>10
  <2>. HIDE DEF Old
  <2>. QED
    BY <2>1, <2>2 DEF PassedOver
<1>11. \A s \in PassedOver' : s \in PassedOver \/ (p > offset /\ s = rows[p])
  BY <1>3, <1>9, <1>10 DEF PassedOver
<1>12. slips' = IF walk = "on" /\ p > offset THEN slips + 1 ELSE slips
  BY DEF RowMoves
<1>13. walk = "on" =>
         \/ PassedOver' \subseteq PassedOver
         \/ slips' = slips + 1 /\ \E x : PassedOver' \subseteq PassedOver \cup {x}
  <2>1. CASE p > offset
    <3>1. PassedOver' \subseteq PassedOver \cup {rows[p]}
      BY <1>11
    <3>. QED
      BY <3>1, <2>1, <1>12
  <2>2. CASE ~(p > offset)
    BY <2>2, <1>11
  <2>. QED
    BY <2>1, <2>2
<1>14. /\ slips' = slips \/ slips' = slips + 1
       /\ walk = "before" => slips' = slips
  BY <1>12
<1>15. slips' \in Nat
  BY <1>14, Rising
<1>16. WalkHolds' /\ WalkMissesNothing'
  BY <1>3, <1>8, <1>9, <1>13, <1>14, RowsWalk
<1>. QED
  BY <1>2, <1>3, <1>7, <1>15, <1>16 DEF RowsHold
\* What is given is a piece of the listing, not empty unless the page is.
LEMMA FittedRows ==
  ASSUME NEW S, NEW page \in Seq(S), NEW given \in Fitted(page)
  PROVE  /\ given \in Seq(S) /\ Len(given) \in 0..Len(page)
         /\ given = <<>> => page = <<>>
         /\ \A i \in 1..Len(given) : given[i] = page[i]
<1>1. Len(page) \in Nat /\ \A i \in 1..Len(page) : page[i] \in S
  BY LenProperties, ElementOfSeq
<1>2. CASE page = <<>>
  <2>1. given = page /\ Len(given) = 0
    BY <1>2 DEF Fitted
  <2>. QED
    BY <2>1, <1>1, <1>2
<1>3. CASE page # <<>>
  <2>1. PICK k \in 1..Len(page) : given = SubSeq(page, 1, k)
    BY <1>3 DEF Fitted
  <2>2. k \in Int /\ 1 <= k /\ \A i \in 1..k : page[i] \in S
    BY <1>1
  <2>3. /\ SubSeq(page, 1, k) \in Seq(S)
        /\ Len(SubSeq(page, 1, k)) = IF 1 <= k THEN k - 1 + 1 ELSE 0
        /\ \A i \in 1..(k - 1 + 1) : SubSeq(page, 1, k)[i] = page[1 + i - 1]
    BY <2>2, SubSeqProperties
  <2>4. given \in Seq(S) /\ Len(given) = k /\ \A i \in 1..k : given[i] = page[i]
    BY <2>1, <2>2, <2>3
  <2>5. given # <<>>
    BY <2>2, <2>4, EmptySeq
  <2>. QED
    BY <2>4, <2>5, <1>1
<1>. QED
  BY <1>2, <1>3

LEMMA PageHolds ==
  ASSUME TypeOK, WalkHolds, walk = "on", NEW u \in Users, Page(u)
  PROVE  offset' \in Nat /\ WalkHolds' /\ WalkMissesNothing' /\ walk' \in {"on", "over"}
<1>. DEFINE paged == ListingOf[listing].paged
            end == IF offset + PageSize < Len(rows) THEN offset + PageSize ELSE Len(rows)
            part == SubSeq(rows, offset + 1, end)
            page == IF paged THEN part ELSE rows
<1>1. /\ Len(rows) \in Nat /\ DOMAIN rows = 1..Len(rows) /\ rows \in Seq(RowIds)
      /\ offset \in Nat /\ \A i \in 1..Len(rows) : rows[i] \in RowIds
      /\ PageSize \in Nat \ {0} /\ slips \in Nat
  BY RowsTyped, AssistantAssumption DEF TypeOK
<1>2. end \in Int /\ end <= Len(rows) /\ (offset < Len(rows) => offset + 1 <= end)
  BY <1>1
<1>. HIDE DEF end
<1>3. /\ part \in Seq(RowIds)
      /\ Len(part) = IF offset + 1 <= end THEN end - (offset + 1) + 1 ELSE 0
      /\ \A i \in 1..(end - (offset + 1) + 1) : part[i] = rows[(offset + 1) + i - 1]
  <2>1. offset + 1 \in Int /\ \A i \in (offset + 1)..end : rows[i] \in RowIds
    BY <1>1, <1>2
  <2>. QED
    BY <2>1, <1>2, SubSeqProperties
<1>4. /\ Len(part) \in Nat
      /\ \A i \in 1..Len(part) : offset + i \in 1..Len(rows) /\ part[i] = rows[offset + i]
      /\ part = <<>> => offset >= Len(rows)
  <2>1. Len(part) \in Nat
    BY <1>3, LenProperties
  <2>2. ASSUME NEW i \in 1..Len(part)
        PROVE  offset + i \in 1..Len(rows) /\ part[i] = rows[offset + i]
    <3>1. i \in 1..(end - (offset + 1) + 1) /\ (offset + 1) + i - 1 = offset + i
      BY <1>1, <1>2, <1>3
    <3>2. offset + i \in 1..Len(rows)
      BY <3>1, <1>1, <1>2
    <3>3. part[i] = rows[(offset + 1) + i - 1]
      BY <3>1, <1>3
    <3>. QED
      BY <3>1, <3>2, <3>3
  <2>3. part = <<>> => Len(part) = 0
    BY EmptySeq
  <2>4. part = <<>> => offset >= Len(rows)
    BY <2>3, <1>1, <1>2, <1>3
  <2>. QED
    BY <2>1, <2>2, <2>4
<1>5. PICK given \in Fitted(page) :
        /\ got' = got \cup Range(given)
        /\ offset' = offset + Len(given)
        /\ walk' = IF given = <<>> \/ ~paged THEN "over" ELSE "on"
  BY DEF Page, end
<1>6. UNCHANGED <<rows, listing, steady, slips>>
  BY DEF Page
<1>. HIDE DEF part
<1>7. page \in Seq(RowIds)
  BY <1>1, <1>3
<1>8. /\ given \in Seq(RowIds) /\ Len(given) \in 0..Len(page)
      /\ given = <<>> => page = <<>>
      /\ \A i \in 1..Len(given) : given[i] = page[i]
  BY <1>7, FittedRows
<1>9. Len(given) \in Nat /\ DOMAIN given = 1..Len(given) /\ offset' \in Nat
  BY <1>1, <1>5, <1>8, LenProperties
<1>10. IsFiniteSet(PassedOver) /\ Cardinality(PassedOver) \in Nat
       /\ Cardinality(PassedOver) <= slips
  BY WalkFinite DEF WalkHolds
<1>11. CASE ~paged
  BY <1>5, <1>6, <1>9, <1>11 DEF WalkHolds, WalkMissesNothing
<1>12. CASE paged
  <2>1. /\ page = part /\ Len(given) <= Len(part)
        /\ \A i \in 1..Len(given) : offset + i \in 1..Len(rows) /\ given[i] = rows[offset + i]
    BY <1>4, <1>8, <1>9, <1>12
  <2>2. PassedOver' \subseteq PassedOver
    <3>. SUFFICES ASSUME NEW s \in steady \ got', NEW i \in DOMAIN rows,
                         i <= offset', rows[i] = s
                  PROVE  i <= offset
      BY <1>5, <1>6 DEF PassedOver
    <3>. SUFFICES ASSUME i > offset PROVE FALSE
      BY <1>1
    <3>1. i - offset \in 1..Len(given) /\ offset + (i - offset) = i
      BY <1>1, <1>5, <1>9
    <3>2. given[i - offset] = s
      BY <3>1, <2>1
    <3>3. s \in Range(given)
      BY <3>1, <3>2, <1>9 DEF Range
    <3>. QED
      BY <3>3, <1>5
  <2>3. IsFiniteSet(PassedOver') /\ Cardinality(PassedOver') <= Cardinality(PassedOver)
    BY <2>2, <1>10, FS_Subset
  <2>4. Cardinality(PassedOver') \in Nat
    BY <2>3, FS_CardinalityType
  <2>5. Cardinality(PassedOver') <= slips
    BY <2>3, <2>4, <1>1, <1>10
  <2>6. WalkHolds'
    BY <2>5, <1>5, <1>6 DEF WalkHolds
  <2>7. ASSUME given = <<>> PROVE Missed' = PassedOver'
    <3>1. Len(given) = 0 /\ offset' = offset /\ offset >= Len(rows)
      BY <2>1, <2>7, <1>1, <1>4, <1>5, <1>8, <1>9, EmptySeq
    <3>2. \A i \in DOMAIN rows : i <= offset
      BY <3>1, <1>1
    <3>. QED
      BY <3>1, <3>2, <1>6 DEF Missed, PassedOver, Range
  <2>8. WalkMissesNothing'
    BY <2>5, <2>7, <1>5, <1>6, <1>12 DEF WalkMissesNothing, Missed
  <2>. QED
    BY <2>6, <2>8, <1>5, <1>9
<1>. QED
  BY <1>11, <1>12
-----------------------------------------------------------------------------
(* The invariant holds at first.                                           *)

LEMMA InitInv == Init => IInv
<1>. SUFFICES ASSUME Init PROVE IInv
  OBVIOUS
<1>1. TypeOK
  <2>1. /\ levels \in [Roles -> Levels] /\ roles \in [Users -> Roles \cup {NULL}]
        /\ calls \in [Users -> CallType \cup {NULL}]
    BY AssistantAssumption DEF Init, Levels, NoneOf
  <2>2. events \in [Events -> Acks \cup {NULL}]
    BY DEF Init, Acks
  <2>3. offered \in [grant : SUBSET (Reads \cup Writes), spec : SUBSET (Reads \cup Writes)]
    <3>1. Granted(TRUE) \subseteq Reads \cup Writes
      BY DEF Granted
    <3>. HIDE DEF Granted
    <3>. QED
      BY <3>1 DEF Init, Specified
  <2>4. rows \in Seq(RowIds) /\ IsInjective(rows)
    BY AssistantAssumption DEF Init
  <2>5. edits \in 0..MaxEdits
    BY AssistantAssumption DEF Init
  <2>. QED
    BY <2>1, <2>2, <2>3, <2>4, <2>5 DEF Init, TypeOK
<1>2. GatesHold /\ TargetsHold /\ ReadersHold
  BY DEF Init, GatesHold, TargetsHold, ReadersHold, IsReading, NoneOf
<1>3. WalkHolds /\ WalkMissesNothing
  <2>1. PassedOver = {} /\ Cardinality({}) = 0
    BY FS_EmptySet DEF Init, PassedOver
  <2>. QED
    BY <2>1 DEF Init, WalkHolds, WalkMissesNothing
<1>. QED
  BY <1>1, <1>2, <1>3 DEF IInv

-----------------------------------------------------------------------------
(* The steps of a call.                                                    *)

LEMMA WalkSame ==
  ASSUME WalkHolds, WalkMissesNothing, UNCHANGED <<rows, listing>>, WalkAside
  PROVE  WalkHolds' /\ WalkMissesNothing' /\ UNCHANGED <<offset, got, walk, steady, slips>>
<1>1. UNCHANGED <<rows, listing, offset, got, walk, steady, slips>>
  BY DEF WalkAside, walkVars
<1>2. PassedOver' = PassedOver
  BY <1>1 DEF PassedOver
<1>. QED
  BY <1>1, <1>2 DEF WalkHolds, WalkMissesNothing

\* What a call may be after a step of its own.
StepHolds(u, row) ==
  /\ row.op = calls[u].op /\ row.role = calls[u].role
  /\ row.at # "enabled" => "enabled" \in held[u]
  /\ row.at \in {"target", "write"} => "trusted" \in held[u] /\ AppRule(row.op, row.role)
  /\ row.at \in {"level", "target", "write"} => row.op \in Writes
  /\ row.at = "page" => row.op \notin Writes
  /\ (row.at = "write" /\ row.op = "toggleAlertRule") => row.was \in BOOLEAN

\* A step of a call that leaves the listing alone.
LEMMA CallAdvances ==
  ASSUME IInv, NEW u \in Users, calls[u] # NULL,
         UNCHANGED <<enabled, levels, roles, rows, listing, offered, edits, held>>,
         WalkAside,
         events' \in [Events -> Acks \cup {NULL}], rule' \in BOOLEAN \cup {NULL},
         NEW row \in CallType \cup {NULL}, calls' = [calls EXCEPT ![u] = row],
         row # NULL => StepHolds(u, row)
  PROVE  IInv'
<1>. USE DEF IInv
<1>1. UNCHANGED <<offset, got, walk, steady, slips>> /\ WalkHolds' /\ WalkMissesNothing'
  BY WalkSame
<1>2. /\ calls' \in [Users -> CallType \cup {NULL}] /\ calls'[u] = row
      /\ \A v \in Users \ {u} : calls'[v] = calls[v]
  BY DEF TypeOK
<1>3. TypeOK'
  BY <1>1, <1>2 DEF TypeOK
<1>4. GatesHold'
  BY <1>2 DEF GatesHold, StepHolds
<1>5. TargetsHold'
  BY <1>2 DEF TargetsHold, StepHolds
<1>6. ReadersHold'
  <2>1. \A v \in Users : IsReading(v)' => IsReading(v) /\ calls'[v].op = calls[v].op
    BY <1>2 DEF IsReading, StepHolds
  <2>. QED
    BY <2>1, <1>1 DEF ReadersHold
<1>. QED
  BY <1>1, <1>3, <1>4, <1>5, <1>6

LEMMA CallEnds ==
  ASSUME IInv, NEW u \in Users, calls[u] # NULL,
         UNCHANGED <<enabled, levels, roles, rows, listing, offered, edits, held>>,
         WalkAside, Ends(u),
         events' \in [Events -> Acks \cup {NULL}], rule' \in BOOLEAN \cup {NULL}
  PROVE  IInv'
  BY CallAdvances DEF Ends

\* A step to the next database call.
LEMMA CallGoesTo ==
  ASSUME TypeOK, NEW u \in Users, calls[u] # NULL,
         NEW at \in {"enabled", "allowed", "level", "target", "write", "page"}
  PROVE  LET row == [calls[u] EXCEPT !.at = at]
         IN  /\ row \in CallType /\ row.op = calls[u].op /\ row.role = calls[u].role
             /\ row.at = at /\ row.was = calls[u].was
             /\ GoTo(u, at) => calls' = [calls EXCEPT ![u] = row]
<1>. DEFINE row == [calls[u] EXCEPT !.at = at]
<1>1. calls[u] \in CallType /\ calls \in [Users -> CallType \cup {NULL}]
  BY DEF TypeOK
<1>2. /\ row \in CallType /\ row.op = calls[u].op /\ row.role = calls[u].role
      /\ row.at = at /\ row.was = calls[u].was
  BY <1>1 DEF CallType
<1>3. GoTo(u, at) => calls' = [calls EXCEPT ![u] = row]
  BY <1>1 DEF GoTo
<1>. QED
  BY <1>2, <1>3

LEMMA EventsTyped ==
  ASSUME TypeOK, NEW u \in Users, NEW E
  PROVE  AckedBy(u, E) \in [Events -> Acks \cup {NULL}]
<1>1. Ack(u, "assistant") \in Acks
  BY DEF Ack, Acks
<1>. QED
  BY <1>1 DEF AckedBy, TypeOK

LEMMA ReadsHold ==
  ASSUME IInv, NEW u \in Users,
         \/ ReadEnabled(u) \/ ReadAllowed(u) \/ ReadNotAllowed(u) \/ ReadLevel(u)
         \/ ReadTarget(u)
  PROVE  IInv'
<1>. USE DEF IInv
<1>1. /\ calls[u] # NULL /\ TypeOK
      /\ UNCHANGED <<state, rows, listing, offered, edits, held>> /\ WalkAside
  BY DEF ReadEnabled, ReadAllowed, ReadNotAllowed, ReadLevel, ReadTarget, IsAt
<1>2. /\ events' \in [Events -> Acks \cup {NULL}] /\ rule' \in BOOLEAN \cup {NULL}
      /\ UNCHANGED <<enabled, levels, roles, rows, listing, offered, edits, held>>
  BY <1>1 DEF TypeOK, state
<1>3. Ends(u) => IInv'
  BY <1>1, <1>2, CallEnds
<1>4. ASSUME NEW at \in {"enabled", "allowed", "level", "target", "write", "page"},
             GoTo(u, at),
             LET row == [calls[u] EXCEPT !.at = at] IN StepHolds(u, row)
      PROVE  IInv'
  <2>. DEFINE row == [calls[u] EXCEPT !.at = at]
  <2>1. row \in CallType /\ calls' = [calls EXCEPT ![u] = row] /\ StepHolds(u, row)
    BY <1>1, <1>4, CallGoesTo
  <2>. HIDE DEF row
  <2>. QED
    BY <2>1, <1>1, <1>2, CallAdvances
<1>5. CASE ReadEnabled(u)
  <2>1. CASE enabled
    <3>. DEFINE row == [calls[u] EXCEPT !.at = "allowed"]
    <3>1. GoTo(u, "allowed") /\ "enabled" \in held[u]
      BY <1>1, <1>5, <2>1 DEF ReadEnabled, GatesHold
    <3>2. row.op = calls[u].op /\ row.role = calls[u].role /\ row.at = "allowed"
      BY <1>1, CallGoesTo
    <3>. HIDE DEF row
    <3>3. StepHolds(u, row)
      BY <3>1, <3>2 DEF StepHolds
    <3>. QED
      BY <3>1, <3>3, <1>4 DEF row
  <2>2. CASE ~enabled
    BY <1>3, <1>5, <2>2 DEF ReadEnabled
  <2>. QED
    BY <2>1, <2>2
<1>6. CASE ReadAllowed(u)
  <2>. DEFINE at == IF calls[u].op \in Writes THEN "level" ELSE "page"
              row == [calls[u] EXCEPT !.at = at]
  <2>1. GoTo(u, at) /\ "enabled" \in held[u]
    BY <1>1, <1>6 DEF ReadAllowed, GatesHold, IsAt
  <2>2. at \in {"level", "page"} /\ (at = "level" <=> calls[u].op \in Writes)
    OBVIOUS
  <2>. HIDE DEF at
  <2>3. row.op = calls[u].op /\ row.role = calls[u].role /\ row.at = at
    BY <1>1, <2>2, CallGoesTo
  <2>. HIDE DEF row
  <2>4. StepHolds(u, row)
    BY <2>1, <2>2, <2>3 DEF StepHolds
  <2>. QED
    BY <2>1, <2>2, <2>4, <1>4 DEF row
<1>7. CASE ReadNotAllowed(u)
  BY <1>3, <1>7 DEF ReadNotAllowed
<1>8. CASE ReadLevel(u)
  <2>1. CASE levels[calls[u].role] = "write" /\ AppRule(calls[u].op, calls[u].role)
    <3>. DEFINE row == [calls[u] EXCEPT !.at = "target"]
    <3>1. GoTo(u, "target") /\ "enabled" \in held[u] /\ "trusted" \in held[u]
      BY <1>1, <1>8, <2>1 DEF ReadLevel, GatesHold, IsAt
    <3>2. row.op = calls[u].op /\ row.role = calls[u].role /\ row.at = "target"
      BY <1>1, CallGoesTo
    <3>3. calls[u].op \in Writes
      BY <1>1, <1>8 DEF ReadLevel, TargetsHold, IsAt
    <3>. HIDE DEF row
    <3>4. StepHolds(u, row)
      BY <3>1, <3>2, <3>3, <2>1 DEF StepHolds
    <3>. QED
      BY <3>1, <3>4, <1>4 DEF row
  <2>2. CASE ~(levels[calls[u].role] = "write" /\ AppRule(calls[u].op, calls[u].role))
    BY <1>3, <1>8, <2>2 DEF ReadLevel
  <2>. QED
    BY <2>1, <2>2
<1>9. CASE ReadTarget(u)
  <2>. DEFINE was == IF calls[u].op = "toggleAlertRule" THEN rule ELSE NULL
              row == [calls[u] EXCEPT !.at = "write", !.was = was]
  <2>1. /\ calls[u].at = "target" /\ calls[u].op \in Writes
        /\ "enabled" \in held[u] /\ "trusted" \in held[u]
        /\ AppRule(calls[u].op, calls[u].role)
    BY <1>1, <1>9 DEF ReadTarget, IsAt, GatesHold, TargetsHold
  <2>2. \/ Ends(u)
        \/ /\ calls' = [calls EXCEPT ![u].at = "write", ![u].was = was]
           /\ calls[u].op = "toggleAlertRule" => rule # NULL
    BY <1>9, <2>1 DEF ReadTarget, Writes
  <2>3. CASE Ends(u)
    BY <2>3, <1>3
  <2>4. CASE /\ calls' = [calls EXCEPT ![u].at = "write", ![u].was = was]
             /\ calls[u].op = "toggleAlertRule" => rule # NULL
    <3>1. was \in BOOLEAN \cup {NULL} /\ (calls[u].op = "toggleAlertRule" => was \in BOOLEAN)
      BY <1>1, <2>4 DEF TypeOK
    <3>. HIDE DEF was
    <3>2. calls[u] \in CallType /\ calls \in [Users -> CallType \cup {NULL}]
      BY <1>1 DEF TypeOK
    <3>3. /\ row \in CallType /\ row.op = calls[u].op /\ row.role = calls[u].role
          /\ row.at = "write" /\ row.was = was
      BY <3>1, <3>2 DEF CallType
    <3>4. calls' = [calls EXCEPT ![u] = row]
      BY <2>4, <3>2
    <3>. HIDE DEF row
    <3>5. StepHolds(u, row)
      BY <2>1, <3>1, <3>3 DEF StepHolds
    <3>. QED
      BY <3>3, <3>4, <3>5, <1>1, <1>2, CallAdvances
  <2>. QED
    BY <2>2, <2>3, <2>4
<1>. QED
  BY <1>5, <1>6, <1>7, <1>8, <1>9

LEMMA WritesHold ==
  ASSUME IInv, NEW u \in Users, AckWrite(u) \/ AckFails(u) \/ AckAllWrite(u) \/ ToggleWrite(u)
  PROVE  IInv'
<1>1. /\ calls[u] # NULL /\ Ends(u) /\ WalkAside /\ TypeOK
      /\ UNCHANGED <<enabled, levels, roles, rows, listing, offered, edits, held>>
  BY DEF AckWrite, AckFails, AckAllWrite, ToggleWrite, IsAt, state, IInv
<1>2. events' \in [Events -> Acks \cup {NULL}]
  BY <1>1, EventsTyped DEF AckWrite, AckFails, AckAllWrite, ToggleWrite, state, TypeOK
<1>3. rule' \in BOOLEAN \cup {NULL}
  <2>1. CASE ToggleWrite(u)
    <3>1. rule' = NULL \/ rule' = ~calls[u].was
      BY <2>1 DEF ToggleWrite
    <3>2. (~calls[u].was) \in BOOLEAN
      OBVIOUS
    <3>. QED
      BY <3>1, <3>2
  <2>2. CASE ~ToggleWrite(u)
    BY <2>2, <1>1 DEF AckWrite, AckFails, AckAllWrite, state, TypeOK
  <2>. QED
    BY <2>1, <2>2
<1>. QED
  BY <1>1, <1>2, <1>3, CallEnds

LEMMA PagesHold ==
  ASSUME IInv, NEW u \in Users, Page(u)
  PROVE  IInv'
<1>. USE DEF IInv
<1>1. calls[u] # NULL /\ calls[u].at = "page" /\ Ends(u)
  BY DEF Page, IsAt
<1>2. IsReading(u)
  BY <1>1 DEF TargetsHold, IsReading
<1>3. walk = "on" /\ \A v \in Users : IsReading(v) => v = u
  BY <1>2 DEF ReadersHold
<1>4. /\ offset' \in Nat /\ WalkHolds' /\ WalkMissesNothing'
      /\ walk' \in {"before", "on", "over"}
  BY <1>3, PageHolds
<1>5. UNCHANGED <<enabled, levels, roles, events, rule, rows, listing, offered, edits,
                  held, steady, slips>>
  BY DEF Page, state
<1>6. /\ calls' \in [Users -> CallType \cup {NULL}] /\ calls'[u] = NULL
      /\ \A v \in Users \ {u} : calls'[v] = calls[v]
  BY <1>1 DEF TypeOK, Ends
<1>7. TypeOK'
  BY <1>4, <1>5, <1>6 DEF TypeOK
<1>8. GatesHold'
  BY <1>5, <1>6 DEF GatesHold
<1>9. TargetsHold'
  BY <1>6 DEF TargetsHold
<1>10. ReadersHold'
  <2>1. \A v \in Users : ~IsReading(v)'
    BY <1>3, <1>6 DEF IsReading
  <2>. QED
    BY <2>1 DEF ReadersHold
<1>. QED
  BY <1>4, <1>7, <1>8, <1>9, <1>10
-----------------------------------------------------------------------------
(* Everybody else's steps.                                                 *)

LEMMA EditTyped == ASSUME TypeOK, Counted PROVE edits' \in 0..MaxEdits
  BY AssistantAssumption DEF TypeOK, Counted

LEMMA AskHolds ==
  ASSUME IInv, NEW u \in Users, NEW op \in Reads \cup Writes,
         NEW target \in Events \cup {NULL}, Ask(u, op, target)
  PROVE  IInv'
<1>. USE DEF IInv
<1>. DEFINE row == Call(op, target, roles[u])
            gates == Gates(roles[u])
<1>1. /\ calls[u] = NULL /\ calls' = [calls EXCEPT ![u] = row]
      /\ held' = [held EXCEPT ![u] = gates]
      /\ UNCHANGED <<enabled, levels, roles, events, rule, rows, listing, offered, offset,
                     got, slips>>
  BY DEF Ask, state
<1>2. /\ row \in CallType /\ row.op = op /\ row.role = roles[u] /\ row.at = "enabled"
  <2>1. roles[u] \in Roles
    BY DEF Ask, TypeOK
  <2>. QED
    BY <2>1 DEF Call, CallType
<1>3. /\ gates \subseteq {"enabled", "trusted"}
      /\ enabled => "enabled" \in gates
      /\ levels[roles[u]] = "write" => "trusted" \in gates
  BY DEF Gates
<1>. HIDE DEF row, gates
<1>4. /\ calls' \in [Users -> CallType \cup {NULL}] /\ calls'[u] = row
      /\ \A v \in Users \ {u} : calls'[v] = calls[v]
  BY <1>1, <1>2 DEF TypeOK
<1>5. /\ walk' \in {"before", "on", "over"}
      /\ op \in Writes => UNCHANGED <<walk, steady>>
      /\ op \notin Writes =>
           /\ op = listing /\ walk # "over" /\ walk' = "on"
           /\ steady' = IF walk = "before" THEN Range(rows) ELSE steady
           /\ \A v \in Users : ~(calls[v] # NULL /\ calls[v].op = op)
  BY DEF Ask, TypeOK
<1>6. TypeOK'
  <2>1. edits' \in 0..MaxEdits
    BY EditTyped DEF Ask
  <2>. QED
    BY <2>1, <1>1, <1>4, <1>5 DEF TypeOK
<1>7. GatesHold'
  <2>1. /\ held' \in [Users -> SUBSET {"enabled", "trusted"}] /\ held'[u] = gates
        /\ \A v \in Users \ {u} : held'[v] = held[v]
    BY <1>1, <1>3 DEF GatesHold
  <2>2. ASSUME NEW v \in Users, calls'[v] # NULL
        PROVE  /\ enabled' => "enabled" \in held'[v]
               /\ levels'[calls'[v].role] = "write" => "trusted" \in held'[v]
               /\ calls'[v].at # "enabled" => "enabled" \in held'[v]
               /\ calls'[v].at \in {"target", "write"} =>
                    "trusted" \in held'[v] /\ AppRule(calls'[v].op, calls'[v].role)
    <3>1. CASE v = u
      BY <3>1, <2>1, <1>1, <1>2, <1>3, <1>4
    <3>2. CASE v # u
      BY <3>2, <2>1, <2>2, <1>1, <1>4 DEF GatesHold
    <3>. QED
      BY <3>1, <3>2
  <2>. QED
    BY <2>1, <2>2 DEF GatesHold
<1>8. TargetsHold'
  BY <1>2, <1>4 DEF TargetsHold
<1>9. ReadersHold'
  <2>1. CASE op \in Writes
    <3>1. \A v \in Users : IsReading(v)' => IsReading(v) /\ calls'[v] = calls[v]
      BY <2>1, <1>2, <1>4 DEF IsReading
    <3>. QED
      BY <3>1, <2>1, <1>1, <1>5 DEF ReadersHold
  <2>2. CASE op \notin Writes
    <3>1. \A v \in Users \ {u} : ~IsReading(v)'
      BY <2>2, <1>4, <1>5 DEF IsReading, ReadersHold
    <3>. QED
      BY <3>1, <2>2, <1>1, <1>2, <1>4, <1>5 DEF ReadersHold
  <2>. QED
    BY <2>1, <2>2
<1>10. WalkHolds' /\ WalkMissesNothing'
  <2>1. CASE op \in Writes \/ walk = "on"
    <3>1. steady' = steady /\ walk' = walk
      BY <2>1, <1>5 DEF ReadersHold
    <3>2. PassedOver' = PassedOver
      BY <3>1, <1>1 DEF PassedOver
    <3>. QED
      BY <3>1, <3>2, <1>1 DEF WalkHolds, WalkMissesNothing
  <2>2. CASE op \notin Writes /\ walk = "before"
    <3>1. steady' = Range(rows) /\ walk' = "on" /\ offset' = 0 /\ slips' = 0
      BY <2>2, <1>1, <1>5 DEF WalkHolds
    <3>2. \A i \in DOMAIN rows : ~(i <= 0)
      BY RowsTyped
    <3>3. PassedOver' = {} /\ Cardinality({}) = 0
      BY <3>1, <3>2, <1>1, FS_EmptySet DEF PassedOver
    <3>. QED
      BY <3>1, <3>3, <1>1 DEF WalkHolds, WalkMissesNothing
  <2>. QED
    BY <2>1, <2>2, <1>5 DEF TypeOK
<1>. QED
  BY <1>6, <1>7, <1>8, <1>9, <1>10

LEMMA PanelHolds == ASSUME IInv, Panel PROVE IInv'
<1>1. PICK u \in Askers :
        \/ \E op \in Reads : Ask(u, op, NULL)
        \/ \E e \in Events : Ask(u, "ackAlertEvent", e)
        \/ \E op \in Writes \ {"ackAlertEvent"} : Ask(u, op, NULL)
  BY DEF Panel
<1>2. u \in Users /\ "ackAlertEvent" \in Writes
  BY AssistantAssumption DEF Writes
<1>. QED
  BY <1>1, <1>2, AskHolds

\* A change that leaves calls, gates and the listing alone.
LEMMA AsideHolds ==
  ASSUME IInv, UNCHANGED <<enabled, levels, rows, listing, calls, held>>, WalkAside,
         roles' \in [Users -> Roles \cup {NULL}], events' \in [Events -> Acks \cup {NULL}],
         rule' \in BOOLEAN \cup {NULL}, edits' \in 0..MaxEdits,
         offered' \in [grant : SUBSET (Reads \cup Writes), spec : SUBSET (Reads \cup Writes)]
  PROVE  IInv'
<1>. USE DEF IInv
<1>1. UNCHANGED <<offset, got, walk, steady, slips>> /\ WalkHolds' /\ WalkMissesNothing'
  BY WalkSame
<1>2. TypeOK'
  BY <1>1 DEF TypeOK
<1>3. GatesHold' /\ TargetsHold' /\ ReadersHold'
  BY <1>1 DEF GatesHold, TargetsHold, ReadersHold, IsReading
<1>. QED
  BY <1>1, <1>2, <1>3

LEMMA FetchesHold == ASSUME IInv, FetchGrant \/ FetchSpec PROVE IInv'
<1>1. \A b \in BOOLEAN : Granted(b) \subseteq Reads \cup Writes
  BY DEF Granted
<1>2. Granted(WritesAreEnabled) \subseteq Reads \cup Writes
  BY DEF Granted
<1>. HIDE DEF Granted
<1>3. /\ UNCHANGED <<enabled, levels, roles, events, rule, rows, listing, calls, edits, held>>
      /\ WalkAside
  BY DEF FetchGrant, FetchSpec, state
<1>4. offered' \in [grant : SUBSET (Reads \cup Writes), spec : SUBSET (Reads \cup Writes)]
  BY <1>2 DEF FetchGrant, FetchSpec, Specified, IInv, TypeOK
<1>. QED
  BY <1>3, <1>4, AsideHolds DEF IInv, TypeOK

LEMMA EditsHold ==
  ASSUME IInv,
         \/ \E u \in Users, role \in RoleInputs : SetRole(u, role)
         \/ \E u \in Users : PageAckAll(u) \/ \E e \in Events : PageAck(u, e)
         \/ \E e \in Events : RemoveEvent(e)
         \/ \E r \in BOOLEAN \cup {NULL} : PageRule(r)
  PROVE  IInv'
<1>. USE DEF IInv
<1>1. /\ UNCHANGED <<enabled, levels, rows, listing, offered, calls, held>> /\ WalkAside
      /\ edits' \in 0..MaxEdits
  BY EditTyped DEF SetRole, PageAckAll, PageAck, RemoveEvent, PageRule
<1>2. roles' \in [Users -> Roles \cup {NULL}]
  BY AssistantAssumption
     DEF SetRole, PageAckAll, PageAck, RemoveEvent, PageRule, TypeOK
<1>3. events' \in [Events -> Acks \cup {NULL}]
  <2>1. \A u \in Users : Ack(u, "page") \in Acks
    BY DEF Ack, Acks
  <2>. QED
    BY <2>1 DEF SetRole, PageAckAll, PageAck, RemoveEvent, PageRule, TypeOK
<1>4. rule' \in BOOLEAN \cup {NULL}
  BY DEF SetRole, PageAckAll, PageAck, RemoveEvent, PageRule, TypeOK
<1>5. offered' \in [grant : SUBSET (Reads \cup Writes), spec : SUBSET (Reads \cup Writes)]
  BY <1>1 DEF TypeOK
<1>. QED
  BY <1>1, <1>2, <1>3, <1>4, <1>5, AsideHolds

LEMMA SettingsHold == ASSUME IInv, NEW s \in Settings, SaveSettings(s) PROVE IInv'
<1>. USE DEF IInv
<1>1. /\ UNCHANGED <<roles, events, rule, rows, listing, offered, calls>> /\ WalkAside
      /\ enabled' = s.enabled /\ levels' = [levels EXCEPT ![s.role] = s.level]
      /\ edits' \in 0..MaxEdits
  BY EditTyped DEF SaveSettings
<1>2. s.enabled \in BOOLEAN /\ s.role \in Roles /\ s.level \in Levels
  BY AssistantAssumption
<1>3. UNCHANGED <<offset, got, walk, steady, slips>> /\ WalkHolds' /\ WalkMissesNothing'
  BY <1>1, WalkSame
<1>4. TypeOK'
  BY <1>1, <1>2, <1>3 DEF TypeOK
<1>5. TargetsHold' /\ ReadersHold'
  BY <1>1, <1>3 DEF TargetsHold, ReadersHold, IsReading
<1>6. GatesHold'
  <2>. DEFINE gates(u) ==
         IF calls[u] = NULL THEN {}
         ELSE held[u] \cup (IF s.enabled THEN {"enabled"} ELSE {})
                      \cup (IF levels'[calls[u].role] = "write" THEN {"trusted"} ELSE {})
  <2>1. held' = [u \in Users |-> gates(u)]
    BY DEF SaveSettings
  <2>2. \A u \in Users : /\ gates(u) \subseteq {"enabled", "trusted"}
                         /\ calls[u] # NULL =>
                              /\ held[u] \subseteq gates(u)
                              /\ s.enabled => "enabled" \in gates(u)
                              /\ levels'[calls[u].role] = "write" => "trusted" \in gates(u)
    BY DEF GatesHold
  <2>. HIDE DEF gates
  <2>3. \A u \in Users : held'[u] = gates(u)
    BY <2>1
  <2>4. held' \in [Users -> SUBSET {"enabled", "trusted"}]
    BY <2>1, <2>2
  <2>5. \A u \in Users : calls[u] # NULL =>
          /\ enabled' => "enabled" \in held'[u]
          /\ levels'[calls[u].role] = "write" => "trusted" \in held'[u]
          /\ calls[u].at # "enabled" => "enabled" \in held'[u]
          /\ calls[u].at \in {"target", "write"} =>
               "trusted" \in held'[u] /\ AppRule(calls[u].op, calls[u].role)
    BY <2>2, <2>3, <1>1 DEF GatesHold
  <2>. QED
    BY <2>4, <2>5, <1>1 DEF GatesHold
<1>. QED
  BY <1>3, <1>4, <1>5, <1>6

LEMMA RowChangesHold ==
  ASSUME IInv,
         \/ \E r \in RowIds, p \in 1..(Len(rows) + 1) : RowEnters(r, p)
         \/ \E p \in DOMAIN rows : RowLeaves(p) \/ RowMoves(p)
  PROVE  IInv'
<1>. USE DEF IInv
<1>1. RowsHold
  BY EntersHold, LeavesHold, MovesHold
<1>2. /\ UNCHANGED <<enabled, levels, roles, events, rule, listing, offered, calls, held,
                     offset, got, walk>>
      /\ edits' \in 0..MaxEdits
  BY EditTyped DEF RowEnters, RowLeaves, RowMoves, RowsAside, state, walkVars
<1>3. TypeOK'
  BY <1>1, <1>2 DEF RowsHold, TypeOK
<1>4. GatesHold' /\ TargetsHold' /\ ReadersHold'
  BY <1>2 DEF GatesHold, TargetsHold, ReadersHold, IsReading
<1>. QED
  BY <1>1, <1>3, <1>4 DEF RowsHold

LEMMA RestartHolds == ASSUME IInv, Restart PROVE IInv'
<1>. USE DEF IInv
<1>1. /\ UNCHANGED <<enabled, levels, roles, events, rule, rows, listing, offered, held>>
      /\ WalkAside /\ edits' \in 0..MaxEdits
      /\ calls' \in [Users -> CallType \cup {NULL}] /\ \A u \in Users : calls'[u] = NULL
  BY EditTyped DEF Restart, state, NoneOf
<1>2. UNCHANGED <<offset, got, walk, steady, slips>> /\ WalkHolds' /\ WalkMissesNothing'
  BY <1>1, WalkSame
<1>3. TypeOK'
  BY <1>1, <1>2 DEF TypeOK
<1>4. GatesHold' /\ TargetsHold' /\ ReadersHold'
  BY <1>1 DEF GatesHold, TargetsHold, ReadersHold, IsReading
<1>. QED
  BY <1>2, <1>3, <1>4

LEMMA StutterHolds == ASSUME IInv, UNCHANGED vars PROVE IInv'
<1>1. UNCHANGED <<enabled, levels, roles, events, rule, rows, listing, offered, calls,
                  offset, got, walk, edits, steady, slips, held>>
  BY DEF vars, state, walkVars
<1>2. PassedOver' = PassedOver
  BY <1>1 DEF PassedOver
<1>. QED
  BY <1>1, <1>2 DEF IInv, TypeOK, GatesHold, TargetsHold, ReadersHold, IsReading, WalkHolds,
                    WalkMissesNothing

LEMMA StepInv == ASSUME IInv, [Next]_vars PROVE IInv'
<1>1. CASE Calls
  BY <1>1, ReadsHold, WritesHold, PagesHold DEF Calls
<1>2. CASE Others
  BY <1>2, FetchesHold, EditsHold, SettingsHold, RowChangesHold DEF Others
<1>3. CASE Panel
  BY <1>3, PanelHolds
<1>4. CASE Restart
  BY <1>4, RestartHolds
<1>5. CASE UNCHANGED vars
  BY <1>5, StutterHolds
<1>. QED
  BY <1>1, <1>2, <1>3, <1>4, <1>5 DEF Next

LEMMA Inductive == Spec => []IInv
<1>. QED
  BY InitInv, StepInv, PTL DEF Spec
\* resonance_data.py:524: whatever the size budget cuts from a page, and whatever enters,
\* leaves or moves meanwhile, a walk to the empty page leaves out at most the rows that
\* slipped past its offset.
THEOREM Invariant == Spec => []Inv
<1>1. IInv => Inv
  BY DEF IInv, Inv
<1>. QED
  BY <1>1, Inductive, PTL

-----------------------------------------------------------------------------
(* The action properties.                                                  *)

LEMMA PermittedStep ==
  ASSUME IInv, [Next]_vars, NEW u \in Users, calls[u] # NULL, calls'[u] = NULL,
         <<events, rule>>' # <<events, rule>>
  PROVE  held[u] = {"enabled", "trusted"} /\ AppRule(calls[u].op, calls[u].role)
<1>1. PICK v \in Users : AckWrite(v) \/ AckAllWrite(v) \/ ToggleWrite(v)
  <2>1. CASE Calls
    <3>. SUFFICES ASSUME NEW v \in Users,
                         \/ ReadEnabled(v) \/ ReadAllowed(v) \/ ReadNotAllowed(v)
                         \/ ReadLevel(v) \/ ReadTarget(v) \/ AckFails(v) \/ Page(v)
                  PROVE  FALSE
      BY <2>1 DEF Calls
    <3>. QED
      BY DEF ReadEnabled, ReadAllowed, ReadNotAllowed, ReadLevel, ReadTarget, AckFails, Page,
             state
  <2>2. CASE Others
    <3>1. UNCHANGED calls
      BY <2>2 DEF Others, FetchGrant, FetchSpec, SaveSettings, SetRole, PageAckAll, PageAck,
                  RemoveEvent, PageRule, RowEnters, RowLeaves, RowMoves, RowsAside
    <3>. QED
      BY <3>1
  <2>3. CASE Panel \/ Restart \/ UNCHANGED vars
    <3>1. UNCHANGED <<events, rule>>
      BY <2>3 DEF Panel, Ask, Restart, vars, state
    <3>. QED
      BY <3>1
  <2>. QED
    BY <2>1, <2>2, <2>3 DEF Next
<1>2. Ends(v) /\ calls[v] # NULL /\ calls[v].at = "write"
  BY <1>1 DEF AckWrite, AckAllWrite, ToggleWrite, IsAt
<1>3. u = v
  BY <1>2 DEF Ends, IInv, TypeOK
<1>4. /\ held[u] \subseteq {"enabled", "trusted"} /\ "enabled" \in held[u]
      /\ "trusted" \in held[u] /\ AppRule(calls[u].op, calls[u].role)
  BY <1>2, <1>3 DEF IInv, GatesHold
<1>. QED
  BY <1>4

\* resonance_data.py:237: the gates are read one after another, and settings change between
\* the reads; still every change by the assistant had each of them open during its own
\* request, and is one the role may make on the page.
THEOREM Permitted == Spec => ChangesArePermitted
<1>. DEFINE A == \A u \in Users :
                   (calls[u] # NULL /\ calls'[u] = NULL
                     /\ <<events, rule>>' # <<events, rule>>) =>
                       /\ held[u] = {"enabled", "trusted"}
                       /\ AppRule(calls[u].op, calls[u].role)
<1>1. IInv /\ [Next]_vars => A
  BY PermittedStep
<1>2. IInv /\ [Next]_vars => [A]_vars
  BY <1>1
<1>. HIDE DEF A
<1>3. Spec => [][A]_vars
  BY <1>2, Inductive, PTL DEF Spec
<1>. QED
  BY <1>3 DEF A, ChangesArePermitted

LEMMA AckStep ==
  ASSUME IInv, [Next]_vars, NEW e \in Events, events[e] \notin {NULL, Unacked},
         events'[e] \notin {NULL, events[e]}
  PROVE  events'[e].via = "page"
<1>1. events \in [Events -> Acks \cup {NULL}]
  BY DEF IInv, TypeOK
<1>2. CASE Calls
  <2>1. PICK u \in Users :
          \/ UNCHANGED events
          \/ AckWrite(u) \/ AckAllWrite(u)
    BY <1>2 DEF Calls, ReadEnabled, ReadAllowed, ReadNotAllowed, ReadLevel, ReadTarget,
                AckFails, ToggleWrite, Page, state
  <2>2. AckWrite(u) \/ AckAllWrite(u) => events'[e] = events[e]
    BY DEF AckWrite, AckAllWrite, AckedBy, IsOutstanding
  <2>. QED
    BY <2>1, <2>2
<1>3. CASE Others
  <2>1. \/ UNCHANGED events
        \/ \E u \in Users : PageAckAll(u) \/ \E f \in Events : PageAck(u, f)
        \/ \E f \in Events : RemoveEvent(f)
    BY <1>3 DEF Others, FetchGrant, FetchSpec, SaveSettings, SetRole, PageRule, RowEnters,
                RowLeaves, RowMoves, RowsAside, state
  <2>2. ASSUME NEW u \in Users, PageAckAll(u) PROVE events'[e] = events[e]
    BY <2>2 DEF PageAckAll, IsOutstanding
  <2>3. ASSUME NEW u \in Users, NEW f \in Events, PageAck(u, f)
        PROVE  events'[e].via = "page"
    <3>1. events'[e] = events[e] \/ events'[e] = Ack(u, "page")
      BY <2>3, <1>1 DEF PageAck
    <3>. QED
      BY <3>1 DEF Ack
  <2>4. ASSUME NEW f \in Events, RemoveEvent(f)
        PROVE  events'[e] \in {NULL, events[e]}
    BY <2>4, <1>1 DEF RemoveEvent
  <2>. QED
    BY <2>1, <2>2, <2>3, <2>4
<1>4. CASE Panel \/ Restart \/ UNCHANGED vars
  BY <1>4 DEF Panel, Ask, Restart, vars, state
<1>. QED
  BY <1>2, <1>3, <1>4 DEF Next

\* resonance_data.py:1313: the UPDATE says acked = 0 again, whatever its SELECT has seen; so
\* the assistant never takes an acknowledgement over.
THEOREM AcksKept == Spec => AckKept
<1>. DEFINE A == \A e \in Events :
                   (events[e] \notin {NULL, Unacked} /\ events'[e] \notin {NULL, events[e]})
                     => events'[e].via = "page"
<1>1. IInv /\ [Next]_vars => A
  BY AckStep
<1>2. IInv /\ [Next]_vars => [A]_vars
  BY <1>1
<1>. HIDE DEF A
<1>3. Spec => [][A]_vars
  BY <1>2, Inductive, PTL DEF Spec
<1>. QED
  BY <1>3 DEF A, AckKept

=============================================================================
