--------------------------- MODULE Snapshots_proofs ---------------------------
(***************************************************************************)
(* Machine-checked proofs about StoreSnapshots, for the seven drivers and  *)
(* any number of clients, snapshots, faults and kept snapshots: cleaning   *)
(* never removes a snapshot that has to be kept and leaves no others, a    *)
(* load that nobody disturbs finds the snapshot it should, and what is     *)
(* loaded with a snapshot goes on behind it.                               *)
(***************************************************************************)
EXTENDS StoreSnapshots, FiniteSetTheorems, WellFoundedInduction, TLAPS

-----------------------------------------------------------------------------
(* Finite ordered sets *)

Orders(R, S) ==
  /\ \A a, b \in S : a # b => <<a, b>> \in R \/ <<b, a>> \in R
  /\ \A a, b, c \in S : <<a, b>> \in R /\ <<b, c>> \in R => <<a, c>> \in R

\* An ordered finite set has a first element: else there would be a smallest subset
\* without one.
LEMMA HasFirst ==
  ASSUME NEW S, IsFiniteSet(S), S # {}, NEW R, Orders(R, S)
  PROVE  \E m \in S : \A t \in S \ {m} : <<m, t>> \in R
<1>. DEFINE Has(U) == \E m \in U : \A t \in U \ {m} : <<m, t>> \in R
            Bad == {U \in FiniteSubsetsOf(S) : U # {} /\ ~Has(U)}
<1>1. CASE Bad = {}
  <2>1. S \in FiniteSubsetsOf(S)
    BY DEF FiniteSubsetsOf
  <2>. QED
    BY <1>1, <2>1
<1>2. CASE Bad # {}
  <2>1. PICK U \in Bad : \A V \in Bad : <<V, U>> \notin StrictSubsetOrdering(S)
    <3>1. PICK F, B, L : F = FiniteSubsetsOf(S) /\ B = Bad /\ L = StrictSubsetOrdering(S)
      OBVIOUS
    <3>2. B \subseteq F /\ B # {} /\ IsWellFoundedOn(L, F)
      BY <1>2, <3>1, FS_StrictSubsetOrderingWellFounded
    <3>3. \E U \in B : \A V \in B : ~(<<V, U>> \in L)
      BY <3>2, WFMin
    <3>. QED
      BY <3>1, <3>3
  <2>2. U \subseteq S /\ IsFiniteSet(U) /\ U # {} /\ ~Has(U)
    BY <2>1 DEF FiniteSubsetsOf
  <2>3. PICK x \in U : TRUE
    BY <2>2
  <2>4. PICK V : V = U \ {x}
    OBVIOUS
  <2>5. V \subseteq U /\ V # U /\ V \subseteq S /\ IsFiniteSet(V)
    BY <2>2, <2>3, <2>4, FS_Subset
  <2>6. V \in FiniteSubsetsOf(S) /\ <<V, U>> \in StrictSubsetOrdering(S)
    BY <2>2, <2>5 DEF FiniteSubsetsOf, StrictSubsetOrdering
  <2>7. CASE V = {}
    <3>1. U \ {x} = {}
      BY <2>4, <2>7
    <3>. QED
      BY <2>2, <2>3, <3>1
  <2>8. CASE Has(V)
    <3>1. PICK m \in V : \A t \in V \ {m} : <<m, t>> \in R
      BY <2>8
    <3>2. m # x /\ m \in U /\ m \in S /\ x \in S
      BY <2>2, <2>3, <2>4, <3>1
    <3>3. CASE <<m, x>> \in R
      <4>1. \A t \in U \ {m} : <<m, t>> \in R
        BY <2>4, <3>1, <3>3
      <4>. QED
        BY <2>2, <3>2, <4>1
    <3>4. CASE <<x, m>> \in R
      <4>1. ASSUME NEW t \in U \ {x} PROVE <<x, t>> \in R
        <5>1. CASE t = m
          BY <3>4, <5>1
        <5>2. CASE t # m
          <6>1. <<m, t>> \in R /\ t \in S
            BY <2>2, <2>4, <3>1, <4>1, <5>2
          <6>. QED
            BY <3>2, <3>4, <6>1 DEF Orders
        <5>. QED
          BY <5>1, <5>2
      <4>. QED
        BY <2>2, <2>3, <4>1
    <3>. QED
      BY <3>2, <3>3, <3>4 DEF Orders
  <2>. QED
    BY <2>1, <2>6, <2>7, <2>8
<1>. QED
  BY <1>1, <1>2

\* And a last one: the first in the order reversed.
LEMMA HasLast ==
  ASSUME NEW S, IsFiniteSet(S), S # {}, NEW R, Orders(R, S)
  PROVE  \E m \in S : \A t \in S \ {m} : <<t, m>> \in R
<1>. DEFINE Q == {w \in S \X S : <<w[2], w[1]>> \in R}
<1>1. \A a, b \in S : <<a, b>> \in Q <=> <<b, a>> \in R
  OBVIOUS
<1>. HIDE DEF Q
<1>2. Orders(Q, S)
  BY <1>1 DEF Orders
<1>3. PICK m \in S : \A t \in S \ {m} : <<m, t>> \in Q
  BY <1>2, HasFirst
<1>. QED
  BY <1>1, <1>3

-----------------------------------------------------------------------------
(* The orders of snapshots *)

LEMMA OneKey ==
  ASSUME NEW a \in Int, NEW b \in Int
  PROVE  KeyLess(<<a>>, <<b>>) <=> a < b
<1>. DEFINE k == <<a>>
            l == <<b>>
<1>1. DOMAIN k = {1} /\ k[1] = a /\ l[1] = b
  OBVIOUS
<1>2. 1 .. 1 - 1 = {}
  OBVIOUS
<1>. HIDE DEF k, l
<1>3. KeyLess(k, l) <=> k[1] < l[1]
  BY <1>1, <1>2 DEF KeyLess
<1>. QED
  BY <1>1, <1>3 DEF k, l

LEMMA TwoKeys ==
  ASSUME NEW a \in Int, NEW b \in Int, NEW c \in Int, NEW d \in Int
  PROVE  KeyLess(<<a, b>>, <<c, d>>) <=> a < c \/ (a = c /\ b < d)
<1>. DEFINE k == <<a, b>>
            l == <<c, d>>
<1>1. DOMAIN k = {1, 2} /\ k[1] = a /\ k[2] = b /\ l[1] = c /\ l[2] = d
  OBVIOUS
<1>2. 1 .. 1 - 1 = {} /\ 1 .. 2 - 1 = {1}
  OBVIOUS
<1>. HIDE DEF k, l
<1>3. KeyLess(k, l) <=> k[1] < l[1] \/ (k[2] < l[2] /\ k[1] = l[1])
  BY <1>1, <1>2 DEF KeyLess
<1>. QED
  BY <1>1, <1>3 DEF k, l

LEMMA MaxOfTwo ==
  ASSUME NEW a \in Int, NEW b \in Int
  PROVE  Max({a, b}) = IF a >= b THEN a ELSE b
<1>1. ASSUME NEW x \in {a, b}, \A y \in {a, b} : x >= y PROVE x = IF a >= b THEN a ELSE b
  BY <1>1
<1>2. \E x \in {a, b} : \A y \in {a, b} : x >= y
  OBVIOUS
<1>. QED
  BY <1>1, <1>2 DEF Max

LEMMA SnapshotType ==
  ASSUME SnapshotAssumption, NEW s \in Snapshot
  PROVE  /\ s.id \in Nat /\ s.rev \in Nat /\ s.stamp \in Nat
         /\ s.id < MaxSnaps /\ s.rev <= MaxRevision /\ s.stamp <= MaxSnaps
         /\ s # NoSnap
BY DEF SnapshotAssumption, Snapshot, NoSnap

LEMMA KeyOrder ==
  ASSUME SnapshotAssumption, driver \in Drivers, NEW s \in Snapshot, NEW t \in Snapshot
  PROVE  KeyLess(Key(s), Key(t)) <=>
           IF driver = "redis" THEN s.stamp < t.stamp \/ (s.stamp = t.stamp /\ s.id < t.id)
                               ELSE s.id < t.id
<1>1. /\ s.id \in Int /\ s.stamp \in Int /\ t.id \in Int /\ t.stamp \in Int
      /\ driver \in {"mongodb", "tingodb", "inmemory", "redis", "dynamodb", "azuretable",
                     "elasticsearch"}
  BY SnapshotType DEF SnapshotAssumption
<1>2. CASE driver = "redis"
  <2>1. Key(s) = <<s.stamp, s.id>> /\ Key(t) = <<t.stamp, t.id>>
    BY <1>2 DEF Key, Redis_addSnapshot
  <2>. QED
    BY <1>1, <1>2, <2>1, TwoKeys
<1>3. CASE driver # "redis"
  <2>1. Key(s) = <<s.id>> /\ Key(t) = <<t.id>>
    BY <1>1, <1>3 DEF Key, Mongodb_addSnapshot, Tingodb_addSnapshot, Inmemory_addSnapshot,
       Dynamodb_addSnapshot, Azuretable_addSnapshot, Elasticsearch_addSnapshot
  <2>. QED
    BY <1>1, <1>3, <2>1, OneKey
<1>. QED
  BY <1>2, <1>3

OwnIds(S) == \A s, t \in S : s.id = t.id => s = t

ByRevision(S) == {w \in S \X S : HighestFirst(w[1], w[2])}

ByTime(S) == {w \in S \X S : NewestFirst(w[1], w[2])}

ByKey(S) == {w \in S \X S : KeysReversed(w[1], w[2])}

\* Snapshots with ids of their own are ordered in each of the ways the drivers sort them.
LEMMA SnapshotsAreOrdered ==
  ASSUME SnapshotAssumption, driver \in Drivers, NEW S, S \subseteq Snapshot, OwnIds(S)
  PROVE  Orders(ByRevision(S), S) /\ Orders(ByTime(S), S) /\ Orders(ByKey(S), S)
<1>1. \A s \in S : s \in Snapshot /\ s.id \in Int /\ s.rev \in Int /\ s.stamp \in Int
  BY SnapshotType
<1>2. ASSUME NEW s \in S, NEW t \in S
      PROVE  KeyLess(Key(s), Key(t)) <=>
               IF driver = "redis" THEN s.stamp < t.stamp \/ (s.stamp = t.stamp /\ s.id < t.id)
                                   ELSE s.id < t.id
  BY <1>1, KeyOrder
<1>3. \A s, t \in S : s # t => s.id # t.id
  BY DEF OwnIds
<1>4. Orders(ByRevision(S), S)
  <2>1. \A s, t \in S : <<s, t>> \in ByRevision(S) <=> HighestFirst(s, t)
    BY DEF ByRevision
  <2>2. ASSUME NEW s \in S, NEW t \in S, s # t PROVE HighestFirst(s, t) \/ HighestFirst(t, s)
    BY <1>1, <1>2, <1>3, <2>2 DEF HighestFirst
  <2>3. ASSUME NEW s \in S, NEW t \in S, NEW u \in S, HighestFirst(s, t), HighestFirst(t, u)
        PROVE  HighestFirst(s, u)
    BY <1>1, <1>2, <2>3 DEF HighestFirst
  <2>. QED
    BY <2>1, <2>2, <2>3 DEF Orders
<1>5. Orders(ByTime(S), S)
  <2>1. \A s, t \in S : <<s, t>> \in ByTime(S) <=> NewestFirst(s, t)
    BY DEF ByTime
  <2>2. ASSUME NEW s \in S, NEW t \in S, s # t PROVE NewestFirst(s, t) \/ NewestFirst(t, s)
    BY <1>1, <1>2, <1>3, <2>2 DEF NewestFirst
  <2>3. ASSUME NEW s \in S, NEW t \in S, NEW u \in S, NewestFirst(s, t), NewestFirst(t, u)
        PROVE  NewestFirst(s, u)
    BY <1>1, <1>2, <2>3 DEF NewestFirst
  <2>. QED
    BY <2>1, <2>2, <2>3 DEF Orders
<1>6. Orders(ByKey(S), S)
  <2>1. \A s, t \in S : <<s, t>> \in ByKey(S) <=> KeyLess(Key(t), Key(s))
    BY DEF ByKey, KeysReversed
  <2>2. ASSUME NEW s \in S, NEW t \in S, s # t
        PROVE  KeyLess(Key(t), Key(s)) \/ KeyLess(Key(s), Key(t))
    BY <1>1, <1>2, <1>3, <2>2
  <2>3. ASSUME NEW s \in S, NEW t \in S, NEW u \in S,
               KeyLess(Key(t), Key(s)), KeyLess(Key(u), Key(t))
        PROVE  KeyLess(Key(u), Key(s))
    BY <1>1, <1>2, <2>3
  <2>. QED
    BY <2>1, <2>2, <2>3 DEF Orders
<1>. QED
  BY <1>4, <1>5, <1>6

\* First of a set that is not empty is one of its elements and comes before the others.
LEMMA FirstIsFirst ==
  ASSUME SnapshotAssumption, driver \in Drivers, NEW S, S \subseteq Snapshot, OwnIds(S),
         IsFiniteSet(S), S # {}
  PROVE  /\ First(S, HighestFirst) \in S
         /\ \A t \in S \ {First(S, HighestFirst)} : HighestFirst(First(S, HighestFirst), t)
         /\ First(S, NewestFirst) \in S
         /\ \A t \in S \ {First(S, NewestFirst)} : NewestFirst(First(S, NewestFirst), t)
         /\ First(S, OldestFirst) \in S
         /\ First(S, KeysReversed) \in S
         /\ \A t \in S \ {First(S, KeysReversed)} : KeysReversed(First(S, KeysReversed), t)
<1>1. Orders(ByRevision(S), S) /\ Orders(ByTime(S), S) /\ Orders(ByKey(S), S)
  BY SnapshotsAreOrdered
<1>2. \E m \in S : \A t \in S \ {m} : HighestFirst(m, t)
  <2>1. PICK m \in S : \A t \in S \ {m} : <<m, t>> \in ByRevision(S)
    BY <1>1, HasFirst
  <2>2. \A t \in S \ {m} : HighestFirst(m, t)
    BY <2>1 DEF ByRevision
  <2>. QED
    BY <2>2
<1>3. \E m \in S : \A t \in S \ {m} : NewestFirst(m, t)
  <2>1. PICK m \in S : \A t \in S \ {m} : <<m, t>> \in ByTime(S)
    BY <1>1, HasFirst
  <2>2. \A t \in S \ {m} : NewestFirst(m, t)
    BY <2>1 DEF ByTime
  <2>. QED
    BY <2>2
<1>4. \E m \in S : \A t \in S \ {m} : OldestFirst(m, t)
  <2>1. PICK m \in S : \A t \in S \ {m} : <<t, m>> \in ByTime(S)
    BY <1>1, HasLast
  <2>2. \A t \in S \ {m} : OldestFirst(m, t)
    BY <2>1 DEF ByTime, OldestFirst
  <2>. QED
    BY <2>2
<1>5. \E m \in S : \A t \in S \ {m} : KeysReversed(m, t)
  <2>1. PICK m \in S : \A t \in S \ {m} : <<m, t>> \in ByKey(S)
    BY <1>1, HasFirst
  <2>2. \A t \in S \ {m} : KeysReversed(m, t)
    BY <2>1 DEF ByKey
  <2>. QED
    BY <2>2
<1>. QED
  BY <1>2, <1>3, <1>4, <1>5 DEF First

-----------------------------------------------------------------------------
(* What cleaning removes, and the latest of some revisions *)

Before(a, b) ==
  IF driver \in {"redis", "inmemory"} THEN KeysReversed(a, b) ELSE HighestFirst(a, b)

Excess(S) == {s \in S : Cardinality({t \in S : Before(t, s)}) >= maxCount}

Cleans == driver \notin {"dynamodb", "azuretable"}

LEMMA CleanIsExcess ==
  ASSUME SnapshotAssumption, driver \in Drivers, NEW S
  PROVE  /\ CleanSnapshots(S) = IF Cleans THEN Excess(S) ELSE {}
         /\ Kept(S) = S \ Excess(S)
<1>1. driver \in {"mongodb", "tingodb", "inmemory", "redis", "dynamodb", "azuretable",
                  "elasticsearch"}
  BY DEF SnapshotAssumption
<1>2. CASE driver \in {"redis", "inmemory"}
  <2>1. Excess(S) = Beyond(S, maxCount, KeysReversed)
    BY <1>2 DEF Excess, Before, Beyond
  <2>. QED
    BY <1>2, <2>1 DEF CleanSnapshots, Kept, Redis_cleanSnapshots, Inmemory_cleanSnapshots, Cleans
<1>3. CASE driver \notin {"redis", "inmemory"}
  <2>1. Excess(S) = Beyond(S, maxCount, HighestFirst)
    BY <1>3 DEF Excess, Before, Beyond
  <2>. QED
    BY <1>1, <1>3, <2>1 DEF CleanSnapshots, Kept, Mongodb_cleanSnapshots,
       Tingodb_cleanSnapshots, Elasticsearch_cleanSnapshots, Cleans
<1>. QED
  BY <1>2, <1>3

\* What is in excess of some snapshots is in excess of more of them.
LEMMA ExcessGrows ==
  ASSUME NEW S, NEW T, S \subseteq T, IsFiniteSet(T), maxCount \in Nat
  PROVE  Excess(S) \subseteq Excess(T)
<1>1. ASSUME NEW s \in Excess(S) PROVE s \in Excess(T)
  <2>1. PICK less, more : /\ less = {t \in S : Before(t, s)}
                          /\ more = {t \in T : Before(t, s)}
    OBVIOUS
  <2>2. less \subseteq more /\ more \subseteq T
    BY <2>1
  <2>3. IsFiniteSet(more)
    BY <2>2, FS_Subset
  <2>4. IsFiniteSet(less) /\ Cardinality(less) <= Cardinality(more)
    BY <2>2, <2>3, FS_Subset
  <2>5. Cardinality(less) \in Nat /\ Cardinality(more) \in Nat
    BY <2>3, <2>4, FS_CardinalityType
  <2>6. s \in S /\ Cardinality(less) >= maxCount
    BY <1>1, <2>1 DEF Excess
  <2>7. Cardinality(more) >= maxCount
    BY <2>4, <2>5, <2>6
  <2>. QED
    BY <2>1, <2>6, <2>7 DEF Excess
<1>. QED
  BY <1>1

\* A set without excess has no more than maxCount elements: all others precede the last.
LEMMA NoExcess ==
  ASSUME SnapshotAssumption, driver \in Drivers, maxCount \in Nat,
         NEW S, S \subseteq Snapshot, OwnIds(S), IsFiniteSet(S), Excess(S) = {}
  PROVE  Cardinality(S) <= maxCount
<1>1. CASE S = {}
  BY <1>1, FS_EmptySet
<1>2. CASE S # {}
  <2>1. PICK m \in S : \A t \in S \ {m} : Before(t, m)
    <3>1. Orders(ByRevision(S), S) /\ Orders(ByKey(S), S)
      BY SnapshotsAreOrdered
    <3>2. CASE driver \in {"redis", "inmemory"}
      <4>1. PICK m \in S : \A t \in S \ {m} : <<t, m>> \in ByKey(S)
        BY <1>2, <3>1, HasLast
      <4>2. \A t \in S \ {m} : Before(t, m)
        BY <3>2, <4>1 DEF ByKey, Before
      <4>. QED
        BY <4>2
    <3>3. CASE driver \notin {"redis", "inmemory"}
      <4>1. PICK m \in S : \A t \in S \ {m} : <<t, m>> \in ByRevision(S)
        BY <1>2, <3>1, HasLast
      <4>2. \A t \in S \ {m} : Before(t, m)
        BY <3>3, <4>1 DEF ByRevision, Before
      <4>. QED
        BY <4>2
    <3>. QED
      BY <3>2, <3>3
  <2>2. PICK rest, all : rest = S \ {m} /\ all = {t \in S : Before(t, m)}
    OBVIOUS
  <2>3. rest \subseteq all /\ all \subseteq S
    BY <2>1, <2>2
  <2>4. IsFiniteSet(all) /\ IsFiniteSet(rest) /\ Cardinality(rest) = Cardinality(S) - 1
    BY <2>2, <2>3, FS_Subset, FS_RemoveElement
  <2>5. Cardinality(rest) <= Cardinality(all)
    BY <2>3, <2>4, FS_Subset
  <2>6. Cardinality(rest) \in Nat /\ Cardinality(all) \in Nat /\ Cardinality(S) \in Nat
    BY <2>4, FS_CardinalityType
  <2>7. ~(Cardinality(all) >= maxCount)
    BY <2>2 DEF Excess
  <2>. QED
    BY <2>4, <2>5, <2>6, <2>7
<1>. QED
  BY <1>1, <1>2

LEMMA LatestIsLast ==
  ASSUME SnapshotAssumption, NEW revs, revs \subseteq 0 .. MaxRevision
  PROVE  /\ Latest(revs) \in revs \cup {-1}
         /\ \A r \in revs : r <= Latest(revs)
<1>. DEFINE S == revs \cup {-1}
            R == {w \in S \X S : w[1] >= w[2]}
<1>1. S \subseteq Int /\ IsFiniteSet(S) /\ S # {}
  <2>1. IsFiniteSet(0 .. MaxRevision)
    BY FS_Interval DEF SnapshotAssumption
  <2>2. IsFiniteSet(revs)
    BY <2>1, FS_Subset
  <2>. QED
    BY <2>2, FS_AddElement
<1>2. ASSUME NEW a \in S, NEW b \in S PROVE <<a, b>> \in R <=> a >= b
  OBVIOUS
<1>. HIDE DEF R, S
<1>3. Orders(R, S)
  <2>1. ASSUME NEW a \in S, NEW b \in S, NEW c \in S
        PROVE  (a >= b \/ b >= a) /\ (a >= b /\ b >= c => a >= c)
    <3>1. a \in Int /\ b \in Int /\ c \in Int
      BY <1>1
    <3>. QED
      BY <3>1
  <2>. QED
    <3>1. \A a, b \in S : a # b => <<a, b>> \in R \/ <<b, a>> \in R
      BY <1>2, <2>1
    <3>2. \A a, b, c \in S : <<a, b>> \in R /\ <<b, c>> \in R => <<a, c>> \in R
      BY <1>2, <2>1
    <3>. QED
      BY <3>1, <3>2 DEF Orders
<1>4. PICK m \in S : \A t \in S \ {m} : <<m, t>> \in R
  <2>1. PICK T, Q : T = S /\ Q = R
    OBVIOUS
  <2>2. IsFiniteSet(T) /\ T # {} /\ Orders(Q, T)
    BY <1>1, <1>3, <2>1
  <2>3. \E m \in T : \A t \in T \ {m} : <<m, t>> \in Q
    BY <2>2, HasFirst
  <2>. QED
    BY <2>1, <2>3
<1>5. ASSUME NEW t \in S PROVE m >= t
  <2>1. t \in Int
    BY <1>1
  <2>2. t # m => <<m, t>> \in R
    BY <1>4
  <2>3. t # m => m >= t
    BY <1>2, <2>2
  <2>. QED
    BY <2>1, <2>3
<1>6. Latest(revs) \in S /\ \A t \in S : Latest(revs) >= t
  BY <1>5 DEF Latest, Max, S
<1>. QED
  BY <1>1, <1>6 DEF S

-----------------------------------------------------------------------------
(* The inductive invariant *)

Asked ==
  [pc : {"asked"}, revMax : RevMaxs, before : SUBSET Snapshot, past : SUBSET Snapshot]

Calls ==
  [pc : {"idle", "cleaning", "rejected", "thrown"}]
    \cup [pc : {"adding"}, snap : Snapshot]
    \cup [pc : {"removing"}, doomed : SUBSET Snapshot]
    \cup [pc : {"scan"}, found : SUBSET Snapshot, of : [pc : {"cleaning"}] \cup Asked]
    \cup Asked
    \cup [pc : {"keys"}, revMax : RevMaxs, keys : SUBSET Snapshot,
          before : SUBSET Snapshot, past : SUBSET Snapshot]
    \cup [pc : {"found"}, revMax : RevMaxs, snap : Snapshot \cup {NoSnap}]
    \cup [pc : {"answered"}, revMax : RevMaxs, snap : Snapshot \cup {NoSnap}, lastRevision : Int]
    \cup [pc : {"deleting"}, left : SUBSET {"events", "snapshots"}]

Types ==
  /\ driver \in Drivers /\ maxCount \in Counts
  /\ stream \subseteq 0 .. MaxRevision /\ used \subseteq 0 .. MaxRevision /\ reused \in BOOLEAN
  /\ snaps \subseteq ever /\ ever \subseteq Snapshot /\ IsFiniteSet(ever)
  /\ late \subseteq SUBSET Snapshot
  /\ made \in 0 .. MaxSnaps /\ clock \in 0 .. made /\ faults \in 0 .. MaxFaults
  /\ call \in [Client -> Calls]

\* Only redis scans; only mongodb deletes, so what others looked at was stored.
Fits(c) ==
  /\ c.pc \in {"scan", "keys"} => driver = "redis"
  /\ c.pc = "deleting" => driver = "mongodb"
  /\ driver # "mongodb" =>
       /\ c.pc = "asked" => c.before \subseteq ever /\ c.past \subseteq ever
       /\ c.pc = "keys" => c.keys \subseteq ever /\ c.past \subseteq ever
       /\ c.pc = "scan" => /\ c.found \subseteq ever
                           /\ c.of.pc = "asked" => c.of.past \subseteq ever

CallsFit == \A p \in Client : Fits(call[p])

\* The snapshots that calls, answered or not, are about to remove.
Doomed ==
  {d \in Snapshot : \/ \E gone \in late : d \in gone
                    \/ \E p \in Client : call[p].pc = "removing" /\ d \in call[p].doomed}

\* A snapshot that is still to be added is none of those that were.
IdsDiffer ==
  /\ OwnIds(ever)
  /\ \A s \in ever \cup Doomed : s.id < made
  /\ \A p \in Client : call[p].pc = "adding" =>
       /\ call[p].snap.id < made
       /\ \A s \in ever \cup Doomed : s.id # call[p].snap.id
  /\ \A p, r \in Client :
       (p # r /\ call[p].pc = "adding" /\ call[r].pc = "adding") =>
         call[p].snap.id # call[r].snap.id

\* What was removed, and what is about to be, has maxCount snapshots before it.
GoneInExcess == \A d \in (ever \ snaps) \cup Doomed : d \in ever => d \in Excess(ever)

\* A client that will look at all that is stored before it removes what is in excess.
WillClean(c) ==
  c.pc = "cleaning" \/ (c.pc = "scan" /\ c.of.pc = "cleaning" /\ snaps \subseteq c.found)

ExcessIsDoomed ==
  (Cleans /\ faults = 0) =>
    (\E p \in Client : WillClean(call[p])) \/ Excess(snaps) \subseteq Doomed

StoreInv == Types /\ CallsFit /\ IdsDiffer /\ GoneInExcess /\ ExcessIsDoomed

-----------------------------------------------------------------------------
(* Calls *)

LEMMA CallFields ==
  ASSUME NEW c \in Calls
  PROVE  /\ c.pc = "adding" => c.snap \in Snapshot
         /\ c.pc = "removing" => c.doomed \subseteq Snapshot
         /\ c.pc = "scan" => /\ c.found \subseteq Snapshot
                             /\ c.of.pc = "cleaning" \/ c.of \in Asked
         /\ c.pc = "asked" => c \in Asked
         /\ c.pc = "keys" => /\ c.revMax \in RevMaxs /\ c.keys \subseteq Snapshot
                             /\ c.before \subseteq Snapshot /\ c.past \subseteq Snapshot
         /\ c.pc \in {"found", "answered"} =>
              c.revMax \in RevMaxs /\ c.snap \in Snapshot \cup {NoSnap}
         /\ c.pc = "deleting" => c.left \subseteq {"events", "snapshots"}
BY DEF Calls, Asked

LEMMA AskedFields ==
  ASSUME NEW c \in Asked
  PROVE  /\ c.pc = "asked" /\ c.revMax \in RevMaxs
         /\ c.before \subseteq Snapshot /\ c.past \subseteq Snapshot
BY DEF Asked

LEMMA IdleIsCall == Idle \in Calls /\ Idle.pc = "idle"
BY DEF Idle, Calls

LEMMA CallTurns ==
  ASSUME Types, NEW p \in Client, NEW c \in Calls, call' = [call EXCEPT ![p] = c]
  PROVE  /\ call' \in [Client -> Calls]
         /\ call'[p] = c
         /\ \A r \in Client : r # p => call'[r] = call[r]
BY DEF Types

LEMMA RemovalsAre ==
  ASSUME NEW doomed, NEW gone \in Removals(doomed)
  PROVE  /\ gone \subseteq doomed
         /\ driver \notin {"mongodb", "elasticsearch"} => gone = doomed
         /\ driver = "elasticsearch" /\ gone # doomed => faults < MaxFaults
<1>1. CASE driver = "mongodb"
  BY <1>1 DEF Removals
<1>2. CASE driver = "elasticsearch"
  BY <1>2 DEF Removals
<1>3. CASE driver \notin {"mongodb", "elasticsearch"}
  BY <1>3 DEF Removals
<1>. QED
  BY <1>1, <1>2, <1>3

\* What a lookup answers.
LEMMA GetSnapshotIs ==
  ASSUME SnapshotAssumption, driver \in Drivers, driver # "redis",
         NEW S, S \subseteq Snapshot, OwnIds(S), IsFiniteSet(S),
         NEW revMax \in Nat \cup {-1}, NEW m, m = GetSnapshot(S, revMax)
  PROVE  \/ Below(S, revMax) = {} /\ m = NoSnap
         \/ /\ m \in Below(S, revMax)
            /\ driver \in {"mongodb", "tingodb", "elasticsearch"} =>
                 \A t \in Below(S, revMax) \ {m} : HighestFirst(m, t)
            /\ (driver \in {"dynamodb", "azuretable"} \/ (driver = "inmemory" /\ revMax = -1)) =>
                 \A t \in Below(S, revMax) \ {m} : NewestFirst(m, t)
<1>1. PICK U : U = Below(S, revMax)
  OBVIOUS
<1>2. U \subseteq S /\ (revMax = -1 => U = S)
  BY <1>1 DEF Below
<1>3. U \subseteq Snapshot /\ IsFiniteSet(U) /\ OwnIds(U)
  BY <1>2, FS_Subset DEF OwnIds
<1>4. driver \in {"mongodb", "tingodb", "inmemory", "dynamodb", "azuretable", "elasticsearch"}
  BY DEF SnapshotAssumption
<1>5. m = CASE driver \in {"mongodb", "tingodb", "elasticsearch"} -> First(U, HighestFirst)
            [] driver \in {"dynamodb", "azuretable"} -> First(U, NewestFirst)
            [] driver = "inmemory" -> IF revMax = -1 THEN First(U, NewestFirst)
                                                     ELSE First(U, OldestFirst)
  BY <1>1, <1>2, <1>4 DEF GetSnapshot, Mongodb_getSnapshot, Tingodb_getSnapshot,
     Elasticsearch_getSnapshot, Dynamodb_getSnapshot, Azuretable_getSnapshot, Inmemory_getSnapshot
<1>6. CASE U = {}
  <2>1. First(U, HighestFirst) = NoSnap /\ First(U, NewestFirst) = NoSnap
        /\ First(U, OldestFirst) = NoSnap
    BY <1>6 DEF First
  <2>2. m = NoSnap
    BY <1>4, <1>5, <2>1
  <2>. QED
    BY <1>1, <1>6, <2>2
<1>7. CASE U # {}
  <2>1. /\ First(U, HighestFirst) \in U
        /\ \A t \in U \ {First(U, HighestFirst)} : HighestFirst(First(U, HighestFirst), t)
        /\ First(U, NewestFirst) \in U
        /\ \A t \in U \ {First(U, NewestFirst)} : NewestFirst(First(U, NewestFirst), t)
        /\ First(U, OldestFirst) \in U
    BY <1>3, <1>7, FirstIsFirst
  <2>2. CASE driver \in {"mongodb", "tingodb", "elasticsearch"}
    <3>1. m = First(U, HighestFirst)
      BY <1>5, <2>2
    <3>. QED
      BY <1>1, <2>1, <2>2, <3>1
  <2>3. CASE driver \in {"dynamodb", "azuretable"}
    <3>1. m = First(U, NewestFirst)
      BY <1>5, <2>3
    <3>. QED
      BY <1>1, <2>1, <2>3, <3>1
  <2>4. CASE driver = "inmemory"
    <3>1. m = IF revMax = -1 THEN First(U, NewestFirst) ELSE First(U, OldestFirst)
      BY <1>5, <2>4
    <3>. QED
      BY <1>1, <2>1, <2>4, <3>1
  <2>. QED
    BY <1>4, <2>2, <2>3, <2>4
<1>. QED
  BY <1>6, <1>7

-----------------------------------------------------------------------------
(* Steps that only change what one client is doing *)

Stored == <<driver, maxCount, used, reused, stream, snaps, ever, made, clock, late, faults>>

\* A step of a client that neither begins nor ends a removal.
LEMMA CallStep ==
  ASSUME StoreInv, UNCHANGED <<driver, maxCount, snaps, ever, made, late, faults>>,
         stream' \subseteq 0 .. MaxRevision, used' \subseteq 0 .. MaxRevision,
         reused' \in BOOLEAN, clock' \in 0 .. made,
         NEW p \in Client, NEW c \in Calls, call' = [call EXCEPT ![p] = c],
         call[p].pc # "removing", c.pc \notin {"removing", "adding"}, Fits(c),
         WillClean(call[p]) => WillClean(c)
  PROVE  StoreInv'
<1>1. /\ call' \in [Client -> Calls]
      /\ call'[p] = c
      /\ \A r \in Client : r # p => call'[r] = call[r]
  BY CallTurns DEF StoreInv
<1>2. Types'
  BY <1>1 DEF StoreInv, Types
<1>3. \A d : Fits(d)' <=> Fits(d)
  BY DEF Fits
<1>4. CallsFit'
  BY <1>1, <1>3 DEF StoreInv, CallsFit, Fits
<1>5. Doomed' = Doomed
  <2>1. \A r \in Client : (call'[r].pc = "removing") <=> (call[r].pc = "removing")
    BY <1>1
  <2>2. \A r \in Client : call[r].pc = "removing" => call'[r] = call[r]
    BY <1>1
  <2>. QED
    BY <2>1, <2>2 DEF Doomed
<1>6. \A r \in Client : call'[r].pc = "adding" => r # p /\ call'[r] = call[r]
  BY <1>1
<1>7. IdsDiffer'
  BY <1>5, <1>6 DEF StoreInv, IdsDiffer, OwnIds
<1>8. Excess(ever)' = Excess(ever) /\ Excess(snaps)' = Excess(snaps)
  BY DEF Excess, Before, KeysReversed, HighestFirst, Key, Mongodb_addSnapshot,
     Tingodb_addSnapshot, Inmemory_addSnapshot, Redis_addSnapshot, Dynamodb_addSnapshot,
     Azuretable_addSnapshot, Elasticsearch_addSnapshot
<1>9. GoneInExcess'
  BY <1>5, <1>8 DEF StoreInv, GoneInExcess
<1>10. ExcessIsDoomed'
  <2>1. \A r \in Client : WillClean(call[r]) => WillClean(call[r])'
    BY <1>1 DEF WillClean
  <2>. QED
    BY <1>5, <1>8, <2>1 DEF StoreInv, ExcessIsDoomed, Cleans
<1>. QED
  BY <1>2, <1>4, <1>7, <1>9, <1>10 DEF StoreInv

LEMMA SameCalls ==
  ASSUME StoreInv, UNCHANGED <<driver, maxCount, snaps, ever, made, clock, late, faults, call>>,
         stream' \subseteq 0 .. MaxRevision, used' \subseteq 0 .. MaxRevision, reused' \in BOOLEAN
  PROVE  StoreInv'
<1>1. Types'
  BY DEF StoreInv, Types
<1>2. CallsFit' /\ Doomed' = Doomed
  BY DEF StoreInv, CallsFit, Fits, Doomed
<1>3. Excess(ever)' = Excess(ever) /\ Excess(snaps)' = Excess(snaps)
  BY DEF Excess, Before, KeysReversed, HighestFirst, Key, Mongodb_addSnapshot,
     Tingodb_addSnapshot, Inmemory_addSnapshot, Redis_addSnapshot, Dynamodb_addSnapshot,
     Azuretable_addSnapshot, Elasticsearch_addSnapshot
<1>4. IdsDiffer' /\ GoneInExcess'
  BY <1>2, <1>3 DEF StoreInv, IdsDiffer, OwnIds, GoneInExcess
<1>5. ExcessIsDoomed'
  <2>1. \A r \in Client : WillClean(call[r])' <=> WillClean(call[r])
    BY DEF WillClean
  <2>. QED
    BY <1>2, <1>3, <2>1 DEF StoreInv, ExcessIsDoomed, Cleans
<1>. QED
  BY <1>1, <1>2, <1>4, <1>5 DEF StoreInv

LEMMA CommitStep == SnapshotAssumption /\ StoreInv /\ Commit => StoreInv'
<1>. SUFFICES ASSUME SnapshotAssumption, StoreInv, Commit PROVE StoreInv'
  OBVIOUS
<1>1. PICK r : r = NextRevision(Latest(stream)) /\ Store(r)
  BY DEF Commit
<1>2. MaxRevision \in Nat /\ stream \subseteq 0 .. MaxRevision /\ used \subseteq 0 .. MaxRevision
      /\ reused \in BOOLEAN
  BY DEF StoreInv, Types, SnapshotAssumption
<1>3. Latest(stream) \in (0 .. MaxRevision) \cup {-1} /\ Latest(stream) < MaxRevision
  BY <1>2, LatestIsLast DEF Commit
<1>4. r \in 0 .. MaxRevision
  BY <1>1, <1>2, <1>3 DEF NextRevision
<1>5. /\ stream' \subseteq 0 .. MaxRevision /\ used' \subseteq 0 .. MaxRevision
      /\ reused' \in BOOLEAN
  BY <1>1, <1>2, <1>4 DEF Store
<1>6. UNCHANGED <<driver, maxCount, snaps, ever, made, clock, late, faults, call>>
  BY DEF Commit
<1>. QED
  BY <1>5, <1>6, SameCalls

\* The same for steps that store nothing.
LEMMA LocalStep ==
  ASSUME StoreInv, UNCHANGED Stored, NEW p \in Client, NEW c \in Calls,
         call' = [call EXCEPT ![p] = c],
         call[p].pc # "removing", c.pc \notin {"removing", "adding"}, Fits(c),
         WillClean(call[p]) => WillClean(c)
  PROVE  StoreInv'
<1>1. /\ UNCHANGED <<driver, maxCount, snaps, ever, made, late, faults>>
      /\ stream' \subseteq 0 .. MaxRevision /\ used' \subseteq 0 .. MaxRevision
      /\ reused' \in BOOLEAN /\ clock' \in 0 .. made
  BY DEF Stored, StoreInv, Types
<1>. QED
  BY <1>1, CallStep

LEMMA ScanBeginsStep ==
  ASSUME StoreInv, NEW p \in Client, ScanBegins(p)
  PROVE  StoreInv'
<1>1. PICK c : c = [pc |-> "scan", found |-> snaps, of |-> call[p]]
  OBVIOUS
<1>2. call[p] \in Calls /\ snaps \subseteq ever /\ ever \subseteq Snapshot /\ Fits(call[p])
  BY DEF StoreInv, Types, CallsFit
<1>3. call[p].pc \in {"cleaning", "asked"} /\ driver = "redis"
  BY DEF ScanBegins
<1>4. call[p] \in [pc : {"cleaning"}] \cup Asked
  BY <1>2, <1>3 DEF Calls
<1>5. c \in Calls /\ c.pc = "scan" /\ c.found = snaps /\ c.of = call[p]
  BY <1>1, <1>2, <1>4 DEF Calls
<1>6. Fits(c)
  BY <1>2, <1>3, <1>5 DEF Fits
<1>7. WillClean(call[p]) => WillClean(c)
  BY <1>3, <1>5 DEF WillClean
<1>8. UNCHANGED Stored /\ call' = [call EXCEPT ![p] = c]
  BY <1>1 DEF ScanBegins, Stored
<1>. QED
  BY <1>3, <1>5, <1>6, <1>7, <1>8, LocalStep

LEMMA GetFromSnapshotStep ==
  ASSUME StoreInv, NEW p \in Client, NEW m \in RevMaxs, GetFromSnapshot(p, m)
  PROVE  StoreInv'
<1>1. PICK c : c = [pc |-> "asked", revMax |-> m, before |-> snaps, past |-> ever]
  OBVIOUS
<1>2. snaps \subseteq ever /\ ever \subseteq Snapshot
  BY DEF StoreInv, Types
<1>3. c \in Calls /\ c.pc = "asked" /\ c.before = snaps /\ c.past = ever
  BY <1>1, <1>2 DEF Calls, Asked
<1>4. Fits(c)
  BY <1>2, <1>3 DEF Fits
<1>5. call[p].pc = "idle" /\ UNCHANGED Stored /\ call' = [call EXCEPT ![p] = c]
  BY <1>1 DEF GetFromSnapshot, Stored
<1>6. ~WillClean(call[p])
  BY <1>5 DEF WillClean
<1>. QED
  BY <1>3, <1>4, <1>5, <1>6, LocalStep

\* What Found makes of the answer of a lookup.
LEMMA FoundIs ==
  ASSUME NEW p \in Client, call[p].revMax \in RevMaxs, NEW snap \in Snapshot \cup {NoSnap}
  PROVE  /\ Found(p, snap) \in Calls
         /\ \/ /\ Found(p, snap).pc = "found" /\ Found(p, snap).snap = snap
               /\ Found(p, snap).revMax = call[p].revMax
            \/ Found(p, snap).pc = "rejected" /\ snap = NoSnap
BY DEF Found, Calls

LEMMA Revisions == SnapshotAssumption => RevMaxs \subseteq Nat \cup {-1} /\ RevMaxs \subseteq Int
BY DEF SnapshotAssumption

\* The snapshots a lookup sees.
LEMMA LookUpIs ==
  ASSUME SnapshotAssumption, StoreInv, NEW p \in Client, LookUp(p)
  PROVE  /\ call[p] \in Asked /\ driver # "redis" /\ UNCHANGED Stored
         /\ \E S : /\ S \subseteq ever /\ (driver = "mongodb" => S = snaps)
                   /\ call[p].before = snaps => S = snaps
                   /\ S \subseteq Snapshot /\ OwnIds(S) /\ IsFiniteSet(S)
                   /\ call' = [call EXCEPT ![p] = Found(p, GetSnapshot(S, call[p].revMax))]
<1>1. /\ call[p].pc = "asked" /\ driver # "redis" /\ UNCHANGED Stored /\ call[p] \in Calls
      /\ snaps \subseteq ever /\ ever \subseteq Snapshot /\ IsFiniteSet(ever) /\ OwnIds(ever)
      /\ Fits(call[p])
  BY DEF LookUp, Stored, StoreInv, Types, IdsDiffer, CallsFit
<1>2. call[p] \in Asked
  BY <1>1, CallFields
<1>3. PICK S \in IF driver \in {"dynamodb", "azuretable"}
                 THEN {call[p].before \cup some : some \in SUBSET (snaps \ call[p].before)}
                 ELSE {snaps} :
        call' = [call EXCEPT ![p] = Found(p, GetSnapshot(S, call[p].revMax))]
  BY DEF LookUp
<1>4. /\ S \subseteq ever /\ (driver = "mongodb" => S = snaps)
      /\ call[p].before = snaps => S = snaps
  <2>1. CASE driver \in {"dynamodb", "azuretable"}
    <3>1. PICK some \in SUBSET (snaps \ call[p].before) : S = call[p].before \cup some
      BY <1>3, <2>1
    <3>2. call[p].before \subseteq ever
      BY <1>1, <2>1 DEF Fits
    <3>. QED
      BY <1>1, <2>1, <3>1, <3>2
  <2>2. CASE driver \notin {"dynamodb", "azuretable"}
    BY <1>1, <1>3, <2>2
  <2>. QED
    BY <2>1, <2>2
<1>5. S \subseteq Snapshot /\ IsFiniteSet(S) /\ OwnIds(S)
  BY <1>1, <1>4, FS_Subset DEF OwnIds
<1>. QED
  BY <1>1, <1>2, <1>3, <1>4, <1>5

LEMMA LookUpStep ==
  ASSUME SnapshotAssumption, StoreInv, NEW p \in Client, LookUp(p)
  PROVE  StoreInv'
<1>1. PICK S : /\ S \subseteq Snapshot /\ OwnIds(S) /\ IsFiniteSet(S)
               /\ call' = [call EXCEPT ![p] = Found(p, GetSnapshot(S, call[p].revMax))]
  BY LookUpIs
<1>2. call[p] \in Asked /\ driver # "redis" /\ UNCHANGED Stored
  BY LookUpIs
<1>3. call[p].pc = "asked" /\ call[p].revMax \in RevMaxs /\ call[p].revMax \in Nat \cup {-1}
  BY <1>2, AskedFields, Revisions
<1>4. PICK m : m = GetSnapshot(S, call[p].revMax)
  OBVIOUS
<1>5. driver \in Drivers
  BY DEF StoreInv, Types
<1>6. m \in Snapshot \cup {NoSnap}
  <2>1. Below(S, call[p].revMax) \subseteq S
    BY DEF Below
  <2>2. (Below(S, call[p].revMax) = {} /\ m = NoSnap) \/ m \in Below(S, call[p].revMax)
    BY <1>1, <1>2, <1>3, <1>4, <1>5, GetSnapshotIs
  <2>. QED
    BY <1>1, <2>1, <2>2
<1>7. PICK c : c = Found(p, m)
  OBVIOUS
<1>8. c \in Calls /\ c.pc \in {"found", "rejected"} /\ call' = [call EXCEPT ![p] = c]
  BY <1>1, <1>3, <1>4, <1>6, <1>7, FoundIs
<1>9. Fits(c) /\ ~WillClean(call[p])
  BY <1>3, <1>8 DEF Fits, WillClean
<1>. QED
  BY <1>2, <1>3, <1>8, <1>9, LocalStep

LEMMA GetKeyStep ==
  ASSUME SnapshotAssumption, StoreInv, NEW p \in Client, GetKey(p)
  PROVE  StoreInv'
<1>1. PICK key : key = First(call[p].keys, KeysReversed)
  OBVIOUS
<1>2. /\ call[p] \in Calls /\ call[p].pc = "keys" /\ Fits(call[p]) /\ UNCHANGED Stored
      /\ snaps \subseteq Snapshot
  BY DEF StoreInv, Types, CallsFit, GetKey, Stored
<1>3. /\ call[p].revMax \in RevMaxs /\ call[p].keys \subseteq Snapshot
      /\ call[p].before \subseteq Snapshot /\ call[p].past \subseteq Snapshot
  BY <1>2, CallFields
<1>4. ~WillClean(call[p])
  BY <1>2 DEF WillClean
<1>5. CASE call[p].keys # {} /\ key \in snaps /\ call[p].revMax > -1 /\ key.rev > call[p].revMax
  <2>1. PICK c : c = [call[p] EXCEPT !.keys = @ \ {key}]
    OBVIOUS
  <2>. DEFINE Gets == [pc : {"keys"}, revMax : RevMaxs, keys : SUBSET Snapshot,
                       before : SUBSET Snapshot, past : SUBSET Snapshot]
  <2>2. call[p] \in Gets
    BY <1>2 DEF Calls, Asked
  <2>3. c \in Gets
    BY <2>1, <2>2
  <2>4. c \in Calls /\ c.pc = "keys" /\ c.keys \subseteq call[p].keys /\ c.past = call[p].past
    BY <2>1, <2>2, <2>3 DEF Calls
  <2>5. Fits(c)
    BY <1>2, <2>4 DEF Fits
  <2>6. call' = [call EXCEPT ![p] = c]
    BY <1>1, <1>5, <2>1 DEF GetKey
  <2>. QED
    BY <1>2, <1>4, <2>4, <2>5, <2>6, LocalStep
<1>6. CASE call[p].keys # {} /\ key \notin snaps /\ call[p].revMax # -1
  <2>1. PICK c : c = [pc |-> "thrown"]
    OBVIOUS
  <2>2. c \in Calls /\ c.pc = "thrown" /\ Fits(c)
    BY <2>1 DEF Calls, Fits
  <2>3. call' = [call EXCEPT ![p] = c]
    BY <1>1, <1>6, <2>1 DEF GetKey
  <2>. QED
    BY <1>2, <1>4, <2>2, <2>3, LocalStep
<1>7. CASE \/ call[p].keys = {} \/ (key \notin snaps /\ call[p].revMax = -1)
           \/ key \in snaps /\ ~(call[p].revMax > -1 /\ key.rev > call[p].revMax)
  <2>1. PICK m : m = IF call[p].keys = {} \/ key \notin snaps THEN NoSnap ELSE key
    OBVIOUS
  <2>2. m \in Snapshot \cup {NoSnap}
    BY <1>2, <2>1
  <2>3. PICK c : c = Found(p, m)
    OBVIOUS
  <2>4. c \in Calls /\ c.pc \in {"found", "rejected"}
    BY <1>3, <2>2, <2>3, FoundIs
  <2>5. Fits(c)
    BY <2>4 DEF Fits
  <2>6. call' = [call EXCEPT ![p] = c]
    BY <1>1, <1>7, <2>1, <2>3 DEF GetKey
  <2>. QED
    BY <1>2, <1>4, <2>4, <2>5, <2>6, LocalStep
<1>. QED
  BY <1>5, <1>6, <1>7

\* What getEventStream makes of a snapshot.
LEMMA GetEventStreamIs ==
  ASSUME SnapshotAssumption, StoreInv, NEW p \in Client, GetEventStream(p)
  PROVE  /\ call[p].pc = "found" /\ UNCHANGED Stored
         /\ call[p].revMax \in RevMaxs /\ call[p].snap \in Snapshot \cup {NoSnap}
         /\ \E c \in Calls :
              /\ call' = [call EXCEPT ![p] = c]
              /\ c = [pc |-> "answered", revMax |-> call[p].revMax, snap |-> call[p].snap,
                      lastRevision |-> AdjustRevision(Loaded(call[p].revMax), call[p].snap)]
<1>1. call[p] \in Calls /\ call[p].pc = "found" /\ stream \subseteq 0 .. MaxRevision
      /\ UNCHANGED Stored
  BY DEF StoreInv, Types, GetEventStream, Stored
<1>2. call[p].revMax \in RevMaxs /\ call[p].snap \in Snapshot \cup {NoSnap}
  BY <1>1, CallFields
<1>3. PICK n : n = AdjustRevision(Loaded(call[p].revMax), call[p].snap)
  OBVIOUS
<1>4. n \in Int
  <2>1. Loaded(call[p].revMax) \subseteq 0 .. MaxRevision
    BY <1>1 DEF Loaded
  <2>2. Latest(Loaded(call[p].revMax)) \in Int
    BY <2>1, LatestIsLast
  <2>3. call[p].snap.rev \in Int
    BY <1>2, SnapshotType DEF NoSnap
  <2>. QED
    BY <1>3, <2>2, <2>3 DEF AdjustRevision
<1>5. PICK c : c = [pc |-> "answered", revMax |-> call[p].revMax, snap |-> call[p].snap,
                    lastRevision |-> n]
  OBVIOUS
<1>6. c \in Calls
  BY <1>2, <1>4, <1>5 DEF Calls
<1>7. call' = [call EXCEPT ![p] = c]
  BY <1>3, <1>5 DEF GetEventStream
<1>. QED
  BY <1>1, <1>2, <1>3, <1>5, <1>6, <1>7

LEMMA GetEventStreamStep ==
  ASSUME SnapshotAssumption, StoreInv, NEW p \in Client, GetEventStream(p)
  PROVE  StoreInv'
<1>1. call[p].pc = "found" /\ UNCHANGED Stored
  BY GetEventStreamIs
<1>2. PICK c \in Calls : call' = [call EXCEPT ![p] = c] /\ c.pc = "answered"
  BY GetEventStreamIs
<1>3. Fits(c) /\ ~WillClean(call[p])
  BY <1>1, <1>2 DEF Fits, WillClean
<1>. QED
  BY <1>1, <1>2, <1>3, LocalStep

LEMMA DeleteStreamStep ==
  ASSUME StoreInv, NEW p \in Client, DeleteStream(p)
  PROVE  StoreInv'
<1>1. PICK c : c = [pc |-> "deleting", left |-> {"events", "snapshots"}]
  OBVIOUS
<1>2. /\ call[p].pc = "idle" /\ driver = "mongodb" /\ UNCHANGED Stored
      /\ call' = [call EXCEPT ![p] = c]
  BY <1>1 DEF DeleteStream, Stored
<1>3. c \in Calls /\ c.pc = "deleting"
  BY <1>1 DEF Calls
<1>4. Fits(c) /\ ~WillClean(call[p])
  BY <1>2, <1>3 DEF Fits, WillClean
<1>. QED
  BY <1>2, <1>3, <1>4, LocalStep

LEMMA DoneStep ==
  ASSUME StoreInv, NEW p \in Client, Done(p)
  PROVE  StoreInv'
<1>1. /\ call[p].pc \in {"answered", "rejected", "thrown"} /\ UNCHANGED Stored
      /\ call' = [call EXCEPT ![p] = Idle]
  BY DEF Done, Stored
<1>2. Fits(Idle) /\ ~WillClean(call[p])
  BY <1>1 DEF Fits, WillClean, Idle
<1>3. PICK c : c = Idle
  OBVIOUS
<1>. QED
  BY <1>1, <1>2, <1>3, IdleIsCall, LocalStep

-----------------------------------------------------------------------------
(* Steps that add snapshots *)

LEMMA CreateSnapshotStep ==
  ASSUME SnapshotAssumption, StoreInv, NEW p \in Client, CreateSnapshot(p)
  PROVE  StoreInv'
<1>1. PICK r \in used, t \in Max({0, clock - Skew}) .. clock + 1 :
        /\ clock' = Max({clock, t})
        /\ call' = [call EXCEPT ![p] = [pc |-> "adding",
                                        snap |-> [id |-> made, rev |-> r, stamp |-> t]]]
  BY DEF CreateSnapshot
<1>2. /\ call[p].pc = "idle" /\ made < MaxSnaps /\ made' = made + 1
      /\ UNCHANGED <<driver, maxCount, used, reused, stream, snaps, ever, late, faults>>
  BY DEF CreateSnapshot
<1>3. PICK s, c : /\ s = [id |-> made, rev |-> r, stamp |-> t]
                  /\ c = [pc |-> "adding", snap |-> s]
  OBVIOUS
<1>4. Types
  BY DEF StoreInv
<1>5. /\ MaxSnaps \in Nat /\ made \in Nat /\ clock \in Nat /\ clock <= made
      /\ r \in 0 .. MaxRevision /\ Skew \in Nat
  BY <1>4 DEF Types, SnapshotAssumption
<1>5a. t \in 0 .. made' /\ clock' \in 0 .. made'
  <2>1. t \in Nat /\ t <= clock + 1
    <3>1. Max({0, clock - Skew}) \in Nat
      BY <1>5, MaxOfTwo
    <3>. QED
      BY <1>1, <1>5, <3>1
  <2>2. clock' \in {clock, t}
    BY <1>1, <1>5, <2>1, MaxOfTwo
  <2>. QED
    BY <1>2, <1>5, <2>1, <2>2
<1>6. s \in Snapshot /\ s.id = made
  BY <1>1, <1>2, <1>3, <1>5, <1>5a DEF Snapshot
<1>7. c \in Calls /\ c.pc = "adding" /\ c.snap = s
  BY <1>3, <1>6 DEF Calls
<1>8. /\ call' \in [Client -> Calls]
      /\ call'[p] = c
      /\ \A q \in Client : q # p => call'[q] = call[q]
  BY <1>1, <1>3, <1>4, <1>7, CallTurns
<1>9. Types'
  BY <1>2, <1>4, <1>5, <1>8, <1>5a DEF Types
<1>10. CallsFit'
  BY <1>2, <1>7, <1>8 DEF StoreInv, CallsFit, Fits
<1>11. Doomed' = Doomed
  <2>1. \A q \in Client : (call'[q].pc = "removing") <=> (call[q].pc = "removing")
    BY <1>2, <1>7, <1>8
  <2>2. \A q \in Client : call[q].pc = "removing" => call'[q] = call[q]
    BY <1>2, <1>8
  <2>. QED
    BY <1>2, <2>1, <2>2 DEF Doomed
<1>12. IdsDiffer'
  <2>1. \A q \in Client : q # p /\ call'[q].pc = "adding" =>
          call'[q] = call[q] /\ call[q].snap.id < made /\ call[q].snap.id \in Int
    <3>1. \A q \in Client : call[q].pc = "adding" => call[q].snap \in Snapshot
      BY <1>4, CallFields DEF Types
    <3>. QED
      BY <1>8, <3>1, SnapshotType DEF StoreInv, IdsDiffer
  <2>2. \A d \in ever \cup Doomed : d.id < made /\ d.id \in Int
    BY <1>4, SnapshotType DEF StoreInv, IdsDiffer, Types, Doomed
  <2>3. OwnIds(ever)'
    BY <1>2 DEF StoreInv, IdsDiffer, OwnIds
  <2>4. \A d \in ever' \cup Doomed' : d.id < made'
    BY <1>2, <1>5, <1>11, <2>2
  <2>5. ASSUME NEW q \in Client, call'[q].pc = "adding"
        PROVE  call'[q].snap.id < made' /\ \A d \in ever' \cup Doomed' : d.id # call'[q].snap.id
    <3>1. CASE q = p
      BY <1>2, <1>5, <1>6, <1>7, <1>8, <1>11, <2>2, <3>1
    <3>2. CASE q # p
      BY <1>2, <1>5, <1>11, <2>1, <2>5, <3>2 DEF StoreInv, IdsDiffer
    <3>. QED
      BY <3>1, <3>2
  <2>6. ASSUME NEW q \in Client, NEW u \in Client, q # u, call'[q].pc = "adding",
               call'[u].pc = "adding"
        PROVE  call'[q].snap.id # call'[u].snap.id
    <3>1. CASE q # p /\ u # p
      BY <1>8, <2>6, <3>1 DEF StoreInv, IdsDiffer
    <3>2. CASE q = p \/ u = p
      BY <1>5, <1>6, <1>7, <1>8, <2>1, <2>6, <3>2
    <3>. QED
      BY <3>1, <3>2
  <2>. QED
    BY <2>3, <2>4, <2>5, <2>6 DEF IdsDiffer
<1>13. Excess(ever)' = Excess(ever) /\ Excess(snaps)' = Excess(snaps)
  BY <1>2 DEF Excess, Before, KeysReversed, HighestFirst, Key, Mongodb_addSnapshot,
     Tingodb_addSnapshot, Inmemory_addSnapshot, Redis_addSnapshot, Dynamodb_addSnapshot,
     Azuretable_addSnapshot, Elasticsearch_addSnapshot
<1>14. GoneInExcess'
  BY <1>2, <1>11, <1>13 DEF StoreInv, GoneInExcess
<1>15. ExcessIsDoomed'
  <2>1. \A q \in Client : WillClean(call[q]) => WillClean(call[q])'
    BY <1>2, <1>8 DEF WillClean
  <2>. QED
    BY <1>2, <1>11, <1>13, <2>1 DEF StoreInv, ExcessIsDoomed, Cleans
<1>. QED
  BY <1>9, <1>10, <1>12, <1>14, <1>15 DEF StoreInv

LEMMA ExcessStays ==
  ASSUME UNCHANGED <<driver, maxCount>>, NEW S, NEW T, T = ever', S = snaps'
  PROVE  Excess(ever)' = Excess(T) /\ Excess(snaps)' = Excess(S)
BY DEF Excess, Before, KeysReversed, HighestFirst, Key, Mongodb_addSnapshot,
   Tingodb_addSnapshot, Inmemory_addSnapshot, Redis_addSnapshot, Dynamodb_addSnapshot,
   Azuretable_addSnapshot, Elasticsearch_addSnapshot

LEMMA AddSnapshotStep ==
  ASSUME SnapshotAssumption, StoreInv, NEW p \in Client, NEW s, s = call[p].snap,
         call[p].pc = "adding", snaps' = snaps \cup {s}, ever' = ever \cup {s},
         call' = [call EXCEPT ![p] = [pc |-> "cleaning"]],
         UNCHANGED <<driver, maxCount, used, reused, stream, made, clock, late, faults>>
  PROVE  StoreInv'
<1>. PICK c : c = [pc |-> "cleaning"]
  OBVIOUS
<1>1. Types /\ c \in Calls /\ c.pc = "cleaning"
  BY DEF StoreInv, Calls
<1>2. /\ call' \in [Client -> Calls]
      /\ call'[p] = c
      /\ \A q \in Client : q # p => call'[q] = call[q]
  BY <1>1, CallTurns
<1>3. s \in Snapshot
  BY <1>1, CallFields DEF Types
<1>4. IsFiniteSet(ever')
  BY <1>1, FS_AddElement DEF Types
<1>5. Types'
  BY <1>1, <1>2, <1>3, <1>4 DEF Types
<1>6. CallsFit'
  BY <1>1, <1>2 DEF StoreInv, CallsFit, Fits
<1>7. Doomed' = Doomed
  <2>1. \A q \in Client : (call'[q].pc = "removing") <=> (call[q].pc = "removing")
    BY <1>1, <1>2
  <2>2. \A q \in Client : call[q].pc = "removing" => call'[q] = call[q]
    BY <1>2
  <2>. QED
    BY <2>1, <2>2 DEF Doomed
<1>8. \A q \in Client : call'[q].pc = "adding" => q # p /\ call'[q] = call[q]
  BY <1>1, <1>2
<1>9. IdsDiffer'
  <2>1. s.id < made /\ \A d \in ever \cup Doomed : d.id # s.id
    BY DEF StoreInv, IdsDiffer
  <2>2. OwnIds(ever)'
    BY <2>1 DEF StoreInv, IdsDiffer, OwnIds
  <2>3. \A d \in ever' \cup Doomed' : d.id < made'
    BY <1>7, <2>1 DEF StoreInv, IdsDiffer
  <2>4. ASSUME NEW q \in Client, call'[q].pc = "adding"
        PROVE  call'[q].snap.id < made' /\ \A d \in ever' \cup Doomed' : d.id # call'[q].snap.id
    <3>1. q # p /\ call'[q] = call[q] /\ call[q].snap.id # s.id
      BY <1>8, <2>4 DEF StoreInv, IdsDiffer
    <3>. QED
      BY <1>7, <2>4, <3>1 DEF StoreInv, IdsDiffer
  <2>. QED
    BY <1>8, <2>2, <2>3, <2>4 DEF StoreInv, IdsDiffer
<1>10. GoneInExcess'
  <2>1. PICK E : E = ever'
    OBVIOUS
  <2>2. Excess(ever)' = Excess(E) /\ IsFiniteSet(E) /\ ever \subseteq E /\ maxCount \in Nat
    BY <1>1, <1>4, <2>1, ExcessStays DEF Types, SnapshotAssumption
  <2>3. Excess(ever) \subseteq Excess(E)
    BY <2>2, ExcessGrows
  <2>4. s \notin Doomed
    BY DEF StoreInv, IdsDiffer
  <2>5. \A d \in (ever' \ snaps') \cup Doomed' :
          d \in ever' => d \in (ever \ snaps) \cup Doomed /\ d \in ever
    BY <1>7, <2>4
  <2>. QED
    BY <2>2, <2>3, <2>5 DEF StoreInv, GoneInExcess
<1>11. ExcessIsDoomed'
  <2>1. WillClean(call[p])'
    BY <1>1, <1>2 DEF WillClean
  <2>. QED
    BY <2>1 DEF ExcessIsDoomed
<1>. QED
  BY <1>5, <1>6, <1>9, <1>10, <1>11 DEF StoreInv

-----------------------------------------------------------------------------
(* Steps that remove snapshots *)

\* What a step removes, and what it leaves to be removed, has to be in excess.
LEMMA RemovalStep ==
  ASSUME SnapshotAssumption, StoreInv,
         UNCHANGED <<driver, maxCount, used, reused, stream, ever, made, clock>>,
         snaps' \subseteq snaps, late' \subseteq SUBSET Snapshot,
         faults' \in faults .. MaxFaults,
         call' \in [Client -> Calls],
         \A q \in Client : call'[q].pc = "adding" => call'[q] = call[q],
         \A q \in Client : Fits(call'[q]),
         snaps \ snaps' \subseteq Doomed \cup Excess(ever),
         Doomed' \subseteq Doomed \cup Excess(ever),
         ExcessIsDoomed'
  PROVE  StoreInv'
<1>1. Types'
  <2>1. faults' \in 0 .. MaxFaults
    BY DEF StoreInv, Types, SnapshotAssumption
  <2>. QED
    BY <2>1 DEF StoreInv, Types
<1>2. CallsFit'
  BY DEF CallsFit, Fits
<1>3. Excess(ever) \subseteq ever
  BY DEF Excess
<1>4. IdsDiffer'
  BY <1>3 DEF StoreInv, IdsDiffer, OwnIds
<1>5. Excess(ever)' = Excess(ever)
  <2>1. PICK E, S : E = ever' /\ S = snaps'
    OBVIOUS
  <2>. QED
    BY <2>1, ExcessStays
<1>6. GoneInExcess'
  BY <1>5 DEF StoreInv, GoneInExcess
<1>. QED
  BY <1>1, <1>2, <1>4, <1>6 DEF StoreInv

\* Removing some of what is there, and nothing else, adds nothing to the excess.
LEMMA ExcessShrinks ==
  ASSUME SnapshotAssumption, StoreInv, UNCHANGED <<driver, maxCount>>,
         NEW gone, snaps' = snaps \ gone
  PROVE  Excess(snaps)' \subseteq Excess(snaps) \ gone
<1>1. PICK S, T : S = snaps' /\ T = ever'
  OBVIOUS
<1>2. Excess(snaps)' = Excess(S)
  BY <1>1, ExcessStays
<1>3. IsFiniteSet(snaps) /\ maxCount \in Nat /\ S \subseteq snaps
  BY <1>1, FS_Subset DEF StoreInv, Types, SnapshotAssumption
<1>4. Excess(S) \subseteq Excess(snaps)
  BY <1>3, ExcessGrows
<1>5. Excess(S) \subseteq S
  BY DEF Excess
<1>. QED
  BY <1>1, <1>2, <1>4, <1>5

LEMMA StoredExcess ==
  ASSUME SnapshotAssumption, StoreInv
  PROVE  Excess(snaps) \subseteq Excess(ever) /\ Excess(ever) \subseteq ever
<1>1. IsFiniteSet(ever) /\ maxCount \in Nat /\ snaps \subseteq ever
  BY DEF StoreInv, Types, SnapshotAssumption
<1>2. Excess(snaps) \subseteq Excess(ever)
  BY <1>1, ExcessGrows
<1>. QED
  BY <1>2 DEF Excess

LEMMA RemoveLateStep ==
  ASSUME SnapshotAssumption, StoreInv, RemoveLate
  PROVE  StoreInv'
<1>1. PICK gone \in late : late' = late \ {gone} /\ snaps' = snaps \ gone
  BY DEF RemoveLate
<1>2. UNCHANGED <<driver, maxCount, used, reused, stream, ever, made, clock, faults, call>>
  BY DEF RemoveLate
<1>3. Types /\ CallsFit /\ gone \subseteq Snapshot
  BY <1>1 DEF StoreInv, Types
<1>4. gone \subseteq Doomed /\ Doomed' \subseteq Doomed /\ Doomed \subseteq Doomed' \cup gone
  BY <1>1, <1>2, <1>3 DEF Doomed
<1>5. ExcessIsDoomed'
  <2>1. Excess(snaps)' \subseteq Excess(snaps) \ gone
    BY <1>1, <1>2, ExcessShrinks
  <2>2. \A q \in Client : WillClean(call[q]) => WillClean(call[q])'
    BY <1>1, <1>2 DEF WillClean
  <2>. QED
    BY <1>2, <1>4, <2>1, <2>2 DEF StoreInv, ExcessIsDoomed, Cleans
<1>6. \A q \in Client : Fits(call'[q])
  BY <1>2, <1>3 DEF CallsFit
<1>7. faults' \in faults .. MaxFaults
  BY <1>2, <1>3 DEF Types
<1>. QED
  BY <1>1, <1>2, <1>3, <1>4, <1>5, <1>6, <1>7, RemovalStep DEF Types

Sent == {d \in Snapshot : \E gone \in late : d \in gone}

Elsewhere(p) ==
  {d \in Snapshot : \E q \in Client : q # p /\ call[q].pc = "removing" /\ d \in call[q].doomed}

\* What a step of one client does to what is doomed.
LEMMA DoomedBy ==
  ASSUME StoreInv, NEW p \in Client, NEW c \in Calls, call' = [call EXCEPT ![p] = c]
  PROVE  /\ call[p].pc = "removing" => Doomed = Sent \cup call[p].doomed \cup Elsewhere(p)
         /\ call[p].pc # "removing" => Doomed = Sent \cup Elsewhere(p)
         /\ c.pc = "removing" => Doomed' = Sent' \cup c.doomed \cup Elsewhere(p)
         /\ c.pc # "removing" => Doomed' = Sent' \cup Elsewhere(p)
<1>1. /\ call' \in [Client -> Calls]
      /\ call'[p] = c
      /\ \A q \in Client : q # p => call'[q] = call[q]
  BY CallTurns DEF StoreInv
<1>2. call[p] \in Calls
  BY DEF StoreInv, Types
<1>3. /\ c.pc = "removing" => c.doomed \subseteq Snapshot
      /\ call[p].pc = "removing" => call[p].doomed \subseteq Snapshot
  BY <1>2, CallFields
<1>4. ASSUME NEW d
      PROVE  (\E q \in Client : call[q].pc = "removing" /\ d \in call[q].doomed) <=>
               \/ call[p].pc = "removing" /\ d \in call[p].doomed
               \/ \E q \in Client : q # p /\ call[q].pc = "removing" /\ d \in call[q].doomed
  OBVIOUS
<1>5. ASSUME NEW d
      PROVE  (\E q \in Client : call'[q].pc = "removing" /\ d \in call'[q].doomed) <=>
               \/ c.pc = "removing" /\ d \in c.doomed
               \/ \E q \in Client : q # p /\ call[q].pc = "removing" /\ d \in call[q].doomed
  BY <1>1
<1>6. /\ call[p].pc = "removing" => Doomed = Sent \cup call[p].doomed \cup Elsewhere(p)
      /\ call[p].pc # "removing" => Doomed = Sent \cup Elsewhere(p)
  BY <1>3, <1>4 DEF Doomed, Sent, Elsewhere
<1>7. Doomed' = {d \in Snapshot : \/ \E gone \in late' : d \in gone
                                  \/ \E q \in Client :
                                       call'[q].pc = "removing" /\ d \in call'[q].doomed}
  BY DEF Doomed, Snapshot
<1>8. Sent' = {d \in Snapshot : \E gone \in late' : d \in gone}
  BY DEF Sent, Snapshot
<1>9. /\ c.pc = "removing" => Doomed' = Sent' \cup c.doomed \cup Elsewhere(p)
      /\ c.pc # "removing" => Doomed' = Sent' \cup Elsewhere(p)
  BY <1>3, <1>5, <1>7, <1>8 DEF Elsewhere
<1>. QED
  BY <1>6, <1>9

LEMMA ListExcessStep ==
  ASSUME SnapshotAssumption, StoreInv, NEW p \in Client, ListExcess(p)
  PROVE  StoreInv'
<1>1. /\ call[p].pc = "cleaning" /\ driver # "redis"
      /\ UNCHANGED <<driver, maxCount, used, reused, stream, ever, made, clock, faults>>
  BY DEF ListExcess
<1>2. Types /\ CallsFit
  BY DEF StoreInv
<1>3. PICK doomed : doomed = CleanSnapshots(snaps)
  OBVIOUS
<1>4. doomed = IF Cleans THEN Excess(snaps) ELSE {}
  BY <1>2, <1>3, CleanIsExcess DEF Types
<1>5. doomed \subseteq Excess(ever) /\ doomed \subseteq ever /\ doomed \subseteq Snapshot
      /\ doomed \subseteq snaps
  BY <1>2, <1>4, StoredExcess DEF Types, Excess
<1>6. faults' \in faults .. MaxFaults
  BY <1>1, <1>2 DEF Types
<1>7. \A q \in Client : Fits(call[q])
  BY <1>2 DEF CallsFit
<1>8. CASE doomed = {} \/ driver = "inmemory"
  <2>1. /\ snaps' = snaps \ doomed
        /\ call' = [call EXCEPT ![p] = Idle]
        /\ late' = late
    BY <1>3, <1>8 DEF ListExcess
  <2>2. /\ call' \in [Client -> Calls]
        /\ call'[p] = Idle
        /\ \A q \in Client : q # p => call'[q] = call[q]
    <3>1. PICK c \in Calls : c = Idle
      BY IdleIsCall
    <3>. QED
      BY <1>2, <2>1, <3>1, CallTurns
  <2>3. Doomed' = Doomed
    <3>1. PICK c \in Calls : c = Idle /\ c.pc = "idle"
      BY IdleIsCall
    <3>2. Sent' = Sent
      BY <2>1 DEF Sent, Snapshot
    <3>3. Doomed' = Sent' \cup Elsewhere(p) /\ Doomed = Sent \cup Elsewhere(p)
      BY <1>1, <2>1, <3>1, DoomedBy
    <3>. QED
      BY <3>2, <3>3
  <2>4. Fits(Idle)
    BY DEF Fits, Idle
  <2>5. ExcessIsDoomed'
    <3>1. Excess(snaps)' \subseteq Excess(snaps) \ doomed
      BY <1>1, <2>1, ExcessShrinks
    <3>2. Cleans => Excess(snaps)' = {}
      BY <1>4, <3>1
    <3>. QED
      BY <1>1, <3>2 DEF ExcessIsDoomed, Cleans
  <2>6. \A q \in Client : Fits(call'[q])
    BY <1>7, <2>2, <2>4
  <2>7. \A q \in Client : call'[q].pc = "adding" => call'[q] = call[q]
    BY <2>2, IdleIsCall
  <2>8. snaps' \subseteq snaps /\ snaps \ snaps' \subseteq Excess(ever)
        /\ late' \subseteq SUBSET Snapshot
    BY <1>2, <1>5, <2>1 DEF Types
  <2>. QED
    BY <1>1, <1>6, <2>2, <2>3, <2>5, <2>6, <2>7, <2>8, RemovalStep
<1>9. CASE doomed # {} /\ driver = "tingodb"
  <2>1. /\ snaps' = snaps
        /\ call' = [call EXCEPT ![p] = Idle]
        /\ late' = late \cup {{s} : s \in doomed}
    BY <1>3, <1>9 DEF ListExcess
  <2>2. /\ call' \in [Client -> Calls]
        /\ call'[p] = Idle
        /\ \A q \in Client : q # p => call'[q] = call[q]
    <3>1. PICK c \in Calls : c = Idle
      BY IdleIsCall
    <3>. QED
      BY <1>2, <2>1, <3>1, CallTurns
  <2>3. late' \subseteq SUBSET Snapshot
    BY <1>2, <1>5, <2>1 DEF Types
  <2>4. Doomed' = Doomed \cup doomed
    <3>1. PICK c \in Calls : c = Idle /\ c.pc = "idle"
      BY IdleIsCall
    <3>2. Doomed' = Sent' \cup Elsewhere(p) /\ Doomed = Sent \cup Elsewhere(p)
      BY <1>1, <2>1, <3>1, DoomedBy
    <3>3. Sent' = Sent \cup doomed
      BY <1>5, <2>1 DEF Sent, Snapshot
    <3>. QED
      BY <3>2, <3>3
  <2>5. Fits(Idle)
    BY DEF Fits, Idle
  <2>6. ExcessIsDoomed'
    <3>1. snaps' = snaps \ {} /\ UNCHANGED <<driver, maxCount>>
      BY <1>1, <2>1
    <3>2. Excess(snaps)' \subseteq Excess(snaps) \ {}
      BY <3>1, ExcessShrinks
    <3>. QED
      BY <1>1, <1>4, <2>4, <3>2 DEF ExcessIsDoomed, Cleans
  <2>7. \A q \in Client : Fits(call'[q])
    BY <1>7, <2>2, <2>5
  <2>8. \A q \in Client : call'[q].pc = "adding" => call'[q] = call[q]
    BY <2>2, IdleIsCall
  <2>. QED
    BY <1>1, <1>5, <1>6, <2>1, <2>2, <2>3, <2>4, <2>6, <2>7, <2>8, RemovalStep
<1>10. CASE doomed # {} /\ driver \notin {"inmemory", "tingodb"}
  <2>1. PICK c : c = [pc |-> "removing", doomed |-> doomed]
    OBVIOUS
  <2>2. snaps' = snaps /\ late' = late /\ call' = [call EXCEPT ![p] = c]
    BY <1>3, <1>10, <2>1 DEF ListExcess
  <2>3. c \in Calls /\ c.pc = "removing" /\ c.doomed = doomed
    BY <1>5, <2>1 DEF Calls
  <2>4. /\ call' \in [Client -> Calls]
        /\ call'[p] = c
        /\ \A q \in Client : q # p => call'[q] = call[q]
    BY <1>2, <2>2, <2>3, CallTurns
  <2>5. Doomed' = Doomed \cup doomed
    <3>1. Doomed' = Sent' \cup doomed \cup Elsewhere(p) /\ Doomed = Sent \cup Elsewhere(p)
      BY <1>1, <2>2, <2>3, DoomedBy
    <3>2. Sent' = Sent
      BY <2>2 DEF Sent, Snapshot
    <3>. QED
      BY <3>1, <3>2
  <2>6. ExcessIsDoomed'
    <3>1. snaps' = snaps \ {} /\ UNCHANGED <<driver, maxCount>>
      BY <1>1, <2>2
    <3>2. Excess(snaps)' \subseteq Excess(snaps) \ {}
      BY <3>1, ExcessShrinks
    <3>. QED
      BY <1>1, <1>4, <2>5, <3>2 DEF ExcessIsDoomed, Cleans
  <2>7. \A q \in Client : Fits(call'[q])
    BY <1>7, <2>3, <2>4 DEF Fits
  <2>8. \A q \in Client : call'[q].pc = "adding" => call'[q] = call[q]
    BY <2>3, <2>4
  <2>. QED
    BY <1>1, <1>2, <1>5, <1>6, <2>2, <2>4, <2>5, <2>6, <2>7, <2>8, RemovalStep DEF Types
<1>. QED
  BY <1>8, <1>9, <1>10

LEMMA RemoveNextStep ==
  ASSUME SnapshotAssumption, StoreInv, NEW p \in Client, RemoveNext(p)
  PROVE  StoreInv'
<1>1. /\ call[p].pc = "removing"
      /\ UNCHANGED <<driver, maxCount, used, reused, stream, ever, made, clock>>
  BY DEF RemoveNext
<1>2. Types /\ CallsFit
  BY DEF StoreInv
<1>3. PICK doomed : doomed = call[p].doomed
  OBVIOUS
<1>4. call[p] \in Calls /\ doomed \subseteq Snapshot /\ doomed \subseteq Doomed
  <2>1. call[p] \in Calls
    BY <1>2 DEF Types
  <2>2. doomed \subseteq Snapshot
    BY <1>1, <1>3, <2>1, CallFields
  <2>. QED
    BY <1>1, <1>3, <2>1, <2>2 DEF Doomed
<1>5. PICK gone, left, over :
        /\ gone \in Removals(doomed)
        /\ left = IF driver = "mongodb" THEN doomed \ gone ELSE {}
        /\ over = IF left = {} THEN Idle ELSE [call[p] EXCEPT !.doomed = left]
        /\ \/ /\ snaps' = snaps \ gone
              /\ call' = [call EXCEPT ![p] = over]
              /\ faults' = IF driver = "elasticsearch" /\ gone # doomed
                           THEN faults + 1 ELSE faults
              /\ UNCHANGED late
           \/ /\ faults < MaxFaults
              /\ faults' = faults + 1
              /\ call' = [call EXCEPT ![p] = Idle]
              /\ late' = late \cup {{s} : s \in left}
              /\ UNCHANGED snaps
  BY <1>3 DEF RemoveNext
<1>6. /\ gone \subseteq doomed
      /\ driver \notin {"mongodb", "elasticsearch"} => gone = doomed
      /\ driver = "elasticsearch" /\ gone # doomed => faults < MaxFaults
  BY <1>5, RemovalsAre
<1>7. left \subseteq doomed /\ left \subseteq Snapshot
  BY <1>4, <1>5
<1>8. over \in Calls /\ over.pc \in {"idle", "removing"}
      /\ (over.pc = "removing" <=> left # {}) /\ (over.pc = "removing" => over.doomed = left)
  <2>1. CASE left = {}
    BY <1>5, <2>1, IdleIsCall
  <2>2. CASE left # {}
    <3>1. call[p] \in [pc : {"removing"}, doomed : SUBSET Snapshot]
      BY <1>1, <1>4 DEF Calls, Asked
    <3>2. over = [call[p] EXCEPT !.doomed = left]
      BY <1>5, <2>2
    <3>3. over \in [pc : {"removing"}, doomed : SUBSET Snapshot] /\ over.doomed = left
      BY <1>7, <3>1, <3>2
    <3>. QED
      BY <2>2, <3>3 DEF Calls
  <2>. QED
    BY <2>1, <2>2
<1>9. faults \in 0 .. MaxFaults /\ MaxFaults \in Nat
  BY <1>2 DEF Types, SnapshotAssumption
<1>10. CASE /\ snaps' = snaps \ gone
            /\ call' = [call EXCEPT ![p] = over]
            /\ faults' = IF driver = "elasticsearch" /\ gone # doomed THEN faults + 1 ELSE faults
            /\ UNCHANGED late
  <2>1. /\ call' \in [Client -> Calls]
        /\ call'[p] = over
        /\ \A q \in Client : q # p => call'[q] = call[q]
    BY <1>2, <1>8, <1>10, CallTurns
  <2>2. Sent' = Sent
    BY <1>10 DEF Sent, Snapshot
  <2>3. Doomed = Sent \cup doomed \cup Elsewhere(p)
        /\ Doomed' = Sent \cup left \cup Elsewhere(p)
    BY <1>1, <1>3, <1>8, <1>10, <2>2, DoomedBy
  <2>4. ExcessIsDoomed'
    <3>. SUFFICES ASSUME Cleans, faults' = 0
                  PROVE  (\E q \in Client : WillClean(call[q])') \/ Excess(snaps)' \subseteq Doomed'
      BY <1>1 DEF ExcessIsDoomed, Cleans
    <3>1. faults = 0 /\ doomed \ gone = left
      BY <1>5, <1>6, <1>9, <1>10
    <3>2. Excess(snaps)' \subseteq Excess(snaps) \ gone
      BY <1>1, <1>10, ExcessShrinks
    <3>3. CASE \E q \in Client : WillClean(call[q])
      <4>1. PICK q \in Client : WillClean(call[q])
        BY <3>3
      <4>2. q # p
        BY <1>1, <4>1 DEF WillClean
      <4>3. WillClean(call[q])'
        BY <1>10, <2>1, <4>1, <4>2 DEF WillClean
      <4>. QED
        BY <4>3
    <3>4. CASE Excess(snaps) \subseteq Doomed
      BY <2>3, <3>1, <3>2, <3>4
    <3>. QED
      BY <3>1, <3>3, <3>4 DEF StoreInv, ExcessIsDoomed
  <2>5. \A q \in Client : Fits(call'[q])
    BY <1>2, <1>8, <2>1 DEF CallsFit, Fits
  <2>6. \A q \in Client : call'[q].pc = "adding" => call'[q] = call[q]
    BY <1>8, <2>1
  <2>7. faults' \in faults .. MaxFaults
    BY <1>6, <1>9, <1>10
  <2>8. snaps' \subseteq snaps /\ late' \subseteq SUBSET Snapshot
        /\ snaps \ snaps' \subseteq Doomed /\ Doomed' \subseteq Doomed
    BY <1>2, <1>4, <1>6, <1>7, <1>10, <2>3 DEF Types
  <2>. QED
    BY <1>1, <2>1, <2>4, <2>5, <2>6, <2>7, <2>8, RemovalStep
<1>11. CASE /\ faults < MaxFaults
            /\ faults' = faults + 1
            /\ call' = [call EXCEPT ![p] = Idle]
            /\ late' = late \cup {{s} : s \in left}
            /\ UNCHANGED snaps
  <2>1. PICK c \in Calls : c = Idle /\ c.pc = "idle"
    BY IdleIsCall
  <2>2. /\ call' \in [Client -> Calls]
        /\ call'[p] = c
        /\ \A q \in Client : q # p => call'[q] = call[q]
    BY <1>2, <1>11, <2>1, CallTurns
  <2>3. late' \subseteq SUBSET Snapshot
    BY <1>2, <1>7, <1>11 DEF Types
  <2>4. Sent' = Sent \cup left
    BY <1>7, <1>11 DEF Sent, Snapshot
  <2>5. Doomed' \subseteq Doomed
    <3>1. Doomed = Sent \cup doomed \cup Elsewhere(p)
          /\ Doomed' = Sent \cup left \cup Elsewhere(p)
      BY <1>1, <1>3, <1>11, <2>1, <2>4, DoomedBy
    <3>. QED
      BY <1>7, <3>1
  <2>6. ExcessIsDoomed'
    BY <1>9, <1>11 DEF ExcessIsDoomed
  <2>7. \A q \in Client : Fits(call'[q])
    BY <1>2, <2>1, <2>2 DEF CallsFit, Fits
  <2>8. \A q \in Client : call'[q].pc = "adding" => call'[q] = call[q]
    BY <2>1, <2>2
  <2>9. faults' \in faults .. MaxFaults
    BY <1>9, <1>11
  <2>. QED
    BY <1>1, <1>11, <2>2, <2>3, <2>5, <2>6, <2>7, <2>8, <2>9, RemovalStep
<1>. QED
  BY <1>5, <1>10, <1>11

\* A call that fails before it stored anything.
LEMMA FaultStep ==
  ASSUME SnapshotAssumption, StoreInv, NEW p \in Client, NEW c \in Calls,
         faults < MaxFaults, faults' = faults + 1, call' = [call EXCEPT ![p] = c],
         UNCHANGED <<driver, maxCount, used, reused, stream, snaps, ever, made, clock, late>>,
         call[p].pc # "removing", c.pc \notin {"removing", "adding"}, Fits(c)
  PROVE  StoreInv'
<1>1. /\ call' \in [Client -> Calls]
      /\ call'[p] = c
      /\ \A q \in Client : q # p => call'[q] = call[q]
  BY CallTurns DEF StoreInv
<1>2. Types /\ CallsFit /\ faults \in 0 .. MaxFaults /\ MaxFaults \in Nat
  BY DEF StoreInv, Types, SnapshotAssumption
<1>3. Doomed' = Doomed
  <2>1. Sent' = Sent
    BY DEF Sent, Snapshot
  <2>. QED
    BY <2>1, DoomedBy
<1>4. ExcessIsDoomed'
  BY <1>2 DEF ExcessIsDoomed
<1>5. \A q \in Client : Fits(call'[q])
  BY <1>1, <1>2 DEF CallsFit
<1>6. \A q \in Client : call'[q].pc = "adding" => call'[q] = call[q]
  BY <1>1
<1>7. faults' \in faults .. MaxFaults /\ late' \subseteq SUBSET Snapshot
  BY <1>2 DEF Types
<1>. QED
  BY <1>1, <1>3, <1>4, <1>5, <1>6, <1>7, RemovalStep

\* What becomes of a call when a request of it fails.
LEMMA RequestFailsIs ==
  ASSUME StoreInv, NEW p \in Client, RequestFails(p)
  PROVE  /\ call[p].pc \in {"cleaning", "asked", "scan", "keys", "found"}
         /\ faults < MaxFaults /\ faults' = faults + 1
         /\ UNCHANGED <<driver, maxCount, used, reused, stream, snaps, ever, made, clock, late>>
         /\ \E c \in Calls :
              /\ call' = [call EXCEPT ![p] = c]
              /\ \/ c.pc = "idle"
                 \/ /\ call[p].pc = "found" /\ c.pc = "answered" /\ c.snap = call[p].snap
                    /\ c.revMax = call[p].revMax /\ c.lastRevision = c.snap.rev
<1>1. call[p] \in Calls /\ call[p].pc \in {"cleaning", "asked", "scan", "keys", "found"}
  BY DEF StoreInv, Types, RequestFails
<1>2. /\ faults < MaxFaults /\ faults' = faults + 1
      /\ UNCHANGED <<driver, maxCount, used, reused, stream, snaps, ever, made, clock, late>>
  BY DEF RequestFails
<1>3. CASE driver = "elasticsearch" /\ call[p].pc = "found"
  <2>1. PICK c : c = [pc |-> "answered", revMax |-> call[p].revMax, snap |-> call[p].snap,
                      lastRevision |-> AdjustRevision({}, call[p].snap)]
    OBVIOUS
  <2>2. call' = [call EXCEPT ![p] = c]
    BY <1>3, <2>1 DEF RequestFails
  <2>3. AdjustRevision({}, call[p].snap) = call[p].snap.rev
    BY DEF AdjustRevision
  <2>4. call[p].revMax \in RevMaxs /\ call[p].snap \in Snapshot \cup {NoSnap}
    BY <1>1, <1>3, CallFields
  <2>5. call[p].snap.rev \in Int
    BY <2>4, SnapshotAssumption, SnapshotType DEF NoSnap
  <2>6. c \in Calls
    BY <2>1, <2>3, <2>4, <2>5 DEF Calls
  <2>. QED
    BY <1>1, <1>2, <1>3, <2>1, <2>2, <2>3, <2>6
<1>4. CASE ~(driver = "elasticsearch" /\ call[p].pc = "found")
  <2>1. call' = [call EXCEPT ![p] = Idle]
    BY <1>4 DEF RequestFails
  <2>. QED
    BY <1>1, <1>2, <2>1, IdleIsCall
<1>. QED
  BY <1>3, <1>4

LEMMA RequestFailsStep ==
  ASSUME SnapshotAssumption, StoreInv, NEW p \in Client, RequestFails(p)
  PROVE  StoreInv'
<1>1. /\ call[p].pc # "removing" /\ faults < MaxFaults /\ faults' = faults + 1
      /\ UNCHANGED <<driver, maxCount, used, reused, stream, snaps, ever, made, clock, late>>
  BY RequestFailsIs
<1>2. PICK c \in Calls : call' = [call EXCEPT ![p] = c] /\ c.pc \in {"idle", "answered"}
  BY RequestFailsIs
<1>3. Fits(c)
  BY <1>2 DEF Fits
<1>. QED
  BY <1>1, <1>2, <1>3, FaultStep

LEMMA AddingStep ==
  ASSUME SnapshotAssumption, StoreInv, NEW p \in Client, AddSnapshot(p)
  PROVE  StoreInv'
<1>1. /\ call[p].pc = "adding"
      /\ UNCHANGED <<driver, maxCount, used, reused, stream, made, clock, late>>
  BY DEF AddSnapshot
<1>2. CASE /\ snaps' = snaps \cup {call[p].snap}
           /\ ever' = ever \cup {call[p].snap}
           /\ call' = [call EXCEPT ![p] = [pc |-> "cleaning"]]
           /\ UNCHANGED faults
  <2>1. PICK s : s = call[p].snap
    OBVIOUS
  <2>. QED
    BY <1>1, <1>2, <2>1, AddSnapshotStep
<1>3. CASE /\ faults < MaxFaults
           /\ faults' = faults + 1
           /\ call' = [call EXCEPT ![p] = Idle]
           /\ UNCHANGED <<snaps, ever>>
  <2>1. PICK c \in Calls : c = Idle /\ c.pc = "idle"
    BY IdleIsCall
  <2>2. Fits(c)
    BY <2>1 DEF Fits
  <2>. QED
    BY <1>1, <1>3, <2>1, <2>2, FaultStep
<1>. QED
  BY <1>2, <1>3 DEF AddSnapshot

\* What a scan brings: what was there throughout, and some of what came or went.
LEMMA ScanIs ==
  ASSUME SnapshotAssumption, StoreInv, NEW p \in Client, ScanEnds(p)
  PROVE  /\ driver = "redis" /\ call[p].pc = "scan" /\ UNCHANGED Stored
         /\ call[p].of.pc = "cleaning" \/ call[p].of \in Asked
         /\ \E S : /\ S \subseteq ever /\ S \subseteq Snapshot /\ S \subseteq call[p].found \cup snaps
                   /\ snaps \subseteq call[p].found => snaps \subseteq S
                   /\ (call[p].of.pc = "cleaning" /\ Excess(S) = {}) =>
                        call' = [call EXCEPT ![p] = Idle]
                   /\ (call[p].of.pc = "cleaning" /\ Excess(S) # {}) =>
                        call' = [call EXCEPT ![p] = [pc |-> "removing", doomed |-> Excess(S)]]
                   /\ call[p].of.pc = "asked" =>
                        call' = [call EXCEPT ![p] =
                                   [pc |-> "keys", revMax |-> call[p].of.revMax,
                                    keys |-> Redis_getSnapshot(S, call[p].of.revMax),
                                    before |-> call[p].of.before, past |-> call[p].of.past]]
<1>1. /\ call[p] \in Calls /\ call[p].pc = "scan" /\ Fits(call[p]) /\ UNCHANGED Stored
      /\ snaps \subseteq ever /\ ever \subseteq Snapshot /\ driver \in Drivers
  BY DEF ScanEnds, Stored, StoreInv, Types, CallsFit
<1>2. /\ driver = "redis" /\ call[p].found \subseteq ever
      /\ call[p].of.pc = "cleaning" \/ call[p].of \in Asked
  BY <1>1, CallFields DEF Fits
<1>3. PICK some \in SUBSET ((call[p].found \ snaps) \cup (snaps \ call[p].found)) :
        LET found  == (call[p].found \cap snaps) \cup some
            of     == call[p].of
            doomed == CleanSnapshots(found)
            keys   == Redis_getSnapshot(found, of.revMax)
        IN  call' = [call EXCEPT ![p] =
              CASE of.pc = "cleaning" /\ doomed = {} -> Idle
                [] of.pc = "cleaning" /\ doomed # {} -> [pc |-> "removing", doomed |-> doomed]
                [] of.pc = "asked" ->
                     [pc |-> "keys", revMax |-> of.revMax, keys |-> keys,
                      before |-> of.before, past |-> of.past]]
  BY DEF ScanEnds
<1>4. PICK S : S = (call[p].found \cap snaps) \cup some
  OBVIOUS
<1>5. S \subseteq ever /\ S \subseteq Snapshot /\ S \subseteq call[p].found \cup snaps
      /\ (snaps \subseteq call[p].found => snaps \subseteq S)
  BY <1>1, <1>2, <1>4
<1>6. CleanSnapshots(S) = Excess(S)
  BY <1>1, <1>2, CleanIsExcess DEF Cleans
<1>7. (call[p].of.pc = "cleaning" /\ Excess(S) = {}) => call' = [call EXCEPT ![p] = Idle]
  BY <1>3, <1>4, <1>6
<1>8. (call[p].of.pc = "cleaning" /\ Excess(S) # {}) =>
        call' = [call EXCEPT ![p] = [pc |-> "removing", doomed |-> Excess(S)]]
  BY <1>3, <1>4, <1>6
<1>9. call[p].of.pc = "asked" =>
        call' = [call EXCEPT ![p] =
                   [pc |-> "keys", revMax |-> call[p].of.revMax,
                    keys |-> Redis_getSnapshot(S, call[p].of.revMax),
                    before |-> call[p].of.before, past |-> call[p].of.past]]
  BY <1>3, <1>4
<1>. QED
  BY <1>1, <1>2, <1>5, <1>7, <1>8, <1>9

LEMMA KeysStored == ASSUME NEW S, NEW revMax PROVE Redis_getSnapshot(S, revMax) \subseteq S
BY DEF Redis_getSnapshot

LEMMA ScanEndsStep ==
  ASSUME SnapshotAssumption, StoreInv, NEW p \in Client, ScanEnds(p)
  PROVE  StoreInv'
<1>1. /\ driver = "redis" /\ call[p].pc = "scan" /\ UNCHANGED Stored
      /\ call[p].of.pc = "cleaning" \/ call[p].of \in Asked
  BY ScanIs
<1>2. PICK S : /\ S \subseteq ever /\ S \subseteq Snapshot /\ S \subseteq call[p].found \cup snaps
               /\ snaps \subseteq call[p].found => snaps \subseteq S
               /\ (call[p].of.pc = "cleaning" /\ Excess(S) = {}) =>
                    call' = [call EXCEPT ![p] = Idle]
               /\ (call[p].of.pc = "cleaning" /\ Excess(S) # {}) =>
                    call' = [call EXCEPT ![p] = [pc |-> "removing", doomed |-> Excess(S)]]
               /\ call[p].of.pc = "asked" =>
                    call' = [call EXCEPT ![p] =
                               [pc |-> "keys", revMax |-> call[p].of.revMax,
                                keys |-> Redis_getSnapshot(S, call[p].of.revMax),
                                before |-> call[p].of.before, past |-> call[p].of.past]]
  BY ScanIs
<1>3. Types /\ CallsFit
  BY DEF StoreInv
<1>4. Excess(S) \subseteq Excess(ever) /\ Excess(S) \subseteq S
  <2>1. IsFiniteSet(ever) /\ maxCount \in Nat
    BY <1>3 DEF Types, SnapshotAssumption
  <2>. QED
    BY <1>2, <2>1, ExcessGrows DEF Excess
<1>5. CASE call[p].of.pc = "asked"
  <2>1. call[p].of \in Asked
    BY <1>1, <1>5
  <2>2. PICK c : c = [pc |-> "keys", revMax |-> call[p].of.revMax,
                      keys |-> Redis_getSnapshot(S, call[p].of.revMax),
                      before |-> call[p].of.before, past |-> call[p].of.past]
    OBVIOUS
  <2>3. Redis_getSnapshot(S, call[p].of.revMax) \subseteq S
    BY KeysStored
  <2>4. /\ c \in Calls /\ c.pc = "keys" /\ c.keys \subseteq S
        /\ c.past = call[p].of.past
    BY <1>2, <2>1, <2>2, <2>3, AskedFields DEF Calls
  <2>5. Fits(c)
    BY <1>1, <1>2, <1>3, <1>5, <2>4 DEF CallsFit, Fits
  <2>6. ~WillClean(call[p])
    BY <1>1, <1>5 DEF WillClean
  <2>7. call' = [call EXCEPT ![p] = c]
    BY <1>2, <1>5, <2>2
  <2>. QED
    BY <1>1, <2>4, <2>5, <2>6, <2>7, LocalStep
<1>6. CASE call[p].of.pc = "cleaning"
  <2>1. PICK c : c = IF Excess(S) = {} THEN Idle ELSE [pc |-> "removing", doomed |-> Excess(S)]
    OBVIOUS
  <2>2. call' = [call EXCEPT ![p] = c]
    BY <1>2, <1>6, <2>1
  <2>3. c \in Calls /\ c.pc \in {"idle", "removing"} /\ (c.pc = "idle" <=> Excess(S) = {})
        /\ (c.pc = "removing" => c.doomed = Excess(S))
    <3>1. CASE Excess(S) = {}
      BY <2>1, <3>1, IdleIsCall
    <3>2. CASE Excess(S) # {}
      <4>1. Excess(S) \in SUBSET Snapshot
        BY <1>2, <1>4
      <4>2. c = [pc |-> "removing", doomed |-> Excess(S)]
        BY <2>1, <3>2
      <4>. QED
        BY <3>2, <4>1, <4>2 DEF Calls
    <3>. QED
      BY <3>1, <3>2
  <2>4. /\ call' \in [Client -> Calls]
        /\ call'[p] = c
        /\ \A q \in Client : q # p => call'[q] = call[q]
    BY <1>3, <2>2, <2>3, CallTurns
  <2>5. UNCHANGED <<driver, maxCount, used, reused, stream, snaps, ever, made, clock, late, faults>>
    BY <1>1 DEF Stored
  <2>6. Doomed' = Doomed \cup Excess(S)
    <3>1. Sent' = Sent
      BY <2>5 DEF Sent, Snapshot
    <3>2. Doomed = Sent \cup Elsewhere(p)
      BY <1>1, <2>2, <2>3, DoomedBy
    <3>3. CASE c.pc = "idle"
      <4>1. Doomed' = Sent' \cup Elsewhere(p)
        BY <2>2, <2>3, <3>3, DoomedBy
      <4>2. Excess(S) = {}
        BY <2>3, <3>3
      <4>. QED
        BY <3>1, <3>2, <4>1, <4>2
    <3>4. CASE c.pc = "removing"
      <4>1. Doomed' = Sent' \cup c.doomed \cup Elsewhere(p)
        BY <2>2, <2>3, <3>4, DoomedBy
      <4>2. c.doomed = Excess(S)
        BY <2>3, <3>4
      <4>. QED
        BY <3>1, <3>2, <4>1, <4>2
    <3>. QED
      BY <2>3, <3>3, <3>4
  <2>7. ExcessIsDoomed'
    <3>. SUFFICES ASSUME Cleans, faults = 0
                  PROVE  (\E q \in Client : WillClean(call[q])') \/ Excess(snaps)' \subseteq Doomed'
      BY <2>5 DEF ExcessIsDoomed, Cleans
    <3>1. Excess(snaps)' \subseteq Excess(snaps)
      <4>1. snaps' = snaps \ {}
        BY <2>5
      <4>. QED
        BY <2>5, <4>1, ExcessShrinks
    <3>2. CASE WillClean(call[p])
      <4>1. snaps \subseteq S
        BY <1>1, <1>2, <3>2 DEF WillClean
      <4>2. IsFiniteSet(S) /\ maxCount \in Nat
        BY <1>2, <1>3, FS_Subset DEF Types, SnapshotAssumption
      <4>3. Excess(snaps) \subseteq Excess(S)
        BY <4>1, <4>2, ExcessGrows
      <4>. QED
        BY <2>6, <3>1, <4>3
    <3>3. CASE \E q \in Client : q # p /\ WillClean(call[q])
      <4>1. PICK q \in Client : q # p /\ WillClean(call[q])
        BY <3>3
      <4>2. WillClean(call[q])'
        BY <2>4, <2>5, <4>1 DEF WillClean
      <4>. QED
        BY <4>2
    <3>4. CASE Excess(snaps) \subseteq Doomed
      BY <2>6, <3>1, <3>4
    <3>. QED
      BY <3>2, <3>3, <3>4 DEF StoreInv, ExcessIsDoomed
  <2>8. \A q \in Client : Fits(call'[q])
    BY <1>3, <2>3, <2>4 DEF CallsFit, Fits
  <2>9. \A q \in Client : call'[q].pc = "adding" => call'[q] = call[q]
    BY <2>3, <2>4
  <2>10. faults' \in faults .. MaxFaults /\ late' \subseteq SUBSET Snapshot /\ snaps' \subseteq snaps
         /\ snaps \ snaps' = {} /\ Doomed' \subseteq Doomed \cup Excess(ever)
    BY <1>3, <1>4, <2>5, <2>6 DEF Types
  <2>. QED
    BY <2>4, <2>5, <2>7, <2>8, <2>9, <2>10, RemovalStep
<1>. QED
  BY <1>1, <1>5, <1>6 DEF Asked

LEMMA DeleteStep ==
  ASSUME SnapshotAssumption, StoreInv, NEW p \in Client, NEW what \in {"events", "snapshots"},
         Delete(p, what)
  PROVE  StoreInv'
<1>1. /\ call[p].pc = "deleting"
      /\ UNCHANGED <<driver, maxCount, used, reused, made, clock, late>>
  BY DEF Delete
<1>2. Types /\ CallsFit /\ Fits(call[p]) /\ call[p] \in Calls
  BY DEF StoreInv, Types, CallsFit
<1>3. driver = "mongodb" /\ ~WillClean(call[p])
  BY <1>1, <1>2 DEF Fits, WillClean
<1>4. PICK left, c : /\ left = call[p].left \ {what}
                     /\ c = IF left = {} THEN Idle ELSE [call[p] EXCEPT !.left = left]
  OBVIOUS
<1>5. call' = [call EXCEPT ![p] = c]
  BY <1>4 DEF Delete
<1>6. c \in Calls /\ c.pc \in {"idle", "deleting"}
  <2>1. CASE left = {}
    BY <1>4, <2>1, IdleIsCall
  <2>2. CASE left # {}
    <3>1. call[p] \in [pc : {"deleting"}, left : SUBSET {"events", "snapshots"}]
      BY <1>1, <1>2 DEF Calls, Asked
    <3>2. c = [call[p] EXCEPT !.left = left] /\ left \subseteq {"events", "snapshots"}
      BY <1>4, <2>2, <3>1
    <3>3. c \in [pc : {"deleting"}, left : SUBSET {"events", "snapshots"}]
      BY <3>1, <3>2
    <3>. QED
      BY <3>3 DEF Calls
  <2>. QED
    BY <2>1, <2>2
<1>7. Fits(c)
  BY <1>3, <1>6 DEF Fits
<1>8. CASE /\ faults < MaxFaults
           /\ faults' = faults + 1
           /\ UNCHANGED <<stream, snaps, ever>>
  BY <1>1, <1>5, <1>6, <1>7, <1>8, FaultStep
<1>9. CASE /\ stream' = IF what = "events" THEN {} ELSE stream
           /\ what # "snapshots" /\ snaps' = snaps /\ ever' = ever
           /\ UNCHANGED faults
  <2>1. /\ UNCHANGED <<driver, maxCount, snaps, ever, made, late, faults>>
        /\ stream' \subseteq 0 .. MaxRevision /\ used' \subseteq 0 .. MaxRevision
        /\ reused' \in BOOLEAN /\ clock' \in 0 .. made
    BY <1>1, <1>2, <1>9 DEF Types
  <2>. QED
    BY <1>1, <1>3, <1>5, <1>6, <1>7, <2>1, CallStep
<1>10. CASE /\ stream' = stream /\ snaps' = {} /\ ever' = {}
            /\ UNCHANGED faults
  <2>1. /\ call' \in [Client -> Calls]
        /\ call'[p] = c
        /\ \A q \in Client : q # p => call'[q] = call[q]
    BY <1>2, <1>5, <1>6, CallTurns
  <2>2. Types'
    BY <1>1, <1>2, <1>10, <2>1, FS_EmptySet DEF Types
  <2>3. CallsFit'
    BY <1>1, <1>2, <1>3, <1>6, <2>1 DEF CallsFit, Fits
  <2>4. Doomed' = Doomed
    <3>1. Sent' = Sent
      BY <1>1 DEF Sent, Snapshot
    <3>. QED
      BY <1>1, <1>5, <1>6, <3>1, DoomedBy
  <2>5. \A q \in Client : call'[q].pc = "adding" => call'[q] = call[q]
    BY <1>6, <2>1
  <2>6. IdsDiffer'
    BY <1>1, <1>10, <2>4, <2>5 DEF StoreInv, IdsDiffer, OwnIds
  <2>7. GoneInExcess'
    BY <1>10 DEF GoneInExcess
  <2>8. ExcessIsDoomed'
    <3>1. PICK S, T : S = snaps' /\ T = ever'
      OBVIOUS
    <3>2. Excess(snaps)' = Excess(S) /\ S = {}
      BY <1>1, <1>10, <3>1, ExcessStays
    <3>3. Excess(snaps)' = {}
      BY <3>2 DEF Excess
    <3>. QED
      BY <3>3 DEF ExcessIsDoomed
  <2>. QED
    BY <2>2, <2>3, <2>6, <2>7, <2>8 DEF StoreInv
<1>. QED
  BY <1>8, <1>9, <1>10 DEF Delete

-----------------------------------------------------------------------------
(* The stored snapshots *)

LEMMA StoreInit == SnapshotAssumption /\ Init => StoreInv
<1>. SUFFICES ASSUME SnapshotAssumption, Init PROVE StoreInv
  OBVIOUS
<1>1. /\ snaps = {} /\ ever = {} /\ late = {} /\ faults = 0 /\ made = 0
      /\ call = [p \in Client |-> Idle]
      /\ driver \in Drivers /\ maxCount \in Counts
  BY DEF Init
<1>2. Types
  <2>1. {MaxRevision, MaxSnaps, MaxFaults} \subseteq Nat
    BY DEF SnapshotAssumption
  <2>2. /\ stream \subseteq 0 .. MaxRevision /\ used \subseteq 0 .. MaxRevision
        /\ reused \in BOOLEAN /\ clock \in 0 .. made
        /\ made \in 0 .. MaxSnaps /\ faults \in 0 .. MaxFaults
    <3>1. /\ stream = {0} /\ used = {0} /\ reused = FALSE /\ clock = 0 /\ made = 0 /\ faults = 0
          /\ MaxRevision \in Nat /\ MaxSnaps \in Nat /\ MaxFaults \in Nat
      BY <2>1 DEF Init
    <3>2. stream \subseteq 0 .. MaxRevision /\ used \subseteq 0 .. MaxRevision
      BY <3>1
    <3>3. clock \in 0 .. made /\ made \in 0 .. MaxSnaps /\ faults \in 0 .. MaxFaults
      BY <3>1
    <3>. QED
      BY <3>1, <3>2, <3>3
  <2>3. call \in [Client -> Calls]
    BY <1>1, IdleIsCall
  <2>. QED
    BY <1>1, <2>2, <2>3, FS_EmptySet DEF Types
<1>3. \A p \in Client : call[p] = Idle /\ call[p].pc = "idle"
  BY <1>1, IdleIsCall
<1>4. CallsFit
  BY <1>3 DEF CallsFit, Fits
<1>5. Doomed = {}
  BY <1>1, <1>3 DEF Doomed
<1>6. IdsDiffer
  BY <1>1, <1>3, <1>5 DEF IdsDiffer, OwnIds
<1>7. GoneInExcess /\ ExcessIsDoomed
  BY <1>1, <1>5 DEF GoneInExcess, ExcessIsDoomed, Excess
<1>. QED
  BY <1>2, <1>4, <1>6, <1>7 DEF StoreInv

LEMMA StoreNext == SnapshotAssumption /\ StoreInv /\ [Next]_vars => StoreInv'
<1>. SUFFICES ASSUME SnapshotAssumption, StoreInv, [Next]_vars PROVE StoreInv'
  OBVIOUS
<1>1. CASE UNCHANGED vars
  <2>1. /\ UNCHANGED <<driver, maxCount, snaps, ever, made, clock, late, faults, call>>
        /\ stream' \subseteq 0 .. MaxRevision /\ used' \subseteq 0 .. MaxRevision
        /\ reused' \in BOOLEAN
    BY <1>1 DEF vars, StoreInv, Types
  <2>. QED
    BY <2>1, SameCalls
<1>2. CASE \E p \in Client : Done(p)
  BY <1>2, DoneStep
<1>3. CASE Others
  <2>1. CASE Commit
    BY <2>1, CommitStep
  <2>2. CASE RemoveLate
    BY <2>2, RemoveLateStep
  <2>3. ASSUME NEW p \in Client,
               \/ CreateSnapshot(p) \/ AddSnapshot(p) \/ ListExcess(p) \/ RemoveNext(p)
               \/ ScanBegins(p) \/ ScanEnds(p) \/ RequestFails(p)
        PROVE  StoreInv'
    BY <2>3, CreateSnapshotStep, AddingStep, ListExcessStep, RemoveNextStep, ScanBeginsStep,
       ScanEndsStep, RequestFailsStep
  <2>4. ASSUME NEW p \in Client, \E m \in RevMaxs : GetFromSnapshot(p, m)
        PROVE  StoreInv'
    BY <2>4, GetFromSnapshotStep
  <2>5. ASSUME NEW p \in Client, LookUp(p) \/ GetKey(p) \/ GetEventStream(p) \/ DeleteStream(p)
        PROVE  StoreInv'
    BY <2>5, LookUpStep, GetKeyStep, GetEventStreamStep, DeleteStreamStep
  <2>6. ASSUME NEW p \in Client, \E what \in {"events", "snapshots"} : Delete(p, what)
        PROVE  StoreInv'
    BY <2>6, DeleteStep
  <2>. QED
    BY <1>3, <2>1, <2>2, <2>3, <2>4, <2>5, <2>6 DEF Others
<1>. QED
  BY <1>1, <1>2, <1>3 DEF Next

LEMMA StoreIsSound == ASSUME SnapshotAssumption, StoreInv PROVE SnapshotsOK
<1>1. Types /\ CallsFit /\ IdsDiffer /\ GoneInExcess /\ ExcessIsDoomed
  BY DEF StoreInv
<1>2. TypeOK
  <2>1. clock \in 0 .. MaxSnaps
    BY <1>1 DEF Types, SnapshotAssumption
  <2>2. snaps \cup ever \cup UNION late \subseteq Snapshot
    BY <1>1 DEF Types
  <2>3. \A p \in Client : call[p].pc \in {"idle", "adding", "cleaning", "removing", "scan", "asked",
                                          "keys", "found", "answered", "rejected", "thrown", "deleting"}
    BY <1>1 DEF Types, Calls, Asked
  <2>. QED
    BY <1>1, <2>1, <2>2, <2>3 DEF TypeOK, Types
<1>3. Kept(ever) \subseteq snaps
  <2>1. Kept(ever) = ever \ Excess(ever)
    BY <1>1, CleanIsExcess DEF Types
  <2>. QED
    BY <1>1, <2>1 DEF GoneInExcess
<1>4. ASSUME Cleans, \A p \in Client : call[p].pc \notin {"adding", "cleaning", "removing", "scan"},
             late = {}, faults = 0
      PROVE  Cardinality(snaps) <= maxCount
  <2>1. Doomed = {} /\ \A p \in Client : ~WillClean(call[p])
    BY <1>4 DEF Doomed, WillClean
  <2>2. Excess(snaps) = {}
    BY <1>1, <1>4, <2>1 DEF ExcessIsDoomed
  <2>3. /\ driver \in Drivers /\ maxCount \in Nat /\ snaps \subseteq Snapshot
        /\ IsFiniteSet(snaps) /\ OwnIds(snaps)
    BY <1>1, FS_Subset DEF Types, IdsDiffer, OwnIds, SnapshotAssumption
  <2>. QED
    BY <2>2, <2>3, NoExcess
<1>. QED
  BY <1>2, <1>3, <1>4 DEF SnapshotsOK, BestSurvive, Cleans

\* However clients that add, clean, fail and delete interleave, on whichever driver,
\* no snapshot that has to be kept is removed, and when all calls have ended without
\* a failure the store holds no more than maxSnapshotsCount.
THEOREM SnapshotsStaySound == Spec => []SnapshotsOK
<1>1. Init => StoreInv
  BY StoreInit, SnapshotAssumption
<1>2. StoreInv /\ [Next]_vars => StoreInv'
  BY StoreNext, SnapshotAssumption
<1>3. StoreInv => SnapshotsOK
  BY StoreIsSound, SnapshotAssumption
<1>. QED
  BY <1>1, <1>2, <1>3, PTL DEF Spec

-----------------------------------------------------------------------------
(* Loads pass the snapshot *)

Reads(c) ==
  /\ c.pc = "adding" => c.snap.rev \in used
  /\ (c.pc \in {"found", "answered"} /\ c.snap # NoSnap) =>
       /\ c.snap.rev \in used
       /\ c.revMax # -1 => c.snap.rev <= c.revMax
  /\ (c.pc = "answered" /\ c.snap # NoSnap /\ c.revMax # c.snap.rev /\ ~reused) =>
       c.lastRevision >= c.snap.rev

\* Snapshots are of revisions that were stored; until one is given again the stream
\* holds all of them or was deleted.
RevisionsInv ==
  /\ ~reused => (\E k \in 0 .. MaxRevision : used = 0 .. k) /\ stream \in {{}, used}
  /\ \A s \in ever : s.rev \in used
  /\ \A p \in Client : Reads(call[p])

LEMMA ReadsStep ==
  ASSUME RevisionsInv, UNCHANGED <<used, reused>>, stream' = stream \/ stream' = {},
         \A s \in ever' : s.rev \in used,
         \A p \in Client : call'[p] = call[p] \/ Reads(call'[p])
  PROVE  RevisionsInv'
<1>1. \A p \in Client : Reads(call'[p])
  BY DEF RevisionsInv
<1>2. \A p \in Client : Reads(call[p])'
  BY <1>1 DEF Reads
<1>. QED
  BY <1>2 DEF RevisionsInv

LEMMA CommitReads == SnapshotAssumption /\ StoreInv /\ RevisionsInv /\ Commit => RevisionsInv'
<1>. SUFFICES ASSUME SnapshotAssumption, StoreInv, RevisionsInv, Commit PROVE RevisionsInv'
  OBVIOUS
<1>1. PICK r : r = NextRevision(Latest(stream)) /\ Store(r)
  BY DEF Commit
<1>2. /\ stream' = stream \cup {r} /\ used' = used \cup {r}
      /\ reused' = (reused \/ r \in used)
  BY <1>1 DEF Store
<1>3. UNCHANGED <<ever, call>>
  BY DEF Commit
<1>4. /\ stream \subseteq 0 .. MaxRevision /\ used \subseteq 0 .. MaxRevision
      /\ MaxRevision \in Nat /\ Latest(stream) < MaxRevision
  BY DEF StoreInv, Types, Commit, SnapshotAssumption
<1>5. ASSUME ~reused'
      PROVE  (\E k \in 0 .. MaxRevision : used' = 0 .. k) /\ stream' = used'
  <2>1. ~reused /\ r \notin used
    BY <1>2, <1>5
  <2>2. PICK k \in 0 .. MaxRevision : used = 0 .. k
    BY <2>1 DEF RevisionsInv
  <2>3. Latest(stream) \in stream \cup {-1} /\ \A n \in stream : n <= Latest(stream)
    BY <1>4, LatestIsLast
  <2>4. stream # {}
    <3>1. CASE stream = {}
      <4>1. Latest(stream) = -1
        BY <2>3, <3>1
      <4>2. r = 0
        BY <1>1, <4>1 DEF NextRevision
      <4>3. 0 \in 0 .. k
        BY <2>2
      <4>. QED
        BY <2>1, <2>2, <4>2, <4>3
    <3>. QED
      BY <3>1
  <2>5. stream = used
    BY <2>1, <2>4 DEF RevisionsInv
  <2>6. Latest(stream) = k
    <3>1. k \in stream /\ k \in Nat
      BY <1>4, <2>2, <2>5
    <3>2. k <= Latest(stream)
      BY <2>3, <3>1
    <3>3. Latest(stream) \in 0 .. k
      BY <2>2, <2>3, <2>5, <3>1, <3>2
    <3>. QED
      BY <3>1, <3>2, <3>3
  <2>7. r = k + 1 /\ k \in Nat /\ k + 1 \in 0 .. MaxRevision
    BY <1>1, <1>4, <2>6 DEF NextRevision
  <2>8. used' = 0 .. k + 1
    BY <1>2, <2>2, <2>7
  <2>. QED
    BY <1>2, <2>5, <2>7, <2>8
<1>6. \A p \in Client : Reads(call[p])'
  BY <1>2, <1>3 DEF RevisionsInv, Reads
<1>7. \A s \in ever' : s.rev \in used'
  BY <1>2, <1>3 DEF RevisionsInv
<1>. QED
  BY <1>5, <1>6, <1>7 DEF RevisionsInv

\* A call that neither adds a snapshot nor answers one.
LEMMA Unread ==
  ASSUME NEW c, c.pc \notin {"adding", "found", "answered"}
  PROVE  Reads(c)
BY DEF Reads

LEMMA LookUpReads ==
  ASSUME SnapshotAssumption, StoreInv, RevisionsInv, NEW p \in Client, LookUp(p)
  PROVE  RevisionsInv'
<1>1. call[p] \in Asked /\ driver # "redis" /\ UNCHANGED Stored
  BY LookUpIs
<1>2. PICK S : /\ S \subseteq ever /\ S \subseteq Snapshot /\ OwnIds(S) /\ IsFiniteSet(S)
               /\ call' = [call EXCEPT ![p] = Found(p, GetSnapshot(S, call[p].revMax))]
  BY LookUpIs
<1>3. call[p].pc = "asked" /\ call[p].revMax \in RevMaxs /\ call[p].revMax \in Nat \cup {-1}
  BY <1>1, AskedFields, Revisions
<1>4. PICK m : m = GetSnapshot(S, call[p].revMax)
  OBVIOUS
<1>5. Types
  BY DEF StoreInv
<1>6. m = NoSnap \/ m \in Below(S, call[p].revMax)
  BY <1>1, <1>2, <1>3, <1>4, <1>5, GetSnapshotIs DEF Types
<1>7. m \in Snapshot \cup {NoSnap}
  BY <1>2, <1>6 DEF Below
<1>8. PICK c : c = Found(p, m)
  OBVIOUS
<1>9. /\ c \in Calls
      /\ c.pc = "rejected" \/ (c.pc = "found" /\ c.snap = m /\ c.revMax = call[p].revMax)
  BY <1>3, <1>7, <1>8, FoundIs
<1>10. Reads(c)
  <2>1. m # NoSnap => m.rev \in used /\ (call[p].revMax # -1 => m.rev <= call[p].revMax)
    BY <1>2, <1>6 DEF RevisionsInv, Below
  <2>. QED
    BY <1>9, <2>1 DEF Reads
<1>11. \A q \in Client : call'[q] = call[q] \/ Reads(call'[q])
  <2>1. call' = [call EXCEPT ![p] = c]
    BY <1>2, <1>4, <1>8
  <2>. QED
    BY <1>5, <1>9, <1>10, <2>1, CallTurns
<1>12. UNCHANGED <<used, reused, stream, ever>>
  BY <1>1 DEF Stored
<1>. QED
  BY <1>11, <1>12, ReadsStep DEF RevisionsInv

LEMMA GetKeyReads ==
  ASSUME SnapshotAssumption, StoreInv, RevisionsInv, NEW p \in Client, GetKey(p)
  PROVE  RevisionsInv'
<1>1. PICK key : key = First(call[p].keys, KeysReversed)
  OBVIOUS
<1>2. /\ call[p] \in Calls /\ call[p].pc = "keys" /\ UNCHANGED Stored /\ Types
      /\ snaps \subseteq ever /\ ever \subseteq Snapshot
  BY DEF StoreInv, Types, GetKey, Stored
<1>3. call[p].revMax \in RevMaxs /\ call[p].revMax \in Nat \cup {-1}
  BY <1>2, CallFields, Revisions
<1>4. PICK c : c = IF call[p].keys = {} THEN Found(p, NoSnap)
                   ELSE IF key \notin snaps
                        THEN IF call[p].revMax = -1 THEN Found(p, NoSnap) ELSE [pc |-> "thrown"]
                   ELSE IF call[p].revMax > -1 /\ key.rev > call[p].revMax
                        THEN [call[p] EXCEPT !.keys = call[p].keys \ {key}]
                   ELSE Found(p, key)
  OBVIOUS
<1>5. call' = [call EXCEPT ![p] = c]
  BY <1>1, <1>4 DEF GetKey
<1>6. Reads(c)
  <2>1. Reads(Found(p, NoSnap))
    BY <1>3, FoundIs DEF Reads
  <2>2. Reads([pc |-> "thrown"])
    BY DEF Reads
  <2>3. Reads([call[p] EXCEPT !.keys = call[p].keys \ {key}])
    <3>1. PICK d : d = [call[p] EXCEPT !.keys = call[p].keys \ {key}]
      OBVIOUS
    <3>2. call[p] \in [pc : {"keys"}, revMax : RevMaxs, keys : SUBSET Snapshot,
                       before : SUBSET Snapshot, past : SUBSET Snapshot]
      BY <1>2 DEF Calls, Asked
    <3>3. d.pc = "keys"
      BY <3>1, <3>2
    <3>. QED
      BY <3>1, <3>3 DEF Reads
  <2>4. ASSUME key \in snaps, ~(call[p].revMax > -1 /\ key.rev > call[p].revMax)
        PROVE  Reads(Found(p, key))
    <3>1. key \in ever /\ key \in Snapshot /\ key.rev \in Nat /\ key.rev \in used
      BY <1>2, <2>4, SnapshotType DEF RevisionsInv
    <3>2. call[p].revMax # -1 => key.rev <= call[p].revMax
      BY <1>3, <2>4, <3>1
    <3>3. PICK d : d = Found(p, key)
      OBVIOUS
    <3>4. d.pc = "rejected" \/ (d.pc = "found" /\ d.snap = key /\ d.revMax = call[p].revMax)
      BY <1>3, <3>1, <3>3, FoundIs
    <3>. QED
      BY <3>1, <3>2, <3>3, <3>4 DEF Reads
  <2>. QED
    BY <1>4, <2>1, <2>2, <2>3, <2>4
<1>7. \A q \in Client : call'[q] = call[q] \/ Reads(call'[q])
  BY <1>2, <1>5, <1>6 DEF Types
<1>8. UNCHANGED <<used, reused, stream, ever>>
  BY <1>2 DEF Stored
<1>. QED
  BY <1>7, <1>8, ReadsStep DEF RevisionsInv

LEMMA GetEventStreamReads ==
  ASSUME SnapshotAssumption, StoreInv, RevisionsInv, NEW p \in Client, GetEventStream(p)
  PROVE  RevisionsInv'
<1>1. /\ call[p].pc = "found" /\ UNCHANGED Stored
      /\ call[p].revMax \in RevMaxs /\ call[p].snap \in Snapshot \cup {NoSnap}
  BY GetEventStreamIs
<1>2. PICK c \in Calls :
        /\ call' = [call EXCEPT ![p] = c]
        /\ c = [pc |-> "answered", revMax |-> call[p].revMax, snap |-> call[p].snap,
                lastRevision |-> AdjustRevision(Loaded(call[p].revMax), call[p].snap)]
  BY GetEventStreamIs
<1>3. PICK snap, revMax, revs : /\ snap = call[p].snap /\ revMax = call[p].revMax
                                /\ revs = Loaded(revMax)
  OBVIOUS
<1>4. /\ c.pc = "answered" /\ c.snap = snap /\ c.revMax = revMax
      /\ c.lastRevision = AdjustRevision(revs, snap)
  BY <1>2, <1>3
<1>5. Types /\ stream \subseteq 0 .. MaxRevision /\ MaxRevision \in Nat
  BY DEF StoreInv, Types, SnapshotAssumption
<1>6. /\ revs = {r \in stream : \/ revMax = -1 \/ r < revMax
                                \/ driver = "dynamodb" /\ r = revMax}
      /\ revs \subseteq 0 .. MaxRevision
  BY <1>3, <1>5 DEF Loaded
<1>7. ASSUME snap # NoSnap PROVE snap.rev \in used /\ (revMax # -1 => snap.rev <= revMax)
  BY <1>1, <1>3, <1>7 DEF RevisionsInv, Reads
<1>8. ASSUME snap # NoSnap, revMax # snap.rev, ~reused PROVE c.lastRevision >= snap.rev
  <2>1. snap \in Snapshot /\ snap.rev \in Nat /\ revMax \in Nat \cup {-1}
    BY <1>1, <1>3, <1>8, SnapshotType, Revisions
  <2>2. CASE revs = {}
    <3>1. c.lastRevision = snap.rev
      BY <1>4, <2>2 DEF AdjustRevision
    <3>. QED
      BY <2>1, <3>1
  <2>3. CASE revs # {}
    <3>1. stream # {} /\ stream = used
      BY <1>6, <1>8, <2>3 DEF RevisionsInv
    <3>2. snap.rev \in stream /\ (revMax # -1 => snap.rev < revMax)
      BY <1>7, <1>8, <2>1, <3>1
    <3>3. snap.rev \in revs
      BY <1>6, <3>2
    <3>4. snap.rev <= Latest(revs) /\ Latest(revs) \in revs \cup {-1}
      BY <1>6, <3>3, LatestIsLast
    <3>5. Latest(revs) \in Int
      BY <1>6, <3>4
    <3>6. c.lastRevision = Latest(revs)
      BY <1>4, <2>3 DEF AdjustRevision
    <3>. QED
      BY <2>1, <3>4, <3>5, <3>6
  <2>. QED
    BY <2>2, <2>3
<1>9. Reads(c)
  BY <1>4, <1>7, <1>8 DEF Reads
<1>10. \A q \in Client : call'[q] = call[q] \/ Reads(call'[q])
  BY <1>2, <1>5, <1>9, CallTurns
<1>11. UNCHANGED <<used, reused, stream, ever>>
  BY <1>1 DEF Stored
<1>. QED
  BY <1>10, <1>11, ReadsStep DEF RevisionsInv

\* Steps after which the client neither adds nor answers a snapshot.
LEMMA UnreadStep ==
  ASSUME StoreInv, RevisionsInv, UNCHANGED <<used, reused, ever>>,
         stream' = stream \/ stream' = {},
         NEW p \in Client, NEW c, c.pc \notin {"adding", "found", "answered"},
         call' = [call EXCEPT ![p] = c]
  PROVE  RevisionsInv'
<1>1. \A q \in Client : call'[q] = call[q] \/ Reads(call'[q])
  BY Unread DEF StoreInv, Types
<1>. QED
  BY <1>1, ReadsStep DEF RevisionsInv

LEMMA CreateSnapshotReads ==
  ASSUME StoreInv, RevisionsInv, NEW p \in Client, CreateSnapshot(p)
  PROVE  RevisionsInv'
<1>1. PICK r, t :
        /\ r \in used
        /\ call' = [call EXCEPT ![p] = [pc |-> "adding",
                                        snap |-> [id |-> made, rev |-> r, stamp |-> t]]]
  BY DEF CreateSnapshot
<1>2. PICK c : c = [pc |-> "adding", snap |-> [id |-> made, rev |-> r, stamp |-> t]]
  OBVIOUS
<1>3. Reads(c)
  BY <1>1, <1>2 DEF Reads
<1>4. \A q \in Client : call'[q] = call[q] \/ Reads(call'[q])
  BY <1>1, <1>2, <1>3 DEF StoreInv, Types
<1>5. UNCHANGED <<used, reused, stream, ever>>
  BY DEF CreateSnapshot
<1>. QED
  BY <1>4, <1>5, ReadsStep DEF RevisionsInv

LEMMA AddSnapshotReads ==
  ASSUME StoreInv, RevisionsInv, NEW p \in Client, AddSnapshot(p)
  PROVE  RevisionsInv'
<1>1. PICK c : /\ c.pc \notin {"adding", "found", "answered"}
               /\ call' = [call EXCEPT ![p] = c]
  <2>1. PICK i, j : i = Idle /\ j = [pc |-> "cleaning"]
    OBVIOUS
  <2>2. i.pc = "idle" /\ j.pc = "cleaning"
    BY <2>1 DEF Idle
  <2>3. call' = [call EXCEPT ![p] = i] \/ call' = [call EXCEPT ![p] = j]
    BY <2>1 DEF AddSnapshot
  <2>. QED
    BY <2>2, <2>3
<1>2. /\ UNCHANGED <<used, reused, stream>>
      /\ \A s \in ever' : s.rev \in used
  BY DEF AddSnapshot, RevisionsInv, Reads
<1>3. \A q \in Client : call'[q] = call[q] \/ Reads(call'[q])
  BY <1>1, Unread DEF StoreInv, Types
<1>. QED
  BY <1>2, <1>3, ReadsStep

LEMMA CleaningReads ==
  ASSUME SnapshotAssumption, StoreInv, RevisionsInv, NEW p \in Client,
         ListExcess(p) \/ RemoveNext(p) \/ ScanBegins(p) \/ ScanEnds(p)
  PROVE  RevisionsInv'
<1>1. UNCHANGED <<used, reused, stream, ever>>
  BY DEF ListExcess, RemoveNext, ScanBegins, ScanEnds
<1>2. PICK i : i = Idle /\ i.pc = "idle"
  BY IdleIsCall
<1>3. CASE ListExcess(p)
  <2>1. PICK c : c = [pc |-> "removing", doomed |-> CleanSnapshots(snaps)]
    OBVIOUS
  <2>2. call' = [call EXCEPT ![p] = i] \/ call' = [call EXCEPT ![p] = c]
    <3>1. PICK doomed : doomed = CleanSnapshots(snaps)
      OBVIOUS
    <3>2. c = [pc |-> "removing", doomed |-> doomed]
      BY <2>1, <3>1
    <3>3. \/ doomed = {} \/ (doomed # {} /\ driver = "inmemory")
          \/ doomed # {} /\ driver = "tingodb"
          \/ doomed # {} /\ driver \notin {"inmemory", "tingodb"}
      OBVIOUS
    <3>. QED
      BY <1>2, <1>3, <3>1, <3>2, <3>3 DEF ListExcess
  <2>3. c.pc = "removing"
    BY <2>1
  <2>. QED
    BY <1>1, <1>2, <2>2, <2>3, UnreadStep
<1>4. CASE RemoveNext(p)
  <2>1. PICK gone, left, over :
          /\ over = IF left = {} THEN Idle ELSE [call[p] EXCEPT !.doomed = left]
          /\ call' = [call EXCEPT ![p] = over] \/ call' = [call EXCEPT ![p] = Idle]
    BY <1>4 DEF RemoveNext
  <2>2. call[p] \in Calls /\ call[p].pc = "removing"
    BY <1>4 DEF RemoveNext, StoreInv, Types
  <2>3. [call[p] EXCEPT !.doomed = left].pc = "removing"
    <3>1. call[p] \in [pc : {"removing"}, doomed : SUBSET Snapshot]
      BY <2>2 DEF Calls, Asked
    <3>. QED
      BY <3>1
  <2>4. over.pc \in {"idle", "removing"}
    BY <1>2, <2>1, <2>3
  <2>. QED
    BY <1>1, <1>2, <2>1, <2>4, UnreadStep
<1>5. CASE ScanBegins(p)
  <2>1. PICK c : c = [pc |-> "scan", found |-> snaps, of |-> call[p]]
    OBVIOUS
  <2>2. call' = [call EXCEPT ![p] = c] /\ c.pc = "scan"
    BY <1>5, <2>1 DEF ScanBegins
  <2>. QED
    BY <1>1, <2>2, UnreadStep
<1>6. CASE ScanEnds(p)
  <2>1. call[p].of.pc = "cleaning" \/ call[p].of.pc = "asked"
    BY <1>6, ScanIs, AskedFields
  <2>2. PICK S : /\ (call[p].of.pc = "cleaning" /\ Excess(S) = {}) =>
                      call' = [call EXCEPT ![p] = Idle]
                 /\ (call[p].of.pc = "cleaning" /\ Excess(S) # {}) =>
                      call' = [call EXCEPT ![p] = [pc |-> "removing", doomed |-> Excess(S)]]
                 /\ call[p].of.pc = "asked" =>
                      call' = [call EXCEPT ![p] =
                                 [pc |-> "keys", revMax |-> call[p].of.revMax,
                                  keys |-> Redis_getSnapshot(S, call[p].of.revMax),
                                  before |-> call[p].of.before, past |-> call[p].of.past]]
    BY <1>6, ScanIs
  <2>3. PICK c, d :
          /\ c = [pc |-> "removing", doomed |-> Excess(S)]
          /\ d = [pc |-> "keys", revMax |-> call[p].of.revMax,
                  keys |-> Redis_getSnapshot(S, call[p].of.revMax),
                  before |-> call[p].of.before, past |-> call[p].of.past]
    OBVIOUS
  <2>4. \/ call' = [call EXCEPT ![p] = i] \/ call' = [call EXCEPT ![p] = c]
        \/ call' = [call EXCEPT ![p] = d]
    BY <1>2, <2>1, <2>2, <2>3
  <2>5. c.pc = "removing" /\ d.pc = "keys"
    BY <2>3
  <2>. QED
    BY <1>1, <1>2, <2>4, <2>5, UnreadStep
<1>. QED
  BY <1>3, <1>4, <1>5, <1>6

LEMMA LoadingReads ==
  ASSUME SnapshotAssumption, StoreInv, RevisionsInv, NEW p \in Client,
         \/ \E m \in RevMaxs : GetFromSnapshot(p, m)
         \/ DeleteStream(p) \/ Done(p)
  PROVE  RevisionsInv'
<1>1. UNCHANGED <<used, reused, stream, ever>>
  BY DEF GetFromSnapshot, DeleteStream, Done
<1>2. CASE \E m \in RevMaxs : GetFromSnapshot(p, m)
  <2>1. PICK m \in RevMaxs : GetFromSnapshot(p, m)
    BY <1>2
  <2>2. PICK c : c = [pc |-> "asked", revMax |-> m, before |-> snaps, past |-> ever]
    OBVIOUS
  <2>3. call' = [call EXCEPT ![p] = c] /\ c.pc = "asked"
    BY <2>1, <2>2 DEF GetFromSnapshot
  <2>. QED
    BY <1>1, <2>3, UnreadStep
<1>3. CASE DeleteStream(p)
  <2>1. PICK c : c = [pc |-> "deleting", left |-> {"events", "snapshots"}]
    OBVIOUS
  <2>2. call' = [call EXCEPT ![p] = c] /\ c.pc = "deleting"
    BY <1>3, <2>1 DEF DeleteStream
  <2>. QED
    BY <1>1, <2>2, UnreadStep
<1>4. CASE Done(p)
  <2>1. call' = [call EXCEPT ![p] = Idle]
    BY <1>4 DEF Done
  <2>. QED
    BY <1>1, <2>1, IdleIsCall, UnreadStep
<1>. QED
  BY <1>2, <1>3, <1>4

LEMMA RequestFailsReads ==
  ASSUME StoreInv, RevisionsInv, NEW p \in Client, RequestFails(p)
  PROVE  RevisionsInv'
<1>1. UNCHANGED <<used, reused, stream, ever>>
  BY RequestFailsIs
<1>2. PICK c \in Calls :
        /\ call' = [call EXCEPT ![p] = c]
        /\ \/ c.pc = "idle"
           \/ /\ call[p].pc = "found" /\ c.pc = "answered" /\ c.snap = call[p].snap
              /\ c.revMax = call[p].revMax /\ c.lastRevision = c.snap.rev
  BY RequestFailsIs
<1>3. c.pc = "answered" => c.snap \in Snapshot \cup {NoSnap}
  BY CallFields
<1>4. c.pc = "answered" => c.lastRevision >= c.snap.rev
  BY <1>2, <1>3, SnapshotAssumption, SnapshotType DEF NoSnap
<1>5. Reads(c)
  BY <1>2, <1>4 DEF Reads, RevisionsInv
<1>6. \A q \in Client : call'[q] = call[q] \/ Reads(call'[q])
  BY <1>2, <1>5 DEF StoreInv, Types
<1>. QED
  BY <1>1, <1>6, ReadsStep DEF RevisionsInv

LEMMA DeleteReads ==
  ASSUME SnapshotAssumption, StoreInv, RevisionsInv, NEW p \in Client,
         NEW what \in {"events", "snapshots"}, Delete(p, what)
  PROVE  RevisionsInv'
<1>1. /\ UNCHANGED <<used, reused>> /\ (stream' = stream \/ stream' = {})
      /\ \A s \in ever' : s.rev \in used
  BY DEF Delete, RevisionsInv
<1>2. PICK left, c : /\ left = call[p].left \ {what}
                     /\ c = IF left = {} THEN Idle ELSE [call[p] EXCEPT !.left = left]
  OBVIOUS
<1>3. call' = [call EXCEPT ![p] = c]
  BY <1>2 DEF Delete
<1>4. c.pc \in {"idle", "deleting"}
  <2>1. call[p] \in [pc : {"deleting"}, left : SUBSET {"events", "snapshots"}]
    BY DEF Delete, StoreInv, Types, Calls, Asked
  <2>. QED
    BY <1>2, <2>1, IdleIsCall
<1>5. \A q \in Client : call'[q] = call[q] \/ Reads(call'[q])
  BY <1>3, <1>4, Unread DEF StoreInv, Types
<1>. QED
  BY <1>1, <1>5, ReadsStep

LEMMA RevisionsInit == SnapshotAssumption /\ Init => RevisionsInv
<1>. SUFFICES ASSUME SnapshotAssumption, Init PROVE RevisionsInv
  OBVIOUS
<1>1. stream = {0} /\ used = {0} /\ ever = {} /\ call = [p \in Client |-> Idle]
  BY DEF Init
<1>2. \E k \in 0 .. MaxRevision : used = 0 .. k
  <2>1. 0 \in 0 .. MaxRevision /\ {0} = 0 .. 0
    BY DEF SnapshotAssumption
  <2>. QED
    BY <1>1, <2>1
<1>3. \A p \in Client : Reads(call[p])
  BY <1>1, IdleIsCall DEF Reads
<1>. QED
  BY <1>1, <1>2, <1>3 DEF RevisionsInv

LEMMA RevisionsNext == SnapshotAssumption /\ StoreInv /\ RevisionsInv /\ [Next]_vars => RevisionsInv'
<1>. SUFFICES ASSUME SnapshotAssumption, StoreInv, RevisionsInv, [Next]_vars PROVE RevisionsInv'
  OBVIOUS
<1>1. CASE UNCHANGED vars
  <2>1. UNCHANGED <<used, reused, stream, ever, call>>
    BY <1>1 DEF vars
  <2>. QED
    BY <2>1, ReadsStep DEF RevisionsInv
<1>2. CASE \E p \in Client : Done(p)
  BY <1>2, LoadingReads
<1>3. CASE Others
  <2>1. CASE Commit
    BY <2>1, CommitReads
  <2>2. CASE RemoveLate
    <3>1. UNCHANGED <<used, reused, stream, ever, call>>
      BY <2>2 DEF RemoveLate
    <3>. QED
      BY <3>1, ReadsStep DEF RevisionsInv
  <2>3. ASSUME NEW p \in Client, CreateSnapshot(p) \/ AddSnapshot(p)
        PROVE  RevisionsInv'
    BY <2>3, CreateSnapshotReads, AddSnapshotReads
  <2>4. ASSUME NEW p \in Client, ListExcess(p) \/ RemoveNext(p) \/ ScanBegins(p) \/ ScanEnds(p)
        PROVE  RevisionsInv'
    BY <2>4, CleaningReads
  <2>5. ASSUME NEW p \in Client, (\E m \in RevMaxs : GetFromSnapshot(p, m)) \/ DeleteStream(p)
        PROVE  RevisionsInv'
    BY <2>5, LoadingReads
  <2>6. ASSUME NEW p \in Client, LookUp(p) \/ GetKey(p) \/ GetEventStream(p) \/ RequestFails(p)
        PROVE  RevisionsInv'
    BY <2>6, LookUpReads, GetKeyReads, GetEventStreamReads, RequestFailsReads
  <2>7. ASSUME NEW p \in Client, \E what \in {"events", "snapshots"} : Delete(p, what)
        PROVE  RevisionsInv'
    BY <2>7, DeleteReads
  <2>. QED
    BY <1>3, <2>1, <2>2, <2>3, <2>4, <2>5, <2>6, <2>7 DEF Others
<1>. QED
  BY <1>1, <1>2, <1>3 DEF Next

\* What getEventStream makes of a snapshot goes on behind it: the revision of an answer
\* is not before its snapshot's, whatever is stored, deleted or cleaned between the two
\* reads, with the exceptions that ReplayPassesSnapshot names.
THEOREM ReplaysPassTheSnapshot == Spec => []ReplayPassesSnapshot
<1>. DEFINE Inv == StoreInv /\ RevisionsInv
<1>1. Init => Inv
  BY StoreInit, RevisionsInit, SnapshotAssumption
<1>2. Inv /\ [Next]_vars => Inv'
  BY StoreNext, RevisionsNext, SnapshotAssumption
<1>3. Inv => ReplayPassesSnapshot
  BY DEF RevisionsInv, Reads, ReplayPassesSnapshot, Answered
<1>. QED
  BY <1>1, <1>2, <1>3, PTL DEF Spec

-----------------------------------------------------------------------------
(* Undisturbed loads *)

\* The keys a call of redis goes through, when they are of the snapshots that are stored.
KeysFit(c) ==
  /\ c.keys \subseteq snaps
  /\ IF c.revMax = -1
     THEN /\ snaps # {} => c.keys # {}
          /\ \A s \in c.keys : \A t \in snaps \ {s} : KeysReversed(s, t)
     ELSE \A s \in snaps \ c.keys : s.rev > c.revMax

\* As long as no snapshot was added since a load began, those that are stored are
\* among those there were; when they are the same, none was removed either.
Quiet(c) ==
  /\ (c.pc = "asked" /\ c.past = ever) => snaps \subseteq c.before
  /\ (c.pc = "scan" /\ c.of.pc = "asked" /\ c.of.past = ever) =>
       snaps \subseteq c.found /\ c.found \subseteq c.of.before
  /\ (c.pc = "keys" /\ c.past = ever) =>
       snaps \subseteq c.before /\ (c.before = snaps => KeysFit(c))

QuietInv == driver = "redis" => \A p \in Client : Quiet(call[p])

LEMMA KeysStay ==
  ASSUME UNCHANGED driver, NEW a, NEW b
  PROVE  KeysReversed(a, b)' <=> KeysReversed(a, b)
BY DEF KeysReversed, Key, Mongodb_addSnapshot, Tingodb_addSnapshot, Inmemory_addSnapshot,
   Redis_addSnapshot, Dynamodb_addSnapshot, Azuretable_addSnapshot, Elasticsearch_addSnapshot

\* A call stays quiet when nothing or a snapshot that never was there is added.
LEMMA StaysQuiet ==
  ASSUME StoreInv, driver = "redis", UNCHANGED driver, NEW c, Fits(c), Quiet(c),
         \/ ever' = ever /\ snaps' \subseteq snaps
         \/ \E s : s \notin ever /\ ever' = ever \cup {s}
  PROVE  Quiet(c)'
<1>1. CASE ever' = ever /\ snaps' \subseteq snaps
  <2>1. c.before = snaps' /\ snaps \subseteq c.before => snaps' = snaps
    BY <1>1
  <2>2. snaps' = snaps => (KeysFit(c)' <=> KeysFit(c))
    BY KeysStay DEF KeysFit
  <2>. QED
    BY <1>1, <2>1, <2>2 DEF Quiet
<1>2. CASE \E s : s \notin ever /\ ever' = ever \cup {s}
  <2>1. ~(ever' \subseteq ever)
    BY <1>2
  <2>. QED
    BY <2>1 DEF Quiet, Fits
<1>. QED
  BY <1>1, <1>2

LEMMA QuietStep ==
  ASSUME StoreInv, QuietInv, UNCHANGED driver,
         driver = "redis" =>
           \/ ever' = ever /\ snaps' \subseteq snaps
           \/ \E s : s \notin ever /\ ever' = ever \cup {s},
         \A q \in Client :
           \/ call'[q] = call[q]
           \/ call'[q].pc \notin {"asked", "scan", "keys"}
           \/ Quiet(call[q])'
  PROVE  QuietInv'
<1>. SUFFICES ASSUME driver = "redis", NEW q \in Client PROVE Quiet(call[q])'
  BY DEF QuietInv
<1>1. CASE call'[q] = call[q]
  <2>1. PICK c : c = call[q]
    OBVIOUS
  <2>2. Fits(c) /\ Quiet(c)
    BY <2>1 DEF StoreInv, CallsFit, QuietInv
  <2>3. Quiet(c)'
    BY <2>2, StaysQuiet
  <2>. QED
    BY <1>1, <2>1, <2>3 DEF Quiet, KeysFit
<1>2. CASE call'[q].pc \notin {"asked", "scan", "keys"}
  BY <1>2 DEF Quiet
<1>. QED
  BY <1>1, <1>2

\* The keys redis goes through without a revMax: the one that no other comes before.
LEMMA RedisKeys ==
  ASSUME SnapshotAssumption, driver = "redis", driver \in Drivers,
         NEW S, S \subseteq Snapshot, OwnIds(S), IsFiniteSet(S),
         NEW K, K = Redis_getSnapshot(S, -1)
  PROVE  /\ K \subseteq S
         /\ S # {} => K # {}
         /\ \A s \in K : \A t \in S \ {s} : KeysReversed(s, t)
<1>1. K = {s \in S : ~(Cardinality({t \in S : KeysReversed(t, s)}) >= 1)}
  BY DEF Redis_getSnapshot, Beyond
<1>2. ASSUME NEW s \in S PROVE s \in K <=> \A t \in S : ~KeysReversed(t, s)
  <2>1. PICK less : less = {t \in S : KeysReversed(t, s)}
    OBVIOUS
  <2>2. IsFiniteSet(less)
    BY <2>1, FS_Subset
  <2>3. Cardinality(less) \in Nat /\ (Cardinality(less) = 0 <=> less = {})
    BY <2>2, FS_CardinalityType, FS_EmptySet
  <2>4. s \in K <=> ~(Cardinality(less) >= 1)
    BY <1>1, <2>1
  <2>5. s \in K <=> less = {}
    BY <2>3, <2>4
  <2>. QED
    BY <2>1, <2>5
<1>3. ASSUME NEW s \in S, NEW t \in S
      PROVE  KeysReversed(s, t) <=> t.stamp < s.stamp \/ (t.stamp = s.stamp /\ t.id < s.id)
  BY KeyOrder DEF KeysReversed
<1>4. \A s \in S : s.id \in Int /\ s.stamp \in Int
  BY SnapshotType
<1>5. S # {} => K # {}
  <2>. SUFFICES ASSUME S # {} PROVE K # {}
    OBVIOUS
  <2>1. PICK m : m = First(S, KeysReversed)
    OBVIOUS
  <2>2. m \in S /\ \A t \in S \ {m} : KeysReversed(m, t)
    BY <2>1, FirstIsFirst
  <2>3. ASSUME NEW t \in S PROVE ~KeysReversed(t, m)
    <3>1. CASE t = m
      BY <1>3, <1>4, <2>2, <3>1
    <3>2. CASE t # m
      BY <1>3, <1>4, <2>2, <3>2
    <3>. QED
      BY <3>1, <3>2
  <2>. QED
    BY <1>2, <2>2, <2>3
<1>6. ASSUME NEW s \in K, NEW t \in S \ {s} PROVE KeysReversed(s, t)
  <2>1. s \in S /\ ~KeysReversed(t, s) /\ s.id # t.id
    BY <1>1, <1>2 DEF OwnIds
  <2>. QED
    BY <1>3, <1>4, <2>1
<1>. QED
  BY <1>1, <1>5, <1>6

LEMMA QuietInit == Init => QuietInv
<1>. SUFFICES ASSUME Init PROVE QuietInv
  OBVIOUS
<1>1. \A p \in Client : call[p].pc = "idle"
  BY IdleIsCall DEF Init
<1>. QED
  BY <1>1 DEF QuietInv, Quiet

LEMMA GetFromSnapshotQuiet ==
  ASSUME StoreInv, QuietInv, NEW p \in Client, NEW m \in RevMaxs, GetFromSnapshot(p, m)
  PROVE  QuietInv'
<1>1. PICK c : c = [pc |-> "asked", revMax |-> m, before |-> snaps, past |-> ever]
  OBVIOUS
<1>2. c.pc = "asked" /\ c.before = snaps /\ call' = [call EXCEPT ![p] = c]
      /\ UNCHANGED <<driver, snaps, ever>>
  BY <1>1 DEF GetFromSnapshot
<1>3. \A q \in Client : call'[q] = call[q] \/ (q = p /\ call'[q] = c)
  BY <1>2 DEF StoreInv, Types
<1>4. Quiet(c)'
  BY <1>2 DEF Quiet
<1>5. \A q \in Client : call'[q] = c => Quiet(call[q])'
  BY <1>4 DEF Quiet, KeysFit
<1>. QED
  BY <1>2, <1>3, <1>5, QuietStep

LEMMA ScanBeginsQuiet ==
  ASSUME StoreInv, QuietInv, NEW p \in Client, ScanBegins(p)
  PROVE  QuietInv'
<1>1. PICK c : c = [pc |-> "scan", found |-> snaps, of |-> call[p]]
  OBVIOUS
<1>2. /\ c.pc = "scan" /\ c.found = snaps /\ c.of = call[p]
      /\ call' = [call EXCEPT ![p] = c] /\ UNCHANGED <<driver, snaps, ever>>
      /\ driver = "redis"
  BY <1>1 DEF ScanBegins
<1>3. \A q \in Client : call'[q] = call[q] \/ (q = p /\ call'[q] = c)
  BY <1>2 DEF StoreInv, Types
<1>4. Quiet(call[p])
  BY <1>2 DEF QuietInv
<1>5. Quiet(c)'
  BY <1>2, <1>4 DEF Quiet
<1>6. \A q \in Client : call'[q] = c => Quiet(call[q])'
  BY <1>5 DEF Quiet, KeysFit
<1>. QED
  BY <1>2, <1>3, <1>6, QuietStep

LEMMA ScanEndsQuiet ==
  ASSUME SnapshotAssumption, StoreInv, QuietInv, NEW p \in Client, ScanEnds(p)
  PROVE  QuietInv'
<1>1. /\ driver = "redis" /\ call[p].pc = "scan" /\ UNCHANGED Stored
      /\ call[p].of.pc = "cleaning" \/ call[p].of \in Asked
  BY ScanIs
<1>2. PICK S : /\ S \subseteq ever /\ S \subseteq Snapshot /\ S \subseteq call[p].found \cup snaps
               /\ snaps \subseteq call[p].found => snaps \subseteq S
               /\ (call[p].of.pc = "cleaning" /\ Excess(S) = {}) =>
                    call' = [call EXCEPT ![p] = Idle]
               /\ (call[p].of.pc = "cleaning" /\ Excess(S) # {}) =>
                    call' = [call EXCEPT ![p] = [pc |-> "removing", doomed |-> Excess(S)]]
               /\ call[p].of.pc = "asked" =>
                    call' = [call EXCEPT ![p] =
                               [pc |-> "keys", revMax |-> call[p].of.revMax,
                                keys |-> Redis_getSnapshot(S, call[p].of.revMax),
                                before |-> call[p].of.before, past |-> call[p].of.past]]
  BY ScanIs
<1>3. UNCHANGED <<driver, snaps, ever>>
  BY <1>1 DEF Stored
<1>4. CASE call[p].of.pc = "cleaning"
  <2>1. PICK i, j : i = Idle /\ j = [pc |-> "removing", doomed |-> Excess(S)]
    OBVIOUS
  <2>2. i.pc = "idle" /\ j.pc = "removing"
    BY <2>1, IdleIsCall
  <2>3. call' = [call EXCEPT ![p] = i] \/ call' = [call EXCEPT ![p] = j]
    BY <1>2, <1>4, <2>1
  <2>4. \A q \in Client : call'[q] = call[q] \/ call'[q].pc \in {"idle", "removing"}
    BY <2>2, <2>3 DEF StoreInv, Types
  <2>. QED
    BY <1>3, <2>4, QuietStep
<1>5. CASE call[p].of.pc = "asked"
  <2>1. PICK of, keys, c :
          /\ of = call[p].of /\ keys = Redis_getSnapshot(S, of.revMax)
          /\ c = [pc |-> "keys", revMax |-> of.revMax, keys |-> keys,
                  before |-> of.before, past |-> of.past]
    OBVIOUS
  <2>2. /\ c.pc = "keys" /\ c.revMax = of.revMax /\ c.keys = keys /\ c.before = of.before
        /\ c.past = of.past /\ call' = [call EXCEPT ![p] = c]
    BY <1>2, <1>5, <2>1
  <2>3. ASSUME of.past = ever
        PROVE  snaps \subseteq of.before /\ (of.before = snaps => S = snaps)
    <3>1. snaps \subseteq call[p].found /\ call[p].found \subseteq of.before
      BY <1>1, <1>5, <2>1, <2>3 DEF QuietInv, Quiet
    <3>. QED
      BY <1>2, <3>1
  <2>4. ASSUME S = snaps PROVE KeysFit(c)
    <3>1. IsFiniteSet(S) /\ OwnIds(S) /\ driver \in Drivers
      BY <1>2, FS_Subset DEF StoreInv, Types, IdsDiffer, OwnIds
    <3>2. CASE of.revMax = -1
      <4>1. keys = Redis_getSnapshot(S, -1)
        BY <2>1, <3>2
      <4>2. /\ keys \subseteq S /\ (S # {} => keys # {})
            /\ \A s \in keys : \A t \in S \ {s} : KeysReversed(s, t)
        BY <1>1, <1>2, <3>1, <4>1, RedisKeys
      <4>. QED
        BY <2>2, <2>4, <3>2, <4>2 DEF KeysFit
    <3>3. CASE of.revMax # -1
      <4>1. keys = S
        BY <2>1, <3>3 DEF Redis_getSnapshot
      <4>. QED
        BY <2>2, <2>4, <3>3, <4>1 DEF KeysFit
    <3>. QED
      BY <3>2, <3>3
  <2>5. Quiet(c)
    BY <2>2, <2>3, <2>4 DEF Quiet
  <2>6. Quiet(c)'
    <3>1. KeysFit(c)' <=> KeysFit(c)
      BY <1>3, KeysStay DEF KeysFit
    <3>. QED
      BY <1>3, <2>5, <3>1 DEF Quiet
  <2>7. \A q \in Client : call'[q] = call[q] \/ (q = p /\ call'[q] = c)
    BY <2>2 DEF StoreInv, Types
  <2>8. \A q \in Client : call'[q] = c => Quiet(call[q])'
    BY <2>6 DEF Quiet, KeysFit
  <2>. QED
    BY <1>3, <2>7, <2>8, QuietStep
<1>. QED
  BY <1>1, <1>4, <1>5, AskedFields

LEMMA GetKeyQuiet ==
  ASSUME SnapshotAssumption, StoreInv, QuietInv, NEW p \in Client, GetKey(p)
  PROVE  QuietInv'
<1>1. PICK key : key = First(call[p].keys, KeysReversed)
  OBVIOUS
<1>2. /\ call[p] \in Calls /\ call[p].pc = "keys" /\ UNCHANGED <<driver, snaps, ever>>
      /\ driver = "redis"
  BY DEF StoreInv, Types, CallsFit, Fits, GetKey
<1>3. PICK c : c = [call[p] EXCEPT !.keys = call[p].keys \ {key}]
  OBVIOUS
<1>4. CASE call[p].keys # {} /\ key \in snaps /\ call[p].revMax > -1 /\ key.rev > call[p].revMax
  <2>1. call' = [call EXCEPT ![p] = c]
    BY <1>1, <1>3, <1>4 DEF GetKey
  <2>2. call[p] \in [pc : {"keys"}, revMax : RevMaxs, keys : SUBSET Snapshot,
                     before : SUBSET Snapshot, past : SUBSET Snapshot]
    BY <1>2 DEF Calls, Asked
  <2>3. /\ c.pc = "keys" /\ c.revMax = call[p].revMax /\ c.keys = call[p].keys \ {key}
        /\ c.before = call[p].before /\ c.past = call[p].past
    BY <1>3, <2>2
  <2>4. Quiet(call[p])
    BY <1>2 DEF QuietInv
  <2>5. call[p].revMax # -1
    BY <1>4
  <2>6. KeysFit(call[p]) => KeysFit(c)
    BY <1>4, <2>3, <2>5 DEF KeysFit
  <2>7. Quiet(c)
    BY <1>2, <2>3, <2>4, <2>6 DEF Quiet
  <2>8. Quiet(c)'
    <3>1. KeysFit(c)' <=> KeysFit(c)
      BY <1>2, KeysStay DEF KeysFit
    <3>. QED
      BY <1>2, <2>7, <3>1 DEF Quiet
  <2>9. \A q \in Client : call'[q] = call[q] \/ (q = p /\ call'[q] = c)
    BY <2>1 DEF StoreInv, Types
  <2>10. \A q \in Client : call'[q] = c => Quiet(call[q])'
    BY <2>8 DEF Quiet, KeysFit
  <2>. QED
    BY <1>2, <2>9, <2>10, QuietStep
<1>5. CASE ~(call[p].keys # {} /\ key \in snaps /\ call[p].revMax > -1 /\ key.rev > call[p].revMax)
  <2>1. PICK d, t : d = Found(p, IF call[p].keys = {} \/ key \notin snaps THEN NoSnap ELSE key)
                    /\ t = [pc |-> "thrown"]
    OBVIOUS
  <2>2. call' = [call EXCEPT ![p] = d] \/ call' = [call EXCEPT ![p] = t]
    BY <1>1, <1>5, <2>1 DEF GetKey
  <2>3. d.pc \in {"found", "rejected"} /\ t.pc = "thrown"
    BY <2>1 DEF Found
  <2>4. \A q \in Client : call'[q] = call[q] \/ call'[q].pc \in {"found", "rejected", "thrown"}
    BY <2>2, <2>3 DEF StoreInv, Types
  <2>. QED
    BY <1>2, <2>4, QuietStep
<1>. QED
  BY <1>4, <1>5

\* Steps after which the client does not load, or has found what it loads.
LEMMA LoadsNothing ==
  ASSUME StoreInv, QuietInv, NEW p \in Client, NEW c, call' = [call EXCEPT ![p] = c],
         c.pc \notin {"asked", "scan", "keys"}, UNCHANGED driver,
         driver = "redis" =>
           \/ ever' = ever /\ snaps' \subseteq snaps
           \/ \E s : s \notin ever /\ ever' = ever \cup {s}
  PROVE  QuietInv'
<1>1. \A q \in Client : call'[q] = call[q] \/ call'[q].pc \notin {"asked", "scan", "keys"}
  BY DEF StoreInv, Types
<1>. QED
  BY <1>1, QuietStep

LEMMA AddingQuiet ==
  ASSUME StoreInv, QuietInv, NEW p \in Client, CreateSnapshot(p) \/ AddSnapshot(p)
  PROVE  QuietInv'
<1>1. CASE CreateSnapshot(p)
  <2>1. PICK r, t :
          call' = [call EXCEPT ![p] = [pc |-> "adding",
                                       snap |-> [id |-> made, rev |-> r, stamp |-> t]]]
    BY <1>1 DEF CreateSnapshot
  <2>2. PICK c : c = [pc |-> "adding", snap |-> [id |-> made, rev |-> r, stamp |-> t]]
    OBVIOUS
  <2>3. c.pc = "adding" /\ call' = [call EXCEPT ![p] = c] /\ UNCHANGED <<driver, snaps, ever>>
    BY <1>1, <2>1, <2>2 DEF CreateSnapshot
  <2>. QED
    BY <2>3, LoadsNothing
<1>2. CASE AddSnapshot(p)
  <2>1. PICK i, j : i = Idle /\ j = [pc |-> "cleaning"]
    OBVIOUS
  <2>2. i.pc = "idle" /\ j.pc = "cleaning"
    BY <2>1, IdleIsCall
  <2>3. UNCHANGED driver /\ (call' = [call EXCEPT ![p] = i] \/ call' = [call EXCEPT ![p] = j])
    BY <1>2, <2>1 DEF AddSnapshot
  <2>4. call[p].snap \notin ever
    BY <1>2 DEF AddSnapshot, StoreInv, IdsDiffer
  <2>5. \/ ever' = ever /\ snaps' \subseteq snaps
        \/ \E s : s \notin ever /\ ever' = ever \cup {s}
    BY <1>2, <2>4 DEF AddSnapshot
  <2>. QED
    BY <2>2, <2>3, <2>5, LoadsNothing
<1>. QED
  BY <1>1, <1>2

LEMMA CleaningQuiet ==
  ASSUME StoreInv, QuietInv, NEW p \in Client, ListExcess(p) \/ RemoveNext(p)
  PROVE  QuietInv'
<1>1. PICK i : i = Idle /\ i.pc = "idle"
  BY IdleIsCall
<1>2. CASE ListExcess(p)
  <2>1. PICK doomed, c : /\ doomed = CleanSnapshots(snaps)
                         /\ c = [pc |-> "removing", doomed |-> doomed]
    OBVIOUS
  <2>2. UNCHANGED <<driver, ever>>
    BY <1>2 DEF ListExcess
  <2>3. snaps' \subseteq snaps /\ (call' = [call EXCEPT ![p] = i] \/ call' = [call EXCEPT ![p] = c])
    <3>1. \/ doomed = {} \/ (doomed # {} /\ driver = "inmemory")
          \/ doomed # {} /\ driver = "tingodb"
          \/ doomed # {} /\ driver \notin {"inmemory", "tingodb"}
      OBVIOUS
    <3>. QED
      BY <1>1, <1>2, <2>1, <3>1 DEF ListExcess
  <2>4. c.pc = "removing"
    BY <2>1
  <2>. QED
    BY <1>1, <2>2, <2>3, <2>4, LoadsNothing
<1>3. CASE RemoveNext(p)
  <2>1. PICK gone, left, over :
          /\ over = IF left = {} THEN Idle ELSE [call[p] EXCEPT !.doomed = left]
          /\ call' = [call EXCEPT ![p] = over] \/ call' = [call EXCEPT ![p] = Idle]
          /\ snaps' = snaps \ gone \/ snaps' = snaps
    BY <1>3 DEF RemoveNext
  <2>2. call[p] \in Calls /\ call[p].pc = "removing" /\ UNCHANGED <<driver, ever>>
    BY <1>3 DEF RemoveNext, StoreInv, Types
  <2>3. [call[p] EXCEPT !.doomed = left].pc = "removing"
    <3>1. call[p] \in [pc : {"removing"}, doomed : SUBSET Snapshot]
      BY <2>2 DEF Calls, Asked
    <3>. QED
      BY <3>1
  <2>4. over.pc \in {"idle", "removing"}
    BY <1>1, <2>1, <2>3
  <2>. QED
    BY <1>1, <2>1, <2>2, <2>4, LoadsNothing
<1>. QED
  BY <1>2, <1>3

LEMMA LoadingQuiet ==
  ASSUME SnapshotAssumption, StoreInv, QuietInv, NEW p \in Client,
         LookUp(p) \/ GetEventStream(p) \/ DeleteStream(p) \/ Done(p) \/ RequestFails(p)
  PROVE  QuietInv'
<1>1. UNCHANGED <<driver, snaps, ever>>
  BY DEF LookUp, GetEventStream, DeleteStream, Done, RequestFails
<1>2. CASE LookUp(p)
  <2>1. PICK S : call' = [call EXCEPT ![p] = Found(p, GetSnapshot(S, call[p].revMax))]
    BY <1>2 DEF LookUp
  <2>2. PICK c : c = Found(p, GetSnapshot(S, call[p].revMax))
    OBVIOUS
  <2>3. c.pc \in {"found", "rejected"}
    BY <2>2 DEF Found
  <2>. QED
    BY <1>1, <2>1, <2>2, <2>3, LoadsNothing
<1>3. CASE GetEventStream(p)
  <2>1. PICK c \in Calls : call' = [call EXCEPT ![p] = c] /\ c.pc = "answered"
    BY <1>3, GetEventStreamIs
  <2>. QED
    BY <1>1, <2>1, LoadsNothing
<1>4. CASE DeleteStream(p)
  <2>1. PICK c : c = [pc |-> "deleting", left |-> {"events", "snapshots"}]
    OBVIOUS
  <2>2. call' = [call EXCEPT ![p] = c] /\ c.pc = "deleting"
    BY <1>4, <2>1 DEF DeleteStream
  <2>. QED
    BY <1>1, <2>2, LoadsNothing
<1>5. CASE Done(p)
  <2>1. call' = [call EXCEPT ![p] = Idle]
    BY <1>5 DEF Done
  <2>. QED
    BY <1>1, <2>1, IdleIsCall, LoadsNothing
<1>6. CASE RequestFails(p)
  <2>1. PICK c \in Calls : call' = [call EXCEPT ![p] = c] /\ c.pc \in {"idle", "answered"}
    BY <1>6, RequestFailsIs
  <2>. QED
    BY <1>1, <2>1, LoadsNothing
<1>. QED
  BY <1>2, <1>3, <1>4, <1>5, <1>6

LEMMA QuietNext == SnapshotAssumption /\ StoreInv /\ QuietInv /\ [Next]_vars => QuietInv'
<1>. SUFFICES ASSUME SnapshotAssumption, StoreInv, QuietInv, [Next]_vars PROVE QuietInv'
  OBVIOUS
<1>1. CASE UNCHANGED vars
  <2>1. UNCHANGED <<driver, snaps, ever, call>>
    BY <1>1 DEF vars
  <2>. QED
    BY <2>1, QuietStep
<1>2. CASE \E p \in Client : Done(p)
  BY <1>2, LoadingQuiet
<1>3. CASE Others
  <2>1. CASE Commit \/ RemoveLate
    <3>1. UNCHANGED <<driver, ever, call>> /\ snaps' \subseteq snaps
      BY <2>1 DEF Commit, RemoveLate
    <3>. QED
      BY <3>1, QuietStep
  <2>2. ASSUME NEW p \in Client, CreateSnapshot(p) \/ AddSnapshot(p)
        PROVE  QuietInv'
    BY <2>2, AddingQuiet
  <2>3. ASSUME NEW p \in Client, ListExcess(p) \/ RemoveNext(p) \/ ScanBegins(p) \/ ScanEnds(p)
        PROVE  QuietInv'
    BY <2>3, CleaningQuiet, ScanBeginsQuiet, ScanEndsQuiet
  <2>4. ASSUME NEW p \in Client, \E m \in RevMaxs : GetFromSnapshot(p, m)
        PROVE  QuietInv'
    BY <2>4, GetFromSnapshotQuiet
  <2>5. ASSUME NEW p \in Client,
               LookUp(p) \/ GetKey(p) \/ GetEventStream(p) \/ DeleteStream(p) \/ RequestFails(p)
        PROVE  QuietInv'
    BY <2>5, LoadingQuiet, GetKeyQuiet
  <2>6. ASSUME NEW p \in Client, \E what \in {"events", "snapshots"} : Delete(p, what)
        PROVE  QuietInv'
    <3>1. driver = "mongodb" /\ driver' = driver
      BY <2>6 DEF Delete, StoreInv, CallsFit, Fits
    <3>. QED
      BY <3>1 DEF QuietInv
  <2>. QED
    BY <1>3, <2>1, <2>2, <2>3, <2>4, <2>5, <2>6 DEF Others
<1>. QED
  BY <1>1, <1>2, <1>3 DEF Next

-----------------------------------------------------------------------------
(* The snapshot a load finds *)

LEMMA HighestIsLatest ==
  ASSUME SnapshotAssumption, NEW U, U \subseteq Snapshot, NEW m \in U,
         \A t \in U : t.rev <= m.rev
  PROVE  m.rev = Latest({s.rev : s \in U})
<1>1. PICK revs : revs = {s.rev : s \in U}
  OBVIOUS
<1>2. revs \subseteq 0 .. MaxRevision /\ m.rev \in revs /\ \A r \in revs : r <= m.rev
  BY <1>1 DEF Snapshot
<1>3. Latest(revs) \in revs \cup {-1} /\ m.rev <= Latest(revs)
  BY <1>2, LatestIsLast
<1>4. m.rev \in Int /\ Latest(revs) \in Int
  <2>1. revs \cup {-1} \subseteq Int
    BY <1>2
  <2>. QED
    BY <1>2, <1>3, <2>1
<1>5. Latest(revs) <= m.rev
  BY <1>2, <1>3, <1>4
<1>. QED
  BY <1>1, <1>3, <1>4, <1>5

LEMMA NothingIsLatest == SnapshotAssumption => Latest({}) = -1
<1>. SUFFICES ASSUME SnapshotAssumption PROVE Latest({}) = -1
  OBVIOUS
<1>1. PICK revs : revs = {}
  OBVIOUS
<1>2. Latest(revs) \in revs \cup {-1}
  BY <1>1, LatestIsLast
<1>. QED
  BY <1>1, <1>2

\* Only looking up, and getting keys in redis, end the search for a snapshot.
LEMMA SearchEnds ==
  ASSUME StoreInv, [Next]_vars, NEW p \in Client, call[p].pc \in {"asked", "keys"},
         call'[p].pc \in {"found", "rejected", "thrown"}
  PROVE  LookUp(p) \/ GetKey(p)
<1>1. call'[p] # call[p] /\ call \in [Client -> Calls]
  BY DEF StoreInv, Types
<1>2. call' # call
  BY <1>1
<1>3. ASSUME NEW q \in Client, NEW c, call' = [call EXCEPT ![q] = c] PROVE q = p /\ call'[p] = c
  BY <1>1, <1>3
<1>4. ~UNCHANGED vars
  BY <1>2 DEF vars
<1>5. ASSUME NEW q \in Client, Done(q) PROVE FALSE
  BY <1>3, <1>5 DEF Done
<1>6. ~Commit /\ ~RemoveLate
  BY <1>2 DEF Commit, RemoveLate
<1>7. ASSUME NEW q \in Client, CreateSnapshot(q) PROVE FALSE
  <2>1. \E c : call' = [call EXCEPT ![q] = c]
    BY <1>7 DEF CreateSnapshot
  <2>. QED
    BY <1>3, <1>7, <2>1 DEF CreateSnapshot
<1>8. ASSUME NEW q \in Client, AddSnapshot(q) PROVE FALSE
  <2>1. \E c : call' = [call EXCEPT ![q] = c]
    BY <1>8 DEF AddSnapshot
  <2>. QED
    BY <1>3, <1>8, <2>1 DEF AddSnapshot
<1>9. ASSUME NEW q \in Client, ListExcess(q) PROVE FALSE
  <2>1. call' = [call EXCEPT ![q] = call'[q]]
    <3>1. PICK doomed : doomed = CleanSnapshots(snaps)
      OBVIOUS
    <3>2. \/ doomed = {} \/ (doomed # {} /\ driver = "inmemory")
          \/ doomed # {} /\ driver = "tingodb"
          \/ doomed # {} /\ driver \notin {"inmemory", "tingodb"}
      OBVIOUS
    <3>3. \/ call' = [call EXCEPT ![q] = Idle]
          \/ call' = [call EXCEPT ![q] = [pc |-> "removing", doomed |-> doomed]]
      BY <1>9, <3>1, <3>2 DEF ListExcess
    <3>. QED
      BY <1>1, <3>3
  <2>. QED
    BY <1>3, <1>9, <2>1 DEF ListExcess
<1>10. ASSUME NEW q \in Client, RemoveNext(q) PROVE FALSE
  <2>1. \E c : call' = [call EXCEPT ![q] = c]
    BY <1>10 DEF RemoveNext
  <2>. QED
    BY <1>3, <1>10, <2>1 DEF RemoveNext
<1>11. ASSUME NEW q \in Client, ScanBegins(q) PROVE FALSE
  <2>1. PICK c : c = [pc |-> "scan", found |-> snaps, of |-> call[q]]
    OBVIOUS
  <2>2. call' = [call EXCEPT ![q] = c] /\ c.pc = "scan"
    BY <1>11, <2>1 DEF ScanBegins
  <2>. QED
    BY <1>3, <2>2
<1>12. ASSUME NEW q \in Client, ScanEnds(q) PROVE FALSE
  <2>1. \E c : call' = [call EXCEPT ![q] = c]
    BY <1>12 DEF ScanEnds
  <2>. QED
    BY <1>3, <1>12, <2>1 DEF ScanEnds
<1>13. ASSUME NEW q \in Client, NEW m \in RevMaxs, GetFromSnapshot(q, m) PROVE FALSE
  <2>1. \E c : call' = [call EXCEPT ![q] = c]
    BY <1>13 DEF GetFromSnapshot
  <2>. QED
    BY <1>3, <1>13, <2>1 DEF GetFromSnapshot
<1>14. ASSUME NEW q \in Client, GetEventStream(q) PROVE FALSE
  <2>1. \E c : call' = [call EXCEPT ![q] = c]
    BY <1>14 DEF GetEventStream
  <2>. QED
    BY <1>3, <1>14, <2>1 DEF GetEventStream
<1>15. ASSUME NEW q \in Client, DeleteStream(q) PROVE FALSE
  <2>1. \E c : call' = [call EXCEPT ![q] = c]
    BY <1>15 DEF DeleteStream
  <2>. QED
    BY <1>3, <1>15, <2>1 DEF DeleteStream
<1>16. ASSUME NEW q \in Client, NEW what, Delete(q, what) PROVE FALSE
  <2>1. \E c : call' = [call EXCEPT ![q] = c]
    BY <1>16 DEF Delete
  <2>. QED
    BY <1>3, <1>16, <2>1 DEF Delete
<1>17. ASSUME NEW q \in Client, LookUp(q) PROVE q = p
  <2>1. \E c : call' = [call EXCEPT ![q] = c]
    BY <1>17 DEF LookUp
  <2>. QED
    BY <1>3, <2>1
<1>18. ASSUME NEW q \in Client, GetKey(q) PROVE q = p
  <2>1. \E c : call' = [call EXCEPT ![q] = c]
    BY <1>18 DEF GetKey
  <2>. QED
    BY <1>3, <2>1
<1>19. ASSUME NEW q \in Client, RequestFails(q) PROVE FALSE
  <2>1. PICK c \in Calls : call' = [call EXCEPT ![q] = c] /\ c.pc \in {"idle", "answered"}
    BY <1>19, RequestFailsIs
  <2>. QED
    BY <1>3, <2>1
<1>. QED
  BY <1>4, <1>5, <1>6, <1>7, <1>8, <1>9, <1>10, <1>11, <1>12, <1>13, <1>14, <1>15, <1>16, <1>17,
     <1>18, <1>19 DEF Next, Others

\* Where the snapshots that come first by revision or by time are the highest.
LEMMA FirstIsHighest ==
  ASSUME SnapshotAssumption, driver \in Drivers, NEW U, U \subseteq Snapshot, NEW m \in U,
         \/ \A t \in U \ {m} : HighestFirst(m, t)
         \/ /\ \A s, t \in U : s # t => s.stamp # t.stamp /\ (s.stamp < t.stamp => s.rev <= t.rev)
            /\ \/ \A t \in U \ {m} : NewestFirst(m, t)
               \/ driver = "redis" /\ \A t \in U \ {m} : KeysReversed(m, t)
  PROVE  m.rev = Latest({s.rev : s \in U})
<1>1. \A t \in U : t \in Snapshot /\ t.rev \in Int /\ t.stamp \in Int /\ t.id \in Int
  BY SnapshotType
<1>2. ASSUME NEW t \in U PROVE t.rev <= m.rev
  <2>1. CASE t = m
    BY <1>1, <2>1
  <2>2. CASE t # m
    <3>1. CASE HighestFirst(m, t)
      BY <1>1, <3>1 DEF HighestFirst
    <3>2. ASSUME t.stamp # m.stamp, t.stamp < m.stamp => t.rev <= m.rev, NewestFirst(m, t)
          PROVE  t.rev <= m.rev
      BY <1>1, <3>2 DEF NewestFirst
    <3>3. ASSUME t.stamp # m.stamp, t.stamp < m.stamp => t.rev <= m.rev,
                 driver = "redis", KeysReversed(m, t)
          PROVE  t.rev <= m.rev
      <4>1. t.stamp < m.stamp \/ (t.stamp = m.stamp /\ t.id < m.id)
        BY <1>1, <3>3, KeyOrder DEF KeysReversed
      <4>. QED
        BY <3>3, <4>1
    <3>. QED
      BY <2>2, <3>1, <3>2, <3>3
  <2>. QED
    BY <2>1, <2>2
<1>. QED
  BY <1>2, HighestIsLatest

LEMMA OnlyElement ==
  ASSUME NEW U, IsFiniteSet(U), NEW m \in U, Cardinality(U) <= 1
  PROVE  U = {m}
<1>1. PICK rest : rest = U \ {m}
  OBVIOUS
<1>2. IsFiniteSet(rest) /\ Cardinality(rest) = Cardinality(U) - 1
  BY <1>1, FS_RemoveElement
<1>3. Cardinality(rest) \in Nat /\ Cardinality(U) \in Nat
  BY <1>2, FS_CardinalityType
<1>4. Cardinality(rest) = 0
  BY <1>2, <1>3
<1>5. rest = {}
  BY <1>2, <1>4, FS_EmptySet
<1>. QED
  BY <1>1, <1>5

LEMMA LookUpIsNearest ==
  ASSUME SnapshotAssumption, StoreInv, NEW p \in Client, LookUp(p), call[p].before = snaps
  PROVE  /\ call'[p].pc = "found" => NearestFound(p)
         /\ call'[p].pc \in {"rejected", "thrown"} => Below(snaps, call[p].revMax) = {}
<1>1. /\ call[p] \in Asked /\ driver # "redis" /\ driver \in Drivers
      /\ call[p].revMax \in RevMaxs /\ call[p].revMax \in Nat \cup {-1}
  BY LookUpIs, AskedFields, Revisions DEF StoreInv, Types
<1>2. PICK S : /\ S = snaps /\ S \subseteq Snapshot /\ OwnIds(S) /\ IsFiniteSet(S)
               /\ call' = [call EXCEPT ![p] = Found(p, GetSnapshot(S, call[p].revMax))]
  BY LookUpIs
<1>3. PICK U, m : U = Below(S, call[p].revMax) /\ m = GetSnapshot(S, call[p].revMax)
  OBVIOUS
<1>4. U \subseteq S /\ U \subseteq Snapshot /\ IsFiniteSet(U)
  <2>1. U \subseteq S
    BY <1>3 DEF Below
  <2>. QED
    BY <1>2, <2>1, FS_Subset
<1>5. \/ U = {} /\ m = NoSnap
      \/ /\ m \in U
         /\ driver \in {"mongodb", "tingodb", "elasticsearch"} =>
              \A t \in U \ {m} : HighestFirst(m, t)
         /\ (driver \in {"dynamodb", "azuretable"} \/ (driver = "inmemory" /\ call[p].revMax = -1)) =>
              \A t \in U \ {m} : NewestFirst(m, t)
  BY <1>1, <1>2, <1>3, GetSnapshotIs
<1>6. m \in Snapshot \cup {NoSnap} /\ (m \in U => m # NoSnap)
  BY <1>4, <1>5, SnapshotType
<1>7. call'[p] = Found(p, m)
  BY <1>2, <1>3 DEF StoreInv, Types
<1>8. \/ call'[p].pc = "found" /\ call'[p].snap = m
      \/ call'[p].pc = "rejected" /\ m = NoSnap
  BY <1>1, <1>6, <1>7, FoundIs
<1>9. call'[p].pc \in {"rejected", "thrown"} => U = {}
  BY <1>5, <1>6, <1>8
<1>10. ASSUME call'[p].pc = "found" PROVE NearestFound(p)
  <2>1. call'[p].snap = m
    BY <1>8, <1>10
  <2>. DEFINE Aligned ==
         \A s, t \in U : s # t => s.stamp # t.stamp /\ (s.stamp < t.stamp => s.rev <= t.rev)
  <2>. SUFFICES ASSUME \/ driver \in {"mongodb", "tingodb", "elasticsearch"}
                       \/ /\ Aligned
                          /\ driver = "inmemory" /\ call[p].revMax # -1 => Cardinality(U) <= 1
                PROVE  m.rev = Latest({s.rev : s \in U})
    BY <1>2, <1>3, <2>1 DEF NearestFound
  <2>2. CASE U = {}
    <3>1. m.rev = -1
      BY <1>5, <2>2 DEF NoSnap
    <3>2. {s.rev : s \in U} = {}
      BY <2>2
    <3>. QED
      BY <3>1, <3>2, NothingIsLatest
  <2>3. CASE U # {}
    <3>1. m \in U
      BY <1>5, <2>3
    <3>2. CASE driver \in {"mongodb", "tingodb", "elasticsearch"}
      BY <1>1, <1>4, <1>5, <2>3, <3>1, <3>2, FirstIsHighest
    <3>3. CASE /\ Aligned
               /\ driver \in {"dynamodb", "azuretable"} \/ (driver = "inmemory" /\ call[p].revMax = -1)
      BY <1>1, <1>4, <1>5, <2>3, <3>1, <3>3, FirstIsHighest
    <3>4. CASE Aligned /\ driver = "inmemory" /\ call[p].revMax # -1
      <4>1. Cardinality(U) <= 1
        BY <3>4
      <4>2. U = {m}
        BY <1>4, <3>1, <4>1, OnlyElement
      <4>3. \A t \in U \ {m} : HighestFirst(m, t)
        BY <4>2
      <4>. QED
        BY <1>1, <1>4, <3>1, <4>3, FirstIsHighest
    <3>5. driver \in {"mongodb", "tingodb", "inmemory", "dynamodb", "azuretable", "elasticsearch"}
      BY <1>1 DEF SnapshotAssumption
    <3>. QED
      BY <3>2, <3>3, <3>4, <3>5
  <2>. QED
    BY <2>2, <2>3
<1>. QED
  BY <1>2, <1>3, <1>9, <1>10

LEMMA GetKeyIsNearest ==
  ASSUME SnapshotAssumption, StoreInv, QuietInv, NEW p \in Client, GetKey(p),
         call[p].before = snaps, call[p].past = ever
  PROVE  /\ call'[p].pc = "found" => NearestFound(p)
         /\ call'[p].pc \in {"rejected", "thrown"} => Below(snaps, call[p].revMax) = {}
<1>1. PICK c, key, S : c = call[p] /\ key = First(c.keys, KeysReversed) /\ S = snaps
  OBVIOUS
<1>2. /\ c \in Calls /\ c.pc = "keys" /\ driver = "redis" /\ driver \in Drivers
      /\ S \subseteq Snapshot /\ OwnIds(S) /\ IsFiniteSet(S) /\ call \in [Client -> Calls]
  <2>1. /\ c \in Calls /\ c.pc = "keys" /\ driver = "redis" /\ driver \in Drivers
        /\ snaps \subseteq ever /\ ever \subseteq Snapshot /\ IsFiniteSet(ever)
        /\ OwnIds(ever) /\ call \in [Client -> Calls]
    BY <1>1 DEF GetKey, StoreInv, Types, CallsFit, Fits, IdsDiffer
  <2>. QED
    BY <1>1, <2>1, FS_Subset DEF OwnIds
<1>3. c.revMax \in RevMaxs /\ c.revMax \in Nat \cup {-1}
  BY <1>2, CallFields, Revisions
<1>4. /\ c.keys \subseteq S
      /\ c.revMax = -1 =>
           /\ S # {} => c.keys # {}
           /\ \A s \in c.keys : \A t \in S \ {s} : KeysReversed(s, t)
      /\ c.revMax # -1 => \A s \in S \ c.keys : s.rev > c.revMax
  BY <1>1, <1>2 DEF QuietInv, Quiet, KeysFit
<1>5. \A t \in S : t \in Snapshot /\ t.rev \in Nat /\ t # NoSnap
  BY <1>2, SnapshotType
<1>6. PICK U : U = Below(S, c.revMax)
  OBVIOUS
<1>7. U = {s \in S : c.revMax = -1 \/ s.rev <= c.revMax}
  BY <1>6 DEF Below
<1>8. CASE c.keys = {}
  <2>1. call'[p] = Found(p, NoSnap)
    BY <1>1, <1>2, <1>8 DEF GetKey
  <2>2. call'[p].pc = "rejected"
    BY <1>2, <2>1 DEF Found
  <2>3. U = {}
    BY <1>3, <1>4, <1>5, <1>7, <1>8
  <2>. QED
    BY <1>1, <1>6, <2>2, <2>3
<1>9. CASE c.keys # {}
  <2>1. key \in c.keys /\ \A t \in c.keys \ {key} : KeysReversed(key, t)
    <3>1. c.keys \subseteq Snapshot /\ OwnIds(c.keys) /\ IsFiniteSet(c.keys)
      BY <1>2, <1>4, FS_Subset DEF OwnIds
    <3>2. PICK K : K = c.keys
      OBVIOUS
    <3>. QED
      BY <1>1, <1>2, <1>9, <3>1, <3>2, FirstIsFirst
  <2>2. key \in S /\ key \in Snapshot /\ key.rev \in Nat /\ key # NoSnap
    BY <1>4, <1>5, <2>1
  <2>3. CASE c.revMax > -1 /\ key.rev > c.revMax
    <3>1. PICK d : d = [c EXCEPT !.keys = c.keys \ {key}]
      OBVIOUS
    <3>2. call'[p] = d
      BY <1>1, <1>2, <1>9, <2>2, <2>3, <3>1 DEF GetKey
    <3>3. c \in [pc : {"keys"}, revMax : RevMaxs, keys : SUBSET Snapshot,
                 before : SUBSET Snapshot, past : SUBSET Snapshot]
      BY <1>2 DEF Calls, Asked
    <3>4. d.pc = "keys"
      BY <3>1, <3>3
    <3>. QED
      BY <3>2, <3>4
  <2>4. CASE ~(c.revMax > -1 /\ key.rev > c.revMax)
    <3>1. call'[p] = Found(p, key)
      BY <1>1, <1>2, <1>9, <2>2, <2>4 DEF GetKey
    <3>2. call'[p].pc = "found" /\ call'[p].snap = key
      BY <2>2, <3>1 DEF Found
    <3>3. key \in U
      BY <1>3, <1>7, <2>2, <2>4
    <3>4. \A t \in U \ {key} : KeysReversed(key, t)
      <4>1. CASE c.revMax = -1
        BY <1>4, <1>7, <2>1, <4>1
      <4>2. CASE c.revMax # -1
        <5>1. ASSUME NEW t \in U PROVE t \in c.keys
          <6>1. t \in S /\ t.rev <= c.revMax /\ t.rev \in Nat /\ c.revMax \in Nat
            BY <1>3, <1>5, <1>7, <4>2
          <6>. QED
            BY <1>4, <4>2, <6>1
        <5>. QED
          BY <2>1, <5>1
      <4>. QED
        BY <4>1, <4>2
    <3>5. U \subseteq Snapshot
      BY <1>2, <1>7
    <3>. DEFINE Aligned ==
           \A s, t \in U : s # t => s.stamp # t.stamp /\ (s.stamp < t.stamp => s.rev <= t.rev)
    <3>6. Aligned => key.rev = Latest({s.rev : s \in U})
      BY <1>2, <3>3, <3>4, <3>5, FirstIsHighest
    <3>7. NearestFound(p)
      BY <1>1, <1>2, <1>6, <3>2, <3>6 DEF NearestFound
    <3>. QED
      BY <3>2, <3>7
  <2>. QED
    BY <2>3, <2>4
<1>. QED
  BY <1>8, <1>9

\* While no snapshot comes or goes, getFromSnapshot is refused only when there is none up
\* to revMax, and finds the one it has to: the highest by revision, or by time as
\* NearestFound says, on each of the drivers, redis with its scan and its keys included.
THEOREM NearestSnapshotIsFound == Spec => NearestIsLoaded
<1>. DEFINE Inv == StoreInv /\ QuietInv
            Step == \A p \in Client :
                      (call[p].pc \in {"asked", "keys"} /\ call[p].before = snaps /\ call[p].past = ever)
                        => /\ call'[p].pc = "found" => NearestFound(p)
                           /\ call'[p].pc \in {"rejected", "thrown"} => Below(snaps, call[p].revMax) = {}
<1>1. Init => Inv
  BY StoreInit, QuietInit, SnapshotAssumption
<1>2. Inv /\ [Next]_vars => Inv'
  BY StoreNext, QuietNext, SnapshotAssumption
<1>3. Inv /\ [Next]_vars => [Step]_vars
  <2>. SUFFICES ASSUME Inv, [Next]_vars, NEW p \in Client, call[p].pc \in {"asked", "keys"},
                       call[p].before = snaps, call[p].past = ever,
                       call'[p].pc \in {"found", "rejected", "thrown"}
                PROVE  /\ call'[p].pc = "found" => NearestFound(p)
                       /\ call'[p].pc \in {"rejected", "thrown"} => Below(snaps, call[p].revMax) = {}
    OBVIOUS
  <2>1. LookUp(p) \/ GetKey(p)
    BY SearchEnds
  <2>. QED
    BY <2>1, LookUpIsNearest, GetKeyIsNearest, SnapshotAssumption
<1>. QED
  BY <1>1, <1>2, <1>3, PTL DEF Spec, NearestIsLoaded
=============================================================================
