-------------------------- MODULE StoreEvents_proofs --------------------------
(***************************************************************************)
(* Machine-checked proofs about StoreEvents, for all seven drivers, every  *)
(* number of clients, commits and events, and every page size.             *)
(***************************************************************************)
EXTENDS StoreEvents, FiniteSetTheorems, SequenceTheorems, TLAPS

-----------------------------------------------------------------------------
(* Numbers *)

\* A set of numbers has a least element, and a greatest one if it is bounded.
LEMMA HasLeast ==
  ASSUME NEW S \in SUBSET Nat, S # {}
  PROVE  \E m \in S : \A x \in S : m <= x
<1>. DEFINE R == {w \in Nat \X Nat : w[1] < w[2]}
<1>1. IsWellFoundedOn(R, Nat)
  BY NatLessThanWellFounded DEF OpToRel
<1>2. PICK Q : Q = R
  OBVIOUS
<1>3. \E m \in S : \A x \in S : ~(<<x, m>> \in Q)
  BY <1>1, <1>2, WFMin
<1>4. PICK m \in S : \A x \in S : <<x, m>> \notin R
  BY <1>2, <1>3
<1>5. ASSUME NEW x \in S
      PROVE  m <= x
  <2>1. x \in Nat /\ m \in Nat
    OBVIOUS
  <2>2. ~(x < m)
    BY <1>4, <2>1
  <2>. QED
    BY <2>1, <2>2
<1>. QED
  BY <1>5

LEMMA HasGreatest ==
  ASSUME NEW n \in Nat, NEW S \in SUBSET (0 .. n), S # {}
  PROVE  \E m \in S : \A x \in S : x <= m
<1>1. PICK T : T = {n - x : x \in S}
  OBVIOUS
<1>2. T \in SUBSET Nat /\ T # {}
  <2>1. \A x \in S : n - x \in Nat
    OBVIOUS
  <2>. QED
    BY <1>1, <2>1
<1>3. PICK t \in T : \A x \in T : t <= x
  BY <1>2, HasLeast
<1>4. PICK m \in S : t = n - m
  BY <1>1, <1>3
<1>5. ASSUME NEW x \in S
      PROVE  x <= m
  <2>1. n - x \in T
    BY <1>1
  <2>2. t <= n - x
    BY <1>3, <2>1
  <2>. QED
    BY <1>4, <2>2
<1>. QED
  BY <1>5

-----------------------------------------------------------------------------
(* The order of a sort *)

Document == [commit : CommitId, seq : Nat, rev : Nat, stamp : Nat, rest : Nat]
Key == {"stamp", "rev", "seq", "id", "revText", "seqText"}

LEMMA FieldsAreNumbers ==
  ASSUME StoreAssumption, NEW d \in Document, NEW k \in Key
  PROVE  d[Field[k]] \in Nat
<1>1. /\ d.commit \in Nat /\ d.seq \in Nat /\ d.rev \in Nat /\ d.stamp \in Nat
  BY DEF Parameters, Document
<1>2. Field[k] \in {"commit", "seq", "rev", "stamp"}
  BY DEF Key, Field
<1>. QED
  BY <1>1, <1>2

\* Text is ordered like numbers are: no two of them are equal or go both ways.
LEMMA TextOrder ==
  ASSUME StoreAssumption, NEW m \in Nat, NEW n \in Nat, NEW k \in Nat
  PROVE  /\ m = n \/ TextLess(m, n) \/ TextLess(n, m)
         /\ TextLess(m, n) => m # n /\ ~TextLess(n, m)
         /\ TextLess(m, n) /\ TextLess(n, k) => TextLess(m, k)
<1>1. \A x \in Nat : Lead(x) \in Int
  BY DEF Parameters, Lead
<1>2. PICK f : f = [x \in Nat |-> Lead(x)]
  OBVIOUS
<1>3. \A x, y \in Nat : TextLess(x, y) <=> f[x] < f[y] \/ (f[x] = f[y] /\ x < y)
  BY <1>2 DEF TextLess
<1>4. f[m] \in Int /\ f[n] \in Int /\ f[k] \in Int
  BY <1>1, <1>2
<1>. QED
  BY <1>3, <1>4

LEMMA KeyOrder ==
  ASSUME StoreAssumption, NEW k \in Key, NEW d \in Document, NEW e \in Document, NEW f \in Document
  PROVE  /\ d[Field[k]] = e[Field[k]] \/ KeyLess(k, d, e) \/ KeyLess(k, e, d)
         /\ KeyLess(k, d, e) => d[Field[k]] # e[Field[k]] /\ ~KeyLess(k, e, d)
         /\ KeyLess(k, d, e) /\ KeyLess(k, e, f) => KeyLess(k, d, f)
         /\ d[Field[k]] = e[Field[k]] => /\ KeyLess(k, d, f) <=> KeyLess(k, e, f)
                                         /\ KeyLess(k, f, d) <=> KeyLess(k, f, e)
<1>1. PICK x \in Nat, y \in Nat, z \in Nat :
        x = d[Field[k]] /\ y = e[Field[k]] /\ z = f[Field[k]]
  BY FieldsAreNumbers
<1>2. CASE k \in {"revText", "seqText"}
  BY <1>1, <1>2, TextOrder DEF KeyLess
<1>3. CASE k \notin {"revText", "seqText"}
  BY <1>1, <1>3 DEF KeyLess
<1>. QED
  BY <1>2, <1>3

\* Documents that an order does not tell apart.
Same(order, d, e) == \A i \in DOMAIN order : d[Field[order[i]]] = e[Field[order[i]]]

LEMMA LessOrder ==
  ASSUME StoreAssumption, NEW order \in Seq(Key),
         NEW d \in Document, NEW e \in Document, NEW f \in Document
  PROVE  /\ Same(order, d, e) \/ Less(order, d, e) \/ Less(order, e, d)
         /\ Less(order, d, e) => ~Same(order, d, e) /\ ~Less(order, e, d)
         /\ Less(order, d, e) /\ Less(order, e, f) => Less(order, d, f)
         /\ Same(order, d, e) => /\ Less(order, d, f) <=> Less(order, e, f)
                                 /\ Less(order, f, d) <=> Less(order, f, e)
<1>. DEFINE At(a, i) == a[Field[order[i]]]
<1>1. DOMAIN order \subseteq Nat /\ \A i \in DOMAIN order : order[i] \in Key /\ 1 .. i - 1 \subseteq DOMAIN order
  OBVIOUS
<1>2. \A i \in DOMAIN order : \A a, b, c \in Document :
        /\ At(a, i) = At(b, i) \/ KeyLess(order[i], a, b) \/ KeyLess(order[i], b, a)
        /\ KeyLess(order[i], a, b) => At(a, i) # At(b, i) /\ ~KeyLess(order[i], b, a)
        /\ KeyLess(order[i], a, b) /\ KeyLess(order[i], b, c) => KeyLess(order[i], a, c)
        /\ At(a, i) = At(b, i) => /\ KeyLess(order[i], a, c) <=> KeyLess(order[i], b, c)
                                  /\ KeyLess(order[i], c, a) <=> KeyLess(order[i], c, b)
  BY <1>1, KeyOrder
<1>3. \A a, b \in Document :
        Less(order, a, b) <=> \E i \in DOMAIN order : /\ KeyLess(order[i], a, b)
                                                      /\ \A j \in 1 .. i - 1 : At(a, j) = At(b, j)
  BY DEF Less
<1>4. \A a, b \in Document : Same(order, a, b) <=> \A i \in DOMAIN order : At(a, i) = At(b, i)
  BY DEF Same
<1>5. Same(order, d, e) \/ Less(order, d, e) \/ Less(order, e, d)
  <2>1. SUFFICES ASSUME ~Same(order, d, e)
                 PROVE  Less(order, d, e) \/ Less(order, e, d)
    OBVIOUS
  <2>2. PICK S : S = {i \in DOMAIN order : At(d, i) # At(e, i)}
    OBVIOUS
  <2>3. S \in SUBSET Nat /\ S # {}
    BY <1>1, <1>4, <2>1, <2>2
  <2>4. PICK m \in S : \A x \in S : m <= x
    BY <2>3, HasLeast
  <2>5. m \in DOMAIN order /\ At(d, m) # At(e, m)
    BY <2>2
  <2>6. \A j \in 1 .. m - 1 : At(d, j) = At(e, j)
    <3>1. SUFFICES ASSUME NEW j \in 1 .. m - 1, At(d, j) # At(e, j)
                   PROVE  FALSE
      OBVIOUS
    <3>2. j \in S
      BY <1>1, <2>2, <2>5, <3>1
    <3>. QED
      BY <2>3, <2>4, <3>2
  <2>7. KeyLess(order[m], d, e) \/ KeyLess(order[m], e, d)
    BY <1>2, <2>5
  <2>. QED
    BY <1>3, <2>5, <2>6, <2>7
<1>6. ASSUME Less(order, d, e)
      PROVE  ~Same(order, d, e) /\ ~Less(order, e, d)
  <2>1. PICK i \in DOMAIN order : /\ KeyLess(order[i], d, e)
                                  /\ \A j \in 1 .. i - 1 : At(d, j) = At(e, j)
    BY <1>3, <1>6
  <2>2. At(d, i) # At(e, i) /\ ~KeyLess(order[i], e, d)
    BY <1>2, <2>1
  <2>3. ASSUME Less(order, e, d)
        PROVE  FALSE
    <3>1. PICK j \in DOMAIN order : /\ KeyLess(order[j], e, d)
                                    /\ \A k \in 1 .. j - 1 : At(e, k) = At(d, k)
      BY <1>3, <2>3
    <3>2. At(e, j) # At(d, j) /\ i \in Nat /\ j \in Nat /\ i >= 1 /\ j >= 1
      BY <1>1, <1>2, <3>1
    <3>3. CASE i < j
      BY <2>2, <3>1, <3>2, <3>3
    <3>4. CASE j < i
      BY <2>1, <3>2, <3>4
    <3>5. CASE i = j
      BY <2>2, <3>1, <3>5
    <3>. QED
      BY <3>2, <3>3, <3>4, <3>5
  <2>. QED
    BY <1>4, <2>2, <2>3
<1>7. ASSUME Less(order, d, e), Less(order, e, f)
      PROVE  Less(order, d, f)
  <2>1. PICK i \in DOMAIN order : /\ KeyLess(order[i], d, e)
                                  /\ \A j \in 1 .. i - 1 : At(d, j) = At(e, j)
    BY <1>3, <1>7
  <2>2. PICK j \in DOMAIN order : /\ KeyLess(order[j], e, f)
                                  /\ \A k \in 1 .. j - 1 : At(e, k) = At(f, k)
    BY <1>3, <1>7
  <2>3. i \in Nat /\ j \in Nat /\ i >= 1 /\ j >= 1
    BY <1>1
  <2>4. CASE i < j
    <3>1. At(e, i) = At(f, i)
      BY <2>2, <2>3, <2>4
    <3>2. KeyLess(order[i], d, f)
      BY <1>2, <2>1, <3>1
    <3>3. \A k \in 1 .. i - 1 : k \in 1 .. j - 1
      BY <2>3, <2>4
    <3>4. \A k \in 1 .. i - 1 : At(d, k) = At(f, k)
      BY <2>1, <2>2, <3>3
    <3>. QED
      BY <1>3, <3>2, <3>4
  <2>5. CASE i = j
    <3>1. KeyLess(order[i], d, f)
      BY <1>2, <2>1, <2>2, <2>5
    <3>2. \A k \in 1 .. i - 1 : At(d, k) = At(f, k)
      BY <2>1, <2>2, <2>3, <2>5
    <3>. QED
      BY <1>3, <3>1, <3>2
  <2>6. CASE j < i
    <3>1. At(d, j) = At(e, j)
      BY <2>1, <2>3, <2>6
    <3>2. KeyLess(order[j], d, f)
      BY <1>2, <2>2, <3>1
    <3>3. \A k \in 1 .. j - 1 : k \in 1 .. i - 1
      BY <2>3, <2>6
    <3>4. \A k \in 1 .. j - 1 : At(d, k) = At(f, k)
      BY <2>1, <2>2, <3>3
    <3>. QED
      BY <1>3, <3>2, <3>4
  <2>. QED
    BY <2>3, <2>4, <2>5, <2>6
<1>8. ASSUME Same(order, d, e)
      PROVE  /\ Less(order, d, f) <=> Less(order, e, f)
             /\ Less(order, f, d) <=> Less(order, f, e)
  <2>1. \A i \in DOMAIN order : At(d, i) = At(e, i)
    BY <1>4, <1>8
  <2>2. \A i \in DOMAIN order : /\ KeyLess(order[i], d, f) <=> KeyLess(order[i], e, f)
                                /\ KeyLess(order[i], f, d) <=> KeyLess(order[i], f, e)
    BY <1>2, <2>1
  <2>3. \A i \in DOMAIN order : \A j \in 1 .. i - 1 : At(d, j) = At(e, j)
    BY <1>1, <2>1
  <2>. QED
    BY <1>3, <2>2, <2>3
<1>. QED
  BY <1>5, <1>6, <1>7, <1>8

LEMMA PrecedesOrder ==
  ASSUME StoreAssumption, NEW order \in Seq(Key), NEW s \in Seq(Document),
         NEW i \in DOMAIN s, NEW j \in DOMAIN s, NEW k \in DOMAIN s
  PROVE  /\ i = j \/ Precedes(s, order, i, j) \/ Precedes(s, order, j, i)
         /\ Precedes(s, order, i, j) => i # j /\ ~Precedes(s, order, j, i)
         /\ Precedes(s, order, i, j) /\ Precedes(s, order, j, k) => Precedes(s, order, i, k)
<1>1. PICK a \in Document, b \in Document, c \in Document : a = s[i] /\ b = s[j] /\ c = s[k]
  OBVIOUS
<1>2. i \in Nat /\ j \in Nat /\ k \in Nat
  OBVIOUS
<1>. DEFINE L(x, y) == Less(order, x, y)
            E(x, y) == Same(order, x, y)
<1>3. \A x, y, z \in Document :
         /\ E(x, y) \/ L(x, y) \/ L(y, x)
         /\ L(x, y) => ~E(x, y) /\ ~L(y, x)
         /\ L(x, y) /\ L(y, z) => L(x, z)
         /\ E(x, y) => /\ L(x, z) <=> L(y, z)
                       /\ L(z, x) <=> L(z, y)
  BY LessOrder
<1>4. \A x, y, z \in Document : E(x, x) /\ (E(x, y) => E(y, x)) /\ (E(x, y) /\ E(y, z) => E(x, z))
  BY DEF Same
<1>5. /\ Precedes(s, order, i, j) <=> L(a, b) \/ (~L(b, a) /\ i < j)
      /\ Precedes(s, order, j, i) <=> L(b, a) \/ (~L(a, b) /\ j < i)
      /\ Precedes(s, order, j, k) <=> L(b, c) \/ (~L(c, b) /\ j < k)
      /\ Precedes(s, order, i, k) <=> L(a, c) \/ (~L(c, a) /\ i < k)
  BY <1>1 DEF Precedes
<1>. HIDE DEF L, E
<1>6. i = j => ~L(a, b) /\ ~L(b, a)
  BY <1>1, <1>3, <1>4
<1>7. /\ i = j \/ Precedes(s, order, i, j) \/ Precedes(s, order, j, i)
      /\ Precedes(s, order, i, j) => i # j /\ ~Precedes(s, order, j, i)
  BY <1>2, <1>3, <1>5, <1>6
<1>8. ASSUME L(a, b) \/ (~L(b, a) /\ i < j), L(b, c) \/ (~L(c, b) /\ j < k)
      PROVE  L(a, c) \/ (~L(c, a) /\ i < k)
  <2>1. CASE L(a, b) /\ L(b, c)
    BY <1>3, <2>1
  <2>2. CASE L(a, b) /\ ~L(b, c)
    BY <1>3, <1>4, <1>8, <2>2
  <2>3. CASE ~L(a, b) /\ L(b, c)
    BY <1>3, <1>4, <1>8, <2>3
  <2>4. CASE ~L(a, b) /\ ~L(b, c)
    <3>1. E(a, c) /\ i < k
      BY <1>2, <1>3, <1>4, <1>8, <2>4
    <3>. QED
      BY <1>3, <1>4, <3>1
  <2>. QED
    BY <2>1, <2>2, <2>3, <2>4
<1>. QED
  BY <1>5, <1>7, <1>8

\* The places I of s, in the order of the sort.
Enumerates(f, s, I, order) ==
  /\ f \in [1 .. Cardinality(I) -> I]
  /\ \A k, l \in 1 .. Cardinality(I) : k < l => Precedes(s, order, f[k], f[l])

LEMMA EnumerationCounts ==
  ASSUME StoreAssumption, NEW order \in Seq(Key), NEW s \in Seq(Document),
         NEW I \in SUBSET DOMAIN s, NEW f, Enumerates(f, s, I, order)
  PROVE  /\ IsFiniteSet(I) /\ Cardinality(I) \in Nat
         /\ \A i \in I : \E k \in 1 .. Cardinality(I) : f[k] = i
         /\ \A k \in 1 .. Cardinality(I) :
              Cardinality({i \in I : Precedes(s, order, i, f[k])}) = k - 1
<1>1. IsFiniteSet(I) /\ Cardinality(I) \in Nat
  <2>1. DOMAIN s = 1 .. Len(s) /\ Len(s) \in Nat
    OBVIOUS
  <2>2. IsFiniteSet(DOMAIN s)
    BY <2>1, FS_Interval
  <2>. QED
    BY <2>2, FS_Subset, FS_CardinalityType
<1>2. PICK n : n = Cardinality(I)
  OBVIOUS
<1>3. n \in Nat /\ f \in [1 .. n -> I]
  BY <1>1, <1>2 DEF Enumerates
<1>. DEFINE P(i, j) == Precedes(s, order, i, j)
<1>4. \A i, j \in I : /\ i = j \/ P(i, j) \/ P(j, i)
                      /\ P(i, j) => i # j /\ ~P(j, i)
  BY PrecedesOrder
<1>5. \A k, l \in 1 .. n : k < l => P(f[k], f[l])
  BY <1>2 DEF Enumerates
<1>. HIDE DEF P
<1>6. \A k, l \in 1 .. n : f[k] = f[l] => k = l
  <2>1. SUFFICES ASSUME NEW k \in 1 .. n, NEW l \in 1 .. n, f[k] = f[l], k # l
                 PROVE  FALSE
    OBVIOUS
  <2>2. f[k] \in I /\ f[l] \in I
    BY <1>3
  <2>3. k < l \/ l < k
    BY <1>3, <2>1
  <2>. QED
    BY <1>4, <1>5, <2>1, <2>2, <2>3
<1>7. f \in Injection(1 .. n, I)
  BY <1>3, <1>6 DEF Injection, IsInjective
<1>8. f \in Surjection(1 .. n, I)
  <2>1. Cardinality(1 .. n) = n
    BY <1>3, FS_Interval
  <2>. QED
    BY <1>1, <1>2, <1>7, <2>1, FS_Injection
<1>9. \A i \in I : \E k \in 1 .. n : f[k] = i
  BY <1>8 DEF Surjection
<1>10. ASSUME NEW k \in 1 .. n
       PROVE  Cardinality({i \in I : P(i, f[k])}) = k - 1
  <2>1. PICK B : B = {i \in I : P(i, f[k])}
    OBVIOUS
  <2>2. PICK g : g = [l \in 1 .. k - 1 |-> f[l]]
    OBVIOUS
  <2>3. \A l \in 1 .. k - 1 : l \in 1 .. n /\ l < k
    BY <1>3
  <2>4. g \in [1 .. k - 1 -> B]
    BY <1>3, <1>5, <2>1, <2>2, <2>3
  <2>5. ASSUME NEW i \in B
        PROVE  \E l \in 1 .. k - 1 : g[l] = i
    <3>1. i \in I /\ P(i, f[k])
      BY <2>1
    <3>2. PICK l \in 1 .. n : f[l] = i
      BY <1>9, <3>1
    <3>3. f[k] \in I
      BY <1>3
    <3>4. l # k /\ ~(k < l)
      BY <1>4, <1>5, <3>1, <3>2, <3>3
    <3>5. l \in 1 .. k - 1
      BY <1>3, <3>4
    <3>. QED
      BY <2>2, <3>2, <3>5
  <2>6. \A l, m \in 1 .. k - 1 : g[l] = g[m] => l = m
    BY <1>6, <2>2, <2>3
  <2>7. g \in Bijection(1 .. k - 1, B)
    BY <2>4, <2>5, <2>6 DEF Bijection, Injection, Surjection, IsInjective
  <2>8. ExistsBijection(1 .. k - 1, B) /\ k - 1 \in Nat
    BY <1>3, <2>7 DEF ExistsBijection
  <2>9. Cardinality(B) = k - 1
    BY <2>8, FS_CountingElements
  <2>. QED
    BY <2>1, <2>9
<1>. QED
  BY <1>1, <1>2, <1>9, <1>10 DEF P

\* An enumeration of the places in the order of the sort is what the sort yields.
LEMMA ArrangedIs ==
  ASSUME StoreAssumption, NEW order \in Seq(Key), NEW s \in Seq(Document),
         NEW I \in SUBSET DOMAIN s, NEW f, Enumerates(f, s, I, order)
  PROVE  Arranged(s, I, order) = [k \in 1 .. Cardinality(I) |-> s[f[k]]]
<1>1. PICK n : n = Cardinality(I)
  OBVIOUS
<1>2. n \in Nat /\ f \in [1 .. n -> I]
  BY <1>1, EnumerationCounts DEF Enumerates
<1>3. PICK pl : pl = [j \in I |-> 1 + Cardinality({i \in I : Precedes(s, order, i, j)})]
  OBVIOUS
<1>4. \A k \in 1 .. n : pl[f[k]] = k
  <2>1. SUFFICES ASSUME NEW k \in 1 .. n
                 PROVE  pl[f[k]] = k
    OBVIOUS
  <2>2. Cardinality({i \in I : Precedes(s, order, i, f[k])}) = k - 1
    BY <1>1, EnumerationCounts
  <2>3. f[k] \in I /\ 1 + (k - 1) = k
    BY <1>2
  <2>. QED
    BY <1>3, <2>2, <2>3
<1>5. \A i \in I : \E k \in 1 .. n : f[k] = i
  <2>1. \A i \in I : \E k \in 1 .. Cardinality(I) : f[k] = i
    BY EnumerationCounts
  <2>. QED
    BY <1>1, <2>1
<1>6. ASSUME NEW k \in 1 .. n
      PROVE  (CHOOSE j \in I : pl[j] = k) = f[k]
  <2>1. \A j \in I : pl[j] = k <=> j = f[k]
    BY <1>4, <1>5
  <2>2. f[k] \in I
    BY <1>2
  <2>. QED
    BY <2>1, <2>2
<1>7. Arranged(s, I, order) = [k \in 1 .. n |-> s[CHOOSE j \in I : pl[j] = k]]
  BY <1>1, <1>3 DEF Arranged
<1>8. \A k \in 1 .. n : s[CHOOSE j \in I : pl[j] = k] = s[f[k]]
  BY <1>6
<1>9. Arranged(s, I, order) = [k \in 1 .. n |-> s[f[k]]]
  BY <1>7, <1>8
<1>. QED
  BY <1>1, <1>9

\* There is one: the number of places before it gives each its own.
LEMMA HasEnumeration ==
  ASSUME StoreAssumption, NEW order \in Seq(Key), NEW s \in Seq(Document),
         NEW I \in SUBSET DOMAIN s
  PROVE  \E f : Enumerates(f, s, I, order)
<1>1. IsFiniteSet(I) /\ Cardinality(I) \in Nat
  <2>1. DOMAIN s = 1 .. Len(s) /\ Len(s) \in Nat
    OBVIOUS
  <2>2. IsFiniteSet(DOMAIN s)
    BY <2>1, FS_Interval
  <2>. QED
    BY <2>2, FS_Subset, FS_CardinalityType
<1>2. PICK n \in Nat : n = Cardinality(I)
  BY <1>1
<1>. DEFINE P(i, j) == Precedes(s, order, i, j)
            B(j) == {i \in I : P(i, j)}
<1>3. \A i, j, k \in I : /\ i = j \/ P(i, j) \/ P(j, i)
                         /\ P(i, j) => i # j /\ ~P(j, i)
                         /\ P(i, j) /\ P(j, k) => P(i, k)
  BY PrecedesOrder
<1>. HIDE DEF P
<1>4. PICK pl : pl = [j \in I |-> 1 + Cardinality(B(j))]
  OBVIOUS
<1>5. ASSUME NEW j \in I
      PROVE  IsFiniteSet(B(j)) /\ Cardinality(B(j)) \in Nat /\ Cardinality(B(j)) < n
  <2>1. PICK C : C = B(j)
    OBVIOUS
  <2>2. C \subseteq I /\ j \notin C
    BY <1>3, <2>1
  <2>3. IsFiniteSet(C) /\ Cardinality(C) \in Nat /\ Cardinality(C) <= n
    BY <1>1, <1>2, <2>2, FS_Subset, FS_CardinalityType
  <2>4. Cardinality(C) # n
    BY <1>1, <1>2, <2>2, FS_Subset
  <2>5. Cardinality(C) < n
    BY <1>2, <2>3, <2>4
  <2>. QED
    BY <2>1, <2>3, <2>5
<1>6. pl \in [I -> 1 .. n]
  <2>1. \A c \in Nat : c < n => 1 + c \in 1 .. n
    BY <1>2
  <2>2. \A j \in I : 1 + Cardinality(B(j)) \in 1 .. n
    BY <1>5, <2>1
  <2>. HIDE DEF B
  <2>. QED
    BY <1>4, <2>2
<1>7. ASSUME NEW i \in I, NEW j \in I, P(i, j)
      PROVE  pl[i] < pl[j]
  <2>1. PICK C, D : C = B(i) /\ D = B(j)
    OBVIOUS
  <2>2. C \subseteq D /\ i \in D /\ i \notin C
    BY <1>3, <1>7, <2>1
  <2>3. IsFiniteSet(D) /\ Cardinality(D) \in Nat /\ Cardinality(C) \in Nat
    BY <1>5, <2>1
  <2>4. Cardinality(C) <= Cardinality(D) /\ Cardinality(C) # Cardinality(D)
    BY <2>2, <2>3, FS_Subset
  <2>. QED
    BY <1>4, <2>1, <2>3, <2>4
<1>8. \A i, j \in I : pl[i] = pl[j] => i = j
  <2>1. SUFFICES ASSUME NEW i \in I, NEW j \in I, pl[i] = pl[j], i # j
                 PROVE  FALSE
    OBVIOUS
  <2>2. pl[i] \in Int /\ pl[j] \in Int
    BY <1>6
  <2>. QED
    BY <1>3, <1>7, <2>1, <2>2
<1>9. pl \in Injection(I, 1 .. n)
  BY <1>6, <1>8 DEF Injection, IsInjective
<1>10. pl \in Surjection(I, 1 .. n)
  <2>1. IsFiniteSet(1 .. n) /\ Cardinality(1 .. n) = n
    BY <1>2, FS_Interval
  <2>. QED
    BY <1>2, <1>9, <2>1, FS_Injection
<1>11. \A k \in 1 .. n : \E j \in I : pl[j] = k
  BY <1>10 DEF Surjection
<1>12. PICK f : f = [k \in 1 .. n |-> CHOOSE j \in I : pl[j] = k]
  OBVIOUS
<1>13. \A k \in 1 .. n : f[k] \in I /\ pl[f[k]] = k
  BY <1>11, <1>12
<1>14. f \in [1 .. n -> I]
  BY <1>12, <1>13
<1>15. ASSUME NEW k \in 1 .. n, NEW l \in 1 .. n, k < l
       PROVE  P(f[k], f[l])
  <2>1. f[k] \in I /\ f[l] \in I /\ pl[f[k]] = k /\ pl[f[l]] = l
    BY <1>13
  <2>2. f[k] # f[l]
    BY <1>15, <2>1
  <2>3. ~P(f[l], f[k])
    <3>1. ~(l < k)
      BY <1>15
    <3>. QED
      BY <1>7, <2>1, <3>1
  <2>. QED
    BY <1>3, <2>1, <2>2, <2>3
<1>. QED
  BY <1>2, <1>14, <1>15 DEF Enumerates, P

LEMMA ArrangedType ==
  ASSUME StoreAssumption, NEW order \in Seq(Key), NEW s \in Seq(Document),
         NEW I \in SUBSET DOMAIN s
  PROVE  /\ Arranged(s, I, order) \in Seq(Document)
         /\ Len(Arranged(s, I, order)) = Cardinality(I) /\ Cardinality(I) \in Nat
         /\ ToSet(Arranged(s, I, order)) = {s[i] : i \in I}
<1>1. PICK f : Enumerates(f, s, I, order)
  BY HasEnumeration
<1>2. PICK n : n = Cardinality(I)
  OBVIOUS
<1>3. n \in Nat /\ f \in [1 .. n -> I] /\ \A i \in I : \E k \in 1 .. n : f[k] = i
  <2>1. n \in Nat /\ \A i \in I : \E k \in 1 .. n : f[k] = i
    BY <1>1, <1>2, EnumerationCounts
  <2>. QED
    BY <1>1, <1>2, <2>1 DEF Enumerates
<1>4. PICK a : a = Arranged(s, I, order)
  OBVIOUS
<1>5. a = [k \in 1 .. n |-> s[f[k]]]
  BY <1>1, <1>2, <1>4, ArrangedIs
<1>6. \A k \in 1 .. n : f[k] \in I /\ s[f[k]] \in Document
  BY <1>3
<1>7. a \in Seq(Document) /\ Len(a) = n /\ DOMAIN a = 1 .. n
  BY <1>3, <1>5, <1>6
<1>8. ToSet(a) = {s[i] : i \in I}
  BY <1>3, <1>5, <1>6, <1>7 DEF ToSet
<1>. QED
  BY <1>2, <1>3, <1>4, <1>7, <1>8

LEMMA SortedType ==
  ASSUME StoreAssumption, NEW order \in Seq(Key), NEW s \in Seq(Document)
  PROVE  /\ Sorted(s, order) \in Seq(Document) /\ Len(Sorted(s, order)) = Len(s)
         /\ ToSet(Sorted(s, order)) = ToSet(s)
<1>1. PICK n \in Nat : n = Len(s) /\ DOMAIN s = 1 .. n
  OBVIOUS
<1>2. Cardinality(1 .. n) = n
  BY FS_Interval
<1>. QED
  BY <1>1, <1>2, ArrangedType DEF Sorted, ToSet

LEMMA ChosenType ==
  ASSUME StoreAssumption, NEW s \in Seq(Document), NEW I \in SUBSET DOMAIN s
  PROVE  /\ Chosen(s, I) \in Seq(Document)
         /\ ToSet(Chosen(s, I)) = {s[i] : i \in I}
<1>1. <<>> \in Seq(Key)
  OBVIOUS
<1>. QED
  BY <1>1, ArrangedType DEF Chosen

\* What is chosen stands in its old order.
LEMMA ChosenIs ==
  ASSUME StoreAssumption, NEW s \in Seq(Document), NEW I \in SUBSET DOMAIN s,
         NEW f \in [1 .. Cardinality(I) -> I],
         \A k, l \in 1 .. Cardinality(I) : k < l => f[k] < f[l]
  PROVE  Chosen(s, I) = [k \in 1 .. Cardinality(I) |-> s[f[k]]]
<1>1. PICK none : none = <<>>
  OBVIOUS
<1>2. none \in Seq(Key)
  BY <1>1
<1>3. \A i, j \in I : i < j => Precedes(s, none, i, j)
  BY <1>1 DEF Precedes, Less
<1>4. Enumerates(f, s, I, none)
  BY <1>3 DEF Enumerates
<1>5. \A o \in Seq(Key) : \A g : Enumerates(g, s, I, o) =>
        Arranged(s, I, o) = [k \in 1 .. Cardinality(I) |-> s[g[k]]]
  BY ArrangedIs
<1>6. Arranged(s, I, none) = [k \in 1 .. Cardinality(I) |-> s[f[k]]]
  BY <1>2, <1>4, <1>5, Zenon
<1>. QED
  BY <1>1, <1>6 DEF Chosen

LEMMA ChosenAll ==
  ASSUME StoreAssumption, NEW s \in Seq(Document)
  PROVE  Chosen(s, DOMAIN s) = s
<1>1. PICK n \in Nat : n = Len(s) /\ DOMAIN s = 1 .. n
  OBVIOUS
<1>2. Cardinality(1 .. n) = n
  BY FS_Interval
<1>3. PICK f : f = [k \in 1 .. n |-> k]
  OBVIOUS
<1>4. f \in [1 .. n -> 1 .. n] /\ \A k, l \in 1 .. n : k < l => f[k] < f[l]
  BY <1>3
<1>5. Chosen(s, 1 .. n) = [k \in 1 .. n |-> s[f[k]]]
  <2>1. PICK I : I = 1 .. n
    OBVIOUS
  <2>2. I \in SUBSET DOMAIN s /\ f \in [1 .. Cardinality(I) -> I]
    BY <1>1, <1>2, <1>4, <2>1
  <2>3. \A k, l \in 1 .. Cardinality(I) : k < l => f[k] < f[l]
    BY <1>2, <1>4, <2>1
  <2>4. Chosen(s, I) = [k \in 1 .. Cardinality(I) |-> s[f[k]]]
    BY <2>2, <2>3, ChosenIs, Zenon
  <2>. QED
    BY <1>2, <2>1, <2>4
<1>. QED
  BY <1>1, <1>3, <1>5

LEMMA MaxOfTwo ==
  ASSUME NEW a \in Int, NEW b \in Int
  PROVE  Max({a, b}) = IF a < b THEN b ELSE a
<1>1. PICK m : m = IF a < b THEN b ELSE a
  OBVIOUS
<1>2. \A x \in {a, b} : (\A y \in {a, b} : x >= y) <=> x = m
  BY <1>1
<1>3. m \in {a, b}
  BY <1>1
<1>. QED
  BY <1>1, <1>2, <1>3 DEF Max

LEMMA SliceType ==
  ASSUME NEW D, NEW s \in Seq(D), NEW skip \in Int, NEW take \in Int
  PROVE  /\ Slice(s, skip, take) \in Seq(D)
         /\ ToSet(Slice(s, skip, take)) \subseteq ToSet(s)
<1>1. PICK m \in Int, n \in Int :
        /\ m = Max({0, skip}) + 1
        /\ n = IF take = -1 \/ skip + take > Len(s) THEN Len(s) ELSE skip + take
  BY MaxOfTwo
<1>2. m >= 1 /\ n <= Len(s) /\ Len(s) \in Nat
  BY <1>1, MaxOfTwo
<1>3. \A i \in m .. n : i \in 1 .. Len(s)
  BY <1>2
<1>4. PICK u : u = SubSeq(s, m, n)
  OBVIOUS
<1>5. /\ u \in Seq(D) /\ Len(u) = (IF m <= n THEN n - m + 1 ELSE 0)
      /\ \A i \in 1 .. n - m + 1 : u[i] = s[m + i - 1]
  BY <1>3, <1>4, SubSeqProperties, ElementOfSeq
<1>6. \A i \in DOMAIN u : u[i] = s[m + i - 1] /\ m + i - 1 \in 1 .. Len(s)
  BY <1>2, <1>5
<1>7. ToSet(u) \subseteq ToSet(s)
  BY <1>6 DEF ToSet
<1>. QED
  BY <1>1, <1>4, <1>5, <1>7 DEF Slice

LEMMA SliceAll ==
  ASSUME NEW D, NEW s \in Seq(D)
  PROVE  Slice(s, 0, -1) = s
<1>1. Max({0, 0}) = 0
  BY MaxOfTwo
<1>. QED
  BY <1>1, SubSeqFull DEF Slice

-----------------------------------------------------------------------------
(* Reads by revision *)

Driver == {"mongodb", "tingodb", "inmemory", "redis", "dynamodb", "azuretable", "elasticsearch"}

LEMMA RevisionPlans ==
  ASSUME StoreAssumption, driver \in Driver, NEW q \in Queries, q.op = "getEventsByRevision"
  PROVE  /\ Plan(q).from = "events" /\ Plan(q).last = FALSE
         /\ Plan(q).sort \in Seq(Key)
         /\ Plan(q).skip \in Int /\ Plan(q).take \in Int
         /\ Plan(q).pages = (IF driver = "redis" THEN "scan"
                             ELSE IF driver \in {"dynamodb", "azuretable"} THEN "keys" ELSE "one")
<1>1. /\ q.skip \in Int /\ q.limit \in Int /\ q.since \in Int /\ q.lo \in Int /\ q.hi \in Int
      /\ MaxHits \in Int
  BY DEF Parameters
<1>2. Plan(q) = GetEventsByRevision(q)
  BY DEF Plan
<1>3. /\ ByTime \in Seq(Key) /\ ByStamp \in Seq(Key) /\ <<>> \in Seq(Key)
      /\ <<"stamp", "seqText", "id">> \in Seq(Key)
  BY DEF ByTime, ByStamp, Key
<1>4. CASE driver = "mongodb"
  <2>1. Plan(q) = Mongodb_getEventsByRevision(q)
    BY <1>2, <1>4 DEF GetEventsByRevision
  <2>2. /\ Plan(q).from = "events"
        /\ Plan(q).last = FALSE
    BY <2>1 DEF Mongodb_getEventsByRevision, Reading
  <2>3. /\ Plan(q).sort = ByTime
        /\ Plan(q).pages = "one"
    BY <2>1 DEF Mongodb_getEventsByRevision, Reading
  <2>4. /\ Plan(q).skip = 0
        /\ Plan(q).take = -1
    BY <2>1 DEF Mongodb_getEventsByRevision, Reading
  <2>. QED
    BY <1>1, <1>3, <1>4, <2>2, <2>3, <2>4
<1>5. CASE driver = "tingodb"
  <2>1. Plan(q) = Tingodb_getEventsByRevision(q)
    BY <1>2, <1>5 DEF GetEventsByRevision
  <2>2. /\ Plan(q).from = "events"
        /\ Plan(q).last = FALSE
    BY <2>1 DEF Tingodb_getEventsByRevision, Reading
  <2>3. /\ Plan(q).sort = ByTime
        /\ Plan(q).pages = "one"
    BY <2>1 DEF Tingodb_getEventsByRevision, Reading
  <2>4. /\ Plan(q).skip = 0
        /\ Plan(q).take = -1
    BY <2>1 DEF Tingodb_getEventsByRevision, Reading
  <2>. QED
    BY <1>1, <1>3, <1>5, <2>2, <2>3, <2>4
<1>6. CASE driver = "inmemory"
  <2>1. Plan(q) = Inmemory_getEventsByRevision(q)
    BY <1>2, <1>6 DEF GetEventsByRevision
  <2>2. /\ Plan(q).from = "events"
        /\ Plan(q).last = FALSE
    BY <2>1 DEF Inmemory_getEventsByRevision, Reading
  <2>3. /\ Plan(q).sort = <<>>
        /\ Plan(q).pages = "one"
    BY <2>1 DEF Inmemory_getEventsByRevision, Reading
  <2>4. /\ Plan(q).skip = q.lo
        /\ Plan(q).take = IF q.hi = -1 THEN -1 ELSE Max({0, q.hi - q.lo})
    BY <2>1 DEF Inmemory_getEventsByRevision, Reading
  <2>5. Max({0, q.hi - q.lo}) \in Int
    BY <1>1, MaxOfTwo
  <2>. QED
    BY <1>1, <1>3, <1>6, <2>2, <2>3, <2>4, <2>5
<1>7. CASE driver = "redis"
  <2>1. Plan(q) = Redis_getEventsByRevision(q)
    BY <1>2, <1>7 DEF GetEventsByRevision
  <2>2. /\ Plan(q).from = "events"
        /\ Plan(q).last = FALSE
    BY <2>1 DEF Redis_getEventsByRevision, Reading, Redis_scan
  <2>3. /\ Plan(q).sort = <<"stamp", "seqText", "id">>
        /\ Plan(q).pages = "scan"
    BY <2>1 DEF Redis_getEventsByRevision, Reading, Redis_scan
  <2>4. /\ Plan(q).skip = q.lo
        /\ Plan(q).take = IF q.hi = -1 THEN -1 ELSE Max({0, q.hi - q.lo})
    BY <2>1 DEF Redis_getEventsByRevision, Reading, Redis_scan
  <2>5. Max({0, q.hi - q.lo}) \in Int
    BY <1>1, MaxOfTwo
  <2>. QED
    BY <1>1, <1>3, <1>7, <2>2, <2>3, <2>4, <2>5
<1>8. CASE driver = "dynamodb"
  <2>1. Plan(q) = Dynamodb_getEventsByRevision(q)
    BY <1>2, <1>8 DEF GetEventsByRevision
  <2>2. /\ Plan(q).from = "events"
        /\ Plan(q).last = FALSE
    BY <2>1 DEF Dynamodb_getEventsByRevision, Reading
  <2>3. /\ Plan(q).sort = ByStamp
        /\ Plan(q).pages = "keys"
    BY <2>1 DEF Dynamodb_getEventsByRevision, Reading
  <2>4. /\ Plan(q).skip = 0
        /\ Plan(q).take = -1
    BY <2>1 DEF Dynamodb_getEventsByRevision, Reading
  <2>. QED
    BY <1>1, <1>3, <1>8, <2>2, <2>3, <2>4
<1>9. CASE driver = "azuretable"
  <2>1. Plan(q) = Azuretable_getEventsByRevision(q)
    BY <1>2, <1>9 DEF GetEventsByRevision
  <2>2. /\ Plan(q).from = "events"
        /\ Plan(q).last = FALSE
    BY <2>1 DEF Azuretable_getEventsByRevision, Reading
  <2>3. /\ Plan(q).sort = ByStamp
        /\ Plan(q).pages = "keys"
    BY <2>1 DEF Azuretable_getEventsByRevision, Reading
  <2>4. /\ Plan(q).skip = 0
        /\ Plan(q).take = -1
    BY <2>1 DEF Azuretable_getEventsByRevision, Reading
  <2>. QED
    BY <1>1, <1>3, <1>9, <2>2, <2>3, <2>4
<1>10. CASE driver = "elasticsearch"
  <2>1. Plan(q) = Elasticsearch_getEventsByRevision(q)
    BY <1>2, <1>10 DEF GetEventsByRevision
  <2>2. /\ Plan(q).from = "events"
        /\ Plan(q).last = FALSE
    BY <2>1 DEF Elasticsearch_getEventsByRevision, Reading, Elasticsearch_search, Elasticsearch_buildQuery
  <2>3. /\ Plan(q).sort = ByTime
        /\ Plan(q).pages = "one"
    BY <2>1 DEF Elasticsearch_getEventsByRevision, Reading, Elasticsearch_search, Elasticsearch_buildQuery
  <2>4. /\ Plan(q).skip = 0
        /\ Plan(q).take = MaxHits - 0
    BY <2>1 DEF Elasticsearch_getEventsByRevision, Reading, Elasticsearch_search, Elasticsearch_buildQuery
  <2>. QED
    BY <1>1, <1>3, <1>10, <2>2, <2>3, <2>4
<1>. QED
  BY <1>4, <1>5, <1>6, <1>7, <1>8, <1>9, <1>10 DEF Driver

-----------------------------------------------------------------------------
(* The requests of a commit *)

Verb == {"insert", "journal", "drop", "incr", "mset", "put", "list", "bulk"}
Requests == [do : Verb, docs : Seq(Document), awaited : BOOLEAN]

LEMMA RequestIs ==
  ASSUME NEW v \in Verb, NEW docs \in Seq(Document)
  PROVE  /\ Request(v, docs) \in Requests
         /\ Request(v, docs).do = v /\ Request(v, docs).docs = docs
         /\ Request(v, docs).awaited = TRUE
BY DEF Request, Requests

LEMMA OneDoc ==
  ASSUME NEW d \in Document
  PROVE  /\ <<d>> \in Seq(Document) /\ DOMAIN <<d>> = {1} /\ <<d>>[1] = d /\ Len(<<d>>) = 1
         /\ Ids(<<d>>) = {Id(d)} /\ ToSet(<<d>>) = {d}
<1>1. PICK s : s = <<d>>
  OBVIOUS
<1>2. s \in Seq(Document) /\ DOMAIN s = {1} /\ s[1] = d /\ Len(s) = 1
  BY <1>1
<1>3. Ids(s) = {Id(d)} /\ ToSet(s) = {d}
  BY <1>2 DEF Ids, ToSet
<1>. QED
  BY <1>1, <1>2, <1>3

\* Two requests for each event.
LEMMA PutAndList ==
  ASSUME NEW docs \in Seq(Document), NEW all, all = OneByOne(docs, <<"put", "list">>)
  PROVE  /\ all \in Seq(Requests) /\ Len(all) = 2 * Len(docs)
         /\ \A i \in DOMAIN docs :
              /\ 2 * i - 1 \in DOMAIN all /\ all[2 * i - 1] = Request("put", <<docs[i]>>)
              /\ 2 * i \in DOMAIN all /\ all[2 * i] = Request("list", <<docs[i]>>)
         /\ \A k \in DOMAIN all : \E i \in DOMAIN docs : k = 2 * i - 1 \/ k = 2 * i
<1>1. PICK n \in Nat : n = Len(docs) /\ DOMAIN docs = 1 .. n
  OBVIOUS
<1>2. PICK verbs : verbs = <<"put", "list">>
  OBVIOUS
<1>3. Len(verbs) = 2 /\ verbs[1] = "put" /\ verbs[2] = "list"
  BY <1>2
<1>4. all = [k \in 1 .. 2 * n |->
               Request(verbs[1 + ((k - 1) % 2)], <<docs[1 + ((k - 1) \div 2)]>>)]
  <2>1. n * 2 = 2 * n
    OBVIOUS
  <2>. QED
    BY <1>1, <1>2, <1>3, <2>1 DEF OneByOne
<1>5. \A i \in 1 .. n : /\ 2 * i - 1 \in 1 .. 2 * n /\ 2 * i \in 1 .. 2 * n
                        /\ 1 + ((2 * i - 1 - 1) % 2) = 1 /\ 1 + ((2 * i - 1 - 1) \div 2) = i
                        /\ 1 + ((2 * i - 1) % 2) = 2 /\ 1 + ((2 * i - 1) \div 2) = i
  OBVIOUS
<1>6. \A k \in 1 .. 2 * n : \E i \in 1 .. n : k = 2 * i - 1 \/ k = 2 * i
  <2>1. SUFFICES ASSUME NEW k \in 1 .. 2 * n
                 PROVE  \E i \in 1 .. n : k = 2 * i - 1 \/ k = 2 * i
    OBVIOUS
  <2>2. PICK i \in Int : i = (k + 1) \div 2
    OBVIOUS
  <2>3. k = 2 * i - 1 \/ k = 2 * i
    BY <2>2
  <2>4. i \in 1 .. n
    BY <2>3
  <2>. QED
    BY <2>3, <2>4
<1>7. \A i \in 1 .. n : /\ all[2 * i - 1] = Request("put", <<docs[i]>>)
                        /\ all[2 * i] = Request("list", <<docs[i]>>)
  <2>1. SUFFICES ASSUME NEW i \in 1 .. n
                 PROVE  /\ all[2 * i - 1] = Request("put", <<docs[i]>>)
                        /\ all[2 * i] = Request("list", <<docs[i]>>)
    OBVIOUS
  <2>2. PICK j \in 1 .. 2 * n, k \in 1 .. 2 * n : j = 2 * i - 1 /\ k = 2 * i
    BY <1>5
  <2>3. all[j] = Request(verbs[1 + ((j - 1) % 2)], <<docs[1 + ((j - 1) \div 2)]>>)
    BY <1>4
  <2>4. all[k] = Request(verbs[1 + ((k - 1) % 2)], <<docs[1 + ((k - 1) \div 2)]>>)
    BY <1>4
  <2>5. /\ 1 + ((j - 1) % 2) = 1 /\ 1 + ((j - 1) \div 2) = i
        /\ 1 + ((k - 1) % 2) = 2 /\ 1 + ((k - 1) \div 2) = i
    BY <1>5, <2>2
  <2>. QED
    BY <1>3, <2>2, <2>3, <2>4, <2>5
<1>8. DOMAIN all = 1 .. 2 * n /\ 2 * n \in Nat
  BY <1>4
<1>9. \A i \in 1 .. n : /\ Request("put", <<docs[i]>>) \in Requests
                        /\ Request("list", <<docs[i]>>) \in Requests
  <2>1. \A i \in 1 .. n : docs[i] \in Document
    BY <1>1
  <2>2. "put" \in Verb /\ "list" \in Verb
    BY DEF Verb
  <2>. QED
    BY <2>1, <2>2, OneDoc, RequestIs
<1>10. \A k \in 1 .. 2 * n : all[k] \in Requests
  BY <1>6, <1>7, <1>9
<1>11. all \in [1 .. 2 * n -> Requests]
  BY <1>4, <1>8, <1>10
<1>12. all \in Seq(Requests) /\ Len(all) = 2 * n
  BY <1>8, <1>11
<1>. QED
  BY <1>1, <1>5, <1>6, <1>7, <1>8, <1>12

\* One request for each event.
LEMMA PutOnly ==
  ASSUME NEW docs \in Seq(Document), NEW all, all = OneByOne(docs, <<"put">>)
  PROVE  /\ all \in Seq(Requests) /\ Len(all) = Len(docs)
         /\ \A i \in DOMAIN docs : all[i] = Request("put", <<docs[i]>>)
<1>1. PICK n \in Nat : n = Len(docs) /\ DOMAIN docs = 1 .. n
  OBVIOUS
<1>2. PICK verbs : verbs = <<"put">>
  OBVIOUS
<1>3. Len(verbs) = 1 /\ verbs[1] = "put"
  BY <1>2
<1>4. all = [k \in 1 .. n |-> Request(verbs[1 + ((k - 1) % 1)], <<docs[1 + ((k - 1) \div 1)]>>)]
  <2>1. n * 1 = n
    OBVIOUS
  <2>. QED
    BY <1>1, <1>2, <1>3, <2>1 DEF OneByOne
<1>5. \A k \in 1 .. n : 1 + ((k - 1) % 1) = 1 /\ 1 + ((k - 1) \div 1) = k
  OBVIOUS
<1>6. all = [k \in 1 .. n |-> Request("put", <<docs[k]>>)]
  BY <1>3, <1>4, <1>5
<1>7. \A i \in 1 .. n : Request("put", <<docs[i]>>) \in Requests
  <2>1. \A i \in 1 .. n : docs[i] \in Document
    BY <1>1
  <2>2. "put" \in Verb
    BY DEF Verb
  <2>. QED
    BY <2>1, <2>2, OneDoc, RequestIs
<1>8. all \in [1 .. n -> Requests]
  BY <1>6, <1>7
<1>9. all \in Seq(Requests) /\ Len(all) = n
  BY <1>8
<1>. QED
  BY <1>1, <1>6, <1>9

-----------------------------------------------------------------------------
(* Sequences of requests and of events *)

LEMMA IdsAppend ==
  ASSUME NEW s \in Seq(Document), NEW t \in Seq(Document)
  PROVE  /\ s \o t \in Seq(Document)
         /\ Ids(s \o t) = Ids(s) \cup Ids(t)
         /\ Len(s \o t) = Len(s) + Len(t)
         /\ \A i \in DOMAIN s : (s \o t)[i] = s[i] /\ i \in DOMAIN (s \o t)
         /\ \A i \in DOMAIN t : (s \o t)[Len(s) + i] = t[i] /\ Len(s) + i \in DOMAIN (s \o t)
         /\ \A i \in DOMAIN (s \o t) : i \in DOMAIN s \/ i - Len(s) \in DOMAIN t
<1>1. PICK m \in Nat, n \in Nat : /\ m = Len(s) /\ DOMAIN s = 1 .. m
                                  /\ n = Len(t) /\ DOMAIN t = 1 .. n
  OBVIOUS
<1>2. PICK u : u = s \o t
  OBVIOUS
<1>3. /\ u \in Seq(Document) /\ Len(u) = m + n /\ DOMAIN u = 1 .. m + n
      /\ \A i \in 1 .. m + n : u[i] = IF i <= m THEN s[i] ELSE t[i - m]
  BY <1>1, <1>2, ConcatProperties
<1>4. \A i \in 1 .. m : u[i] = s[i] /\ i \in 1 .. m + n
  BY <1>1, <1>3
<1>5. \A i \in 1 .. n : u[m + i] = t[i] /\ m + i \in 1 .. m + n
  <2>1. \A i \in 1 .. n : m + i \in 1 .. m + n /\ ~(m + i <= m) /\ (m + i) - m = i
    BY <1>1
  <2>. QED
    BY <1>3, <2>1
<1>6. \A i \in 1 .. m + n : i \in 1 .. m \/ (i - m \in 1 .. n /\ u[i] = t[i - m])
  BY <1>1, <1>3
<1>7. Ids(u) = Ids(s) \cup Ids(t)
  <2>1. \A x : x \in Ids(u) <=> \E i \in 1 .. m + n : x = Id(u[i])
    BY <1>3 DEF Ids
  <2>2. \A x : x \in Ids(s) <=> \E i \in 1 .. m : x = Id(s[i])
    BY <1>1 DEF Ids
  <2>3. \A x : x \in Ids(t) <=> \E i \in 1 .. n : x = Id(t[i])
    BY <1>1 DEF Ids
  <2>4. \A x : x \in Ids(u) => x \in Ids(s) \/ x \in Ids(t)
    <3>1. SUFFICES ASSUME NEW i \in 1 .. m + n
                   PROVE  Id(u[i]) \in Ids(s) \/ Id(u[i]) \in Ids(t)
      BY <2>1
    <3>2. CASE i \in 1 .. m
      BY <1>4, <2>2, <3>2
    <3>3. CASE i - m \in 1 .. n /\ u[i] = t[i - m]
      BY <2>3, <3>3
    <3>. QED
      BY <1>6, <3>2, <3>3
  <2>5. \A x : x \in Ids(s) => x \in Ids(u)
    BY <1>4, <2>1, <2>2
  <2>6. \A x : x \in Ids(t) => x \in Ids(u)
    BY <1>5, <2>1, <2>3
  <2>. QED
    BY <2>4, <2>5, <2>6
<1>. QED
  BY <1>1, <1>2, <1>3, <1>4, <1>5, <1>6, <1>7

LEMMA SuffixStep ==
  ASSUME NEW D, NEW s \in Seq(D), NEW k \in DOMAIN s, NEW t, t = SubSeq(s, k, Len(s))
  PROVE  /\ t \in Seq(D) /\ t # <<>> /\ Len(t) = Len(s) - k + 1 /\ t[1] = s[k]
         /\ RemoveAt(t, 1) = SubSeq(s, k + 1, Len(s))
         /\ RemoveAt(t, 1) \in Seq(D)
         /\ \A j \in DOMAIN t : t[j] = s[k + j - 1] /\ k + j - 1 \in DOMAIN s
         /\ ToSet(RemoveAt(t, 1)) \subseteq ToSet(s)
<1>1. PICK n \in Nat : n = Len(s) /\ DOMAIN s = 1 .. n /\ k \in 1 .. n
  OBVIOUS
<1>2. \A i \in k .. n : i \in 1 .. n /\ s[i] \in D
  BY <1>1
<1>3. /\ t \in Seq(D) /\ Len(t) = n - k + 1
      /\ \A i \in 1 .. n - k + 1 : t[i] = s[k + i - 1]
  BY <1>1, <1>2, SubSeqProperties
<1>4. t # <<>> /\ t[1] = s[k]
  BY <1>1, <1>3
<1>5. SubSeq(t, 2, Len(t)) = SubSeq(s, k + 1, n)
  <2>1. Head(SubSeq(s, k, n)) = s[k] /\ Tail(SubSeq(s, k, n)) = SubSeq(s, k + 1, n)
    BY <1>1, HeadTailOfSubSeq
  <2>2. Tail(t) = SubSeq(t, 2, Len(t))
    BY <1>3, <1>4, TailIsSubSeq
  <2>. QED
    BY <1>1, <2>1, <2>2
<1>6. PICK u : u = SubSeq(s, k + 1, n)
  OBVIOUS
<1>7. \A i \in k + 1 .. n : i \in 1 .. n /\ s[i] \in D
  BY <1>1
<1>8. /\ u \in Seq(D) /\ Len(u) = (IF k + 1 <= n THEN n - k ELSE 0)
      /\ \A i \in 1 .. n - (k + 1) + 1 : u[i] = s[k + 1 + i - 1]
  BY <1>1, <1>6, <1>7, SubSeqProperties
<1>9. RemoveAt(t, 1) = u
  <2>1. SubSeq(t, 1, 1 - 1) = <<>>
    BY SubSeqEmpty
  <2>2. RemoveAt(t, 1) = <<>> \o SubSeq(t, 2, Len(t))
    <3>1. RemoveAt(t, 1) = SubSeq(t, 1, 1 - 1) \o SubSeq(t, 1 + 1, Len(t))
      BY Zenon DEF RemoveAt
    <3>2. 1 + 1 = 2
      OBVIOUS
    <3>. QED
      BY <2>1, <3>1, <3>2, Zenon
  <2>. QED
    BY <1>5, <1>6, <1>8, <2>2, ConcatEmptySeq
<1>10. ToSet(u) \subseteq ToSet(s)
  <2>1. \A i \in DOMAIN u : u[i] = s[k + i] /\ k + i \in 1 .. n
    <3>1. DOMAIN u = 1 .. n - k
      BY <1>1, <1>8
    <3>2. \A i \in 1 .. n - k : k + 1 + i - 1 = k + i /\ k + i \in 1 .. n
      BY <1>1
    <3>3. n - (k + 1) + 1 = n - k
      BY <1>1
    <3>. QED
      BY <1>8, <3>1, <3>2, <3>3
  <2>. QED
    BY <1>1, <2>1 DEF ToSet
<1>11. \A j \in DOMAIN t : t[j] = s[k + j - 1] /\ k + j - 1 \in DOMAIN s
  BY <1>1, <1>3
<1>. QED
  BY <1>1, <1>3, <1>4, <1>6, <1>8, <1>9, <1>10, <1>11

LEMMA RemoveAtType ==
  ASSUME NEW D, NEW s \in Seq(D), NEW i \in DOMAIN s
  PROVE  /\ RemoveAt(s, i) \in Seq(D)
         /\ ToSet(s) = ToSet(RemoveAt(s, i)) \cup {s[i]}
<1>1. PICK n \in Nat : n = Len(s) /\ DOMAIN s = 1 .. n /\ i \in 1 .. n
  OBVIOUS
<1>2. PICK u, w : u = SubSeq(s, 1, i - 1) /\ w = SubSeq(s, i + 1, n)
  OBVIOUS
<1>3. /\ u \in Seq(D) /\ Len(u) = i - 1
      /\ \A j \in 1 .. i - 1 : u[j] = s[j]
  <2>1. \A j \in 1 .. i - 1 : j \in 1 .. n /\ s[j] \in D
    BY <1>1
  <2>2. /\ u \in Seq(D) /\ Len(u) = (IF 1 <= i - 1 THEN i - 1 - 1 + 1 ELSE 0)
        /\ \A j \in 1 .. i - 1 - 1 + 1 : u[j] = s[1 + j - 1]
    BY <1>1, <1>2, <2>1, SubSeqProperties
  <2>. QED
    BY <1>1, <2>2
<1>4. /\ w \in Seq(D) /\ Len(w) = n - i
      /\ \A j \in 1 .. n - i : w[j] = s[i + j]
  <2>1. \A j \in i + 1 .. n : j \in 1 .. n /\ s[j] \in D
    BY <1>1
  <2>2. /\ w \in Seq(D) /\ Len(w) = (IF i + 1 <= n THEN n - (i + 1) + 1 ELSE 0)
        /\ \A j \in 1 .. n - (i + 1) + 1 : w[j] = s[i + 1 + j - 1]
    BY <1>1, <1>2, <2>1, SubSeqProperties
  <2>3. Len(w) = n - i
    BY <1>1, <2>2
  <2>4. \A j \in 1 .. n - i : j \in 1 .. n - (i + 1) + 1 /\ i + 1 + j - 1 = i + j
    BY <1>1
  <2>5. \A j \in 1 .. n - i : w[j] = s[i + j]
    BY <2>2, <2>4
  <2>. QED
    BY <2>2, <2>3, <2>5
<1>5. PICK t : t = u \o w
  OBVIOUS
<1>6. /\ t \in Seq(D) /\ Len(t) = n - 1
      /\ \A j \in 1 .. n - 1 : t[j] = IF j <= i - 1 THEN u[j] ELSE w[j - (i - 1)]
  <2>1. (i - 1) + (n - i) = n - 1
    BY <1>1
  <2>2. /\ t \in Seq(D) /\ Len(t) = Len(u) + Len(w)
        /\ \A j \in 1 .. Len(u) + Len(w) : t[j] = IF j <= Len(u) THEN u[j] ELSE w[j - Len(u)]
    BY <1>3, <1>4, <1>5, ConcatProperties
  <2>. QED
    BY <1>3, <1>4, <2>1, <2>2
<1>7. \A j \in 1 .. n - 1 : t[j] = IF j < i THEN s[j] ELSE s[j + 1]
  <2>1. SUFFICES ASSUME NEW j \in 1 .. n - 1
                 PROVE  t[j] = IF j < i THEN s[j] ELSE s[j + 1]
    OBVIOUS
  <2>2. CASE j < i
    <3>1. j \in 1 .. i - 1 /\ j <= i - 1
      BY <1>1, <2>2
    <3>. QED
      BY <1>3, <1>6, <2>2, <3>1
  <2>3. CASE ~(j < i)
    <3>1. j - (i - 1) \in 1 .. n - i /\ i + (j - (i - 1)) = j + 1 /\ ~(j <= i - 1)
      BY <1>1, <2>3
    <3>. QED
      BY <1>4, <1>6, <2>3, <3>1
  <2>. QED
    BY <2>2, <2>3
<1>8. DOMAIN t = 1 .. n - 1
  BY <1>6
<1>9. \A x : x \in ToSet(t) => x \in ToSet(s)
  BY <1>1, <1>7, <1>8 DEF ToSet
<1>10. \A x : x \in ToSet(s) => x \in ToSet(t) \/ x = s[i]
  <2>1. SUFFICES ASSUME NEW j \in 1 .. n, s[j] # s[i]
                 PROVE  \E l \in 1 .. n - 1 : t[l] = s[j]
    BY <1>1, <1>8 DEF ToSet
  <2>2. CASE j < i
    BY <1>1, <1>7, <2>2
  <2>3. CASE j > i
    <3>1. j - 1 \in 1 .. n - 1 /\ ~(j - 1 < i) /\ (j - 1) + 1 = j
      BY <1>1, <2>3
    <3>. QED
      BY <1>7, <3>1
  <2>. QED
    BY <1>1, <2>1, <2>2, <2>3
<1>11. s[i] \in ToSet(s)
  BY DEF ToSet
<1>12. RemoveAt(s, i) = t
  BY <1>1, <1>2, <1>5 DEF RemoveAt
<1>. QED
  BY <1>6, <1>9, <1>10, <1>11, <1>12

\* What the requests of a commit have in common.
Lists == driver = "azuretable" \/ listing
Batches(all, docs) ==
  /\ all \in Seq(Requests) /\ all # <<>>
  /\ \A k \in DOMAIN all : /\ all[k].docs = docs
                           /\ ~all[k].awaited => all[k].do = "drop"
Singles(all, docs) ==
  /\ all \in Seq(Requests) /\ all # <<>>
  /\ \A k \in DOMAIN all :
       /\ all[k].do \in {"put", "list"} /\ all[k].awaited
       /\ \E i \in DOMAIN docs :
            /\ all[k].docs = <<docs[i]>>
            /\ all[k].do = "put" =>
                 \A j \in 1 .. i - 1 : \E l \in 1 .. k - 1 : all[l] = Request("put", <<docs[j]>>)
            /\ all[k].do = "list" => \E l \in 1 .. k - 1 : all[l] = Request("put", <<docs[i]>>)
  /\ \A i \in DOMAIN docs :
       /\ \E k \in DOMAIN all : all[k] = Request("put", <<docs[i]>>)
       /\ Lists => \E k \in DOMAIN all : all[k] = Request("list", <<docs[i]>>)

LEMMA OneRequest ==
  ASSUME NEW docs \in Seq(Document), NEW v \in Verb, NEW all, all = <<Request(v, docs)>>
  PROVE  /\ Batches(all, docs)
         /\ \A k \in DOMAIN all : all[k].do = v
         /\ DOMAIN all = {1}
<1>1. PICK r \in Requests : r = Request(v, docs) /\ r.do = v /\ r.docs = docs /\ r.awaited = TRUE
  BY RequestIs
<1>2. DOMAIN all = {1} /\ all[1] = r /\ all \in Seq(Requests) /\ all # <<>>
  BY <1>1
<1>. QED
  BY <1>1, <1>2 DEF Batches

LEMMA MongodbRequests ==
  ASSUME NEW docs \in Seq(Document), driver \in {"mongodb", "tingodb"}, NEW all, all = AddEvents(docs)
  PROVE  /\ Batches(all, docs)
         /\ \A k \in DOMAIN all : all[k].do \in {"journal", "insert", "drop"}
         /\ \E k \in DOMAIN all : all[k].do = "insert"
<1>1. CASE Len(docs) = 1
  <2>1. all = <<Request("insert", docs)>>
    BY <1>1 DEF AddEvents, Mongodb_addEvents, Tingodb_addEvents
  <2>2. "insert" \in Verb
    BY DEF Verb
  <2>. QED
    BY <2>1, <2>2, OneRequest
<1>2. CASE Len(docs) # 1
  <2>1. PICK j \in Requests, i \in Requests, d \in Requests :
          /\ j = Request("journal", docs) /\ j.do = "journal" /\ j.docs = docs /\ j.awaited = TRUE
          /\ i = Request("insert", docs) /\ i.do = "insert" /\ i.docs = docs /\ i.awaited = TRUE
          /\ d = Request("drop", docs) /\ d.do = "drop" /\ d.docs = docs /\ d.awaited = TRUE
    <3>1. "journal" \in Verb /\ "insert" \in Verb /\ "drop" \in Verb
      BY DEF Verb
    <3>. QED
      BY <3>1, RequestIs
  <2>2. PICK l \in Requests : /\ l = [d EXCEPT !.awaited = FALSE]
                              /\ l.do = "drop" /\ l.docs = docs
    <3>1. d = [do |-> "drop", docs |-> docs, awaited |-> TRUE]
      <4>1. d = Request("drop", docs)
        BY <2>1
      <4>2. Request("drop", docs) = [do |-> "drop", docs |-> docs, awaited |-> TRUE]
        BY DEF Request
      <4>. QED
        BY <4>1, <4>2, Zenon
    <3>2. [d EXCEPT !.awaited = FALSE] = [do |-> "drop", docs |-> docs, awaited |-> FALSE]
      <4>1. \A a, b : [[do |-> "drop", docs |-> docs, awaited |-> a] EXCEPT !.awaited = b]
                       = [do |-> "drop", docs |-> docs, awaited |-> b]
        OBVIOUS
      <4>2. [[do |-> "drop", docs |-> docs, awaited |-> TRUE] EXCEPT !.awaited = FALSE]
              = [do |-> "drop", docs |-> docs, awaited |-> FALSE]
        BY <4>1, Zenon
      <4>. QED
        BY <3>1, <4>2, Zenon
    <3>3. [do |-> "drop", docs |-> docs, awaited |-> FALSE] \in Requests
      BY DEF Requests, Verb
    <3>. QED
      BY <3>2, <3>3
  <2>3. all = <<j, i, d>> \/ all = <<j, i, l>>
    <3>1. CASE driver = "mongodb"
      BY <1>2, <2>1, <3>1 DEF AddEvents, Mongodb_addEvents
    <3>2. CASE driver = "tingodb"
      <4>1. all = Tingodb_addEvents(docs)
        BY <3>2 DEF AddEvents
      <4>. QED
        BY <1>2, <2>1, <2>2, <4>1 DEF Tingodb_addEvents
    <3>. QED
      BY <3>1, <3>2
  <2>4. PICK x \in {d, l} : all = <<j, i, x>>
    BY <2>3
  <2>5. all \in Seq(Requests) /\ all # <<>> /\ DOMAIN all = {1, 2, 3}
        /\ all[1] = j /\ all[2] = i /\ all[3] = x
    BY <2>4
  <2>6. \A k \in DOMAIN all : /\ all[k].docs = docs /\ (~all[k].awaited => all[k].do = "drop")
                              /\ all[k].do \in {"journal", "insert", "drop"}
    <3>1. x.docs = docs /\ x.do = "drop"
      BY <2>1, <2>2
    <3>2. \A k \in DOMAIN all : all[k] = j \/ all[k] = i \/ all[k] = x
      BY <2>5
    <3>. QED
      BY <2>1, <3>1, <3>2
  <2>. QED
    BY <2>1, <2>5, <2>6 DEF Batches
<1>. QED
  BY <1>1, <1>2

LEMMA BatchRequests ==
  ASSUME NEW docs \in Seq(Document), NEW all, all = AddEvents(docs)
  PROVE  /\ driver = "inmemory" => /\ Batches(all, docs) /\ DOMAIN all = {1}
                                   /\ \A k \in DOMAIN all : all[k].do = "insert"
         /\ driver = "elasticsearch" => /\ Batches(all, docs) /\ DOMAIN all = {1}
                                        /\ \A k \in DOMAIN all : all[k].do = "bulk"
         /\ driver = "redis" => all = <<Request("incr", docs), Request("mset", docs)>>
<1>1. ASSUME driver = "inmemory"
      PROVE  /\ Batches(all, docs) /\ DOMAIN all = {1}
             /\ \A k \in DOMAIN all : all[k].do = "insert"
  <2>1. all = <<Request("insert", docs)>> /\ "insert" \in Verb
    BY <1>1 DEF AddEvents, Inmemory_addEvents, Verb
  <2>. QED
    BY <2>1, OneRequest
<1>2. ASSUME driver = "elasticsearch"
      PROVE  /\ Batches(all, docs) /\ DOMAIN all = {1}
             /\ \A k \in DOMAIN all : all[k].do = "bulk"
  <2>1. all = <<Request("bulk", docs)>> /\ "bulk" \in Verb
    BY <1>2 DEF AddEvents, Elasticsearch_addEvents, Verb
  <2>. QED
    BY <2>1, OneRequest
<1>3. driver = "redis" => all = <<Request("incr", docs), Request("mset", docs)>>
  BY DEF AddEvents, Redis_addEvents
<1>. QED
  BY <1>1, <1>2, <1>3

LEMMA SinglesOfTwo ==
  ASSUME NEW docs \in Seq(Document), docs # <<>>,
         NEW all, all = OneByOne(docs, <<"put", "list">>)
  PROVE  Singles(all, docs)
<1>1. /\ all \in Seq(Requests) /\ Len(all) = 2 * Len(docs)
      /\ \A i \in DOMAIN docs :
           /\ 2 * i - 1 \in DOMAIN all /\ all[2 * i - 1] = Request("put", <<docs[i]>>)
           /\ 2 * i \in DOMAIN all /\ all[2 * i] = Request("list", <<docs[i]>>)
      /\ \A k \in DOMAIN all : \E i \in DOMAIN docs : k = 2 * i - 1 \/ k = 2 * i
  BY PutAndList
<1>2. \A d \in Document : /\ Request("put", <<d>>).do = "put" /\ Request("put", <<d>>).docs = <<d>>
                          /\ Request("list", <<d>>).do = "list" /\ Request("list", <<d>>).docs = <<d>>
                          /\ Request("put", <<d>>).awaited /\ Request("list", <<d>>).awaited
  BY DEF Request
<1>3. PICK n \in Nat : n = Len(docs) /\ DOMAIN docs = 1 .. n /\ n # 0
  BY EmptySeq
<1>4. \A i \in 1 .. n : docs[i] \in Document
  BY <1>3
<1>5. ASSUME NEW k \in DOMAIN all
      PROVE  /\ all[k].do \in {"put", "list"} /\ all[k].awaited
             /\ \E i \in DOMAIN docs :
                  /\ all[k].docs = <<docs[i]>>
                  /\ all[k].do = "put" =>
                       \A j \in 1 .. i - 1 : \E l \in 1 .. k - 1 : all[l] = Request("put", <<docs[j]>>)
                  /\ all[k].do = "list" =>
                       \E l \in 1 .. k - 1 : all[l] = Request("put", <<docs[i]>>)
  <2>1. PICK i \in 1 .. n : k = 2 * i - 1 \/ k = 2 * i
    BY <1>1, <1>3
  <2>2. CASE k = 2 * i
    <3>1. all[k] = Request("list", <<docs[i]>>)
      BY <1>1, <1>3, <2>2
    <3>2. all[k].do = "list" /\ all[k].docs = <<docs[i]>> /\ all[k].awaited
      BY <1>2, <1>4, <3>1
    <3>3. 2 * i - 1 \in 1 .. k - 1
      BY <1>3, <2>2
    <3>4. all[2 * i - 1] = Request("put", <<docs[i]>>)
      BY <1>1, <1>3
    <3>. QED
      BY <1>3, <3>2, <3>3, <3>4
  <2>3. CASE k = 2 * i - 1
    <3>1. all[k] = Request("put", <<docs[i]>>)
      BY <1>1, <1>3, <2>3
    <3>2. all[k].do = "put" /\ all[k].docs = <<docs[i]>> /\ all[k].awaited
      BY <1>2, <1>4, <3>1
    <3>3. ASSUME NEW j \in 1 .. i - 1
          PROVE  \E l \in 1 .. k - 1 : all[l] = Request("put", <<docs[j]>>)
      <4>1. j \in 1 .. n /\ 2 * j - 1 \in 1 .. k - 1
        BY <1>3, <2>3
      <4>2. all[2 * j - 1] = Request("put", <<docs[j]>>)
        BY <1>1, <1>3, <4>1
      <4>. QED
        BY <4>1, <4>2
    <3>. QED
      BY <1>3, <3>2, <3>3
  <2>. QED
    BY <2>1, <2>2, <2>3
<1>6. all # <<>>
  <2>1. 2 * n # 0
    BY <1>3
  <2>. QED
    BY <1>1, <1>3, <2>1
<1>7. \A i \in DOMAIN docs : /\ \E k \in DOMAIN all : all[k] = Request("put", <<docs[i]>>)
                             /\ \E k \in DOMAIN all : all[k] = Request("list", <<docs[i]>>)
  BY <1>1
<1>. QED
  BY <1>1, <1>5, <1>6, <1>7 DEF Singles

LEMMA SinglesOfOne ==
  ASSUME NEW docs \in Seq(Document), docs # <<>>, ~Lists,
         NEW all, all = OneByOne(docs, <<"put">>)
  PROVE  Singles(all, docs)
<1>1. /\ all \in Seq(Requests) /\ Len(all) = Len(docs)
      /\ \A i \in DOMAIN docs : all[i] = Request("put", <<docs[i]>>)
  BY PutOnly
<1>2. \A d \in Document : /\ Request("put", <<d>>).do = "put" /\ Request("put", <<d>>).docs = <<d>>
                          /\ Request("put", <<d>>).awaited
  BY DEF Request
<1>3. PICK n \in Nat : n = Len(docs) /\ DOMAIN docs = 1 .. n /\ n # 0 /\ DOMAIN all = 1 .. n
  BY <1>1, EmptySeq
<1>4. \A i \in 1 .. n : docs[i] \in Document
  BY <1>3
<1>5. ASSUME NEW k \in 1 .. n
      PROVE  /\ all[k].do = "put" /\ all[k].awaited
             /\ all[k].docs = <<docs[k]>>
             /\ \A j \in 1 .. k - 1 : \E l \in 1 .. k - 1 : all[l] = Request("put", <<docs[j]>>)
  <2>1. all[k] = Request("put", <<docs[k]>>)
    BY <1>1, <1>3
  <2>2. all[k].do = "put" /\ all[k].docs = <<docs[k]>> /\ all[k].awaited
    BY <1>2, <1>4, <2>1
  <2>3. \A j \in 1 .. k - 1 : j \in 1 .. n
    BY <1>3
  <2>4. \A j \in 1 .. k - 1 : all[j] = Request("put", <<docs[j]>>)
    BY <1>1, <1>3, <2>3
  <2>. QED
    BY <2>2, <2>4
<1>6. all # <<>>
  BY <1>1, <1>3
<1>. QED
  BY <1>1, <1>3, <1>5, <1>6 DEF Singles

LEMMA SingleRequests ==
  ASSUME NEW docs \in Seq(Document), docs # <<>>, driver \in {"dynamodb", "azuretable"},
         NEW all, all = AddEvents(docs)
  PROVE  Singles(all, docs)
<1>1. CASE driver = "azuretable"
  BY <1>1, SinglesOfTwo DEF AddEvents, Azuretable_addEvents
<1>2. CASE driver = "dynamodb" /\ listing
  <2>1. all = OneByOne(docs, <<"put", "list">>)
    BY <1>2 DEF AddEvents, Dynamodb_addEvents
  <2>. QED
    BY <2>1, SinglesOfTwo
<1>3. CASE driver = "dynamodb" /\ ~listing
  <2>1. all = OneByOne(docs, <<"put">>)
    BY <1>3 DEF AddEvents, Dynamodb_addEvents
  <2>2. ~Lists
    BY <1>3 DEF Lists
  <2>. QED
    BY <2>1, <2>2, SinglesOfOne
<1>. QED
  BY <1>1, <1>2, <1>3

-----------------------------------------------------------------------------
(* What a request can come to *)

LEMMA Prefix ==
  ASSUME NEW s \in Seq(Document), NEW m \in 0 .. Len(s), NEW t, t = SubSeq(s, 1, m)
  PROVE  /\ t \in Seq(Document) /\ Len(t) = m /\ DOMAIN t = 1 .. m
         /\ \A i \in 1 .. m : t[i] = s[i] /\ i \in DOMAIN s
         /\ ToSet(t) \subseteq ToSet(s)
         /\ m = Len(s) => t = s
         /\ m = 0 => t = <<>>
<1>1. PICK n \in Nat : n = Len(s) /\ DOMAIN s = 1 .. n /\ m \in 0 .. n
  OBVIOUS
<1>2. \A i \in 1 .. m : i \in 1 .. n /\ s[i] \in Document
  BY <1>1
<1>3. /\ t \in Seq(Document) /\ Len(t) = m
      /\ \A i \in 1 .. m : t[i] = s[i]
  <2>1. /\ t \in Seq(Document) /\ Len(t) = (IF 1 <= m THEN m - 1 + 1 ELSE 0)
        /\ \A i \in 1 .. m - 1 + 1 : t[i] = s[1 + i - 1]
    BY <1>1, <1>2, SubSeqProperties
  <2>2. \A i \in 1 .. m : i \in 1 .. m - 1 + 1 /\ 1 + i - 1 = i
    BY <1>1
  <2>. QED
    BY <1>1, <2>1, <2>2
<1>4. DOMAIN t = 1 .. m
  BY <1>3
<1>5. ToSet(t) \subseteq ToSet(s)
  BY <1>1, <1>2, <1>3, <1>4 DEF ToSet
<1>7. m = n => t = s
  BY <1>1, SubSeqFull
<1>8. m = 0 => t = <<>>
  BY <1>3, EmptySeq
<1>. QED
  BY <1>1, <1>2, <1>3, <1>4, <1>5, <1>7, <1>8

LEMMA OutcomeCases ==
  ASSUME StoreAssumption, faults \in 0 .. MaxFaults, NEW r \in Requests, NEW o \in Outcomes(r)
  PROVE  /\ o.docs \in Seq(Document) /\ ToSet(o.docs) \subseteq ToSet(r.docs)
         /\ o.ok \in BOOLEAN
         /\ o.fault \in {0, 1}
         /\ o.fault = 1 => faults < MaxFaults /\ driver # "inmemory"
         /\ r.do # "bulk" => \E m \in 0 .. Len(r.docs) :
                               /\ o.docs = SubSeq(r.docs, 1, m)
                               /\ \A j \in 1 .. m : ~Refuses(r, r.docs[j])
         /\ o.ok /\ (r.do # "bulk" \/ o.fault = 0) => o.docs = r.docs
         /\ o.fault = 0 /\ (\A j \in DOMAIN r.docs : ~Refuses(r, r.docs[j])) => o.ok
         /\ o.fault = 1 /\ r.do \notin {"insert", "bulk"} => o.docs = <<>> /\ ~o.ok
<1>1. PICK n \in Nat : n = Len(r.docs) /\ DOMAIN r.docs = 1 .. n /\ r.docs \in Seq(Document)
  BY DEF Requests
<1>. DEFINE R(j) == Refuses(r, r.docs[j])
            fresh == IF \E i \in 1..n : R(i)
                     THEN (CHOOSE i \in 1..n : R(i) /\ \A j \in 1 .. i-1 : ~R(j)) - 1
                     ELSE n
            Result(docs, ok, f) == [docs |-> docs, ok |-> ok, fault |-> f]
<1>2. /\ fresh \in 0 .. n
      /\ \A j \in 1 .. fresh : ~R(j)
      /\ (\A j \in 1 .. n : ~R(j)) => fresh = n
  <2>1. CASE \E i \in 1 .. n : R(i)
    <3>1. PICK S : S = {i \in 1 .. n : R(i)}
      OBVIOUS
    <3>2. S \in SUBSET Nat /\ S # {}
      BY <2>1, <3>1
    <3>3. PICK i \in S : \A x \in S : i <= x
      BY <3>2, HasLeast
    <3>4. i \in 1 .. n /\ R(i)
      BY <3>1
    <3>5. \A j \in 1 .. i - 1 : ~R(j)
      <4>1. SUFFICES ASSUME NEW j \in 1 .. i - 1, R(j)
                     PROVE  FALSE
        OBVIOUS
      <4>2. j \in S
        BY <3>1, <3>4, <4>1
      <4>. QED
        BY <3>3, <3>4, <4>2
    <3>6. PICK c : c = CHOOSE k \in 1..n : R(k) /\ \A j \in 1 .. k-1 : ~R(j)
      OBVIOUS
    <3>7. c \in 1 .. n /\ R(c) /\ \A j \in 1 .. c - 1 : ~R(j)
      BY <3>4, <3>5, <3>6
    <3>8. fresh = c - 1
      BY <2>1, <3>6
    <3>9. fresh \in 0 .. n
      BY <3>7, <3>8
    <3>. QED
      BY <2>1, <3>7, <3>8, <3>9
  <2>2. CASE ~\E i \in 1 .. n : R(i)
    BY <2>2
  <2>. QED
    BY <2>1, <2>2
<1>. HIDE DEF fresh
<1>3. PICK f : f = fresh
  OBVIOUS
<1>4. /\ f \in 0 .. n
      /\ (\A j \in 1 .. f : ~R(j)) /\ ((\A j \in 1 .. n : ~R(j)) => f = n)
  BY <1>2, <1>3, Zenon
<1>. DEFINE Failures ==
        CASE r.do = "insert" -> {Result(SubSeq(r.docs, 1, k), FALSE, 1) : k \in 0 .. f - 1}
          [] r.do = "bulk"   -> {Result(Chosen(r.docs, I), TRUE, 1) : I \in SUBSET (1 .. n)}
          [] OTHER           -> {Result(<<>>, FALSE, 1)}
<1>5. \/ o = Result(SubSeq(r.docs, 1, f), f = n, 0)
      \/ driver # "inmemory" /\ faults < MaxFaults /\ o \in Failures
  <2>1. Outcomes(r) = {Result(SubSeq(r.docs, 1, fresh), fresh = n, 0)}
                        \cup (IF driver # "inmemory" /\ faults < MaxFaults
                              THEN CASE r.do = "insert" -> {Result(SubSeq(r.docs, 1, k), FALSE, 1) : k \in 0 .. fresh - 1}
                                     [] r.do = "bulk"   -> {Result(Chosen(r.docs, I), TRUE, 1) : I \in SUBSET (1 .. n)}
                                     [] OTHER           -> {Result(<<>>, FALSE, 1)}
                              ELSE {})
    BY <1>1 DEF Outcomes, fresh
  <2>2. Outcomes(r) = {Result(SubSeq(r.docs, 1, f), f = n, 0)}
                        \cup (IF driver # "inmemory" /\ faults < MaxFaults THEN Failures ELSE {})
    BY <1>3, <2>1, Zenon
  <2>. QED
    BY <2>2
<1>. HIDE DEF R
<1>6. \A m \in 0 .. n : \A t : t = SubSeq(r.docs, 1, m) =>
        /\ t \in Seq(Document) /\ ToSet(t) \subseteq ToSet(r.docs)
        /\ m = n => t = r.docs
        /\ m = 0 => t = <<>>
  <2>1. SUFFICES ASSUME NEW m \in 0 .. n, NEW t, t = SubSeq(r.docs, 1, m)
                 PROVE  /\ t \in Seq(Document) /\ ToSet(t) \subseteq ToSet(r.docs)
                        /\ m = n => t = r.docs
                        /\ m = 0 => t = <<>>
    OBVIOUS
  <2>2. m \in 0 .. Len(r.docs)
    BY <1>1
  <2>3. /\ t \in Seq(Document) /\ ToSet(t) \subseteq ToSet(r.docs)
        /\ m = Len(r.docs) => t = r.docs
        /\ m = 0 => t = <<>>
    <3>1. r.docs \in Seq(Document)
      BY <1>1
    <3>. QED
      <4>1. PICK x \in Seq(Document) : x = r.docs
        BY <3>1
      <4>2. m \in 0 .. Len(x) /\ t = SubSeq(x, 1, m)
        BY <2>1, <2>2, <4>1
      <4>3. /\ t \in Seq(Document) /\ ToSet(t) \subseteq ToSet(x)
            /\ m = Len(x) => t = x
            /\ m = 0 => t = <<>>
        <5>1. t \in Seq(Document)
          BY <4>2, Prefix
        <5>2. ToSet(t) \subseteq ToSet(x)
          BY <4>2, Prefix
        <5>3. m = Len(x) => t = x
          BY <4>2, Prefix
        <5>4. m = 0 => t = <<>>
          BY <4>2, Prefix
        <5>. QED
          BY <5>1, <5>2, <5>3, <5>4
      <4>. QED
        BY <4>1, <4>3
  <2>. QED
    BY <1>1, <2>3
<1>. HIDE DEF Failures
<1>. DEFINE Goal ==
         /\ o.docs \in Seq(Document) /\ ToSet(o.docs) \subseteq ToSet(r.docs)
         /\ o.fault \in {0, 1}
         /\ o.fault = 1 => faults < MaxFaults /\ driver # "inmemory"
         /\ r.do # "bulk" => \E m \in 0 .. n :
                               /\ o.docs = SubSeq(r.docs, 1, m)
                               /\ \A j \in 1 .. m : ~R(j)
         /\ o.ok /\ (r.do # "bulk" \/ o.fault = 0) => o.docs = r.docs
         /\ o.fault = 0 /\ (\A j \in 1 .. n : ~R(j)) => o.ok
         /\ o.fault = 1 /\ r.do \notin {"insert", "bulk"} => o.docs = <<>> /\ ~o.ok
<1>11. o.ok \in BOOLEAN
  <2>1. (f = n) \in BOOLEAN
    OBVIOUS
  <2>2. CASE o = Result(SubSeq(r.docs, 1, f), f = n, 0)
    <3>1. o.ok = (f = n)
      BY <2>2
    <3>. QED
      BY <2>1, <3>1
  <2>3. CASE o \in Failures
    <3>1. o.ok = TRUE \/ o.ok = FALSE
      BY <2>3 DEF Failures
    <3>. QED
      BY <3>1
  <2>. QED
    BY <1>5, <2>2, <2>3
<1>12. SUFFICES Goal
  BY <1>1, <1>11 DEF R
<1>7. CASE o = Result(SubSeq(r.docs, 1, f), f = n, 0)
  <2>1. PICK t : t = SubSeq(r.docs, 1, f)
    OBVIOUS
  <2>2. PICK b \in BOOLEAN : b <=> f = n
    OBVIOUS
  <2>3. o.docs = t /\ o.ok = b /\ o.fault = 0
    <3>1. o.docs = t /\ o.fault = 0
      BY <1>7, <2>1
    <3>2. o.ok = (f = n)
      BY <1>7
    <3>3. b = (f = n)
      BY <2>2
    <3>. QED
      BY <3>1, <3>2, <3>3
  <2>4. o.ok <=> f = n
    <3>1. o.ok = b
      BY <2>3
    <3>. QED
      BY <2>2, <3>1, Zenon
  <2>5. t \in Seq(Document) /\ ToSet(t) \subseteq ToSet(r.docs) /\ (f = n => t = r.docs)
    BY <1>4, <1>6, <2>1
  <2>6. o.fault # 1
    BY <2>3
  <2>7. r.do # "bulk" => \E m \in 0 .. n : o.docs = SubSeq(r.docs, 1, m) /\ \A j \in 1 .. m : ~R(j)
    BY <1>4, <2>1, <2>3
  <2>8. o.ok /\ (r.do # "bulk" \/ o.fault = 0) => o.docs = r.docs
    BY <2>3, <2>4, <2>5
  <2>9. o.fault = 0 /\ (\A j \in 1 .. n : ~R(j)) => o.ok
    BY <1>4, <2>4
  <2>10. o.docs \in Seq(Document) /\ ToSet(o.docs) \subseteq ToSet(r.docs) /\ o.fault = 0
    BY <2>3, <2>5
  <2>. QED
    BY <2>6, <2>7, <2>8, <2>9, <2>10
<1>8. CASE /\ driver # "inmemory" /\ faults < MaxFaults /\ r.do = "insert" /\ o \in Failures
  <2>1. PICK k \in 0 .. f - 1 : o = Result(SubSeq(r.docs, 1, k), FALSE, 1)
    BY <1>8 DEF Failures
  <2>2. k \in 0 .. n /\ \A j \in 1 .. k : j \in 1 .. f
    BY <1>4
  <2>3. PICK t : t = SubSeq(r.docs, 1, k)
    OBVIOUS
  <2>4. o.docs = t /\ o.fault = 1
    BY <2>1, <2>3
  <2>5. o.ok = FALSE
    BY <2>1
  <2>6. t \in Seq(Document) /\ ToSet(t) \subseteq ToSet(r.docs)
    BY <1>6, <2>2, <2>3
  <2>7. \E m \in 0 .. n : o.docs = SubSeq(r.docs, 1, m) /\ \A j \in 1 .. m : ~R(j)
    BY <1>4, <2>2, <2>3, <2>4
  <2>8. ~o.ok
    BY <2>5
  <2>9. o.docs \in Seq(Document) /\ ToSet(o.docs) \subseteq ToSet(r.docs)
    BY <2>4, <2>6
  <2>10. o.fault # 0 /\ o.fault = 1
    BY <2>4
  <2>11. faults < MaxFaults /\ driver # "inmemory" /\ r.do = "insert"
    BY <1>8
  <2>. QED
    BY <2>7, <2>8, <2>9, <2>10, <2>11
<1>9. CASE /\ driver # "inmemory" /\ faults < MaxFaults /\ r.do = "bulk" /\ o \in Failures
  <2>1. PICK I \in SUBSET (1 .. n) : o = Result(Chosen(r.docs, I), TRUE, 1)
    BY <1>9 DEF Failures
  <2>2. /\ Chosen(r.docs, I) \in Seq(Document)
        /\ ToSet(Chosen(r.docs, I)) \subseteq ToSet(r.docs)
    <3>1. /\ Chosen(r.docs, I) \in Seq(Document)
          /\ ToSet(Chosen(r.docs, I)) = {r.docs[i] : i \in I}
      BY <1>1, ChosenType
    <3>2. {r.docs[i] : i \in I} \subseteq ToSet(r.docs)
      BY <1>1 DEF ToSet
    <3>. QED
      BY <3>1, <3>2
  <2>3. o.docs = Chosen(r.docs, I) /\ o.fault = 1
    BY <2>1
  <2>. QED
    BY <1>9, <2>2, <2>3
<1>10. CASE /\ driver # "inmemory" /\ faults < MaxFaults /\ r.do \notin {"insert", "bulk"}
            /\ o \in Failures
  <2>1. o = Result(<<>>, FALSE, 1)
    BY <1>10 DEF Failures
  <2>2. o.docs = <<>> /\ o.fault = 1
    BY <2>1
  <2>3. o.ok = FALSE
    BY <2>1
  <2>4. ~o.ok
    BY <2>3
  <2>5. /\ <<>> \in Seq(Document) /\ ToSet(<<>>) \subseteq ToSet(r.docs)
        /\ <<>> = SubSeq(r.docs, 1, 0) /\ 0 \in 0 .. n
        /\ \A j \in 1 .. 0 : ~R(j)
    BY <1>6, SubSeqEmpty DEF ToSet
  <2>6. \E m \in 0 .. n : o.docs = SubSeq(r.docs, 1, m) /\ \A j \in 1 .. m : ~R(j)
    BY <2>2, <2>5
  <2>7. o.docs \in Seq(Document) /\ ToSet(o.docs) \subseteq ToSet(r.docs)
    BY <2>2, <2>5
  <2>8. faults < MaxFaults /\ driver # "inmemory" /\ o.fault # 0
    BY <1>10, <2>2
  <2>. QED
    BY <2>2, <2>4, <2>6, <2>7, <2>8
<1>. QED
  BY <1>5, <1>7, <1>8, <1>9, <1>10

-----------------------------------------------------------------------------
(* The inductive invariant *)

Adds(p) == call[p].pc = "adding"
AllOf(p) == AddEvents(commit[call[p].c])
Kept(d) == \E i \in DOMAIN events : events[i] = d

Setting ==
  /\ driver \in Driver /\ listing \in BOOLEAN /\ (driver # "dynamodb" => listing)
  /\ call = [p \in Client |-> call[p]]
  /\ \A c \in acked : commit[c] # <<>>

\* A commit is a sequence of events that count on from its first revision.
Counted(c, docs) ==
  \A i \in DOMAIN docs :
     /\ docs[i].commit = c /\ docs[i].seq = i - 1
     /\ docs[i].rest = Len(docs) - i
     /\ docs[i].rev = docs[1].rev + i - 1
CommitsOK ==
  /\ commit \in [CommitId -> Seq(Document)]
  /\ \A c \in CommitId : Counted(c, commit[c])

\* What is stored is an event of a commit; only redis changes its revision.
Genuine(d) ==
  /\ d.seq + 1 \in DOMAIN commit[d.commit]
  /\ driver # "redis" => d = commit[d.commit][d.seq + 1]
EventsOK ==
  /\ events \in Seq(Document)
  /\ \A i \in DOMAIN events : Genuine(events[i])

\* Events of commits that redis has not given revisions.
Waits(p) == driver = "redis" /\ Adds(p) /\ call[p].todo[1].do = "incr"
Unclaimed == UNION {Ids(commit[call[p].c]) : p \in {q \in Client : Waits(q)}}
CountsOK ==
  /\ IsFiniteSet(Made) /\ Cardinality(Made) <= MaxDocs
  /\ clock \in 0 .. Cardinality(Made)
  /\ counter \in 0 .. Cardinality(Made \ Unclaimed)

\* What a request was to store and to list is stored and listed.
Finished(r) ==
  /\ r.do \in {"insert", "put"} => Ids(r.docs) \subseteq Stored
  /\ r.do \in {"insert", "list"} => Ids(r.docs) \subseteq waiting \cup marked

\* How far a client is with the requests of its commit.
Progress(p) ==
  CASE driver = "redis" ->
         \/ call[p].todo = AllOf(p)
         \/ \E first \in 0 .. counter :
              call[p].todo = <<Request("mset", Numbered(commit[call[p].c], first))>>
    [] driver = "azuretable" ->
         /\ call[p].todo \in Seq(ToSet(AllOf(p))) /\ call[p].todo # <<>>
         /\ \A r \in ToSet(AllOf(p)) \ ToSet(call[p].todo) : Finished(r)
    [] OTHER ->
         \E k \in DOMAIN AllOf(p) :
           /\ call[p].todo = SubSeq(AllOf(p), k, Len(AllOf(p)))
           /\ \A j \in 1 .. k - 1 : Finished(AllOf(p)[j])

WriteOK(p) ==
  Adds(p) =>
    /\ call[p] = [pc |-> "adding", c |-> call[p].c, todo |-> call[p].todo]
    /\ call[p].c \in CommitId /\ commit[call[p].c] # <<>> /\ call[p].c \notin acked
    /\ \A r \in Client : Adds(r) /\ call[r].c = call[p].c => r = p
    /\ Progress(p)
WritesOK == \A p \in Client : WriteOK(p)

LateOK ==
  /\ late \subseteq Requests
  /\ \A r \in late :
       \/ r.do = "drop"
       \/ /\ driver = "azuretable" /\ r.do \in {"put", "list"}
          /\ \E c \in CommitId : \E i \in DOMAIN commit[c] : r.docs = <<commit[c][i]>>

\* A commit is stored at once or in its order.
Whole(c) == Ids(commit[c]) \subseteq Stored
AtOnce == {"redis", "inmemory"}
InOrder == {"mongodb", "tingodb", "dynamodb"}
CutOK ==
  /\ driver \in AtOnce =>
       \A i \in DOMAIN events :
         /\ Whole(events[i].commit)
         /\ \A p \in Client : Adds(p) => call[p].c # events[i].commit
  /\ driver \in InOrder =>
       \A id \in Stored : \A n \in 0 .. id[2] - 1 : <<id[1], n>> \in Stored

\* redis: the revisions that were given out are below the counter, each once.
Claims(p) == Adds(p) /\ call[p].todo[1].do = "mset"
Claimed(p) == {call[p].todo[1].docs[i].rev : i \in DOMAIN call[p].todo[1].docs}
NumbersOK ==
  driver = "redis" =>
    /\ \A i \in DOMAIN events : events[i].rev < counter
    /\ \A p \in Client : Claims(p) =>
         /\ Claimed(p) \subseteq 0 .. counter - 1
         /\ \A i \in DOMAIN events : events[i].rev \notin Claimed(p)
         /\ \A r \in Client : Claims(r) /\ r # p => Claimed(p) \cap Claimed(r) = {}

\* What a reader relies on between two requests.
ReadOK(p) ==
  /\ call[p].pc # "idle" /\ ~Adds(p) => call[p].q \in Queries
  /\ call[p].pc \in {"lookup", "clean"} =>
       /\ driver \in {"mongodb", "tingodb"} /\ call[p].q.op = "getEventsByRevision"
       /\ call[p] = [pc |-> call[p].pc, q |-> call[p].q, docs |-> call[p].docs,
                     version |-> call[p].version]
       /\ call[p].docs \in Seq(Document) /\ call[p].docs # <<>>
       /\ Kept(call[p].docs[Len(call[p].docs)])
       /\ call[p].pc = "lookup" => call[p].docs[Len(call[p].docs)].rest # 0
  /\ call[p].pc = "repair" =>
       /\ driver \in {"mongodb", "tingodb"}
       /\ call[p] = [pc |-> "repair", q |-> call[p].q, todo |-> call[p].todo]
       /\ \/ call[p].todo = <<Drop(<<>>)>>
          \/ \E c \in CommitId : \E i \in 2 .. Len(commit[c]) :
               /\ <<c, i - 2>> \in Stored
               /\ call[p].todo = <<Request("insert", SubSeq(commit[c], i, Len(commit[c]))), Drop(<<>>)>>
  /\ call[p].pc \in {"asked", "scan"} =>
       /\ call[p] = [pc |-> call[p].pc, q |-> call[p].q, found |-> call[p].found,
                     cursor |-> call[p].cursor, version |-> call[p].version]
       /\ WholeStream(call[p].q) => call[p].found \in Seq(Document)
  /\ call[p].pc = "answered" /\ WholeStream(call[p].q) => call[p].docs \in Seq(Document)
ReadsOK == \A p \in Client : ReadOK(p)

-----------------------------------------------------------------------------
(* What every step leaves in place *)

\* Commits stay as they are, and what is stored and listed stays so.
Grows ==
  /\ driver' = driver /\ listing' = listing
  /\ \A c \in CommitId : commit[c] # <<>> => commit'[c] = commit[c]
  /\ Stored \subseteq Stored'
  /\ waiting \cup marked \subseteq waiting' \cup marked'
  /\ counter <= counter'

LEMMA FinishedGrows ==
  ASSUME Grows, NEW r, Finished(r)
  PROVE  Finished(r)'
BY DEF Grows, Finished

\* A client whose call does not change is as far as it was.
LEMMA ProgressGrows ==
  ASSUME TypeOK, Grows, NEW p \in Client, WriteOK(p), Adds(p), call'[p] = call[p], counter' \in Nat
  PROVE  Progress(p)'
<1>1. Progress(p) /\ call[p].c \in CommitId /\ commit[call[p].c] # <<>>
  BY DEF WriteOK
<1>2. commit'[call'[p].c] = commit[call[p].c] /\ driver' = driver /\ listing' = listing
  BY <1>1 DEF Grows
<1>3. AllOf(p)' = AllOf(p)
  BY <1>2 DEF AllOf, AddEvents, Dynamodb_addEvents
<1>4. \A r : Finished(r) => Finished(r)'
  BY FinishedGrows
<1>5. counter \in Nat /\ counter <= counter'
  BY DEF TypeOK, Grows
<1>6. \A first \in 0 .. counter : first \in 0 .. counter'
  BY <1>5
<1>7. CASE driver = "redis"
  <2>1. \/ call[p].todo = AllOf(p)
        \/ \E first \in 0 .. counter :
             call[p].todo = <<Request("mset", Numbered(commit[call[p].c], first))>>
    BY <1>1, <1>7 DEF Progress
  <2>2. CASE call[p].todo = AllOf(p)
    BY <1>2, <1>3, <1>7, <2>2 DEF Progress
  <2>3. CASE \E first \in 0 .. counter :
               call[p].todo = <<Request("mset", Numbered(commit[call[p].c], first))>>
    BY <1>2, <1>6, <1>7, <2>3 DEF Progress, Request, Numbered
  <2>. QED
    BY <2>1, <2>2, <2>3
<1>8. CASE driver = "azuretable"
  BY <1>1, <1>2, <1>3, <1>4, <1>8 DEF Progress
<1>9. CASE driver \notin {"redis", "azuretable"}
  BY <1>1, <1>2, <1>3, <1>4, <1>9 DEF Progress
<1>. QED
  BY <1>7, <1>8, <1>9

\* The writers after a step of one client.
LEMMA WritersAfter ==
  ASSUME Setting, TypeOK, WritesOK, Grows, counter' \in Nat,
         NEW p \in Client, NEW x, call' = [call EXCEPT ![p] = x],
         x.pc = "adding" =>
           /\ x = [pc |-> "adding", c |-> x.c, todo |-> x.todo]
           /\ x.c \in CommitId /\ commit'[x.c] # <<>> /\ x.c \notin acked'
           /\ \A r \in Client : Adds(r) /\ call[r].c = x.c => r = p
           /\ Progress(p)',
         acked' \subseteq acked \cup IF Adds(p) THEN {call[p].c} ELSE {}
  PROVE  WritesOK'
<1>1. call'[p] = x /\ \A q \in Client : q # p => call'[q] = call[q]
  BY DEF Setting
<1>2. ASSUME NEW q \in Client, q # p, Adds(q)'
      PROVE  WriteOK(q)'
  <2>1. Adds(q) /\ call'[q] = call[q]
    BY <1>1, <1>2 DEF Adds
  <2>2. WriteOK(q)
    BY DEF WritesOK
  <2>3. Progress(q)'
    BY <2>1, <2>2, ProgressGrows
  <2>4. /\ call[q] = [pc |-> "adding", c |-> call[q].c, todo |-> call[q].todo]
        /\ call[q].c \in CommitId /\ commit[call[q].c] # <<>> /\ call[q].c \notin acked
        /\ \A r \in Client : Adds(r) /\ call[r].c = call[q].c => r = q
    BY <2>1, <2>2 DEF WriteOK
  <2>5. call[q].c \notin acked'
    BY <1>2, <2>4 DEF Adds
  <2>6. commit'[call[q].c] # <<>>
    BY <2>4 DEF Grows
  <2>7. \A r \in Client : Adds(r)' /\ call'[r].c = call'[q].c => r = q
    <3>1. SUFFICES ASSUME NEW r \in Client, Adds(r)', call'[r].c = call'[q].c
                   PROVE  r = q
      OBVIOUS
    <3>2. CASE r # p
      BY <1>1, <2>1, <2>4, <3>1, <3>2 DEF Adds
    <3>3. CASE r = p
      <4>1. x.pc = "adding" /\ x.c = call[q].c
        BY <1>1, <2>1, <3>1, <3>3 DEF Adds
      <4>. QED
        BY <1>2, <2>1, <4>1
    <3>. QED
      BY <3>2, <3>3
  <2>. QED
    BY <2>1, <2>3, <2>4, <2>5, <2>6, <2>7 DEF WriteOK
<1>3. ASSUME Adds(p)'
      PROVE  WriteOK(p)'
  <2>1. x.pc = "adding"
    BY <1>1, <1>3 DEF Adds
  <2>2. \A r \in Client : Adds(r)' /\ call'[r].c = call'[p].c => r = p
    BY <1>1, <2>1 DEF Adds
  <2>. QED
    BY <1>1, <2>1, <2>2 DEF WriteOK
<1>4. \A q \in Client : WriteOK(q)'
  <2>1. \A q \in Client : ~Adds(q)' => WriteOK(q)'
    BY DEF WriteOK
  <2>. QED
    BY <1>2, <1>3, <2>1
<1>. QED
  BY <1>4 DEF WritesOK

\* A reader whose call does not change can still rely on what it did.
LEMMA ReaderGrows ==
  ASSUME Grows, CommitsOK, NEW p \in Client, ReadOK(p), call'[p] = call[p],
         \A d : Kept(d) => Kept(d)'
  PROVE  ReadOK(p)'
<1>1. Adds(p)' <=> Adds(p)
  BY DEF Adds
<1>2. Drop(<<>>)' = Drop(<<>>)
  BY DEF Drop, Grows, Request
<1>3. \A c \in CommitId : \A i \in 2 .. Len(commit[c]) :
        /\ commit'[c] = commit[c]
        /\ <<c, i - 2>> \in Stored => <<c, i - 2>> \in Stored'
  <2>1. SUFFICES ASSUME NEW c \in CommitId, NEW i \in 2 .. Len(commit[c])
                 PROVE  /\ commit'[c] = commit[c]
                        /\ <<c, i - 2>> \in Stored => <<c, i - 2>> \in Stored'
    OBVIOUS
  <2>2. commit[c] # <<>>
    BY DEF CommitsOK
  <2>. QED
    BY <2>2 DEF Grows
<1>4. driver' = driver
  BY DEF Grows
<1>5. call[p].pc \in {"lookup", "clean"} =>
        Kept(call[p].docs[Len(call[p].docs)])'
  BY DEF ReadOK
<1>6. call[p].pc = "repair" =>
        \/ call[p].todo = <<Drop(<<>>)'>>
        \/ \E c \in CommitId : \E i \in 2 .. Len(commit'[c]) :
             /\ <<c, i - 2>> \in Stored'
             /\ call[p].todo = <<Request("insert", SubSeq(commit'[c], i, Len(commit'[c]))), Drop(<<>>)'>>
  <2>1. SUFFICES ASSUME call[p].pc = "repair", call[p].todo # <<Drop(<<>>)>>
                 PROVE  \E c \in CommitId : \E i \in 2 .. Len(commit'[c]) :
                          /\ <<c, i - 2>> \in Stored'
                          /\ call[p].todo = <<Request("insert", SubSeq(commit'[c], i, Len(commit'[c]))), Drop(<<>>)'>>
    BY <1>2
  <2>2. PICK c \in CommitId : \E i \in 2 .. Len(commit[c]) :
               /\ <<c, i - 2>> \in Stored
               /\ call[p].todo = <<Request("insert", SubSeq(commit[c], i, Len(commit[c]))), Drop(<<>>)>>
    BY <2>1 DEF ReadOK
  <2>3. PICK i \in 2 .. Len(commit[c]) :
               /\ <<c, i - 2>> \in Stored
               /\ call[p].todo = <<Request("insert", SubSeq(commit[c], i, Len(commit[c]))), Drop(<<>>)>>
    BY <2>2
  <2>4. commit'[c] = commit[c] /\ <<c, i - 2>> \in Stored'
    BY <1>3, <2>3
  <2>5. i \in 2 .. Len(commit'[c])
    BY <2>4
  <2>6. call[p].todo = <<Request("insert", SubSeq(commit'[c], i, Len(commit'[c]))), Drop(<<>>)'>>
    BY <1>2, <2>3, <2>4
  <2>. QED
    BY <2>4, <2>5, <2>6
<1>. QED
  BY <1>1, <1>4, <1>5, <1>6 DEF ReadOK
Inv ==
  /\ Setting /\ TypeOK /\ CommitsOK /\ EventsOK /\ CountsOK
  /\ WritesOK /\ LateOK /\ CutOK /\ NumbersOK /\ ReadsOK
  /\ AckedIsStored /\ RevisionIsUnique

LEMMA DropIs ==
  /\ Drop(<<>>) \in Requests /\ Drop(<<>>).do = "drop" /\ Drop(<<>>).docs = <<>>
  /\ Drop(<<>>).awaited <=> driver = "mongodb"
<1>1. Drop(<<>>) = [do |-> "drop", docs |-> <<>>, awaited |-> (driver = "mongodb")]
  <2>1. \A a, b : [[do |-> "drop", docs |-> <<>>, awaited |-> a] EXCEPT !.awaited = b]
                    = [do |-> "drop", docs |-> <<>>, awaited |-> b]
    OBVIOUS
  <2>2. [[do |-> "drop", docs |-> <<>>, awaited |-> TRUE] EXCEPT !.awaited = (driver = "mongodb")]
          = [do |-> "drop", docs |-> <<>>, awaited |-> (driver = "mongodb")]
    BY <2>1, Zenon
  <2>3. Drop(<<>>) = [[do |-> "drop", docs |-> <<>>, awaited |-> TRUE] EXCEPT !.awaited = (driver = "mongodb")]
    BY Zenon DEF Drop, Request
  <2>. QED
    BY <2>2, <2>3, Zenon
<1>2. PICK b \in BOOLEAN : b = (driver = "mongodb")
  OBVIOUS
<1>3. Drop(<<>>) = [do |-> "drop", docs |-> <<>>, awaited |-> b]
  BY <1>1, <1>2, Zenon
<1>4. "drop" \in Verb
  BY DEF Verb
<1>5. PICK r : r = Drop(<<>>)
  OBVIOUS
<1>6. r.do = "drop" /\ r.docs = <<>> /\ r.awaited = b
  BY <1>3, <1>5
<1>7. r \in Requests
  <2>1. <<>> \in Seq(Document)
    OBVIOUS
  <2>2. PICK none : none = <<>>
    OBVIOUS
  <2>3. r = [do |-> "drop", docs |-> none, awaited |-> b]
    BY <1>3, <1>5, <2>2
  <2>4. none \in Seq(Document)
    BY <2>1, <2>2
  <2>. QED
    BY <1>2, <1>4, <2>3, <2>4, Zenon DEF Requests
<1>8. r.awaited <=> driver = "mongodb"
  BY <1>2, <1>6, Zenon
<1>. QED
  BY <1>5, <1>6, <1>7, <1>8, Zenon

\* A step of a reader that stores nothing.
LEMMA QuietStep ==
  ASSUME StoreAssumption, Inv, NEW p \in Client, NEW x,
         UNCHANGED <<driver, listing, commit, events, waiting, counter, clock, marked, acked>>,
         call' = [call EXCEPT ![p] = x], ~Adds(p), x.pc # "adding",
         x.pc \in {"idle", "adding", "asked", "lookup", "clean", "repair", "scan", "answered"},
         journal' \subseteq CommitId, base' \in [Client -> Nat],
         faults' \in 0 .. MaxFaults, faults <= faults',
         late' \subseteq late \cup {Drop(<<>>)},
         ReadOK(p)'
  PROVE  Inv'
<1>1. call'[p] = x /\ \A q \in Client : q # p => call'[q] = call[q]
  BY DEF Inv, Setting
<1>2. call' = [q \in Client |-> call'[q]]
  BY DEF Inv, Setting
<1>3. Setting'
  BY <1>2 DEF Inv, Setting
<1>4. \A q \in Client : /\ Adds(q)' <=> Adds(q)
                        /\ Adds(q) => call'[q] = call[q]
  BY <1>1 DEF Adds
<1>5. Grows
  BY DEF Grows, Stored, Ids, Inv, TypeOK
<1>6. TypeOK'
  <2>1. \A q \in Client : call'[q].pc \in {"idle", "adding", "asked", "lookup", "clean",
                                           "repair", "scan", "answered"}
    BY <1>1 DEF Inv, TypeOK
  <2>. QED
    BY <2>1 DEF Inv, TypeOK, Stored, Ids
<1>7. CommitsOK'
  BY DEF Inv, CommitsOK, Counted
<1>8. EventsOK'
  BY DEF Inv, EventsOK, Genuine
<1>9. CountsOK'
  <2>1. Made' = Made
    BY DEF Made, Ids
  <2>2. {q \in Client : Waits(q)'} = {q \in Client : Waits(q)}
    BY <1>4 DEF Waits
  <2>3. \A q \in {r \in Client : Waits(r)} : Ids(commit[call[q].c])' = Ids(commit[call[q].c])
    BY <1>4 DEF Waits, Ids
  <2>4. Unclaimed' = Unclaimed
    BY <2>2, <2>3 DEF Unclaimed
  <2>. QED
    BY <2>1, <2>4 DEF Inv, CountsOK
<1>10. WritesOK'
  <2>1. counter' \in Nat
    BY DEF Inv, TypeOK
  <2>. QED
    BY <1>5, <2>1, WritersAfter DEF Inv
<1>11. LateOK'
  <2>1. Drop(<<>>) \in Requests /\ Drop(<<>>).do = "drop"
    BY DropIs
  <2>. QED
    BY <2>1 DEF Inv, LateOK
<1>12. CutOK'
  <2>1. Stored' = Stored
    BY DEF Stored, Ids
  <2>2. \A c : Whole(c) => Whole(c)'
    BY <2>1 DEF Whole, Ids
  <2>3. ASSUME driver \in AtOnce, NEW i \in DOMAIN events
        PROVE  /\ Whole(events[i].commit)'
               /\ \A q \in Client : Adds(q)' => call'[q].c # events[i].commit
    BY <1>4, <2>2, <2>3 DEF Inv, CutOK
  <2>. QED
    BY <2>1, <2>3 DEF Inv, CutOK
<1>13. NumbersOK'
  <2>1. \A q \in Client : /\ Claims(q)' <=> Claims(q)
                          /\ Claims(q) => Claimed(q)' = Claimed(q)
    BY <1>4 DEF Claims, Claimed
  <2>. QED
    BY <2>1 DEF Inv, NumbersOK
<1>14. ReadsOK'
  <2>1. \A d : Kept(d) => Kept(d)'
    BY DEF Kept
  <2>2. \A q \in Client : q # p => ReadOK(q)'
    BY <1>1, <1>5, <2>1, ReaderGrows DEF Inv, ReadsOK
  <2>. QED
    BY <2>2 DEF ReadsOK
<1>15. AckedIsStored'
  <2>1. Lossless' => Lossless
    BY DEF Inv, TypeOK, Lossless
  <2>2. Stored' = Stored
    BY DEF Stored, Ids
  <2>. QED
    BY <2>1, <2>2 DEF Inv, AckedIsStored
<1>16. RevisionIsUnique'
  BY DEF Inv, RevisionIsUnique
<1>. QED
  BY <1>3, <1>6, <1>7, <1>8, <1>9, <1>10, <1>11, <1>12, <1>13, <1>14, <1>15, <1>16 DEF Inv

-----------------------------------------------------------------------------
(* The steps of a reader *)

LEMMA SelectedType ==
  ASSUME StoreAssumption, NEW plan, NEW rows \in Seq(Document)
  PROVE  /\ Selected(plan, rows) \in Seq(Document)
         /\ ToSet(Selected(plan, rows)) \subseteq ToSet(rows)
<1>1. PICK I : I = {i \in DOMAIN rows : Wants(plan, rows[i])}
  OBVIOUS
<1>2. I \in SUBSET DOMAIN rows
  BY <1>1
<1>3. Chosen(rows, I) \in Seq(Document) /\ ToSet(Chosen(rows, I)) = {rows[i] : i \in I}
  BY <1>2, ChosenType
<1>4. {rows[i] : i \in I} \subseteq ToSet(rows)
  BY <1>2 DEF ToSet
<1>5. Selected(plan, rows) = Chosen(rows, I)
  BY <1>1 DEF Selected
<1>. QED
  BY <1>3, <1>4, <1>5

LEMMA AnsweredIs ==
  ASSUME NEW q, NEW found, NEW version
  PROVE  /\ Answered(q, found, version).pc = "answered"
         /\ Answered(q, found, version).q = q
BY DEF Answered

LEMMA AnsweredType ==
  ASSUME StoreAssumption, driver \in Driver, NEW q \in Queries, q.op = "getEventsByRevision",
         NEW found \in Seq(Document), NEW version
  PROVE  /\ Answered(q, found, version).docs \in Seq(Document)
         /\ ToSet(Answered(q, found, version).docs) \subseteq ToSet(found)
<1>1. /\ Plan(q).last = FALSE /\ Plan(q).sort \in Seq(Key)
      /\ Plan(q).skip \in Int /\ Plan(q).take \in Int
  BY RevisionPlans
<1>2. PICK s : s = Sorted(found, Plan(q).sort)
  OBVIOUS
<1>3. s \in Seq(Document) /\ ToSet(s) = ToSet(found)
  BY <1>1, <1>2, SortedType
<1>4. PICK cut : cut = Slice(s, Plan(q).skip, Plan(q).take)
  OBVIOUS
<1>5. cut \in Seq(Document) /\ ToSet(cut) \subseteq ToSet(found)
  BY <1>1, <1>3, <1>4, SliceType
<1>6. Answered(q, found, version).docs = IF Len(cut) < Plan(q).most THEN cut ELSE <<>>
  BY <1>1, <1>2, <1>4 DEF Answered
<1>7. <<>> \in Seq(Document) /\ ToSet(<<>>) = {}
  BY DEF ToSet
<1>. QED
  BY <1>5, <1>6, <1>7

LEMMA AskStep ==
  ASSUME StoreAssumption, Inv, NEW p \in Client, NEW q \in Queries, Ask(p, q)
  PROVE  Inv'
<1>1. PICK x : x = [pc |-> "asked", q |-> q, found |-> <<>>, cursor |-> <<>>, version |-> Version]
  OBVIOUS
<1>2. call' = [call EXCEPT ![p] = x] /\ call'[p] = x /\ call[p].pc = "idle"
  BY <1>1 DEF Ask, Inv, Setting
<1>3. x.pc = "asked" /\ x.q = q /\ x.found = <<>>
  BY <1>1
<1>4. /\ UNCHANGED <<driver, listing, commit, events, waiting, counter, clock, marked, acked>>
      /\ UNCHANGED <<journal, base, faults, late>>
  BY DEF Ask, Unread, store
<1>5. ReadOK(p)'
  <2>1. x = [pc |-> x.pc, q |-> x.q, found |-> x.found, cursor |-> x.cursor, version |-> x.version]
    BY <1>1
  <2>2. <<>> \in Seq(Document)
    OBVIOUS
  <2>. QED
    BY <1>2, <1>3, <2>1, <2>2 DEF ReadOK, Adds
<1>6. ~Adds(p)
  BY <1>2 DEF Adds
<1>7. faults \in 0 .. MaxFaults /\ journal \subseteq CommitId /\ base \in [Client -> Nat]
  BY DEF Inv, TypeOK
<1>8. faults <= faults'
  BY <1>4, <1>7
<1>. QED
  BY <1>2, <1>3, <1>4, <1>5, <1>6, <1>7, <1>8, QuietStep

\* The answer to a load of the stream, for whatever client.
LEMMA AnswerIsRead ==
  ASSUME NEW p \in Client, call'[p].pc = "answered", call'[p].q \in Queries,
         WholeStream(call'[p].q) => call'[p].docs \in Seq(Document)
  PROVE  ReadOK(p)'
BY DEF ReadOK, Adds

LEMMA FetchStep ==
  ASSUME StoreAssumption, Inv, NEW p \in Client, NEW q \in Queries, Fetch(p, q)
  PROVE  Inv'
<1>. DEFINE rows == Rows(Plan(q).from)
            done == Answered(q, Selected(Plan(q), rows), Version)
            journaled == /\ driver \in {"mongodb", "tingodb"}
                         /\ q.op = "getEventsByRevision"
                         /\ done.docs # <<>>
            Tear == [pc |-> IF Torn(q, done.docs) THEN "lookup" ELSE "clean",
                     q |-> q, docs |-> done.docs, version |-> Version]
<1>1. /\ UNCHANGED <<driver, listing, commit, events, waiting, counter, clock, marked, acked>>
      /\ UNCHANGED <<journal, base, faults>>
      /\ late' \subseteq late \cup {Drop(<<>>)}
      /\ call[p].pc \in {"idle", "asked"}
  BY DEF Fetch, Unread, store
<1>2. /\ faults' \in 0 .. MaxFaults /\ faults <= faults'
      /\ journal' \subseteq CommitId /\ base' \in [Client -> Nat]
      /\ ~Adds(p)
  BY <1>1 DEF Inv, TypeOK, Adds
<1>3. driver \in Driver /\ events \in Seq(Document)
  BY DEF Inv, Setting, EventsOK
<1>4. q.op = "getEventsByRevision" => done.docs \in Seq(Document) /\ ToSet(done.docs) \subseteq ToSet(events)
  <2>1. SUFFICES ASSUME q.op = "getEventsByRevision"
                 PROVE  done.docs \in Seq(Document) /\ ToSet(done.docs) \subseteq ToSet(events)
    OBVIOUS
  <2>2. rows = events
    BY <1>3, <2>1, RevisionPlans DEF Rows
  <2>3. PICK found : found = Selected(Plan(q), rows)
    OBVIOUS
  <2>4. found \in Seq(Document) /\ ToSet(found) \subseteq ToSet(events)
    BY <1>3, <2>2, <2>3, SelectedType
  <2>5. PICK v : v = Version
    OBVIOUS
  <2>6. /\ Answered(q, found, v).docs \in Seq(Document)
        /\ ToSet(Answered(q, found, v).docs) \subseteq ToSet(found)
    BY <1>3, <2>1, <2>4, AnsweredType
  <2>. QED
    BY <2>3, <2>4, <2>5, <2>6
<1>5. PICK x : /\ call' = [call EXCEPT ![p] = x]
               /\ (x = Tear /\ journaled) \/ x = done
  BY DEF Fetch
<1>6. call'[p] = x
  BY <1>5 DEF Inv, Setting
<1>7. CASE x = done
  <2>1. x.pc = "answered" /\ x.q = q
    BY <1>7, AnsweredIs
  <2>2. WholeStream(q) => x.docs \in Seq(Document)
    BY <1>4, <1>7 DEF WholeStream
  <2>3. ReadOK(p)'
    BY <1>6, <2>1, <2>2, AnswerIsRead
  <2>. QED
    BY <1>1, <1>2, <1>5, <2>1, <2>3, QuietStep
<1>8. CASE x = Tear /\ journaled
  <2>1. driver \in {"mongodb", "tingodb"} /\ q.op = "getEventsByRevision" /\ done.docs # <<>>
    BY <1>8
  <2>2. PICK docs \in Seq(Document) : docs = done.docs /\ docs # <<>> /\ ToSet(docs) \subseteq ToSet(events)
    BY <1>4, <2>1
  <2>3. PICK pc \in {"lookup", "clean"} : /\ pc = IF Torn(q, docs) THEN "lookup" ELSE "clean"
    OBVIOUS
  <2>4. PICK v : x = [pc |-> pc, q |-> q, docs |-> docs, version |-> v]
    BY <1>8, <2>2, <2>3, Zenon
  <2>5. x.pc = pc /\ x.q = q /\ x.docs = docs /\ x.version = v
    BY <2>4
  <2>6. pc = "lookup" => docs[Len(docs)].rest # 0
    BY <2>3 DEF Torn
  <2>7. Kept(docs[Len(docs)])'
    <3>1. Len(docs) \in DOMAIN docs
      BY <2>2
    <3>2. docs[Len(docs)] \in ToSet(events)
      BY <2>2, <3>1 DEF ToSet
    <3>. QED
      BY <1>1, <3>2 DEF Kept, ToSet
  <2>8. x = [pc |-> x.pc, q |-> x.q, docs |-> x.docs, version |-> x.version]
    BY <2>4, <2>5
  <2>9. ReadOK(p)'
    BY <1>1, <1>6, <2>1, <2>2, <2>3, <2>5, <2>6, <2>7, <2>8 DEF ReadOK, Adds
  <2>. QED
    BY <1>1, <1>2, <1>5, <2>3, <2>5, <2>9, QuietStep
<1>. QED
  BY <1>5, <1>7, <1>8

LEMMA DropTakes ==
  ASSUME StoreAssumption, Inv, NEW o \in Outcomes(Drop(<<>>)), Takes(Drop(<<>>), o)
  PROVE  /\ UNCHANGED <<events, waiting, counter>>
         /\ journal' \subseteq CommitId
         /\ faults' \in 0 .. MaxFaults /\ faults <= faults'
<1>1. PICK r \in Requests : r = Drop(<<>>) /\ r.do = "drop"
  BY DropIs
<1>2. faults \in 0 .. MaxFaults /\ journal \subseteq CommitId /\ MaxFaults \in Nat
  BY DEF Inv, TypeOK, Parameters
<1>3. o \in Outcomes(r) /\ Takes(r, o)
  BY <1>1
<1>4. o.fault \in {0, 1} /\ (o.fault = 1 => faults < MaxFaults)
  BY <1>2, <1>3, OutcomeCases
<1>5. faults' = faults + o.fault
  BY <1>3 DEF Takes
<1>6. UNCHANGED <<events, waiting, counter>>
  BY <1>1, <1>3 DEF Takes
<1>7. journal' = {} \/ journal' = journal
  BY <1>1, <1>3 DEF Takes
<1>8. journal' \subseteq CommitId
  BY <1>2, <1>7
<1>9. faults' \in 0 .. MaxFaults /\ faults <= faults'
  <2>1. CASE o.fault = 0
    BY <1>2, <1>5, <2>1
  <2>2. CASE o.fault = 1
    BY <1>2, <1>4, <1>5, <2>2
  <2>. QED
    BY <1>4, <2>1, <2>2
<1>. QED
  BY <1>6, <1>8, <1>9

LEMMA RejectedIs ==
  ASSUME NEW q
  PROVE  Rejected(q).pc = "answered" /\ Rejected(q).q = q /\ Rejected(q).docs \in Seq(Document)
<1>1. Rejected(q).pc = "answered" /\ Rejected(q).q = q /\ Rejected(q).docs = <<>>
  BY DEF Rejected
<1>2. <<>> \in Seq(Document)
  OBVIOUS
<1>. QED
  BY <1>1, <1>2

LEMMA CleanStep ==
  ASSUME StoreAssumption, Inv, NEW p \in Client, Clean(p)
  PROVE  Inv'
<1>1. PICK o \in Outcomes(Drop(<<>>)) :
        /\ Takes(Drop(<<>>), o)
        /\ call' = [call EXCEPT ![p] =
             IF o.ok THEN Answered(@.q, @.docs, @.version) ELSE Rejected(@.q)]
  BY DEF Clean
<1>2. /\ UNCHANGED <<driver, listing, commit, clock, marked, acked, base, late>>
      /\ call[p].pc = "clean"
  BY DEF Clean, Unread
<1>3. /\ UNCHANGED <<events, waiting, counter>>
      /\ journal' \subseteq CommitId
      /\ faults' \in 0 .. MaxFaults /\ faults <= faults'
  BY <1>1, DropTakes
<1>4. PICK q, docs, version : q = call[p].q /\ docs = call[p].docs /\ version = call[p].version
  OBVIOUS
<1>5. PICK x : /\ call' = [call EXCEPT ![p] = x]
               /\ x = Answered(q, docs, version) \/ x = Rejected(q)
  BY <1>1, <1>4
<1>6. call'[p] = x
  BY <1>5 DEF Inv, Setting
<1>7. q \in Queries /\ q.op = "getEventsByRevision" /\ docs \in Seq(Document)
  BY <1>2, <1>4 DEF Inv, ReadsOK, ReadOK, Adds
<1>8. x.pc = "answered" /\ x.q = q /\ x.docs \in Seq(Document)
  <2>1. driver \in Driver /\ <<>> \in Seq(Document)
    BY DEF Inv, Setting
  <2>2. Answered(q, docs, version).docs \in Seq(Document)
    BY <1>7, <2>1, AnsweredType
  <2>3. CASE x = Answered(q, docs, version)
    BY <2>2, <2>3, AnsweredIs
  <2>4. CASE x = Rejected(q)
    BY <2>4, RejectedIs
  <2>. QED
    BY <1>5, <2>3, <2>4
<1>9. ReadOK(p)'
  BY <1>6, <1>7, <1>8, AnswerIsRead
<1>10. ~Adds(p) /\ base' \in [Client -> Nat]
  BY <1>2 DEF Adds, Inv, TypeOK
<1>. QED
  BY <1>2, <1>3, <1>5, <1>8, <1>9, <1>10, QuietStep

LEMMA ReadFailsStep ==
  ASSUME StoreAssumption, Inv, NEW p \in Client, NEW q \in Queries, ReadFails(p, q)
  PROVE  Inv'
<1>1. /\ UNCHANGED <<driver, listing, commit, events, waiting, counter, clock, marked, acked>>
      /\ UNCHANGED <<journal, base, faults, late>>
      /\ call[p].pc \in {"idle", "asked", "scan", "lookup"}
  BY DEF ReadFails, Unread, store
<1>2. PICK x : /\ call' = [call EXCEPT ![p] = x]
               /\ x = Rejected(q) \/ x = [Rejected(q) EXCEPT !.ok = TRUE, !.version = Version]
  BY DEF ReadFails, Elasticsearch_searchFails
<1>3. x.pc = "answered" /\ x.q = q /\ x.docs \in Seq(Document)
  <2>1. CASE x = Rejected(q)
    BY <2>1, RejectedIs
  <2>2. CASE x = [Rejected(q) EXCEPT !.ok = TRUE, !.version = Version]
    <3>1. x.pc = "answered" /\ x.q = q /\ x.docs = Rejected(q).docs
      BY <2>2 DEF Rejected
    <3>. QED
      BY <3>1, RejectedIs
  <2>. QED
    BY <1>2, <2>1, <2>2
<1>4. call'[p] = x
  BY <1>2 DEF Inv, Setting
<1>5. ReadOK(p)'
  BY <1>3, <1>4, AnswerIsRead
<1>6. ~Adds(p) /\ base' \in [Client -> Nat] /\ journal' \subseteq CommitId
      /\ faults' \in 0 .. MaxFaults /\ faults <= faults' /\ late' \subseteq late \cup {Drop(<<>>)}
  BY <1>1 DEF Adds, Inv, TypeOK
<1>. QED
  BY <1>1, <1>2, <1>3, <1>5, <1>6, QuietStep

LEMMA LookupStep ==
  ASSUME StoreAssumption, Inv, NEW p \in Client, Lookup(p)
  PROVE  Inv'
<1>1. /\ UNCHANGED <<driver, listing, commit, events, waiting, counter, clock, marked, acked>>
      /\ UNCHANGED <<journal, base, faults, late>>
      /\ call[p].pc = "lookup"
  BY DEF Lookup, Unread, store
<1>2. PICK q, docs, version : q = call[p].q /\ docs = call[p].docs /\ version = call[p].version
  OBVIOUS
<1>. DEFINE Todo == <<Request("insert", Missing(docs)), Drop(<<>>)>>
<1>3. PICK x : /\ call' = [call EXCEPT ![p] = x]
               /\ \/ x = Answered(q, docs, version)
                  \/ x = Rejected(q)
                  \/ x = [pc |-> "repair", q |-> q, todo |-> Todo]
  BY <1>2 DEF Lookup
<1>4. call'[p] = x
  BY <1>3 DEF Inv, Setting
<1>5. /\ driver \in {"mongodb", "tingodb"} /\ q \in Queries /\ q.op = "getEventsByRevision"
      /\ docs \in Seq(Document) /\ docs # <<>>
      /\ Kept(docs[Len(docs)]) /\ docs[Len(docs)].rest # 0
  BY <1>1, <1>2 DEF Inv, ReadsOK, ReadOK, Adds
<1>6. /\ faults' \in 0 .. MaxFaults /\ faults <= faults'
      /\ journal' \subseteq CommitId /\ base' \in [Client -> Nat]
      /\ ~Adds(p)
  BY <1>1 DEF Inv, TypeOK, Adds
<1>7. CASE x = Answered(q, docs, version) \/ x = Rejected(q)
  <2>1. driver \in Driver /\ <<>> \in Seq(Document)
    BY DEF Inv, Setting
  <2>2. Answered(q, docs, version).docs \in Seq(Document)
    BY <1>5, <2>1, AnsweredType
  <2>3. x.pc = "answered" /\ x.q = q /\ x.docs \in Seq(Document)
    <3>1. CASE x = Answered(q, docs, version)
      BY <2>2, <3>1, AnsweredIs
    <3>2. CASE x = Rejected(q)
      BY <3>2, RejectedIs
    <3>. QED
      BY <1>7, <3>1, <3>2
  <2>4. ReadOK(p)'
    BY <1>4, <1>5, <2>3, AnswerIsRead
  <2>. QED
    BY <1>1, <1>3, <1>6, <2>3, <2>4, QuietStep
<1>8. CASE x = [pc |-> "repair", q |-> q, todo |-> Todo]
  <2>1. PICK d : d = docs[Len(docs)]
    OBVIOUS
  <2>2. PICK j \in DOMAIN events : events[j] = d
    BY <1>5, <2>1 DEF Kept
  <2>3. /\ d \in Document /\ d.commit \in CommitId /\ d.seq \in Nat
        /\ d.seq + 1 \in DOMAIN commit[d.commit] /\ d = commit[d.commit][d.seq + 1]
        /\ d.rest # 0
    <3>1. d \in Document
      BY <2>2 DEF Inv, EventsOK
    <3>2. d.seq + 1 \in DOMAIN commit[d.commit] /\ d = commit[d.commit][d.seq + 1]
      BY <1>5, <2>2 DEF Inv, EventsOK, Genuine
    <3>. QED
      BY <1>5, <2>1, <3>1, <3>2 DEF Document
  <2>4. PICK c \in CommitId, s \in Nat, n \in Nat :
          /\ c = d.commit /\ s = d.seq /\ n = Len(commit[c]) /\ commit[c] \in Seq(Document)
    <3>1. commit[d.commit] \in Seq(Document)
      BY <2>3 DEF Inv, CommitsOK
    <3>2. Len(commit[d.commit]) \in Nat
      BY <3>1
    <3>. QED
      BY <2>3, <3>1, <3>2
  <2>5. d.rest = n - (s + 1) /\ s + 1 \in 1 .. n
    <3>1. Counted(c, commit[c])
      BY DEF Inv, CommitsOK
    <3>2. s + 1 \in DOMAIN commit[c] /\ d = commit[c][s + 1]
      BY <2>3, <2>4
    <3>3. d.rest = Len(commit[c]) - (s + 1)
      BY <3>1, <3>2 DEF Counted
    <3>4. DOMAIN commit[c] = 1 .. n
      BY <2>4
    <3>5. d.rest = n - (s + 1)
      BY <2>4, <3>3
    <3>. QED
      BY <3>2, <3>4, <3>5
  <2>6. s + 2 \in 2 .. n
    BY <2>3, <2>5
  <2>7. Missing(docs) = SubSeq(commit[c], s + 2, n)
    <3>1. Missing(docs) = Slice(commit[c], s + 1, -1)
      BY <2>1, <2>4 DEF Missing
    <3>2. Max({0, s + 1}) + 1 = s + 2
      BY <2>4, MaxOfTwo
    <3>. QED
      BY <2>4, <3>1, <3>2 DEF Slice
  <2>8. <<c, s>> \in Stored
    BY <2>2, <2>4 DEF Stored, Ids, Id
  <2>9. PICK i \in 2 .. Len(commit[c]) : i = s + 2
    BY <2>4, <2>6
  <2>10. /\ <<c, i - 2>> \in Stored
         /\ Todo = <<Request("insert", SubSeq(commit[c], i, Len(commit[c]))), Drop(<<>>)>>
    <3>1. i - 2 = s
      BY <2>4, <2>9
    <3>. QED
      BY <2>4, <2>7, <2>8, <2>9, <3>1
  <2>11. x.pc = "repair" /\ x.q = q /\ x.todo = Todo
    BY <1>8
  <2>12. Stored' = Stored /\ commit' = commit /\ driver' = driver /\ Drop(<<>>)' = Drop(<<>>)
    BY <1>1 DEF Stored, Ids, Drop, Request
  <2>13. \E e \in CommitId : \E k \in 2 .. Len(commit'[e]) :
           /\ <<e, k - 2>> \in Stored'
           /\ x.todo = <<Request("insert", SubSeq(commit'[e], k, Len(commit'[e]))), Drop(<<>>)'>>
    BY <2>9, <2>10, <2>11, <2>12
  <2>14. x = [pc |-> x.pc, q |-> x.q, todo |-> x.todo]
    BY <1>8, <2>11
  <2>15. ReadOK(p)'
    BY <1>4, <1>5, <2>11, <2>12, <2>13, <2>14 DEF ReadOK, Adds
  <2>. QED
    BY <1>1, <1>3, <1>6, <2>11, <2>15, QuietStep
<1>. QED
  BY <1>3, <1>7, <1>8

\* The pages of a read by revision.
LEMMA PagePlans ==
  ASSUME StoreAssumption, NEW q \in Queries, q.op = "getEventsByRevision",
         driver \in {"dynamodb", "azuretable"}
  PROVE  Plan(q).key \in Seq(Key) /\ Plan(q).size = PageSize
<1>1. Plan(q) = GetEventsByRevision(q)
  BY DEF Plan
<1>2. <<"rev">> \in Seq(Key) /\ ById \in Seq(Key)
  BY DEF ById, Key
<1>3. CASE driver = "dynamodb"
  <2>1. Plan(q) = Dynamodb_getEventsByRevision(q)
    BY <1>1, <1>3 DEF GetEventsByRevision
  <2>2. Plan(q).key = <<"rev">> /\ Plan(q).size = PageSize
    BY <2>1 DEF Dynamodb_getEventsByRevision, Reading
  <2>. QED
    BY <1>2, <2>2
<1>4. CASE driver = "azuretable"
  <2>1. Plan(q) = Azuretable_getEventsByRevision(q)
    BY <1>1, <1>4 DEF GetEventsByRevision
  <2>2. Plan(q).key = ById /\ Plan(q).size = PageSize
    BY <2>1 DEF Azuretable_getEventsByRevision, Reading
  <2>. QED
    BY <1>2, <2>2
<1>. QED
  BY <1>3, <1>4

LEMMA ConcatFound ==
  ASSUME NEW s \in Seq(Document), NEW t \in Seq(Document)
  PROVE  s \o t \in Seq(Document)
BY ConcatProperties

LEMMA PageStep ==
  ASSUME StoreAssumption, Inv, NEW p \in Client, Page(p)
  PROVE  Inv'
<1>. DEFINE q     == call[p].q
            plan  == Plan(q)
            rows  == Sorted(Rows(plan.from), plan.key)
            rest  == IF call[p].cursor = <<>> THEN rows
                     ELSE Chosen(rows, {i \in DOMAIN rows : Less(plan.key, call[p].cursor[1], rows[i])})
            page  == Slice(rest, 0, plan.size)
            found == call[p].found \o Selected(plan, page)
<1>1. /\ UNCHANGED <<driver, listing, commit, events, waiting, counter, clock, marked, acked>>
      /\ UNCHANGED <<journal, base, faults, late>>
      /\ call[p].pc = "asked" /\ plan.pages = "keys"
      /\ \E last \in {page[Len(page)]} :
         call' = [call EXCEPT ![p] =
             IF Len(rest) > plan.size /\ Len(found) < plan.enough
             THEN [@ EXCEPT !.found = found, !.cursor = <<last>>]
             ELSE Answered(q, found, @.version)]
  BY DEF Page, Unread, store
<1>2. PICK v, cursor, old : v = call[p].version /\ cursor = call[p].cursor /\ old = call[p].found
  OBVIOUS
<1>3. /\ call[p] = [pc |-> "asked", q |-> q, found |-> old, cursor |-> cursor, version |-> v]
      /\ q \in Queries
      /\ WholeStream(q) => old \in Seq(Document)
  BY <1>1, <1>2 DEF Inv, ReadsOK, ReadOK, Adds
<1>4. WholeStream(q) => found \in Seq(Document)
  <2>1. SUFFICES ASSUME WholeStream(q)
                 PROVE  found \in Seq(Document)
    OBVIOUS
  <2>2. q.op = "getEventsByRevision" /\ driver \in Driver /\ events \in Seq(Document)
    BY <2>1 DEF WholeStream, Inv, Setting, EventsOK
  <2>3. driver \in {"dynamodb", "azuretable"} /\ plan.from = "events"
    BY <1>1, <1>3, <2>2, RevisionPlans
  <2>4. plan.key \in Seq(Key) /\ plan.size = PageSize /\ PageSize \in Int
    BY <1>3, <2>2, <2>3, PagePlans DEF Parameters
  <2>5. Rows(plan.from) = events
    BY <2>3 DEF Rows
  <2>6. PICK w : w = rows
    OBVIOUS
  <2>7. w \in Seq(Document)
    BY <2>2, <2>4, <2>5, <2>6, SortedType
  <2>8. PICK t : t = rest
    OBVIOUS
  <2>9. t \in Seq(Document)
    <3>1. PICK I : I = {i \in DOMAIN w : Less(plan.key, call[p].cursor[1], w[i])}
      OBVIOUS
    <3>2. I \in SUBSET DOMAIN w
      BY <3>1
    <3>3. Chosen(w, I) \in Seq(Document)
      BY <2>7, <3>2, ChosenType
    <3>4. t = w \/ t = Chosen(w, I)
      BY <2>6, <2>8, <3>1
    <3>. QED
      BY <2>7, <3>3, <3>4
  <2>10. PICK u : u = page
    OBVIOUS
  <2>11. u \in Seq(Document)
    BY <2>4, <2>8, <2>9, <2>10, SliceType
  <2>12. PICK g : g = Selected(plan, u)
    OBVIOUS
  <2>13. g \in Seq(Document)
    BY <2>11, <2>12, SelectedType
  <2>14. old \o g \in Seq(Document)
    BY <1>3, <2>1, <2>13, ConcatFound
  <2>. QED
    BY <1>2, <2>10, <2>12, <2>14
<1>5. PICK f, last, r : /\ f = found /\ r = q
                        /\ \/ call' = [call EXCEPT ![p] = [@ EXCEPT !.found = f, !.cursor = <<last>>]]
                           \/ call' = [call EXCEPT ![p] = Answered(r, f, @.version)]
  BY <1>1
<1>6. PICK x : /\ call' = [call EXCEPT ![p] = x]
               /\ \/ x = [call[p] EXCEPT !.found = f, !.cursor = <<last>>]
                  \/ x = Answered(r, f, v)
  BY <1>2, <1>5
<1>7. call'[p] = x
  BY <1>6 DEF Inv, Setting
<1>8. /\ faults' \in 0 .. MaxFaults /\ faults <= faults'
      /\ journal' \subseteq CommitId /\ base' \in [Client -> Nat]
      /\ ~Adds(p) /\ driver \in Driver
  BY <1>1 DEF Inv, TypeOK, Adds, Setting
<1>9. r \in Queries /\ (WholeStream(r) => f \in Seq(Document))
  BY <1>3, <1>4, <1>5
<1>10. CASE x = Answered(r, f, v)
  <2>1. x.pc = "answered" /\ x.q = r
    BY <1>10, AnsweredIs
  <2>2. WholeStream(r) => x.docs \in Seq(Document)
    BY <1>8, <1>9, <1>10, AnsweredType DEF WholeStream
  <2>3. ReadOK(p)'
    BY <1>7, <1>9, <2>1, <2>2, AnswerIsRead
  <2>. QED
    BY <1>1, <1>6, <1>8, <2>1, <2>3, QuietStep
<1>11. CASE x = [call[p] EXCEPT !.found = f, !.cursor = <<last>>]
  <2>1. x = [pc |-> "asked", q |-> r, found |-> f, cursor |-> <<last>>, version |-> v]
    <3>1. PICK w : w = <<last>>
      OBVIOUS
    <3>2. \A y : y = [pc |-> "asked", q |-> r, found |-> old, cursor |-> cursor, version |-> v] =>
            [y EXCEPT !.found = f, !.cursor = w]
              = [pc |-> "asked", q |-> r, found |-> f, cursor |-> w, version |-> v]
      <4>1. \A y : y = [pc |-> "asked", q |-> r, found |-> old, cursor |-> cursor, version |-> v] =>
              [y EXCEPT !.found = f]
                = [pc |-> "asked", q |-> r, found |-> f, cursor |-> cursor, version |-> v]
        OBVIOUS
      <4>2. \A y : y = [pc |-> "asked", q |-> r, found |-> f, cursor |-> cursor, version |-> v] =>
              [y EXCEPT !.cursor = w]
                = [pc |-> "asked", q |-> r, found |-> f, cursor |-> w, version |-> v]
        OBVIOUS
      <4>3. \A y : [y EXCEPT !.found = f, !.cursor = w] = [[y EXCEPT !.found = f] EXCEPT !.cursor = w]
        OBVIOUS
      <4>. QED
        BY <4>1, <4>2, <4>3, Zenon
    <3>3. call[p] = [pc |-> "asked", q |-> r, found |-> old, cursor |-> cursor, version |-> v]
      BY <1>3, <1>5
    <3>4. x = [call[p] EXCEPT !.found = f, !.cursor = w]
      BY <1>11, <3>1
    <3>5. x = [pc |-> "asked", q |-> r, found |-> f, cursor |-> w, version |-> v]
      BY <3>2, <3>3, <3>4, Zenon
    <3>. QED
      BY <3>1, <3>5
  <2>2. x.pc = "asked" /\ x.q = r /\ x.found = f /\ x.cursor = <<last>> /\ x.version = v
    BY <2>1
  <2>3. x = [pc |-> x.pc, q |-> x.q, found |-> x.found, cursor |-> x.cursor, version |-> x.version]
    BY <2>1, <2>2
  <2>4. ReadOK(p)'
    BY <1>7, <1>9, <2>2, <2>3 DEF ReadOK, Adds
  <2>. QED
    BY <1>1, <1>6, <1>8, <2>2, <2>4, QuietStep
<1>. QED
  BY <1>6, <1>10, <1>11

LEMMA Redis_scanBeginsStep ==
  ASSUME StoreAssumption, Inv, NEW p \in Client, Redis_scanBegins(p)
  PROVE  Inv'
<1>1. /\ UNCHANGED <<driver, listing, commit, events, waiting, counter, clock, marked, acked>>
      /\ UNCHANGED <<journal, base, faults, late>>
      /\ call[p].pc = "asked"
      /\ call' = [call EXCEPT ![p].pc = "scan", ![p].found = Rows(Plan(call[p].q).from)]
  BY DEF Redis_scanBegins, Unread, store
<1>2. PICK v, cursor, old, q, f :
        /\ v = call[p].version /\ cursor = call[p].cursor /\ old = call[p].found /\ q = call[p].q
        /\ f = Rows(Plan(q).from)
  OBVIOUS
<1>3. /\ call[p] = [pc |-> "asked", q |-> q, found |-> old, cursor |-> cursor, version |-> v]
      /\ q \in Queries
  BY <1>1, <1>2 DEF Inv, ReadsOK, ReadOK, Adds
<1>4. WholeStream(q) => f \in Seq(Document)
  <2>1. driver \in Driver /\ events \in Seq(Document)
    BY DEF Inv, Setting, EventsOK
  <2>. QED
    BY <1>2, <1>3, <2>1, RevisionPlans DEF Rows, WholeStream
<1>5. PICK x : /\ call' = [call EXCEPT ![p] = x]
               /\ x = [pc |-> "scan", q |-> q, found |-> f, cursor |-> cursor, version |-> v]
  <2>1. call' = [call EXCEPT ![p] = [[call[p] EXCEPT !.pc = "scan"] EXCEPT !.found = f]]
    BY <1>1, <1>2 DEF Inv, Setting
  <2>2. [[call[p] EXCEPT !.pc = "scan"] EXCEPT !.found = f]
          = [pc |-> "scan", q |-> q, found |-> f, cursor |-> cursor, version |-> v]
    <3>1. \A y : y = [pc |-> "asked", q |-> q, found |-> old, cursor |-> cursor, version |-> v] =>
            [y EXCEPT !.pc = "scan"]
              = [pc |-> "scan", q |-> q, found |-> old, cursor |-> cursor, version |-> v]
      OBVIOUS
    <3>2. \A y : y = [pc |-> "scan", q |-> q, found |-> old, cursor |-> cursor, version |-> v] =>
            [y EXCEPT !.found = f]
              = [pc |-> "scan", q |-> q, found |-> f, cursor |-> cursor, version |-> v]
      OBVIOUS
    <3>. QED
      BY <1>3, <3>1, <3>2, Zenon
  <2>. QED
    BY <2>1, <2>2
<1>6. call'[p] = x
  BY <1>5 DEF Inv, Setting
<1>7. x.pc = "scan" /\ x.q = q /\ x.found = f /\ x.cursor = cursor /\ x.version = v
  BY <1>5
<1>8. /\ faults' \in 0 .. MaxFaults /\ faults <= faults'
      /\ journal' \subseteq CommitId /\ base' \in [Client -> Nat]
      /\ ~Adds(p)
  BY <1>1 DEF Inv, TypeOK, Adds
<1>9. x = [pc |-> x.pc, q |-> x.q, found |-> x.found, cursor |-> x.cursor, version |-> x.version]
  BY <1>5, <1>7
<1>10. ReadOK(p)'
  BY <1>3, <1>4, <1>6, <1>7, <1>9 DEF ReadOK, Adds
<1>. QED
  BY <1>1, <1>5, <1>7, <1>8, <1>10, QuietStep

LEMMA Redis_scanEndsStep ==
  ASSUME StoreAssumption, Inv, NEW p \in Client, Redis_scanEnds(p)
  PROVE  Inv'
<1>1. /\ UNCHANGED <<driver, listing, commit, events, waiting, counter, clock, marked, acked>>
      /\ UNCHANGED <<journal, base, faults, late>>
      /\ call[p].pc = "scan"
  BY DEF Redis_scanEnds, Unread, store
<1>2. PICK v, q : v = call[p].version /\ q = call[p].q
  OBVIOUS
<1>3. \E ids : \E some, null :
        call' = [call EXCEPT ![p] =
          IF null = {} THEN Answered(q, Selected(Plan(q), Chosen(events, {i \in DOMAIN events : Id(events[i]) \in ids})), @.version)
          ELSE Rejected(q)]
  BY <1>2 DEF Redis_scanEnds
<1>4. PICK ids, x : /\ call' = [call EXCEPT ![p] = x]
                    /\ \/ x = Answered(q, Selected(Plan(q), Chosen(events, {i \in DOMAIN events : Id(events[i]) \in ids})), v)
                       \/ x = Rejected(q)
  BY <1>2, <1>3
<1>5. PICK f : f = Selected(Plan(q), Chosen(events, {i \in DOMAIN events : Id(events[i]) \in ids}))
  OBVIOUS
<1>6. f \in Seq(Document) /\ q \in Queries /\ driver \in Driver
  <2>1. events \in Seq(Document) /\ q \in Queries /\ driver \in Driver
    BY <1>1, <1>2 DEF Inv, EventsOK, Setting, ReadsOK, ReadOK, Adds
  <2>2. PICK I : I = {i \in DOMAIN events : Id(events[i]) \in ids}
    OBVIOUS
  <2>3. I \in SUBSET DOMAIN events
    BY <2>2
  <2>4. Chosen(events, I) \in Seq(Document)
    BY <2>1, <2>3, ChosenType
  <2>. QED
    BY <1>5, <2>1, <2>2, <2>4, SelectedType
<1>7. call'[p] = x
  BY <1>4 DEF Inv, Setting
<1>8. x.pc = "answered" /\ x.q = q /\ (WholeStream(q) => x.docs \in Seq(Document))
  <2>1. CASE x = Answered(q, f, v)
    BY <1>6, <2>1, AnsweredIs, AnsweredType DEF WholeStream
  <2>2. CASE x = Rejected(q)
    BY <2>2, RejectedIs
  <2>. QED
    BY <1>4, <1>5, <2>1, <2>2
<1>9. ReadOK(p)'
  BY <1>6, <1>7, <1>8, AnswerIsRead
<1>10. /\ faults' \in 0 .. MaxFaults /\ faults <= faults'
       /\ journal' \subseteq CommitId /\ base' \in [Client -> Nat]
       /\ ~Adds(p)
  BY <1>1 DEF Inv, TypeOK, Adds
<1>. QED
  BY <1>1, <1>4, <1>8, <1>9, <1>10, QuietStep

LEMMA FiniteMax ==
  ASSUME NEW S \in SUBSET Int, IsFiniteSet(S), S # {}
  PROVE  \E m \in S : \A x \in S : x <= m
<1>. DEFINE Down(x) == {y \in S : y <= x}
<1>1. \A x \in S : IsFiniteSet(Down(x)) /\ Cardinality(Down(x)) \in 0 .. Cardinality(S)
  <2>1. SUFFICES ASSUME NEW x \in S
                 PROVE  IsFiniteSet(Down(x)) /\ Cardinality(Down(x)) \in 0 .. Cardinality(S)
    OBVIOUS
  <2>2. PICK T : T = Down(x)
    OBVIOUS
  <2>3. T \in SUBSET S
    BY <2>2
  <2>4. IsFiniteSet(T) /\ Cardinality(T) <= Cardinality(S)
    BY <2>3, FS_Subset
  <2>5. Cardinality(T) \in Nat /\ Cardinality(S) \in Nat
    BY <2>4, FS_CardinalityType
  <2>. QED
    BY <2>2, <2>4, <2>5
<1>2. PICK n \in Nat : n = Cardinality(S)
  BY FS_CardinalityType
<1>3. PICK C : C = {Cardinality(Down(x)) : x \in S}
  OBVIOUS
<1>4. C \in SUBSET (0 .. n) /\ C # {}
  BY <1>1, <1>2, <1>3
<1>5. PICK k \in C : \A c \in C : c <= k
  BY <1>4, HasGreatest
<1>6. PICK m \in S : k = Cardinality(Down(m))
  BY <1>3
<1>7. SUFFICES ASSUME NEW z \in S, ~(z <= m)
               PROVE  FALSE
  BY <1>6
<1>8. PICK A, B : A = Down(m) /\ B = Down(z)
  OBVIOUS
<1>9. IsFiniteSet(A) /\ IsFiniteSet(B) /\ Cardinality(A) = k /\ Cardinality(B) <= k /\ k \in Nat
  <2>1. IsFiniteSet(A) /\ IsFiniteSet(B) /\ Cardinality(A) = k
    BY <1>1, <1>6, <1>8
  <2>2. Cardinality(B) \in C
    BY <1>3, <1>7, <1>8
  <2>3. Cardinality(B) <= k
    BY <1>5, <2>2
  <2>. QED
    BY <2>1, <2>3, FS_CardinalityType
<1>10. z \notin A /\ A \cup {z} \subseteq B
  <2>1. z \notin A
    BY <1>7, <1>8
  <2>2. z \in B
    BY <1>7, <1>8
  <2>3. ASSUME NEW y \in A
        PROVE  y \in B
    <3>1. y \in S /\ y <= m
      BY <1>8
    <3>2. y \in Int /\ m \in Int /\ z \in Int
      BY <3>1
    <3>3. y <= z
      BY <1>7, <3>1, <3>2
    <3>. QED
      BY <1>8, <3>1, <3>3
  <2>. QED
    BY <2>1, <2>2, <2>3
<1>11. Cardinality(A \cup {z}) = k + 1
  BY <1>9, <1>10, FS_AddElement
<1>12. Cardinality(A \cup {z}) <= Cardinality(B)
  BY <1>9, <1>10, FS_Subset
<1>13. Cardinality(B) \in Nat
  BY <1>9, FS_CardinalityType
<1>. QED
  BY <1>9, <1>11, <1>12, <1>13

LEMMA NextRevisionType ==
  ASSUME NEW docs \in Seq(Document)
  PROVE  NextRevision(docs) \in Nat
<1>1. PICK n \in Nat : n = Len(docs) /\ DOMAIN docs = 1 .. n
  OBVIOUS
<1>2. PICK S : S = {-1} \cup {docs[i].rev : i \in DOMAIN docs}
  OBVIOUS
<1>3. IsFiniteSet(S)
  <2>1. PICK f : f = [i \in 1 .. n |-> docs[i].rev]
    OBVIOUS
  <2>2. PICK R : R = {docs[i].rev : i \in DOMAIN docs}
    OBVIOUS
  <2>3. f \in Surjection(1 .. n, R)
    BY <1>1, <2>1, <2>2 DEF Surjection
  <2>4. IsFiniteSet(1 .. n)
    BY FS_Interval
  <2>5. IsFiniteSet(R)
    BY <2>3, <2>4, FS_Surjection
  <2>6. IsFiniteSet({-1})
    BY FS_Singleton
  <2>. QED
    BY <1>2, <2>2, <2>5, <2>6, FS_Union
<1>4. S \subseteq Nat \cup {-1} /\ -1 \in S
  <2>1. \A i \in DOMAIN docs : docs[i] \in Document
    BY <1>1
  <2>2. \A i \in DOMAIN docs : docs[i].rev \in Nat
    BY <2>1 DEF Document
  <2>. QED
    BY <1>2, <2>2
<1>5. S \in SUBSET Int /\ S # {}
  BY <1>4
<1>6. PICK m \in S : \A x \in S : x <= m
  BY <1>3, <1>5, FiniteMax
<1>7. Max(S) \in S
  <2>1. \A x \in S : m >= x
    BY <1>5, <1>6
  <2>. QED
    BY <1>6, <2>1 DEF Max
<1>8. NextRevision(docs) = 1 + Max(S)
  BY <1>2 DEF NextRevision
<1>9. PICK k \in Nat \cup {-1} : k = Max(S)
  BY <1>4, <1>7
<1>. QED
  BY <1>8, <1>9

LEMMA DoneStep ==
  ASSUME StoreAssumption, Inv, NEW p \in Client, Done(p)
  PROVE  Inv'
<1>1. /\ UNCHANGED <<driver, listing, commit, events, waiting, counter, clock, marked, acked>>
      /\ UNCHANGED <<journal, faults, late>>
      /\ call[p].pc = "answered"
      /\ call' = [call EXCEPT ![p] = Idle]
  BY DEF Done, store
<1>2. base' \in [Client -> Nat]
  <2>1. base \in [Client -> Nat]
    BY DEF Inv, TypeOK
  <2>2. \/ base' = base
        \/ WholeStream(call[p].q) /\ base' = [base EXCEPT ![p] = NextRevision(call[p].docs)]
    BY DEF Done
  <2>3. ASSUME WholeStream(call[p].q)
        PROVE  NextRevision(call[p].docs) \in Nat
    <3>1. call[p].docs \in Seq(Document)
      BY <1>1, <2>3 DEF Inv, ReadsOK, ReadOK
    <3>. QED
      BY <3>1, NextRevisionType
  <2>. QED
    BY <2>1, <2>2, <2>3
<1>3. PICK x : x = Idle
  OBVIOUS
<1>4. x.pc = "idle" /\ call'[p] = x
  BY <1>1, <1>3 DEF Idle, Inv, Setting
<1>5. ReadOK(p)'
  BY <1>4 DEF ReadOK, Adds
<1>6. /\ faults' \in 0 .. MaxFaults /\ faults <= faults'
      /\ journal' \subseteq CommitId /\ ~Adds(p)
  BY <1>1 DEF Inv, TypeOK, Adds
<1>. QED
  BY <1>1, <1>2, <1>3, <1>4, <1>5, <1>6, QuietStep

-----------------------------------------------------------------------------
(* setEventToDispatched *)

LEMMA MarkStep ==
  ASSUME StoreAssumption, Inv, NEW c \in CommitId, NEW i \in DOMAIN commit[c], Mark(<<c, i - 1>>)
  PROVE  Inv'
<1>1. UNCHANGED <<driver, listing, commit, events, journal, counter, clock, late,
                  acked, faults, base, call>>
  BY DEF Mark
<1>2. PICK id : id = <<c, i - 1>>
  OBVIOUS
<1>3. id \in CommitId \X Nat
  <2>1. commit[c] \in Seq(Document)
    BY DEF Inv, CommitsOK
  <2>2. i \in 1 .. Len(commit[c]) /\ Len(commit[c]) \in Nat
    BY <2>1
  <2>3. i - 1 \in Nat
    BY <2>2
  <2>. QED
    BY <1>2, <2>3
<1>4. /\ waiting' = SetEventToDispatched(id).left
      /\ marked' = IF SetEventToDispatched(id).ok THEN marked \cup {id} ELSE marked
  BY <1>2 DEF Mark
<1>5. /\ waiting' \in {waiting, waiting \ {id}}
      /\ waiting' # waiting => id \in marked' \/ (driver = "elasticsearch" /\ id \notin Stored)
  <2>1. driver \in Driver
    BY DEF Inv, Setting
  <2>2. CASE driver = "mongodb"
    BY <1>4, <2>2 DEF SetEventToDispatched, Mongodb_setEventToDispatched
  <2>3. CASE driver = "tingodb"
    BY <1>4, <2>3 DEF SetEventToDispatched, Tingodb_setEventToDispatched
  <2>4. CASE driver = "inmemory"
    BY <1>4, <2>4 DEF SetEventToDispatched, Inmemory_setEventToDispatched
  <2>5. CASE driver = "redis"
    BY <1>4, <2>5 DEF SetEventToDispatched, Redis_setEventToDispatched
  <2>6. CASE driver = "dynamodb"
    BY <1>4, <2>6 DEF SetEventToDispatched, Dynamodb_setEventToDispatched
  <2>7. CASE driver = "azuretable"
    BY <1>4, <2>7 DEF SetEventToDispatched, Azuretable_setEventToDispatched
  <2>8. CASE driver = "elasticsearch"
    BY <1>4, <2>8 DEF SetEventToDispatched, Elasticsearch_setEventToDispatched
  <2>. QED
    BY <2>1, <2>2, <2>3, <2>4, <2>5, <2>6, <2>7, <2>8 DEF Driver
<1>6. Stored' = Stored
  BY <1>1 DEF Stored, Ids
<1>7. waiting \cup marked \subseteq waiting' \cup marked'
  <2>1. marked \subseteq marked'
    BY <1>4
  <2>2. driver = "elasticsearch" /\ id \notin Stored => id \notin waiting
    BY DEF Inv, AckedIsStored
  <2>. QED
    BY <1>5, <2>1, <2>2
<1>8. Grows
  BY <1>1, <1>6, <1>7 DEF Grows, Inv, TypeOK
<1>9. TypeOK'
  <2>1. waiting' \cup marked' \subseteq CommitId \X Nat
    BY <1>3, <1>4, <1>5 DEF Inv, TypeOK
  <2>. QED
    BY <1>1, <1>6, <2>1 DEF Inv, TypeOK
<1>10. Setting' /\ CommitsOK' /\ EventsOK'
  BY <1>1 DEF Inv, Setting, CommitsOK, Counted, EventsOK, Genuine
<1>11. CountsOK'
  BY <1>1 DEF Inv, CountsOK, Made, Ids, Unclaimed, Waits, Adds
<1>12. WritesOK'
  <2>1. counter' \in Nat
    BY <1>1 DEF Inv, TypeOK
  <2>2. ASSUME NEW q \in Client, Adds(q)'
        PROVE  WriteOK(q)'
    <3>1. WriteOK(q) /\ Adds(q) /\ TypeOK /\ call'[q] = call[q]
      BY <1>1, <2>2 DEF Inv, WritesOK, Adds
    <3>2. Progress(q)'
      BY <1>8, <2>1, <3>1, ProgressGrows
    <3>. QED
      BY <1>1, <3>1, <3>2 DEF WriteOK, Adds
  <2>. QED
    BY <2>2 DEF WritesOK, WriteOK
<1>13. LateOK'
  BY <1>1 DEF Inv, LateOK
<1>14. CutOK'
  BY <1>1, <1>6 DEF Inv, CutOK, Whole, Ids, Adds
<1>15. NumbersOK'
  <2>1. \A q \in Client : Claims(q)' = Claims(q) /\ Claimed(q)' = Claimed(q)
    BY <1>1 DEF Claims, Claimed, Adds
  <2>. QED
    BY <1>1, <2>1 DEF Inv, NumbersOK
<1>16. ReadsOK'
  <2>1. \A d : Kept(d) => Kept(d)'
    BY <1>1 DEF Kept
  <2>2. CommitsOK /\ \A q \in Client : ReadOK(q) /\ call'[q] = call[q]
    BY <1>1 DEF Inv, ReadsOK
  <2>3. \A q \in Client : ReadOK(q)'
    BY <1>8, <2>1, <2>2, ReaderGrows
  <2>. QED
    BY <2>3 DEF ReadsOK
<1>17. AckedIsStored'
  <2>1. Lossless' <=> Lossless
    BY <1>1 DEF Lossless
  <2>2. driver # "azuretable" => waiting' \subseteq Stored'
    BY <1>5, <1>6 DEF Inv, AckedIsStored
  <2>. QED
    BY <1>1, <1>6, <1>7, <2>1, <2>2 DEF Inv, AckedIsStored
<1>18. RevisionIsUnique'
  BY <1>1 DEF Inv, RevisionIsUnique
<1>. QED
  BY <1>9, <1>10, <1>11, <1>12, <1>13, <1>14, <1>15, <1>16, <1>17, <1>18 DEF Inv

-----------------------------------------------------------------------------
(* A request takes effect *)

Stores == {"insert", "mset", "put", "bulk"}
New(r, o) == IF r.do \in Stores THEN o.docs ELSE <<>>

LEMMA IdsOf ==
  ASSUME NEW s \in Seq(Document), NEW t \in Seq(Document), ToSet(s) \subseteq ToSet(t)
  PROVE  Ids(s) \subseteq Ids(t)
BY DEF Ids, ToSet

LEMMA IdsType ==
  ASSUME StoreAssumption, NEW s \in Seq(Document)
  PROVE  Ids(s) \subseteq CommitId \X Nat
<1>1. \A i \in DOMAIN s : s[i] \in Document
  OBVIOUS
<1>2. \A d \in Document : Id(d) \in CommitId \X Nat
  BY DEF Document, Id
<1>. QED
  BY <1>1, <1>2 DEF Ids

LEMMA StoreStep ==
  ASSUME StoreAssumption, Inv, NEW r \in Requests, NEW o \in Outcomes(r), Takes(r, o),
         UNCHANGED <<driver, listing, commit, marked>>,
         r.do \in Stores => \A i \in DOMAIN r.docs : Genuine(r.docs[i]),
         r.do = "journal" => r.docs # <<>>,
         r.do = "list" /\ driver # "azuretable" => Ids(r.docs) \subseteq Stored
  PROVE  /\ New(r, o) \in Seq(Document) /\ events' = events \o New(r, o)
         /\ Stored' = Stored \cup Ids(New(r, o))
         /\ EventsOK' /\ Grows
         /\ \A d : Kept(d) => Kept(d)'
         /\ Stored' \cup waiting' \subseteq CommitId \X Nat
         /\ journal' \subseteq CommitId
         /\ counter' \in Nat /\ (r.do # "incr" => counter' = counter)
         /\ faults' \in 0 .. MaxFaults /\ faults <= faults'
         /\ driver # "azuretable" => waiting' \subseteq Stored'
         /\ o.ok /\ r.do # "bulk" => Finished(r)'
<1>1. /\ faults \in 0 .. MaxFaults /\ MaxFaults \in Nat /\ journal \subseteq CommitId
      /\ Stored \cup waiting \cup marked \subseteq CommitId \X Nat /\ counter \in Nat
      /\ events \in Seq(Document)
  BY DEF Inv, TypeOK, Parameters, EventsOK
<1>2. /\ o.docs \in Seq(Document) /\ ToSet(o.docs) \subseteq ToSet(r.docs)
      /\ o.fault \in {0, 1} /\ (o.fault = 1 => faults < MaxFaults)
      /\ o.ok /\ r.do # "bulk" => o.docs = r.docs
  BY <1>1, OutcomeCases
<1>3. r.docs \in Seq(Document) /\ r.do \in Verb
  BY DEF Requests
<1>4. PICK new \in Seq(Document) : new = New(r, o) /\ (r.do \in Stores => new = o.docs)
                                   /\ (r.do \notin Stores => new = <<>>)
  <2>1. CASE r.do \in Stores
    BY <1>2, <2>1 DEF New
  <2>2. CASE r.do \notin Stores
    <3>1. New(r, o) = <<>> /\ <<>> \in Seq(Document)
      BY <2>2 DEF New
    <3>. QED
      BY <2>2, <3>1
  <2>. QED
    BY <2>1, <2>2
<1>5. events' = events \o new
  <2>1. r.do \notin Stores => events' = events
    BY DEF Takes, Stores
  <2>2. r.do \in Stores => events' = events \o o.docs
    BY DEF Takes, Stores
  <2>3. events \o <<>> = events
    BY <1>1, ConcatEmptySeq
  <2>. QED
    BY <1>4, <2>1, <2>2, <2>3
<1>6. /\ events' \in Seq(Document)
      /\ Ids(events') = Ids(events) \cup Ids(new)
      /\ \A i \in DOMAIN events : events'[i] = events[i] /\ i \in DOMAIN events'
      /\ \A i \in DOMAIN events' : i \in DOMAIN events \/ i - Len(events) \in DOMAIN new
      /\ \A i \in DOMAIN new : events'[Len(events) + i] = new[i]
  <2>1. PICK e \in Seq(Document) : e = events
    BY <1>1
  <2>2. PICK w : w = e \o new
    OBVIOUS
  <2>3. w \in Seq(Document)
    BY <2>2, IdsAppend
  <2>4. Ids(w) = Ids(e) \cup Ids(new)
    BY <2>2, IdsAppend
  <2>5. \A i \in DOMAIN e : w[i] = e[i] /\ i \in DOMAIN w
    BY <2>2, IdsAppend
  <2>6. \A i \in DOMAIN w : i \in DOMAIN e \/ i - Len(e) \in DOMAIN new
    BY <2>2, IdsAppend
  <2>7. \A i \in DOMAIN new : w[Len(e) + i] = new[i]
    BY <2>2, IdsAppend
  <2>8. w = events'
    BY <1>5, <2>1, <2>2
  <2>. QED
    BY <2>1, <2>3, <2>4, <2>5, <2>6, <2>7, <2>8
<1>7. Stored' = Stored \cup Ids(new)
  BY <1>6 DEF Stored, Ids
<1>8. EventsOK'
  <2>1. ASSUME NEW i \in DOMAIN events'
        PROVE  Genuine(events[i])'
    <3>1. CASE i \in DOMAIN events
      BY <1>6, <3>1 DEF Inv, EventsOK, Genuine
    <3>2. CASE i - Len(events) \in DOMAIN new
      <4>1. PICK j \in DOMAIN new : i = Len(events) + j
        <5>1. i \in Int /\ Len(events) \in Int
          BY <1>1, <1>6
        <5>. QED
          BY <3>2, <5>1
      <4>2. events'[i] = new[j]
        BY <1>6, <4>1
      <4>3. r.do \in Stores
        BY <1>4, <4>1
      <4>4. new[j] \in ToSet(r.docs)
        BY <1>2, <1>4, <4>3 DEF ToSet
      <4>5. PICK k \in DOMAIN r.docs : new[j] = r.docs[k]
        BY <4>4 DEF ToSet
      <4>6. Genuine(new[j])
        BY <4>3, <4>5
      <4>. QED
        BY <4>2, <4>6 DEF Genuine
    <3>. QED
      BY <1>6, <2>1, <3>1, <3>2
  <2>. QED
    BY <1>6, <2>1 DEF EventsOK
<1>9. \A d : Kept(d) => Kept(d)'
  BY <1>6 DEF Kept
<1>10. /\ Ids(new) \subseteq CommitId \X Nat
       /\ Ids(o.docs) \subseteq CommitId \X Nat /\ Ids(o.docs) \subseteq Ids(r.docs)
  BY <1>2, <1>3, <1>4, IdsType, IdsOf
<1>11. /\ waiting \subseteq waiting' /\ waiting' \subseteq waiting \cup Ids(o.docs)
       /\ r.do \in {"insert", "mset", "list", "bulk"} => waiting' = waiting \cup Ids(o.docs)
       /\ r.do \notin {"insert", "mset", "list", "bulk"} => waiting' = waiting
  BY DEF Takes
<1>12. Stored' \cup waiting' \subseteq CommitId \X Nat
  BY <1>1, <1>7, <1>10, <1>11
<1>13. journal' \subseteq CommitId
  <2>1. r.do = "journal" => r.docs[1].commit \in CommitId
    <3>1. r.do = "journal" => 1 \in DOMAIN r.docs
      BY <1>3
    <3>2. r.do = "journal" => r.docs[1] \in Document
      BY <1>3, <3>1
    <3>. QED
      BY <3>2 DEF Document
  <2>2. \/ journal' = journal \/ journal' = {}
        \/ r.do = "journal" /\ journal' = journal \cup {r.docs[1].commit}
    BY DEF Takes
  <2>. QED
    BY <1>1, <2>1, <2>2
<1>14. counter' \in Nat /\ (r.do # "incr" => counter' = counter) /\ counter <= counter'
  <2>1. Len(r.docs) \in Nat
    BY <1>3
  <2>2. counter' = counter \/ (r.do = "incr" /\ counter' = counter + Len(r.docs))
    BY DEF Takes
  <2>. QED
    BY <1>1, <2>1, <2>2
<1>15. faults' \in 0 .. MaxFaults /\ faults <= faults'
  <2>1. faults' = faults + o.fault
    BY DEF Takes
  <2>2. CASE o.fault = 0
    BY <1>1, <2>1, <2>2
  <2>3. CASE o.fault = 1
    BY <1>1, <1>2, <2>1, <2>3
  <2>. QED
    BY <1>2, <2>2, <2>3
<1>16. Grows
  BY <1>7, <1>11, <1>14 DEF Grows
<1>17. driver # "azuretable" => waiting' \subseteq Stored'
  <2>1. SUFFICES ASSUME driver # "azuretable"
                 PROVE  waiting' \subseteq Stored'
    OBVIOUS
  <2>2. waiting \subseteq Stored
    BY <2>1 DEF Inv, AckedIsStored
  <2>3. CASE r.do = "list"
    BY <1>7, <1>10, <1>11, <2>1, <2>2, <2>3
  <2>4. CASE r.do # "list"
    <3>1. r.do \in {"insert", "mset", "bulk"} => new = o.docs
      BY <1>4 DEF Stores
    <3>. QED
      BY <1>7, <1>11, <2>2, <2>4, <3>1
  <2>. QED
    BY <2>3, <2>4
<1>18. ASSUME o.ok, r.do # "bulk"
       PROVE  Finished(r)'
  <2>1. o.docs = r.docs
    BY <1>2, <1>18
  <2>2. r.do \in {"insert", "put"} => new = r.docs
    BY <1>4, <2>1 DEF Stores
  <2>3. Ids(r.docs)' = Ids(r.docs)
    BY DEF Ids
  <2>4. r.do \in {"insert", "put"} => Ids(r.docs) \subseteq Stored'
    BY <1>7, <2>2
  <2>5. r.do \in {"insert", "list"} => Ids(r.docs) \subseteq waiting' \cup marked'
    BY <1>11, <2>1
  <2>. QED
    BY <2>3, <2>4, <2>5 DEF Finished
<1>. QED
  BY <1>4, <1>5, <1>7, <1>8, <1>9, <1>12, <1>13, <1>14, <1>15, <1>16, <1>17, <1>18

-----------------------------------------------------------------------------
(* A client calls addEvents *)

LEMMA CommitIds ==
  ASSUME NEW c, NEW docs \in Seq(Document),
         \A i \in DOMAIN docs : docs[i].commit = c /\ docs[i].seq = i - 1
  PROVE  /\ \A id : id \in Ids(docs) <=> \E k \in 0 .. Len(docs) - 1 : id = <<c, k>>
         /\ IsFiniteSet(Ids(docs)) /\ Cardinality(Ids(docs)) = Len(docs)
<1>1. PICK n \in Nat : n = Len(docs) /\ DOMAIN docs = 1 .. n
  OBVIOUS
<1>2. \A i \in 1 .. n : Id(docs[i]) = <<c, i - 1>>
  BY <1>1 DEF Id
<1>3. ASSUME NEW id
      PROVE  id \in Ids(docs) <=> \E k \in 0 .. n - 1 : id = <<c, k>>
  <2>1. id \in Ids(docs) <=> \E i \in 1 .. n : id = <<c, i - 1>>
    BY <1>1, <1>2 DEF Ids
  <2>2. ASSUME NEW i \in 1 .. n, id = <<c, i - 1>>
        PROVE  \E k \in 0 .. n - 1 : id = <<c, k>>
    <3>1. i - 1 \in 0 .. n - 1
      BY <1>1
    <3>. QED
      BY <2>2, <3>1
  <2>3. ASSUME NEW k \in 0 .. n - 1, id = <<c, k>>
        PROVE  \E i \in 1 .. n : id = <<c, i - 1>>
    <3>1. k + 1 \in 1 .. n /\ (k + 1) - 1 = k
      BY <1>1
    <3>2. id = <<c, (k + 1) - 1>>
      BY <2>3, <3>1
    <3>. QED
      BY <3>1, <3>2
  <2>. QED
    BY <2>1, <2>2, <2>3
<1>4. PICK S : S = Ids(docs)
  OBVIOUS
<1>5. PICK f : f = [i \in 1 .. n |-> Id(docs[i])]
  OBVIOUS
<1>6. f \in Bijection(1 .. n, S)
  <2>1. f \in [1 .. n -> S] /\ \A id \in S : \E i \in 1 .. n : f[i] = id
    BY <1>1, <1>4, <1>5 DEF Ids
  <2>2. \A i, j \in 1 .. n : f[i] = f[j] => i = j
    <3>1. SUFFICES ASSUME NEW i \in 1 .. n, NEW j \in 1 .. n, f[i] = f[j]
                   PROVE  i = j
      OBVIOUS
    <3>2. <<c, i - 1>> = <<c, j - 1>>
      BY <1>2, <1>5, <3>1
    <3>3. i - 1 = j - 1
      BY <3>2
    <3>. QED
      BY <3>3
  <2>. QED
    BY <2>1, <2>2 DEF Bijection, Injection, Surjection, IsInjective
<1>7. IsFiniteSet(S) /\ Cardinality(S) = n
  <2>1. ExistsBijection(1 .. n, S)
    BY <1>6 DEF ExistsBijection
  <2>2. Cardinality(S) = n
    BY <2>1, FS_CountingElements
  <2>3. IsFiniteSet(1 .. n)
    BY FS_Interval
  <2>. QED
    BY <2>1, <2>2, <2>3, FS_Bijection
<1>. QED
  BY <1>1, <1>3, <1>4, <1>7

LEMMA AllRequests ==
  ASSUME driver \in Driver, NEW docs \in Seq(Document), docs # <<>>,
         NEW all, all = AddEvents(docs)
  PROVE  /\ all \in Seq(Requests) /\ all # <<>>
         /\ driver = "redis" => all[1].do = "incr"
<1>1. CASE driver = "redis"
  <2>1. all = <<Request("incr", docs), Request("mset", docs)>>
    BY <1>1, BatchRequests
  <2>2. "incr" \in Verb /\ "mset" \in Verb
    BY DEF Verb
  <2>3. PICK a \in Requests, b \in Requests :
          a = Request("incr", docs) /\ b = Request("mset", docs) /\ a.do = "incr"
    BY <2>2, RequestIs
  <2>4. all = <<a, b>>
    BY <2>1, <2>3
  <2>. QED
    BY <2>3, <2>4
<1>2. CASE driver \in {"mongodb", "tingodb"}
  BY <1>2, MongodbRequests DEF Batches
<1>3. CASE driver \in {"inmemory", "elasticsearch"}
  BY <1>3, BatchRequests DEF Batches
<1>4. CASE driver \in {"dynamodb", "azuretable"}
  BY <1>4, SingleRequests DEF Singles
<1>. QED
  BY <1>1, <1>2, <1>3, <1>4 DEF Driver

\* The events of a new commit.
NewEvents(c, n, first, at) == [i \in 1 .. n |-> Doc(c, i - 1, n, first, at[i])]

FreshDocs(docs, c, n, first) ==
  /\ docs \in Seq(Document) /\ docs # <<>> /\ Len(docs) = n
  /\ \A i \in DOMAIN docs :
       /\ docs[i].commit = c /\ docs[i].seq = i - 1
       /\ docs[i].rest = Len(docs) - i
       /\ docs[i].rev = docs[1].rev + i - 1
  /\ docs[1].rev = first

LEMMA NewDocs ==
  ASSUME NEW c \in CommitId, NEW n \in Nat \ {0}, NEW first \in Nat, NEW at \in [1 .. n -> Nat],
         NEW docs, docs = NewEvents(c, n, first, at)
  PROVE  FreshDocs(docs, c, n, first)
<1>1. ASSUME NEW i \in 1 .. n
      PROVE  /\ docs[i] \in Document
             /\ docs[i].commit = c /\ docs[i].seq = i - 1 /\ docs[i].rest = n - i
             /\ docs[i].rev = first + i - 1
  <2>1. PICK a \in Nat, b \in Nat, e \in Nat, t \in Nat :
          a = i - 1 /\ b = first + (i - 1) /\ e = n - 1 - (i - 1) /\ t = at[i]
    <3>1. PICK t \in Nat : t = at[i]
      OBVIOUS
    <3>2. i - 1 \in Nat /\ first + (i - 1) \in Nat /\ n - 1 - (i - 1) \in Nat
      OBVIOUS
    <3>. QED
      BY <3>1, <3>2
  <2>2. b = first + i - 1 /\ e = n - i
    BY <2>1
  <2>3. docs[i] = [commit |-> c, seq |-> a, rev |-> b, stamp |-> t, rest |-> e]
    BY <2>1 DEF NewEvents, Doc
  <2>4. docs[i] \in Document
    BY <2>3 DEF Document
  <2>5. /\ docs[i].commit = c /\ docs[i].seq = a /\ docs[i].rest = e
        /\ docs[i].rev = b
    BY <2>3
  <2>. QED
    BY <2>1, <2>2, <2>4, <2>5
<1>3. \A i \in 1 .. n : docs[i] \in Document
  BY <1>1
<1>4. docs \in [1 .. n -> Document]
  BY <1>3 DEF NewEvents
<1>5. docs \in Seq(Document) /\ Len(docs) = n /\ DOMAIN docs = 1 .. n
  BY <1>4
<1>6. docs # <<>>
  BY <1>5
<1>7. \A i \in 1 .. n : /\ docs[i].commit = c /\ docs[i].seq = i - 1 /\ docs[i].rest = n - i
                        /\ docs[i].rev = first + i - 1
  BY <1>1
<1>8. 1 \in 1 .. n /\ docs[1].rev = first
  <2>1. 1 \in 1 .. n /\ first + 1 - 1 = first
    OBVIOUS
  <2>. QED
    BY <1>7, <2>1
<1>. QED
  BY <1>5, <1>6, <1>7, <1>8 DEF FreshDocs

\* The clock goes on by one at most, whatever it stamps the events with.
LEMMA StampsAre ==
  ASSUME StoreAssumption, clock \in Nat, NEW n \in Nat \ {0}, NEW at \in Stamps(n)
  PROVE  /\ at \in [1 .. n -> Nat]
         /\ Max({clock, at[n]}) \in Nat /\ Max({clock, at[n]}) <= clock + 1
<1>1. PICK low \in Nat : low = Max({0, clock - Skew})
  <2>1. Skew \in Nat
    BY DEF Parameters
  <2>2. Max({0, clock - Skew}) = IF 0 < clock - Skew THEN clock - Skew ELSE 0
    BY <2>1, MaxOfTwo
  <2>. QED
    BY <2>1, <2>2
<1>2. at \in [1 .. n -> low .. clock + 1]
  BY <1>1 DEF Stamps
<1>3. PICK t \in low .. clock + 1 : t = at[n]
  BY <1>2
<1>4. t \in Nat /\ t <= clock + 1
  BY <1>1, <1>3
<1>5. PICK m \in Nat : m = Max({clock, t}) /\ (m = t \/ m = clock)
  <2>1. Max({clock, t}) = clock \/ Max({clock, t}) = t
    BY <1>4, MaxOfTwo
  <2>. QED
    BY <1>4, <2>1
<1>6. m <= clock + 1
  BY <1>4, <1>5
<1>7. at \in [1 .. n -> Nat]
  <2>1. \A i \in 1 .. n : at[i] \in Nat
    <3>1. \A x \in low .. clock + 1 : x \in Nat
      BY <1>1
    <3>2. \A i \in 1 .. n : at[i] \in low .. clock + 1
      BY <1>2
    <3>. QED
      BY <3>1, <3>2
  <2>2. at = [i \in 1 .. n |-> at[i]]
    BY <1>2
  <2>. QED
    BY <2>1, <2>2
<1>. QED
  BY <1>3, <1>5, <1>6, <1>7

\* What a client makes of a new commit, and what that leaves as it was.
LEMMA AddStep ==
  ASSUME StoreAssumption, Inv, NEW p \in Client, NEW c \in CommitId, NEW n \in Sizes, Add(p, c, n)
  PROVE  Inv'
<1>1. n \in Nat \ {0} /\ MaxDocs \in Nat
  BY DEF Parameters
<1>2. /\ call[p].pc = "idle" /\ commit[c] = <<>>
      /\ Cardinality(Made) + n <= MaxDocs
      /\ UNCHANGED <<driver, listing, events, waiting, journal, counter, late, marked, acked,
                     faults, base>>
  BY DEF Add, store
<1>3. base[p] \in Nat /\ clock \in Nat /\ ~Adds(p)
  BY <1>1, <1>2 DEF Inv, TypeOK, Adds
<1>4. PICK at \in Stamps(n) :
        LET docs == [i \in 1..n |-> Doc(c, i - 1, n, base[p], at[i])]
        IN  /\ clock' = Max({clock, at[n]})
            /\ commit' = [commit EXCEPT ![c] = docs]
            /\ call' = [call EXCEPT ![p] = [pc |-> "adding", c |-> c, todo |-> AddEvents(docs)]]
  BY DEF Add
<1>5. PICK docs : docs = [i \in 1..n |-> Doc(c, i - 1, n, base[p], at[i])]
  OBVIOUS
<1>6. PICK all : all = AddEvents(docs)
  OBVIOUS
<1>7. PICK x : x = [pc |-> "adding", c |-> c, todo |-> all]
  OBVIOUS
<1>8. /\ clock' = Max({clock, at[n]}) /\ commit' = [commit EXCEPT ![c] = docs]
      /\ call' = [call EXCEPT ![p] = x]
  BY <1>4, <1>5, <1>6, <1>7
<1>9. at \in [1 .. n -> Nat] /\ clock' \in Nat /\ clock' <= clock + 1
  BY <1>1, <1>3, <1>8, StampsAre
<1>10. /\ docs \in Seq(Document) /\ docs # <<>> /\ Len(docs) = n
       /\ \A i \in DOMAIN docs :
            /\ docs[i].commit = c /\ docs[i].seq = i - 1
            /\ docs[i].rest = Len(docs) - i
            /\ docs[i].rev = docs[1].rev + i - 1
  <2>1. PICK first \in Nat : first = base[p]
    BY <1>3
  <2>2. PICK m \in Nat \ {0} : m = n
    BY <1>1
  <2>3. PICK u \in [1 .. m -> Nat] : u = at
    BY <1>9, <2>2
  <2>4. docs = NewEvents(c, m, first, u)
    BY <1>5, <2>1, <2>2, <2>3 DEF NewEvents
  <2>5. FreshDocs(docs, c, m, first)
    BY <2>4, NewDocs
  <2>. QED
    BY <2>2, <2>5, Zenon DEF FreshDocs
<1>11. /\ all \in Seq(Requests) /\ all # <<>>
       /\ driver = "redis" => all[1].do = "incr"
  <2>1. driver \in Driver
    BY DEF Inv, Setting
  <2>. QED
    BY <1>6, <1>10, <2>1, AllRequests
<1>12. /\ commit'[c] = docs /\ \A e \in CommitId \ {c} : commit'[e] = commit[e]
       /\ commit' \in [CommitId -> Seq(Document)]
       /\ commit \in [CommitId -> Seq(Document)]
  BY <1>8, <1>10 DEF Inv, CommitsOK
<1>13. /\ x.pc = "adding" /\ x.c = c /\ x.todo = all
       /\ call'[p] = x /\ \A q \in Client : q # p => call'[q] = call[q]
       /\ call' = [q \in Client |-> call'[q]]
  BY <1>7, <1>8 DEF Inv, Setting
<1>14. c \notin acked
  BY <1>2 DEF Inv, Setting
<1>15. Stored' = Stored
  BY <1>2 DEF Stored, Ids
<1>16. Grows
  BY <1>2, <1>12, <1>15 DEF Grows, Inv, TypeOK
<1>17. Setting'
  <2>1. \A e \in acked : e # c /\ e \in CommitId /\ commit[e] # <<>>
    BY <1>14 DEF Inv, Setting, TypeOK
  <2>. QED
    BY <1>2, <1>12, <1>13, <2>1 DEF Inv, Setting
<1>18. CommitsOK'
  <2>1. Counted(c, docs)'
    BY <1>10 DEF Counted
  <2>2. ASSUME NEW e \in CommitId, e # c
        PROVE  Counted(e, commit[e])'
    <3>1. PICK s \in Seq(Document) : s = commit[e]
      BY <1>12
    <3>2. commit'[e] = s
      BY <1>12, <2>2, <3>1
    <3>4. Counted(e, s)
      BY <3>1 DEF Inv, CommitsOK
    <3>5. Counted(e, s)'
      BY <3>4 DEF Counted
    <3>. QED
      BY <3>2, <3>5 DEF Counted
  <2>. QED
    BY <1>12, <2>1, <2>2 DEF CommitsOK, Counted
<1>19. \A i \in DOMAIN events : /\ events[i].commit \in CommitId /\ events[i].commit # c
                                /\ commit'[events[i].commit] = commit[events[i].commit]
  <2>1. SUFFICES ASSUME NEW i \in DOMAIN events
                 PROVE  events[i].commit \in CommitId /\ events[i].commit # c
    BY <1>12
  <2>2. events[i] \in Document /\ Genuine(events[i])
    BY DEF Inv, EventsOK
  <2>3. events[i].commit \in CommitId /\ commit[events[i].commit] # <<>>
    BY <2>2 DEF Document, Genuine
  <2>. QED
    BY <1>2, <2>3
<1>20. EventsOK'
  BY <1>2, <1>19 DEF Inv, EventsOK, Genuine
<1>21. /\ \A id : id \in Ids(docs) <=> \E k \in 0 .. n - 1 : id = <<c, k>>
       /\ IsFiniteSet(Ids(docs)) /\ Cardinality(Ids(docs)) = n
  <2>1. /\ docs \in Seq(Document) /\ Len(docs) = n
        /\ \A i \in DOMAIN docs : docs[i].commit = c /\ docs[i].seq = i - 1
    BY <1>10
  <2>2. /\ \A id : id \in Ids(docs) <=> \E k \in 0 .. Len(docs) - 1 : id = <<c, k>>
        /\ IsFiniteSet(Ids(docs)) /\ Cardinality(Ids(docs)) = Len(docs)
    BY <2>1, CommitIds
  <2>. QED
    BY <2>1, <2>2
<1>22. Made' = Made \cup Ids(docs) /\ Made \cap Ids(docs) = {}
  <2>1. Ids(commit[c]) = {}
    BY <1>2 DEF Ids
  <2>2. \A e \in CommitId : Ids(commit[e])' = IF e = c THEN Ids(docs) ELSE Ids(commit[e])
    BY <1>12 DEF Ids
  <2>3. Made' = Made \cup Ids(docs)
    BY <2>1, <2>2 DEF Made
  <2>4. SUFFICES ASSUME NEW id \in Made, id \in Ids(docs)
                 PROVE  FALSE
    BY <2>3
  <2>5. PICK e \in CommitId : id \in Ids(commit[e])
    BY DEF Made
  <2>6. e # c
    BY <2>1, <2>5
  <2>7. PICK s \in Seq(Document) : s = commit[e]
    BY <1>12
  <2>10. \A i \in DOMAIN s : s[i].commit = e /\ s[i].seq = i - 1
    BY <2>7 DEF Inv, CommitsOK, Counted
  <2>11. id \in Ids(s)
    BY <2>5, <2>7
  <2>8. \E k \in 0 .. Len(s) - 1 : id = <<e, k>>
    BY <2>10, <2>11, CommitIds
  <2>9. \E k \in 0 .. n - 1 : id = <<c, k>>
    BY <1>21, <2>4
  <2>. QED
    BY <2>6, <2>8, <2>9
<1>23. CountsOK'
  <2>1. /\ IsFiniteSet(Made) /\ Cardinality(Made) \in Nat
        /\ clock \in 0 .. Cardinality(Made)
        /\ counter \in 0 .. Cardinality(Made \ Unclaimed)
    BY FS_CardinalityType DEF Inv, CountsOK
  <2>2. IsFiniteSet(Made') /\ Cardinality(Made') = Cardinality(Made) + n
    <3>1. /\ IsFiniteSet(Made \cup Ids(docs))
          /\ Cardinality(Made \cup Ids(docs))
               = Cardinality(Made) + Cardinality(Ids(docs)) - Cardinality(Made \cap Ids(docs))
      BY <1>21, <2>1, FS_Union
    <3>2. Cardinality(Made \cap Ids(docs)) = 0
      BY <1>22, FS_EmptySet
    <3>. QED
      BY <1>1, <1>21, <1>22, <2>1, <3>1, <3>2
  <2>3. Unclaimed' \subseteq Unclaimed \cup Ids(docs)
    <3>1. SUFFICES ASSUME NEW q \in Client, Waits(q)'
                   PROVE  Ids(commit[call[q].c])' \subseteq Unclaimed \cup Ids(docs)
      BY DEF Unclaimed
    <3>2. CASE q = p
      BY <1>12, <1>13, <3>2 DEF Ids
    <3>3. CASE q # p
      <4>1. call'[q] = call[q] /\ Waits(q)
        BY <1>2, <1>13, <3>1, <3>3 DEF Waits, Adds
      <4>2. call[q].c \in CommitId /\ commit[call[q].c] # <<>>
        BY <4>1 DEF Waits, Inv, WritesOK, WriteOK
      <4>3. commit'[call'[q].c] = commit[call[q].c]
        BY <1>2, <1>12, <4>1, <4>2
      <4>. QED
        BY <4>1, <4>3 DEF Unclaimed, Ids
    <3>. QED
      BY <3>2, <3>3
  <2>4. Made \ Unclaimed \subseteq Made' \ Unclaimed'
    BY <1>22, <2>3
  <2>5. IsFiniteSet(Made' \ Unclaimed')
    BY <2>2, FS_Difference
  <2>6. /\ Cardinality(Made \ Unclaimed) <= Cardinality(Made' \ Unclaimed')
        /\ Cardinality(Made \ Unclaimed) \in Nat /\ Cardinality(Made' \ Unclaimed') \in Nat
    BY <2>4, <2>5, FS_Subset, FS_CardinalityType
  <2>7. clock' \in 0 .. Cardinality(Made')
    BY <1>1, <1>3, <1>9, <2>1, <2>2
  <2>8. counter' \in 0 .. Cardinality(Made' \ Unclaimed')
    BY <1>2, <2>1, <2>6
  <2>9. Cardinality(Made') <= MaxDocs
    BY <1>2, <2>2
  <2>. QED
    BY <2>2, <2>7, <2>8, <2>9 DEF CountsOK
<1>24. TypeOK'
  <2>1. clock' \in 0 .. MaxDocs
    <3>1. /\ Cardinality(Made') \in Nat /\ Cardinality(Made') <= MaxDocs
          /\ clock' \in 0 .. Cardinality(Made')
      BY <1>23, FS_CardinalityType DEF CountsOK
    <3>. QED
      BY <1>1, <3>1
  <2>2. \A q \in Client : call'[q].pc \in {"idle", "adding", "asked", "lookup", "clean",
                                           "repair", "scan", "answered"}
    BY <1>13 DEF Inv, TypeOK
  <2>. QED
    BY <1>2, <1>15, <2>1, <2>2 DEF Inv, TypeOK
<1>25. WritesOK'
  <2>1. Progress(p)'
    <3>1. AllOf(p)' = all
      BY <1>2, <1>6, <1>12, <1>13 DEF AllOf, AddEvents, Dynamodb_addEvents
    <3>2. call'[p].todo = all /\ driver' = driver
      BY <1>2, <1>13
    <3>3. CASE driver = "redis"
      BY <3>1, <3>2, <3>3 DEF Progress
    <3>4. CASE driver = "azuretable"
      <4>1. all \in Seq(ToSet(all))
        BY <1>11 DEF ToSet
      <4>. QED
        BY <1>11, <3>1, <3>2, <3>4, <4>1 DEF Progress
    <3>5. CASE driver \notin {"redis", "azuretable"}
      <4>1. 1 \in DOMAIN all /\ SubSeq(all, 1, Len(all)) = all
        BY <1>11, SubSeqFull
      <4>2. \A j \in 1 .. 1 - 1 : Finished(AllOf(p)[j])'
        OBVIOUS
      <4>. QED
        BY <3>1, <3>2, <3>5, <4>1, <4>2 DEF Progress
    <3>. QED
      BY <3>3, <3>4, <3>5
  <2>2. \A r \in Client : Adds(r) /\ call[r].c = c => r = p
    BY <1>2 DEF Inv, WritesOK, WriteOK
  <2>3. /\ x = [pc |-> "adding", c |-> x.c, todo |-> x.todo]
        /\ x.c \in CommitId /\ commit'[x.c] # <<>> /\ x.c \notin acked'
    BY <1>2, <1>7, <1>10, <1>12, <1>13, <1>14
  <2>4. \A r \in Client : Adds(r) /\ call[r].c = x.c => r = p
    BY <1>13, <2>2
  <2>5. counter' \in Nat
    BY <1>1, <1>2 DEF Inv, TypeOK
  <2>6. acked' \subseteq acked \cup IF Adds(p) THEN {call[p].c} ELSE {}
    BY <1>2
  <2>7. Setting /\ TypeOK /\ WritesOK
    BY DEF Inv
  <2>. QED
    BY <1>8, <1>16, <2>1, <2>3, <2>4, <2>5, <2>6, <2>7, WritersAfter
<1>26. LateOK'
  <2>1. \A e \in CommitId : \A i \in DOMAIN commit[e] : commit'[e] = commit[e]
    BY <1>2, <1>12
  <2>2. ASSUME NEW r \in late
        PROVE  \/ r.do = "drop"
               \/ /\ driver = "azuretable" /\ r.do \in {"put", "list"}
                  /\ \E e \in CommitId : \E i \in DOMAIN commit'[e] : r.docs = <<commit'[e][i]>>
    <3>1. SUFFICES ASSUME r.do # "drop"
                   PROVE  /\ driver = "azuretable" /\ r.do \in {"put", "list"}
                          /\ \E e \in CommitId : \E i \in DOMAIN commit'[e] :
                               r.docs = <<commit'[e][i]>>
      OBVIOUS
    <3>2. /\ driver = "azuretable" /\ r.do \in {"put", "list"}
          /\ \E e \in CommitId : \E i \in DOMAIN commit[e] : r.docs = <<commit[e][i]>>
      BY <2>2, <3>1 DEF Inv, LateOK
    <3>3. PICK e \in CommitId : \E i \in DOMAIN commit[e] : r.docs = <<commit[e][i]>>
      BY <3>2
    <3>4. commit'[e] = commit[e]
      BY <2>1, <3>3
    <3>5. \E k \in DOMAIN commit'[e] : r.docs = <<commit'[e][k]>>
      BY <3>3, <3>4
    <3>. QED
      BY <3>2, <3>5
  <2>. QED
    BY <1>2, <2>2 DEF Inv, LateOK
<1>27. CutOK'
  <2>1. ASSUME driver \in AtOnce, NEW i \in DOMAIN events
        PROVE  /\ Whole(events[i].commit)'
               /\ \A q \in Client : Adds(q)' => call'[q].c # events[i].commit
    <3>1. /\ Whole(events[i].commit)
          /\ \A q \in Client : Adds(q) => call[q].c # events[i].commit
      BY <2>1 DEF Inv, CutOK
    <3>2. Whole(events[i].commit)'
      BY <1>2, <1>15, <1>19, <3>1 DEF Whole, Ids
    <3>3. \A q \in Client : Adds(q)' => call'[q].c # events[i].commit
      BY <1>13, <1>19, <3>1 DEF Adds
    <3>. QED
      BY <3>2, <3>3
  <2>. QED
    BY <1>2, <1>15, <2>1 DEF Inv, CutOK
<1>28. NumbersOK'
  <2>1. SUFFICES ASSUME driver = "redis"
                 PROVE  NumbersOK'
    BY <1>2 DEF NumbersOK
  <2>2. \A q \in Client : /\ Claims(q)' => q # p /\ Claims(q)
                          /\ Claims(q)' => Claimed(q)' = Claimed(q)
    <3>1. ~Claims(p)'
      BY <1>11, <1>13, <2>1 DEF Claims
    <3>2. \A q \in Client : q # p => Claims(q)' = Claims(q) /\ Claimed(q)' = Claimed(q)
      BY <1>13 DEF Claims, Claimed, Adds
    <3>. QED
      BY <3>1, <3>2
  <2>. QED
    BY <1>2, <2>1, <2>2 DEF Inv, NumbersOK
<1>29. ReadsOK'
  <2>1. \A d : Kept(d) => Kept(d)'
    BY <1>2 DEF Kept
  <2>2. \A q \in Client : q # p => ReadOK(q)'
    BY <1>13, <1>16, <2>1, ReaderGrows DEF Inv, ReadsOK
  <2>3. ReadOK(p)'
    BY <1>13 DEF ReadOK, Adds
  <2>. QED
    BY <2>2, <2>3 DEF ReadsOK
<1>30. AckedIsStored'
  <2>1. Lossless' <=> Lossless
    BY <1>2 DEF Lossless
  <2>2. \A e \in acked : commit'[e] = commit[e]
    BY <1>12, <1>14 DEF Inv, TypeOK
  <2>. QED
    BY <1>2, <1>15, <2>1, <2>2 DEF Inv, AckedIsStored
<1>31. RevisionIsUnique'
  BY <1>2 DEF Inv, RevisionIsUnique
<1>. QED
  BY <1>17, <1>18, <1>20, <1>23, <1>24, <1>25, <1>26, <1>27, <1>28, <1>29, <1>30, <1>31 DEF Inv

-----------------------------------------------------------------------------
(* The steps that change what is stored *)

\* A request took effect: what is left to show of the step.
LEMMA StoredStep ==
  ASSUME StoreAssumption, Inv, NEW r \in Requests, NEW o \in Outcomes(r), Takes(r, o),
         UNCHANGED <<driver, listing, commit, clock, marked, base>>,
         r.do \in Stores => \A i \in DOMAIN r.docs : Genuine(r.docs[i]),
         r.do = "journal" => r.docs # <<>>,
         r.do = "list" /\ driver # "azuretable" => Ids(r.docs) \subseteq Stored,
         call' = [q \in Client |-> call'[q]],
         \A q \in Client : call'[q].pc \in {"idle", "adding", "asked", "lookup", "clean",
                                            "repair", "scan", "answered"},
         acked \subseteq acked',
         \A c \in acked' \ acked :
           /\ c \in CommitId /\ commit[c] # <<>>
           /\ Lossless' => \A i \in DOMAIN commit[c] :
                /\ <<c, i - 1>> \in Stored'
                /\ listing => <<c, i - 1>> \in waiting' \cup marked',
         WritesOK', LateOK', CutOK', NumbersOK', ReadsOK', CountsOK', RevisionIsUnique'
  PROVE  Inv'
<1>1. EventsOK' /\ Grows
  BY StoreStep
<1>2. Stored' \cup waiting' \subseteq CommitId \X Nat
  BY StoreStep
<1>3. journal' \subseteq CommitId /\ faults' \in 0 .. MaxFaults /\ faults <= faults'
  BY StoreStep
<1>4. driver # "azuretable" => waiting' \subseteq Stored'
  BY StoreStep
<1>5. Setting'
  <2>1. \A c \in acked' : commit[c] # <<>>
    BY DEF Inv, Setting
  <2>. QED
    BY <2>1 DEF Inv, Setting
<1>6. CommitsOK'
  BY DEF Inv, CommitsOK, Counted
<1>7. TypeOK'
  <2>1. counter' \in 0 .. MaxDocs
    <3>1. /\ IsFiniteSet(Made') /\ Cardinality(Made') <= MaxDocs
          /\ counter' \in 0 .. Cardinality(Made' \ Unclaimed')
      BY DEF CountsOK
    <3>2. /\ Cardinality(Made' \ Unclaimed') <= Cardinality(Made')
          /\ Cardinality(Made' \ Unclaimed') \in Nat /\ Cardinality(Made') \in Nat
      BY <3>1, FS_Subset, FS_CardinalityType, FS_Difference
    <3>3. MaxDocs \in Nat
      BY DEF Parameters
    <3>. QED
      BY <3>1, <3>2, <3>3
  <2>2. waiting' \cup marked' \subseteq CommitId \X Nat
    BY <1>2 DEF Inv, TypeOK
  <2>3. journal' \cup acked' \subseteq CommitId
    BY <1>3 DEF Inv, TypeOK
  <2>. QED
    BY <1>2, <1>3, <2>1, <2>2, <2>3 DEF Inv, TypeOK
<1>8. AckedIsStored'
  <2>1. SUFFICES ASSUME Lossless', NEW c \in acked', NEW i \in DOMAIN commit[c]
                 PROVE  /\ <<c, i - 1>> \in Stored'
                        /\ listing => <<c, i - 1>> \in waiting' \cup marked'
    BY <1>4 DEF AckedIsStored
  <2>2. CASE c \in acked
    <3>1. Lossless
      BY <1>3, <2>1 DEF Lossless, Inv, TypeOK
    <3>2. /\ <<c, i - 1>> \in Stored
          /\ listing => <<c, i - 1>> \in waiting \cup marked
      BY <2>2, <3>1 DEF Inv, AckedIsStored
    <3>. QED
      BY <1>1, <3>2 DEF Grows
  <2>3. CASE c \notin acked
    BY <2>1, <2>3
  <2>. QED
    BY <2>2, <2>3
<1>. QED
  BY <1>1, <1>5, <1>6, <1>7, <1>8 DEF Inv

\* A step that claims no revisions leaves the counts as they are.
LEMMA CountsKept ==
  ASSUME Inv, UNCHANGED <<commit, clock, counter>>,
         \A q \in Client : Waits(q)' => Waits(q) /\ call'[q].c = call[q].c
  PROVE  CountsOK'
<1>1. Made' = Made
  BY DEF Made, Ids
<1>2. Unclaimed' \subseteq Unclaimed
  <2>1. \A q \in Client : Waits(q)' => Ids(commit[call[q].c])' = Ids(commit[call[q].c])
    BY DEF Ids
  <2>. QED
    BY <2>1 DEF Unclaimed
<1>3. /\ IsFiniteSet(Made) /\ counter \in 0 .. Cardinality(Made \ Unclaimed)
  BY DEF Inv, CountsOK
<1>4. Made \ Unclaimed \subseteq Made' \ Unclaimed' /\ IsFiniteSet(Made' \ Unclaimed')
  BY <1>1, <1>2, <1>3, FS_Difference
<1>5. /\ Cardinality(Made \ Unclaimed) <= Cardinality(Made' \ Unclaimed')
      /\ Cardinality(Made \ Unclaimed) \in Nat /\ Cardinality(Made' \ Unclaimed') \in Nat
  BY <1>4, FS_Subset, FS_CardinalityType
<1>6. counter' \in 0 .. Cardinality(Made' \ Unclaimed')
  BY <1>3, <1>5
<1>. QED
  BY <1>1, <1>6 DEF Inv, CountsOK

\* What a client does with the outcome of request r when rest is left to send.
Going(p, rest) == [pc |-> "adding", c |-> call[p].c, todo |-> rest]
Effect(p, r, o, rest) ==
  /\ Takes(r, o)
  /\ UNCHANGED <<driver, listing, commit, clock, marked, base>>
  /\ IF o.ok /\ \E j \in DOMAIN rest : rest[j].awaited
     THEN /\ call' = [call EXCEPT ![p] = Going(p, rest)]
          /\ UNCHANGED <<acked, late>>
     ELSE /\ call' = [call EXCEPT ![p] = Idle]
          /\ acked' = IF o.ok THEN acked \cup {call[p].c} ELSE acked
          /\ late' = IF o.ok \/ driver = "azuretable" THEN late \cup ToSet(rest) ELSE late

\* What a writer does before its step.
LEMMA WriterIs ==
  ASSUME Inv, NEW p \in Client, Adds(p)
  PROVE  /\ call[p] = Going(p, call[p].todo) /\ Progress(p)
         /\ call[p].c \in CommitId /\ call[p].c \notin acked
         /\ commit[call[p].c] \in Seq(Document) /\ commit[call[p].c] # <<>>
         /\ Counted(call[p].c, commit[call[p].c])
BY DEF Inv, WritesOK, WriteOK, Going, CommitsOK

LEMMA GoingOn ==
  ASSUME Inv, NEW p \in Client, Adds(p), NEW rest,
         call' = [call EXCEPT ![p].todo = rest]
  PROVE  call' = [call EXCEPT ![p] = Going(p, rest)]
<1>1. PICK c, todo : c = call[p].c /\ todo = call[p].todo
  OBVIOUS
<1>2. call[p] = [pc |-> "adding", c |-> c, todo |-> todo]
  BY <1>1, WriterIs DEF Going
<1>3. [[pc |-> "adding", c |-> c, todo |-> todo] EXCEPT !.todo = rest]
        = [pc |-> "adding", c |-> c, todo |-> rest]
  OBVIOUS
<1>4. [call[p] EXCEPT !.todo = rest] = Going(p, rest)
  BY <1>1, <1>2, <1>3, Zenon DEF Going
<1>5. call' = [call EXCEPT ![p] = [call[p] EXCEPT !.todo = rest]]
  OBVIOUS
<1>. QED
  BY <1>4, <1>5, Zenon

\* The step of a writer, up to what its driver makes of it.
LEMMA WriterStep ==
  ASSUME StoreAssumption, Inv, NEW p \in Client, Adds(p),
         NEW r \in Requests, NEW o \in Outcomes(r), NEW rest, Effect(p, r, o, rest),
         r.do \in Stores => \A i \in DOMAIN r.docs : Genuine(r.docs[i]),
         r.do = "journal" => r.docs # <<>>,
         r.do = "list" /\ driver # "azuretable" => Ids(r.docs) \subseteq Stored,
         call'[p] = Going(p, rest) => Progress(p)',
         call[p].c \in acked' /\ Lossless' =>
           \A i \in DOMAIN commit[call[p].c] :
             /\ <<call[p].c, i - 1>> \in Stored'
             /\ listing => <<call[p].c, i - 1>> \in waiting' \cup marked',
         LateOK', CutOK', NumbersOK', CountsOK', RevisionIsUnique'
  PROVE  Inv'
<1>1. /\ Takes(r, o)
      /\ UNCHANGED <<driver, listing, commit, clock, marked, base>>
  BY DEF Effect
<1>2. PICK x : /\ call' = [call EXCEPT ![p] = x]
               /\ \/ x = Idle /\ acked' \subseteq acked \cup {call[p].c} /\ acked \subseteq acked'
                  \/ x = Going(p, rest) /\ acked' = acked
  BY DEF Effect
<1>3. /\ call'[p] = x /\ \A q \in Client : q # p => call'[q] = call[q]
      /\ call' = [q \in Client |-> call'[q]]
  BY <1>2 DEF Inv, Setting
<1>4. x.pc \in {"idle", "adding"} /\ (x.pc = "adding" => x = Going(p, rest) /\ acked' = acked)
  BY <1>2 DEF Idle, Going
<1>5. Grows /\ counter' \in Nat /\ \A d : Kept(d) => Kept(d)'
  <2>1. Grows /\ counter' \in Nat
    BY <1>1, StoreStep
  <2>2. \A d : Kept(d) => Kept(d)'
    BY <1>1, StoreStep
  <2>. QED
    BY <2>1, <2>2
<1>6. /\ call[p].c \in CommitId /\ call[p].c \notin acked /\ commit[call[p].c] # <<>>
      /\ \A q \in Client : Adds(q) /\ call[q].c = call[p].c => q = p
  BY DEF Inv, WritesOK, WriteOK
<1>7. WritesOK'
  <2>1. x = Going(p, rest) => /\ x = [pc |-> "adding", c |-> x.c, todo |-> x.todo]
                              /\ x.c = call[p].c
    BY DEF Going
  <2>2. ASSUME x.pc = "adding"
        PROVE  /\ x = [pc |-> "adding", c |-> x.c, todo |-> x.todo]
               /\ x.c \in CommitId /\ commit'[x.c] # <<>> /\ x.c \notin acked'
               /\ \A q \in Client : Adds(q) /\ call[q].c = x.c => q = p
               /\ Progress(p)'
    BY <1>1, <1>3, <1>4, <1>6, <2>1, <2>2
  <2>3. Setting /\ TypeOK /\ WritesOK
    BY DEF Inv
  <2>4. acked' \subseteq acked \cup IF Adds(p) THEN {call[p].c} ELSE {}
    BY <1>2
  <2>. QED
    BY <1>2, <1>5, <2>2, <2>3, <2>4, WritersAfter
<1>8. ReadsOK'
  <2>1. \A q \in Client : q # p => ReadOK(q)'
    BY <1>3, <1>5, ReaderGrows DEF Inv, ReadsOK
  <2>2. ReadOK(p)'
    BY <1>3, <1>4 DEF ReadOK, Adds
  <2>. QED
    BY <2>1, <2>2 DEF ReadsOK
<1>9. \A q \in Client : call'[q].pc \in {"idle", "adding", "asked", "lookup", "clean",
                                         "repair", "scan", "answered"}
  BY <1>3, <1>4 DEF Inv, TypeOK
<1>10. acked \subseteq acked' /\ acked' \subseteq acked \cup {call[p].c}
  BY <1>2
<1>11. \A c \in acked' \ acked :
         /\ c \in CommitId /\ commit[c] # <<>>
         /\ Lossless' => \A i \in DOMAIN commit[c] :
              /\ <<c, i - 1>> \in Stored'
              /\ listing => <<c, i - 1>> \in waiting' \cup marked'
  BY <1>6, <1>10
<1>. QED
  BY <1>1, <1>3, <1>7, <1>8, <1>9, <1>10, <1>11, StoredStep

\* What is left after the k-th request.
LEMMA RestOf ==
  ASSUME NEW D, NEW s \in Seq(D), NEW k \in DOMAIN s, NEW rest, rest = SubSeq(s, k + 1, Len(s))
  PROVE  /\ rest \in Seq(D)
         /\ \A j \in DOMAIN rest : k + j \in DOMAIN s /\ rest[j] = s[k + j]
         /\ \A i \in DOMAIN s : i > k => i - k \in DOMAIN rest /\ rest[i - k] = s[i]
         /\ DOMAIN rest # {} => k + 1 \in DOMAIN s
<1>1. PICK n \in Nat : n = Len(s) /\ DOMAIN s = 1 .. n /\ k \in 1 .. n
  OBVIOUS
<1>2. \A i \in k + 1 .. n : i \in 1 .. n /\ s[i] \in D
  BY <1>1
<1>3. /\ rest \in Seq(D) /\ Len(rest) = (IF k + 1 <= n THEN n - (k + 1) + 1 ELSE 0)
      /\ \A i \in 1 .. n - (k + 1) + 1 : rest[i] = s[k + 1 + i - 1]
  BY <1>1, <1>2, SubSeqProperties
<1>4. Len(rest) = n - k
  BY <1>1, <1>3
<1>5. DOMAIN rest = 1 .. n - k
  BY <1>3, <1>4
<1>6. \A j \in 1 .. n - k : k + j \in 1 .. n /\ rest[j] = s[k + j]
  <2>1. \A j \in 1 .. n - k : j \in 1 .. n - (k + 1) + 1 /\ k + 1 + j - 1 = k + j /\ k + j \in 1 .. n
    BY <1>1
  <2>. QED
    BY <1>3, <2>1
<1>7. \A i \in 1 .. n : i > k => i - k \in 1 .. n - k /\ k + (i - k) = i
  BY <1>1
<1>8. DOMAIN rest # {} => k + 1 \in 1 .. n
  BY <1>1, <1>5
<1>. QED
  BY <1>1, <1>3, <1>5, <1>6, <1>7, <1>8

\* The events of a commit as the caller made them are genuine.
LEMMA Originals ==
  ASSUME CommitsOK, NEW c \in CommitId, NEW i \in DOMAIN commit[c]
  PROVE  /\ Genuine(commit[c][i]) /\ commit[c][i] \in Document
         /\ Id(commit[c][i]) = <<c, i - 1>>
<1>1. commit[c] \in Seq(Document) /\ commit[c][i].commit = c /\ commit[c][i].seq = i - 1
  BY DEF CommitsOK, Counted
<1>2. i \in Int /\ (i - 1) + 1 = i
  BY <1>1
<1>3. commit[c][i].seq + 1 = i
  BY <1>1, <1>2
<1>. QED
  BY <1>1, <1>3 DEF Genuine, Id

LEMMA EffectCases ==
  ASSUME Inv, NEW p \in Client, Adds(p), NEW r, NEW o, NEW rest, Effect(p, r, o, rest)
  PROVE  /\ call'[p] = Going(p, rest) => o.ok /\ \E j \in DOMAIN rest : rest[j].awaited
         /\ call[p].c \in acked' => o.ok /\ \A j \in DOMAIN rest : ~rest[j].awaited
         /\ late' \subseteq late \cup ToSet(rest)
         /\ driver # "azuretable" /\ late' # late => \A j \in DOMAIN rest : ~rest[j].awaited
         /\ \A q \in Client : q # p => call'[q] = call[q]
         /\ call'[p] = Idle \/ call'[p] = Going(p, rest)
         /\ ~(o.ok /\ \E j \in DOMAIN rest : rest[j].awaited) => call'[p] = Idle
<1>1. /\ Going(p, rest).pc = "adding" /\ Idle.pc = "idle"
      /\ call[p].c \notin acked
  BY WriterIs DEF Going, Idle
<1>2. \A x : call' = [call EXCEPT ![p] = x] => /\ call'[p] = x
                                               /\ \A q \in Client : q # p => call'[q] = call[q]
  BY DEF Inv, Setting
<1>3. CASE o.ok /\ \E j \in DOMAIN rest : rest[j].awaited
  BY <1>1, <1>2, <1>3 DEF Effect
<1>4. CASE ~(o.ok /\ \E j \in DOMAIN rest : rest[j].awaited)
  <2>1. /\ call' = [call EXCEPT ![p] = Idle]
        /\ acked' = IF o.ok THEN acked \cup {call[p].c} ELSE acked
        /\ late' = IF o.ok \/ driver = "azuretable" THEN late \cup ToSet(rest) ELSE late
    BY <1>4 DEF Effect
  <2>2. call'[p] = Idle /\ \A q \in Client : q # p => call'[q] = call[q]
    BY <1>2, <2>1
  <2>3. call[p].c \in acked' => o.ok /\ \A j \in DOMAIN rest : ~rest[j].awaited
    BY <1>1, <1>4, <2>1
  <2>. QED
    BY <1>1, <1>4, <2>1, <2>2, <2>3
<1>. QED
  BY <1>3, <1>4

\* A driver that sends its requests one after the other goes on with the next.
LEMMA SuffixProgress ==
  ASSUME Inv, NEW p \in Client, Adds(p), driver \notin {"redis", "azuretable"},
         NEW all \in Seq(Requests), all = AllOf(p), NEW k \in DOMAIN all,
         \A j \in 1 .. k - 1 : Finished(all[j]),
         NEW rest, rest = SubSeq(all, k + 1, Len(all)), DOMAIN rest # {},
         Grows, commit' = commit, Finished(all[k])', call'[p] = Going(p, rest)
  PROVE  Progress(p)'
<1>1. call'[p].c = call[p].c /\ call'[p].todo = rest
  BY DEF Going
<1>2. AllOf(p)' = all
  BY <1>1 DEF Grows, AllOf, AddEvents, Dynamodb_addEvents
<1>3. k + 1 \in DOMAIN all
  BY RestOf
<1>4. \A j \in 1 .. (k + 1) - 1 : Finished(all[j])'
  <2>1. \A j \in 1 .. k - 1 : Finished(all[j])'
    BY FinishedGrows
  <2>2. \A j \in 1 .. (k + 1) - 1 : j = k \/ j \in 1 .. k - 1
    OBVIOUS
  <2>. QED
    BY <2>1, <2>2
<1>. QED
  BY <1>1, <1>2, <1>3, <1>4 DEF Progress, Grows

\* Every request that was waited for is finished when the last one is.
LEMMA AllSent ==
  ASSUME NEW all \in Seq(Requests), NEW k \in DOMAIN all,
         \A j \in 1 .. k - 1 : Finished(all[j]),
         NEW rest, rest = SubSeq(all, k + 1, Len(all)), \A j \in DOMAIN rest : ~rest[j].awaited,
         Grows, Finished(all[k])'
  PROVE  \A j \in DOMAIN all : Finished(all[j])' \/ ~all[j].awaited
<1>1. SUFFICES ASSUME NEW j \in DOMAIN all
               PROVE  Finished(all[j])' \/ ~all[j].awaited
  OBVIOUS
<1>2. \A i \in 1 .. k - 1 : Finished(all[i])'
  BY FinishedGrows
<1>3. j > k => j - k \in DOMAIN rest /\ rest[j - k] = all[j]
  BY RestOf
<1>4. j > k => ~all[j].awaited
  BY <1>3
<1>5. j \in 1 .. k - 1 \/ j = k \/ j > k
  OBVIOUS
<1>. QED
  BY <1>2, <1>4, <1>5

\* Commits stay cut cleanly when a step stores events in order.
LEMMA CutGrows ==
  ASSUME Inv, NEW S, Stored' = Stored \cup S, driver' = driver, driver \notin AtOnce,
         driver \in InOrder =>
           \A id \in S : \A n \in 0 .. id[2] - 1 : <<id[1], n>> \in Stored \cup S
  PROVE  CutOK'
BY DEF Inv, CutOK

\* Commits stay whole when a step stores all events of one.
LEMMA WholeStored ==
  ASSUME Inv, NEW p \in Client, Adds(p), commit' = commit, driver' = driver, driver \in AtOnce,
         NEW new \in Seq(Document), events' = events \o new, Stored \subseteq Stored',
         \A i \in DOMAIN new : new[i].commit = call[p].c,
         new # <<>> => /\ Ids(commit[call[p].c]) \subseteq Stored'
                       /\ call'[p] = Idle,
         call'[p] = Idle \/ call'[p].c = call[p].c,
         \A q \in Client : q # p => call'[q] = call[q]
  PROVE  CutOK'
<1>1. driver \notin InOrder
  BY DEF AtOnce, InOrder
<1>2. SUFFICES ASSUME NEW i \in DOMAIN events'
               PROVE  /\ Ids(commit[events'[i].commit]) \subseteq Stored'
                      /\ \A q \in Client : Adds(q)' => call'[q].c # events'[i].commit
  BY <1>1 DEF CutOK, Whole
<1>3. PICK old \in Seq(Document) : old = events
  BY DEF Inv, EventsOK
<1>4. PICK w : w = old \o new
  OBVIOUS
<1>5. \A j \in DOMAIN old : w[j] = old[j]
  BY <1>4, IdsAppend
<1>6. \A j \in DOMAIN w : j \in DOMAIN old \/ j - Len(old) \in DOMAIN new
  BY <1>4, IdsAppend
<1>7. \A j \in DOMAIN new : w[Len(old) + j] = new[j]
  BY <1>4, IdsAppend
<1>8. w = events' /\ w \in Seq(Document)
  BY <1>3, <1>4
<1>9. \A c : Whole(c) => Ids(commit[c]) \subseteq Stored'
  BY DEF Whole
<1>10. Idle.pc = "idle"
  BY DEF Idle
<1>11. CASE i \in DOMAIN old
  <2>1. /\ Whole(events[i].commit)
        /\ \A q \in Client : Adds(q) => call[q].c # events[i].commit
    BY <1>3, <1>11 DEF Inv, CutOK
  <2>2. events'[i] = events[i]
    BY <1>3, <1>5, <1>8, <1>11
  <2>3. \A q \in Client : Adds(q)' => Adds(q) /\ call'[q].c = call[q].c
    BY <1>10 DEF Adds
  <2>. QED
    BY <1>9, <2>1, <2>2, <2>3
<1>12. CASE i - Len(old) \in DOMAIN new
  <2>1. PICK j \in DOMAIN new : i = Len(old) + j
    <3>1. i \in Int /\ Len(old) \in Int
      BY <1>2, <1>8
    <3>. QED
      BY <1>12, <3>1
  <2>2. events'[i].commit = call[p].c
    BY <1>7, <1>8, <2>1
  <2>3. new # <<>>
    BY <2>1
  <2>4. Ids(commit[call[p].c]) \subseteq Stored'
    BY <2>3
  <2>5. \A q \in Client : Adds(q)' => q # p /\ Adds(q) /\ call'[q].c = call[q].c
    BY <1>10, <2>3 DEF Adds
  <2>6. \A q \in Client : Adds(q) /\ call[q].c = call[p].c => q = p
    BY DEF Inv, WritesOK, WriteOK
  <2>. QED
    BY <2>2, <2>4, <2>5, <2>6
<1>. QED
  BY <1>2, <1>6, <1>8, <1>11, <1>12

\* Requests still under way after a step of a writer.
LEMMA LateAfter ==
  ASSUME Inv, UNCHANGED <<driver, commit>>, NEW rest \in Seq(Requests),
         late' \subseteq late \cup ToSet(rest),
         late' # late => \A j \in DOMAIN rest :
           \/ rest[j].do = "drop"
           \/ /\ driver = "azuretable" /\ rest[j].do \in {"put", "list"}
              /\ \E c \in CommitId : \E i \in DOMAIN commit[c] : rest[j].docs = <<commit[c][i]>>
  PROVE  LateOK'
<1>1. late \subseteq Requests /\ \A r \in late :
        \/ r.do = "drop"
        \/ /\ driver = "azuretable" /\ r.do \in {"put", "list"}
           /\ \E c \in CommitId : \E i \in DOMAIN commit[c] : r.docs = <<commit[c][i]>>
  BY DEF Inv, LateOK
<1>2. ASSUME NEW r \in ToSet(rest), late' # late
      PROVE  /\ r \in Requests
             /\ \/ r.do = "drop"
                \/ /\ driver = "azuretable" /\ r.do \in {"put", "list"}
                   /\ \E c \in CommitId : \E i \in DOMAIN commit[c] : r.docs = <<commit[c][i]>>
  <2>1. PICK j \in DOMAIN rest : rest[j] = r
    BY DEF ToSet
  <2>2. r \in Requests
    BY <2>1
  <2>3. \/ rest[j].do = "drop"
        \/ /\ driver = "azuretable" /\ rest[j].do \in {"put", "list"}
           /\ \E c \in CommitId : \E i \in DOMAIN commit[c] : rest[j].docs = <<commit[c][i]>>
    BY <1>2
  <2>. QED
    BY <2>1, <2>2, <2>3
<1>3. CASE late' = late
  BY <1>1, <1>3 DEF LateOK
<1>4. CASE late' # late
  <2>1. late' \subseteq Requests
    BY <1>1, <1>2, <1>4
  <2>2. \A r \in late' :
          \/ r.do = "drop"
          \/ /\ driver = "azuretable" /\ r.do \in {"put", "list"}
             /\ \E c \in CommitId : \E i \in DOMAIN commit[c] : r.docs = <<commit[c][i]>>
    BY <1>1, <1>2, <1>4
  <2>. QED
    BY <2>1, <2>2 DEF LateOK
<1>. QED
  BY <1>3, <1>4

\* A batch stores a prefix of its events, or by elasticsearch any of them.
LEMMA PrefixIds ==
  ASSUME NEW c \in CommitId, NEW docs \in Seq(Document),
         \A i \in DOMAIN docs : docs[i].commit = c /\ docs[i].seq = i - 1,
         NEW m \in 0 .. Len(docs), NEW new, new = SubSeq(docs, 1, m)
  PROVE  \A id \in Ids(new) : \A n \in 0 .. id[2] - 1 : <<id[1], n>> \in Ids(new)
<1>1. /\ new \in Seq(Document) /\ Len(new) = m /\ DOMAIN new = 1 .. m
      /\ \A i \in 1 .. m : new[i] = docs[i] /\ i \in DOMAIN docs
  BY Prefix
<1>2. \A i \in 1 .. m : Id(new[i]) = <<c, i - 1>>
  BY <1>1 DEF Id
<1>3. SUFFICES ASSUME NEW id \in Ids(new), NEW n \in 0 .. id[2] - 1
               PROVE  <<id[1], n>> \in Ids(new)
  OBVIOUS
<1>4. PICK i \in 1 .. m : id = <<c, i - 1>>
  BY <1>1, <1>2, <1>3 DEF Ids
<1>5. id[1] = c /\ id[2] = i - 1
  BY <1>4
<1>6. n + 1 \in 1 .. m /\ (n + 1) - 1 = n
  BY <1>3, <1>4, <1>5
<1>7. Id(new[n + 1]) = <<c, n>>
  BY <1>2, <1>6
<1>. QED
  BY <1>1, <1>5, <1>6, <1>7 DEF Ids

\* mongodb, tingodb, inmemory and elasticsearch: requests for all events of a commit.
LEMMA WriteBatch ==
  ASSUME StoreAssumption, Inv, NEW p \in Client, Adds(p),
         driver \in {"mongodb", "tingodb", "inmemory", "elasticsearch"},
         NEW all, all = AllOf(p), NEW k \in DOMAIN all, \A j \in 1 .. k - 1 : Finished(all[j]),
         NEW r, r = all[k], NEW o \in Outcomes(r),
         NEW rest, rest = SubSeq(all, k + 1, Len(all)), Effect(p, r, o, rest)
  PROVE  Inv'
<1>1. PICK c, docs : c = call[p].c /\ docs = commit[c]
  OBVIOUS
<1>2. /\ c \in CommitId /\ c \notin acked /\ docs \in Seq(Document) /\ docs # <<>>
      /\ \A i \in DOMAIN docs : docs[i].commit = c /\ docs[i].seq = i - 1
  BY <1>1, WriterIs DEF Counted
<1>3. all = AddEvents(docs)
  BY <1>1 DEF AllOf
<1>4. /\ Batches(all, docs)
      /\ driver \in {"mongodb", "tingodb"} => all[k].do \in {"journal", "insert", "drop"}
      /\ driver \in {"inmemory", "elasticsearch"} => DOMAIN all = {1}
      /\ driver = "inmemory" => all[k].do = "insert"
      /\ driver = "elasticsearch" => all[k].do = "bulk"
      /\ driver # "elasticsearch" => \E j \in DOMAIN all : all[j].do = "insert"
  <2>1. CASE driver \in {"mongodb", "tingodb"}
    BY <1>2, <1>3, <2>1, MongodbRequests
  <2>2. CASE driver \in {"inmemory", "elasticsearch"}
    BY <1>2, <1>3, <2>2, BatchRequests
  <2>. QED
    BY <2>1, <2>2
<1>5. /\ all \in Seq(Requests) /\ \A j \in DOMAIN all : all[j].docs = docs
      /\ \A j \in DOMAIN all : ~all[j].awaited => all[j].do = "drop"
  BY <1>4 DEF Batches
<1>6. /\ r \in Requests /\ r.docs = docs
      /\ r.do \in {"journal", "insert", "drop", "bulk"}
      /\ r.do = "bulk" <=> driver = "elasticsearch"
  BY <1>4, <1>5
<1>7. \A i \in DOMAIN r.docs : Genuine(r.docs[i])
  BY <1>1, <1>2, <1>6, Originals DEF Inv
<1>8. /\ Takes(r, o) /\ UNCHANGED <<driver, listing, commit, clock, marked, base>>
  BY DEF Effect
<1>9. r.docs # <<>> /\ r.do # "list" /\ r.do # "incr"
  BY <1>2, <1>6
<1>10. PICK new : new = New(r, o)
  OBVIOUS
<1>11. /\ new \in Seq(Document) /\ events' = events \o new
       /\ Stored' = Stored \cup Ids(new)
  BY <1>6, <1>7, <1>8, <1>9, <1>10, StoreStep
<1>12. Grows /\ counter' = counter
  BY <1>6, <1>7, <1>8, <1>9, StoreStep
<1>13. o.ok => Finished(r)'
  <2>1. o.ok /\ r.do # "bulk" => Finished(r)'
    BY <1>6, <1>7, <1>8, <1>9, StoreStep
  <2>2. r.do = "bulk" => Finished(r)'
    BY DEF Finished
  <2>. QED
    BY <2>1, <2>2
<1>14. /\ call'[p] = Going(p, rest) => o.ok /\ \E j \in DOMAIN rest : rest[j].awaited
       /\ call[p].c \in acked' => o.ok /\ \A j \in DOMAIN rest : ~rest[j].awaited
       /\ late' \subseteq late \cup ToSet(rest)
       /\ late' # late => \A j \in DOMAIN rest : ~rest[j].awaited
       /\ \A q \in Client : q # p => call'[q] = call[q]
       /\ call'[p] = Idle \/ call'[p] = Going(p, rest)
       /\ ~(o.ok /\ \E j \in DOMAIN rest : rest[j].awaited) => call'[p] = Idle
  <2>1. /\ call'[p] = Going(p, rest) => o.ok /\ \E j \in DOMAIN rest : rest[j].awaited
        /\ call[p].c \in acked' => o.ok /\ \A j \in DOMAIN rest : ~rest[j].awaited
    BY EffectCases
  <2>2. /\ late' \subseteq late \cup ToSet(rest)
        /\ driver # "azuretable" /\ late' # late => \A j \in DOMAIN rest : ~rest[j].awaited
    BY EffectCases
  <2>3. \A q \in Client : q # p => call'[q] = call[q]
    BY EffectCases
  <2>4. call'[p] = Idle \/ call'[p] = Going(p, rest)
    BY EffectCases
  <2>5. ~(o.ok /\ \E j \in DOMAIN rest : rest[j].awaited) => call'[p] = Idle
    BY EffectCases
  <2>. QED
    BY <2>1, <2>2, <2>3, <2>4, <2>5
<1>15. /\ rest \in Seq(Requests)
       /\ \A j \in DOMAIN rest : k + j \in DOMAIN all /\ rest[j] = all[k + j]
       /\ DOMAIN rest # {} => k + 1 \in DOMAIN all
  BY <1>5, RestOf
<1>16. call'[p] = Going(p, rest) => Progress(p)'
  <2>1. call'[p] = Going(p, rest) => DOMAIN rest # {} /\ Finished(all[k])'
    BY <1>13, <1>14
  <2>2. driver \notin {"redis", "azuretable"} /\ commit' = commit
    BY <1>8
  <2>. QED
    BY <1>5, <1>12, <2>1, <2>2, SuffixProgress
<1>17. /\ faults \in Nat /\ o.fault \in {0, 1} /\ faults' = faults + o.fault
       /\ o.ok /\ (r.do # "bulk" \/ o.fault = 0) => o.docs = docs
       /\ o.fault = 0 /\ (\A j \in DOMAIN docs : ~Refuses(r, docs[j])) => o.ok
       /\ o.fault = 1 => driver # "inmemory"
       /\ r.do # "bulk" => \E m \in 0 .. Len(docs) : o.docs = SubSeq(docs, 1, m)
  <2>1. faults \in 0 .. MaxFaults /\ MaxFaults \in Nat
    BY DEF Inv, TypeOK, Parameters
  <2>2. /\ o.fault \in {0, 1}
        /\ o.ok /\ (r.do # "bulk" \/ o.fault = 0) => o.docs = docs
        /\ o.fault = 0 /\ (\A j \in DOMAIN docs : ~Refuses(r, docs[j])) => o.ok
        /\ o.fault = 1 => driver # "inmemory"
    BY <1>6, <2>1, OutcomeCases
  <2>3. r.do # "bulk" => \E m \in 0 .. Len(docs) : o.docs = SubSeq(docs, 1, m)
    <3>1. SUFFICES ASSUME r.do # "bulk"
                   PROVE  \E m \in 0 .. Len(docs) : o.docs = SubSeq(docs, 1, m)
      OBVIOUS
    <3>2. \E m \in 0 .. Len(r.docs) : /\ o.docs = SubSeq(r.docs, 1, m)
                                      /\ \A j \in 1 .. m : ~Refuses(r, r.docs[j])
      BY <1>6, <2>1, <3>1, OutcomeCases
    <3>. QED
      BY <1>6, <3>2
  <2>4. faults' = faults + o.fault
    BY <1>8 DEF Takes
  <2>. QED
    BY <2>1, <2>2, <2>3, <2>4
<1>18. \A i \in DOMAIN docs : <<c, i - 1>> \in Ids(docs)
  <2>1. \A i \in DOMAIN docs : Id(docs[i]) = <<c, i - 1>>
    BY <1>2 DEF Id
  <2>. QED
    BY <2>1 DEF Ids
<1>19. ASSUME c \in acked', Lossless'
       PROVE  Ids(docs) \subseteq Stored' /\ Ids(docs) \subseteq waiting' \cup marked'
  <2>1. o.ok /\ \A j \in DOMAIN rest : ~rest[j].awaited
    BY <1>1, <1>14, <1>19
  <2>2. CASE driver = "elasticsearch"
    <3>1. o.fault = 0
      BY <1>8, <1>17, <1>19, <2>2 DEF Lossless
    <3>2. o.docs = docs /\ r.do = "bulk"
      BY <1>6, <1>17, <2>1, <2>2, <3>1
    <3>3. new = docs
      BY <1>10, <3>2 DEF New, Stores
    <3>4. waiting' = waiting \cup Ids(docs)
      BY <1>8, <3>2 DEF Takes
    <3>. QED
      BY <1>11, <3>3, <3>4
  <2>3. CASE driver # "elasticsearch"
    <3>1. PICK j \in DOMAIN all : all[j].do = "insert"
      BY <1>4, <2>3
    <3>2. Finished(all[k])'
      BY <1>13, <2>1
    <3>3. \A i \in DOMAIN all : Finished(all[i])' \/ ~all[i].awaited
      BY <1>5, <1>12, <2>1, <3>2, AllSent
    <3>4. Finished(all[j])'
      BY <1>5, <3>1, <3>3
    <3>5. all[j].docs = docs
      BY <1>5
    <3>. QED
      BY <3>1, <3>4, <3>5 DEF Finished, Ids
  <2>. QED
    BY <2>2, <2>3
<1>20. call[p].c \in acked' /\ Lossless' =>
         \A i \in DOMAIN commit[call[p].c] :
           /\ <<call[p].c, i - 1>> \in Stored'
           /\ listing => <<call[p].c, i - 1>> \in waiting' \cup marked'
  BY <1>1, <1>18, <1>19
<1>21. LateOK'
  <2>1. late' # late => \A j \in DOMAIN rest : rest[j].do = "drop"
    <3>1. \A j \in DOMAIN rest : ~rest[j].awaited => rest[j].do = "drop"
      <4>1. SUFFICES ASSUME NEW j \in DOMAIN rest, ~rest[j].awaited
                     PROVE  rest[j].do = "drop"
        OBVIOUS
      <4>2. PICK i \in DOMAIN all : rest[j] = all[i]
        BY <1>15
      <4>. QED
        BY <1>5, <4>1, <4>2
    <3>. QED
      BY <1>14, <3>1, Zenon
  <2>2. driver' = driver /\ commit' = commit
    BY <1>8
  <2>. QED
    BY <1>14, <1>15, <2>1, <2>2, LateAfter
<1>22. CutOK'
  <2>1. CASE driver = "inmemory"
    <3>1. \A i \in DOMAIN docs : ~Refuses(r, docs[i])
      <4>1. SUFFICES ASSUME NEW i \in DOMAIN docs, Id(docs[i]) \in Stored
                     PROVE  FALSE
        BY <2>1 DEF Refuses
      <4>2. PICK j \in DOMAIN events : Id(events[j]) = Id(docs[i])
        BY <4>1 DEF Stored, Ids
      <4>3. events[j].commit = c
        BY <1>2, <4>2 DEF Id
      <4>. QED
        BY <1>1, <2>1, <4>3 DEF Inv, CutOK, AtOnce
    <3>2. o.docs = docs
      BY <1>6, <1>17, <2>1, <3>1
    <3>3. new = docs
      BY <1>4, <1>10, <2>1, <3>2 DEF New, Stores
    <3>4. DOMAIN rest = {}
      BY <1>4, <1>15, <2>1
    <3>5. call'[p] = Idle
      BY <1>14, <3>4
    <3>6. Ids(commit[call[p].c]) \subseteq Stored' /\ Stored \subseteq Stored'
      BY <1>1, <1>11, <3>3
    <3>7. \A i \in DOMAIN new : new[i].commit = call[p].c
      BY <1>1, <1>2, <3>3
    <3>8. driver \in AtOnce
      BY <2>1 DEF AtOnce
    <3>. QED
      BY <1>8, <1>11, <1>14, <3>5, <3>6, <3>7, <3>8, WholeStored
  <2>2. CASE driver # "inmemory"
    <3>1. driver \notin AtOnce /\ (driver \in InOrder => r.do # "bulk")
      BY <1>6, <2>2 DEF AtOnce, InOrder
    <3>2. ASSUME driver \in InOrder
          PROVE  \A id \in Ids(new) : \A n \in 0 .. id[2] - 1 : <<id[1], n>> \in Ids(new)
      <4>1. CASE r.do \in Stores
        <5>1. PICK m \in 0 .. Len(docs) : o.docs = SubSeq(docs, 1, m)
          BY <1>17, <3>1, <3>2
        <5>2. new = SubSeq(docs, 1, m)
          BY <1>10, <4>1, <5>1 DEF New
        <5>. QED
          BY <1>2, <5>2, PrefixIds
      <4>2. CASE r.do \notin Stores
        <5>1. Ids(new) = {}
          BY <1>10, <4>2 DEF New, Ids
        <5>. QED
          BY <5>1
      <4>. QED
        BY <4>1, <4>2
    <3>. QED
      BY <1>8, <1>11, <3>1, <3>2, CutGrows
  <2>. QED
    BY <2>1, <2>2
<1>23. NumbersOK' /\ RevisionIsUnique'
  BY <1>8 DEF NumbersOK, RevisionIsUnique
<1>24. CountsOK'
  <2>1. \A q \in Client : ~Waits(q)'
    BY <1>8 DEF Waits
  <2>. QED
    BY <1>8, <1>12, <2>1, CountsKept
<1>. QED
  BY <1>6, <1>7, <1>9, <1>16, <1>20, <1>21, <1>22, <1>23, <1>24, WriterStep

\* What a request for one event stores.
LEMMA SingleOutcome ==
  ASSUME StoreAssumption, Inv, NEW d \in Document, NEW r \in Requests, r.docs = <<d>>,
         r.do \in {"put", "list"}, NEW o \in Outcomes(r)
  PROVE  \/ New(r, o) = <<>>
         \/ New(r, o) = <<d>> /\ r.do = "put" /\ ~Refuses(r, d)
<1>1. PICK one : one = <<d>>
  OBVIOUS
<1>2. /\ one \in Seq(Document) /\ one[1] = d /\ Len(one) = 1 /\ r.docs = one
  BY <1>1
<1>3. faults \in 0 .. MaxFaults
  BY DEF Inv, TypeOK
<1>4. \E m \in 0 .. Len(r.docs) : /\ o.docs = SubSeq(r.docs, 1, m)
                                  /\ \A j \in 1 .. m : ~Refuses(r, r.docs[j])
  BY <1>3, OutcomeCases
<1>5. PICK m \in 0 .. 1 : o.docs = SubSeq(one, 1, m) /\ \A j \in 1 .. m : ~Refuses(r, one[j])
  BY <1>2, <1>4
<1>6. CASE m = 0
  <2>1. o.docs = <<>>
    BY <1>2, <1>5, <1>6, Prefix
  <2>. QED
    BY <2>1 DEF New
<1>7. CASE m = 1
  <2>1. o.docs = one
    BY <1>2, <1>5, <1>7, Prefix
  <2>2. ~Refuses(r, d)
    BY <1>2, <1>5, <1>7
  <2>. QED
    BY <1>1, <2>1, <2>2 DEF New, Stores
<1>. QED
  BY <1>5, <1>6, <1>7

\* A commit whose requests are finished is stored and listed.
LEMMA SinglesDone ==
  ASSUME NEW docs \in Seq(Document), NEW all, Singles(all, docs), listing' = listing,
         \A k \in DOMAIN all : Finished(all[k])'
  PROVE  \A i \in DOMAIN docs : /\ Id(docs[i]) \in Stored'
                                /\ listing => Id(docs[i]) \in waiting' \cup marked'
<1>1. SUFFICES ASSUME NEW i \in DOMAIN docs
               PROVE  /\ Id(docs[i]) \in Stored'
                      /\ listing => Id(docs[i]) \in waiting' \cup marked'
  OBVIOUS
<1>2. PICK d \in Document : d = docs[i]
  OBVIOUS
<1>3. Ids(<<d>>) = {Id(d)}
  BY OneDoc
<1>4. PICK one : one = <<d>> /\ one \in Seq(Document) /\ Ids(one) = {Id(d)}
  BY <1>3, OneDoc
<1>5. \A v \in Verb : Request(v, one).do = v /\ Request(v, one).docs = one
  BY <1>4, RequestIs
<1>6. /\ \E k \in DOMAIN all : all[k] = Request("put", one)
      /\ listing => \E k \in DOMAIN all : all[k] = Request("list", one)
  BY <1>2, <1>4 DEF Singles, Lists
<1>7. "put" \in Verb /\ "list" \in Verb
  BY DEF Verb
<1>8. Id(d) \in Stored'
  <2>1. PICK k \in DOMAIN all : all[k] = Request("put", one)
    BY <1>6
  <2>2. Finished(all[k])' /\ all[k].do = "put" /\ all[k].docs = one
    BY <1>5, <1>7, <2>1
  <2>3. Ids(one) \subseteq Stored'
    BY <2>2 DEF Finished
  <2>. QED
    BY <1>4, <2>3
<1>9. ASSUME listing
      PROVE  Id(d) \in waiting' \cup marked'
  <2>1. PICK k \in DOMAIN all : all[k] = Request("list", one)
    BY <1>6, <1>9
  <2>2. Finished(all[k])' /\ all[k].do = "list" /\ all[k].docs = one
    BY <1>5, <1>7, <2>1
  <2>3. Ids(one) \subseteq waiting' \cup marked'
    BY <2>2 DEF Finished
  <2>. QED
    BY <1>4, <2>3
<1>. QED
  BY <1>2, <1>8, <1>9

\* The stored events after one more.
LEMMA OneMore ==
  ASSUME EventsOK, NEW d \in Document, events' = events \o <<d>>,
         \A i \in DOMAIN events : events[i].rev # d.rev,
         \A i, j \in DOMAIN events : events[i].rev = events[j].rev => i = j
  PROVE  \A i, j \in DOMAIN events' : events'[i].rev = events'[j].rev => i = j
<1>1. PICK old \in Seq(Document), one \in Seq(Document) : old = events /\ one = <<d>>
  <2>1. events \in Seq(Document)
    BY DEF EventsOK
  <2>2. <<d>> \in Seq(Document)
    BY OneDoc
  <2>. QED
    BY <2>1, <2>2
<1>2. one \in Seq(Document) /\ DOMAIN one = {1} /\ one[1] = d
  BY <1>1
<1>3. PICK w : w = old \o one
  OBVIOUS
<1>4. \A j \in DOMAIN old : w[j] = old[j]
  BY <1>2, <1>3, IdsAppend
<1>5. \A j \in DOMAIN w : j \in DOMAIN old \/ j - Len(old) \in DOMAIN one
  BY <1>2, <1>3, IdsAppend
<1>6. \A j \in DOMAIN one : w[Len(old) + j] = one[j]
  BY <1>2, <1>3, IdsAppend
<1>7. w \in Seq(Document)
  BY <1>2, <1>3, IdsAppend
<1>8. \A j \in DOMAIN w : j \in DOMAIN old \/ (j = Len(old) + 1 /\ w[j] = d)
  <2>1. SUFFICES ASSUME NEW j \in DOMAIN w, j \notin DOMAIN old
                 PROVE  j = Len(old) + 1 /\ w[j] = d
    OBVIOUS
  <2>2. j \in Int /\ Len(old) \in Int
    BY <1>7
  <2>3. j - Len(old) = 1
    BY <1>2, <1>5, <2>1
  <2>4. j = Len(old) + 1
    BY <2>2, <2>3
  <2>. QED
    BY <1>2, <1>6, <2>4
<1>9. events' = w
  BY <1>1, <1>3
<1>. QED
  BY <1>1, <1>4, <1>8, <1>9

\* dynamodb: requests for one event after the other.
LEMMA WriteSingle ==
  ASSUME StoreAssumption, Inv, NEW p \in Client, Adds(p), driver = "dynamodb",
         NEW all, all = AllOf(p), NEW k \in DOMAIN all, \A j \in 1 .. k - 1 : Finished(all[j]),
         NEW r, r = all[k], NEW o \in Outcomes(r),
         NEW rest, rest = SubSeq(all, k + 1, Len(all)), Effect(p, r, o, rest)
  PROVE  Inv'
<1>1. PICK c, docs : c = call[p].c /\ docs = commit[c]
  OBVIOUS
<1>2. /\ c \in CommitId /\ c \notin acked /\ docs \in Seq(Document) /\ docs # <<>>
      /\ \A i \in DOMAIN docs : docs[i].commit = c /\ docs[i].seq = i - 1
  BY <1>1, WriterIs DEF Counted
<1>3. Singles(all, docs)
  <2>1. all = AddEvents(docs)
    BY <1>1 DEF AllOf
  <2>. QED
    BY <1>2, <2>1, SingleRequests
<1>4. /\ all \in Seq(Requests) /\ \A j \in DOMAIN all : all[j].awaited
      /\ r \in Requests /\ r.do \in {"put", "list"}
  BY <1>3 DEF Singles
<1>5. PICK i \in DOMAIN docs :
        /\ r.docs = <<docs[i]>>
        /\ r.do = "put" =>
             \A j \in 1 .. i - 1 : \E l \in 1 .. k - 1 : all[l] = Request("put", <<docs[j]>>)
        /\ r.do = "list" => \E l \in 1 .. k - 1 : all[l] = Request("put", <<docs[i]>>)
  BY <1>3 DEF Singles
<1>6. PICK d \in Document : d = docs[i] /\ d.commit = c /\ d.seq = i - 1 /\ Id(d) = <<c, i - 1>>
  <2>1. Id(docs[i]) = <<c, i - 1>>
    BY <1>2 DEF Id
  <2>. QED
    BY <1>2, <2>1
<1>7. /\ r.docs = <<d>> /\ Ids(r.docs) = {Id(d)} /\ DOMAIN r.docs = {1} /\ r.docs[1] = d
      /\ r.docs # <<>>
  <2>1. PICK one : one = <<d>>
    OBVIOUS
  <2>2. one \in Seq(Document) /\ DOMAIN one = {1} /\ one[1] = d /\ Ids(one) = {Id(d)}
    BY <2>1, OneDoc
  <2>3. one # <<>>
    <3>1. PICK none : none = <<>>
      OBVIOUS
    <3>2. DOMAIN none = {}
      BY <3>1
    <3>3. 1 \in DOMAIN one
      BY <2>2
    <3>. QED
      BY <3>1, <3>2, <3>3
  <2>4. r.docs = one
    BY <1>5, <1>6, <2>1
  <2>. QED
    BY <2>1, <2>2, <2>3, <2>4
<1>8. \A j \in DOMAIN r.docs : Genuine(r.docs[j])
  BY <1>1, <1>2, <1>6, <1>7, Originals DEF Inv
<1>9. /\ Takes(r, o) /\ UNCHANGED <<driver, listing, commit, clock, marked, base>>
  BY DEF Effect
<1>10. \A j \in DOMAIN docs : (\E l \in 1 .. k - 1 : all[l] = Request("put", <<docs[j]>>))
                                => <<c, j - 1>> \in Stored
  <2>1. SUFFICES ASSUME NEW j \in DOMAIN docs, NEW l \in 1 .. k - 1,
                        all[l] = Request("put", <<docs[j]>>)
                 PROVE  <<c, j - 1>> \in Stored
    OBVIOUS
  <2>2. PICK e \in Document : e = docs[j] /\ Id(e) = <<c, j - 1>>
    BY <1>2 DEF Id
  <2>3. PICK one : one = <<e>> /\ one \in Seq(Document) /\ Ids(one) = {Id(e)}
    BY OneDoc
  <2>4. all[l].do = "put" /\ all[l].docs = one
    <3>1. "put" \in Verb
      BY DEF Verb
    <3>2. Request("put", one).do = "put" /\ Request("put", one).docs = one
      BY <2>3, <3>1, RequestIs
    <3>. QED
      BY <2>1, <2>2, <2>3, <3>2
  <2>5. Finished(all[l])
    OBVIOUS
  <2>6. Ids(one) \subseteq Stored
    BY <2>4, <2>5 DEF Finished
  <2>. QED
    BY <2>2, <2>3, <2>6
<1>11. r.do = "list" => Ids(r.docs) \subseteq Stored
  BY <1>5, <1>6, <1>7, <1>10
<1>12. r.do # "journal" /\ r.do # "incr"
  BY <1>4
<1>13. PICK new : new = New(r, o)
  OBVIOUS
<1>14. /\ new \in Seq(Document) /\ events' = events \o new
       /\ Stored' = Stored \cup Ids(new)
  BY <1>4, <1>8, <1>9, <1>11, <1>12, <1>13, StoreStep
<1>15. Grows /\ counter' = counter
  BY <1>4, <1>8, <1>9, <1>11, <1>12, StoreStep
<1>16. o.ok => Finished(r)'
  <2>1. r.do # "bulk"
    BY <1>4
  <2>. QED
    BY <1>4, <1>8, <1>9, <1>11, <1>12, <2>1, StoreStep
<1>17. /\ call'[p] = Going(p, rest) => o.ok /\ \E j \in DOMAIN rest : rest[j].awaited
       /\ call[p].c \in acked' => o.ok /\ \A j \in DOMAIN rest : ~rest[j].awaited
       /\ late' \subseteq late \cup ToSet(rest)
       /\ late' # late => \A j \in DOMAIN rest : ~rest[j].awaited
  <2>1. /\ call'[p] = Going(p, rest) => o.ok /\ \E j \in DOMAIN rest : rest[j].awaited
        /\ call[p].c \in acked' => o.ok /\ \A j \in DOMAIN rest : ~rest[j].awaited
    BY EffectCases
  <2>2. /\ late' \subseteq late \cup ToSet(rest)
        /\ driver # "azuretable" /\ late' # late => \A j \in DOMAIN rest : ~rest[j].awaited
    BY EffectCases
  <2>. QED
    BY <2>1, <2>2
<1>18. /\ rest \in Seq(Requests)
       /\ \A j \in DOMAIN rest : k + j \in DOMAIN all /\ rest[j] = all[k + j]
  BY <1>4, RestOf
<1>19. \A j \in DOMAIN rest : rest[j].awaited
  BY <1>4, <1>18
<1>20. call'[p] = Going(p, rest) => Progress(p)'
  <2>1. call'[p] = Going(p, rest) => DOMAIN rest # {} /\ Finished(all[k])'
    BY <1>16, <1>17
  <2>2. driver \notin {"redis", "azuretable"} /\ commit' = commit
    BY <1>9
  <2>. QED
    BY <1>4, <1>15, <2>1, <2>2, SuffixProgress
<1>21. call[p].c \in acked' /\ Lossless' =>
         \A j \in DOMAIN commit[call[p].c] :
           /\ <<call[p].c, j - 1>> \in Stored'
           /\ listing => <<call[p].c, j - 1>> \in waiting' \cup marked'
  <2>1. SUFFICES ASSUME call[p].c \in acked'
                 PROVE  \A j \in DOMAIN docs :
                          /\ <<c, j - 1>> \in Stored'
                          /\ listing => <<c, j - 1>> \in waiting' \cup marked'
    BY <1>1
  <2>2. Finished(all[k])' /\ \A j \in DOMAIN rest : ~rest[j].awaited
    BY <1>16, <1>17, <2>1
  <2>3. \A j \in DOMAIN all : Finished(all[j])' \/ ~all[j].awaited
    BY <1>4, <1>15, <2>2, AllSent
  <2>4. \A j \in DOMAIN all : Finished(all[j])'
    BY <1>4, <2>3
  <2>5. \A j \in DOMAIN docs : /\ Id(docs[j]) \in Stored'
                               /\ listing => Id(docs[j]) \in waiting' \cup marked'
    BY <1>2, <1>3, <1>9, <2>4, SinglesDone
  <2>6. \A j \in DOMAIN docs : Id(docs[j]) = <<c, j - 1>>
    BY <1>2 DEF Id
  <2>. QED
    BY <2>5, <2>6
<1>22. LateOK'
  <2>1. late' # late => \A j \in DOMAIN rest : FALSE
    BY <1>17, <1>19
  <2>2. driver' = driver /\ commit' = commit
    BY <1>9
  <2>. QED
    BY <1>17, <1>18, <2>1, <2>2, LateAfter
<1>23. \/ new = <<>>
       \/ new = <<d>> /\ r.do = "put" /\ ~Refuses(r, d)
  BY <1>4, <1>7, <1>13, SingleOutcome
<1>24. CutOK'
  <2>1. driver \notin AtOnce
    BY DEF AtOnce
  <2>2. \A id \in Ids(new) : \A n \in 0 .. id[2] - 1 : <<id[1], n>> \in Stored \cup Ids(new)
    <3>1. SUFFICES ASSUME NEW id \in Ids(new), NEW n \in 0 .. id[2] - 1
                   PROVE  <<id[1], n>> \in Stored
      OBVIOUS
    <3>2. new = <<d>> /\ r.do = "put"
      BY <1>23, <3>1 DEF Ids
    <3>3. id = <<c, i - 1>>
      BY <1>6, <1>7, <3>1, <3>2
    <3>4. id[1] = c /\ id[2] = i - 1
      BY <3>3
    <3>5. i \in 1 .. Len(docs) /\ Len(docs) \in Nat
      BY <1>2
    <3>6. n + 1 \in 1 .. i - 1 /\ (n + 1) - 1 = n /\ n + 1 \in 1 .. Len(docs)
      BY <3>1, <3>4, <3>5
    <3>7. \E l \in 1 .. k - 1 : all[l] = Request("put", <<docs[n + 1]>>)
      BY <1>5, <3>2, <3>6
    <3>8. n + 1 \in DOMAIN docs
      BY <1>2, <3>6
    <3>9. <<c, (n + 1) - 1>> \in Stored
      BY <1>10, <3>7, <3>8
    <3>. QED
      BY <3>4, <3>6, <3>9
  <2>. QED
    BY <1>9, <1>14, <2>1, <2>2, CutGrows
<1>25. RevisionIsUnique'
  <2>1. EventsOK /\ \A a, b \in DOMAIN events : events[a].rev = events[b].rev => a = b
    BY DEF Inv, RevisionIsUnique
  <2>2. CASE new = <<>>
    <3>1. events \in Seq(Document)
      BY <2>1 DEF EventsOK
    <3>2. events' = events
      BY <1>14, <2>2, <3>1, ConcatEmptySeq
    <3>. QED
      BY <2>1, <3>2 DEF RevisionIsUnique
  <2>3. CASE new = <<d>> /\ r.do = "put" /\ ~Refuses(r, d)
    <3>1. \A a \in DOMAIN events : events[a].rev # d.rev
      BY <2>3 DEF Refuses, Dynamodb_StoredEvent
    <3>2. \A a, b \in DOMAIN events' : events'[a].rev = events'[b].rev => a = b
      BY <1>14, <2>1, <2>3, <3>1, OneMore
    <3>. QED
      BY <3>2 DEF RevisionIsUnique
  <2>. QED
    BY <1>23, <2>2, <2>3
<1>26. NumbersOK'
  BY <1>9 DEF NumbersOK
<1>27. CountsOK'
  <2>1. \A q \in Client : ~Waits(q)'
    BY <1>9 DEF Waits
  <2>. QED
    BY <1>9, <1>15, <2>1, CountsKept
<1>. QED
  BY <1>4, <1>8, <1>11, <1>12, <1>20, <1>21, <1>22, <1>24, <1>25, <1>26, <1>27, WriterStep

\* azuretable: the requests for all events of a commit, in any order.
LEMMA WriteAny ==
  ASSUME StoreAssumption, Inv, NEW p \in Client, Adds(p), driver = "azuretable",
         NEW i \in DOMAIN call[p].todo, NEW r, r = call[p].todo[i], NEW o \in Outcomes(r),
         NEW rest, rest = RemoveAt(call[p].todo, i), Effect(p, r, o, rest)
  PROVE  Inv'
<1>1. PICK c, docs, all : c = call[p].c /\ docs = commit[c] /\ all = AllOf(p)
  OBVIOUS
<1>2. /\ c \in CommitId /\ c \notin acked /\ docs \in Seq(Document) /\ docs # <<>>
      /\ \A j \in DOMAIN docs : docs[j].commit = c /\ docs[j].seq = j - 1
  BY <1>1, WriterIs DEF Counted
<1>3. Singles(all, docs)
  <2>1. all = AddEvents(docs)
    BY <1>1 DEF AllOf
  <2>. QED
    BY <1>2, <2>1, SingleRequests
<1>4. PICK R : R = ToSet(all)
  OBVIOUS
<1>5. \A q \in R : /\ q \in Requests /\ q.do \in {"put", "list"} /\ q.awaited
                   /\ \E j \in DOMAIN docs : q.docs = <<docs[j]>>
  <2>1. SUFFICES ASSUME NEW q \in R
                 PROVE  /\ q \in Requests /\ q.do \in {"put", "list"} /\ q.awaited
                        /\ \E j \in DOMAIN docs : q.docs = <<docs[j]>>
    OBVIOUS
  <2>2. PICK k \in DOMAIN all : all[k] = q
    BY <1>4 DEF ToSet
  <2>3. /\ all \in Seq(Requests) /\ all[k].do \in {"put", "list"} /\ all[k].awaited
        /\ \E j \in DOMAIN docs : all[k].docs = <<docs[j]>>
    BY <1>3 DEF Singles
  <2>. QED
    BY <2>2, <2>3
<1>6. PICK todo \in Seq(R) : /\ todo = call[p].todo /\ todo # <<>>
                             /\ \A q \in R \ ToSet(todo) : Finished(q)
  <2>1. Progress(p)
    BY WriterIs
  <2>. QED
    BY <1>1, <1>4, <2>1 DEF Progress
<1>7. i \in DOMAIN todo /\ r = todo[i] /\ rest = RemoveAt(todo, i) /\ r \in R
  BY <1>6
<1>8. rest \in Seq(R) /\ ToSet(todo) = ToSet(rest) \cup {r}
  BY <1>7, RemoveAtType
<1>9. /\ r \in Requests /\ r.do \in {"put", "list"}
      /\ \E j \in DOMAIN docs : r.docs = <<docs[j]>>
  BY <1>5, <1>7
<1>10. \A j \in DOMAIN r.docs : Genuine(r.docs[j])
  <2>1. PICK j \in DOMAIN docs : r.docs = <<docs[j]>>
    BY <1>9
  <2>2. \A l \in DOMAIN r.docs : r.docs[l] = docs[j]
    BY <2>1
  <2>3. Genuine(docs[j])
    BY <1>1, <1>2, Originals DEF Inv
  <2>. QED
    BY <2>2, <2>3
<1>11. /\ Takes(r, o) /\ UNCHANGED <<driver, listing, commit, clock, marked, base>>
  BY DEF Effect
<1>12. r.do # "journal" /\ r.do # "incr" /\ r.do # "bulk"
  BY <1>9
<1>13. PICK new : new = New(r, o)
  OBVIOUS
<1>14. Stored' = Stored \cup Ids(new)
  BY <1>9, <1>10, <1>11, <1>12, <1>13, StoreStep
<1>15. Grows /\ counter' = counter
  BY <1>9, <1>10, <1>11, <1>12, StoreStep
<1>16. o.ok => Finished(r)'
  BY <1>9, <1>10, <1>11, <1>12, StoreStep
<1>17. /\ call'[p] = Going(p, rest) => o.ok /\ \E j \in DOMAIN rest : rest[j].awaited
       /\ call[p].c \in acked' => o.ok /\ \A j \in DOMAIN rest : ~rest[j].awaited
       /\ late' \subseteq late \cup ToSet(rest)
  <2>1. /\ call'[p] = Going(p, rest) => o.ok /\ \E j \in DOMAIN rest : rest[j].awaited
        /\ call[p].c \in acked' => o.ok /\ \A j \in DOMAIN rest : ~rest[j].awaited
    BY EffectCases
  <2>2. late' \subseteq late \cup ToSet(rest)
    BY EffectCases
  <2>. QED
    BY <2>1, <2>2
<1>18. \A j \in DOMAIN rest : rest[j] \in R
  BY <1>8
<1>19. o.ok => \A q \in R \ ToSet(rest) : Finished(q)'
  <2>1. SUFFICES ASSUME o.ok, NEW q \in R \ ToSet(rest)
                 PROVE  Finished(q)'
    OBVIOUS
  <2>2. CASE q = r
    BY <1>16, <2>1, <2>2
  <2>3. CASE q # r
    <3>1. Finished(q)
      BY <1>6, <1>8, <2>3
    <3>. QED
      BY <1>15, <3>1, FinishedGrows
  <2>. QED
    BY <2>2, <2>3
<1>20. call'[p] = Going(p, rest) => Progress(p)'
  <2>1. SUFFICES ASSUME call'[p] = Going(p, rest)
                 PROVE  Progress(p)'
    OBVIOUS
  <2>2. call'[p].c = c /\ call'[p].todo = rest
    BY <1>1, <2>1 DEF Going
  <2>3. AllOf(p)' = all
    BY <1>1, <1>11, <2>2 DEF AllOf, AddEvents, Dynamodb_addEvents
  <2>4. rest # <<>> /\ o.ok
    BY <1>17, <2>1
  <2>. QED
    BY <1>4, <1>8, <1>11, <1>19, <2>2, <2>3, <2>4 DEF Progress
<1>21. call[p].c \in acked' /\ Lossless' =>
         \A j \in DOMAIN commit[call[p].c] :
           /\ <<call[p].c, j - 1>> \in Stored'
           /\ listing => <<call[p].c, j - 1>> \in waiting' \cup marked'
  <2>1. SUFFICES ASSUME call[p].c \in acked'
                 PROVE  \A j \in DOMAIN docs :
                          /\ <<c, j - 1>> \in Stored'
                          /\ listing => <<c, j - 1>> \in waiting' \cup marked'
    BY <1>1
  <2>2. o.ok /\ ToSet(rest) = {}
    BY <1>5, <1>17, <1>18, <2>1 DEF ToSet
  <2>3. \A q \in R : Finished(q)'
    BY <1>19, <2>2
  <2>4. \A j \in DOMAIN all : Finished(all[j])'
    BY <1>4, <2>3 DEF ToSet
  <2>5. \A j \in DOMAIN docs : /\ Id(docs[j]) \in Stored'
                               /\ listing => Id(docs[j]) \in waiting' \cup marked'
    BY <1>2, <1>3, <1>11, <2>4, SinglesDone
  <2>6. \A j \in DOMAIN docs : Id(docs[j]) = <<c, j - 1>>
    BY <1>2 DEF Id
  <2>. QED
    BY <2>5, <2>6
<1>22. LateOK'
  <2>1. rest \in Seq(Requests)
    BY <1>5, <1>8
  <2>2. \A j \in DOMAIN rest :
          /\ driver = "azuretable" /\ rest[j].do \in {"put", "list"}
          /\ \E e \in CommitId : \E l \in DOMAIN commit[e] : rest[j].docs = <<commit[e][l]>>
    BY <1>1, <1>2, <1>5, <1>18
  <2>3. driver' = driver /\ commit' = commit
    BY <1>11
  <2>. QED
    BY <1>17, <2>1, <2>2, <2>3, LateAfter
<1>23. CutOK'
  <2>1. driver \notin AtOnce /\ driver \notin InOrder
    BY DEF AtOnce, InOrder
  <2>. QED
    BY <1>11, <1>14, <2>1, CutGrows
<1>24. NumbersOK' /\ RevisionIsUnique'
  BY <1>11 DEF NumbersOK, RevisionIsUnique
<1>25. CountsOK'
  <2>1. \A q \in Client : ~Waits(q)'
    BY <1>11 DEF Waits
  <2>. QED
    BY <1>11, <1>15, <2>1, CountsKept
<1>. QED
  BY <1>9, <1>10, <1>12, <1>20, <1>21, <1>22, <1>23, <1>24, <1>25, WriterStep

\* What a concatenation holds.
LEMMA Appended ==
  ASSUME NEW old \in Seq(Document), NEW new \in Seq(Document), NEW w, w = old \o new
  PROVE  /\ w \in Seq(Document)
         /\ \A j \in DOMAIN w : \/ j \in DOMAIN old /\ w[j] = old[j]
                                \/ \E l \in DOMAIN new : j = Len(old) + l /\ w[j] = new[l]
<1>1. w \in Seq(Document)
  BY IdsAppend
<1>2. \A j \in DOMAIN old : w[j] = old[j]
  BY IdsAppend
<1>3. \A j \in DOMAIN w : j \in DOMAIN old \/ j - Len(old) \in DOMAIN new
  BY IdsAppend
<1>4. \A j \in DOMAIN new : w[Len(old) + j] = new[j]
  BY IdsAppend
<1>5. \A j \in DOMAIN w : j \in Int /\ Len(old) \in Int
  BY <1>1
<1>6. \A j \in DOMAIN w : j - Len(old) \in DOMAIN new => Len(old) + (j - Len(old)) = j
  BY <1>5
<1>. QED
  BY <1>1, <1>2, <1>3, <1>4, <1>6

\* The events with the revisions that the counter returned.
LEMMA NumberedIs ==
  ASSUME NEW docs \in Seq(Document), NEW first \in Nat,
         NEW s, s = Numbered(docs, first)
  PROVE  /\ s \in Seq(Document) /\ DOMAIN s = DOMAIN docs
         /\ \A i \in 1 .. Len(docs) : s[i].rev = first + i - 1
         /\ \A i \in DOMAIN s : s[i].commit = docs[i].commit /\ s[i].seq = docs[i].seq
         /\ Ids(s) = Ids(docs)
<1>1. PICK n \in Nat : n = Len(docs) /\ DOMAIN docs = 1 .. n
  OBVIOUS
<1>2. ASSUME NEW d \in Document, NEW v \in Nat
      PROVE  /\ [d EXCEPT !.rev = v] \in Document
             /\ [d EXCEPT !.rev = v].rev = v
             /\ [d EXCEPT !.rev = v].commit = d.commit /\ [d EXCEPT !.rev = v].seq = d.seq
  BY DEF Document
<1>3. \A i \in 1 .. n : docs[i] \in Document /\ first + i - 1 \in Nat
  BY <1>1
<1>4. \A i \in 1 .. n : s[i] = [docs[i] EXCEPT !.rev = first + i - 1]
  BY <1>1 DEF Numbered
<1>5. \A i \in 1 .. n : /\ s[i] \in Document /\ s[i].rev = first + i - 1
                        /\ s[i].commit = docs[i].commit /\ s[i].seq = docs[i].seq
  <2>1. SUFFICES ASSUME NEW i \in 1 .. n
                 PROVE  /\ s[i] \in Document /\ s[i].rev = first + i - 1
                        /\ s[i].commit = docs[i].commit /\ s[i].seq = docs[i].seq
    OBVIOUS
  <2>2. PICK d \in Document, v \in Nat : d = docs[i] /\ v = first + i - 1
    BY <1>3
  <2>3. s[i] = [d EXCEPT !.rev = v]
    BY <1>4, <2>2
  <2>. QED
    BY <1>2, <2>2, <2>3
<1>6. DOMAIN s = 1 .. n /\ s \in Seq(Document)
  <2>1. s = [i \in 1 .. n |-> [docs[i] EXCEPT !.rev = first + i - 1]]
    BY <1>1 DEF Numbered
  <2>2. s \in [1 .. n -> Document]
    BY <1>4, <1>5, <2>1
  <2>. QED
    BY <2>2
<1>7. Ids(s) = Ids(docs)
  <2>1. \A i \in 1 .. n : Id(s[i]) = Id(docs[i])
    BY <1>5 DEF Id
  <2>. QED
    BY <1>1, <1>6, <2>1 DEF Ids
<1>. QED
  BY <1>1, <1>5, <1>6, <1>7

SameNames(s, docs) ==
  \A i \in DOMAIN s : s[i].commit = docs[i].commit /\ s[i].seq = docs[i].seq

LEMMA NumberedNames ==
  ASSUME NEW docs \in Seq(Document), NEW first \in Nat
  PROVE  SameNames(Numbered(docs, first), docs)
<1>1. PICK s : s = Numbered(docs, first)
  OBVIOUS
<1>. QED
  BY <1>1, NumberedIs DEF SameNames

LEMMA NestedRanges ==
  ASSUME NEW a \in Nat, NEW b \in Nat, a <= b
  PROVE  /\ \A v \in 0 .. a - 1 : v \in 0 .. b - 1
         /\ \A v \in a .. b - 1 : v \in 0 .. b - 1
<1>1. \A v \in 0 .. a - 1 : v \in 0 .. b - 1
  OBVIOUS
<1>2. \A v \in a .. b - 1 : v \in 0 .. b - 1
  OBVIOUS
<1>. QED
  BY <1>1, <1>2

LEMMA NumberedRev ==
  ASSUME NEW docs \in Seq(Document), NEW first \in Nat, NEW i \in DOMAIN docs
  PROVE  Numbered(docs, first)[i].rev = first + i - 1
<1>1. PICK d \in Document, v \in Nat : d = docs[i] /\ v = first + i - 1
  OBVIOUS
<1>2. Numbered(docs, first)[i] = [d EXCEPT !.rev = v]
  BY <1>1 DEF Numbered
<1>3. [d EXCEPT !.rev = v].rev = v
  BY DEF Document
<1>. QED
  BY <1>1, <1>2, <1>3

\* redis: a client claims revisions for its events from the counter.
LEMMA WriteClaim ==
  ASSUME StoreAssumption, Inv, NEW p \in Client, Adds(p), driver = "redis",
         call[p].todo = AllOf(p), NEW r, r = call[p].todo[1], NEW o \in Outcomes(r),
         NEW rest, rest = <<Request("mset", Numbered(r.docs, counter))>>, Effect(p, r, o, rest)
  PROVE  Inv'
<1>1. PICK c, docs : c = call[p].c /\ docs = commit[c]
  OBVIOUS
<1>2. /\ c \in CommitId /\ c \notin acked /\ docs \in Seq(Document) /\ docs # <<>>
      /\ \A i \in DOMAIN docs : docs[i].commit = c /\ docs[i].seq = i - 1
  BY <1>1, WriterIs DEF Counted
<1>3. PICK n \in Nat : n = Len(docs) /\ DOMAIN docs = 1 .. n
  BY <1>2
<1>4. r = Request("incr", docs)
  <2>1. call[p].todo = <<Request("incr", docs), Request("mset", docs)>>
    BY <1>1, <1>2, BatchRequests DEF AllOf
  <2>. QED
    BY <2>1
<1>5. r \in Requests /\ r.do = "incr" /\ r.docs = docs
  <2>1. "incr" \in Verb
    BY DEF Verb
  <2>2. Request("incr", docs) \in Requests
    BY <1>2, <2>1, RequestIs
  <2>3. Request("incr", docs).do = "incr" /\ Request("incr", docs).docs = docs
    BY <1>2, <2>1, RequestIs
  <2>. QED
    BY <1>4, <2>2, <2>3
<1>6. counter \in Nat
  BY DEF Inv, TypeOK
<1>7. PICK s : s = Numbered(docs, counter)
  OBVIOUS
<1>8. /\ s \in Seq(Document) /\ DOMAIN s = DOMAIN docs
      /\ \A i \in DOMAIN s : s[i].rev = counter + i - 1
  <2>1. PICK first \in Nat : first = counter
    BY <1>6
  <2>2. s = Numbered(docs, first)
    BY <1>7, <2>1
  <2>3. s \in Seq(Document) /\ DOMAIN s = DOMAIN docs
    BY <1>2, <2>2, NumberedIs
  <2>4. ASSUME NEW i \in DOMAIN docs
        PROVE  s[i].rev = first + i - 1
    BY <1>2, <2>2, NumberedRev
  <2>. QED
    BY <1>3, <2>1, <2>3, <2>4
<1>9. PICK m \in Requests : m = Request("mset", s) /\ m.do = "mset" /\ m.docs = s /\ m.awaited = TRUE
  <2>1. "mset" \in Verb
    BY DEF Verb
  <2>. QED
    BY <1>8, <2>1, RequestIs
<1>10. rest = <<m>> /\ rest \in Seq(Requests) /\ DOMAIN rest = {1} /\ rest[1] = m
  <2>1. rest = <<m>>
    BY <1>5, <1>7, <1>9
  <2>. QED
    BY <2>1
<1>11. /\ Takes(r, o) /\ UNCHANGED <<driver, listing, commit, clock, marked, base>>
  BY DEF Effect
<1>12. r.do \notin Stores /\ r.do # "journal" /\ r.do # "list" /\ r.do # "bulk"
  BY <1>5 DEF Stores
<1>13. New(r, o) = <<>>
  BY <1>12 DEF New
<1>14. /\ events' = events \o New(r, o) /\ Stored' = Stored \cup Ids(New(r, o))
       /\ Grows /\ counter' \in Nat
  <2>1. /\ events' = events \o New(r, o) /\ Stored' = Stored \cup Ids(New(r, o))
    BY <1>5, <1>11, <1>12, StoreStep
  <2>2. Grows /\ counter' \in Nat
    BY <1>5, <1>11, <1>12, StoreStep
  <2>. QED
    BY <2>1, <2>2
<1>15. events' = events /\ Stored' = Stored
  <2>1. events \in Seq(Document)
    BY DEF Inv, EventsOK
  <2>2. Ids(<<>>) = {}
    BY DEF Ids
  <2>. QED
    BY <1>13, <1>14, <2>1, <2>2, ConcatEmptySeq
<1>16. counter' = IF o.ok THEN counter + n ELSE counter
  BY <1>3, <1>5, <1>11 DEF Takes
<1>17. /\ o.ok => call'[p] = Going(p, rest)
       /\ ~o.ok => call'[p] = Idle
       /\ \A q \in Client : q # p => call'[q] = call[q]
       /\ call[p].c \notin acked' /\ late' = late
  <2>1. rest[1].awaited
    BY <1>9, <1>10
  <2>2. /\ call'[p] = Going(p, rest) => o.ok /\ \E j \in DOMAIN rest : rest[j].awaited
        /\ call[p].c \in acked' => o.ok /\ \A j \in DOMAIN rest : ~rest[j].awaited
    BY EffectCases
  <2>3. driver # "azuretable" /\ late' # late => \A j \in DOMAIN rest : ~rest[j].awaited
    BY EffectCases
  <2>4. \A q \in Client : q # p => call'[q] = call[q]
    BY EffectCases
  <2>5. call'[p] = Idle \/ call'[p] = Going(p, rest)
    BY EffectCases
  <2>6. Going(p, rest).pc = "adding" /\ Idle.pc = "idle"
    BY DEF Going, Idle
  <2>7. o.ok => call'[p] = Going(p, rest)
    BY <1>10, <1>11, <2>1 DEF Effect, Inv, Setting
  <2>. QED
    BY <1>10, <2>1, <2>2, <2>3, <2>4, <2>5, <2>6, <2>7
<1>18. Going(p, rest).pc = "adding" /\ Going(p, rest).c = c /\ Going(p, rest).todo = rest
  BY <1>1 DEF Going
<1>19. call'[p] = Going(p, rest) => Progress(p)'
  <2>1. SUFFICES ASSUME call'[p] = Going(p, rest)
                 PROVE  Progress(p)'
    OBVIOUS
  <2>2. commit'[call'[p].c] = docs /\ call'[p].todo = rest
    BY <1>1, <1>11, <1>18, <2>1
  <2>3. counter \in 0 .. counter'
    BY <1>3, <1>6, <1>16
  <2>4. rest = <<Request("mset", Numbered(docs, counter))>>
    BY <1>5
  <2>5. \E first \in 0 .. counter' :
          call'[p].todo = <<Request("mset", Numbered(commit'[call'[p].c], first))>>
    BY <2>2, <2>3, <2>4
  <2>. QED
    BY <1>11, <2>5 DEF Progress, Request, Numbered
<1>20. LateOK'
  BY <1>11, <1>17 DEF Inv, LateOK
<1>21. CutOK'
  <2>1. driver \in AtOnce
    BY DEF AtOnce
  <2>2. PICK none \in Seq(Document) : none = <<>> /\ DOMAIN none = {}
    <3>1. <<>> \in Seq(Document) /\ DOMAIN <<>> = {}
      OBVIOUS
    <3>. QED
      BY <3>1
  <2>3. events' = events \o none
    BY <1>13, <1>14, <2>2
  <2>4. call'[p] = Idle \/ call'[p].c = call[p].c
    BY <1>1, <1>17, <1>18
  <2>. QED
    BY <1>11, <1>15, <1>17, <2>1, <2>2, <2>3, <2>4, WholeStored
<1>22. Idle.pc = "idle"
  BY DEF Idle
<1>23. CountsOK'
  <2>1. CASE ~o.ok
    <3>1. \A q \in Client : Waits(q)' => Waits(q) /\ call'[q].c = call[q].c
      BY <1>11, <1>17, <1>22, <2>1 DEF Waits, Adds
    <3>. QED
      BY <1>11, <1>16, <2>1, <3>1, CountsKept
  <2>2. CASE o.ok
    <3>1. /\ \A id : id \in Ids(docs) <=> \E k \in 0 .. Len(docs) - 1 : id = <<c, k>>
          /\ IsFiniteSet(Ids(docs)) /\ Cardinality(Ids(docs)) = n
      BY <1>2, <1>3, CommitIds
    <3>2. /\ IsFiniteSet(Made) /\ Cardinality(Made) \in Nat
          /\ counter \in 0 .. Cardinality(Made \ Unclaimed)
      BY FS_CardinalityType DEF Inv, CountsOK
    <3>3. Made' = Made /\ Ids(docs) \subseteq Made
      BY <1>1, <1>2, <1>11 DEF Made, Ids
    <3>4. Ids(docs) \subseteq Unclaimed
      <4>1. Waits(p)
        BY <1>5 DEF Waits
      <4>. QED
        BY <1>1, <4>1 DEF Unclaimed
    <3>5. Unclaimed' \subseteq Unclaimed \ Ids(docs)
      <4>1. SUFFICES ASSUME NEW q \in Client, Waits(q)'
                     PROVE  Ids(commit[call[q].c])' \subseteq Unclaimed \ Ids(docs)
        BY DEF Unclaimed
      <4>2. q # p
        BY <1>9, <1>10, <1>17, <1>18, <2>2, <4>1 DEF Waits
      <4>3. call'[q] = call[q] /\ Waits(q) /\ Adds(q)
        BY <1>11, <1>17, <4>1, <4>2 DEF Waits, Adds
      <4>4. PICK e, old : e = call[q].c /\ old = commit[e]
        OBVIOUS
      <4>5. /\ e \in CommitId /\ old \in Seq(Document)
            /\ \A i \in DOMAIN old : old[i].commit = e /\ old[i].seq = i - 1
        BY <4>3, <4>4, WriterIs DEF Counted
      <4>6. e # c
        BY <1>1, <4>2, <4>3, <4>4 DEF Inv, WritesOK, WriteOK
      <4>7. \A id \in Ids(old) : \E k \in 0 .. Len(old) - 1 : id = <<e, k>>
        BY <4>5, CommitIds
      <4>8. Ids(old) \cap Ids(docs) = {}
        <5>1. SUFFICES ASSUME NEW id \in Ids(old), id \in Ids(docs)
                       PROVE  FALSE
          OBVIOUS
        <5>2. id[1] = e
          BY <4>7
        <5>3. id[1] = c
          BY <3>1, <5>1
        <5>. QED
          BY <4>6, <5>2, <5>3
      <4>9. Ids(old) \subseteq Unclaimed
        BY <4>3, <4>4 DEF Unclaimed
      <4>10. Ids(commit[call[q].c])' = Ids(old)
        BY <1>11, <4>3, <4>4 DEF Ids
      <4>. QED
        BY <4>8, <4>9, <4>10
    <3>6. PICK A, B : A = Made \ Unclaimed /\ B = Made' \ Unclaimed'
      OBVIOUS
    <3>7. A \cup Ids(docs) \subseteq B /\ A \cap Ids(docs) = {}
      BY <3>3, <3>4, <3>5, <3>6
    <3>8. IsFiniteSet(A) /\ IsFiniteSet(B)
      BY <3>2, <3>3, <3>6, FS_Difference
    <3>9. /\ IsFiniteSet(A \cup Ids(docs))
          /\ Cardinality(A \cup Ids(docs))
               = Cardinality(A) + Cardinality(Ids(docs)) - Cardinality(A \cap Ids(docs))
      BY <3>1, <3>8, FS_Union
    <3>10. Cardinality(A \cap Ids(docs)) = 0
      BY <3>7, FS_EmptySet
    <3>11. /\ Cardinality(A \cup Ids(docs)) <= Cardinality(B)
           /\ Cardinality(A) \in Nat /\ Cardinality(B) \in Nat
      BY <3>7, <3>8, FS_Subset, FS_CardinalityType
    <3>12. counter + n <= Cardinality(B)
      BY <1>3, <1>6, <3>1, <3>2, <3>6, <3>9, <3>10, <3>11
    <3>13. counter' \in 0 .. Cardinality(Made' \ Unclaimed')
      BY <1>14, <1>16, <2>2, <3>6, <3>11, <3>12
    <3>. QED
      BY <1>11, <3>3, <3>13 DEF Inv, CountsOK
  <2>. QED
    BY <2>1, <2>2
<1>24. NumbersOK'
  <2>1. /\ \A i \in DOMAIN events : events[i].rev \in Nat /\ events[i].rev < counter
        /\ \A q \in Client : Claims(q) =>
             /\ Claimed(q) \subseteq 0 .. counter - 1
             /\ \A i \in DOMAIN events : events[i].rev \notin Claimed(q)
             /\ \A u \in Client : Claims(u) /\ u # q => Claimed(q) \cap Claimed(u) = {}
    <3>1. \A i \in DOMAIN events : events[i].rev \in Nat
      <4>1. \A i \in DOMAIN events : events[i] \in Document
        BY DEF Inv, EventsOK
      <4>. QED
        BY <4>1 DEF Document
    <3>. QED
      BY <3>1 DEF Inv, NumbersOK
  <2>2. counter <= counter' /\ \A i \in DOMAIN events' : events'[i].rev < counter'
    BY <1>3, <1>6, <1>15, <1>16, <2>1
  <2>3. \A q \in Client : q # p => Claims(q)' = Claims(q) /\ Claimed(q)' = Claimed(q)
    BY <1>17 DEF Claims, Claimed, Adds
  <2>4. Claims(p)' => Claimed(p)' = {s[i].rev : i \in DOMAIN s}
    BY <1>9, <1>10, <1>17, <1>18, <1>22 DEF Claims, Claimed, Adds
  <2>5. Claims(p)' => o.ok
    BY <1>17, <1>22 DEF Claims, Adds
  <2>6. \A v \in {s[i].rev : i \in DOMAIN s} : v \in counter .. counter + n - 1
    BY <1>3, <1>6, <1>8
  <2>7. Claims(p)' => Claimed(p)' \subseteq counter .. counter' - 1
    <3>1. o.ok => counter' - 1 = counter + n - 1
      BY <1>3, <1>6, <1>16
    <3>. QED
      BY <2>4, <2>5, <2>6, <3>1
  <2>8. \A v \in 0 .. counter - 1 : v \notin counter .. counter' - 1
    BY <1>6
  <2>9. \A q \in Client \ {p} : Claims(q) => Claimed(q) \cap (counter .. counter' - 1) = {}
    BY <2>1, <2>8
  <2>10. \A i \in DOMAIN events : events[i].rev \notin counter .. counter' - 1
    BY <1>6, <2>1
  <2>11. \A q \in Client : Claims(q)' => Claimed(q)' \subseteq 0 .. counter' - 1
    <3>3. PICK a \in Nat, b \in Nat : a = counter /\ b = counter' /\ a <= b
      BY <1>6, <1>14, <2>2
    <3>4. /\ \A v \in 0 .. a - 1 : v \in 0 .. b - 1
          /\ \A v \in a .. b - 1 : v \in 0 .. b - 1
      BY <3>3, NestedRanges
    <3>1. \A v \in 0 .. counter - 1 : v \in 0 .. counter' - 1
      BY <3>3, <3>4
    <3>2. \A v \in counter .. counter' - 1 : v \in 0 .. counter' - 1
      BY <3>3, <3>4
    <3>. QED
      BY <2>1, <2>3, <2>7, <3>1, <3>2
  <2>12. \A q \in Client : Claims(q)' => \A i \in DOMAIN events' : events'[i].rev \notin Claimed(q)'
    BY <1>15, <2>1, <2>3, <2>7, <2>10
  <2>13. \A q, u \in Client : Claims(q)' /\ Claims(u)' /\ u # q => Claimed(q)' \cap Claimed(u)' = {}
    <3>1. SUFFICES ASSUME NEW q \in Client, NEW u \in Client, Claims(q)', Claims(u)', u # q
                   PROVE  Claimed(q)' \cap Claimed(u)' = {}
      OBVIOUS
    <3>2. CASE q # p /\ u # p
      BY <2>1, <2>3, <3>1, <3>2
    <3>3. CASE q = p
      BY <2>3, <2>7, <2>9, <3>1, <3>3
    <3>4. CASE u = p
      BY <2>3, <2>7, <2>9, <3>1, <3>4
    <3>. QED
      BY <3>2, <3>3, <3>4
  <2>. QED
    BY <2>2, <2>11, <2>12, <2>13 DEF NumbersOK
<1>25. RevisionIsUnique'
  BY <1>11, <1>15 DEF Inv, RevisionIsUnique
<1>. QED
  BY <1>5, <1>12, <1>17, <1>19, <1>20, <1>21, <1>23, <1>24, <1>25, WriterStep

\* redis: a client stores its events with the revisions it claimed.
LEMMA WriteNumbered ==
  ASSUME StoreAssumption, Inv, NEW p \in Client, Adds(p), driver = "redis",
         NEW first \in 0 .. counter, NEW s, s = Numbered(commit[call[p].c], first),
         call[p].todo = <<Request("mset", s)>>, NEW r, r = call[p].todo[1], NEW o \in Outcomes(r),
         NEW rest, rest = <<>>, Effect(p, r, o, rest)
  PROVE  Inv'
<1>1. PICK c, docs : c = call[p].c /\ docs = commit[c]
  OBVIOUS
<1>2. /\ c \in CommitId /\ c \notin acked /\ docs \in Seq(Document) /\ docs # <<>>
      /\ \A i \in DOMAIN docs : docs[i].commit = c /\ docs[i].seq = i - 1
  BY <1>1, WriterIs DEF Counted
<1>3. PICK n \in Nat : n = Len(docs) /\ DOMAIN docs = 1 .. n
  BY <1>2
<1>4. counter \in Nat
  BY DEF Inv, TypeOK
<1>5. PICK f \in Nat : f = first /\ s = Numbered(docs, f)
  BY <1>1, <1>4
<1>6. /\ s \in Seq(Document) /\ DOMAIN s = DOMAIN docs /\ Ids(s) = Ids(docs)
      /\ \A i \in DOMAIN s : s[i].commit = docs[i].commit /\ s[i].seq = docs[i].seq
  <2>1. s \in Seq(Document) /\ DOMAIN s = DOMAIN docs /\ Ids(s) = Ids(docs)
    BY <1>2, <1>5, NumberedIs
  <2>2. \A i \in DOMAIN s : s[i].commit = docs[i].commit /\ s[i].seq = docs[i].seq
    <3>1. SameNames(Numbered(docs, f), docs)
      BY <1>2, NumberedNames
    <3>. QED
      BY <1>5, <3>1 DEF SameNames
  <2>. QED
    BY <2>1, <2>2
<1>7. \A i \in 1 .. n : s[i].rev = f + i - 1
  <2>1. ASSUME NEW i \in DOMAIN docs
        PROVE  s[i].rev = f + i - 1
    <3>1. Numbered(docs, f)[i].rev = f + i - 1
      BY <1>2, NumberedRev
    <3>. QED
      BY <1>5, <3>1
  <2>. QED
    BY <1>3, <2>1
<1>8. r \in Requests /\ r.do = "mset" /\ r.docs = s /\ call[p].todo[1] = r
  <2>1. "mset" \in Verb
    BY DEF Verb
  <2>2. Request("mset", s) \in Requests
    BY <1>6, <2>1, RequestIs
  <2>3. Request("mset", s).do = "mset" /\ Request("mset", s).docs = s
    BY <1>6, <2>1, RequestIs
  <2>4. r = Request("mset", s)
    OBVIOUS
  <2>. QED
    BY <2>2, <2>3, <2>4
<1>9. \A i \in DOMAIN r.docs : Genuine(r.docs[i])
  <2>1. SUFFICES ASSUME NEW i \in DOMAIN docs
                 PROVE  Genuine(s[i])
    BY <1>6, <1>8
  <2>2. s[i].commit = c /\ s[i].seq = i - 1
    BY <1>2, <1>6
  <2>3. i \in Int /\ (i - 1) + 1 = i
    BY <1>3
  <2>. QED
    BY <1>1, <2>2, <2>3 DEF Genuine
<1>10. /\ Takes(r, o) /\ UNCHANGED <<driver, listing, commit, clock, marked, base>>
  BY DEF Effect
<1>11. r.do \in Stores /\ r.do # "journal" /\ r.do # "list" /\ r.do # "incr" /\ r.do # "bulk"
  BY <1>8 DEF Stores
<1>12. PICK new : new = New(r, o)
  OBVIOUS
<1>13. /\ new \in Seq(Document) /\ events' = events \o new
       /\ Stored' = Stored \cup Ids(new)
  BY <1>8, <1>9, <1>10, <1>11, <1>12, StoreStep
<1>14. Grows /\ counter' = counter
  BY <1>8, <1>9, <1>10, <1>11, StoreStep
<1>15. /\ o.ok => new = s /\ o.docs = s
       /\ ~o.ok => new = <<>>
  <2>1. faults \in 0 .. MaxFaults
    BY DEF Inv, TypeOK
  <2>2. /\ o.fault \in {0, 1}
        /\ o.ok /\ (r.do # "bulk" \/ o.fault = 0) => o.docs = r.docs
        /\ o.fault = 0 /\ (\A j \in DOMAIN r.docs : ~Refuses(r, r.docs[j])) => o.ok
        /\ o.fault = 1 /\ r.do \notin {"insert", "bulk"} => o.docs = <<>> /\ ~o.ok
    BY <1>8, <2>1, OutcomeCases
  <2>3. \A j \in DOMAIN r.docs : ~Refuses(r, r.docs[j])
    BY <1>8 DEF Refuses
  <2>4. new = o.docs
    BY <1>11, <1>12 DEF New
  <2>. QED
    BY <1>8, <2>2, <2>3, <2>4
<1>16. DOMAIN rest = {} /\ ToSet(rest) = {} /\ rest \in Seq(Requests)
  <2>1. PICK none : none = <<>> /\ DOMAIN none = {} /\ none \in Seq(Requests)
    <3>1. DOMAIN <<>> = {} /\ <<>> \in Seq(Requests)
      OBVIOUS
    <3>. QED
      BY <3>1
  <2>. QED
    BY <2>1 DEF ToSet
<1>17. /\ call'[p] = Idle /\ Idle.pc = "idle"
       /\ \A q \in Client : q # p => call'[q] = call[q]
       /\ call[p].c \in acked' => o.ok
       /\ late' \subseteq late
  <2>1. call[p].c \in acked' => o.ok /\ \A j \in DOMAIN rest : ~rest[j].awaited
    BY EffectCases
  <2>2. late' \subseteq late \cup ToSet(rest)
    BY EffectCases
  <2>3. \A q \in Client : q # p => call'[q] = call[q]
    BY EffectCases
  <2>4. ~(o.ok /\ \E j \in DOMAIN rest : rest[j].awaited) => call'[p] = Idle
    BY EffectCases
  <2>. QED
    BY <1>16, <2>1, <2>2, <2>3, <2>4 DEF Idle
<1>18. call'[p] # Going(p, rest)
  BY <1>17 DEF Going
<1>19. call[p].c \in acked' /\ Lossless' =>
         \A j \in DOMAIN commit[call[p].c] :
           /\ <<call[p].c, j - 1>> \in Stored'
           /\ listing => <<call[p].c, j - 1>> \in waiting' \cup marked'
  <2>1. SUFFICES ASSUME o.ok
                 PROVE  Ids(docs) \subseteq Stored' /\ Ids(docs) \subseteq waiting'
    <3>1. \A j \in DOMAIN docs : Id(docs[j]) = <<c, j - 1>>
      BY <1>2 DEF Id
    <3>2. \A j \in DOMAIN docs : <<c, j - 1>> \in Ids(docs)
      BY <3>1 DEF Ids
    <3>. QED
      BY <1>1, <1>17, <3>2
  <2>2. waiting' = waiting \cup Ids(o.docs)
    BY <1>8, <1>10 DEF Takes
  <2>. QED
    BY <1>6, <1>13, <1>15, <2>1, <2>2
<1>20. LateOK'
  BY <1>10, <1>17 DEF Inv, LateOK
<1>21. CutOK'
  <2>1. driver \in AtOnce /\ Stored \subseteq Stored'
    BY <1>13 DEF AtOnce
  <2>2. \A i \in DOMAIN new : new[i].commit = call[p].c
    <3>1. CASE o.ok
      BY <1>1, <1>2, <1>6, <1>15, <3>1
    <3>2. CASE ~o.ok
      <4>1. DOMAIN new = {}
        BY <1>13, <1>15, <3>2
      <4>. QED
        BY <4>1
    <3>. QED
      BY <3>1, <3>2
  <2>3. new # <<>> => Ids(commit[call[p].c]) \subseteq Stored' /\ call'[p] = Idle
    BY <1>1, <1>6, <1>13, <1>15, <1>17
  <2>. QED
    BY <1>10, <1>13, <1>17, <2>1, <2>2, <2>3, WholeStored
<1>22. CountsOK'
  <2>1. \A q \in Client : Waits(q)' => Waits(q) /\ call'[q].c = call[q].c
    BY <1>10, <1>17 DEF Waits, Adds
  <2>. QED
    BY <1>10, <1>14, <2>1, CountsKept
<1>23. /\ Claims(p) /\ Claimed(p) = {s[i].rev : i \in DOMAIN s}
       /\ \A i \in DOMAIN events : events[i].rev < counter /\ events[i].rev \notin Claimed(p)
       /\ Claimed(p) \subseteq 0 .. counter - 1
       /\ \A q \in Client : Claims(q) =>
            /\ Claimed(q) \subseteq 0 .. counter - 1
            /\ \A i \in DOMAIN events : events[i].rev \notin Claimed(q)
            /\ \A u \in Client : Claims(u) /\ u # q => Claimed(q) \cap Claimed(u) = {}
  <2>1. Claims(p) /\ Claimed(p) = {s[i].rev : i \in DOMAIN s}
    BY <1>8 DEF Claims, Claimed
  <2>. QED
    BY <2>1 DEF Inv, NumbersOK
<1>24. PICK old \in Seq(Document) : old = events
  BY DEF Inv, EventsOK
<1>29. PICK w : w = old \o new /\ w = events'
  BY <1>13, <1>24
<1>25. \A j \in DOMAIN w : \/ j \in DOMAIN old /\ w[j] = old[j]
                           \/ \E l \in DOMAIN new : j = Len(old) + l /\ w[j] = new[l]
  <2>1. new \in Seq(Document) /\ w = old \o new
    BY <1>13, <1>29
  <2>. QED
    BY <2>1, Appended
<1>26. \A l \in DOMAIN new : l \in DOMAIN s /\ new[l] = s[l] /\ new[l].rev \in Claimed(p)
  <2>1. ~o.ok => DOMAIN new = {}
    BY <1>13, <1>15
  <2>. QED
    BY <1>15, <1>23, <2>1
<1>27. NumbersOK'
  <2>1. \A j \in DOMAIN w : w[j].rev < counter
    <3>1. \A v \in Claimed(p) : v < counter
      <4>1. PICK m \in Nat : m = counter
        BY DEF Inv, TypeOK
      <4>2. \A v \in 0 .. m - 1 : v < m
        OBVIOUS
      <4>. QED
        BY <1>23, <4>1, <4>2, Zenon
    <3>. QED
      BY <1>23, <1>24, <1>25, <1>26, <3>1
  <2>2. \A q \in Client : Claims(q)' => q # p /\ Claims(q) /\ Claimed(q)' = Claimed(q)
    BY <1>17 DEF Claims, Claimed, Adds
  <2>3. \A q \in Client : Claims(q)' => \A j \in DOMAIN w : w[j].rev \notin Claimed(q)
    <3>1. SUFFICES ASSUME NEW q \in Client, Claims(q)', NEW j \in DOMAIN w
                   PROVE  w[j].rev \notin Claimed(q)
      OBVIOUS
    <3>2. Claims(q) /\ q # p /\ Claimed(p) \cap Claimed(q) = {}
      BY <1>23, <2>2, <3>1
    <3>3. CASE j \in DOMAIN old /\ w[j] = old[j]
      BY <1>23, <1>24, <3>2, <3>3
    <3>4. CASE \E l \in DOMAIN new : j = Len(old) + l /\ w[j] = new[l]
      BY <1>26, <3>2, <3>4
    <3>. QED
      BY <1>25, <3>3, <3>4
  <2>4. \A q, u \in Client : Claims(q)' /\ Claims(u)' /\ u # q => Claimed(q)' \cap Claimed(u)' = {}
    BY <1>23, <2>2
  <2>5. \A q \in Client : Claims(q)' => Claimed(q)' \subseteq 0 .. counter' - 1
    BY <1>14, <1>23, <2>2
  <2>. QED
    BY <1>14, <1>29, <2>1, <2>2, <2>3, <2>4, <2>5 DEF NumbersOK
<1>28. RevisionIsUnique'
  <2>1. \A i, j \in DOMAIN old : old[i].rev = old[j].rev => i = j
    BY <1>24 DEF Inv, RevisionIsUnique
  <2>2. ASSUME NEW i \in DOMAIN w, NEW j \in DOMAIN w, w[i].rev = w[j].rev
        PROVE  i = j
    <3>1. CASE i \in DOMAIN old /\ w[i] = old[i]
      <4>1. w[i].rev \notin Claimed(p)
        BY <1>23, <1>24, <3>1
      <4>2. j \in DOMAIN old /\ w[j] = old[j]
        BY <1>25, <1>26, <2>2, <4>1
      <4>. QED
        BY <2>1, <2>2, <3>1, <4>2
    <3>2. CASE \E l \in DOMAIN new : i = Len(old) + l /\ w[i] = new[l]
      <4>1. PICK l \in DOMAIN new : i = Len(old) + l /\ w[i] = new[l]
        BY <3>2
      <4>2. w[j].rev \in Claimed(p)
        BY <1>26, <2>2, <4>1
      <4>3. ~(j \in DOMAIN old /\ w[j] = old[j])
        BY <1>23, <1>24, <4>2
      <4>4. PICK m \in DOMAIN new : j = Len(old) + m /\ w[j] = new[m]
        BY <1>25, <4>3
      <4>5. /\ l \in 1 .. n /\ m \in 1 .. n /\ s[l].rev = s[m].rev
        BY <1>3, <1>6, <1>26, <2>2, <4>1, <4>4
      <4>6. f + l - 1 = f + m - 1
        BY <1>7, <4>5
      <4>7. l = m
        BY <4>5, <4>6
      <4>. QED
        BY <4>1, <4>4, <4>7
    <3>. QED
      BY <1>25, <3>1, <3>2
  <2>. QED
    BY <1>29, <2>2 DEF RevisionIsUnique
<1>. QED
  BY <1>8, <1>9, <1>11, <1>18, <1>19, <1>20, <1>21, <1>22, <1>27, <1>28, WriterStep

\* Every write of a client.
LEMMA WriteStep ==
  ASSUME StoreAssumption, Inv, NEW p \in Client, Write(p)
  PROVE  Inv'
<1>1. Adds(p)
  BY DEF Write, Adds
<1>2. PICK i \in Pending(p) :
        LET r    == call[p].todo[i]
            left == RemoveAt(call[p].todo, i)
            rest == IF r.do = "incr"
                    THEN <<Request("mset", Numbered(r.docs, counter))>> ELSE left
        IN  \E o \in Outcomes(r) :
              /\ Takes(r, o)
              /\ IF o.ok /\ \E j \in DOMAIN rest : rest[j].awaited
                 THEN /\ call' = [call EXCEPT ![p].todo = rest]
                      /\ UNCHANGED <<acked, late>>
                 ELSE /\ call' = [call EXCEPT ![p] = Idle]
                      /\ acked' = IF o.ok THEN acked \cup {call[p].c} ELSE acked
                      /\ late' = IF o.ok \/ driver = "azuretable"
                                 THEN late \cup ToSet(rest) ELSE late
  BY DEF Write
<1>3. PICK r, left, rest : /\ r = call[p].todo[i]
                           /\ left = RemoveAt(call[p].todo, i)
                           /\ rest = IF r.do = "incr"
                                     THEN <<Request("mset", Numbered(r.docs, counter))>> ELSE left
  OBVIOUS
<1>4. PICK o \in Outcomes(r) :
        /\ Takes(r, o)
        /\ IF o.ok /\ \E j \in DOMAIN rest : rest[j].awaited
           THEN /\ call' = [call EXCEPT ![p].todo = rest]
                /\ UNCHANGED <<acked, late>>
           ELSE /\ call' = [call EXCEPT ![p] = Idle]
                /\ acked' = IF o.ok THEN acked \cup {call[p].c} ELSE acked
                /\ late' = IF o.ok \/ driver = "azuretable"
                           THEN late \cup ToSet(rest) ELSE late
  BY <1>2, <1>3
<1>5. Effect(p, r, o, rest)
  <2>1. UNCHANGED <<driver, listing, commit, clock, marked, base>>
    BY DEF Write
  <2>2. CASE o.ok /\ \E j \in DOMAIN rest : rest[j].awaited
    <3>1. call' = [call EXCEPT ![p] = Going(p, rest)]
      BY <1>1, <1>4, <2>2, GoingOn
    <3>. QED
      BY <1>4, <2>1, <2>2, <3>1 DEF Effect
  <2>3. CASE ~(o.ok /\ \E j \in DOMAIN rest : rest[j].awaited)
    BY <1>4, <2>1, <2>3 DEF Effect
  <2>. QED
    BY <2>2, <2>3
<1>6. Progress(p) /\ driver \in Driver
  BY <1>1, WriterIs DEF Inv, Setting
<1>7. PICK c, docs, all : c = call[p].c /\ docs = commit[c] /\ all = AllOf(p)
  OBVIOUS
<1>8. docs \in Seq(Document) /\ docs # <<>> /\ all = AddEvents(docs)
  BY <1>1, <1>7, WriterIs DEF AllOf
<1>9. CASE driver = "azuretable"
  <2>1. i \in DOMAIN call[p].todo
    BY <1>9 DEF Pending
  <2>2. r.do # "incr"
    <3>1. Singles(all, docs)
      BY <1>8, <1>9, SingleRequests
    <3>2. \A q \in ToSet(all) : q.do \in {"put", "list"}
      BY <3>1 DEF Singles, ToSet
    <3>3. call[p].todo \in Seq(ToSet(all))
      BY <1>6, <1>7, <1>9 DEF Progress
    <3>4. r \in ToSet(all)
      BY <1>3, <2>1, <3>3
    <3>. QED
      BY <3>2, <3>4
  <2>. QED
    BY <1>1, <1>3, <1>5, <1>9, <2>1, <2>2, WriteAny
<1>10. i = 1 \/ driver = "azuretable"
  BY DEF Pending
<1>11. CASE driver = "redis"
  <2>1. i = 1
    BY <1>10, <1>11
  <2>2. \/ call[p].todo = AllOf(p)
        \/ \E first \in 0 .. counter :
             call[p].todo = <<Request("mset", Numbered(commit[call[p].c], first))>>
    BY <1>6, <1>11 DEF Progress
  <2>3. CASE call[p].todo = AllOf(p)
    <3>1. r = Request("incr", docs)
      <4>1. call[p].todo = <<Request("incr", docs), Request("mset", docs)>>
        BY <1>7, <1>8, <1>11, <2>3, BatchRequests
      <4>. QED
        BY <1>3, <2>1, <4>1
    <3>2. r.do = "incr"
      BY <3>1 DEF Request
    <3>. QED
      BY <1>1, <1>3, <1>5, <1>11, <2>1, <2>3, <3>2, WriteClaim
  <2>4. CASE \E first \in 0 .. counter :
               call[p].todo = <<Request("mset", Numbered(commit[call[p].c], first))>>
    <3>1. PICK first \in 0 .. counter :
            call[p].todo = <<Request("mset", Numbered(commit[call[p].c], first))>>
      BY <2>4
    <3>2. PICK s : s = Numbered(commit[call[p].c], first)
      OBVIOUS
    <3>3. r = Request("mset", s) /\ call[p].todo = <<r>>
      BY <1>3, <2>1, <3>1, <3>2
    <3>4. r.do = "mset"
      BY <3>3 DEF Request
    <3>5. left = <<>>
      <4>1. SubSeq(<<r>>, 1, 1 - 1) = <<>> /\ SubSeq(<<r>>, 1 + 1, Len(<<r>>)) = <<>>
        BY SubSeqEmpty
      <4>2. RemoveAt(<<r>>, 1) = SubSeq(<<r>>, 1, 1 - 1) \o SubSeq(<<r>>, 1 + 1, Len(<<r>>))
        BY DEF RemoveAt
      <4>3. RemoveAt(<<r>>, 1) = <<>> \o <<>>
        BY <4>1, <4>2
      <4>. QED
        BY <1>3, <2>1, <3>3, <4>3
    <3>6. rest = <<>>
      BY <1>3, <3>4, <3>5
    <3>. QED
      BY <1>1, <1>3, <1>5, <1>11, <2>1, <3>1, <3>2, <3>6, WriteNumbered
  <2>. QED
    BY <2>2, <2>3, <2>4
<1>12. CASE driver \notin {"azuretable", "redis"}
  <2>1. i = 1
    BY <1>10, <1>12
  <2>2. PICK k \in DOMAIN all : /\ call[p].todo = SubSeq(all, k, Len(all))
                                /\ \A j \in 1 .. k - 1 : Finished(all[j])
    BY <1>6, <1>7, <1>12 DEF Progress
  <2>3. all \in Seq(Requests) /\ \A j \in DOMAIN all : all[j].do # "incr"
    <3>1. CASE driver \in {"mongodb", "tingodb"}
      BY <1>8, <3>1, MongodbRequests DEF Batches
    <3>2. CASE driver \in {"inmemory", "elasticsearch"}
      BY <1>8, <3>2, BatchRequests DEF Batches
    <3>3. CASE driver = "dynamodb"
      <4>1. Singles(all, docs)
        BY <1>8, <3>3, SingleRequests
      <4>2. all \in Seq(Requests) /\ \A j \in DOMAIN all : all[j].do \in {"put", "list"}
        BY <4>1 DEF Singles
      <4>. QED
        BY <4>2
    <3>. QED
      BY <1>6, <1>12, <3>1, <3>2, <3>3 DEF Driver
  <2>4. PICK t : t = call[p].todo
    OBVIOUS
  <2>5. t[1] = all[k] /\ RemoveAt(t, 1) = SubSeq(all, k + 1, Len(all))
    <3>1. t = SubSeq(all, k, Len(all))
      BY <2>2, <2>4
    <3>2. t[1] = all[k]
      BY <2>3, <3>1, SuffixStep
    <3>3. RemoveAt(t, 1) = SubSeq(all, k + 1, Len(all))
      BY <2>3, <3>1, SuffixStep
    <3>. QED
      BY <3>2, <3>3
  <2>6. r = all[k] /\ r.do # "incr" /\ rest = SubSeq(all, k + 1, Len(all))
    BY <1>3, <2>1, <2>3, <2>4, <2>5
  <2>7. CASE driver = "dynamodb"
    BY <1>1, <1>5, <1>7, <2>2, <2>6, <2>7, WriteSingle
  <2>8. CASE driver # "dynamodb"
    <3>1. driver \in {"mongodb", "tingodb", "inmemory", "elasticsearch"}
      BY <1>6, <1>12, <2>8 DEF Driver
    <3>. QED
      BY <1>1, <1>5, <1>7, <2>2, <2>6, <3>1, WriteBatch
  <2>. QED
    BY <2>7, <2>8
<1>. QED
  BY <1>9, <1>11, <1>12

-----------------------------------------------------------------------------
(* Requests nobody waits for, and repairs *)

\* A request takes effect that no client that adds events has sent.
LEMMA OthersStore ==
  ASSUME StoreAssumption, Inv, NEW r \in Requests, NEW o \in Outcomes(r), Takes(r, o),
         UNCHANGED <<driver, listing, commit, clock, marked, acked, base>>,
         r.do \in Stores => \A i \in DOMAIN r.docs : Genuine(r.docs[i]),
         r.do \notin {"journal", "incr"},
         r.do = "list" => driver = "azuretable",
         driver \in {"redis", "dynamodb"} => r.do \notin Stores,
         call' = [q \in Client |-> call'[q]],
         \A q \in Client : call'[q].pc \in {"idle", "adding", "asked", "lookup", "clean",
                                            "repair", "scan", "answered"},
         \A q \in Client : Adds(q)' => call'[q] = call[q],
         LateOK', CutOK', ReadsOK'
  PROVE  Inv'
<1>1. Grows /\ counter' \in Nat
  BY StoreStep
<1>2. counter' = counter
  BY StoreStep
<1>3. \A q \in Client : Adds(q)' => Adds(q) /\ call'[q] = call[q]
  BY DEF Adds
<1>4. WritesOK'
  <2>1. ASSUME NEW q \in Client, Adds(q)'
        PROVE  WriteOK(q)'
    <3>1. WriteOK(q) /\ Adds(q) /\ TypeOK /\ call'[q] = call[q]
      BY <1>3, <2>1 DEF Inv, WritesOK
    <3>2. Progress(q)'
      BY <1>1, <3>1, ProgressGrows
    <3>. QED
      BY <1>3, <3>1, <3>2 DEF WriteOK
  <2>. QED
    BY <2>1 DEF WritesOK, WriteOK
<1>5. driver \in {"redis", "dynamodb"} => events' = events
  BY DEF Takes, Stores
<1>6. NumbersOK'
  <2>1. \A q \in Client : Claims(q)' => Claims(q) /\ Claimed(q)' = Claimed(q)
    BY <1>3 DEF Claims, Claimed
  <2>. QED
    BY <1>2, <1>5, <2>1 DEF Inv, NumbersOK
<1>7. CountsOK'
  <2>1. \A q \in Client : Waits(q)' => Waits(q) /\ call'[q].c = call[q].c
    BY <1>3 DEF Waits
  <2>. QED
    BY <1>2, <2>1, CountsKept
<1>8. RevisionIsUnique'
  BY <1>5 DEF Inv, RevisionIsUnique
<1>. QED
  BY <1>4, <1>6, <1>7, <1>8, StoredStep

\* A request of a call that was answered.
LEMMA WriteLateStep ==
  ASSUME StoreAssumption, Inv, WriteLate
  PROVE  Inv'
<1>1. PICK r \in late, o \in UNION {Outcomes(q) : q \in late} :
        o \in Outcomes(r) /\ Takes(r, o) /\ late' = late \ {r}
  BY DEF WriteLate
<1>2. UNCHANGED <<driver, listing, commit, clock, marked, acked, base, call>>
  BY DEF WriteLate
<1>3. /\ r \in Requests
      /\ \/ r.do = "drop"
         \/ /\ driver = "azuretable" /\ r.do \in {"put", "list"}
            /\ \E c \in CommitId : \E i \in DOMAIN commit[c] : r.docs = <<commit[c][i]>>
  BY <1>1 DEF Inv, LateOK
<1>4. \A i \in DOMAIN r.docs : r.do # "drop" => Genuine(r.docs[i])
  <2>1. SUFFICES ASSUME NEW c \in CommitId, NEW k \in DOMAIN commit[c], r.docs = <<commit[c][k]>>
                 PROVE  \A i \in DOMAIN r.docs : Genuine(r.docs[i])
    BY <1>3
  <2>2. CommitsOK
    BY DEF Inv
  <2>3. Genuine(commit[c][k])
    BY <2>2, Originals
  <2>. QED
    BY <2>1, <2>3
<1>5. /\ r.do \in {"drop", "put", "list"} /\ "drop" \notin Stores
      /\ (r.do # "drop" => driver = "azuretable")
  BY <1>3 DEF Stores
<1>6. LateOK'
  BY <1>1, <1>2 DEF Inv, LateOK
<1>7. CutOK'
  <2>1. CASE r.do = "drop"
    <3>1. events' = events
      BY <1>1, <2>1 DEF Takes
    <3>2. Stored' = Stored
      BY <3>1 DEF Stored, Ids
    <3>. QED
      BY <1>2, <3>1, <3>2 DEF Inv, CutOK, Whole, Ids, Adds
  <2>2. CASE driver = "azuretable"
    BY <1>2, <2>2 DEF CutOK, AtOnce, InOrder
  <2>. QED
    BY <1>3, <2>1, <2>2
<1>8. ReadsOK'
  <2>1. /\ r.do \in Stores => \A i \in DOMAIN r.docs : Genuine(r.docs[i])
        /\ r.do # "journal"
        /\ ~(r.do = "list" /\ driver # "azuretable")
    BY <1>4, <1>5
  <2>2. Grows
    BY <1>1, <1>2, <1>3, <2>1, StoreStep
  <2>3. \A d : Kept(d) => Kept(d)'
    BY <1>1, <1>2, <1>3, <2>1, StoreStep
  <2>4. CommitsOK /\ \A q \in Client : ReadOK(q) /\ call'[q] = call[q]
    BY <1>2 DEF Inv, ReadsOK
  <2>5. \A q \in Client : ReadOK(q)'
    BY <2>2, <2>3, <2>4, ReaderGrows
  <2>. QED
    BY <2>5 DEF ReadsOK
<1>9. /\ call' = [q \in Client |-> call'[q]]
      /\ \A q \in Client : call'[q].pc \in {"idle", "adding", "asked", "lookup", "clean",
                                            "repair", "scan", "answered"}
      /\ \A q \in Client : Adds(q)' => call'[q] = call[q]
  BY <1>2 DEF Inv, Setting, TypeOK
<1>10. /\ r.do \in Stores => \A i \in DOMAIN r.docs : Genuine(r.docs[i])
       /\ r.do \notin {"journal", "incr"}
       /\ r.do = "list" => driver = "azuretable"
       /\ driver \in {"redis", "dynamodb"} => r.do \notin Stores
  BY <1>4, <1>5
<1>. QED
  BY <1>1, <1>2, <1>3, <1>6, <1>7, <1>8, <1>9, <1>10, OthersStore

\* A repair stores what follows on the events that are there.
LEMMA SuffixIds ==
  ASSUME NEW c \in CommitId, NEW docs \in Seq(Document),
         \A j \in DOMAIN docs : docs[j].commit = c /\ docs[j].seq = j - 1,
         NEW i \in 2 .. Len(docs), NEW t, t = SubSeq(docs, i, Len(docs)),
         NEW m \in 0 .. Len(t), NEW new, new = SubSeq(t, 1, m),
         NEW S, \A k \in 0 .. i - 2 : <<c, k>> \in S
  PROVE  \A id \in Ids(new) : \A n \in 0 .. id[2] - 1 : <<id[1], n>> \in S \cup Ids(new)
<1>1. i \in DOMAIN docs /\ i \in Nat /\ i >= 2
  <2>1. DOMAIN docs = 1 .. Len(docs) /\ Len(docs) \in Nat
    OBVIOUS
  <2>. QED
    BY <2>1
<1>2. t \in Seq(Document)
  BY <1>1, SuffixStep
<1>3. \A j \in DOMAIN t : t[j] = docs[i + j - 1] /\ i + j - 1 \in DOMAIN docs
  BY <1>1, SuffixStep
<1>4. new \in Seq(Document) /\ DOMAIN new = 1 .. m /\ m \in Nat
  BY <1>2, Prefix
<1>5. \A l \in 1 .. m : new[l] = t[l] /\ l \in DOMAIN t
  BY <1>2, Prefix
<1>6. \A l \in 1 .. m : Id(new[l]) = <<c, i + l - 2>>
  <2>1. ASSUME NEW l \in 1 .. m
        PROVE  Id(new[l]) = <<c, i + l - 2>>
    <3>1. new[l] = docs[i + l - 1] /\ i + l - 1 \in DOMAIN docs
      BY <1>3, <1>5
    <3>2. new[l].commit = c /\ new[l].seq = (i + l - 1) - 1
      BY <3>1
    <3>3. (i + l - 1) - 1 = i + l - 2
      BY <1>1, <1>4
    <3>. QED
      BY <3>2, <3>3 DEF Id
  <2>. QED
    BY <2>1
<1>7. ASSUME NEW l \in 1 .. m, NEW n \in 0 .. (i + l - 2) - 1
      PROVE  <<c, n>> \in S \cup Ids(new)
  <2>1. CASE n <= i - 2
    BY <1>1, <2>1
  <2>2. CASE n > i - 2
    <3>1. PICK u \in Int, v \in Int : u = i /\ v = n
      BY <1>1, <1>4
    <3>2. PICK a \in 1 .. m : i + a - 2 = n
      <4>1. v - (u - 2) \in 1 .. m /\ u + (v - (u - 2)) - 2 = v
        <5>1. PICK w \in Int : w = l /\ w <= m /\ v <= (u + w - 2) - 1
          BY <1>1, <1>4, <3>1
        <5>2. v - (u - 2) <= w /\ v > u - 2
          BY <2>2, <3>1, <5>1
        <5>3. v - (u - 2) \in 1 .. m
          BY <1>4, <5>1, <5>2
        <5>4. u + (v - (u - 2)) - 2 = v
          OBVIOUS
        <5>. QED
          BY <5>3, <5>4
      <4>. QED
        BY <3>1, <4>1
    <3>3. Id(new[a]) = <<c, n>>
      BY <1>6, <3>2
    <3>. QED
      BY <1>4, <3>2, <3>3 DEF Ids
  <2>. QED
    BY <1>1, <1>4, <2>1, <2>2
<1>8. ASSUME NEW id \in Ids(new), NEW n \in 0 .. id[2] - 1
      PROVE  <<id[1], n>> \in S \cup Ids(new)
  <2>1. PICK l \in 1 .. m : id = Id(new[l])
    BY <1>4 DEF Ids
  <2>2. id[1] = c /\ id[2] = i + l - 2
    BY <1>6, <2>1
  <2>. QED
    BY <1>7, <2>1, <2>2
<1>. QED
  BY <1>8

\* What the two requests of a repair are.
LEMMA RepairSends ==
  ASSUME NEW r \in Requests, NEW d, NEW todo, todo = <<r, d>>
  PROVE  todo[1] = r /\ Tail(todo) = <<d>>
OBVIOUS

LEMMA RepairEnds ==
  ASSUME NEW r \in Requests, NEW todo, todo = <<r>>
  PROVE  todo[1] = r /\ Tail(todo) = <<>>
OBVIOUS

\* The requests of a repair: the events that the commit lacks, then the journal.
LEMMA RepairIs ==
  ASSUME StoreAssumption, Inv, NEW p \in Client, call[p].pc = "repair",
         NEW r, r = call[p].todo[1], NEW rest, rest = Tail(call[p].todo), NEW o \in Outcomes(r)
  PROVE  /\ r \in Requests /\ r.do \in {"insert", "drop"}
         /\ \A i \in DOMAIN r.docs : Genuine(r.docs[i])
         /\ rest \in {<<>>, <<Drop(<<>>)>>}
         /\ \A id \in Ids(New(r, o)) : \A n \in 0 .. id[2] - 1 :
              <<id[1], n>> \in Stored \cup Ids(New(r, o))
<1>1. driver \in {"mongodb", "tingodb"} /\ driver \in InOrder
  BY DEF Inv, ReadsOK, ReadOK, InOrder
<1>2. faults \in 0 .. MaxFaults /\ CommitsOK
  BY DEF Inv, TypeOK
<1>3. CASE call[p].todo = <<Drop(<<>>)>>
  <2>1. r = Drop(<<>>) /\ rest = <<>>
    BY <1>3, RepairEnds, DropIs
  <2>2. r \in Requests /\ r.do = "drop" /\ r.docs = <<>>
    BY <2>1, DropIs
  <2>3. DOMAIN r.docs = {}
    BY <2>2
  <2>4. New(r, o) = <<>>
    BY <2>2 DEF New, Stores
  <2>5. Ids(New(r, o)) = {}
    <3>1. DOMAIN <<>> = {}
      OBVIOUS
    <3>2. PICK none : none = <<>> /\ DOMAIN none = {}
      BY <3>1
    <3>3. Ids(none) = {}
      BY <3>2 DEF Ids
    <3>. QED
      BY <2>4, <3>2, <3>3
  <2>. QED
    BY <2>1, <2>2, <2>3, <2>5
<1>4. CASE \E c \in CommitId : \E i \in 2 .. Len(commit[c]) :
             /\ <<c, i - 2>> \in Stored
             /\ call[p].todo = <<Request("insert", SubSeq(commit[c], i, Len(commit[c]))), Drop(<<>>)>>
  <2>1. PICK c \in CommitId : \E i \in 2 .. Len(commit[c]) :
             /\ <<c, i - 2>> \in Stored
             /\ call[p].todo = <<Request("insert", SubSeq(commit[c], i, Len(commit[c]))), Drop(<<>>)>>
    BY <1>4
  <2>2. PICK docs \in Seq(Document) : docs = commit[c]
    BY <1>2 DEF CommitsOK
  <2>3. PICK i \in 2 .. Len(docs) :
             /\ <<c, i - 2>> \in Stored
             /\ call[p].todo = <<Request("insert", SubSeq(docs, i, Len(docs))), Drop(<<>>)>>
    BY <2>1, <2>2
  <2>4. PICK t : t = SubSeq(docs, i, Len(docs))
    OBVIOUS
  <2>5. i \in DOMAIN docs /\ i \in Nat /\ i >= 2
    <3>1. DOMAIN docs = 1 .. Len(docs) /\ Len(docs) \in Nat
      OBVIOUS
    <3>. QED
      BY <3>1
  <2>6. t \in Seq(Document)
    BY <2>4, <2>5, SuffixStep
  <2>7. \A j \in DOMAIN t : t[j] = docs[i + j - 1] /\ i + j - 1 \in DOMAIN docs
    BY <2>4, <2>5, SuffixStep
  <2>8. PICK s \in Requests : s = Request("insert", t) /\ s.do = "insert" /\ s.docs = t
    <3>1. "insert" \in Verb
      BY DEF Verb
    <3>2. Request("insert", t) \in Requests
      BY <2>6, <3>1, RequestIs
    <3>3. Request("insert", t).do = "insert" /\ Request("insert", t).docs = t
      BY <2>6, <3>1, RequestIs
    <3>. QED
      BY <3>2, <3>3
  <2>9. r = s /\ rest = <<Drop(<<>>)>>
    <3>1. call[p].todo = <<s, Drop(<<>>)>>
      BY <2>3, <2>4, <2>8
    <3>. QED
      BY <3>1, RepairSends
  <2>10. \A j \in DOMAIN r.docs : Genuine(r.docs[j])
    <3>1. SUFFICES ASSUME NEW j \in DOMAIN t
                   PROVE  Genuine(t[j])
      BY <2>8, <2>9
    <3>2. PICK k \in DOMAIN commit[c] : t[j] = commit[c][k]
      BY <2>2, <2>7
    <3>. QED
      BY <1>2, <3>2, Originals
  <2>11. \A j \in DOMAIN docs : docs[j].commit = c /\ docs[j].seq = j - 1
    BY <1>2, <2>2 DEF CommitsOK, Counted
  <2>12. PICK m \in 0 .. Len(t) : New(r, o) = SubSeq(t, 1, m)
    <3>1. New(r, o) = o.docs
      BY <2>8, <2>9 DEF New, Stores
    <3>2. \E m \in 0 .. Len(r.docs) : /\ o.docs = SubSeq(r.docs, 1, m)
                                      /\ \A j \in 1 .. m : ~Refuses(r, r.docs[j])
      <4>1. r \in Requests /\ r.do # "bulk"
        BY <2>8, <2>9
      <4>. QED
        BY <1>2, <4>1, OutcomeCases
    <3>. QED
      BY <2>8, <2>9, <3>1, <3>2
  <2>13. \A k \in 0 .. i - 2 : <<c, k>> \in Stored
    <3>1. PICK v \in Nat : v = i - 2
      BY <2>5
    <3>2. PICK id : id = <<c, v>>
      OBVIOUS
    <3>3. id[1] = c /\ id[2] = v /\ id \in Stored
      BY <2>3, <3>1, <3>2
    <3>4. \A k \in 0 .. id[2] - 1 : <<id[1], k>> \in Stored
      BY <1>1, <3>3 DEF Inv, CutOK
    <3>5. \A k \in 0 .. v : k \in 0 .. v - 1 \/ k = v
      BY <3>1
    <3>. QED
      BY <3>1, <3>2, <3>3, <3>4, <3>5
  <2>14. PICK S, new : S = Stored /\ new = New(r, o)
    OBVIOUS
  <2>15. \A id \in Ids(new) : \A n \in 0 .. id[2] - 1 : <<id[1], n>> \in S \cup Ids(new)
    <3>1. new = SubSeq(t, 1, m) /\ \A k \in 0 .. i - 2 : <<c, k>> \in S
      BY <2>12, <2>13, <2>14
    <3>. QED
      BY <2>4, <2>11, <3>1, SuffixIds
  <2>. QED
    BY <2>8, <2>9, <2>10, <2>14, <2>15
<1>. QED
  BY <1>3, <1>4 DEF Inv, ReadsOK, ReadOK

\* The missing events are inserted, then the journal is cleared.
LEMMA RepairStep ==
  ASSUME StoreAssumption, Inv, NEW p \in Client, Repair(p)
  PROVE  Inv'
<1>1. UNCHANGED <<driver, listing, commit, clock, marked, acked, base>> /\ call[p].pc = "repair"
  BY DEF Repair, Unread
<1>2. PICK r, rest, q : r = call[p].todo[1] /\ rest = Tail(call[p].todo) /\ q = call[p].q
  OBVIOUS
<1>3. PICK o \in Outcomes(r) :
        /\ Takes(r, o)
        /\ call' = [call EXCEPT ![p] =
             IF ~o.ok THEN Rejected(q)
             ELSE IF \E i \in DOMAIN rest : rest[i].awaited THEN [@ EXCEPT !.todo = rest]
             ELSE [pc |-> "asked", q |-> q, found |-> <<>>, cursor |-> <<>>,
                   version |-> Version']]
        /\ late' = IF o.ok /\ \A i \in DOMAIN rest : ~rest[i].awaited
                   THEN late \cup ToSet(rest) ELSE late
  BY <1>2 DEF Repair
<1>4. /\ r \in Requests /\ r.do \in {"insert", "drop"}
      /\ \A i \in DOMAIN r.docs : Genuine(r.docs[i])
  BY <1>1, <1>2, RepairIs
<1>5. rest \in {<<>>, <<Drop(<<>>)>>}
  BY <1>1, <1>2, RepairIs
<1>6. /\ q \in Queries /\ driver \in {"mongodb", "tingodb"}
      /\ call[p] = [pc |-> "repair", q |-> q, todo |-> call[p].todo]
  BY <1>1, <1>2 DEF Inv, ReadsOK, ReadOK, Adds
<1>7. PICK x : /\ call' = [call EXCEPT ![p] = x]
               /\ \/ x = Rejected(q)
                  \/ /\ \E i \in DOMAIN rest : rest[i].awaited
                     /\ x = [pc |-> "repair", q |-> q, todo |-> rest]
                  \/ \E v : x = [pc |-> "asked", q |-> q, found |-> <<>>, cursor |-> <<>>,
                                 version |-> v]
  <2>1. PICK todo : todo = call[p].todo
    OBVIOUS
  <2>2. [[pc |-> "repair", q |-> q, todo |-> todo] EXCEPT !.todo = rest]
          = [pc |-> "repair", q |-> q, todo |-> rest]
    OBVIOUS
  <2>3. [call[p] EXCEPT !.todo = rest] = [pc |-> "repair", q |-> q, todo |-> rest]
    BY <1>6, <2>1, <2>2, Zenon
  <2>4. CASE ~o.ok
    BY <1>3, <2>4
  <2>5. CASE o.ok /\ \E i \in DOMAIN rest : rest[i].awaited
    <3>1. call' = [call EXCEPT ![p] = [call[p] EXCEPT !.todo = rest]]
      BY <1>3, <2>5
    <3>. QED
      BY <2>3, <2>5, <3>1
  <2>6. CASE o.ok /\ ~(\E i \in DOMAIN rest : rest[i].awaited)
    BY <1>3, <2>6
  <2>. QED
    BY <2>4, <2>5, <2>6
<1>8. /\ call'[p] = x /\ \A u \in Client : u # p => call'[u] = call[u]
      /\ call' = [u \in Client |-> call'[u]]
  BY <1>7 DEF Inv, Setting
<1>9. x.pc \in {"answered", "repair", "asked"} /\ x.q = q
  BY <1>7, RejectedIs
<1>10. /\ rest \in Seq(Requests)
       /\ \A j \in DOMAIN rest : rest[j].do = "drop"
       /\ DOMAIN rest = {} \/ rest = <<Drop(<<>>)>>
  <2>1. PICK d \in Requests : d = Drop(<<>>) /\ d.do = "drop"
    BY DropIs
  <2>2. <<d>> \in Seq(Requests) /\ DOMAIN <<d>> = {1} /\ <<d>>[1] = d
    OBVIOUS
  <2>3. <<>> \in Seq(Requests) /\ DOMAIN <<>> = {}
    OBVIOUS
  <2>4. CASE rest = <<>>
    BY <2>3, <2>4
  <2>5. CASE rest = <<d>>
    BY <2>1, <2>2, <2>5
  <2>. QED
    BY <1>5, <2>1, <2>4, <2>5
<1>11. LateOK'
  <2>1. late' \subseteq late \cup ToSet(rest)
    BY <1>3
  <2>. QED
    BY <1>1, <1>10, <2>1, LateAfter
<1>12. /\ r.do \in Stores => \A i \in DOMAIN r.docs : Genuine(r.docs[i])
       /\ r.do \notin {"journal", "incr", "list"}
       /\ driver \notin {"redis", "dynamodb"} /\ driver \notin AtOnce
  BY <1>4, <1>6 DEF AtOnce
<1>13. Grows
  BY <1>1, <1>3, <1>4, <1>12, StoreStep
<1>14. \A d : Kept(d) => Kept(d)'
  BY <1>1, <1>3, <1>4, <1>12, StoreStep
<1>15. CutOK'
  <2>1. PICK S : S = Ids(New(r, o))
    OBVIOUS
  <2>2. Stored' = Stored \cup S
    BY <1>1, <1>3, <1>4, <1>12, <2>1, StoreStep
  <2>3. \A id \in Ids(New(r, o)) : \A n \in 0 .. id[2] - 1 :
          <<id[1], n>> \in Stored \cup Ids(New(r, o))
    BY <1>1, <1>2, RepairIs
  <2>4. \A id \in S : \A n \in 0 .. id[2] - 1 : <<id[1], n>> \in Stored \cup S
    BY <2>1, <2>3
  <2>. QED
    BY <1>1, <1>12, <2>2, <2>4, CutGrows
<1>16. ReadOK(p)'
  <2>1. CASE x = Rejected(q)
    BY <1>6, <1>8, <2>1, RejectedIs, AnswerIsRead
  <2>2. CASE /\ \E i \in DOMAIN rest : rest[i].awaited
             /\ x = [pc |-> "repair", q |-> q, todo |-> rest]
    <3>1. rest = <<Drop(<<>>)>> /\ Drop(<<>>)' = Drop(<<>>)
      BY <1>1, <1>10, <2>2 DEF Drop, Request
    <3>2. x.pc = "repair" /\ x.q = q /\ x.todo = rest
      BY <2>2
    <3>3. call'[p].todo = <<Drop(<<>>)>>'
      BY <1>8, <3>1, <3>2
    <3>4. call'[p] = [pc |-> "repair", q |-> call'[p].q, todo |-> call'[p].todo]
      BY <1>8, <2>2, <3>2
    <3>. QED
      BY <1>1, <1>6, <1>8, <3>2, <3>3, <3>4 DEF ReadOK, Adds
  <2>3. CASE \E v : x = [pc |-> "asked", q |-> q, found |-> <<>>, cursor |-> <<>>, version |-> v]
    <3>1. PICK v : x = [pc |-> "asked", q |-> q, found |-> <<>>, cursor |-> <<>>, version |-> v]
      BY <2>3
    <3>2. x.pc = "asked" /\ x.q = q /\ x.found = <<>> /\ x.cursor = <<>> /\ x.version = v
      BY <3>1
    <3>3. x = [pc |-> x.pc, q |-> x.q, found |-> x.found, cursor |-> x.cursor,
               version |-> x.version]
      BY <3>1, <3>2
    <3>4. x.found \in Seq(Document)
      <4>1. <<>> \in Seq(Document)
        OBVIOUS
      <4>. QED
        BY <3>2, <4>1
    <3>. QED
      BY <1>6, <1>8, <3>2, <3>3, <3>4 DEF ReadOK, Adds
  <2>. QED
    BY <1>7, <2>1, <2>2, <2>3
<1>17. ReadsOK'
  <2>1. \A u \in Client : u # p => ReadOK(u)'
    BY <1>8, <1>13, <1>14, ReaderGrows DEF Inv, ReadsOK
  <2>. QED
    BY <1>16, <2>1 DEF ReadsOK
<1>18. /\ \A u \in Client : call'[u].pc \in {"idle", "adding", "asked", "lookup", "clean",
                                             "repair", "scan", "answered"}
       /\ \A u \in Client : Adds(u)' => call'[u] = call[u]
  <2>1. \A u \in Client : call[u].pc \in {"idle", "adding", "asked", "lookup", "clean",
                                          "repair", "scan", "answered"}
    BY DEF Inv, TypeOK
  <2>. QED
    BY <1>8, <1>9, <2>1 DEF Adds
<1>. QED
  BY <1>1, <1>3, <1>4, <1>8, <1>11, <1>12, <1>15, <1>17, <1>18, OthersStore

-----------------------------------------------------------------------------
(* The invariant *)

\* The store begins empty.
LEMMA InitOK ==
  ASSUME StoreAssumption, Init
  PROVE  Inv
<1>1. DOMAIN <<>> = {} /\ <<>> \in Seq(Document) /\ events = <<>>
  BY DEF Init
<1>2. PICK none \in Seq(Document) : none = <<>> /\ DOMAIN none = {}
  BY <1>1
<1>3. events = none /\ \A c \in CommitId : commit[c] = none
  BY <1>2 DEF Init
<1>4. Stored = {} /\ Made = {}
  <2>1. Ids(none) = {}
    BY <1>2 DEF Ids
  <2>. QED
    BY <1>3, <2>1 DEF Stored, Made
<1>5. \A p \in Client : call[p] = Idle /\ call[p].pc = "idle" /\ ~Adds(p)
  BY DEF Init, Idle, Adds
<1>6. MaxDocs \in Nat /\ MaxFaults \in Nat
  BY DEF Parameters
<1>7. TypeOK
  <2>1. Stored \subseteq CommitId \X Nat /\ waiting \cup marked \subseteq CommitId \X Nat
    BY <1>4 DEF Init
  <2>2. journal \cup acked \subseteq CommitId /\ {counter, clock} \subseteq 0 .. MaxDocs
    BY <1>6 DEF Init
  <2>3. faults \in 0 .. MaxFaults /\ base \in [Client -> Nat]
    BY <1>6 DEF Init
  <2>. QED
    BY <1>5, <2>1, <2>2, <2>3 DEF TypeOK
<1>8. Setting
  <2>1. driver \in Driver /\ listing \in BOOLEAN /\ (driver # "dynamodb" => listing)
    BY DEF Init, Parameters, Driver
  <2>2. call = [p \in Client |-> call[p]] /\ acked = {}
    BY DEF Init
  <2>. QED
    BY <2>1, <2>2 DEF Setting
<1>9. CommitsOK
  <2>1. commit \in [CommitId -> Seq(Document)]
    BY <1>1 DEF Init
  <2>2. \A c \in CommitId : Counted(c, commit[c])
    BY <1>2, <1>3 DEF Counted
  <2>. QED
    BY <2>1, <2>2 DEF CommitsOK
<1>10. EventsOK
  BY <1>1, <1>2, <1>3 DEF EventsOK
<1>11. CountsOK
  <2>1. IsFiniteSet({}) /\ Cardinality({}) = 0
    BY FS_EmptySet
  <2>2. IsFiniteSet(Made) /\ Cardinality(Made) = 0 /\ Cardinality(Made \ Unclaimed) = 0
    <3>1. Made \ Unclaimed = {}
      BY <1>4
    <3>. QED
      BY <1>4, <2>1, <3>1
  <2>3. clock = 0 /\ counter = 0
    BY DEF Init
  <2>. QED
    BY <1>6, <2>2, <2>3 DEF CountsOK
<1>12. WritesOK /\ LateOK
  BY <1>5 DEF WritesOK, WriteOK, LateOK, Init
<1>13. CutOK
  BY <1>2, <1>3, <1>4 DEF CutOK
<1>14. NumbersOK
  <2>1. \A p \in Client : ~Claims(p)
    BY <1>5 DEF Claims
  <2>. QED
    BY <1>2, <1>3, <2>1 DEF NumbersOK
<1>15. ReadsOK
  BY <1>5 DEF ReadsOK, ReadOK
<1>16. AckedIsStored
  BY DEF AckedIsStored, Init
<1>17. RevisionIsUnique
  BY <1>2, <1>3 DEF RevisionIsUnique
<1>. QED
  BY <1>7, <1>8, <1>9, <1>10, <1>11, <1>12, <1>13, <1>14, <1>15, <1>16, <1>17 DEF Inv

\* A step of somebody else.
LEMMA StutterOK ==
  ASSUME Inv, UNCHANGED vars
  PROVE  Inv'
<1>1. UNCHANGED <<driver, listing, commit, events, waiting, journal, counter, clock,
                  late, marked, acked, faults, base, call>>
  BY DEF vars
<1>2. Stored' = Stored
  BY <1>1 DEF Stored, Ids
<1>3. Setting' /\ TypeOK' /\ CommitsOK' /\ EventsOK' /\ LateOK'
  BY <1>1, <1>2 DEF Inv, Setting, TypeOK, CommitsOK, Counted, EventsOK, Genuine, LateOK
<1>4. CountsOK'
  BY <1>1 DEF Inv, CountsOK, Made, Ids, Unclaimed, Waits, Adds
<1>5. Grows
  BY <1>1, <1>2 DEF Grows, Inv, TypeOK
<1>6. WritesOK'
  <2>1. ASSUME NEW q \in Client, Adds(q)'
        PROVE  WriteOK(q)'
    <3>1. WriteOK(q) /\ Adds(q) /\ TypeOK /\ call'[q] = call[q] /\ counter' \in Nat
      BY <1>1, <2>1 DEF Inv, WritesOK, Adds, TypeOK
    <3>2. Progress(q)'
      BY <1>5, <3>1, ProgressGrows
    <3>. QED
      BY <1>1, <3>1, <3>2 DEF WriteOK, Adds
  <2>. QED
    BY <2>1 DEF WritesOK, WriteOK
<1>7. CutOK'
  BY <1>1, <1>2 DEF Inv, CutOK, Whole, Ids, Adds
<1>8. NumbersOK'
  <2>1. \A q \in Client : Claims(q)' = Claims(q) /\ Claimed(q)' = Claimed(q)
    BY <1>1 DEF Claims, Claimed, Adds
  <2>. QED
    BY <1>1, <2>1 DEF Inv, NumbersOK
<1>9. ReadsOK'
  <2>1. \A d : Kept(d) => Kept(d)'
    BY <1>1 DEF Kept
  <2>2. CommitsOK /\ \A q \in Client : ReadOK(q) /\ call'[q] = call[q]
    BY <1>1 DEF Inv, ReadsOK
  <2>3. \A q \in Client : ReadOK(q)'
    BY <1>5, <2>1, <2>2, ReaderGrows
  <2>. QED
    BY <2>3 DEF ReadsOK
<1>10. AckedIsStored' /\ RevisionIsUnique'
  BY <1>1, <1>2 DEF Inv, AckedIsStored, Lossless, RevisionIsUnique
<1>. QED
  BY <1>3, <1>4, <1>6, <1>7, <1>8, <1>9, <1>10 DEF Inv

\* Every step keeps it.
LEMMA NextOK ==
  ASSUME StoreAssumption, Inv, [Next]_vars
  PROVE  Inv'
<1>1. CASE UNCHANGED vars
  BY <1>1, StutterOK
<1>2. ASSUME NEW p \in Client, Done(p)
      PROVE  Inv'
  BY <1>2, DoneStep
<1>3. ASSUME NEW p \in Client, Step(p)
      PROVE  Inv'
  <2>1. ASSUME NEW c \in CommitId, NEW n \in Sizes, Add(p, c, n)
        PROVE  Inv'
    BY <2>1, AddStep
  <2>2. ASSUME NEW q \in Queries, Ask(p, q)
        PROVE  Inv'
    BY <2>2, AskStep
  <2>3. ASSUME NEW q \in Queries, Fetch(p, q)
        PROVE  Inv'
    BY <2>3, FetchStep
  <2>4. Asks(p) \subseteq Queries
    BY DEF Asks
  <2>5. ASSUME NEW q \in Queries, ReadFails(p, q)
        PROVE  Inv'
    BY <2>5, ReadFailsStep
  <2>. QED
    BY <1>3, <2>1, <2>2, <2>3, <2>4, <2>5, WriteStep, CleanStep, LookupStep, RepairStep, PageStep,
       Redis_scanBeginsStep, Redis_scanEndsStep DEF Step
<1>4. ASSUME NEW c \in CommitId, NEW i \in DOMAIN commit[c], Mark(<<c, i - 1>>)
      PROVE  Inv'
  BY <1>4, MarkStep
<1>. QED
  BY <1>1, <1>2, <1>3, <1>4, WriteLateStep DEF Next, Others

\* The inductive invariant.
LEMMA InvHolds == Spec => []Inv
<1>1. Init => Inv
  BY StoreAssumption, InitOK
<1>2. Inv /\ [Next]_vars => Inv'
  BY StoreAssumption, NextOK
<1>. QED
  BY <1>1, <1>2, PTL DEF Spec

\* A stored event is one of its commit.
LEMMA StoredIs ==
  ASSUME Inv, NEW id \in Stored
  PROVE  /\ id[1] \in CommitId /\ commit[id[1]] \in Seq(Document)
         /\ id[2] \in 0 .. Len(commit[id[1]]) - 1
         /\ \E j \in DOMAIN events : events[j].commit = id[1] /\ events[j].seq = id[2]
<1>1. PICK j \in DOMAIN events : id = Id(events[j])
  BY DEF Stored, Ids
<1>2. PICK d \in Document : d = events[j] /\ Genuine(d)
  BY DEF Inv, EventsOK
<1>3. id[1] = d.commit /\ id[2] = d.seq
  BY <1>1, <1>2 DEF Id
<1>4. d.commit \in CommitId /\ d.seq \in Nat
  BY DEF Document
<1>5. PICK docs \in Seq(Document) : docs = commit[d.commit]
  BY <1>4 DEF Inv, CommitsOK
<1>6. d.seq + 1 \in 1 .. Len(docs) /\ Len(docs) \in Nat
  BY <1>2, <1>5 DEF Genuine
<1>7. d.seq \in 0 .. Len(docs) - 1
  BY <1>4, <1>6
<1>. QED
  BY <1>2, <1>3, <1>4, <1>5, <1>7

\* A set of numbers without gaps.
LEMMA NoGaps ==
  ASSUME NEW S \in SUBSET Nat, IsFiniteSet(S), \A v \in S : \A k \in 0 .. v - 1 : k \in S
  PROVE  S = 0 .. Cardinality(S) - 1
<1>1. CASE S = {}
  <2>1. Cardinality(S) = 0
    BY <1>1, FS_EmptySet
  <2>. QED
    BY <1>1, <2>1
<1>2. CASE S # {}
  <2>1. PICK m \in S : \A x \in S : x <= m
    BY <1>2, FiniteMax
  <2>2. S = 0 .. m
    <3>1. \A x \in S : x \in 0 .. m
      BY <2>1
    <3>2. \A x \in 0 .. m : x = m \/ x \in 0 .. m - 1
      OBVIOUS
    <3>. QED
      BY <3>1, <3>2
  <2>3. Cardinality(S) = m + 1
    <3>1. PICK n \in Nat : n = m
      OBVIOUS
    <3>2. Cardinality(0 .. n) = n + 1
      <4>1. Cardinality(0 .. n) = IF 0 > n THEN 0 ELSE n - 0 + 1
        BY FS_Interval
      <4>. QED
        BY <4>1
    <3>. QED
      BY <2>2, <3>1, <3>2
  <2>. QED
    BY <2>2, <2>3
<1>. QED
  BY <1>1, <1>2

\* The stored events of one commit.
LEMMA CommitCut ==
  ASSUME Inv, NEW c \in CommitId, NEW seqs, seqs = {id[2] : id \in {i \in Stored : i[1] = c}}
  PROVE  /\ driver \in {"redis", "inmemory"} => Cardinality(seqs) \in {0, Len(commit[c])}
         /\ driver \in {"mongodb", "tingodb", "dynamodb"} => seqs = 0 .. Cardinality(seqs) - 1
<1>1. PICK docs \in Seq(Document), n \in Nat : docs = commit[c] /\ n = Len(docs)
  <2>1. commit[c] \in Seq(Document)
    BY DEF Inv, CommitsOK
  <2>. QED
    BY <2>1
<1>2. \A v \in seqs : /\ <<c, v>> \in Stored /\ v \in 0 .. n - 1
                      /\ \E j \in DOMAIN events : events[j].commit = c /\ events[j].seq = v
  <2>1. SUFFICES ASSUME NEW id \in Stored, id[1] = c
                 PROVE  /\ <<c, id[2]>> \in Stored /\ id[2] \in 0 .. n - 1
                        /\ \E j \in DOMAIN events : events[j].commit = c /\ events[j].seq = id[2]
    OBVIOUS
  <2>2. /\ id[2] \in 0 .. n - 1
        /\ \E j \in DOMAIN events : events[j].commit = c /\ events[j].seq = id[2]
    BY <1>1, <2>1, StoredIs
  <2>. QED
    BY <2>2 DEF Stored, Ids, Id
<1>3. \A v : <<c, v>> \in Stored => v \in seqs
  <2>1. SUFFICES ASSUME NEW v, <<c, v>> \in Stored
                 PROVE  v \in seqs
    OBVIOUS
  <2>2. PICK id : id = <<c, v>>
    OBVIOUS
  <2>3. id[1] = c /\ id[2] = v /\ id \in Stored
    BY <2>1, <2>2
  <2>. QED
    BY <2>3
<1>4. IsFiniteSet(seqs) /\ seqs \in SUBSET Nat
  <2>1. IsFiniteSet(0 .. n - 1)
    BY FS_Interval
  <2>2. seqs \subseteq 0 .. n - 1
    BY <1>2
  <2>3. IsFiniteSet(seqs)
    BY <2>1, <2>2, FS_Subset
  <2>. QED
    BY <2>2, <2>3
<1>5. ASSUME driver \in {"redis", "inmemory"}, seqs # {}
      PROVE  Cardinality(seqs) = n
  <2>1. Whole(c)
    BY <1>2, <1>5 DEF Inv, CutOK, AtOnce
  <2>2. \A v \in 0 .. n - 1 : <<c, v>> \in Stored
    <3>1. Counted(c, docs)
      BY <1>1 DEF Inv, CommitsOK
    <3>2. \A id : id \in Ids(docs) <=> \E k \in 0 .. Len(docs) - 1 : id = <<c, k>>
      BY <3>1, CommitIds DEF Counted
    <3>. QED
      BY <1>1, <2>1, <3>2 DEF Whole
  <2>3. seqs = 0 .. n - 1
    BY <1>2, <1>3, <2>2
  <2>4. PICK m \in Int : m = n - 1 /\ (0 > m => n = 0) /\ (0 <= m => m - 0 + 1 = n)
    OBVIOUS
  <2>5. Cardinality(0 .. m) = IF 0 > m THEN 0 ELSE m - 0 + 1
    BY FS_Interval
  <2>6. Cardinality(0 .. m) = n
    BY <2>4, <2>5
  <2>7. seqs = 0 .. m
    BY <2>3, <2>4
  <2>. QED
    BY <2>6, <2>7
<1>6. seqs = {} => Cardinality(seqs) = 0
  BY FS_EmptySet
<1>7. ASSUME driver \in {"mongodb", "tingodb", "dynamodb"}
      PROVE  seqs = 0 .. Cardinality(seqs) - 1
  <2>1. ASSUME NEW v \in seqs, NEW k \in 0 .. v - 1
        PROVE  k \in seqs
    <3>1. PICK id \in Stored : id[1] = c /\ id[2] = v
      OBVIOUS
    <3>2. <<id[1], k>> \in Stored
      BY <1>7, <2>1, <3>1 DEF Inv, CutOK, InOrder
    <3>. QED
      BY <1>3, <3>1, <3>2
  <2>. QED
    BY <1>4, <2>1, NoGaps
<1>. QED
  BY <1>1, <1>5, <1>6, <1>7

-----------------------------------------------------------------------------
(* Theorems *)

\* The types of the store and its clients; no two events of dynamodb or redis have
\* one revision, although any number of clients commits from the same load.
THEOREM StoreIsSound == Spec => []StoreOK
<1>1. Inv => StoreOK
  BY DEF Inv, StoreOK
<1>. QED
  BY <1>1, InvHolds, PTL

\* What addEvents acknowledged is stored, and stays listed until it is dispatched.
THEOREM AcknowledgedIsStored == Spec => []AckedIsStored
<1>1. Inv => AckedIsStored
  BY DEF Inv
<1>. QED
  BY <1>1, InvHolds, PTL

\* Whatever requests fail, late or in a repair, a commit is cut as the driver promises.
THEOREM CutsAreClean == Spec => []CommitIsCutCleanly
<1>1. Inv => CommitIsCutCleanly
  <2>1. ASSUME Inv
        PROVE  CommitIsCutCleanly
    BY <2>1, CommitCut DEF CommitIsCutCleanly
  <2>. QED
    BY <2>1
<1>. QED
  BY <1>1, InvHolds, PTL

-----------------------------------------------------------------------------
(* What a reader of dynamodb sees while others write *)

\* A read of the stream from its begin: the revisions from 0 on.
Loaded(docs) ==
  /\ docs \in Seq(Document)
  /\ \A i \in DOMAIN docs : docs[i].rev = i - 1 /\ Kept(docs[i])

\* What such a read answers, once it is sorted: the same events.
LoadOK(docs) ==
  /\ docs \in Seq(Document)
  /\ \A i \in DOMAIN docs : Kept(docs[i])
  /\ Gapless(docs)
  /\ InTime(docs) => \A i \in DOMAIN docs : docs[i].rev = i - 1

\* An event that continues the stream follows one that is stored.
Follows(rev) == rev = 0 \/ \E d \in Document : Kept(d) /\ d.rev = rev - 1

ChainRead(p) ==
  /\ call[p].pc = "asked" /\ WholeStream(call[p].q) =>
       /\ Loaded(call[p].found)
       /\ call[p].cursor = IF call[p].found = <<>> THEN <<>>
                           ELSE <<call[p].found[Len(call[p].found)]>>
  /\ call[p].pc = "scan" => ~WholeStream(call[p].q)
  /\ call[p].pc = "answered" /\ WholeStream(call[p].q) => LoadOK(call[p].docs)

Chain ==
  driver = "dynamodb" =>
    /\ \A p \in Client : Follows(base[p])
    /\ \A c \in CommitId : commit[c] # <<>> => Follows(commit[c][1].rev)
    /\ \A p \in Client : ChainRead(p)

\* Every event follows another: that of its commit, or the one its writer had read.
LEMMA EventFollows ==
  ASSUME StoreAssumption, Inv, Chain, driver = "dynamodb", NEW i \in DOMAIN events
  PROVE  /\ events[i] \in Document
         /\ \/ events[i].rev = 0
            \/ \E j \in DOMAIN events : events[j].rev = events[i].rev - 1
<1>1. PICK d \in Document : d = events[i]
  BY DEF Inv, EventsOK
<1>2. d.seq + 1 \in DOMAIN commit[d.commit] /\ d = commit[d.commit][d.seq + 1]
  BY <1>1 DEF Inv, EventsOK, Genuine
<1>3. PICK c \in CommitId, s \in Nat : c = d.commit /\ s = d.seq
  BY DEF Document
<1>4. PICK docs \in Seq(Document), n \in Nat :
        docs = commit[c] /\ n = Len(docs) /\ DOMAIN docs = 1 .. n
  <2>1. commit[c] \in Seq(Document)
    BY DEF Inv, CommitsOK
  <2>. QED
    BY <2>1
<1>5. s + 1 \in 1 .. n /\ d = docs[s + 1] /\ docs # <<>>
  BY <1>2, <1>3, <1>4
<1>6. \A k \in 1 .. n : docs[k].rev = docs[1].rev + k - 1
  <2>1. Counted(c, docs)
    BY <1>4 DEF Inv, CommitsOK
  <2>. QED
    BY <1>4, <2>1 DEF Counted
<1>7. docs[1] \in Document /\ docs[1].rev \in Nat
  <2>1. 1 \in 1 .. n
    BY <1>3, <1>5
  <2>2. docs[1] \in Document
    BY <1>4, <2>1
  <2>. QED
    BY <2>2 DEF Document
<1>8. PICK f \in Nat : f = docs[1].rev
  BY <1>7
<1>9. d.rev = f + s
  <2>1. d.rev = f + (s + 1) - 1
    BY <1>5, <1>6, <1>8
  <2>. QED
    BY <2>1
<1>10. CASE s = 0
  <2>1. Follows(f)
    BY <1>4, <1>5, <1>8 DEF Chain
  <2>. QED
    BY <1>1, <1>9, <1>10, <2>1 DEF Follows, Kept
<1>11. CASE s # 0
  <2>1. PICK id \in Stored : id = Id(d)
    BY <1>1 DEF Stored, Ids
  <2>2. id[1] = c /\ id[2] = s
    BY <1>3, <2>1 DEF Id
  <2>3. s - 1 \in 0 .. id[2] - 1
    BY <1>11, <2>2
  <2>4. <<c, s - 1>> \in Stored
    BY <2>2, <2>3 DEF Inv, CutOK, InOrder
  <2>5. PICK j \in DOMAIN events : Id(events[j]) = <<c, s - 1>>
    BY <2>4 DEF Stored, Ids
  <2>6. PICK e : e = events[j] /\ e = commit[e.commit][e.seq + 1]
    BY DEF Inv, EventsOK, Genuine
  <2>7. e.commit = c /\ e.seq = s - 1
    BY <2>5, <2>6 DEF Id
  <2>8. (s - 1) + 1 = s /\ s \in 1 .. n
    BY <1>5, <1>11
  <2>9. e = docs[s]
    BY <1>4, <2>6, <2>7, <2>8
  <2>10. e.rev = f + s - 1
    BY <1>6, <1>8, <2>8, <2>9
  <2>11. f + s - 1 = d.rev - 1
    BY <1>9
  <2>. QED
    BY <1>1, <2>6, <2>10, <2>11
<1>. QED
  BY <1>1, <1>10, <1>11

\* A set of numbers that contains the one before each has no gap.
LEMMA StepsDown ==
  ASSUME NEW S \in SUBSET Nat, \A v \in S : v = 0 \/ v - 1 \in S
  PROVE  \A v \in S : \A k \in 0 .. v - 1 : k \in S
<1>1. SUFFICES ASSUME NEW v \in S, NEW k \in 0 .. v - 1, k \notin S
               PROVE  FALSE
  OBVIOUS
<1>2. PICK n \in Nat : n = v
  OBVIOUS
<1>3. PICK T : T = {x \in 0 .. n : x \notin S}
  OBVIOUS
<1>4. T \in SUBSET (0 .. n) /\ k \in T
  BY <1>1, <1>2, <1>3
<1>5. PICK m \in T : \A x \in T : x <= m
  BY <1>4, HasGreatest
<1>6. m \in 0 .. n /\ m \notin S /\ m # n
  BY <1>2, <1>3
<1>7. m + 1 \in 0 .. n /\ ~(m + 1 <= m) /\ (m + 1) - 1 = m /\ m + 1 # 0
  BY <1>6
<1>8. m + 1 \in S
  BY <1>3, <1>5, <1>7
<1>. QED
  BY <1>6, <1>7, <1>8

\* The numbers from a to b.
LEMMA CountBetween ==
  ASSUME NEW a \in Int, NEW b \in Int
  PROVE  Cardinality(a .. b) = IF a > b THEN 0 ELSE b - a + 1
BY FS_Interval

\* The numbers up to n.
LEMMA CountTo ==
  ASSUME NEW n \in Nat
  PROVE  Cardinality(1 .. n) = n /\ IsFiniteSet(1 .. n)
BY FS_Interval

\* The stored revisions of dynamodb are the numbers from 0 on.
LEMMA RevisionsAre ==
  ASSUME StoreAssumption, Inv, Chain, driver = "dynamodb", NEW n \in Nat, n = Len(events)
  PROVE  {events[i].rev : i \in DOMAIN events} = 0 .. n - 1
<1>1. DOMAIN events = 1 .. n
  BY DEF Inv, EventsOK
<1>2. PICK S, f : S = {events[i].rev : i \in DOMAIN events} /\ f = [i \in 1 .. n |-> events[i].rev]
  OBVIOUS
<1>3. \A i \in DOMAIN events : events[i].rev \in Nat
  <2>1. \A i \in DOMAIN events : events[i] \in Document
    BY EventFollows
  <2>. QED
    BY <2>1 DEF Document
<1>4. S \in SUBSET Nat
  BY <1>2, <1>3
<1>5. IsFiniteSet(S) /\ Cardinality(S) = n
  <2>1. f \in Bijection(1 .. n, S)
    <3>1. f \in [1 .. n -> S] /\ \A v \in S : \E i \in 1 .. n : f[i] = v
      BY <1>1, <1>2
    <3>2. \A i, j \in 1 .. n : f[i] = f[j] => i = j
      BY <1>1, <1>2 DEF Inv, RevisionIsUnique
    <3>. QED
      BY <3>1, <3>2 DEF Bijection, Injection, Surjection, IsInjective
  <2>2. ExistsBijection(1 .. n, S)
    BY <2>1 DEF ExistsBijection
  <2>3. Cardinality(S) = n
    BY <2>2, FS_CountingElements
  <2>4. IsFiniteSet(1 .. n)
    BY FS_Interval
  <2>5. IsFiniteSet(S)
    BY <2>2, <2>4, FS_Bijection
  <2>. QED
    BY <2>3, <2>5
<1>6. \A v \in S : v = 0 \/ v - 1 \in S
  <2>1. SUFFICES ASSUME NEW i \in DOMAIN events
                 PROVE  events[i].rev = 0 \/ events[i].rev - 1 \in S
    BY <1>2
  <2>2. \/ events[i].rev = 0
        \/ \E j \in DOMAIN events : events[j].rev = events[i].rev - 1
    BY EventFollows
  <2>. QED
    BY <1>2, <2>2
<1>7. \A v \in S : \A k \in 0 .. v - 1 : k \in S
  BY <1>4, <1>6, StepsDown
<1>8. S = 0 .. Cardinality(S) - 1
  BY <1>4, <1>5, <1>7, NoGaps
<1>. QED
  BY <1>2, <1>5, <1>8

\* The table in the order of its keys.
LEMMA RowsByRevision ==
  ASSUME StoreAssumption, Inv, Chain, driver = "dynamodb",
         NEW rows, rows = Sorted(events, <<"rev">>), NEW n \in Nat, n = Len(events)
  PROVE  /\ rows \in Seq(Document) /\ Len(rows) = n
         /\ \A k \in 1 .. n : rows[k].rev = k - 1 /\ Kept(rows[k])
<1>1. /\ events \in Seq(Document) /\ DOMAIN events = 1 .. n
      /\ \A i \in 1 .. n : events[i] \in Document
  BY DEF Inv, EventsOK
<1>2. <<"rev">> \in Seq(Key) /\ DOMAIN <<"rev">> = {1} /\ <<"rev">>[1] = "rev"
  BY DEF Key
<1>3. PICK order \in Seq(Key) : order = <<"rev">>
  BY <1>2
<1>4. \A k \in 1 .. n : \E i \in 1 .. n : events[i].rev = k - 1
  <2>1. {events[i].rev : i \in DOMAIN events} = 0 .. n - 1
    BY RevisionsAre
  <2>2. \A k \in 1 .. n : k - 1 \in 0 .. n - 1
    OBVIOUS
  <2>. QED
    BY <1>1, <2>1, <2>2
<1>5. PICK f : f = [k \in 1 .. n |-> CHOOSE i \in 1 .. n : events[i].rev = k - 1]
  OBVIOUS
<1>6. f \in [1 .. n -> 1 .. n] /\ \A k \in 1 .. n : events[f[k]].rev = k - 1
  BY <1>4, <1>5
<1>16. PICK s \in Seq(Document) : s = events
  BY <1>1
<1>7. PICK I : s = events /\ I = 1 .. n /\ I \in SUBSET DOMAIN s
  BY <1>1, <1>16
<1>8. Cardinality(I) = n
  <2>1. Cardinality(1 .. n) = n
    BY CountTo
  <2>. QED
    BY <1>7, <2>1
<1>9. \A k, l \in 1 .. n : k < l => Precedes(s, order, f[k], f[l])
  <2>1. SUFFICES ASSUME NEW k \in 1 .. n, NEW l \in 1 .. n, k < l
                 PROVE  Precedes(s, order, f[k], f[l])
    OBVIOUS
  <2>2. PICK d, e : d = s[f[k]] /\ e = s[f[l]] /\ d.rev = k - 1 /\ e.rev = l - 1
    BY <1>6, <1>7
  <2>3. d.rev < e.rev
    BY <2>1, <2>2
  <2>4. KeyLess("rev", d, e)
    BY <2>3 DEF KeyLess, Field
  <2>5. Less(order, d, e)
    BY <1>2, <1>3, <2>4 DEF Less
  <2>. QED
    BY <2>2, <2>5 DEF Precedes
<1>10. Enumerates(f, s, I, order)
  BY <1>6, <1>7, <1>8, <1>9 DEF Enumerates
<1>11. Arranged(s, I, order) = [k \in 1 .. Cardinality(I) |-> s[f[k]]]
  <2>1. I \in SUBSET DOMAIN s
    BY <1>7
  <2>2. \A o \in Seq(Key) : \A g : Enumerates(g, s, I, o) =>
          Arranged(s, I, o) = [k \in 1 .. Cardinality(I) |-> s[g[k]]]
    BY <2>1, ArrangedIs
  <2>. QED
    BY <1>10, <2>2, Zenon
<1>12. rows = [k \in 1 .. n |-> s[f[k]]]
  BY <1>1, <1>3, <1>7, <1>8, <1>11 DEF Sorted
<1>13. \A k \in 1 .. n : rows[k] = events[f[k]] /\ f[k] \in DOMAIN events
  BY <1>1, <1>6, <1>7, <1>12
<1>14. rows \in Seq(Document) /\ Len(rows) = n
  <2>1. rows \in [1 .. n -> Document]
    BY <1>1, <1>6, <1>7, <1>12
  <2>. QED
    BY <2>1
<1>. QED
  BY <1>6, <1>13, <1>14 DEF Kept

\* The rows behind the cursor.
Behind(rows, d) == Chosen(rows, {i \in DOMAIN rows : Less(<<"rev">>, d, rows[i])})

\* The rows of all revisions, and those behind the first m of them.
FromZero(rows) ==
  rows \in Seq(Document) /\ \A k \in 1 .. Len(rows) : rows[k].rev = k - 1
IsRest(rest, rows, m) ==
  /\ m \in 0 .. Len(rows)
  /\ rest \in Seq(Document) /\ Len(rest) = Len(rows) - m
  /\ \A k \in 1 .. Len(rows) - m : rest[k] = rows[m + k]

\* They are the ones of a greater revision.
LEMMA RestByCursor ==
  ASSUME StoreAssumption, NEW rows, FromZero(rows), NEW m \in 0 .. Len(rows), NEW d \in Document, d.rev = m - 1
  PROVE  IsRest(Behind(rows, d), rows, m)
<1>. PICK rest : rest = Behind(rows, d)
  OBVIOUS
<1>0. /\ rows \in Seq(Document) /\ Len(rows) \in Nat
      /\ \A k \in 1 .. Len(rows) : rows[k].rev = k - 1
  BY DEF FromZero
<1>. PICK n \in Nat : n = Len(rows)
  BY <1>0
<1>1. DOMAIN rows = 1 .. n /\ \A k \in 1 .. n : rows[k] \in Document
  BY <1>0
<1>2. \A e \in Document : Less(<<"rev">>, d, e) <=> d.rev < e.rev
  BY DEF Less, KeyLess, Field
<1>3. PICK a \in Nat, len \in Nat : a = m /\ len = n - m
  <2>1. m \in Nat /\ n - m \in Nat
    OBVIOUS
  <2>. QED
    BY <2>1
<1>4. PICK I : I = {i \in DOMAIN rows : Less(<<"rev">>, d, rows[i])}
  OBVIOUS
<1>5. I = a + 1 .. n
  <2>1. \A i \in 1 .. n : Less(<<"rev">>, d, rows[i]) <=> m - 1 < i - 1
    BY <1>0, <1>1, <1>2
  <2>2. \A i \in 1 .. n : m - 1 < i - 1 <=> i \in a + 1 .. n
    BY <1>3
  <2>3. \A i \in a + 1 .. n : i \in 1 .. n
    BY <1>3
  <2>. QED
    BY <1>1, <1>4, <2>1, <2>2, <2>3
<1>6. Cardinality(I) = len
  <2>1. PICK b \in Int : b = a + 1
    OBVIOUS
  <2>2. Cardinality(b .. n) = IF b > n THEN 0 ELSE n - b + 1
    <3>1. b \in Int /\ n \in Int
      OBVIOUS
    <3>2. \A x \in Int : \A y \in Int : Cardinality(x .. y) = IF x > y THEN 0 ELSE y - x + 1
      BY CountBetween
    <3>. QED
      BY <3>1, <3>2, Zenon
  <2>3. (b > n => len = 0) /\ (~(b > n) => n - b + 1 = len)
    BY <1>3, <2>1
  <2>. QED
    BY <1>5, <2>1, <2>2, <2>3
<1>7. PICK f : f = [k \in 1 .. len |-> a + k]
  OBVIOUS
<1>8. f \in [1 .. Cardinality(I) -> I]
  <2>1. \A k \in 1 .. len : a + k \in a + 1 .. n
    BY <1>3
  <2>. QED
    BY <1>5, <1>6, <1>7, <2>1
<1>9. \A k, l \in 1 .. Cardinality(I) : k < l => f[k] < f[l]
  BY <1>3, <1>6, <1>7
<1>10. I \in SUBSET DOMAIN rows
  BY <1>4
<1>11. rest = [k \in 1 .. Cardinality(I) |-> rows[f[k]]]
  <2>0. rows \in Seq(Document)
    BY <1>0
  <2>1. Chosen(rows, I) = [k \in 1 .. Cardinality(I) |-> rows[f[k]]]
    BY <1>8, <1>9, <1>10, <2>0, ChosenIs, Zenon
  <2>. QED
    BY <1>4, <2>1 DEF Behind
<1>12. \A k \in 1 .. len : rest[k] = rows[a + k] /\ a + k \in 1 .. n
  <2>1. \A k \in 1 .. len : rest[k] = rows[f[k]] /\ f[k] = a + k
    BY <1>6, <1>7, <1>11
  <2>2. \A k \in 1 .. len : a + k \in 1 .. n
    BY <1>3
  <2>. QED
    BY <2>1, <2>2
<1>13. rest \in [1 .. len -> Document]
  BY <1>1, <1>6, <1>11, <1>12
<1>14. rest \in Seq(Document) /\ Len(rest) = len
  BY <1>13
<1>15. \A k \in 1 .. Len(rows) - m : rest[k] = rows[m + k]
  BY <1>3, <1>12
<1>16. m \in 0 .. Len(rows) /\ Len(rest) = Len(rows) - m
  BY <1>3, <1>14
<1>17. IsRest(rest, rows, m)
  BY <1>14, <1>15, <1>16 DEF IsRest
<1>. QED
  BY <1>17

\* Documents that others begin with.
Begins(page, rest) ==
  \A k \in 1 .. Len(page) : page[k] = rest[k] /\ k \in 1 .. Len(rest)

\* A page is a prefix of what is left.
LEMMA PageIs ==
  ASSUME NEW rest \in Seq(Document), NEW len \in Nat, len = Len(rest), NEW size \in Nat \ {0},
         NEW page, page = Slice(rest, 0, size)
  PROVE  /\ page \in Seq(Document)
         /\ Len(page) = (IF size > len THEN len ELSE size)
         /\ Begins(page, rest)
<1>1. Max({0, 0}) = 0
  BY MaxOfTwo
<1>2. PICK m \in 0 .. len : m = IF size > len THEN len ELSE size
  OBVIOUS
<1>3. page = SubSeq(rest, 1, m)
  <2>1. page = SubSeq(rest, 0 + 1, IF size = -1 \/ 0 + size > Len(rest) THEN Len(rest) ELSE 0 + size)
    BY <1>1 DEF Slice
  <2>2. (IF size = -1 \/ 0 + size > Len(rest) THEN Len(rest) ELSE 0 + size) = m
    BY <1>2
  <2>. QED
    BY <2>1, <2>2
<1>4. page \in Seq(Document) /\ Len(page) = m
  BY <1>2, <1>3, Prefix
<1>5. \A i \in 1 .. m : page[i] = rest[i] /\ i \in DOMAIN rest
  BY <1>2, <1>3, Prefix
<1>. QED
  BY <1>2, <1>4, <1>5 DEF Begins

\* How dynamodb reads a stream from its begin.
LEMMA PlanOfLoad ==
  ASSUME StoreAssumption, driver = "dynamodb", NEW q \in Queries, WholeStream(q)
  PROVE  /\ Plan(q).from = "events" /\ Plan(q).key = <<"rev">>
         /\ Plan(q).pages = "keys"
         /\ Plan(q).lo = 0 /\ Plan(q).hi = -1 /\ Plan(q).since = 0
         /\ Plan(q).size = PageSize /\ Plan(q).sort = ByStamp
         /\ Plan(q).skip = 0 /\ Plan(q).take = -1 /\ Plan(q).last = FALSE
<1>1. q.op = "getEventsByRevision" /\ q.lo = 0 /\ q.hi = -1
  BY DEF WholeStream
<1>2. Plan(q) = Dynamodb_getEventsByRevision(q)
  BY <1>1 DEF Plan, GetEventsByRevision
<1>3. Plan(q).from = "events" /\ Plan(q).key = <<"rev">> /\ Plan(q).pages = "keys"
  BY <1>2 DEF Dynamodb_getEventsByRevision, Reading
<1>4. Plan(q).lo = 0 /\ Plan(q).since = 0
  BY <1>1, <1>2 DEF Dynamodb_getEventsByRevision, Reading
<1>5. Plan(q).hi = -1
  BY <1>1, <1>2 DEF Dynamodb_getEventsByRevision, Reading
<1>6. Plan(q).size = PageSize /\ Plan(q).sort = ByStamp
  BY <1>2 DEF Dynamodb_getEventsByRevision, Reading
<1>7. Plan(q).skip = 0 /\ Plan(q).take = -1 /\ Plan(q).last = FALSE
  BY <1>2 DEF Dynamodb_getEventsByRevision, Reading
<1>. QED
  BY <1>3, <1>4, <1>5, <1>6, <1>7

\* Such a read takes every row.
LEMMA SelectedAll ==
  ASSUME StoreAssumption, driver = "dynamodb", NEW q \in Queries, WholeStream(q),
         NEW rows \in Seq(Document)
  PROVE  Selected(Plan(q), rows) = rows
<1>1. \A i \in DOMAIN rows : rows[i].rev \in Nat /\ rows[i].stamp \in Nat
  <2>1. \A i \in DOMAIN rows : rows[i] \in Document
    OBVIOUS
  <2>. QED
    BY <2>1 DEF Document
<1>2. \A i \in DOMAIN rows : Wants(Plan(q), rows[i])
  <2>1. Plan(q).lo = 0 /\ Plan(q).hi = -1 /\ Plan(q).since = 0
    BY PlanOfLoad
  <2>. QED
    BY <1>1, <2>1 DEF Wants
<1>3. {i \in DOMAIN rows : Wants(Plan(q), rows[i])} = DOMAIN rows
  BY <1>2
<1>. QED
  BY <1>3, ChosenAll DEF Selected

\* Sorting what was read by the stamps: the same events, and where the stamps follow
\* the revisions, in the same order.
LEMMA SortedLoad ==
  ASSUME StoreAssumption, NEW docs, Loaded(docs), NEW t, t = Sorted(docs, ByStamp)
  PROVE  LoadOK(t)
<1>1. PICK s \in Seq(Document), n \in Nat : s = docs /\ n = Len(s) /\ DOMAIN s = 1 .. n
  BY DEF Loaded
<1>2. \A i \in 1 .. n : s[i] \in Document /\ s[i].rev = i - 1 /\ Kept(s[i]) /\ s[i].stamp \in Nat
  <2>1. \A i \in 1 .. n : s[i] \in Document /\ s[i].rev = i - 1 /\ Kept(s[i])
    BY <1>1 DEF Loaded
  <2>. QED
    BY <2>1 DEF Document
<1>3. PICK order \in Seq(Key) : order = ByStamp /\ DOMAIN order = {1} /\ order[1] = "stamp"
  <2>1. ByStamp \in Seq(Key)
    BY DEF ByStamp, Key
  <2>2. DOMAIN ByStamp = {1} /\ ByStamp[1] = "stamp"
    BY DEF ByStamp
  <2>. QED
    BY <2>1, <2>2
<1>4. PICK I \in SUBSET DOMAIN s : I = 1 .. n /\ Cardinality(I) = n
  BY <1>1, CountTo
<1>5. t = Arranged(s, I, order)
  BY <1>1, <1>3, <1>4 DEF Sorted
<1>6. ASSUME NEW g, Enumerates(g, s, I, order)
      PROVE  t = [k \in 1 .. n |-> s[g[k]]]
  <2>1. Arranged(s, I, order) = [k \in 1 .. Cardinality(I) |-> s[g[k]]]
    BY <1>6, ArrangedIs
  <2>. QED
    BY <1>4, <1>5, <2>1
<1>7. PICK f : Enumerates(f, s, I, order)
  BY HasEnumeration
<1>8. f \in [1 .. n -> 1 .. n] /\ \A i \in 1 .. n : \E k \in 1 .. n : f[k] = i
  <2>1. \A i \in I : \E k \in 1 .. Cardinality(I) : f[k] = i
    BY <1>7, EnumerationCounts
  <2>2. f \in [1 .. Cardinality(I) -> I]
    BY <1>7 DEF Enumerates
  <2>. QED
    BY <1>4, <2>1, <2>2
<1>9. t = [k \in 1 .. n |-> s[f[k]]]
  BY <1>6, <1>7
<1>10. t \in Seq(Document) /\ DOMAIN t = 1 .. n /\ Len(t) = n
  <2>1. t \in [1 .. n -> Document]
    BY <1>2, <1>8, <1>9
  <2>. QED
    BY <2>1
<1>11. \A k \in 1 .. n : t[k] = s[f[k]] /\ t[k].rev = f[k] - 1 /\ Kept(t[k])
  <2>1. ASSUME NEW k \in 1 .. n
        PROVE  t[k] = s[f[k]] /\ f[k] \in 1 .. n
    BY <1>8, <1>9
  <2>. QED
    BY <1>2, <2>1
<1>12. Gapless(t)
  <2>1. \A k \in 1 .. n : t[k].rev \in 0 .. n - 1
    <3>1. \A i \in 1 .. n : i - 1 \in 0 .. n - 1
      OBVIOUS
    <3>2. \A k \in 1 .. n : f[k] \in 1 .. n
      BY <1>8
    <3>. QED
      BY <1>11, <3>1, <3>2
  <2>2. ASSUME NEW v \in 0 .. n - 1
        PROVE  \E k \in 1 .. n : t[k].rev = v
    <3>1. PICK i \in 1 .. n : i - 1 = v
      OBVIOUS
    <3>2. PICK k \in 1 .. n : f[k] = i
      BY <1>8
    <3>. QED
      BY <1>11, <3>1, <3>2
  <2>3. {t[k].rev : k \in 1 .. n} = 0 .. n - 1
    BY <2>1, <2>2
  <2>. QED
    BY <1>10, <2>3 DEF Gapless
<1>13. ASSUME InTime(t)
       PROVE  \A i \in DOMAIN t : t[i].rev = i - 1
  <2>1. ASSUME NEW i \in 1 .. n, NEW j \in 1 .. n, i < j
        PROVE  s[i].stamp <= s[j].stamp
    <3>1. PICK k \in 1 .. n : f[k] = i
      BY <1>8
    <3>2. PICK l \in 1 .. n : f[l] = j
      BY <1>8
    <3>3. t[k].rev < t[l].rev
      BY <1>11, <2>1, <3>1, <3>2
    <3>4. t[k].stamp <= t[l].stamp
      BY <1>10, <1>13, <3>3 DEF InTime
    <3>. QED
      BY <1>11, <3>1, <3>2, <3>4
  <2>2. ASSUME NEW i \in 1 .. n, NEW j \in 1 .. n, i < j
        PROVE  Precedes(s, order, i, j)
    <3>1. ~KeyLess("stamp", s[j], s[i])
      BY <1>2, <2>1, <2>2 DEF KeyLess, Field
    <3>2. ~Less(order, s[j], s[i])
      BY <1>3, <3>1 DEF Less
    <3>. QED
      BY <2>2, <3>2 DEF Precedes
  <2>3. PICK g : g = [k \in 1 .. n |-> k]
    OBVIOUS
  <2>4. Enumerates(g, s, I, order)
    BY <1>4, <2>2, <2>3 DEF Enumerates
  <2>5. t = [k \in 1 .. n |-> s[g[k]]]
    BY <1>6, <2>4
  <2>. QED
    BY <1>2, <1>10, <2>3, <2>5
<1>. QED
  BY <1>10, <1>11, <1>12, <1>13 DEF LoadOK

\* An empty read.
LEMMA NothingLoaded == Loaded(<<>>) /\ Loaded(<<>>)' /\ LoadOK(<<>>) /\ LoadOK(<<>>)'
<1>1. DOMAIN <<>> = {} /\ <<>> \in Seq(Document)
  OBVIOUS
<1>2. Len(<<>>) = 0
  OBVIOUS
<1>3. PICK none : none = <<>> /\ DOMAIN none = {} /\ none \in Seq(Document) /\ Len(none) = 0
  BY <1>1, <1>2, Zenon
<1>4. {none[i].rev : i \in DOMAIN none} = {} /\ 0 .. 0 - 1 = {}
  BY <1>3
<1>5. Gapless(none)
  BY <1>3, <1>4 DEF Gapless
<1>. QED
  BY <1>3, <1>5 DEF Loaded, LoadOK

\* The answer of a load.
LEMMA AnsweredLoad ==
  ASSUME StoreAssumption, driver = "dynamodb", NEW q \in Queries, WholeStream(q),
         NEW found, Loaded(found), NEW version
  PROVE  LoadOK(Answered(q, found, version).docs)
<1>1. /\ Plan(q).sort = ByStamp /\ Plan(q).last = FALSE
      /\ Plan(q).skip = 0 /\ Plan(q).take = -1
  BY PlanOfLoad
<1>2. PICK t : t = Sorted(found, ByStamp)
  OBVIOUS
<1>3. LoadOK(t) /\ t \in Seq(Document)
  BY <1>2, SortedLoad DEF LoadOK
<1>4. Slice(t, Plan(q).skip, Plan(q).take) = t
  BY <1>1, <1>3, SliceAll
<1>5. Answered(q, found, version).docs = IF Len(t) < Plan(q).most THEN t ELSE <<>>
  BY <1>1, <1>2, <1>4 DEF Answered
<1>. QED
  BY <1>3, <1>5, NothingLoaded

\* After a load the next event follows the last one that was read.
LEMMA NextFollows ==
  ASSUME StoreAssumption, Inv, driver = "dynamodb", NEW docs, LoadOK(docs)
  PROVE  Follows(NextRevision(docs))
<1>1. PICK s \in Seq(Document), n \in Nat : s = docs /\ n = Len(s) /\ DOMAIN s = 1 .. n
  BY DEF LoadOK
<1>2. {s[i].rev : i \in DOMAIN s} = 0 .. n - 1
  BY <1>1 DEF LoadOK, Gapless
<1>3. PICK R : R = {-1} \cup {s[i].rev : i \in DOMAIN s}
  OBVIOUS
<1>4. R = -1 .. n - 1
  <2>1. \A v \in -1 .. n - 1 : v = -1 \/ v \in 0 .. n - 1
    OBVIOUS
  <2>. QED
    BY <1>2, <1>3, <2>1
<1>5. Max(R) = n - 1
  <2>1. PICK m \in -1 .. n - 1 : m = n - 1
    OBVIOUS
  <2>2. \A y \in -1 .. n - 1 : m >= y
    BY <2>1
  <2>3. \A x \in -1 .. n - 1 : (\A y \in -1 .. n - 1 : x >= y) => x = m
    BY <2>1
  <2>4. Max(R) = CHOOSE x \in -1 .. n - 1 : \A y \in -1 .. n - 1 : x >= y
    BY <1>4 DEF Max
  <2>. QED
    BY <2>1, <2>2, <2>3, <2>4
<1>6. NextRevision(docs) = n
  <2>1. NextRevision(docs) = 1 + Max(R)
    BY <1>1, <1>3 DEF NextRevision
  <2>. QED
    BY <1>5, <2>1
<1>7. CASE n = 0
  BY <1>6, <1>7 DEF Follows
<1>8. CASE n # 0
  <2>1. n - 1 \in 0 .. n - 1
    BY <1>8
  <2>2. PICK i \in DOMAIN s : s[i].rev = n - 1
    BY <1>2, <2>1
  <2>3. PICK d \in Document : d = s[i] /\ Kept(d)
    BY <1>1 DEF LoadOK
  <2>. QED
    BY <1>6, <2>2, <2>3 DEF Follows
<1>. QED
  BY <1>7, <1>8

\* What an event follows stays.
LEMMA FollowsGrows ==
  ASSUME NEW r, Follows(r), \A d : Kept(d) => Kept(d)'
  PROVE  Follows(r)'
BY DEF Follows

\* What was read stays.
LEMMA LoadedGrows ==
  ASSUME \A d : Kept(d) => Kept(d)'
  PROVE  /\ \A docs : Loaded(docs) => Loaded(docs)'
         /\ \A docs : LoadOK(docs) => LoadOK(docs)'
<1>1. ASSUME NEW docs, Loaded(docs)
      PROVE  Loaded(docs)'
  <2>1. docs \in Seq(Document) /\ \A i \in DOMAIN docs : docs[i].rev = i - 1 /\ Kept(docs[i])'
    BY <1>1 DEF Loaded
  <2>. QED
    BY <2>1 DEF Loaded
<1>2. ASSUME NEW docs, LoadOK(docs)
      PROVE  LoadOK(docs)'
  <2>1. /\ docs \in Seq(Document) /\ \A i \in DOMAIN docs : Kept(docs[i])'
        /\ Gapless(docs) /\ (InTime(docs) => \A i \in DOMAIN docs : docs[i].rev = i - 1)
    BY <1>2 DEF LoadOK
  <2>. QED
    BY <2>1 DEF LoadOK
<1>. QED
  BY <1>1, <1>2

\* A client that does nothing.
LEMMA ChainReadGrows ==
  ASSUME NEW p \in Client, ChainRead(p), call'[p] = call[p], \A d : Kept(d) => Kept(d)'
  PROVE  ChainRead(p)'
<1>1. PICK x : x = call[p] /\ x = call'[p]
  OBVIOUS
<1>2. x.pc = "asked" /\ WholeStream(x.q) =>
        /\ Loaded(x.found)'
        /\ x.cursor = IF x.found = <<>> THEN <<>> ELSE <<x.found[Len(x.found)]>>
  <2>1. ASSUME x.pc = "asked" /\ WholeStream(x.q)
        PROVE  Loaded(x.found)
    BY <1>1, <2>1 DEF ChainRead
  <2>2. ASSUME x.pc = "asked" /\ WholeStream(x.q)
        PROVE  Loaded(x.found)'
    BY <2>1, <2>2, LoadedGrows
  <2>3. ASSUME x.pc = "asked" /\ WholeStream(x.q)
        PROVE  x.cursor = IF x.found = <<>> THEN <<>> ELSE <<x.found[Len(x.found)]>>
    BY <1>1, <2>3 DEF ChainRead
  <2>. QED
    BY <2>2, <2>3
<1>3. x.pc = "scan" => ~WholeStream(x.q)
  BY <1>1 DEF ChainRead
<1>4. x.pc = "answered" /\ WholeStream(x.q) => LoadOK(x.docs)'
  <2>1. x.pc = "answered" /\ WholeStream(x.q) => LoadOK(x.docs)
    BY <1>1 DEF ChainRead
  <2>. QED
    BY <2>1, LoadedGrows
<1>. QED
  BY <1>1, <1>2, <1>3, <1>4 DEF ChainRead

\* A client whose next revision does not change.
LEMMA BaseFollows ==
  ASSUME Chain, driver = "dynamodb", NEW q \in Client, base'[q] = base[q],
         \A d : Kept(d) => Kept(d)'
  PROVE  Follows(base[q])'
<1>1. PICK r : r = base[q] /\ r = base'[q]
  OBVIOUS
<1>2. Follows(r)
  BY <1>1 DEF Chain
<1>3. Follows(r)'
  BY <1>2, FollowsGrows
<1>. QED
  BY <1>1, <1>3 DEF Follows

\* A commit that is there.
LEMMA CommitFollows ==
  ASSUME Chain, driver = "dynamodb", NEW c \in CommitId, commit[c] # <<>>,
         commit'[c] = commit[c], \A d : Kept(d) => Kept(d)'
  PROVE  Follows(commit[c][1].rev)'
<1>1. PICK r : r = commit[c][1].rev /\ r = commit'[c][1].rev
  OBVIOUS
<1>2. Follows(r)
  BY <1>1 DEF Chain
<1>3. Follows(r)'
  BY <1>2, FollowsGrows
<1>. QED
  BY <1>1, <1>3 DEF Follows

\* A step that leaves the commits and the bases alone.
LEMMA ChainGrows ==
  ASSUME Chain, driver = "dynamodb", UNCHANGED <<driver, commit, base>>,
         \A d : Kept(d) => Kept(d)',
         \A q \in Client : call'[q] = call[q] \/ ChainRead(q)'
  PROVE  Chain'
<1>2. ASSUME NEW q \in Client
      PROVE  Follows(base[q])'
  BY BaseFollows
<1>3. ASSUME NEW c \in CommitId, (commit[c] # <<>>)'
      PROVE  Follows(commit[c][1].rev)'
  BY <1>3, CommitFollows
<1>4. ASSUME NEW q \in Client
      PROVE  ChainRead(q)'
  BY ChainReadGrows DEF Chain
<1>. QED
  BY <1>2, <1>3, <1>4 DEF Chain

\* What was read is not longer than the stream.
LEMMA LoadedFits ==
  ASSUME StoreAssumption, Inv, Chain, driver = "dynamodb", NEW n \in Nat, n = Len(events),
         NEW old \in Seq(Document), Loaded(old), NEW m \in Nat, m = Len(old)
  PROVE  m \in 0 .. n
<1>1. CASE m = 0
  BY <1>1
<1>2. CASE m # 0
  <2>1. m \in DOMAIN old
    BY <1>2
  <2>2. old[m].rev = m - 1 /\ Kept(old[m])
    BY <2>1 DEF Loaded
  <2>3. PICK i \in DOMAIN events : events[i].rev = m - 1
    BY <2>2 DEF Kept
  <2>4. {events[j].rev : j \in DOMAIN events} = 0 .. n - 1
    BY RevisionsAre
  <2>5. m - 1 \in 0 .. n - 1
    BY <2>3, <2>4
  <2>. QED
    BY <2>5
<1>. QED
  BY <1>1, <1>2

\* The cursor leaves the rows that were not read.
LEMMA RestIs ==
  ASSUME StoreAssumption, NEW rows, FromZero(rows), NEW old, FromZero(old), Len(old) \in 0 .. Len(rows),
         NEW cursor, old = <<>> => cursor = <<>>, old # <<>> => cursor = <<old[Len(old)]>>,
         NEW rest, cursor = <<>> => rest = rows, cursor # <<>> => rest = Behind(rows, cursor[1])
  PROVE  IsRest(rest, rows, Len(old))
<1>1. CASE old = <<>>
  <2>1. rest = rows /\ Len(old) = 0
    BY <1>1
  <2>2. rows \in Seq(Document) /\ Len(rows) \in Nat
    BY DEF FromZero
  <2>3. \A k \in 1 .. Len(rows) : 0 + k = k
    OBVIOUS
  <2>. QED
    BY <2>1, <2>2, <2>3 DEF IsRest
<1>2. CASE old # <<>>
  <2>1. old \in Seq(Document) /\ \A k \in 1 .. Len(old) : old[k].rev = k - 1
    BY DEF FromZero
  <2>2. PICK m \in Nat : m = Len(old) /\ m \in 1 .. m /\ m \in 0 .. Len(rows)
    BY <1>2, <2>1, EmptySeq
  <2>3. PICK d \in Document : d = old[m] /\ d.rev = m - 1
    BY <2>1, <2>2
  <2>4. cursor = <<d>>
    BY <1>2, <2>2, <2>3
  <2>5. cursor # <<>> /\ cursor[1] = d
    BY <2>4
  <2>6. rest = Behind(rows, d)
    BY <2>5
  <2>7. IsRest(Behind(rows, d), rows, m)
    BY <2>2, <2>3, RestByCursor
  <2>. QED
    BY <2>2, <2>6, <2>7
<1>. QED
  BY <1>1, <1>2

\* Stored events of the revisions from m on.
Continues(page, m) ==
  \A k \in 1 .. Len(page) : page[k].rev = (m + k) - 1 /\ Kept(page[k])

\* The next revisions continue what was read.
LEMMA LoadedAppend ==
  ASSUME NEW old \in Seq(Document), Loaded(old), NEW m \in Nat, m = Len(old),
         NEW page \in Seq(Document), NEW w \in Nat, w = Len(page), Continues(page, m)
  PROVE  /\ Loaded(old \o page)
         /\ w # 0 => /\ old \o page # <<>>
                     /\ (old \o page)[Len(old \o page)] = page[Len(page)]
<1>1. PICK found \in Seq(Document) : found = old \o page
  BY ConcatProperties
<1>2. Len(found) = m + w /\ DOMAIN found = 1 .. m + w
  BY <1>1
<1>3. \A i \in 1 .. m : found[i] = old[i]
  BY <1>1
<1>4. \A k \in 1 .. w : found[m + k] = page[k]
  BY <1>1
<1>5. \A i \in 1 .. m : old[i].rev = i - 1 /\ Kept(old[i])
  BY DEF Loaded
<1>6. Loaded(found)
  <2>1. ASSUME NEW j \in 1 .. m + w
        PROVE  found[j].rev = j - 1 /\ Kept(found[j])
    <3>1. CASE j <= m
      <4>1. j \in 1 .. m
        BY <3>1
      <4>. QED
        BY <1>3, <1>5, <4>1
    <3>2. CASE ~(j <= m)
      <4>1. PICK k \in 1 .. w : j = m + k
        <5>1. j - m \in 1 .. w /\ j = m + (j - m)
          BY <3>2
        <5>. QED
          BY <5>1
      <4>. QED
        BY <1>4, <4>1 DEF Continues
    <3>. QED
      BY <3>1, <3>2
  <2>. QED
    BY <1>2, <2>1 DEF Loaded
<1>7. w # 0 => found # <<>> /\ found[Len(found)] = page[Len(page)]
  <2>1. ASSUME w # 0
        PROVE  found # <<>> /\ found[Len(found)] = page[Len(page)]
    <3>1. w \in 1 .. w /\ m + w # 0
      BY <2>1
    <3>2. found[m + w] = page[w]
      BY <1>4, <3>1
    <3>. QED
      BY <1>2, <3>1, <3>2
  <2>. QED
    BY <2>1
<1>. QED
  BY <1>1, <1>6, <1>7

\* The next page continues what was read.
LEMMA PageContinues ==
  ASSUME StoreAssumption, Inv, Chain, driver = "dynamodb",
         NEW old, Loaded(old),
         NEW cursor, old = <<>> => cursor = <<>>, old # <<>> => cursor = <<old[Len(old)]>>,
         NEW rest, cursor = <<>> => rest = Sorted(events, <<"rev">>),
         cursor # <<>> => rest = Behind(Sorted(events, <<"rev">>), cursor[1]),
         NEW page, page = Slice(rest, 0, PageSize)
  PROVE  /\ page \in Seq(Document)
         /\ Loaded(old \o page)
         /\ Len(rest) > PageSize => /\ old \o page # <<>>
                                    /\ (old \o page)[Len(old \o page)] = page[Len(page)]
<1>1. PICK n \in Nat : n = Len(events)
  <2>1. events \in Seq(Document)
    BY DEF Inv, EventsOK
  <2>. QED
    BY <2>1
<1>2. PICK rows : rows = Sorted(events, <<"rev">>)
  OBVIOUS
<1>3. /\ rows \in Seq(Document) /\ Len(rows) = n
      /\ \A k \in 1 .. n : rows[k].rev = k - 1 /\ Kept(rows[k])
  BY <1>1, <1>2, RowsByRevision
<1>4. FromZero(rows)
  BY <1>3 DEF FromZero
<1>5. old \in Seq(Document)
  BY DEF Loaded
<1>6. PICK m \in Nat : m = Len(old)
  BY <1>5
<1>7. FromZero(old)
  <2>1. \A k \in 1 .. Len(old) : k \in DOMAIN old
    BY <1>5
  <2>. QED
    BY <1>5, <2>1 DEF Loaded, FromZero
<1>8. m \in 0 .. n
  BY <1>1, <1>5, <1>6, LoadedFits
<1>9. IsRest(rest, rows, m)
  <2>1. Len(old) \in 0 .. Len(rows)
    BY <1>3, <1>6, <1>8
  <2>2. cursor = <<>> => rest = rows
    BY <1>2
  <2>3. cursor # <<>> => rest = Behind(rows, cursor[1])
    BY <1>2
  <2>4. IsRest(rest, rows, Len(old))
    BY <1>4, <1>7, <2>1, <2>2, <2>3, RestIs
  <2>. QED
    BY <1>6, <2>4
<1>10. /\ rest \in Seq(Document) /\ Len(rest) = n - m
       /\ \A k \in 1 .. n - m : rest[k] = rows[m + k]
  BY <1>3, <1>9 DEF IsRest
<1>11. PICK len \in Nat : len = n - m /\ len = Len(rest)
  BY <1>8, <1>10
<1>12. PICK size \in Nat \ {0} : size = PageSize
  BY DEF Parameters
<1>13. rest \in Seq(Document) /\ len = Len(rest) /\ page = Slice(rest, 0, size)
  BY <1>10, <1>11, <1>12
<1>14. page \in Seq(Document) /\ Len(page) = (IF size > len THEN len ELSE size)
  BY <1>13, PageIs
<1>15. Begins(page, rest)
  BY <1>13, PageIs
<1>16. PICK w \in Nat : w = Len(page)
  BY <1>14
<1>17. \A k \in 1 .. w : page[k].rev = (m + k) - 1 /\ Kept(page[k])
  <2>1. SUFFICES ASSUME NEW k \in 1 .. w
                 PROVE  page[k].rev = (m + k) - 1 /\ Kept(page[k])
    OBVIOUS
  <2>2. page[k] = rest[k] /\ k \in 1 .. len
    BY <1>11, <1>15, <1>16 DEF Begins
  <2>3. rest[k] = rows[m + k]
    BY <1>10, <1>11, <2>2
  <2>4. m + k \in 1 .. n
    BY <1>8, <1>11, <2>2
  <2>. QED
    BY <1>3, <2>2, <2>3, <2>4
<1>21. page \in Seq(Document)
  BY <1>14
<1>22. Continues(page, m)
  BY <1>16, <1>17 DEF Continues
<1>18. Loaded(old \o page)
  BY <1>5, <1>6, <1>16, <1>21, <1>22, LoadedAppend
<1>19. w # 0 => /\ old \o page # <<>>
                /\ (old \o page)[Len(old \o page)] = page[Len(page)]
  BY <1>5, <1>6, <1>16, <1>21, <1>22, LoadedAppend
<1>20. Len(rest) > PageSize => w # 0
  BY <1>11, <1>12, <1>14, <1>16
<1>. QED
  BY <1>18, <1>19, <1>20, <1>21

\* A page.
LEMMA ChainPage ==
  ASSUME StoreAssumption, Inv, Chain, driver = "dynamodb", NEW p \in Client, Page(p)
  PROVE  Chain'
<1>1. UNCHANGED <<driver, commit, events, clock, base>> /\ call[p].pc = "asked"
  BY DEF Page, Unread, store
<1>2. PICK q, old, cursor, v : /\ q = call[p].q /\ old = call[p].found
                               /\ cursor = call[p].cursor /\ v = call[p].version
  OBVIOUS
<1>3. /\ call[p] = [pc |-> "asked", q |-> q, found |-> old, cursor |-> cursor, version |-> v]
      /\ q \in Queries
  BY <1>1, <1>2 DEF Inv, ReadsOK, ReadOK, Adds
<1>4. PICK rest : rest = IF cursor = <<>> THEN Sorted(Rows(Plan(q).from), Plan(q).key)
                         ELSE Chosen(Sorted(Rows(Plan(q).from), Plan(q).key),
                                     {i \in DOMAIN Sorted(Rows(Plan(q).from), Plan(q).key) :
                                        Less(Plan(q).key, cursor[1],
                                             Sorted(Rows(Plan(q).from), Plan(q).key)[i])})
  OBVIOUS
<1>5. PICK page : page = Slice(rest, 0, Plan(q).size)
  OBVIOUS
<1>6. PICK found : found = old \o Selected(Plan(q), page)
  OBVIOUS
<1>7. call' = [call EXCEPT ![p] =
         IF Len(rest) > Plan(q).size /\ Len(found) < Plan(q).enough
         THEN [@ EXCEPT !.found = found, !.cursor = <<page[Len(page)]>>]
         ELSE Answered(q, found, @.version)]
  BY <1>2, <1>4, <1>5, <1>6, Zenon DEF Page
<1>8. PICK last : last = page[Len(page)]
  OBVIOUS
<1>9. PICK x : /\ call' = [call EXCEPT ![p] = x]
               /\ \/ /\ x = [call[p] EXCEPT !.found = found, !.cursor = <<last>>]
                     /\ Len(rest) > Plan(q).size
                  \/ x = Answered(q, found, v)
  BY <1>2, <1>7, <1>8
<1>10. call'[p] = x /\ \A u \in Client : u # p => call'[u] = call[u]
  BY <1>9 DEF Inv, Setting
<1>11. \A d : Kept(d) => Kept(d)'
  BY <1>1 DEF Kept
<1>12. ASSUME WholeStream(q)
       PROVE  /\ Loaded(found)
              /\ Len(rest) > Plan(q).size => found # <<>> /\ found[Len(found)] = last
  <2>1. /\ Loaded(old)
        /\ cursor = IF old = <<>> THEN <<>> ELSE <<old[Len(old)]>>
    BY <1>1, <1>2, <1>12 DEF Chain, ChainRead
  <2>2. (old = <<>> => cursor = <<>>) /\ (old # <<>> => cursor = <<old[Len(old)]>>)
    BY <2>1
  <2>3. Plan(q).from = "events" /\ Plan(q).key = <<"rev">> /\ Plan(q).size = PageSize
    BY <1>3, <1>12, PlanOfLoad
  <2>4. PICK rows : rows = Sorted(events, <<"rev">>)
    OBVIOUS
  <2>5. rows = Sorted(Rows(Plan(q).from), Plan(q).key)
    BY <2>3, <2>4 DEF Rows
  <2>6. cursor = <<>> => rest = rows
    BY <1>4, <2>5
  <2>7. cursor # <<>> => rest = Behind(rows, cursor[1])
    BY <1>4, <2>3, <2>5 DEF Behind
  <2>8. page = Slice(rest, 0, PageSize)
    BY <1>5, <2>3
  <2>9. /\ page \in Seq(Document)
        /\ Loaded(old \o page)
        /\ Len(rest) > PageSize => /\ old \o page # <<>>
                                   /\ (old \o page)[Len(old \o page)] = page[Len(page)]
    BY <2>1, <2>2, <2>4, <2>6, <2>7, <2>8, PageContinues
  <2>10. Selected(Plan(q), page) = page
    BY <1>3, <1>12, <2>9, SelectedAll
  <2>11. found = old \o page
    BY <1>6, <2>10
  <2>. QED
    BY <1>8, <2>3, <2>9, <2>11
<1>13. ChainRead(p)'
  <2>1. CASE x = Answered(q, found, v)
    <3>1. x.pc = "answered" /\ x.q = q
      BY <2>1, AnsweredIs
    <3>2. WholeStream(q) => LoadOK(x.docs)
      BY <1>3, <1>12, <2>1, AnsweredLoad
    <3>3. WholeStream(q) => LoadOK(x.docs)'
      BY <1>11, <3>2, LoadedGrows
    <3>. QED
      BY <1>10, <3>1, <3>3 DEF ChainRead
  <2>2. CASE /\ x = [call[p] EXCEPT !.found = found, !.cursor = <<last>>]
             /\ Len(rest) > Plan(q).size
    <3>1. x.pc = "asked" /\ x.q = q
      BY <1>3, <2>2
    <3>2. x.found = found
      BY <1>3, <2>2
    <3>3. x.cursor = <<last>>
      BY <1>3, <2>2
    <3>4. WholeStream(q) => Loaded(found)
      BY <1>12
    <3>5. WholeStream(q) => Loaded(x.found)'
      BY <1>11, <3>2, <3>4, LoadedGrows
    <3>6. WholeStream(q) => x.cursor = IF x.found = <<>> THEN <<>> ELSE <<x.found[Len(x.found)]>>
      BY <1>12, <2>2, <3>2, <3>3
    <3>. QED
      BY <1>10, <3>1, <3>5, <3>6 DEF ChainRead
  <2>. QED
    BY <1>9, <2>1, <2>2
<1>. QED
  BY <1>1, <1>10, <1>11, <1>13, ChainGrows

\* The answer was looked at.
LEMMA ChainDone ==
  ASSUME StoreAssumption, Inv, Chain, driver = "dynamodb", NEW p \in Client, Done(p)
  PROVE  Chain'
<1>1. /\ call[p].pc = "answered"
      /\ call' = [call EXCEPT ![p] = Idle]
      /\ UNCHANGED <<driver, events, commit, clock>>
  BY DEF Done, store
<1>2. \/ base' = base
      \/ /\ WholeStream(call[p].q)
         /\ base' = [base EXCEPT ![p] = NextRevision(call[p].docs)]
  BY DEF Done
<1>3. \A d : Kept(d) => Kept(d)'
  BY <1>1 DEF Kept
<1>5. ASSUME NEW q \in Client
      PROVE  Follows(base[q])'
  <2>1. CASE base'[q] = base[q]
    BY <1>3, <2>1, BaseFollows
  <2>2. CASE base'[q] # base[q]
    <3>1. base \in [Client -> Nat]
      BY DEF Inv, TypeOK
    <3>2. /\ WholeStream(call[p].q)
          /\ base'[q] = NextRevision(call[p].docs)
      BY <1>2, <2>2, <3>1
    <3>3. PICK docs, r : docs = call[p].docs /\ r = NextRevision(docs) /\ r = base'[q]
      BY <3>2
    <3>4. LoadOK(docs)
      BY <1>1, <3>2, <3>3 DEF Chain, ChainRead
    <3>5. Follows(r)
      BY <3>3, <3>4, NextFollows
    <3>7. Follows(r)'
      BY <1>3, <3>5, FollowsGrows
    <3>. QED
      BY <3>3, <3>7 DEF Follows
  <2>. QED
    BY <2>1, <2>2
<1>6. ASSUME NEW c \in CommitId, (commit[c] # <<>>)'
      PROVE  Follows(commit[c][1].rev)'
  BY <1>1, <1>3, <1>6, CommitFollows
<1>7. ASSUME NEW q \in Client
      PROVE  ChainRead(q)'
  <2>1. CASE q = p
    <3>1. call'[p].pc = "idle"
      BY <1>1 DEF Idle, Inv, Setting
    <3>. QED
      BY <2>1, <3>1 DEF ChainRead
  <2>2. CASE q # p
    <3>1. call'[q] = call[q]
      BY <1>1, <2>2 DEF Inv, Setting
    <3>. QED
      BY <1>3, <3>1, ChainReadGrows DEF Chain
  <2>. QED
    BY <2>1, <2>2
<1>. QED
  BY <1>5, <1>6, <1>7 DEF Chain

\* A new commit.
LEMMA ChainAdd ==
  ASSUME StoreAssumption, Inv, Chain, driver = "dynamodb",
         NEW p \in Client, NEW c \in CommitId, NEW n \in Sizes, Add(p, c, n)
  PROVE  Chain'
<1>1. UNCHANGED <<driver, events, base>> /\ commit[c] = <<>>
  BY DEF Add, store
<1>2. PICK at \in Stamps(n) :
        LET docs == [i \in 1..n |-> Doc(c, i - 1, n, base[p], at[i])]
        IN  /\ commit' = [commit EXCEPT ![c] = docs]
            /\ call' = [call EXCEPT ![p] = [pc |-> "adding", c |-> c, todo |-> AddEvents(docs)]]
  BY DEF Add
<1>3. PICK docs : docs = [i \in 1..n |-> Doc(c, i - 1, n, base[p], at[i])]
  OBVIOUS
<1>4. PICK all : all = AddEvents(docs)
  OBVIOUS
<1>5. /\ commit' = [commit EXCEPT ![c] = docs]
      /\ call' = [call EXCEPT ![p] = [pc |-> "adding", c |-> c, todo |-> all]]
  BY <1>2, <1>3, <1>4
<1>6. \A d : Kept(d) => Kept(d)'
  BY <1>1 DEF Kept
<1>8. docs[1].rev = base[p]
  <2>1. n \in Nat \ {0} /\ base[p] \in Nat /\ clock \in Nat
    <3>1. n \in Nat \ {0}
      BY DEF Parameters
    <3>. QED
      BY <3>1 DEF Inv, TypeOK
  <2>2. PICK first \in Nat, m \in Nat \ {0} : first = base[p] /\ m = n
    BY <2>1
  <2>3. at \in [1 .. n -> Nat]
    BY <2>1, StampsAre
  <2>4. PICK u \in [1 .. m -> Nat] : u = at
    BY <2>2, <2>3
  <2>5. docs = NewEvents(c, m, first, u)
    BY <1>3, <2>2, <2>4 DEF NewEvents
  <2>6. FreshDocs(docs, c, m, first)
    BY <2>5, NewDocs
  <2>. QED
    BY <2>2, <2>6 DEF FreshDocs
<1>9. ASSUME NEW q \in Client
      PROVE  Follows(base[q])'
  <2>1. base'[q] = base[q]
    BY <1>1
  <2>. QED
    BY <1>6, <2>1, BaseFollows
<1>10. commit'[c] = docs /\ \A e \in CommitId \ {c} : commit'[e] = commit[e]
  BY <1>5 DEF Inv, CommitsOK
<1>11. ASSUME NEW e \in CommitId, (commit[e] # <<>>)'
       PROVE  Follows(commit[e][1].rev)'
  <2>1. CASE e = c
    <3>1. Follows(base[p])'
      BY <1>9
    <3>2. commit'[e][1].rev = base'[p]
      BY <1>1, <1>5, <1>8, <1>10, <2>1
    <3>. QED
      BY <3>1, <3>2 DEF Follows
  <2>2. CASE e # c
    <3>1. commit'[e] = commit[e] /\ commit[e] # <<>>
      BY <1>10, <1>11, <2>2
    <3>. QED
      BY <1>6, <3>1, CommitFollows
  <2>. QED
    BY <2>1, <2>2
<1>12. ASSUME NEW q \in Client
       PROVE  ChainRead(q)'
  <2>1. CASE q = p
    <3>1. call'[p].pc = "adding"
      BY <1>5 DEF Inv, Setting
    <3>. QED
      BY <2>1, <3>1 DEF ChainRead
  <2>2. CASE q # p
    <3>1. call'[q] = call[q]
      BY <1>5, <2>2 DEF Inv, Setting
    <3>. QED
      BY <1>6, <3>1, ChainReadGrows DEF Chain
  <2>. QED
    BY <2>1, <2>2
<1>. QED
  BY <1>9, <1>11, <1>12 DEF Chain

\* A request takes effect.
LEMMA TakesGrows ==
  ASSUME StoreAssumption, Inv, NEW r \in Requests, NEW o \in Outcomes(r), Takes(r, o)
  PROVE  \A d : Kept(d) => Kept(d)'
<1>1. faults \in 0 .. MaxFaults /\ events \in Seq(Document)
  BY DEF Inv, TypeOK, EventsOK
<1>2. PICK old \in Seq(Document) : old = events
  BY <1>1
<1>3. PICK new \in Seq(Document) : new = o.docs
  BY <1>1, OutcomeCases
<1>4. events' = old \o new \/ events' = old
  BY <1>2, <1>3 DEF Takes
<1>5. \A i \in DOMAIN old : i \in DOMAIN (old \o new) /\ (old \o new)[i] = old[i]
  OBVIOUS
<1>. QED
  BY <1>2, <1>4, <1>5 DEF Kept

\* A request of a commit takes effect.
LEMMA ChainWrite ==
  ASSUME StoreAssumption, Inv, Chain, driver = "dynamodb", NEW p \in Client, Write(p)
  PROVE  Chain'
<1>1. Adds(p) /\ UNCHANGED <<driver, commit, clock, base>>
  BY DEF Write, Adds
<1>2. PICK r : /\ r = call[p].todo[1] /\ \E o \in Outcomes(r) : Takes(r, o)
               /\ \/ \E rest : call' = [call EXCEPT ![p].todo = rest]
                  \/ call' = [call EXCEPT ![p] = Idle]
  <2>1. Pending(p) = {1}
    BY DEF Pending
  <2>. QED
    BY <2>1 DEF Write
<1>3. r \in Requests
  <2>1. Progress(p)
    BY <1>1, WriterIs
  <2>2. PICK docs, all : docs = commit[call[p].c] /\ all = AllOf(p)
    OBVIOUS
  <2>3. docs \in Seq(Document) /\ docs # <<>> /\ all = AddEvents(docs)
    BY <1>1, <2>2, WriterIs DEF AllOf
  <2>4. Singles(all, docs)
    BY <2>3, SingleRequests
  <2>5. all \in Seq(Requests)
    BY <2>4 DEF Singles
  <2>6. PICK k \in DOMAIN all : call[p].todo = SubSeq(all, k, Len(all))
    BY <2>1, <2>2 DEF Progress
  <2>7. PICK t : t = call[p].todo /\ t = SubSeq(all, k, Len(all))
    BY <2>6
  <2>8. t[1] = all[k]
    BY <2>5, <2>7, SuffixStep
  <2>9. all[k] \in Requests
    BY <2>5
  <2>. QED
    BY <1>2, <2>7, <2>8, <2>9
<1>4. \A d : Kept(d) => Kept(d)'
  BY <1>2, <1>3, TakesGrows
<1>5. call'[p].pc \in {"adding", "idle"} /\ \A q \in Client : q # p => call'[q] = call[q]
  <2>1. CASE call' = [call EXCEPT ![p] = Idle]
    BY <2>1 DEF Idle, Inv, Setting
  <2>2. CASE \E rest : call' = [call EXCEPT ![p].todo = rest]
    <3>1. PICK rest : call' = [call EXCEPT ![p].todo = rest]
      BY <2>2
    <3>2. call[p] = [pc |-> "adding", c |-> call[p].c, todo |-> call[p].todo]
      BY <1>1 DEF Inv, WritesOK, WriteOK
    <3>3. call'[p].pc = call[p].pc
      BY <3>1, <3>2 DEF Inv, Setting
    <3>4. \A q \in Client : q # p => call'[q] = call[q]
      BY <3>1 DEF Inv, Setting
    <3>. QED
      BY <3>2, <3>3, <3>4
  <2>. QED
    BY <1>2, <2>1, <2>2
<1>6. ChainRead(p)'
  BY <1>5 DEF ChainRead
<1>. QED
  BY <1>1, <1>4, <1>5, <1>6, ChainGrows

\* A request nobody waits for: dynamodb has none but clearings of a journal.
LEMMA ChainWriteLate ==
  ASSUME StoreAssumption, Inv, Chain, driver = "dynamodb", WriteLate
  PROVE  Chain'
<1>1. UNCHANGED <<driver, commit, clock, base, call>>
  BY DEF WriteLate
<1>2. PICK r \in late : \E o \in Outcomes(r) : Takes(r, o)
  BY DEF WriteLate
<1>3. r \in Requests
  BY DEF Inv, LateOK
<1>4. \A d : Kept(d) => Kept(d)'
  BY <1>2, <1>3, TakesGrows
<1>. QED
  BY <1>1, <1>4, ChainGrows

\* A step that answers a client or asks for it, and stores nothing.
LEMMA ChainQuiet ==
  ASSUME StoreAssumption, Inv, Chain, driver = "dynamodb", NEW p \in Client,
         UNCHANGED <<driver, commit, events, clock, base>>, NEW x, call' = [call EXCEPT ![p] = x],
         ~(x.pc = "scan" /\ WholeStream(x.q)),
         x.pc = "asked" /\ WholeStream(x.q) => x.found = <<>> /\ x.cursor = <<>>,
         x.pc = "answered" => ~WholeStream(x.q) \/ x.docs = <<>>
  PROVE  Chain'
<1>1. \A d : Kept(d) => Kept(d)'
  BY DEF Kept
<1>2. call'[p] = x /\ \A q \in Client : q # p => call'[q] = call[q]
  BY DEF Inv, Setting
<1>3. ChainRead(p)'
  <2>1. x.pc = "asked" /\ WholeStream(x.q) => Loaded(x.found)'
    BY NothingLoaded
  <2>2. x.pc = "asked" /\ WholeStream(x.q) =>
          x.cursor = IF x.found = <<>> THEN <<>> ELSE <<x.found[Len(x.found)]>>
    OBVIOUS
  <2>3. x.pc = "answered" /\ WholeStream(x.q) => LoadOK(x.docs)'
    BY NothingLoaded
  <2>. QED
    BY <1>2, <2>1, <2>2, <2>3 DEF ChainRead
<1>. QED
  BY <1>1, <1>2, <1>3, ChainGrows

\* A question.
LEMMA ChainAsk ==
  ASSUME StoreAssumption, Inv, Chain, driver = "dynamodb", NEW p \in Client, NEW q \in Queries,
         Ask(p, q)
  PROVE  Chain'
<1>1. UNCHANGED <<driver, commit, events, clock, base>>
  BY DEF Ask, Unread, store
<1>2. PICK x : x = [pc |-> "asked", q |-> q, found |-> <<>>, cursor |-> <<>>, version |-> Version]
  OBVIOUS
<1>3. call' = [call EXCEPT ![p] = x] /\ x.pc = "asked" /\ x.found = <<>> /\ x.cursor = <<>>
  BY <1>2 DEF Ask
<1>. QED
  BY <1>1, <1>3, ChainQuiet

\* A query that one request answers: not a read of the stream from its begin.
LEMMA ChainFetch ==
  ASSUME StoreAssumption, Inv, Chain, driver = "dynamodb", NEW p \in Client, NEW q \in Queries,
         Fetch(p, q)
  PROVE  Chain'
<1>1. UNCHANGED <<driver, commit, events, clock, base>> /\ Plan(q).pages = "one"
  BY DEF Fetch, Unread, store
<1>2. ~WholeStream(q)
  BY <1>1, PlanOfLoad
<1>3. PICK found : found = Selected(Plan(q), Rows(Plan(q).from))
  OBVIOUS
<1>4. PICK x : x = Answered(q, found, Version)
  OBVIOUS
<1>5. call' = [call EXCEPT ![p] = x]
  BY <1>3, <1>4 DEF Fetch
<1>6. x.pc = "answered" /\ x.q = q
  BY <1>4, AnsweredIs
<1>. QED
  BY <1>1, <1>2, <1>5, <1>6, ChainQuiet

\* SCAN is not how dynamodb reads the stream.
LEMMA ChainScanBegins ==
  ASSUME StoreAssumption, Inv, Chain, driver = "dynamodb", NEW p \in Client, Redis_scanBegins(p)
  PROVE  Chain'
<1>1. /\ UNCHANGED <<driver, commit, events, clock, base>>
      /\ call[p].pc = "asked" /\ Plan(call[p].q).pages = "scan"
  BY DEF Redis_scanBegins, Unread, store
<1>2. PICK q, old, cursor, v : /\ q = call[p].q /\ old = call[p].found
                               /\ cursor = call[p].cursor /\ v = call[p].version
  OBVIOUS
<1>3. /\ call[p] = [pc |-> "asked", q |-> q, found |-> old, cursor |-> cursor, version |-> v]
      /\ q \in Queries
  BY <1>1, <1>2 DEF Inv, ReadsOK, ReadOK, Adds
<1>4. ~WholeStream(q)
  BY <1>1, <1>2, <1>3, PlanOfLoad
<1>5. PICK rows : rows = Rows(Plan(q).from)
  OBVIOUS
<1>6. PICK y, x : y = [call[p] EXCEPT !.pc = "scan"] /\ x = [y EXCEPT !.found = rows]
  OBVIOUS
<1>7. call' = [call EXCEPT ![p] = x]
  <2>1. call' = [call EXCEPT ![p].pc = "scan", ![p].found = rows]
    BY <1>2, <1>5 DEF Redis_scanBegins
  <2>2. call' = [call EXCEPT ![p] = [[call[p] EXCEPT !.pc = "scan"] EXCEPT !.found = rows]]
    BY <2>1 DEF Inv, Setting
  <2>. QED
    BY <1>6, <2>2
<1>8. x.pc = "scan" /\ x.q = q
  <2>1. y = [pc |-> "scan", q |-> q, found |-> old, cursor |-> cursor, version |-> v]
    BY <1>3, <1>6
  <2>. QED
    BY <1>6, <2>1
<1>. QED
  BY <1>1, <1>4, <1>7, <1>8, ChainQuiet

LEMMA ChainScanEnds ==
  ASSUME StoreAssumption, Inv, Chain, driver = "dynamodb", NEW p \in Client, Redis_scanEnds(p)
  PROVE  Chain'
<1>1. /\ UNCHANGED <<driver, commit, events, clock, base>>
      /\ call[p].pc = "scan"
  BY DEF Redis_scanEnds, Unread, store
<1>2. PICK q : q = call[p].q
  OBVIOUS
<1>3. ~WholeStream(q)
  BY <1>1, <1>2 DEF Chain, ChainRead
<1>4. PICK x : /\ call' = [call EXCEPT ![p] = x]
               /\ (\E found, v : x = Answered(q, found, v)) \/ x = Rejected(q)
  <2>1. PICK found, null :
          call' = [call EXCEPT ![p] =
            IF null = {} THEN Answered(q, found, call[p].version) ELSE Rejected(q)]
    BY <1>2 DEF Redis_scanEnds
  <2>2. PICK x : x = IF null = {} THEN Answered(q, found, call[p].version) ELSE Rejected(q)
    OBVIOUS
  <2>3. call' = [call EXCEPT ![p] = x]
    BY <2>1, <2>2
  <2>. QED
    BY <2>2, <2>3
<1>5. x.pc = "answered" /\ x.q = q
  BY <1>4, AnsweredIs, RejectedIs
<1>. QED
  BY <1>1, <1>3, <1>4, <1>5, ChainQuiet

\* A read that fails is an error for dynamodb.
LEMMA ChainReadFails ==
  ASSUME StoreAssumption, Inv, Chain, driver = "dynamodb", NEW p \in Client, NEW q \in Queries,
         ReadFails(p, q)
  PROVE  Chain'
<1>1. UNCHANGED <<driver, commit, events, clock, base>>
  BY DEF ReadFails, Unread, store
<1>2. PICK x : x = Rejected(q) /\ call' = [call EXCEPT ![p] = x]
  BY DEF ReadFails
<1>3. x.pc = "answered" /\ x.docs = <<>>
  BY <1>2 DEF Rejected
<1>. QED
  BY <1>1, <1>2, <1>3, ChainQuiet

\* Every step.
LEMMA ChainNext ==
  ASSUME StoreAssumption, Inv, Chain, [Next]_vars
  PROVE  Chain'
<1>1. driver' = driver
  <2>1. ASSUME NEW p \in Client, Step(p)
        PROVE  driver' = driver
    BY <2>1 DEF Step, Add, Write, Ask, Fetch, ReadFails, Clean, Lookup, Repair, Page,
       Redis_scanBegins, Redis_scanEnds, Unread
  <2>2. ASSUME NEW p \in Client, Done(p)
        PROVE  driver' = driver
    BY <2>2 DEF Done
  <2>3. WriteLate => driver' = driver
    BY DEF WriteLate
  <2>4. ASSUME NEW id, Mark(id)
        PROVE  driver' = driver
    BY <2>4 DEF Mark
  <2>5. UNCHANGED vars => driver' = driver
    BY DEF vars
  <2>. QED
    BY <2>1, <2>2, <2>3, <2>4, <2>5 DEF Next, Others
<1>2. SUFFICES ASSUME driver = "dynamodb"
               PROVE  Chain'
  BY <1>1 DEF Chain
<1>3. ASSUME UNCHANGED <<driver, commit, events, clock, base, call>>
      PROVE  Chain'
  <2>1. \A d : Kept(d) => Kept(d)'
    BY <1>3 DEF Kept
  <2>. QED
    BY <1>2, <1>3, <2>1, ChainGrows
<1>4. ASSUME NEW p \in Client, Step(p)
      PROVE  Chain'
  <2>1. ASSUME NEW c \in CommitId, NEW n \in Sizes, Add(p, c, n)
        PROVE  Chain'
    BY <1>2, <2>1, ChainAdd
  <2>2. ASSUME Write(p)
        PROVE  Chain'
    BY <1>2, <2>2, ChainWrite
  <2>3. ASSUME NEW q \in Queries, Ask(p, q)
        PROVE  Chain'
    BY <1>2, <2>3, ChainAsk
  <2>4. ASSUME NEW q \in Queries, Fetch(p, q)
        PROVE  Chain'
    BY <1>2, <2>4, ChainFetch
  <2>5. Asks(p) \subseteq Queries
    BY DEF Asks
  <2>6. ~(Clean(p) \/ Lookup(p) \/ Repair(p))
    <3>1. call[p].pc \notin {"clean", "lookup", "repair"}
      BY <1>2 DEF Inv, ReadsOK, ReadOK
    <3>. QED
      BY <3>1 DEF Clean, Lookup, Repair
  <2>7. ASSUME Page(p)
        PROVE  Chain'
    BY <1>2, <2>7, ChainPage
  <2>8. ASSUME Redis_scanBegins(p)
        PROVE  Chain'
    BY <1>2, <2>8, ChainScanBegins
  <2>9. ASSUME Redis_scanEnds(p)
        PROVE  Chain'
    BY <1>2, <2>9, ChainScanEnds
  <2>10. ASSUME NEW q \in Queries, ReadFails(p, q)
         PROVE  Chain'
    BY <1>2, <2>10, ChainReadFails
  <2>. QED
    BY <1>4, <2>1, <2>2, <2>3, <2>4, <2>5, <2>6, <2>7, <2>8, <2>9, <2>10 DEF Step
<1>5. ASSUME NEW p \in Client, Done(p)
      PROVE  Chain'
  BY <1>2, <1>5, ChainDone
<1>6. ASSUME NEW id, Mark(id)
      PROVE  Chain'
  BY <1>3, <1>6 DEF Mark
<1>7. ASSUME WriteLate
      PROVE  Chain'
  BY <1>2, <1>7, ChainWriteLate
<1>8. ASSUME UNCHANGED vars
      PROVE  Chain'
  BY <1>3, <1>8 DEF vars
<1>. QED
  BY <1>4, <1>5, <1>6, <1>7, <1>8 DEF Next, Others

\* The first state.
LEMMA ChainInit ==
  ASSUME Init
  PROVE  Chain
<1>1. \A p \in Client : base[p] = 0 /\ call[p].pc = "idle"
  BY DEF Init, Idle
<1>2. \A c \in CommitId : commit[c] = <<>>
  BY DEF Init
<1>3. \A p \in Client : Follows(base[p])
  BY <1>1 DEF Follows
<1>4. \A p \in Client : ChainRead(p)
  BY <1>1 DEF ChainRead
<1>. QED
  BY <1>2, <1>3, <1>4 DEF Chain

\* A client that dynamodb serves page by page while others write gets the revisions
\* from 0 on without a gap, and in order if no later revision has an earlier stamp.
THEOREM LoadsHaveNoGap == Spec => []LoadsArePrefixes
<1>1. Init => Inv /\ Chain
  BY StoreAssumption, InitOK, ChainInit
<1>2. Inv /\ Chain /\ [Next]_vars => (Inv /\ Chain)'
  BY StoreAssumption, NextOK, ChainNext
<1>3. Chain => LoadsArePrefixes
  <2>1. SUFFICES ASSUME Chain, driver = "dynamodb"
                 PROVE  \A p \in Client : call[p].pc = "answered" /\ WholeStream(call[p].q)
                          => LoadOK(call[p].docs)
    BY DEF LoadsArePrefixes, LoadOK
  <2>. QED
    BY <2>1 DEF Chain, ChainRead
<1>. QED
  BY <1>1, <1>2, <1>3, PTL DEF Spec
=============================================================================
