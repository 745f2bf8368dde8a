------------------------- MODULE StoreReads_proofs -------------------------
(***************************************************************************)
(* The seven drivers of StoreEvents answer the same: a read during which   *)
(* the store did not change answers what the contract promises.            *)
(***************************************************************************)
EXTENDS StoreEvents_proofs

-----------------------------------------------------------------------------
(* Sorting what was filtered, and filtering what was sorted *)

\* The events of s that are in D, in their order.
Keep(s, D) == Chosen(s, {i \in DOMAIN s : s[i] \in D})

\* The places I of s whose events are in D.
Within(s, I, D) == {i \in I : s[i] \in D}

\* A stable sort by o2 of the events that already stand in the order o1 brings
\* none of them into another order than o.
Refines(s, I, o1, o2, o) ==
  \A x, y \in I :
    Less(o2, s[x], s[y]) \/ (~Less(o2, s[y], s[x]) /\ Precedes(s, o1, x, y))
      => Precedes(s, o, x, y)

\* f reaches each of the places I.
Reaches(f, n, I) == \A i \in I : \E k \in 1 .. n : f[k] = i

LEMMA EnumerationReaches ==
  ASSUME StoreAssumption, NEW order \in Seq(Key), NEW s \in Seq(Document),
         NEW I \in SUBSET DOMAIN s, NEW f, Enumerates(f, s, I, order),
         NEW n, n = Cardinality(I)
  PROVE  Reaches(f, n, I)
<1>1. \A i \in I : \E k \in 1 .. Cardinality(I) : f[k] = i
  BY EnumerationCounts, SMTT(60)
<1>. QED
  BY <1>1 DEF Reaches

\* An arrangement that is filtered and sorted once more is an arrangement of the
\* remaining places.
LEMMA Rearranged ==
  ASSUME StoreAssumption, NEW s \in Seq(Document), NEW I \in SUBSET DOMAIN s,
         NEW o1 \in Seq(Key), NEW o2 \in Seq(Key), NEW o \in Seq(Key), NEW D,
         Refines(s, Within(s, I, D), o1, o2, o),
         NEW t, t = Arranged(s, I, o1)
  PROVE  Arranged(t, Within(t, DOMAIN t, D), o2) = Arranged(s, Within(s, I, D), o)
<1>1. PICK f : Enumerates(f, s, I, o1)
  BY HasEnumeration
<1>2. PICK n : n = Cardinality(I)
  OBVIOUS
<1>3. n \in Nat /\ f \in [1 .. n -> I] /\ (\A i \in I : \E k \in 1 .. n : f[k] = i)
  <2>1. Cardinality(I) \in Nat
    BY <1>1, EnumerationCounts
  <2>2. Reaches(f, n, I)
    BY <1>1, <1>2, EnumerationReaches
  <2>. QED
    BY <1>1, <1>2, <2>1, <2>2 DEF Enumerates, Reaches
<1>4. t = [k \in 1 .. n |-> s[f[k]]]
  BY <1>1, <1>2, ArrangedIs
<1>5. t \in Seq(Document) /\ DOMAIN t = 1 .. n
  BY <1>4, ArrangedType
<1>6. PICK J : J = Within(t, DOMAIN t, D)
  OBVIOUS
<1>7. PICK K : K = Within(s, I, D)
  OBVIOUS
<1>8. J \in SUBSET DOMAIN t /\ K \in SUBSET DOMAIN s /\ K \subseteq I
  BY <1>6, <1>7 DEF Within
<1>9. PICK g : Enumerates(g, t, J, o2)
  BY <1>5, <1>8, HasEnumeration
<1>10. PICK m : m = Cardinality(J)
  OBVIOUS
<1>11. m \in Nat /\ g \in [1 .. m -> J] /\ IsFiniteSet(J)
  BY <1>5, <1>8, <1>9, <1>10, EnumerationCounts DEF Enumerates
<1>12. \A j \in J : j \in 1 .. n /\ f[j] \in K
  BY <1>3, <1>4, <1>5, <1>6, <1>7 DEF Within
<1>13. \A k, l \in 1 .. n : k < l => Precedes(s, o1, f[k], f[l])
  BY <1>1, <1>2 DEF Enumerates
<1>14. \A k, l \in 1 .. n : f[k] = f[l] => k = l
  <2>1. SUFFICES ASSUME NEW k \in 1 .. n, NEW l \in 1 .. n, f[k] = f[l], k # l
                 PROVE  FALSE
    OBVIOUS
  <2>2. k < l \/ l < k
    BY <1>3, <2>1
  <2>3. Precedes(s, o1, f[k], f[l]) \/ Precedes(s, o1, f[l], f[k])
    BY <1>13, <2>2
  <2>4. f[k] \in DOMAIN s /\ f[l] \in DOMAIN s
    BY <1>3
  <2>. QED
    BY <2>1, <2>3, <2>4, PrecedesOrder
<1>15. Cardinality(K) = m
  <2>1. PICK b : b = [j \in J |-> f[j]]
    OBVIOUS
  <2>2. b \in [J -> K]
    BY <1>12, <2>1
  <2>3. \A i, j \in J : b[i] = b[j] => i = j
    BY <1>12, <1>14, <2>1
  <2>4. \A i \in K : \E j \in J : b[j] = i
    <3>1. SUFFICES ASSUME NEW i \in K
                   PROVE  \E j \in J : b[j] = i
      OBVIOUS
    <3>2. i \in I /\ s[i] \in D
      BY <1>7 DEF Within
    <3>3. PICK k \in 1 .. n : f[k] = i
      BY <1>3, <3>2
    <3>4. k \in J
      BY <1>4, <1>5, <1>6, <3>2, <3>3 DEF Within
    <3>. QED
      BY <2>1, <3>3, <3>4
  <2>5. b \in Injection(J, K) /\ b \in Surjection(J, K)
    BY <2>2, <2>3, <2>4 DEF Injection, Surjection, IsInjective
  <2>. QED
    BY <1>10, <1>11, <2>5, FS_Surjection
<1>16. PICK h : h = [k \in 1 .. m |-> f[g[k]]]
  OBVIOUS
<1>17. h \in [1 .. m -> K]
  BY <1>11, <1>12, <1>16
<1>18. ASSUME NEW k \in 1 .. m, NEW l \in 1 .. m, k < l
       PROVE  Precedes(s, o, h[k], h[l])
  <2>1. Precedes(t, o2, g[k], g[l])
    BY <1>9, <1>10, <1>18 DEF Enumerates
  <2>2. g[k] \in 1 .. n /\ g[l] \in 1 .. n /\ h[k] \in K /\ h[l] \in K
    BY <1>11, <1>12, <1>17
  <2>3. t[g[k]] = s[h[k]] /\ t[g[l]] = s[h[l]]
    BY <1>4, <1>16, <2>2
  <2>4. Less(o2, s[h[k]], s[h[l]]) \/ (~Less(o2, s[h[l]], s[h[k]]) /\ g[k] < g[l])
    BY <2>1, <2>3 DEF Precedes
  <2>5. g[k] < g[l] => Precedes(s, o1, h[k], h[l])
    BY <1>13, <1>16, <2>2
  <2>. QED
    BY <1>7, <2>2, <2>4, <2>5 DEF Refines
<1>19. Enumerates(h, s, K, o)
  BY <1>15, <1>17, <1>18 DEF Enumerates
<1>20. Arranged(s, K, o) = [k \in 1 .. m |-> s[h[k]]]
  <2>1. Arranged(s, K, o) = [k \in 1 .. Cardinality(K) |-> s[h[k]]]
    BY <1>8, <1>19, ArrangedIs
  <2>. QED
    BY <1>15, <2>1
<1>21. Arranged(t, J, o2) = [k \in 1 .. m |-> t[g[k]]]
  <2>1. Arranged(t, J, o2) = [k \in 1 .. Cardinality(J) |-> t[g[k]]]
    <3>1. t \in Seq(Document) /\ J \in SUBSET DOMAIN t
      BY <1>5, <1>8
    <3>. QED
      BY <1>9, <3>1, ArrangedIs
  <2>. QED
    BY <1>10, <2>1
<1>22. ASSUME NEW k \in 1 .. m
       PROVE  t[g[k]] = s[h[k]]
  BY <1>4, <1>11, <1>12, <1>16
<1>. QED
  BY <1>6, <1>7, <1>20, <1>21, <1>22

\* Orders that agree on the places make the same arrangement.
LEMMA OrdersAgree ==
  ASSUME StoreAssumption, NEW s \in Seq(Document), NEW I \in SUBSET DOMAIN s,
         NEW o1 \in Seq(Key), NEW o2 \in Seq(Key),
         \A x, y \in I : Precedes(s, o1, x, y) => Precedes(s, o2, x, y)
  PROVE  Arranged(s, I, o1) = Arranged(s, I, o2)
<1>1. PICK f : Enumerates(f, s, I, o1)
  BY HasEnumeration
<1>2. \A k \in 1 .. Cardinality(I) : f[k] \in I
  BY <1>1 DEF Enumerates
<1>3. Enumerates(f, s, I, o2)
  BY <1>1, <1>2 DEF Enumerates
<1>4. Arranged(s, I, o1) = [k \in 1 .. Cardinality(I) |-> s[f[k]]]
  BY <1>1, ArrangedIs
<1>5. Arranged(s, I, o2) = [k \in 1 .. Cardinality(I) |-> s[f[k]]]
  BY <1>3, ArrangedIs
<1>. QED
  BY <1>4, <1>5

LEMMA NoOrder ==
  /\ <<>> \in Seq(Key) /\ ByTime \in Seq(Key) /\ ByStamp \in Seq(Key) /\ ById \in Seq(Key)
  /\ \A d, e : ~Less(<<>>, d, e)
<1>1. <<>> \in Seq(Key) /\ DOMAIN <<>> = {}
  OBVIOUS
<1>2. \A d, e : ~Less(<<>>, d, e)
  BY <1>1 DEF Less
<1>3. ByTime \in Seq(Key) /\ ByStamp \in Seq(Key)
  BY DEF ByTime, ByStamp, Key
<1>4. ById \in Seq(Key)
  BY DEF ById, Key
<1>. QED
  BY <1>1, <1>2, <1>3, <1>4

\* Filtering an arrangement.
LEMMA KeepArranged ==
  ASSUME StoreAssumption, NEW s \in Seq(Document), NEW I \in SUBSET DOMAIN s,
         NEW o \in Seq(Key), NEW D, NEW t, t = Arranged(s, I, o)
  PROVE  Keep(t, D) = Arranged(s, Within(s, I, D), o)
<1>1. PICK z : z = <<>>
  OBVIOUS
<1>2. Refines(s, Within(s, I, D), o, z, o)
  BY <1>1, NoOrder DEF Refines
<1>3. z \in Seq(Key)
  BY <1>1, NoOrder
<1>4. Arranged(t, Within(t, DOMAIN t, D), z) = Arranged(s, Within(s, I, D), o)
  BY <1>2, <1>3, Rearranged
<1>. QED
  BY <1>1, <1>4 DEF Keep, Chosen, Within

LEMMA WithinAll ==
  ASSUME NEW s \in Seq(Document), NEW I \in SUBSET DOMAIN s
  PROVE  Within(s, I, Document) = I
BY DEF Within

\* Sorting an arrangement.
LEMMA SortArranged ==
  ASSUME StoreAssumption, NEW s \in Seq(Document), NEW I \in SUBSET DOMAIN s,
         NEW o1 \in Seq(Key), NEW o2 \in Seq(Key), NEW o \in Seq(Key),
         Refines(s, I, o1, o2, o), NEW t, t = Arranged(s, I, o1)
  PROVE  Sorted(t, o2) = Arranged(s, I, o)
<1>1. Within(s, I, Document) = I
  BY WithinAll
<1>2. t \in Seq(Document)
  BY ArrangedType
<1>3. Within(t, DOMAIN t, Document) = DOMAIN t
  BY <1>2, WithinAll
<1>4. Refines(s, Within(s, I, Document), o1, o2, o)
  BY <1>1
<1>5. Arranged(t, Within(t, DOMAIN t, Document), o2) = Arranged(s, Within(s, I, Document), o)
  BY <1>4, Rearranged
<1>. QED
  BY <1>1, <1>3, <1>5 DEF Sorted

\* What is chosen of a sequence, and what it becomes when it is sorted.
LEMMA KeepIs ==
  ASSUME StoreAssumption, NEW s \in Seq(Document), NEW D
  PROVE  /\ Keep(s, D) = Arranged(s, Within(s, DOMAIN s, D), <<>>)
         /\ Keep(s, D) \in Seq(Document)
         /\ \A o \in Seq(Key) : Keep(Sorted(s, o), D) = Arranged(s, Within(s, DOMAIN s, D), o)
<1>1. Within(s, DOMAIN s, D) \in SUBSET DOMAIN s
  BY DEF Within
<1>2. Keep(s, D) = Arranged(s, Within(s, DOMAIN s, D), <<>>)
  BY DEF Keep, Chosen, Within
<1>3. Keep(s, D) \in Seq(Document)
  BY <1>1, <1>2, NoOrder, ArrangedType
<1>4. ASSUME NEW o \in Seq(Key)
      PROVE  Keep(Sorted(s, o), D) = Arranged(s, Within(s, DOMAIN s, D), o)
  BY KeepArranged DEF Sorted
<1>. QED
  BY <1>2, <1>3, <1>4

-----------------------------------------------------------------------------
(* The orders the drivers sort by *)

LEMMA LessOne ==
  ASSUME NEW a \in Key, NEW d, NEW e
  PROVE  Less(<<a>>, d, e) <=> KeyLess(a, d, e)
<1>1. DOMAIN <<a>> = {1} /\ <<a>>[1] = a /\ \A j : j \notin 1 .. 1 - 1
  OBVIOUS
<1>. QED
  BY <1>1 DEF Less

\* Comparing by two keys: the second decides where the first does not.
LEMMA LessTwo ==
  ASSUME NEW a \in Key, NEW b \in Key, NEW d, NEW e
  PROVE  Less(<<a, b>>, d, e) <=>
           \/ KeyLess(a, d, e)
           \/ d[Field[a]] = e[Field[a]] /\ KeyLess(b, d, e)
<1>1. PICK s : s = <<a, b>>
  OBVIOUS
<1>2. DOMAIN s = {1, 2} /\ s[1] = a /\ s[2] = b
  BY <1>1
<1>3. 1 .. 1 - 1 = {} /\ 1 .. 2 - 1 = {1}
  OBVIOUS
<1>4. Less(s, d, e) <=> \E i \in {1, 2} : /\ KeyLess(s[i], d, e)
                                         /\ \A j \in 1 .. i - 1 : d[Field[s[j]]] = e[Field[s[j]]]
  BY <1>2 DEF Less
<1>. QED
  BY <1>1, <1>2, <1>3, <1>4

LEMMA LessThree ==
  ASSUME NEW a \in Key, NEW b \in Key, NEW c \in Key, NEW d, NEW e
  PROVE  Less(<<a, b, c>>, d, e) <=>
           \/ KeyLess(a, d, e)
           \/ d[Field[a]] = e[Field[a]] /\ KeyLess(b, d, e)
           \/ d[Field[a]] = e[Field[a]] /\ d[Field[b]] = e[Field[b]] /\ KeyLess(c, d, e)
<1>1. PICK s : s = <<a, b, c>>
  OBVIOUS
<1>2. DOMAIN s = {1, 2, 3} /\ s[1] = a /\ s[2] = b /\ s[3] = c
  BY <1>1
<1>3. 1 .. 1 - 1 = {} /\ 1 .. 2 - 1 = {1} /\ 1 .. 3 - 1 = {1, 2}
  OBVIOUS
<1>4. Less(s, d, e) <=> \E i \in {1, 2, 3} :
                          /\ KeyLess(s[i], d, e)
                          /\ \A j \in 1 .. i - 1 : d[Field[s[j]]] = e[Field[s[j]]]
  BY <1>2 DEF Less
<1>. QED
  BY <1>1, <1>2, <1>3, <1>4

\* What each sort key of the drivers compares.
LEMMA KeysAre ==
  ASSUME NEW d, NEW e
  PROVE  /\ KeyLess("stamp", d, e) <=> d.stamp < e.stamp
         /\ KeyLess("rev", d, e) <=> d.rev < e.rev
         /\ KeyLess("seq", d, e) <=> d.seq < e.seq
         /\ KeyLess("id", d, e) <=> d.commit < e.commit
         /\ KeyLess("revText", d, e) <=> TextLess(d.rev, e.rev)
         /\ KeyLess("seqText", d, e) <=> TextLess(d.seq, e.seq)
         /\ Field["stamp"] = "stamp" /\ Field["rev"] = "rev" /\ Field["seq"] = "seq"
         /\ Field["id"] = "commit" /\ Field["revText"] = "rev" /\ Field["seqText"] = "seq"
BY DEF KeyLess, Field

\* Each of the orders, written out.
LEMMA OrdersAre ==
  ASSUME NEW d, NEW e
  PROVE  /\ Less(ByTime, d, e) <=> \/ d.stamp < e.stamp
                                   \/ d.stamp = e.stamp /\ d.rev < e.rev
                                   \/ d.stamp = e.stamp /\ d.rev = e.rev /\ d.seq < e.seq
         /\ Less(ByStamp, d, e) <=> d.stamp < e.stamp
         /\ Less(ById, d, e) <=> \/ d.commit < e.commit
                                 \/ d.commit = e.commit /\ TextLess(d.seq, e.seq)
         /\ Less(<<"rev">>, d, e) <=> d.rev < e.rev
         /\ Less(<<"stamp", "seqText">>, d, e) <=>
              \/ d.stamp < e.stamp
              \/ d.stamp = e.stamp /\ TextLess(d.seq, e.seq)
         /\ Less(<<"stamp", "revText">>, d, e) <=>
              \/ d.stamp < e.stamp
              \/ d.stamp = e.stamp /\ TextLess(d.rev, e.rev)
         /\ Less(<<"stamp", "seqText", "id">>, d, e) <=>
              \/ d.stamp < e.stamp
              \/ d.stamp = e.stamp /\ TextLess(d.seq, e.seq)
              \/ d.stamp = e.stamp /\ d.seq = e.seq /\ d.commit < e.commit
         /\ Less(<<"stamp", "id", "seqText">>, d, e) <=>
              \/ d.stamp < e.stamp
              \/ d.stamp = e.stamp /\ d.commit < e.commit
              \/ d.stamp = e.stamp /\ d.commit = e.commit /\ TextLess(d.seq, e.seq)
         /\ Less(<<"stamp", "revText", "seqText">>, d, e) <=>
              \/ d.stamp < e.stamp
              \/ d.stamp = e.stamp /\ TextLess(d.rev, e.rev)
              \/ d.stamp = e.stamp /\ d.rev = e.rev /\ TextLess(d.seq, e.seq)
<1>1. {"stamp", "rev", "seq", "id", "revText", "seqText"} \subseteq Key
  BY DEF Key
<1>2. Less(<<"stamp", "rev", "seq">>, d, e) <=>
        \/ d.stamp < e.stamp
        \/ d.stamp = e.stamp /\ d.rev < e.rev
        \/ d.stamp = e.stamp /\ d.rev = e.rev /\ d.seq < e.seq
  BY <1>1, LessThree, KeysAre
<1>3. Less(<<"stamp">>, d, e) <=> d.stamp < e.stamp
  BY <1>1, LessOne, KeysAre
<1>4. Less(<<"id", "seqText">>, d, e) <=> \/ d.commit < e.commit
                                          \/ d.commit = e.commit /\ TextLess(d.seq, e.seq)
  BY <1>1, LessTwo, KeysAre
<1>5. Less(<<"rev">>, d, e) <=> d.rev < e.rev
  BY <1>1, LessOne, KeysAre
<1>6. Less(<<"stamp", "seqText">>, d, e) <=>
        \/ d.stamp < e.stamp
        \/ d.stamp = e.stamp /\ TextLess(d.seq, e.seq)
  BY <1>1, LessTwo, KeysAre
<1>7. Less(<<"stamp", "revText">>, d, e) <=>
        \/ d.stamp < e.stamp
        \/ d.stamp = e.stamp /\ TextLess(d.rev, e.rev)
  BY <1>1, LessTwo, KeysAre
<1>8. Less(<<"stamp", "seqText", "id">>, d, e) <=>
        \/ d.stamp < e.stamp
        \/ d.stamp = e.stamp /\ TextLess(d.seq, e.seq)
        \/ d.stamp = e.stamp /\ d.seq = e.seq /\ d.commit < e.commit
  BY <1>1, LessThree, KeysAre
<1>9. Less(<<"stamp", "id", "seqText">>, d, e) <=>
        \/ d.stamp < e.stamp
        \/ d.stamp = e.stamp /\ d.commit < e.commit
        \/ d.stamp = e.stamp /\ d.commit = e.commit /\ TextLess(d.seq, e.seq)
  BY <1>1, LessThree, KeysAre
<1>10. Less(<<"stamp", "revText", "seqText">>, d, e) <=>
        \/ d.stamp < e.stamp
        \/ d.stamp = e.stamp /\ TextLess(d.rev, e.rev)
        \/ d.stamp = e.stamp /\ d.rev = e.rev /\ TextLess(d.seq, e.seq)
  BY <1>1, LessThree, KeysAre
<1>. QED
  BY <1>2, <1>3, <1>4, <1>5, <1>6, <1>7, <1>8, <1>9, <1>10 DEF ByTime, ByStamp, ById

LEMMA TextOfShort ==
  ASSUME NEW m \in Nat, NEW n \in Nat, m < Radix, n < Radix
  PROVE  TextLess(m, n) <=> m < n
BY DEF TextLess, Lead

\* The events of one commit have consecutive revisions.
Counting ==
  \A x, y \in DOMAIN events :
    events[x].commit = events[y].commit => events[x].rev - events[x].seq = events[y].rev - events[y].seq

UniqueRevs == \A x, y \in DOMAIN events : events[x].rev = events[y].rev => x = y

\* What an event of the store consists of.
LEMMA EventIs ==
  ASSUME StoreAssumption, events \in Seq(Document), NEW x \in DOMAIN events
  PROVE  /\ events[x] \in Document /\ x \in Nat
         /\ events[x].stamp \in Nat /\ events[x].rev \in Nat /\ events[x].seq \in Nat
         /\ events[x].commit \in Nat
<1>1. events[x] \in Document /\ x \in Nat
  OBVIOUS
<1>2. CommitId \subseteq Nat
  BY DEF Parameters
<1>. QED
  BY <1>1, <1>2 DEF Document

LEMMA Parallel ==
  ASSUME StoreAssumption, events \in Seq(Document), Counting,
         NEW x \in DOMAIN events, NEW y \in DOMAIN events,
         events[x].commit = events[y].commit
  PROVE  /\ events[x].rev < events[y].rev <=> events[x].seq < events[y].seq
         /\ events[x].rev = events[y].rev <=> events[x].seq = events[y].seq
<1>1. PICK a \in Nat, b \in Nat, k \in Nat, l \in Nat :
        a = events[x].rev /\ b = events[x].seq /\ k = events[y].rev /\ l = events[y].seq
  BY EventIs
<1>2. a - b = k - l
  BY <1>1 DEF Counting
<1>3. (a < k <=> b < l) /\ (a = k <=> b = l)
  BY <1>2
<1>. QED
  BY <1>1, <1>3

LEMMA RedisOrder ==
  ASSUME StoreAssumption, events \in Seq(Document), NEW I \in SUBSET DOMAIN events,
         Counting, OneStampEach, ShortCommits
  PROVE  Refines(events, I, <<>>, <<"stamp", "seqText", "id">>, ByTime)
<1>. SUFFICES ASSUME NEW x \in I, NEW y \in I,
                     \/ Less(<<"stamp", "seqText", "id">>, events[x], events[y])
                     \/ /\ ~Less(<<"stamp", "seqText", "id">>, events[y], events[x])
                        /\ Precedes(events, <<>>, x, y)
              PROVE  Precedes(events, ByTime, x, y)
  BY DEF Refines
<1>. PICK d : d = events[x]
  OBVIOUS
<1>. PICK e : e = events[y]
  OBVIOUS
<1>1. /\ x \in Nat /\ y \in Nat
      /\ d.stamp \in Nat /\ d.rev \in Nat /\ d.seq \in Nat /\ d.commit \in Nat
      /\ e.stamp \in Nat /\ e.rev \in Nat /\ e.seq \in Nat /\ e.commit \in Nat
  BY EventIs
<1>2. d.stamp = e.stamp => d.commit = e.commit
  BY DEF OneStampEach
<1>3. /\ TextLess(d.seq, e.seq) <=> d.seq < e.seq
      /\ TextLess(e.seq, d.seq) <=> e.seq < d.seq
  <2>1. d.seq < Radix /\ e.seq < Radix
    BY DEF ShortCommits
  <2>. QED
    BY <1>1, <2>1, TextOfShort
<1>4. Precedes(events, <<>>, x, y) <=> x < y
  BY NoOrder DEF Precedes
<1>5. Less(ByTime, d, e) \/ (~Less(ByTime, e, d) /\ x < y)
  <2>1. Less(<<"stamp", "seqText", "id">>, d, e)
          \/ (~Less(<<"stamp", "seqText", "id">>, e, d) /\ Precedes(events, <<>>, x, y))
    OBVIOUS
  <2>2. Less(<<"stamp", "seqText", "id">>, d, e) <=> \/ d.stamp < e.stamp
                                                     \/ d.stamp = e.stamp /\ TextLess(d.seq, e.seq)
                                                     \/ d.stamp = e.stamp /\ d.seq = e.seq /\ d.commit < e.commit
    BY OrdersAre
  <2>3. Less(<<"stamp", "seqText", "id">>, e, d) <=> \/ e.stamp < d.stamp
                                                     \/ e.stamp = d.stamp /\ TextLess(e.seq, d.seq)
                                                     \/ e.stamp = d.stamp /\ e.seq = d.seq /\ e.commit < d.commit
    BY OrdersAre
  <2>4. Less(ByTime, d, e) <=> \/ d.stamp < e.stamp
                               \/ d.stamp = e.stamp /\ d.rev < e.rev
                               \/ d.stamp = e.stamp /\ d.rev = e.rev /\ d.seq < e.seq
    BY OrdersAre
  <2>5. Less(ByTime, e, d) <=> \/ e.stamp < d.stamp
                               \/ e.stamp = d.stamp /\ e.rev < d.rev
                               \/ e.stamp = d.stamp /\ e.rev = d.rev /\ e.seq < d.seq
    BY OrdersAre
  <2>6. CASE d.stamp < e.stamp
    BY <1>1, <2>6, <2>4, <2>5
  <2>7. CASE e.stamp < d.stamp
    BY <1>1, <2>7, <2>1, <2>2, <2>3
  <2>8. CASE d.stamp = e.stamp
    <3>1. d.commit = e.commit /\ ~(d.stamp < e.stamp) /\ ~(e.stamp < d.stamp)
      BY <1>1, <1>2, <2>8
    <3>2. (d.rev < e.rev <=> d.seq < e.seq) /\ (e.rev < d.rev <=> e.seq < d.seq)
      BY <3>1, Parallel
    <3>3. ~(d.commit < e.commit) /\ ~(e.commit < d.commit)
      BY <1>1, <3>1
    <3>. QED
      BY <1>1, <1>2, <1>3, <1>4, <2>1, <2>2, <2>3, <2>4, <2>5, <3>1, <3>2, <3>3
  <2>. QED
    BY <1>1, <2>6, <2>7, <2>8
<1>. QED
  BY <1>5 DEF Precedes

LEMMA RedisListOrder ==
  ASSUME StoreAssumption, events \in Seq(Document), NEW I \in SUBSET DOMAIN events,
         Counting, OneStampEach, ShortCommits
  PROVE  Refines(events, I, <<>>, <<"stamp", "seqText">>, ByTime)
<1>. SUFFICES ASSUME NEW x \in I, NEW y \in I,
                     \/ Less(<<"stamp", "seqText">>, events[x], events[y])
                     \/ /\ ~Less(<<"stamp", "seqText">>, events[y], events[x])
                        /\ Precedes(events, <<>>, x, y)
              PROVE  Precedes(events, ByTime, x, y)
  BY DEF Refines
<1>. PICK d : d = events[x]
  OBVIOUS
<1>. PICK e : e = events[y]
  OBVIOUS
<1>1. /\ x \in Nat /\ y \in Nat
      /\ d.stamp \in Nat /\ d.rev \in Nat /\ d.seq \in Nat /\ d.commit \in Nat
      /\ e.stamp \in Nat /\ e.rev \in Nat /\ e.seq \in Nat /\ e.commit \in Nat
  BY EventIs
<1>2. d.stamp = e.stamp => d.commit = e.commit
  BY DEF OneStampEach
<1>3. /\ TextLess(d.seq, e.seq) <=> d.seq < e.seq
      /\ TextLess(e.seq, d.seq) <=> e.seq < d.seq
  <2>1. d.seq < Radix /\ e.seq < Radix
    BY DEF ShortCommits
  <2>. QED
    BY <1>1, <2>1, TextOfShort
<1>4. Precedes(events, <<>>, x, y) <=> x < y
  BY NoOrder DEF Precedes
<1>5. Less(ByTime, d, e) \/ (~Less(ByTime, e, d) /\ x < y)
  <2>1. Less(<<"stamp", "seqText">>, d, e)
          \/ (~Less(<<"stamp", "seqText">>, e, d) /\ Precedes(events, <<>>, x, y))
    OBVIOUS
  <2>2. Less(<<"stamp", "seqText">>, d, e) <=> \/ d.stamp < e.stamp
                                               \/ d.stamp = e.stamp /\ TextLess(d.seq, e.seq)
    BY OrdersAre
  <2>3. Less(<<"stamp", "seqText">>, e, d) <=> \/ e.stamp < d.stamp
                                               \/ e.stamp = d.stamp /\ TextLess(e.seq, d.seq)
    BY OrdersAre
  <2>4. Less(ByTime, d, e) <=> \/ d.stamp < e.stamp
                               \/ d.stamp = e.stamp /\ d.rev < e.rev
                               \/ d.stamp = e.stamp /\ d.rev = e.rev /\ d.seq < e.seq
    BY OrdersAre
  <2>5. Less(ByTime, e, d) <=> \/ e.stamp < d.stamp
                               \/ e.stamp = d.stamp /\ e.rev < d.rev
                               \/ e.stamp = d.stamp /\ e.rev = d.rev /\ e.seq < d.seq
    BY OrdersAre
  <2>6. CASE d.stamp < e.stamp
    BY <1>1, <2>6, <2>4, <2>5
  <2>7. CASE e.stamp < d.stamp
    BY <1>1, <2>7, <2>1, <2>2, <2>3
  <2>8. CASE d.stamp = e.stamp
    <3>1. d.commit = e.commit /\ ~(d.stamp < e.stamp) /\ ~(e.stamp < d.stamp)
      BY <1>1, <1>2, <2>8
    <3>2. (d.rev < e.rev <=> d.seq < e.seq) /\ (e.rev < d.rev <=> e.seq < d.seq)
      BY <3>1, Parallel
    <3>3. ~(d.commit < e.commit) /\ ~(e.commit < d.commit)
      BY <1>1, <3>1
    <3>. QED
      BY <1>1, <1>2, <1>3, <1>4, <2>1, <2>2, <2>3, <2>4, <2>5, <3>1, <3>2, <3>3
  <2>. QED
    BY <1>1, <2>6, <2>7, <2>8
<1>. QED
  BY <1>5 DEF Precedes

LEMMA RevisionThenStamp ==
  ASSUME StoreAssumption, events \in Seq(Document), NEW I \in SUBSET DOMAIN events,
         UniqueRevs
  PROVE  Refines(events, I, <<"rev">>, ByStamp, ByTime)
<1>. SUFFICES ASSUME NEW x \in I, NEW y \in I,
                     \/ Less(ByStamp, events[x], events[y])
                     \/ /\ ~Less(ByStamp, events[y], events[x])
                        /\ Precedes(events, <<"rev">>, x, y)
              PROVE  Precedes(events, ByTime, x, y)
  BY DEF Refines
<1>. PICK d : d = events[x]
  OBVIOUS
<1>. PICK e : e = events[y]
  OBVIOUS
<1>1. /\ x \in Nat /\ y \in Nat
      /\ d.stamp \in Nat /\ d.rev \in Nat /\ d.seq \in Nat /\ d.commit \in Nat
      /\ e.stamp \in Nat /\ e.rev \in Nat /\ e.seq \in Nat /\ e.commit \in Nat
  BY EventIs
<1>2. d.rev = e.rev => x = y
  BY DEF UniqueRevs
<1>3. Precedes(events, <<"rev">>, x, y) <=> Less(<<"rev">>, d, e) \/ (~Less(<<"rev">>, e, d) /\ x < y)
  BY DEF Precedes
<1>4. Less(ByTime, d, e) \/ (~Less(ByTime, e, d) /\ x < y)
  <2>1. Less(ByStamp, d, e) \/ (~Less(ByStamp, e, d) /\ Precedes(events, <<"rev">>, x, y))
    OBVIOUS
  <2>2. Less(ByStamp, d, e) <=> \/ d.stamp < e.stamp
    BY OrdersAre
  <2>3. Less(ByStamp, e, d) <=> \/ e.stamp < d.stamp
    BY OrdersAre
  <2>4. Less(<<"rev">>, d, e) <=> \/ d.rev < e.rev
    BY OrdersAre
  <2>5. Less(<<"rev">>, e, d) <=> \/ e.rev < d.rev
    BY OrdersAre
  <2>6. Less(ByTime, d, e) <=> \/ d.stamp < e.stamp
                               \/ d.stamp = e.stamp /\ d.rev < e.rev
                               \/ d.stamp = e.stamp /\ d.rev = e.rev /\ d.seq < e.seq
    BY OrdersAre
  <2>7. Less(ByTime, e, d) <=> \/ e.stamp < d.stamp
                               \/ e.stamp = d.stamp /\ e.rev < d.rev
                               \/ e.stamp = d.stamp /\ e.rev = d.rev /\ e.seq < d.seq
    BY OrdersAre
  <2>8. d.seq = e.seq => ~TextLess(d.seq, e.seq) /\ ~TextLess(e.seq, d.seq)
    BY <1>1, TextOrder
  <2>9. x = y => d = e
    OBVIOUS
  <2>. QED
    BY <1>1, <1>2, <1>3, <2>1, <2>2, <2>3, <2>4, <2>5, <2>6, <2>7, <2>8, <2>9
<1>. QED
  BY <1>4 DEF Precedes

LEMMA RevisionThenText ==
  ASSUME StoreAssumption, events \in Seq(Document), NEW I \in SUBSET DOMAIN events,
         UniqueRevs, ShortStream
  PROVE  Refines(events, I, <<"rev">>, <<"stamp", "revText">>, ByTime)
<1>. SUFFICES ASSUME NEW x \in I, NEW y \in I,
                     \/ Less(<<"stamp", "revText">>, events[x], events[y])
                     \/ /\ ~Less(<<"stamp", "revText">>, events[y], events[x])
                        /\ Precedes(events, <<"rev">>, x, y)
              PROVE  Precedes(events, ByTime, x, y)
  BY DEF Refines
<1>. PICK d : d = events[x]
  OBVIOUS
<1>. PICK e : e = events[y]
  OBVIOUS
<1>1. /\ x \in Nat /\ y \in Nat
      /\ d.stamp \in Nat /\ d.rev \in Nat /\ d.seq \in Nat /\ d.commit \in Nat
      /\ e.stamp \in Nat /\ e.rev \in Nat /\ e.seq \in Nat /\ e.commit \in Nat
  BY EventIs
<1>2. d.rev = e.rev => x = y
  BY DEF UniqueRevs
<1>3. /\ TextLess(d.rev, e.rev) <=> d.rev < e.rev
      /\ TextLess(e.rev, d.rev) <=> e.rev < d.rev
  <2>1. d.rev < Radix /\ e.rev < Radix
    BY DEF ShortStream
  <2>. QED
    BY <1>1, <2>1, TextOfShort
<1>4. Precedes(events, <<"rev">>, x, y) <=> Less(<<"rev">>, d, e) \/ (~Less(<<"rev">>, e, d) /\ x < y)
  BY DEF Precedes
<1>5. Less(ByTime, d, e) \/ (~Less(ByTime, e, d) /\ x < y)
  <2>1. Less(<<"stamp", "revText">>, d, e)
          \/ (~Less(<<"stamp", "revText">>, e, d) /\ Precedes(events, <<"rev">>, x, y))
    OBVIOUS
  <2>2. Less(<<"stamp", "revText">>, d, e) <=> \/ d.stamp < e.stamp
                                               \/ d.stamp = e.stamp /\ TextLess(d.rev, e.rev)
    BY OrdersAre
  <2>3. Less(<<"stamp", "revText">>, e, d) <=> \/ e.stamp < d.stamp
                                               \/ e.stamp = d.stamp /\ TextLess(e.rev, d.rev)
    BY OrdersAre
  <2>4. Less(<<"rev">>, d, e) <=> \/ d.rev < e.rev
    BY OrdersAre
  <2>5. Less(<<"rev">>, e, d) <=> \/ e.rev < d.rev
    BY OrdersAre
  <2>6. Less(ByTime, d, e) <=> \/ d.stamp < e.stamp
                               \/ d.stamp = e.stamp /\ d.rev < e.rev
                               \/ d.stamp = e.stamp /\ d.rev = e.rev /\ d.seq < e.seq
    BY OrdersAre
  <2>7. Less(ByTime, e, d) <=> \/ e.stamp < d.stamp
                               \/ e.stamp = d.stamp /\ e.rev < d.rev
                               \/ e.stamp = d.stamp /\ e.rev = d.rev /\ e.seq < d.seq
    BY OrdersAre
  <2>8. d.seq = e.seq => ~TextLess(d.seq, e.seq) /\ ~TextLess(e.seq, d.seq)
    BY <1>1, TextOrder
  <2>9. x = y => d = e
    OBVIOUS
  <2>. QED
    BY <1>1, <1>2, <1>3, <1>4, <2>1, <2>2, <2>3, <2>4, <2>5, <2>6, <2>7, <2>8, <2>9
<1>. QED
  BY <1>5 DEF Precedes

LEMMA RevisionThenTexts ==
  ASSUME StoreAssumption, events \in Seq(Document), NEW I \in SUBSET DOMAIN events,
         UniqueRevs, ShortStream
  PROVE  Refines(events, I, <<"rev">>, <<"stamp", "revText", "seqText">>, ByTime)
<1>. SUFFICES ASSUME NEW x \in I, NEW y \in I,
                     \/ Less(<<"stamp", "revText", "seqText">>, events[x], events[y])
                     \/ /\ ~Less(<<"stamp", "revText", "seqText">>, events[y], events[x])
                        /\ Precedes(events, <<"rev">>, x, y)
              PROVE  Precedes(events, ByTime, x, y)
  BY DEF Refines
<1>. PICK d : d = events[x]
  OBVIOUS
<1>. PICK e : e = events[y]
  OBVIOUS
<1>1. /\ x \in Nat /\ y \in Nat
      /\ d.stamp \in Nat /\ d.rev \in Nat /\ d.seq \in Nat /\ d.commit \in Nat
      /\ e.stamp \in Nat /\ e.rev \in Nat /\ e.seq \in Nat /\ e.commit \in Nat
  BY EventIs
<1>2. d.rev = e.rev => x = y
  BY DEF UniqueRevs
<1>3. /\ TextLess(d.rev, e.rev) <=> d.rev < e.rev
      /\ TextLess(e.rev, d.rev) <=> e.rev < d.rev
  <2>1. d.rev < Radix /\ e.rev < Radix
    BY DEF ShortStream
  <2>. QED
    BY <1>1, <2>1, TextOfShort
<1>4. Precedes(events, <<"rev">>, x, y) <=> Less(<<"rev">>, d, e) \/ (~Less(<<"rev">>, e, d) /\ x < y)
  BY DEF Precedes
<1>5. Less(ByTime, d, e) \/ (~Less(ByTime, e, d) /\ x < y)
  <2>1. Less(<<"stamp", "revText", "seqText">>, d, e)
          \/ (~Less(<<"stamp", "revText", "seqText">>, e, d) /\ Precedes(events, <<"rev">>, x, y))
    OBVIOUS
  <2>2. Less(<<"stamp", "revText", "seqText">>, d, e) <=> \/ d.stamp < e.stamp
                                                          \/ d.stamp = e.stamp /\ TextLess(d.rev, e.rev)
                                                          \/ d.stamp = e.stamp /\ d.rev = e.rev /\ TextLess(d.seq, e.seq)
    BY OrdersAre
  <2>3. Less(<<"stamp", "revText", "seqText">>, e, d) <=> \/ e.stamp < d.stamp
                                                          \/ e.stamp = d.stamp /\ TextLess(e.rev, d.rev)
                                                          \/ e.stamp = d.stamp /\ e.rev = d.rev /\ TextLess(e.seq, d.seq)
    BY OrdersAre
  <2>4. Less(<<"rev">>, d, e) <=> \/ d.rev < e.rev
    BY OrdersAre
  <2>5. Less(<<"rev">>, e, d) <=> \/ e.rev < d.rev
    BY OrdersAre
  <2>6. Less(ByTime, d, e) <=> \/ d.stamp < e.stamp
                               \/ d.stamp = e.stamp /\ d.rev < e.rev
                               \/ d.stamp = e.stamp /\ d.rev = e.rev /\ d.seq < e.seq
    BY OrdersAre
  <2>7. Less(ByTime, e, d) <=> \/ e.stamp < d.stamp
                               \/ e.stamp = d.stamp /\ e.rev < d.rev
                               \/ e.stamp = d.stamp /\ e.rev = d.rev /\ e.seq < d.seq
    BY OrdersAre
  <2>8. d.seq = e.seq => ~TextLess(d.seq, e.seq) /\ ~TextLess(e.seq, d.seq)
    BY <1>1, TextOrder
  <2>9. x = y => d = e
    OBVIOUS
  <2>. QED
    BY <1>1, <1>2, <1>3, <1>4, <2>1, <2>2, <2>3, <2>4, <2>5, <2>6, <2>7, <2>8, <2>9
<1>. QED
  BY <1>5 DEF Precedes

LEMMA IdThenIds ==
  ASSUME StoreAssumption, events \in Seq(Document), NEW I \in SUBSET DOMAIN events,
         Counting, OneStampEach, ShortCommits
  PROVE  Refines(events, I, ById, <<"stamp", "id", "seqText">>, ByTime)
<1>. SUFFICES ASSUME NEW x \in I, NEW y \in I,
                     \/ Less(<<"stamp", "id", "seqText">>, events[x], events[y])
                     \/ /\ ~Less(<<"stamp", "id", "seqText">>, events[y], events[x])
                        /\ Precedes(events, ById, x, y)
              PROVE  Precedes(events, ByTime, x, y)
  BY DEF Refines
<1>. PICK d : d = events[x]
  OBVIOUS
<1>. PICK e : e = events[y]
  OBVIOUS
<1>1. /\ x \in Nat /\ y \in Nat
      /\ d.stamp \in Nat /\ d.rev \in Nat /\ d.seq \in Nat /\ d.commit \in Nat
      /\ e.stamp \in Nat /\ e.rev \in Nat /\ e.seq \in Nat /\ e.commit \in Nat
  BY EventIs
<1>2. d.stamp = e.stamp => d.commit = e.commit
  BY DEF OneStampEach
<1>3. /\ TextLess(d.seq, e.seq) <=> d.seq < e.seq
      /\ TextLess(e.seq, d.seq) <=> e.seq < d.seq
  <2>1. d.seq < Radix /\ e.seq < Radix
    BY DEF ShortCommits
  <2>. QED
    BY <1>1, <2>1, TextOfShort
<1>4. Precedes(events, ById, x, y) <=> Less(ById, d, e) \/ (~Less(ById, e, d) /\ x < y)
  BY DEF Precedes
<1>5. Less(ByTime, d, e) \/ (~Less(ByTime, e, d) /\ x < y)
  <2>1. Less(<<"stamp", "id", "seqText">>, d, e)
          \/ (~Less(<<"stamp", "id", "seqText">>, e, d) /\ Precedes(events, ById, x, y))
    OBVIOUS
  <2>2. Less(<<"stamp", "id", "seqText">>, d, e) <=> \/ d.stamp < e.stamp
                                                     \/ d.stamp = e.stamp /\ d.commit < e.commit
                                                     \/ d.stamp = e.stamp /\ d.commit = e.commit /\ TextLess(d.seq, e.seq)
    BY OrdersAre
  <2>3. Less(<<"stamp", "id", "seqText">>, e, d) <=> \/ e.stamp < d.stamp
                                                     \/ e.stamp = d.stamp /\ e.commit < d.commit
                                                     \/ e.stamp = d.stamp /\ e.commit = d.commit /\ TextLess(e.seq, d.seq)
    BY OrdersAre
  <2>4. Less(ById, d, e) <=> \/ d.commit < e.commit
                             \/ d.commit = e.commit /\ TextLess(d.seq, e.seq)
    BY OrdersAre
  <2>5. Less(ById, e, d) <=> \/ e.commit < d.commit
                             \/ e.commit = d.commit /\ TextLess(e.seq, d.seq)
    BY OrdersAre
  <2>6. Less(ByTime, d, e) <=> \/ d.stamp < e.stamp
                               \/ d.stamp = e.stamp /\ d.rev < e.rev
                               \/ d.stamp = e.stamp /\ d.rev = e.rev /\ d.seq < e.seq
    BY OrdersAre
  <2>7. Less(ByTime, e, d) <=> \/ e.stamp < d.stamp
                               \/ e.stamp = d.stamp /\ e.rev < d.rev
                               \/ e.stamp = d.stamp /\ e.rev = d.rev /\ e.seq < d.seq
    BY OrdersAre
  <2>8. CASE d.stamp < e.stamp
    BY <1>1, <2>8, <2>6, <2>7
  <2>9. CASE e.stamp < d.stamp
    BY <1>1, <2>9, <2>1, <2>2, <2>3
  <2>10. CASE d.stamp = e.stamp
    <3>1. d.commit = e.commit /\ ~(d.stamp < e.stamp) /\ ~(e.stamp < d.stamp)
      BY <1>1, <1>2, <2>10
    <3>2. (d.rev < e.rev <=> d.seq < e.seq) /\ (e.rev < d.rev <=> e.seq < d.seq)
      BY <3>1, Parallel
    <3>3. ~(d.commit < e.commit) /\ ~(e.commit < d.commit)
      BY <1>1, <3>1
    <3>. QED
      BY <1>1, <1>2, <1>3, <1>4, <2>1, <2>2, <2>3, <2>4, <2>5, <2>6, <2>7, <3>1, <3>2, <3>3
  <2>. QED
    BY <1>1, <2>8, <2>9, <2>10
<1>. QED
  BY <1>5 DEF Precedes

LEMMA IdThenStamp ==
  ASSUME StoreAssumption, events \in Seq(Document), NEW I \in SUBSET DOMAIN events,
         Counting, OneStampEach, ShortCommits
  PROVE  Refines(events, I, ById, ByStamp, ByTime)
<1>. SUFFICES ASSUME NEW x \in I, NEW y \in I,
                     \/ Less(ByStamp, events[x], events[y])
                     \/ /\ ~Less(ByStamp, events[y], events[x])
                        /\ Precedes(events, ById, x, y)
              PROVE  Precedes(events, ByTime, x, y)
  BY DEF Refines
<1>. PICK d : d = events[x]
  OBVIOUS
<1>. PICK e : e = events[y]
  OBVIOUS
<1>1. /\ x \in Nat /\ y \in Nat
      /\ d.stamp \in Nat /\ d.rev \in Nat /\ d.seq \in Nat /\ d.commit \in Nat
      /\ e.stamp \in Nat /\ e.rev \in Nat /\ e.seq \in Nat /\ e.commit \in Nat
  BY EventIs
<1>2. d.stamp = e.stamp => d.commit = e.commit
  BY DEF OneStampEach
<1>3. /\ TextLess(d.seq, e.seq) <=> d.seq < e.seq
      /\ TextLess(e.seq, d.seq) <=> e.seq < d.seq
  <2>1. d.seq < Radix /\ e.seq < Radix
    BY DEF ShortCommits
  <2>. QED
    BY <1>1, <2>1, TextOfShort
<1>4. Precedes(events, ById, x, y) <=> Less(ById, d, e) \/ (~Less(ById, e, d) /\ x < y)
  BY DEF Precedes
<1>5. Less(ByTime, d, e) \/ (~Less(ByTime, e, d) /\ x < y)
  <2>1. Less(ByStamp, d, e) \/ (~Less(ByStamp, e, d) /\ Precedes(events, ById, x, y))
    OBVIOUS
  <2>2. Less(ByStamp, d, e) <=> \/ d.stamp < e.stamp
    BY OrdersAre
  <2>3. Less(ByStamp, e, d) <=> \/ e.stamp < d.stamp
    BY OrdersAre
  <2>4. Less(ById, d, e) <=> \/ d.commit < e.commit
                             \/ d.commit = e.commit /\ TextLess(d.seq, e.seq)
    BY OrdersAre
  <2>5. Less(ById, e, d) <=> \/ e.commit < d.commit
                             \/ e.commit = d.commit /\ TextLess(e.seq, d.seq)
    BY OrdersAre
  <2>6. Less(ByTime, d, e) <=> \/ d.stamp < e.stamp
                               \/ d.stamp = e.stamp /\ d.rev < e.rev
                               \/ d.stamp = e.stamp /\ d.rev = e.rev /\ d.seq < e.seq
    BY OrdersAre
  <2>7. Less(ByTime, e, d) <=> \/ e.stamp < d.stamp
                               \/ e.stamp = d.stamp /\ e.rev < d.rev
                               \/ e.stamp = d.stamp /\ e.rev = d.rev /\ e.seq < d.seq
    BY OrdersAre
  <2>8. CASE d.stamp < e.stamp
    BY <1>1, <2>8, <2>6, <2>7
  <2>9. CASE e.stamp < d.stamp
    BY <1>1, <2>9, <2>1, <2>2, <2>3
  <2>10. CASE d.stamp = e.stamp
    <3>1. d.commit = e.commit /\ ~(d.stamp < e.stamp) /\ ~(e.stamp < d.stamp)
      BY <1>1, <1>2, <2>10
    <3>2. (d.rev < e.rev <=> d.seq < e.seq) /\ (e.rev < d.rev <=> e.seq < d.seq)
      BY <3>1, Parallel
    <3>3. ~(d.commit < e.commit) /\ ~(e.commit < d.commit)
      BY <1>1, <3>1
    <3>. QED
      BY <1>1, <1>2, <1>3, <1>4, <2>1, <2>2, <2>3, <2>4, <2>5, <2>6, <2>7, <3>1, <3>2, <3>3
  <2>. QED
    BY <1>1, <2>8, <2>9, <2>10
<1>. QED
  BY <1>5 DEF Precedes

LEMMA IdThenTexts ==
  ASSUME StoreAssumption, events \in Seq(Document), NEW I \in SUBSET DOMAIN events,
         Counting, OneStampEach, ShortCommits, ShortStream
  PROVE  Refines(events, I, ById, <<"stamp", "revText", "seqText">>, ByTime)
<1>. SUFFICES ASSUME NEW x \in I, NEW y \in I,
                     \/ Less(<<"stamp", "revText", "seqText">>, events[x], events[y])
                     \/ /\ ~Less(<<"stamp", "revText", "seqText">>, events[y], events[x])
                        /\ Precedes(events, ById, x, y)
              PROVE  Precedes(events, ByTime, x, y)
  BY DEF Refines
<1>. PICK d : d = events[x]
  OBVIOUS
<1>. PICK e : e = events[y]
  OBVIOUS
<1>1. /\ x \in Nat /\ y \in Nat
      /\ d.stamp \in Nat /\ d.rev \in Nat /\ d.seq \in Nat /\ d.commit \in Nat
      /\ e.stamp \in Nat /\ e.rev \in Nat /\ e.seq \in Nat /\ e.commit \in Nat
  BY EventIs
<1>2. d.stamp = e.stamp => d.commit = e.commit
  BY DEF OneStampEach
<1>3. /\ TextLess(d.seq, e.seq) <=> d.seq < e.seq
      /\ TextLess(e.seq, d.seq) <=> e.seq < d.seq
  <2>1. d.seq < Radix /\ e.seq < Radix
    BY DEF ShortCommits
  <2>. QED
    BY <1>1, <2>1, TextOfShort
<1>4. /\ TextLess(d.rev, e.rev) <=> d.rev < e.rev
      /\ TextLess(e.rev, d.rev) <=> e.rev < d.rev
  <2>1. d.rev < Radix /\ e.rev < Radix
    BY DEF ShortStream
  <2>. QED
    BY <1>1, <2>1, TextOfShort
<1>5. Precedes(events, ById, x, y) <=> Less(ById, d, e) \/ (~Less(ById, e, d) /\ x < y)
  BY DEF Precedes
<1>6. Less(ByTime, d, e) \/ (~Less(ByTime, e, d) /\ x < y)
  <2>1. Less(<<"stamp", "revText", "seqText">>, d, e)
          \/ (~Less(<<"stamp", "revText", "seqText">>, e, d) /\ Precedes(events, ById, x, y))
    OBVIOUS
  <2>2. Less(<<"stamp", "revText", "seqText">>, d, e) <=> \/ d.stamp < e.stamp
                                                          \/ d.stamp = e.stamp /\ TextLess(d.rev, e.rev)
                                                          \/ d.stamp = e.stamp /\ d.rev = e.rev /\ TextLess(d.seq, e.seq)
    BY OrdersAre
  <2>3. Less(<<"stamp", "revText", "seqText">>, e, d) <=> \/ e.stamp < d.stamp
                                                          \/ e.stamp = d.stamp /\ TextLess(e.rev, d.rev)
                                                          \/ e.stamp = d.stamp /\ e.rev = d.rev /\ TextLess(e.seq, d.seq)
    BY OrdersAre
  <2>4. Less(ById, d, e) <=> \/ d.commit < e.commit
                             \/ d.commit = e.commit /\ TextLess(d.seq, e.seq)
    BY OrdersAre
  <2>5. Less(ById, e, d) <=> \/ e.commit < d.commit
                             \/ e.commit = d.commit /\ TextLess(e.seq, d.seq)
    BY OrdersAre
  <2>6. Less(ByTime, d, e) <=> \/ d.stamp < e.stamp
                               \/ d.stamp = e.stamp /\ d.rev < e.rev
                               \/ d.stamp = e.stamp /\ d.rev = e.rev /\ d.seq < e.seq
    BY OrdersAre
  <2>7. Less(ByTime, e, d) <=> \/ e.stamp < d.stamp
                               \/ e.stamp = d.stamp /\ e.rev < d.rev
                               \/ e.stamp = d.stamp /\ e.rev = d.rev /\ e.seq < d.seq
    BY OrdersAre
  <2>8. CASE d.stamp < e.stamp
    BY <1>1, <2>8, <2>6, <2>7
  <2>9. CASE e.stamp < d.stamp
    BY <1>1, <2>9, <2>1, <2>2, <2>3
  <2>10. CASE d.stamp = e.stamp
    <3>1. d.commit = e.commit /\ ~(d.stamp < e.stamp) /\ ~(e.stamp < d.stamp)
      BY <1>1, <1>2, <2>10
    <3>2. (d.rev < e.rev <=> d.seq < e.seq) /\ (e.rev < d.rev <=> e.seq < d.seq)
      BY <3>1, Parallel
    <3>3. ~(d.commit < e.commit) /\ ~(e.commit < d.commit)
      BY <1>1, <3>1
    <3>. QED
      BY <1>1, <1>2, <1>3, <1>4, <1>5, <2>1, <2>2, <2>3, <2>4, <2>5, <2>6, <2>7, <3>1, <3>2, <3>3
  <2>. QED
    BY <1>1, <2>8, <2>9, <2>10
<1>. QED
  BY <1>6 DEF Precedes

-----------------------------------------------------------------------------
(* Filtering, slices and concatenation *)

\* Sorting what stands in the same order, or in none.
LEMMA PlainOrders ==
  ASSUME NEW s, NEW I, NEW o
  PROVE  Refines(s, I, o, o, o) /\ Refines(s, I, <<>>, o, o)
<1>1. Refines(s, I, o, o, o)
  BY DEF Refines, Precedes
<1>2. \A x, y : Precedes(s, <<>>, x, y) <=> x < y
  BY NoOrder DEF Precedes
<1>3. Refines(s, I, <<>>, o, o)
  BY <1>2 DEF Refines, Precedes
<1>. QED
  BY <1>1, <1>3

\* A sorted sequence never steps back.
LEMMA SortedSteps ==
  ASSUME StoreAssumption, NEW s \in Seq(Document), NEW o \in Seq(Key),
         NEW t, t = Sorted(s, o), NEW k \in DOMAIN t, NEW l \in DOMAIN t, k < l
  PROVE  ~Less(o, t[l], t[k])
<1>1. PICK I : I = DOMAIN s
  OBVIOUS
<1>2. I \in SUBSET DOMAIN s
  BY <1>1
<1>3. PICK f : Enumerates(f, s, I, o)
  BY <1>2, HasEnumeration
<1>4. t = [j \in 1 .. Cardinality(I) |-> s[f[j]]]
  <2>1. Arranged(s, I, o) = [j \in 1 .. Cardinality(I) |-> s[f[j]]]
    BY <1>2, <1>3, ArrangedIs
  <2>. QED
    BY <1>1, <2>1 DEF Sorted
<1>5. Precedes(s, o, f[k], f[l]) /\ f[k] \in DOMAIN s /\ f[l] \in DOMAIN s
  BY <1>1, <1>3, <1>4 DEF Enumerates
<1>6. t[k] = s[f[k]] /\ t[l] = s[f[l]]
  BY <1>4
<1>7. s[f[k]] \in Document /\ s[f[l]] \in Document
  BY <1>5
<1>8. Less(o, s[f[k]], s[f[l]]) => ~Less(o, s[f[l]], s[f[k]])
  BY <1>7, LessOrder
<1>. QED
  BY <1>5, <1>6, <1>8 DEF Precedes

\* inmemory: the events that already stand in the order of time stay there when
\* they are sorted by their stamp alone, or not at all.
LEMMA InmemoryOrder ==
  ASSUME StoreAssumption, events \in Seq(Document), events = TimeOrder,
         NEW I \in SUBSET DOMAIN events
  PROVE  Refines(events, I, <<>>, ByStamp, ByTime) /\ Refines(events, I, <<>>, <<>>, ByTime)
<1>1. ASSUME NEW x \in I, NEW y \in I, x < y
      PROVE  Precedes(events, ByTime, x, y) /\ ~Less(ByStamp, events[y], events[x])
  <2>1. PICK t : t = Sorted(events, ByTime)
    OBVIOUS
  <2>2. t = events
    BY <2>1 DEF TimeOrder
  <2>3. x \in DOMAIN t /\ y \in DOMAIN t
    BY <2>2
  <2>4. ~Less(ByTime, t[y], t[x])
    BY <1>1, <2>1, <2>3, NoOrder, SortedSteps
  <2>5. ~Less(ByTime, events[y], events[x])
    BY <2>2, <2>4
  <2>6. Less(ByStamp, events[y], events[x]) => Less(ByTime, events[y], events[x])
    BY OrdersAre
  <2>. QED
    BY <1>1, <2>5, <2>6 DEF Precedes
<1>2. ASSUME NEW x \in I, NEW y \in I
      PROVE  x \in Nat /\ y \in Nat
  OBVIOUS
<1>3. \A x, y : Precedes(events, <<>>, x, y) <=> x < y
  BY NoOrder DEF Precedes
<1>4. Refines(events, I, <<>>, <<>>, ByTime)
  BY <1>1, <1>3, NoOrder DEF Refines
<1>5. ASSUME NEW x \in I, NEW y \in I,
             Less(ByStamp, events[x], events[y]) \/ (~Less(ByStamp, events[y], events[x]) /\ x < y)
      PROVE  Precedes(events, ByTime, x, y)
  <2>1. CASE x < y
    BY <1>1, <2>1
  <2>2. CASE ~(x < y)
    <3>1. Less(ByStamp, events[x], events[y])
      BY <1>5, <2>2
    <3>2. Less(ByTime, events[x], events[y])
      BY <3>1, OrdersAre
    <3>. QED
      BY <3>2 DEF Precedes
  <2>. QED
    BY <2>1, <2>2
<1>6. Refines(events, I, <<>>, ByStamp, ByTime)
  BY <1>3, <1>5 DEF Refines
<1>. QED
  BY <1>4, <1>6

\* The events of s behind the first a, up to the b-th, and their places.
Part(s, a, b) == SubSeq(s, a + 1, b)
Places(a, b) == a + 1 .. b

\* What stands at consecutive places.
LEMMA ChosenInterval ==
  ASSUME StoreAssumption, NEW s \in Seq(Document), NEW n \in Nat, n = Len(s),
         NEW a \in Nat, NEW b \in Nat, b <= n
  PROVE  Chosen(s, Places(a, b)) = Part(s, a, b)
<1>1. PICK len \in Nat : len = IF a + 1 <= b THEN b - a ELSE 0
  <2>1. a + 1 <= b => b - a \in Nat
    OBVIOUS
  <2>2. (IF a + 1 <= b THEN b - a ELSE 0) \in Nat
    BY <2>1
  <2>. QED
    BY <2>2
<1>2. PICK I : I = a + 1 .. b
  OBVIOUS
<1>3. Cardinality(I) = len
  BY <1>1, <1>2, CountBetween
<1>4. PICK f : f = [k \in 1 .. len |-> a + k]
  OBVIOUS
<1>5. f \in [1 .. Cardinality(I) -> I]
  <2>1. \A k \in 1 .. len : a + k \in I
    BY <1>1, <1>2
  <2>. QED
    BY <1>3, <1>4, <2>1
<1>6. \A k, l \in 1 .. Cardinality(I) : k < l => f[k] < f[l]
  BY <1>3, <1>4
<1>7. I \in SUBSET DOMAIN s
  BY <1>2
<1>8. Chosen(s, I) = [k \in 1 .. Cardinality(I) |-> s[f[k]]]
  BY <1>5, <1>6, <1>7, ChosenIs
<1>9. Chosen(s, I) = [k \in 1 .. len |-> s[a + k]]
  BY <1>3, <1>4, <1>8
<1>10. SubSeq(s, a + 1, b) = [k \in 1 .. len |-> s[a + k]]
  <2>1. SubSeq(s, a + 1, b) \in Seq(Document) /\ Len(SubSeq(s, a + 1, b)) = len
    BY <1>1
  <2>2. \A k \in 1 .. len : SubSeq(s, a + 1, b)[k] = s[a + k]
    BY <1>1
  <2>. QED
    BY <2>1, <2>2
<1>. QED
  BY <1>2, <1>9, <1>10 DEF Part, Places

Joins(z, u, v, a, b) == \A k \in 1 .. a + b : z[k] = IF k <= a THEN u[k] ELSE v[k - a]

\* What is as long as two sequences and has their elements is their concatenation.
LEMMA ConcatIs ==
  ASSUME NEW u \in Seq(Document), NEW v \in Seq(Document), NEW z \in Seq(Document),
         NEW a \in Nat, NEW b \in Nat, Len(u) = a, Len(v) = b, Len(z) = a + b,
         Joins(z, u, v, a, b)
  PROVE  z = u \o v
<1>1. PICK w : w = u \o v
  OBVIOUS
<1>2. w \in Seq(Document) /\ Len(w) = a + b
  BY <1>1, ConcatProperties
<1>3. \A k \in 1 .. a + b : w[k] = IF k <= a THEN u[k] ELSE v[k - a]
  BY <1>1, ConcatProperties
<1>4. \A k \in 1 .. Len(w) : w[k] = z[k]
  BY <1>2, <1>3 DEF Joins
<1>5. w = z
  BY <1>2, <1>4, SeqEqual
<1>. QED
  BY <1>1, <1>5

LEMMA ArrangedFits ==
  ASSUME StoreAssumption, NEW s \in Seq(Document), NEW I \in SUBSET DOMAIN s,
         NEW o \in Seq(Key), NEW f, Enumerates(f, s, I, o), NEW n, n = Cardinality(I),
         NEW t, t = Arranged(s, I, o)
  PROVE  t = [k \in 1 .. n |-> s[f[k]]]
<1>1. Arranged(s, I, o) = [k \in 1 .. Cardinality(I) |-> s[f[k]]]
  BY ArrangedIs
<1>. QED
  BY <1>1

\* Filtering one sequence after the other.
LEMMA KeepConcat ==
  ASSUME StoreAssumption, NEW s \in Seq(Document), NEW t \in Seq(Document), NEW D
  PROVE  Keep(s \o t, D) = Keep(s, D) \o Keep(t, D)
<1>1. PICK w : w = s \o t
  OBVIOUS
<1>2. PICK n \in Nat, m \in Nat : n = Len(s) /\ m = Len(t)
  OBVIOUS
<1>3. /\ w \in Seq(Document) /\ DOMAIN w = 1 .. n + m
      /\ DOMAIN s = 1 .. n /\ DOMAIN t = 1 .. m
      /\ \A i \in 1 .. n : w[i] = s[i]
      /\ \A i \in 1 .. m : w[n + i] = t[i]
  BY <1>1, <1>2
<1>4. PICK o : o = <<>>
  OBVIOUS
<1>5. o \in Seq(Key) /\ \A q, x, y : Precedes(q, o, x, y) <=> x < y
  BY <1>4, NoOrder DEF Precedes
<1>6. PICK I : I = Within(s, DOMAIN s, D)
  OBVIOUS
<1>7. PICK J : J = Within(t, DOMAIN t, D)
  OBVIOUS
<1>8. I \in SUBSET DOMAIN s /\ J \in SUBSET DOMAIN t
  BY <1>6, <1>7 DEF Within
<1>9. PICK f : Enumerates(f, s, I, o)
  BY <1>5, <1>8, HasEnumeration
<1>10. PICK g : Enumerates(g, t, J, o)
  BY <1>5, <1>8, HasEnumeration
<1>11. PICK a : a = Cardinality(I)
  OBVIOUS
<1>12. PICK b : b = Cardinality(J)
  OBVIOUS
<1>13. /\ a \in Nat /\ f \in [1 .. a -> I] /\ IsFiniteSet(I)
       /\ \A k, l \in 1 .. a : k < l => f[k] < f[l]
  <2>1. a \in Nat /\ IsFiniteSet(I)
    BY <1>5, <1>8, <1>9, <1>11, EnumerationCounts
  <2>. QED
    BY <1>5, <1>9, <1>11, <2>1 DEF Enumerates
<1>14. /\ b \in Nat /\ g \in [1 .. b -> J] /\ IsFiniteSet(J)
       /\ \A k, l \in 1 .. b : k < l => g[k] < g[l]
  <2>1. b \in Nat /\ IsFiniteSet(J)
    BY <1>5, <1>8, <1>10, <1>12, EnumerationCounts
  <2>. QED
    BY <1>5, <1>10, <1>12, <2>1 DEF Enumerates
<1>15. PICK K : K = Within(w, DOMAIN w, D)
  OBVIOUS
<1>16. PICK h : h = [k \in 1 .. a + b |-> IF k <= a THEN f[k] ELSE n + g[k - a]]
  OBVIOUS
<1>17. ASSUME NEW k \in 1 .. a + b
       PROVE  /\ k <= a => k \in 1 .. a /\ f[k] \in I /\ f[k] \in 1 .. n /\ h[k] = f[k]
              /\ ~(k <= a) => /\ k - a \in 1 .. b /\ g[k - a] \in J /\ g[k - a] \in 1 .. m
                              /\ h[k] = n + g[k - a]
  <2>1. k <= a => k \in 1 .. a
    BY <1>13
  <2>2. ~(k <= a) => k - a \in 1 .. b
    BY <1>13, <1>14
  <2>. QED
    BY <1>3, <1>8, <1>13, <1>14, <1>16, <2>1, <2>2
<1>18. ASSUME NEW k \in 1 .. a + b
       PROVE  h[k] \in K
  <2>1. CASE k <= a
    <3>1. f[k] \in 1 .. n /\ s[f[k]] \in D /\ h[k] = f[k]
      BY <1>6, <1>17, <2>1 DEF Within
    <3>2. f[k] \in 1 .. n + m /\ w[f[k]] \in D
      BY <1>3, <3>1
    <3>. QED
      BY <1>3, <1>15, <3>1, <3>2 DEF Within
  <2>2. CASE ~(k <= a)
    <3>1. g[k - a] \in 1 .. m /\ t[g[k - a]] \in D /\ h[k] = n + g[k - a]
      BY <1>7, <1>17, <2>2 DEF Within
    <3>2. n + g[k - a] \in 1 .. n + m /\ w[n + g[k - a]] \in D
      BY <1>3, <3>1
    <3>. QED
      BY <1>3, <1>15, <3>1, <3>2 DEF Within
  <2>. QED
    BY <2>1, <2>2
<1>19. ASSUME NEW k \in 1 .. a + b, NEW l \in 1 .. a + b, k < l
       PROVE  h[k] < h[l]
  <2>1. CASE l <= a
    <3>1. k <= a
      BY <1>13, <1>19, <2>1
    <3>. QED
      BY <1>13, <1>17, <1>19, <2>1, <3>1
  <2>2. CASE k <= a /\ ~(l <= a)
    <3>1. f[k] \in 1 .. n /\ h[k] = f[k] /\ g[l - a] \in 1 .. m /\ h[l] = n + g[l - a]
      BY <1>17, <2>2
    <3>. QED
      BY <3>1
  <2>3. CASE ~(k <= a)
    <3>1. ~(l <= a) /\ k - a < l - a
      BY <1>13, <1>19, <2>3
    <3>2. /\ k - a \in 1 .. b /\ l - a \in 1 .. b
          /\ g[k - a] \in 1 .. m /\ g[l - a] \in 1 .. m
          /\ h[k] = n + g[k - a] /\ h[l] = n + g[l - a]
      BY <1>17, <2>3, <3>1
    <3>3. g[k - a] < g[l - a]
      BY <1>14, <3>1, <3>2
    <3>. QED
      BY <3>2, <3>3
  <2>. QED
    BY <2>1, <2>2, <2>3
<1>20. Cardinality(K) = a + b
  <2>1. h \in Injection(1 .. a + b, K)
    <3>1. h \in [1 .. a + b -> K]
      BY <1>16, <1>18
    <3>2. \A k, l \in 1 .. a + b : h[k] = h[l] => k = l
      <4>1. SUFFICES ASSUME NEW k \in 1 .. a + b, NEW l \in 1 .. a + b, h[k] = h[l], k # l
                     PROVE  FALSE
        OBVIOUS
      <4>2. k < l \/ l < k
        BY <4>1
      <4>3. h[k] \in Nat /\ h[l] \in Nat
        BY <1>3, <1>15, <1>18 DEF Within
      <4>. QED
        BY <1>19, <4>1, <4>2, <4>3
    <3>. QED
      BY <3>1, <3>2 DEF Injection, IsInjective
  <2>2. \A i \in K : \E k \in 1 .. a + b : h[k] = i
    <3>1. SUFFICES ASSUME NEW i \in K
                   PROVE  \E k \in 1 .. a + b : h[k] = i
      OBVIOUS
    <3>2. i \in 1 .. n + m /\ w[i] \in D
      BY <1>3, <1>15 DEF Within
    <3>3. CASE i <= n
      <4>1. i \in I
        BY <1>3, <1>6, <3>2, <3>3 DEF Within
      <4>2. Reaches(f, a, I)
        BY <1>5, <1>8, <1>9, <1>11, EnumerationReaches
      <4>3. PICK k \in 1 .. a : f[k] = i
        BY <4>1, <4>2 DEF Reaches
      <4>4. k \in 1 .. a + b /\ k <= a
        BY <1>13, <1>14
      <4>. QED
        BY <1>17, <4>3, <4>4
    <3>4. CASE ~(i <= n)
      <4>1. PICK j \in 1 .. m : i = n + j
        BY <3>2, <3>4
      <4>2. j \in J
        BY <1>3, <1>7, <3>2, <4>1 DEF Within
      <4>3. Reaches(g, b, J)
        BY <1>5, <1>8, <1>10, <1>12, EnumerationReaches
      <4>4. PICK k \in 1 .. b : g[k] = j
        BY <4>2, <4>3 DEF Reaches
      <4>5. a + k \in 1 .. a + b /\ ~(a + k <= a) /\ (a + k) - a = k
        BY <1>13, <1>14
      <4>6. h[a + k] = i
        BY <1>17, <4>1, <4>4, <4>5
      <4>. QED
        BY <4>5, <4>6
    <3>. QED
      BY <3>3, <3>4
  <2>3. h \in Surjection(1 .. a + b, K)
    BY <1>16, <1>18, <2>2 DEF Surjection
  <2>4. IsFiniteSet(1 .. a + b) /\ Cardinality(1 .. a + b) = a + b
    BY <1>13, <1>14, CountTo
  <2>. QED
    BY <2>1, <2>3, <2>4, FS_Surjection
<1>21. Enumerates(h, w, K, o)
  BY <1>5, <1>16, <1>18, <1>19, <1>20 DEF Enumerates
<1>22. Keep(w, D) = [k \in 1 .. a + b |-> w[h[k]]]
  <2>1. Keep(w, D) = Arranged(w, K, o)
    BY <1>4, <1>15 DEF Keep, Chosen, Within
  <2>2. K \in SUBSET DOMAIN w /\ o \in Seq(Key) /\ w \in Seq(Document)
    BY <1>3, <1>5, <1>15 DEF Within
  <2>. QED
    BY <1>20, <1>21, <2>1, <2>2, ArrangedFits
<1>23. Keep(s, D) = [k \in 1 .. a |-> s[f[k]]]
  <2>1. Keep(s, D) = Arranged(s, I, o)
    BY <1>4, <1>6 DEF Keep, Chosen, Within
  <2>2. I \in SUBSET DOMAIN s /\ o \in Seq(Key) /\ s \in Seq(Document)
    BY <1>3, <1>5, <1>6 DEF Within
  <2>. QED
    BY <1>9, <1>11, <2>1, <2>2, ArrangedFits
<1>24. Keep(t, D) = [k \in 1 .. b |-> t[g[k]]]
  <2>1. Keep(t, D) = Arranged(t, J, o)
    BY <1>4, <1>7 DEF Keep, Chosen, Within
  <2>2. J \in SUBSET DOMAIN t /\ o \in Seq(Key) /\ t \in Seq(Document)
    BY <1>3, <1>5, <1>7 DEF Within
  <2>. QED
    BY <1>10, <1>12, <2>1, <2>2, ArrangedFits
<1>25. PICK u, v, z : u = Keep(s, D) /\ v = Keep(t, D) /\ z = Keep(w, D)
  OBVIOUS
<1>26. u \in Seq(Document) /\ v \in Seq(Document) /\ z \in Seq(Document)
  BY <1>3, <1>25, KeepIs
<1>27. Len(u) = a /\ Len(v) = b /\ Len(z) = a + b
  <2>1. DOMAIN u = 1 .. a /\ DOMAIN v = 1 .. b /\ DOMAIN z = 1 .. a + b
    BY <1>22, <1>23, <1>24, <1>25
  <2>. QED
    BY <1>13, <1>14, <1>26, <2>1
<1>28. ASSUME NEW k \in 1 .. a + b
       PROVE  z[k] = IF k <= a THEN u[k] ELSE v[k - a]
  <2>1. CASE k <= a
    <3>1. k \in 1 .. a /\ f[k] \in 1 .. n /\ h[k] = f[k]
      BY <1>17, <2>1
    <3>2. z[k] = w[h[k]] /\ u[k] = s[f[k]]
      BY <1>22, <1>23, <1>25, <3>1
    <3>. QED
      BY <1>3, <2>1, <3>1, <3>2
  <2>2. CASE ~(k <= a)
    <3>1. k - a \in 1 .. b /\ g[k - a] \in 1 .. m /\ h[k] = n + g[k - a]
      BY <1>17, <2>2
    <3>2. z[k] = w[h[k]] /\ v[k - a] = t[g[k - a]]
      BY <1>22, <1>24, <1>25, <3>1
    <3>. QED
      BY <1>3, <2>2, <3>1, <3>2
  <2>. QED
    BY <2>1, <2>2
<1>29. Joins(z, u, v, a, b)
  BY <1>28 DEF Joins
<1>30. z = u \o v
  BY <1>13, <1>14, <1>26, <1>27, <1>29, ConcatIs
<1>. QED
  BY <1>1, <1>25, <1>30

-----------------------------------------------------------------------------
(* Pages and slices *)

EndsAt(top, n, skip, take) == top = IF take = -1 \/ skip + take > n THEN n ELSE skip + take

\* A slice is the part of a sequence up to where it ends.
LEMMA SliceIs ==
  ASSUME NEW s \in Seq(Document), NEW skip \in Nat, NEW take \in Int, NEW n \in Nat, n = Len(s),
         NEW top, EndsAt(top, n, skip, take)
  PROVE  Slice(s, skip, take) = Part(s, skip, top)
<1>1. Max({0, skip}) = skip
  BY MaxOfTwo
<1>. QED
  BY <1>1 DEF Slice, EndsAt, Part

IsPart(t, s, lo, hi) ==
  /\ t \in Seq(Document) /\ Len(t) = hi - lo
  /\ \A k \in 1 .. hi - lo : t[k] = s[lo + k]

LEMMA PartIs ==
  ASSUME NEW s \in Seq(Document), NEW n \in Nat, n = Len(s),
         NEW lo \in Nat, NEW hi \in Nat, lo <= hi, hi <= n, NEW t, t = Part(s, lo, hi)
  PROVE  IsPart(t, s, lo, hi)
BY DEF Part, IsPart

\* elasticsearch asks for the hits that the limit leaves after those it skips:
\* that is all of them while there are fewer than the limit.
LEMMA SliceHits ==
  ASSUME StoreAssumption, NEW s \in Seq(Document), NEW n \in Nat, n = Len(s), n < MaxHits,
         NEW skip \in Nat
  PROVE  Slice(s, skip, MaxHits - skip) = Slice(s, skip, -1)
<1>1. PICK h \in Nat : h = MaxHits
  BY DEF Parameters
<1>2. h - skip \in Int /\ skip + (h - skip) = h /\ h > n
  BY <1>1
<1>3. Slice(s, skip, h - skip) = Part(s, skip, n)
  <2>1. PICK take \in Int : take = h - skip
    BY <1>2
  <2>2. EndsAt(n, n, skip, take)
    BY <1>2, <2>1 DEF EndsAt
  <2>3. Slice(s, skip, take) = Part(s, skip, n)
    BY <2>2, SliceIs
  <2>. QED
    BY <2>1, <2>3
<1>4. Slice(s, skip, -1) = Part(s, skip, n)
  <2>1. PICK take \in Int : take = -1
    OBVIOUS
  <2>2. EndsAt(n, n, skip, take)
    BY <2>1 DEF EndsAt
  <2>3. Slice(s, skip, take) = Part(s, skip, n)
    BY <2>2, SliceIs
  <2>. QED
    BY <2>1, <2>3
<1>. QED
  BY <1>1, <1>3, <1>4

\* A window that the first events fill is the same window of all of them.
LEMMA SliceOfFirst ==
  ASSUME NEW u \in Seq(Document), NEW v \in Seq(Document), NEW skip \in Nat, NEW take \in Nat,
         skip + take <= Len(u)
  PROVE  Slice(u \o v, skip, take) = Slice(u, skip, take)
<1>1. PICK a \in Nat, b \in Nat : a = Len(u) /\ b = Len(v)
  OBVIOUS
<1>2. PICK w : w = u \o v
  OBVIOUS
<1>3. /\ w \in Seq(Document) /\ Len(w) = a + b
      /\ \A k \in 1 .. a : w[k] = u[k]
  BY <1>1, <1>2, ConcatProperties
<1>4. PICK top \in Nat : top = skip + take
  OBVIOUS
<1>5. Slice(w, skip, take) = Part(w, skip, top)
  <2>1. PICK n \in Nat : n = a + b
    OBVIOUS
  <2>2. take # -1 /\ ~(skip + take > n)
    BY <1>1, <1>4, <2>1
  <2>3. EndsAt(top, n, skip, take)
    BY <1>4, <2>2 DEF EndsAt
  <2>4. take \in Int
    OBVIOUS
  <2>. QED
    <3>1. w \in Seq(Document) /\ n = Len(w)
      BY <1>3, <2>1
    <3>. QED
      BY <2>3, <2>4, <3>1, SliceIs
<1>6. Slice(u, skip, take) = Part(u, skip, top)
  <2>1. take # -1 /\ ~(skip + take > a)
    BY <1>1, <1>4
  <2>2. EndsAt(top, a, skip, take)
    BY <1>4, <2>1 DEF EndsAt
  <2>3. take \in Int
    OBVIOUS
  <2>. QED
    <3>1. a = Len(u)
      BY <1>1
    <3>. QED
      BY <2>2, <2>3, <3>1, SliceIs
<1>7. Part(w, skip, top) = Part(u, skip, top)
  <2>1. PICK x : x = Part(w, skip, top)
    OBVIOUS
  <2>2. PICK y : y = Part(u, skip, top)
    OBVIOUS
  <2>3. PICK n \in Nat : n = Len(w)
    BY <1>3
  <2>4. top <= a /\ top <= n /\ skip <= top /\ top - skip = take
    BY <1>1, <1>3, <1>4, <2>3
  <2>5. w \in Seq(Document) /\ a = Len(u)
    BY <1>1, <1>3
  <2>6. IsPart(x, w, skip, top)
    BY <2>1, <2>3, <2>4, <2>5, PartIs
  <2>7. IsPart(y, u, skip, top)
    BY <2>2, <2>4, <2>5, PartIs
  <2>8. x \in Seq(Document) /\ Len(x) = take /\ \A k \in 1 .. take : x[k] = w[skip + k]
    BY <2>4, <2>6 DEF IsPart
  <2>9. y \in Seq(Document) /\ Len(y) = take /\ \A k \in 1 .. take : y[k] = u[skip + k]
    BY <2>4, <2>7 DEF IsPart
  <2>10. \A k \in 1 .. take : skip + k \in 1 .. a
    BY <1>1
  <2>11. \A k \in 1 .. Len(x) : x[k] = y[k]
    BY <1>3, <2>8, <2>9, <2>10
  <2>. QED
    BY <2>1, <2>2, <2>8, <2>9, <2>11, SeqEqual
<1>. QED
  BY <1>2, <1>5, <1>6, <1>7

\* Nothing of rows stands in two orders.
Strict(rows, key) == \A i, j \in DOMAIN rows : Less(key, rows[i], rows[j]) <=> i < j

\* No two of the events at the places I are equal for the order o.
Untied(s, I, o) == \A x, y \in I : x = y \/ Less(o, s[x], s[y]) \/ Less(o, s[y], s[x])

LEMMA ArrangedStrict ==
  ASSUME StoreAssumption, NEW s \in Seq(Document), NEW I \in SUBSET DOMAIN s,
         NEW o \in Seq(Key), Untied(s, I, o), NEW t, t = Arranged(s, I, o)
  PROVE  Strict(t, o)
<1>1. PICK f : Enumerates(f, s, I, o)
  BY HasEnumeration
<1>2. PICK n : n = Cardinality(I)
  OBVIOUS
<1>3. t = [k \in 1 .. n |-> s[f[k]]] /\ DOMAIN t = 1 .. n
  BY <1>1, <1>2, ArrangedFits
<1>4. f \in [1 .. n -> I] /\ \A k, l \in 1 .. n : k < l => Precedes(s, o, f[k], f[l])
  BY <1>1, <1>2 DEF Enumerates
<1>5. n \in Nat
  BY <1>1, <1>2, EnumerationCounts
<1>6. ASSUME NEW k \in 1 .. n, NEW l \in 1 .. n, k < l
      PROVE  Less(o, t[k], t[l]) /\ ~Less(o, t[l], t[k])
  <2>1. Precedes(s, o, f[k], f[l]) /\ f[k] \in I /\ f[l] \in I
    BY <1>4, <1>6
  <2>2. f[k] # f[l] /\ ~Precedes(s, o, f[l], f[k])
    BY <2>1, PrecedesOrder
  <2>3. Less(o, s[f[k]], s[f[l]]) \/ Less(o, s[f[l]], s[f[k]])
    BY <2>1, <2>2 DEF Untied
  <2>4. ~Less(o, s[f[l]], s[f[k]])
    BY <2>2 DEF Precedes
  <2>. QED
    BY <1>3, <2>3, <2>4
<1>7. ASSUME NEW k \in 1 .. n
      PROVE  ~Less(o, t[k], t[k])
  <2>1. t[k] \in Document
    BY <1>3, <1>4
  <2>. QED
    BY <2>1, LessOrder
<1>8. ASSUME NEW k \in 1 .. n, NEW l \in 1 .. n
      PROVE  Less(o, t[k], t[l]) <=> k < l
  <2>1. k < l \/ k = l \/ l < k
    OBVIOUS
  <2>. QED
    BY <1>6, <1>7, <2>1
<1>. QED
  BY <1>3, <1>8 DEF Strict

\* The rows behind the cursor.
LEMMA RestAfter ==
  ASSUME StoreAssumption, NEW rows \in Seq(Document), NEW key, Strict(rows, key),
         NEW n \in Nat, n = Len(rows), NEW m \in 1 .. n
  PROVE  Chosen(rows, {i \in DOMAIN rows : Less(key, rows[m], rows[i])}) = Part(rows, m, n)
<1>1. {i \in DOMAIN rows : Less(key, rows[m], rows[i])} = Places(m, n)
  <2>1. \A i \in 1 .. n : Less(key, rows[m], rows[i]) <=> m < i
    BY DEF Strict
  <2>2. \A i \in 1 .. n : m < i <=> i \in m + 1 .. n
    OBVIOUS
  <2>3. m + 1 .. n \subseteq 1 .. n
    OBVIOUS
  <2>. QED
    BY <2>1, <2>2, <2>3 DEF Places
<1>2. Chosen(rows, Places(m, n)) = Part(rows, m, n)
  <2>1. m \in Nat /\ n <= n
    OBVIOUS
  <2>. QED
    BY <2>1, ChosenInterval
<1>. QED
  BY <1>1, <1>2

LEMMA PartEmpty ==
  ASSUME NEW s \in Seq(Document), NEW lo \in Nat, NEW hi \in Nat, hi <= lo
  PROVE  Part(s, lo, hi) = <<>>
<1>1. Part(s, lo, hi) \in Seq(Document) /\ Len(Part(s, lo, hi)) = 0
  BY DEF Part
<1>. QED
  BY <1>1

\* Two adjacent parts.
LEMMA PartsJoin ==
  ASSUME NEW s \in Seq(Document), NEW n \in Nat, n = Len(s),
         NEW a \in Nat, NEW b \in Nat, NEW c \in Nat, a <= b, b <= c, c <= n
  PROVE  Part(s, a, b) \o Part(s, b, c) = Part(s, a, c)
<1>1. PICK u : u = Part(s, a, b)
  OBVIOUS
<1>2. PICK v : v = Part(s, b, c)
  OBVIOUS
<1>3. PICK z : z = Part(s, a, c)
  OBVIOUS
<1>4. IsPart(u, s, a, b)
  <2>1. b <= n
    OBVIOUS
  <2>. QED
    BY <1>1, <2>1, PartIs
<1>5. IsPart(v, s, b, c)
  BY <1>2, PartIs
<1>6. IsPart(z, s, a, c)
  <2>1. a <= c
    OBVIOUS
  <2>. QED
    BY <1>3, <2>1, PartIs
<1>7. PICK j \in Nat, k \in Nat : j = b - a /\ k = c - b
  OBVIOUS
<1>8. /\ u \in Seq(Document) /\ Len(u) = j /\ (\A i \in 1 .. j : u[i] = s[a + i])
      /\ v \in Seq(Document) /\ Len(v) = k /\ (\A i \in 1 .. k : v[i] = s[b + i])
      /\ z \in Seq(Document) /\ Len(z) = j + k /\ (\A i \in 1 .. j + k : z[i] = s[a + i])
  BY <1>4, <1>5, <1>6, <1>7 DEF IsPart
<1>9. Joins(z, u, v, j, k)
  <2>1. SUFFICES ASSUME NEW i \in 1 .. j + k
                 PROVE  z[i] = IF i <= j THEN u[i] ELSE v[i - j]
    BY DEF Joins
  <2>2. CASE i <= j
    BY <1>8, <2>2
  <2>3. CASE ~(i <= j)
    <3>1. i - j \in 1 .. k /\ b + (i - j) = a + i
      BY <1>7, <2>3
    <3>. QED
      BY <1>8, <2>3, <3>1
  <2>. QED
    BY <2>2, <2>3
<1>10. u \in Seq(Document) /\ v \in Seq(Document) /\ z \in Seq(Document)
  BY <1>8
<1>11. Len(u) = j /\ Len(v) = k /\ Len(z) = j + k
  BY <1>8
<1>12. z = u \o v
  BY <1>9, <1>10, <1>11, ConcatIs
<1>. QED
  BY <1>1, <1>2, <1>3, <1>12

LEMMA PartAll ==
  ASSUME NEW s \in Seq(Document), NEW n \in Nat, n = Len(s)
  PROVE  Part(s, 0, n) = s
<1>1. PICK t : t = Part(s, 0, n)
  OBVIOUS
<1>2. IsPart(t, s, 0, n)
  <2>1. 0 \in Nat /\ 0 <= n /\ n <= n
    OBVIOUS
  <2>. QED
    BY <1>1, <2>1, PartIs
<1>3. t \in Seq(Document) /\ Len(t) = Len(s) /\ \A i \in 1 .. Len(t) : t[i] = s[i]
  BY <1>2 DEF IsPart
<1>4. t = s
  BY <1>3, SeqEqual
<1>. QED
  BY <1>1, <1>4

\* The next page: the rows m + 1 to m + k.
PageEnds(end, m, size, n) == IF m + size > n THEN end = n ELSE end = m + size

LEMMA PageOfRest ==
  ASSUME NEW rows \in Seq(Document), NEW n \in Nat, n = Len(rows),
         NEW m \in Nat, m <= n, NEW size \in Nat,
         NEW end \in Nat, PageEnds(end, m, size, n)
  PROVE  Slice(Part(rows, m, n), 0, size) = Part(rows, m, end)
<1>1. PICK rest : rest = Part(rows, m, n)
  OBVIOUS
<1>2. IF m + size > n THEN end = n ELSE end = m + size
  BY DEF PageEnds
<1>3. IsPart(rest, rows, m, n)
  BY <1>1, PartIs
<1>4. PICK r \in Nat : r = n - m
  <2>1. n - m \in Nat
    OBVIOUS
  <2>. QED
    BY <2>1
<1>5. rest \in Seq(Document) /\ Len(rest) = r /\ \A i \in 1 .. r : rest[i] = rows[m + i]
  BY <1>3, <1>4 DEF IsPart
<1>6. PICK k \in Nat : k = end - m
  BY <1>2
<1>7. end \in m .. n
  BY <1>2
<1>8. Slice(rest, 0, size) = Part(rest, 0, k)
  <2>1. PICK z \in Nat, take \in Int : z = 0 /\ take = size
    OBVIOUS
  <2>2. EndsAt(k, r, z, take)
    BY <1>4, <1>6, <1>2, <2>1 DEF EndsAt
  <2>3. rest \in Seq(Document) /\ r = Len(rest)
    BY <1>5
  <2>4. Slice(rest, z, take) = Part(rest, z, k)
    BY <2>2, <2>3, SliceIs
  <2>. QED
    BY <2>1, <2>4
<1>9. Part(rest, 0, k) = Part(rows, m, end)
  <2>1. PICK x : x = Part(rest, 0, k)
    OBVIOUS
  <2>2. PICK y : y = Part(rows, m, end)
    OBVIOUS
  <2>3. IsPart(x, rest, 0, k)
    <3>1. 0 \in Nat /\ 0 <= k /\ k <= r /\ r = Len(rest) /\ rest \in Seq(Document)
      BY <1>4, <1>5, <1>6, <1>2
    <3>. QED
      BY <2>1, <3>1, PartIs
  <2>4. IsPart(y, rows, m, end)
    <3>1. m <= end /\ end <= n
      BY <1>2
    <3>. QED
      BY <2>2, <3>1, PartIs
  <2>5. x \in Seq(Document) /\ Len(x) = k /\ \A i \in 1 .. k : x[i] = rest[i]
    BY <2>3 DEF IsPart
  <2>6. y \in Seq(Document) /\ Len(y) = k /\ \A i \in 1 .. k : y[i] = rows[m + i]
    BY <1>6, <2>4 DEF IsPart
  <2>7. \A i \in 1 .. k : i \in 1 .. r
    BY <1>4, <1>6, <1>2
  <2>8. \A i \in 1 .. Len(x) : x[i] = y[i]
    BY <1>5, <2>5, <2>6, <2>7
  <2>. QED
    BY <2>1, <2>2, <2>5, <2>6, <2>8, SeqEqual
<1>. QED
  BY <1>1, <1>8, <1>9

-----------------------------------------------------------------------------
(* Reads by revision *)

\* The events of the revisions from lo on, below hi.
Between(lo, hi) == {d \in Document : d.rev >= lo /\ (hi = -1 \/ d.rev < hi)}

\* How many there are at most; -1: all.
Reach(lo, hi) == IF hi = -1 THEN -1 ELSE Max({0, hi - lo})

\* Where the revisions are the places, a read by revision is a slice.
LEMMA RevisionSlice ==
  ASSUME StoreAssumption, NEW T, FromZero(T), NEW lo \in Nat, NEW hi \in Nat \cup {-1}
  PROVE  Keep(T, Between(lo, hi)) = Slice(T, lo, Reach(lo, hi))
<1>1. T \in Seq(Document)
  BY DEF FromZero
<1>2. PICK n \in Nat : n = Len(T)
  BY <1>1
<1>3. PICK top \in Nat : top = IF hi = -1 \/ hi > n THEN n ELSE hi
  OBVIOUS
<1>4. {i \in DOMAIN T : T[i] \in Between(lo, hi)} = Places(lo, top)
  <2>1. DOMAIN T = 1 .. n /\ \A i \in 1 .. n : T[i] \in Document /\ T[i].rev = i - 1
    BY <1>1, <1>2 DEF FromZero
  <2>2. \A i \in 1 .. n : T[i] \in Between(lo, hi) <=> i - 1 >= lo /\ (hi = -1 \/ i - 1 < hi)
    BY <2>1 DEF Between
  <2>3. \A i \in 1 .. n : i - 1 >= lo /\ (hi = -1 \/ i - 1 < hi) <=> i \in lo + 1 .. top
    BY <1>3
  <2>4. \A i \in lo + 1 .. top : i \in 1 .. n
    BY <1>3
  <2>. QED
    BY <2>1, <2>2, <2>3, <2>4 DEF Places
<1>5. Chosen(T, Places(lo, top)) = Part(T, lo, top)
  <2>1. top <= n
    BY <1>3
  <2>. QED
    BY <1>1, <1>2, <2>1, ChosenInterval
<1>6. Keep(T, Between(lo, hi)) = Part(T, lo, top)
  BY <1>4, <1>5 DEF Keep
<1>7. PICK take \in Int : take = Reach(lo, hi)
  <2>1. hi # -1 => Max({0, hi - lo}) = IF 0 < hi - lo THEN hi - lo ELSE 0
    BY MaxOfTwo
  <2>2. Reach(lo, hi) \in Int
    BY <2>1 DEF Reach
  <2>. QED
    BY <2>2
<1>8. take = IF hi = -1 THEN -1 ELSE IF lo < hi THEN hi - lo ELSE 0
  <2>1. CASE hi = -1
    BY <1>7, <2>1 DEF Reach
  <2>2. CASE hi # -1
    <3>1. hi - lo \in Int /\ 0 \in Int
      BY <2>2
    <3>2. Max({0, hi - lo}) = IF 0 < hi - lo THEN hi - lo ELSE 0
      BY <3>1, MaxOfTwo
    <3>3. hi \in Nat
      BY <2>2
    <3>4. 0 < hi - lo <=> lo < hi
      BY <3>3
    <3>. QED
      BY <1>7, <2>2, <3>2, <3>4 DEF Reach
  <2>. QED
    BY <2>1, <2>2
<1>9. PICK end \in Nat : end = IF take = -1 \/ lo + take > n THEN n ELSE lo + take
  <2>1. hi # -1 => hi \in Nat
    OBVIOUS
  <2>2. take = -1 \/ take \in Nat
    BY <1>8, <2>1
  <2>. QED
    BY <2>2
<1>10. Slice(T, lo, take) = Part(T, lo, end)
  <2>1. EndsAt(end, n, lo, take)
    BY <1>9 DEF EndsAt
  <2>. QED
    BY <1>1, <1>2, <2>1, SliceIs
<1>11. end = top \/ (end <= lo /\ top <= lo)
  <2>1. CASE hi = -1
    BY <1>3, <1>8, <1>9, <2>1
  <2>2. CASE hi # -1 /\ lo < hi
    <3>1. hi \in Nat /\ take = hi - lo /\ take # -1 /\ lo + take = hi
      BY <1>8, <2>2
    <3>. QED
      BY <1>3, <1>9, <2>2, <3>1
  <2>3. CASE hi # -1 /\ ~(lo < hi)
    <3>1. hi \in Nat /\ take = 0
      BY <1>8, <2>3
    <3>. QED
      BY <1>3, <1>9, <2>3, <3>1
  <2>. QED
    BY <2>1, <2>2, <2>3
<1>12. Part(T, lo, end) = Part(T, lo, top)
  BY <1>1, <1>11, PartEmpty
<1>. QED
  BY <1>6, <1>7, <1>10, <1>12

-----------------------------------------------------------------------------
(* What a reader collects, and what it was promised *)

\* The events a driver asks for, the undispatched ones, and those a caller asks for.
Wanted(q) == {d \in Document : Wants(Plan(q), d)}
Undispatched == {d \in Document : Id(d) \in waiting}
Since(t) == {d \in Document : d.stamp >= t}
Asked(q) ==
  CASE q.op = "getEventsSince"        -> Since(q.since)
    [] q.op = "getEventsByRevision"   -> Between(q.lo, q.hi)
    [] q.op = "getUndispatchedEvents" -> Undispatched
    [] OTHER                          -> Document

\* The places of the stored events that are in D, and these events in the order of time.
At(D) == Within(events, DOMAIN events, D)
Ordered(D) == Arranged(events, At(D), ByTime)

\* The rows of a table as long as what is listed is stored.
Listed(from) == IF from = "events" THEN events ELSE Keep(events, Undispatched)

\* The cut a caller asks for: skip and limit, and the last event only.
Pages(q) == q.op \in {"getEvents", "getEventsSince"}
Cut(s, q) ==
  LET cut == IF Pages(q) THEN Slice(s, q.skip, q.limit) ELSE s
  IN  IF q.op = "getLastEvent" THEN Slice(cut, Len(cut) - 1, -1) ELSE cut

\* The rows a plan selects are those the query wants.
LEMMA SelectedIs ==
  ASSUME NEW q, NEW rows \in Seq(Document)
  PROVE  Selected(Plan(q), rows) = Keep(rows, Wanted(q))
<1>1. \A i \in DOMAIN rows : rows[i] \in Document
  OBVIOUS
<1>2. {i \in DOMAIN rows : Wants(Plan(q), rows[i])} = {i \in DOMAIN rows : rows[i] \in Wanted(q)}
  BY <1>1 DEF Wanted
<1>. QED
  BY <1>2 DEF Selected, Keep

LEMMA Query ==
  ASSUME StoreAssumption, NEW q \in Queries
  PROVE  /\ q.op \in {"getEvents", "getEventsSince", "getEventsByRevision",
                      "getUndispatchedEvents", "getLastEvent"}
         /\ q.skip \in Nat /\ q.limit \in Nat \cup {-1} /\ q.since \in Nat
         /\ q.lo \in Nat /\ q.hi \in Nat \cup {-1}
BY DEF Parameters

LEMMA AtAll ==
  ASSUME events \in Seq(Document)
  PROVE  /\ At(Document) = DOMAIN events
         /\ \A D : At(D) \in SUBSET DOMAIN events
<1>1. \A i \in DOMAIN events : events[i] \in Document
  OBVIOUS
<1>2. At(Document) = DOMAIN events
  BY <1>1 DEF At, Within
<1>3. ASSUME NEW D PROVE At(D) \in SUBSET DOMAIN events
  BY DEF At, Within
<1>. QED
  BY <1>2, <1>3

LEMMA OrderedIs ==
  ASSUME StoreAssumption, events \in Seq(Document)
  PROVE  /\ TimeOrder = Ordered(Document)
         /\ TimeOrder \in Seq(Document)
         /\ \A D : Keep(TimeOrder, D) = Ordered(D) /\ Ordered(D) \in Seq(Document)
<1>1. TimeOrder = Ordered(Document)
  BY AtAll DEF TimeOrder, Sorted, Ordered
<1>2. TimeOrder \in Seq(Document)
  BY NoOrder, SortedType DEF TimeOrder
<1>3. ASSUME NEW D
      PROVE  Keep(TimeOrder, D) = Ordered(D) /\ Ordered(D) \in Seq(Document)
  <2>1. Keep(TimeOrder, D) = Ordered(D)
    BY NoOrder, KeepIs DEF TimeOrder, Ordered, At
  <2>2. Ordered(D) \in Seq(Document)
    BY <1>2, <2>1, KeepIs
  <2>. QED
    BY <2>1, <2>2
<1>. QED
  BY <1>1, <1>2, <1>3

\* The contract promises the events asked for, in order, cut to the window.
LEMMA PromisedIs ==
  ASSUME StoreAssumption, events \in Seq(Document), NEW q \in Queries
  PROVE  Promised(q) = Cut(Ordered(Asked(q)), q)
<1>1. \A i \in DOMAIN TimeOrder : TimeOrder[i] \in Document
  BY OrderedIs
<1>2. Sorted(events, ByTime) = TimeOrder
  BY DEF TimeOrder
<1>3. CASE q.op = "getEvents"
  <2>1. Asked(q) = Document /\ Cut(TimeOrder, q) = Slice(TimeOrder, q.skip, q.limit)
    BY <1>3 DEF Asked, Cut, Pages
  <2>. QED
    BY <1>2, <1>3, <2>1, OrderedIs DEF Promised
<1>4. CASE q.op = "getEventsSince"
  <2>1. Asked(q) = Since(q.since)
        /\ Cut(Ordered(Since(q.since)), q) = Slice(Ordered(Since(q.since)), q.skip, q.limit)
    BY <1>4 DEF Asked, Cut, Pages
  <2>2. {i \in DOMAIN TimeOrder : TimeOrder[i].stamp >= q.since}
          = {i \in DOMAIN TimeOrder : TimeOrder[i] \in Since(q.since)}
    BY <1>1 DEF Since
  <2>3. Chosen(TimeOrder, {i \in DOMAIN TimeOrder : TimeOrder[i].stamp >= q.since})
          = Ordered(Since(q.since))
    BY <2>2, OrderedIs DEF Keep
  <2>. QED
    BY <1>2, <1>4, <2>1, <2>3 DEF Promised
<1>5. CASE q.op = "getEventsByRevision"
  <2>1. Asked(q) = Between(q.lo, q.hi)
        /\ Cut(Ordered(Between(q.lo, q.hi)), q) = Ordered(Between(q.lo, q.hi))
    BY <1>5 DEF Asked, Cut, Pages
  <2>2. {i \in DOMAIN TimeOrder : TimeOrder[i].rev >= q.lo /\ (q.hi = -1 \/ TimeOrder[i].rev < q.hi)}
          = {i \in DOMAIN TimeOrder : TimeOrder[i] \in Between(q.lo, q.hi)}
    BY <1>1 DEF Between
  <2>3. Chosen(TimeOrder, {i \in DOMAIN TimeOrder :
                   TimeOrder[i].rev >= q.lo /\ (q.hi = -1 \/ TimeOrder[i].rev < q.hi)})
          = Ordered(Between(q.lo, q.hi))
    BY <2>2, OrderedIs DEF Keep
  <2>. QED
    BY <1>2, <1>5, <2>1, <2>3 DEF Promised
<1>6. CASE q.op = "getUndispatchedEvents"
  <2>1. Asked(q) = Undispatched /\ Cut(Ordered(Undispatched), q) = Ordered(Undispatched)
    BY <1>6 DEF Asked, Cut, Pages
  <2>2. {i \in DOMAIN TimeOrder : Id(TimeOrder[i]) \in waiting}
          = {i \in DOMAIN TimeOrder : TimeOrder[i] \in Undispatched}
    BY <1>1 DEF Undispatched
  <2>3. Chosen(TimeOrder, {i \in DOMAIN TimeOrder : Id(TimeOrder[i]) \in waiting})
          = Ordered(Undispatched)
    BY <2>2, OrderedIs DEF Keep
  <2>. QED
    BY <1>2, <1>6, <2>1, <2>3 DEF Promised
<1>7. CASE q.op = "getLastEvent"
  <2>1. Asked(q) = Document /\ Cut(TimeOrder, q) = Slice(TimeOrder, Len(TimeOrder) - 1, -1)
    BY <1>7 DEF Asked, Cut, Pages
  <2>. QED
    BY <1>2, <1>7, <2>1, OrderedIs DEF Promised
<1>. QED
  BY <1>3, <1>4, <1>5, <1>6, <1>7, Query

\* The answer once the collected events are in the order of time.
CutAs(q, s) ==
  Slice(s, Plan(q).skip, Plan(q).take) = IF Pages(q) THEN Slice(s, q.skip, q.limit) ELSE s
LastOnly(q) == Plan(q).last <=> q.op = "getLastEvent"

\* A driver that sorts and cuts like the contract answers what it cuts of what was found.
LEMMA AnswerIs ==
  ASSUME NEW q, NEW found, NEW version, NEW s, Sorted(found, Plan(q).sort) = s,
         CutAs(q, s), LastOnly(q), Answered(q, found, version).ok
  PROVE  Answered(q, found, version).docs = Cut(s, q)
BY DEF Answered, CutAs, LastOnly, Cut

\* The events of the table that is read, and the places of those that are asked for.
Source(from) == IF from = "events" THEN Document ELSE Undispatched
Held(q) == At(Source(Plan(q).from) \cap Wanted(q))

\* The rows of the table in the order of a key.
LEMMA RowsAre ==
  ASSUME StoreAssumption, events \in Seq(Document), NEW from, NEW key \in Seq(Key)
  PROVE  /\ Sorted(Listed(from), key) = Arranged(events, At(Source(from)), key)
         /\ Listed(from) \in Seq(Document)
<1>1. CASE from = "events"
  <2>1. At(Source(from)) = DOMAIN events /\ Listed(from) = events
    BY <1>1, AtAll DEF Source, Listed
  <2>. QED
    BY <2>1 DEF Sorted
<1>2. CASE from # "events"
  <2>1. Source(from) = Undispatched /\ Listed(from) = Keep(events, Undispatched)
    BY <1>2 DEF Source, Listed
  <2>2. At(Undispatched) \in SUBSET DOMAIN events
    BY AtAll
  <2>3. PICK none \in Seq(Key) : none = <<>>
    BY NoOrder
  <2>4. Refines(events, At(Undispatched), none, key, key)
    BY <2>3, PlainOrders
  <2>5. Keep(events, Undispatched) = Arranged(events, At(Undispatched), <<>>)
        /\ Keep(events, Undispatched) \in Seq(Document)
    BY KeepIs DEF At
  <2>6. Keep(events, Undispatched) = Arranged(events, At(Undispatched), none)
    BY <2>3, <2>5
  <2>7. Sorted(Keep(events, Undispatched), key) = Arranged(events, At(Undispatched), key)
    BY <2>2, <2>4, <2>6, NoOrder, SortArranged
  <2>. QED
    BY <2>1, <2>5, <2>7
<1>. QED
  BY <1>1, <1>2

LEMMA CollectedIs ==
  ASSUME StoreAssumption, events \in Seq(Document), NEW q, NEW from, from = Plan(q).from,
         NEW key \in Seq(Key), NEW rows, rows = Sorted(Listed(from), key)
  PROVE  /\ rows \in Seq(Document)
         /\ Keep(rows, Wanted(q)) = Arranged(events, Held(q), key)
<1>1. rows = Arranged(events, At(Source(from)), key)
  BY RowsAre
<1>2. At(Source(from)) \in SUBSET DOMAIN events
  BY AtAll
<1>3. Keep(rows, Wanted(q)) = Arranged(events, Within(events, At(Source(from)), Wanted(q)), key)
  BY <1>1, <1>2, KeepArranged
<1>4. Within(events, At(Source(from)), Wanted(q)) = Held(q)
  BY DEF Within, At, Held
<1>5. rows \in Seq(Document)
  BY RowsAre, SortedType
<1>. QED
  BY <1>3, <1>4, <1>5

\* A plan that filters, or cuts, just as the caller asks.
Filters(q) ==
  /\ Plan(q).from = IF q.op = "getUndispatchedEvents" THEN "waiting" ELSE "events"
  /\ Plan(q).lo = IF q.op = "getEventsByRevision" THEN q.lo ELSE 0
  /\ Plan(q).hi = IF q.op = "getEventsByRevision" THEN q.hi ELSE -1
  /\ Plan(q).since = IF q.op = "getEventsSince" THEN q.since ELSE 0
  /\ LastOnly(q)
Cuts(q) ==
  /\ Plan(q).skip = IF Pages(q) THEN q.skip ELSE 0
  /\ Plan(q).take = IF Pages(q) THEN q.limit ELSE -1

LEMMA HeldIs ==
  ASSUME StoreAssumption, events \in Seq(Document), NEW q \in Queries, Filters(q)
  PROVE  Held(q) = At(Asked(q))
<1>1. \A d \in Document : d.rev \in Nat /\ d.stamp \in Nat
  BY DEF Document
<1>2. Source(Plan(q).from) \cap Wanted(q) = Asked(q)
  <2>1. CASE q.op = "getEventsSince"
    <3>1. \A d \in Document : Wants(Plan(q), d) <=> d.stamp >= q.since
      BY <1>1, <2>1 DEF Filters, Wants
    <3>. QED
      BY <2>1, <3>1 DEF Filters, Source, Wanted, Asked, Since
  <2>2. CASE q.op = "getEventsByRevision"
    <3>1. \A d \in Document : Wants(Plan(q), d) <=> d.rev >= q.lo /\ (q.hi = -1 \/ d.rev < q.hi)
      BY <1>1, <2>2 DEF Filters, Wants
    <3>. QED
      BY <2>2, <3>1 DEF Filters, Source, Wanted, Asked, Between
  <2>3. CASE q.op \notin {"getEventsSince", "getEventsByRevision"}
    <3>1. \A d \in Document : Wants(Plan(q), d)
      BY <1>1, <2>3 DEF Filters, Wants
    <3>2. Wanted(q) = Document
      BY <3>1 DEF Wanted
    <3>. QED
      BY <2>3, <3>2 DEF Filters, Source, Asked, Undispatched
  <2>. QED
    BY <2>1, <2>2, <2>3
<1>. QED
  BY <1>2 DEF Held

LEMMA CutsAs ==
  ASSUME NEW q, Cuts(q), NEW D, NEW s \in Seq(D)
  PROVE  CutAs(q, s)
BY SliceAll DEF Cuts, CutAs

\* The answer of a driver whose plan filters as asked.
LEMMA Agreed ==
  ASSUME StoreAssumption, events \in Seq(Document), NEW q \in Queries,
         NEW I, I = At(Asked(q)),
         NEW o1 \in Seq(Key), NEW o2 \in Seq(Key), o2 = Plan(q).sort,
         Refines(events, I, o1, o2, ByTime),
         NEW found, found = Arranged(events, I, o1), NEW version,
         CutAs(q, Ordered(Asked(q))), LastOnly(q), Answered(q, found, version).ok
  PROVE  Answered(q, found, version).docs = Promised(q)
<1>1. I \in SUBSET DOMAIN events
  BY AtAll
<1>2. Sorted(found, o2) = Arranged(events, I, ByTime)
  BY <1>1, NoOrder, SortArranged
<1>3. Sorted(found, Plan(q).sort) = Ordered(Asked(q))
  BY <1>2 DEF Ordered
<1>. QED
  BY <1>3, AnswerIs, PromisedIs

\* The plan of each driver: whether it filters and cuts, how it reads, what it sorts by.
LEMMA MongodbPlans ==
  ASSUME StoreAssumption, driver = "mongodb", NEW q \in Queries
  PROVE  /\ Filters(q) /\ Cuts(q)
         /\ Plan(q).pages = "one" /\ Plan(q).sort = ByTime
<1>1. CASE q.op = "getEvents"
  <2>1. Plan(q) = Mongodb_streamEvents(q)
    BY <1>1 DEF Plan, GetEvents
  <2>. QED
    BY <1>1, <2>1 DEF Mongodb_streamEvents, Reading, Filters, Cuts, LastOnly, Pages
<1>2. CASE q.op = "getEventsSince"
  <2>1. Plan(q) = Mongodb_streamEventsSince(q)
    BY <1>2 DEF Plan, GetEventsSince
  <2>. QED
    BY <1>2, <2>1 DEF Mongodb_streamEventsSince, Mongodb_streamEvents, Reading, Filters, Cuts,
                      LastOnly, Pages
<1>3. CASE q.op = "getEventsByRevision"
  <2>1. Plan(q) = Mongodb_getEventsByRevision(q)
    BY <1>3 DEF Plan, GetEventsByRevision
  <2>. QED
    BY <1>3, <2>1 DEF Mongodb_getEventsByRevision, Reading, Filters, Cuts, LastOnly, Pages
<1>4. CASE q.op = "getUndispatchedEvents"
  <2>1. Plan(q) = Mongodb_getUndispatchedEvents(q)
    BY <1>4 DEF Plan, GetUndispatchedEvents
  <2>. QED
    BY <1>4, <2>1 DEF Mongodb_getUndispatchedEvents, Reading, Filters, Cuts, LastOnly, Pages
<1>5. CASE q.op = "getLastEvent"
  <2>1. Plan(q) = Mongodb_getLastEvent(q)
    BY <1>5 DEF Plan, GetLastEvent
  <2>. QED
    BY <1>5, <2>1 DEF Mongodb_getLastEvent, Reading, Filters, Cuts, LastOnly, Pages
<1>. QED
  BY <1>1, <1>2, <1>3, <1>4, <1>5, Query

\* The plans of tingodb.
LEMMA TingodbPlans ==
  ASSUME StoreAssumption, driver = "tingodb", NEW q \in Queries
  PROVE  /\ Filters(q) /\ Cuts(q)
         /\ Plan(q).pages = "one" /\ Plan(q).sort = ByTime
<1>1. CASE q.op = "getEvents"
  <2>1. Plan(q) = Tingodb_getEvents(q)
    BY <1>1 DEF Plan, GetEvents
  <2>. QED
    BY <1>1, <2>1 DEF Tingodb_getEvents, Reading, Filters, Cuts, LastOnly, Pages
<1>2. CASE q.op = "getEventsSince"
  <2>1. Plan(q) = Tingodb_getEventsSince(q)
    BY <1>2 DEF Plan, GetEventsSince
  <2>. QED
    BY <1>2, <2>1 DEF Tingodb_getEventsSince, Reading, Filters, Cuts, LastOnly, Pages
<1>3. CASE q.op = "getEventsByRevision"
  <2>1. Plan(q) = Tingodb_getEventsByRevision(q)
    BY <1>3 DEF Plan, GetEventsByRevision
  <2>. QED
    BY <1>3, <2>1 DEF Tingodb_getEventsByRevision, Reading, Filters, Cuts, LastOnly, Pages
<1>4. CASE q.op = "getUndispatchedEvents"
  <2>1. Plan(q) = Tingodb_getUndispatchedEvents(q)
    BY <1>4 DEF Plan, GetUndispatchedEvents
  <2>. QED
    BY <1>4, <2>1 DEF Tingodb_getUndispatchedEvents, Reading, Filters, Cuts, LastOnly, Pages
<1>5. CASE q.op = "getLastEvent"
  <2>1. Plan(q) = Tingodb_getLastEvent(q)
    BY <1>5 DEF Plan, GetLastEvent
  <2>. QED
    BY <1>5, <2>1 DEF Tingodb_getLastEvent, Reading, Filters, Cuts, LastOnly, Pages
<1>. QED
  BY <1>1, <1>2, <1>3, <1>4, <1>5, Query

\* The plans of inmemory.
LEMMA InmemoryPlans ==
  ASSUME StoreAssumption, driver = "inmemory", NEW q \in Queries, q.op # "getEventsByRevision"
  PROVE  /\ Filters(q) /\ Cuts(q)
         /\ Plan(q).pages = "one" /\ Plan(q).sort = ByStamp
<1>1. CASE q.op = "getEvents"
  <2>1. Plan(q) = Inmemory_getEvents(q)
    BY <1>1 DEF Plan, GetEvents
  <2>. QED
    BY <1>1, <2>1 DEF Inmemory_getEvents, Reading, Filters, Cuts, LastOnly, Pages
<1>2. CASE q.op = "getEventsSince"
  <2>1. Plan(q) = Inmemory_getEventsSince(q)
    BY <1>2 DEF Plan, GetEventsSince
  <2>. QED
    BY <1>2, <2>1 DEF Inmemory_getEventsSince, Inmemory_getEvents, Reading, Filters, Cuts,
                      LastOnly, Pages
<1>3. CASE q.op = "getUndispatchedEvents"
  <2>1. Plan(q) = Inmemory_getUndispatchedEvents(q)
    BY <1>3 DEF Plan, GetUndispatchedEvents
  <2>. QED
    BY <1>3, <2>1 DEF Inmemory_getUndispatchedEvents, Reading, Filters, Cuts, LastOnly, Pages
<1>4. CASE q.op = "getLastEvent"
  <2>1. Plan(q) = Inmemory_getLastEvent(q)
    BY <1>4 DEF Plan, GetLastEvent
  <2>. QED
    BY <1>4, <2>1 DEF Inmemory_getLastEvent, Reading, Filters, Cuts, LastOnly, Pages
<1>. QED
  BY <1>1, <1>2, <1>3, <1>4, Query

\* The plans of elasticsearch.
LEMMA ElasticsearchPlans ==
  ASSUME StoreAssumption, driver = "elasticsearch", NEW q \in Queries
  PROVE  /\ Filters(q)
         /\ Plan(q).pages = "one" /\ Plan(q).sort = ByTime
         /\ Plan(q).skip = IF Pages(q) THEN q.skip ELSE 0
         /\ Plan(q).take = CASE q.op = "getLastEvent" -> -1
                             [] Pages(q) /\ q.limit # -1 -> q.limit
                             [] OTHER -> MaxHits - Plan(q).skip
<1>1. CASE q.op = "getEvents"
  <2>1. Plan(q) = Elasticsearch_getEvents(q)
    BY <1>1 DEF Plan, GetEvents
  <2>. QED
    BY <1>1, <2>1 DEF Elasticsearch_getEvents, Elasticsearch_search, Elasticsearch_buildQuery,
                      Reading, Filters, LastOnly, Pages
<1>2. CASE q.op = "getEventsSince"
  <2>1. Plan(q) = Elasticsearch_getEventsSince(q)
    BY <1>2 DEF Plan, GetEventsSince
  <2>. QED
    BY <1>2, <2>1 DEF Elasticsearch_getEventsSince, Elasticsearch_search,
                      Elasticsearch_buildQuery, Reading, Filters, LastOnly, Pages
<1>3. CASE q.op = "getEventsByRevision"
  <2>1. Plan(q) = Elasticsearch_getEventsByRevision(q)
    BY <1>3 DEF Plan, GetEventsByRevision
  <2>. QED
    BY <1>3, <2>1 DEF Elasticsearch_getEventsByRevision, Elasticsearch_search,
                      Elasticsearch_buildQuery, Reading, Filters, LastOnly, Pages
<1>4. CASE q.op = "getUndispatchedEvents"
  <2>1. Plan(q) = Elasticsearch_getUndispatchedEvents(q)
    BY <1>4 DEF Plan, GetUndispatchedEvents
  <2>. QED
    BY <1>4, <2>1 DEF Elasticsearch_getUndispatchedEvents, Elasticsearch_search,
                      Elasticsearch_buildQuery, Reading, Filters, LastOnly, Pages
<1>5. CASE q.op = "getLastEvent"
  <2>1. Plan(q) = Elasticsearch_getLastEvent(q)
    BY <1>5 DEF Plan, GetLastEvent
  <2>. QED
    BY <1>5, <2>1 DEF Elasticsearch_getLastEvent, Reading, Filters, LastOnly, Pages
<1>. QED
  BY <1>1, <1>2, <1>3, <1>4, <1>5, Query

\* The plans of redis.
LEMMA RedisPlans ==
  ASSUME StoreAssumption, driver = "redis", NEW q \in Queries, q.op # "getEventsByRevision"
  PROVE  /\ Filters(q) /\ Cuts(q)
         /\ Plan(q).pages = "scan"
         /\ Plan(q).sort = IF q.op = "getUndispatchedEvents" THEN <<"stamp", "seqText">>
                                                            ELSE <<"stamp", "seqText", "id">>
<1>1. CASE q.op = "getEvents"
  <2>1. Plan(q) = Redis_getEvents(q)
    BY <1>1 DEF Plan, GetEvents
  <2>. QED
    BY <1>1, <2>1 DEF Redis_getEvents, Redis_scan, Reading, Filters, Cuts, LastOnly, Pages
<1>2. CASE q.op = "getEventsSince"
  <2>1. Plan(q) = Redis_getEventsSince(q)
    BY <1>2 DEF Plan, GetEventsSince
  <2>. QED
    BY <1>2, <2>1 DEF Redis_getEventsSince, Redis_scan, Reading, Filters, Cuts, LastOnly, Pages
<1>3. CASE q.op = "getUndispatchedEvents"
  <2>1. Plan(q) = Redis_getUndispatchedEvents(q)
    BY <1>3 DEF Plan, GetUndispatchedEvents
  <2>. QED
    BY <1>3, <2>1 DEF Redis_getUndispatchedEvents, Redis_scan, Reading, Filters, Cuts, LastOnly,
                      Pages
<1>4. CASE q.op = "getLastEvent"
  <2>1. Plan(q) = Redis_getLastEvent(q)
    BY <1>4 DEF Plan, GetLastEvent
  <2>. QED
    BY <1>4, <2>1 DEF Redis_getLastEvent, Redis_scan, Reading, Filters, Cuts, LastOnly, Pages
<1>. QED
  BY <1>1, <1>2, <1>3, <1>4, Query

\* A read by revision that takes a slice of the array of all events.
Slices(q) ==
  /\ Plan(q).from = "events" /\ ~Plan(q).last
  /\ Plan(q).lo = 0 /\ Plan(q).hi = -1 /\ Plan(q).since = 0
  /\ Plan(q).skip = q.lo /\ Plan(q).take = Reach(q.lo, q.hi)

LEMMA SlicePlans ==
  ASSUME StoreAssumption, driver \in {"inmemory", "redis"}, NEW q \in Queries,
         q.op = "getEventsByRevision"
  PROVE  /\ Slices(q)
         /\ driver = "inmemory" => Plan(q).pages = "one" /\ Plan(q).sort = <<>>
         /\ driver = "redis" => Plan(q).pages = "scan" /\ Plan(q).sort = <<"stamp", "seqText", "id">>
<1>1. CASE driver = "inmemory"
  <2>1. Plan(q) = Inmemory_getEventsByRevision(q)
    BY <1>1 DEF Plan, GetEventsByRevision
  <2>. QED
    BY <1>1, <2>1 DEF Inmemory_getEventsByRevision, Reading, Slices, Reach
<1>2. CASE driver = "redis"
  <2>1. Plan(q) = Redis_getEventsByRevision(q)
    BY <1>2 DEF Plan, GetEventsByRevision
  <2>. QED
    BY <1>2, <2>1 DEF Redis_getEventsByRevision, Redis_scan, Reading, Slices, Reach
<1>. QED
  BY <1>1, <1>2

LEMMA MinOfTwo ==
  ASSUME NEW a \in Int, NEW b \in Int
  PROVE  Min({a, b}) = IF a < b THEN a ELSE b
<1>1. \A m \in {a, b} : (\A x \in {a, b} : m <= x) => m = IF a < b THEN a ELSE b
  OBVIOUS
<1>2. \E m \in {a, b} : \A x \in {a, b} : m <= x
  OBVIOUS
<1>. QED
  BY <1>1, <1>2 DEF Min

\* The pages of a read: how many events they have, and when they are enough.
Paging(q) ==
  /\ Plan(q).pages = "keys"
  /\ Plan(q).size \in Nat /\ Plan(q).enough \in Nat
  /\ Plan(q).enough # 0 => Plan(q).size # 0
  /\ ~Windowed(q) => Plan(q).enough = All
  /\ Windowed(q) /\ q.limit # -1 => Plan(q).enough = q.skip + q.limit
Keyed(q, key, sort) == Plan(q).key = key /\ Plan(q).sort = sort

LEMMA PageSizes ==
  ASSUME StoreAssumption, NEW q \in Queries, NEW pageSize, pageSize = q.skip + q.limit
  PROVE  /\ pageSize \in Nat \cup {-1} /\ All \in Nat /\ PageSize \in Nat \ {0}
         /\ q.limit # -1 => /\ Min({PageSize, pageSize}) \in Nat /\ pageSize \in Nat
                            /\ pageSize # 0 => Min({PageSize, pageSize}) # 0
<1>1. /\ q.skip \in Nat /\ q.limit \in Nat \cup {-1} /\ MaxDocs \in Nat
      /\ PageSize \in Nat \ {0}
  BY DEF Parameters
<1>2. pageSize \in Nat \cup {-1} /\ All \in Nat /\ (q.limit # -1 => pageSize \in Nat)
  BY <1>1 DEF All
<1>3. Min({PageSize, pageSize}) = IF PageSize < pageSize THEN PageSize ELSE pageSize
  BY <1>1, <1>2, MinOfTwo
<1>. QED
  BY <1>1, <1>2, <1>3

LEMMA NotWindowed ==
  ASSUME NEW q \in Queries, q.op \notin {"getEvents", "getEventsSince"}
  PROVE  ~Windowed(q)
BY DEF Windowed

\* The plans of dynamodb.
LEMMA DynamodbPlans ==
  ASSUME StoreAssumption, driver = "dynamodb", NEW q \in Queries, Plan(q).from # "nowhere"
  PROVE  /\ Paging(q) /\ Cuts(q)
         /\ q.op # "getEventsByRevision" => Filters(q)
         /\ q.op = "getEvents" => Keyed(q, <<"rev">>, <<"stamp", "revText">>)
         /\ q.op \in {"getEventsSince", "getEventsByRevision"} => Keyed(q, <<"rev">>, ByStamp)
         /\ q.op = "getLastEvent" => Keyed(q, <<"rev">>, <<"stamp", "revText", "seqText">>)
         /\ q.op = "getUndispatchedEvents" => Keyed(q, ById, <<"stamp", "id", "seqText">>)
<1>. DEFINE pageSize == q.skip + q.limit
<1>1. /\ pageSize \in Nat \cup {-1} /\ All \in Nat /\ PageSize \in Nat \ {0}
      /\ q.limit # -1 => /\ Min({PageSize, pageSize}) \in Nat /\ pageSize \in Nat
                         /\ pageSize # 0 => Min({PageSize, pageSize}) # 0
  BY PageSizes
<1>2. CASE q.op = "getEvents"
  <2>1. Plan(q) = Dynamodb_getEvents(q)
    BY <1>2 DEF Plan, GetEvents
  <2>2. Filters(q) /\ Cuts(q) /\ Keyed(q, <<"rev">>, <<"stamp", "revText">>)
    BY <1>2, <2>1 DEF Dynamodb_getEvents, Dynamodb_paging, Reading, Filters, Cuts, LastOnly,
                      Pages, Keyed
  <2>3. /\ Plan(q).pages = "keys"
        /\ Plan(q).size = IF q.limit # -1 THEN Min({PageSize, pageSize}) ELSE PageSize
        /\ Plan(q).enough = IF pageSize = -1 THEN All ELSE pageSize
    BY <2>1 DEF Dynamodb_getEvents, Dynamodb_paging, Reading
  <2>4. Paging(q)
    BY <1>1, <1>2, <2>3 DEF Paging, Windowed
  <2>. QED
    BY <1>2, <2>2, <2>4
<1>3. CASE q.op = "getEventsSince"
  <2>1. Plan(q) = Dynamodb_getEventsSince(q)
    BY <1>3 DEF Plan, GetEventsSince
  <2>2. Filters(q) /\ Cuts(q) /\ Keyed(q, <<"rev">>, ByStamp)
    BY <1>3, <2>1 DEF Dynamodb_getEventsSince, Dynamodb_paging, Reading, Filters, Cuts, LastOnly,
                      Pages, Keyed
  <2>3. /\ Plan(q).pages = "keys"
        /\ Plan(q).size = IF q.limit # -1 THEN Min({PageSize, pageSize}) ELSE PageSize
        /\ Plan(q).enough = IF pageSize = -1 THEN All ELSE pageSize
    BY <2>1 DEF Dynamodb_getEventsSince, Dynamodb_paging, Reading
  <2>4. Paging(q)
    BY <1>1, <1>3, <2>3 DEF Paging, Windowed
  <2>. QED
    BY <1>3, <2>2, <2>4
<1>4. CASE q.op = "getEventsByRevision"
  <2>1. Plan(q) = Dynamodb_getEventsByRevision(q)
    BY <1>4 DEF Plan, GetEventsByRevision
  <2>2. Cuts(q) /\ Keyed(q, <<"rev">>, ByStamp)
    BY <1>4, <2>1 DEF Dynamodb_getEventsByRevision, Reading, Cuts, Pages, Keyed
  <2>3. Plan(q).pages = "keys" /\ Plan(q).size = PageSize /\ Plan(q).enough = All
    BY <2>1 DEF Dynamodb_getEventsByRevision, Reading, All
  <2>4. Paging(q)
    BY <1>1, <1>4, <2>3, NotWindowed DEF Paging
  <2>. QED
    BY <1>4, <2>2, <2>4
<1>5. CASE q.op = "getUndispatchedEvents"
  <2>1. Plan(q) = Dynamodb_getUndispatchedEvents(q)
    BY <1>5 DEF Plan, GetUndispatchedEvents
  <2>2. Filters(q) /\ Cuts(q) /\ Keyed(q, ById, <<"stamp", "id", "seqText">>)
    BY <1>5, <2>1 DEF Dynamodb_getUndispatchedEvents, Reading, Filters, Cuts, LastOnly, Pages, Keyed
  <2>3. Plan(q).pages = "keys" /\ Plan(q).size = PageSize /\ Plan(q).enough = All
    BY <2>1 DEF Dynamodb_getUndispatchedEvents, Reading, All
  <2>4. Paging(q)
    BY <1>1, <1>5, <2>3, NotWindowed DEF Paging
  <2>. QED
    BY <1>5, <2>2, <2>4
<1>6. CASE q.op = "getLastEvent"
  <2>1. Plan(q) = Dynamodb_getLastEvent(q)
    BY <1>6 DEF Plan, GetLastEvent
  <2>2. Filters(q) /\ Cuts(q) /\ Keyed(q, <<"rev">>, <<"stamp", "revText", "seqText">>)
    BY <1>6, <2>1 DEF Dynamodb_getLastEvent, Reading, Filters, Cuts, LastOnly, Pages, Keyed
  <2>3. Plan(q).pages = "keys" /\ Plan(q).size = PageSize /\ Plan(q).enough = All
    BY <2>1 DEF Dynamodb_getLastEvent, Reading, All
  <2>4. Paging(q)
    BY <1>1, <1>6, <2>3, NotWindowed DEF Paging
  <2>. QED
    BY <1>6, <2>2, <2>4
<1>. QED
  BY <1>2, <1>3, <1>4, <1>5, <1>6, Query

\* The plans of azuretable.
LEMMA AzuretablePlans ==
  ASSUME StoreAssumption, driver = "azuretable", NEW q \in Queries
  PROVE  /\ Paging(q) /\ Cuts(q) /\ Filters(q)
         /\ q.op # "getLastEvent" => Keyed(q, ById, ByStamp)
         /\ q.op = "getLastEvent" => Keyed(q, ById, <<"stamp", "revText", "seqText">>)
<1>. DEFINE pageSize == q.skip + q.limit
<1>1. /\ pageSize \in Nat \cup {-1} /\ All \in Nat /\ PageSize \in Nat \ {0}
      /\ q.limit # -1 => /\ Min({PageSize, pageSize}) \in Nat /\ pageSize \in Nat
                         /\ pageSize # 0 => Min({PageSize, pageSize}) # 0
  BY PageSizes
<1>2. CASE q.op = "getEvents"
  <2>1. Plan(q) = Azuretable_getEvents(q)
    BY <1>2 DEF Plan, GetEvents
  <2>2. Filters(q) /\ Cuts(q) /\ Keyed(q, ById, ByStamp)
    BY <1>2, <2>1 DEF Azuretable_getEvents, Azuretable_paging, Reading, Filters, Cuts, LastOnly,
                      Pages, Keyed
  <2>3. /\ Plan(q).pages = "keys"
        /\ Plan(q).size = IF q.limit # -1 THEN Min({PageSize, pageSize}) ELSE PageSize
        /\ Plan(q).enough = IF pageSize = -1 THEN All ELSE pageSize
    BY <2>1 DEF Azuretable_getEvents, Azuretable_paging, Reading
  <2>4. Paging(q)
    BY <1>1, <1>2, <2>3 DEF Paging, Windowed
  <2>. QED
    BY <1>2, <2>2, <2>4
<1>3. CASE q.op = "getEventsSince"
  <2>1. Plan(q) = Azuretable_getEventsSince(q)
    BY <1>3 DEF Plan, GetEventsSince
  <2>2. Filters(q) /\ Cuts(q) /\ Keyed(q, ById, ByStamp)
    BY <1>3, <2>1 DEF Azuretable_getEventsSince, Azuretable_paging, Reading, Filters, Cuts,
                      LastOnly, Pages, Keyed
  <2>3. /\ Plan(q).pages = "keys"
        /\ Plan(q).size = PageSize
        /\ Plan(q).enough = IF pageSize = -1 THEN All ELSE pageSize
    BY <2>1 DEF Azuretable_getEventsSince, Azuretable_paging, Reading
  <2>4. Paging(q)
    BY <1>1, <1>3, <2>3 DEF Paging, Windowed
  <2>. QED
    BY <1>3, <2>2, <2>4
<1>4. CASE q.op = "getEventsByRevision"
  <2>1. Plan(q) = Azuretable_getEventsByRevision(q)
    BY <1>4 DEF Plan, GetEventsByRevision
  <2>2. Filters(q) /\ Cuts(q) /\ Keyed(q, ById, ByStamp)
    BY <1>4, <2>1 DEF Azuretable_getEventsByRevision, Reading, Filters, Cuts, LastOnly, Pages, Keyed
  <2>3. Plan(q).pages = "keys" /\ Plan(q).size = PageSize /\ Plan(q).enough = All
    BY <2>1 DEF Azuretable_getEventsByRevision, Reading, All
  <2>4. Paging(q)
    BY <1>1, <1>4, <2>3, NotWindowed DEF Paging
  <2>. QED
    BY <1>4, <2>2, <2>4
<1>5. CASE q.op = "getUndispatchedEvents"
  <2>1. Plan(q) = Azuretable_getUndispatchedEvents(q)
    BY <1>5 DEF Plan, GetUndispatchedEvents
  <2>2. Filters(q) /\ Cuts(q) /\ Keyed(q, ById, ByStamp)
    BY <1>5, <2>1 DEF Azuretable_getUndispatchedEvents, Reading, Filters, Cuts, LastOnly, Pages,
                      Keyed
  <2>3. Plan(q).pages = "keys" /\ Plan(q).size = PageSize /\ Plan(q).enough = All
    BY <2>1 DEF Azuretable_getUndispatchedEvents, Reading, All
  <2>4. Paging(q)
    BY <1>1, <1>5, <2>3, NotWindowed DEF Paging
  <2>. QED
    BY <1>5, <2>2, <2>4
<1>6. CASE q.op = "getLastEvent"
  <2>1. Plan(q) = Azuretable_getLastEvent(q)
    BY <1>6 DEF Plan, GetLastEvent
  <2>2. Filters(q) /\ Cuts(q) /\ Keyed(q, ById, <<"stamp", "revText", "seqText">>)
    BY <1>6, <2>1 DEF Azuretable_getLastEvent, Reading, Filters, Cuts, LastOnly, Pages, Keyed
  <2>3. Plan(q).pages = "keys" /\ Plan(q).size = PageSize /\ Plan(q).enough = All
    BY <2>1 DEF Azuretable_getLastEvent, Reading, All
  <2>4. Paging(q)
    BY <1>1, <1>6, <2>3, NotWindowed DEF Paging
  <2>. QED
    BY <1>6, <2>2, <2>4
<1>. QED
  BY <1>2, <1>3, <1>4, <1>5, <1>6, Query

-----------------------------------------------------------------------------
(* Each driver's answer is what was promised *)

\* What a reader collects that gets the rows in the order they were stored.
LEMMA CollectedPlain ==
  ASSUME StoreAssumption, events \in Seq(Document), NEW q, NEW none \in Seq(Key), none = <<>>
  PROVE  Selected(Plan(q), Listed(Plan(q).from)) = Arranged(events, Held(q), none)
<1>1. PICK from : from = Plan(q).from
  OBVIOUS
<1>2. Listed(from) \in Seq(Document)
  BY NoOrder, RowsAre
<1>3. Sorted(Listed(from), none) = Listed(from)
  BY <1>2, ChosenAll DEF Sorted, Chosen
<1>4. Keep(Listed(from), Wanted(q)) = Arranged(events, Held(q), none)
  BY <1>1, <1>3, CollectedIs
<1>5. Selected(Plan(q), Listed(from)) = Keep(Listed(from), Wanted(q))
  BY <1>2, SelectedIs
<1>. QED
  BY <1>1, <1>4, <1>5

\* A selection is no longer than the store.
LEMMA NoMore ==
  ASSUME StoreAssumption, events \in Seq(Document), NEW o \in Seq(Key),
         NEW I \in SUBSET DOMAIN events
  PROVE  Len(Arranged(events, I, o)) <= Len(events) /\ Len(Arranged(events, I, o)) \in Nat
<1>1. PICK n \in Nat : n = Len(events)
  OBVIOUS
<1>2. I \subseteq 1 .. n
  BY <1>1
<1>3. Cardinality(1 .. n) = n /\ IsFiniteSet(1 .. n)
  BY CountTo
<1>4. Cardinality(I) <= n
  BY <1>2, <1>3, FS_Subset
<1>5. Len(Arranged(events, I, o)) = Cardinality(I) /\ Cardinality(I) \in Nat
  BY ArrangedType
<1>. QED
  BY <1>1, <1>4, <1>5

\* What a driver answers whose plan filters as asked.
LEMMA FilteredAgrees ==
  ASSUME StoreAssumption, events \in Seq(Document), NEW q \in Queries, Filters(q),
         CutAs(q, Ordered(Asked(q))),
         NEW key \in Seq(Key), NEW sort \in Seq(Key), sort = Plan(q).sort,
         Refines(events, At(Asked(q)), key, sort, ByTime),
         NEW found, found = Arranged(events, Held(q), key), NEW version,
         Answered(q, found, version).ok
  PROVE  Answered(q, found, version).docs = Promised(q)
<1>1. found = Arranged(events, At(Asked(q)), key)
  BY HeldIs
<1>2. LastOnly(q)
  BY DEF Filters
<1>3. PICK I : I = At(Asked(q))
  OBVIOUS
<1>4. Refines(events, I, key, sort, ByTime) /\ found = Arranged(events, I, key)
  BY <1>1, <1>3
<1>. QED
  BY <1>2, <1>3, <1>4, Agreed

\* Each driver that reads all at once answers with what was promised.
LEMMA MongodbAgrees ==
  ASSUME StoreAssumption, events \in Seq(Document), driver \in {"mongodb", "tingodb"},
         NEW q \in Queries,
         NEW found, found = Selected(Plan(q), Listed(Plan(q).from)), NEW version,
         Answered(q, found, version).ok
  PROVE  Answered(q, found, version).docs = Promised(q)
<1>1. Filters(q) /\ Cuts(q) /\ Plan(q).sort = ByTime
  BY MongodbPlans, TingodbPlans
<1>2. PICK none \in Seq(Key) : none = <<>>
  BY NoOrder
<1>3. Refines(events, At(Asked(q)), none, ByTime, ByTime)
  BY <1>2, PlainOrders
<1>4. CutAs(q, Ordered(Asked(q)))
  BY <1>1, OrderedIs, CutsAs
<1>5. found = Arranged(events, Held(q), none)
  BY <1>2, CollectedPlain
<1>. QED
  BY <1>1, <1>3, <1>4, <1>5, NoOrder, FilteredAgrees

\* A read by revision that takes a slice of an array without gaps.
LEMMA SliceAgrees ==
  ASSUME StoreAssumption, events \in Seq(Document), NEW q \in Queries,
         q.op = "getEventsByRevision", Slices(q), Contiguous,
         NEW none \in Seq(Key), NEW sort \in Seq(Key), sort = Plan(q).sort,
         Refines(events, At(Document), none, sort, ByTime),
         NEW found, found = Arranged(events, Held(q), none), NEW version,
         Answered(q, found, version).ok
  PROVE  Answered(q, found, version).docs = Promised(q)
<1>1. \A d \in Document : d.rev \in Nat /\ d.stamp \in Nat
  BY DEF Document
<1>2. Held(q) = At(Document)
  <2>1. \A d \in Document : Wants(Plan(q), d)
    BY <1>1 DEF Slices, Wants
  <2>2. Source(Plan(q).from) \cap Wanted(q) = Document
    BY <2>1 DEF Wanted, Slices, Source
  <2>. QED
    BY <2>2 DEF Held
<1>3. found = Arranged(events, At(Document), none)
  BY <1>2
<1>4. PICK I \in SUBSET DOMAIN events : I = At(Document)
  BY AtAll
<1>5. Sorted(found, sort) = Arranged(events, I, ByTime)
  <2>1. Refines(events, I, none, sort, ByTime) /\ found = Arranged(events, I, none)
    BY <1>3, <1>4
  <2>2. ByTime \in Seq(Key)
    BY NoOrder
  <2>. QED
    BY <2>1, <2>2, SortArranged
<1>6. Sorted(found, Plan(q).sort) = TimeOrder
  BY <1>4, <1>5, OrderedIs DEF Ordered
<1>7. FromZero(TimeOrder)
  <2>1. TimeOrder \in Seq(Document) /\ Len(TimeOrder) = Len(events)
    BY NoOrder, SortedType DEF TimeOrder
  <2>. QED
    BY <2>1 DEF FromZero, Contiguous
<1>8. Keep(TimeOrder, Between(q.lo, q.hi)) = Slice(TimeOrder, q.lo, Reach(q.lo, q.hi))
  <2>1. q.lo \in Nat /\ q.hi \in Nat \cup {-1}
    BY Query
  <2>. QED
    BY <1>7, <2>1, RevisionSlice
<1>9. Promised(q) = Keep(TimeOrder, Between(q.lo, q.hi))
  <2>1. Asked(q) = Between(q.lo, q.hi)
        /\ Cut(Ordered(Between(q.lo, q.hi)), q) = Ordered(Between(q.lo, q.hi))
    BY DEF Asked, Cut, Pages
  <2>. QED
    BY <2>1, PromisedIs, OrderedIs
<1>10. Answered(q, found, version).docs = Slice(TimeOrder, q.lo, Reach(q.lo, q.hi))
  BY <1>6 DEF Answered, Slices
<1>. QED
  BY <1>8, <1>9, <1>10

LEMMA InmemoryAgrees ==
  ASSUME StoreAssumption, events \in Seq(Document), driver = "inmemory", NEW q \in Queries,
         Regular(q),
         NEW found, found = Selected(Plan(q), Listed(Plan(q).from)), NEW version,
         Answered(q, found, version).ok
  PROVE  Answered(q, found, version).docs = Promised(q)
<1>1. events = TimeOrder /\ (q.op = "getEventsByRevision" => Contiguous)
  BY DEF Regular
<1>2. PICK none \in Seq(Key) : none = <<>>
  BY NoOrder
<1>3. ASSUME NEW D
      PROVE  Refines(events, At(D), none, ByStamp, ByTime) /\ Refines(events, At(D), none, none, ByTime)
  BY <1>1, <1>2, AtAll, InmemoryOrder
<1>4. found = Arranged(events, Held(q), none)
  BY <1>2, CollectedPlain
<1>5. CASE q.op = "getEventsByRevision"
  <2>1. Slices(q) /\ Plan(q).sort = none
    BY <1>2, <1>5, SlicePlans
  <2>. QED
    BY <1>1, <1>3, <1>5, <1>4, <2>1, SliceAgrees
<1>6. CASE q.op # "getEventsByRevision"
  <2>1. Filters(q) /\ Cuts(q) /\ Plan(q).sort = ByStamp
    BY <1>6, InmemoryPlans
  <2>2. CutAs(q, Ordered(Asked(q)))
    BY <2>1, OrderedIs, CutsAs
  <2>. QED
    BY <1>3, <1>4, <2>1, <2>2, NoOrder, FilteredAgrees
<1>. QED
  BY <1>5, <1>6

LEMMA ElasticsearchAgrees ==
  ASSUME StoreAssumption, events \in Seq(Document), driver = "elasticsearch", NEW q \in Queries,
         Regular(q),
         NEW found, found = Selected(Plan(q), Listed(Plan(q).from)), NEW version,
         Answered(q, found, version).ok
  PROVE  Answered(q, found, version).docs = Promised(q)
<1>1. Filters(q) /\ Plan(q).sort = ByTime
      /\ Plan(q).skip = (IF Pages(q) THEN q.skip ELSE 0)
      /\ Plan(q).take = CASE q.op = "getLastEvent" -> -1
                          [] Pages(q) /\ q.limit # -1 -> q.limit
                          [] OTHER -> MaxHits - Plan(q).skip
  BY ElasticsearchPlans
<1>2. PICK none \in Seq(Key) : none = <<>>
  BY NoOrder
<1>3. Refines(events, At(Asked(q)), none, ByTime, ByTime)
  BY <1>2, PlainOrders
<1>4. PICK s \in Seq(Document) : s = Ordered(Asked(q))
  BY OrderedIs
<1>5. PICK n \in Nat : n = Len(s)
  OBVIOUS
<1>6. n < MaxHits
  <2>1. Len(events) < MaxHits /\ Len(events) \in Nat /\ MaxHits \in Nat
    BY DEF Regular, Parameters
  <2>2. Len(s) <= Len(events)
    BY <1>4, NoOrder, AtAll, NoMore DEF Ordered
  <2>. QED
    BY <1>5, <2>1, <2>2
<1>7. ASSUME NEW k \in Nat
      PROVE  Slice(s, k, MaxHits - k) = Slice(s, k, -1)
  BY <1>5, <1>6, SliceHits
<1>8. found = Arranged(events, Held(q), none)
  BY <1>2, CollectedPlain
<1>9. CutAs(q, s)
  <2>1. CASE q.op = "getLastEvent"
    BY <1>1, <2>1, SliceAll DEF CutAs, Pages
  <2>2. CASE Pages(q) /\ q.limit # -1
    BY <1>1, <2>2 DEF CutAs, Pages
  <2>3. CASE Pages(q) /\ q.limit = -1
    <3>1. Plan(q).skip = q.skip /\ Plan(q).take = MaxHits - q.skip
      BY <1>1, <2>3 DEF Pages
    <3>2. Slice(s, q.skip, MaxHits - q.skip) = Slice(s, q.skip, -1)
      BY <1>7, Query
    <3>. QED
      BY <2>3, <3>1, <3>2 DEF CutAs
  <2>4. CASE ~Pages(q) /\ q.op # "getLastEvent"
    <3>1. Plan(q).skip = 0 /\ Plan(q).take = MaxHits - 0
      BY <1>1, <2>4
    <3>2. Slice(s, 0, MaxHits - 0) = Slice(s, 0, -1)
      BY <1>7
    <3>. QED
      BY <2>4, <3>1, <3>2, SliceAll DEF CutAs
  <2>. QED
    BY <2>1, <2>2, <2>3, <2>4
<1>. QED
  BY <1>1, <1>3, <1>4, <1>9, <1>8, NoOrder, FilteredAgrees

LEMMA RedisAgrees ==
  ASSUME StoreAssumption, events \in Seq(Document), driver = "redis", Counting,
         NEW q \in Queries, Regular(q),
         NEW found, found = Selected(Plan(q), Listed(Plan(q).from)), NEW version,
         Answered(q, found, version).ok
  PROVE  Answered(q, found, version).docs = Promised(q)
<1>1. OneStampEach /\ ShortCommits /\ (q.op = "getEventsByRevision" => Contiguous)
  BY DEF Regular
<1>2. PICK none \in Seq(Key) : none = <<>>
  BY NoOrder
<1>3. PICK keys \in Seq(Key), listed \in Seq(Key) :
         keys = <<"stamp", "seqText", "id">> /\ listed = <<"stamp", "seqText">>
  <2>1. <<"stamp", "seqText", "id">> \in Seq(Key) /\ <<"stamp", "seqText">> \in Seq(Key)
    BY DEF Key
  <2>. QED
    BY <2>1
<1>4. ASSUME NEW D
      PROVE  Refines(events, At(D), none, keys, ByTime) /\ Refines(events, At(D), none, listed, ByTime)
  BY <1>1, <1>2, <1>3, AtAll, RedisOrder, RedisListOrder
<1>5. found = Arranged(events, Held(q), none)
  BY <1>2, CollectedPlain
<1>6. CASE q.op = "getEventsByRevision"
  <2>1. Slices(q) /\ Plan(q).sort = keys
    BY <1>3, <1>6, SlicePlans
  <2>. QED
    BY <1>1, <1>4, <1>5, <1>6, <2>1, SliceAgrees
<1>7. CASE q.op # "getEventsByRevision"
  <2>1. Filters(q) /\ Cuts(q)
        /\ Plan(q).sort = (IF q.op = "getUndispatchedEvents" THEN listed ELSE keys)
    BY <1>3, <1>7, RedisPlans
  <2>2. CutAs(q, Ordered(Asked(q)))
    BY <2>1, OrderedIs, CutsAs
  <2>3. CASE Plan(q).sort = keys
    BY <1>4, <1>5, <2>1, <2>2, <2>3, FilteredAgrees
  <2>4. CASE Plan(q).sort = listed
    BY <1>4, <1>5, <2>1, <2>2, <2>4, FilteredAgrees
  <2>. QED
    BY <2>1, <2>3, <2>4
<1>. QED
  BY <1>6, <1>7

-----------------------------------------------------------------------------
(* Reading page by page *)

\* A reader has the events it wants of the first m rows, and stands at the m-th.
Collects(q, rows, m, found) == found = Keep(Part(rows, 0, m), Wanted(q))
Stands(rows, m, cursor) == cursor = IF m = 0 THEN <<>> ELSE <<rows[m]>>
UniqueIds == \A x, y \in DOMAIN events : Id(events[x]) = Id(events[y]) => x = y

\* After a page it has those of the first end rows.
Moved(q, rows, n, m, size, rest, page, found) ==
  \E end \in 0 .. n :
    /\ Collects(q, rows, end, found)
    /\ Len(rest) = n - m
    /\ IF n - m > size THEN end = m + size /\ (size # 0 => end # 0 /\ page[Len(page)] = rows[end])
                       ELSE end = n

Joined(w, u, v) == w = u \o v

LEMMA KeepJoined ==
  ASSUME StoreAssumption, NEW s \in Seq(Document), NEW t \in Seq(Document), NEW w,
         Joined(w, s, t), NEW D
  PROVE  Joined(Keep(w, D), Keep(s, D), Keep(t, D))
BY KeepConcat DEF Joined

\* The rows behind the cursor.
Remaining(rows, key, cursor) ==
  IF cursor = <<>> THEN rows
  ELSE Chosen(rows, {i \in DOMAIN rows : Less(key, cursor[1], rows[i])})

LEMMA RemainingIs ==
  ASSUME StoreAssumption, NEW rows \in Seq(Document), NEW key, Strict(rows, key),
         NEW n \in Nat, n = Len(rows), NEW m \in Nat, m <= n,
         NEW cursor, Stands(rows, m, cursor)
  PROVE  Remaining(rows, key, cursor) = Part(rows, m, n)
<1>1. CASE m = 0
  BY <1>1, PartAll DEF Remaining, Stands
<1>2. CASE m # 0
  <2>1. m \in 1 .. n
    BY <1>2
  <2>2. cursor = <<rows[m]>> /\ cursor # <<>> /\ cursor[1] = rows[m]
    BY <1>2 DEF Stands
  <2>3. Remaining(rows, key, cursor) = Chosen(rows, {i \in DOMAIN rows : Less(key, rows[m], rows[i])})
    BY <2>2 DEF Remaining
  <2>. QED
    BY <2>1, <2>3, RestAfter
<1>. QED
  BY <1>1, <1>2



\* A page moves the reader on by its rows, and collects what the reader wants of them.
LEMMA PageMoves ==
  ASSUME StoreAssumption, NEW rows \in Seq(Document), NEW key, Strict(rows, key),
         NEW n \in Nat, n = Len(rows), NEW m \in Nat, m <= n,
         NEW cursor, Stands(rows, m, cursor), NEW q, NEW found, Collects(q, rows, m, found),
         NEW size \in Nat, NEW rest, rest = Remaining(rows, key, cursor),
         NEW page, page = Slice(rest, 0, size)
  PROVE  Moved(q, rows, n, m, size, rest, page, found \o Selected(Plan(q), page))
<1>1. rest = Part(rows, m, n)
  BY RemainingIs
<1>2. PICK end \in Nat : IF m + size > n THEN end = n ELSE end = m + size
  <2>1. m + size \in Nat
    OBVIOUS
  <2>. QED
    BY <2>1
<1>3. end <= n /\ m <= end
  BY <1>2
<1>4. Len(rest) = n - m /\ page = Part(rows, m, end)
  <2>1. PageEnds(end, m, size, n)
    BY <1>2 DEF PageEnds
  <2>2. Slice(Part(rows, m, n), 0, size) = Part(rows, m, end)
    BY <2>1, PageOfRest
  <2>3. IsPart(Part(rows, m, n), rows, m, n)
    BY PartIs
  <2>. QED
    BY <1>1, <2>2, <2>3 DEF IsPart
<1>5. IsPart(page, rows, m, end)
  BY <1>4, <1>3, PartIs
<1>6. page \in Seq(Document) /\ Len(page) = end - m
      /\ \A k \in 1 .. end - m : page[k] = rows[m + k]
  BY <1>5 DEF IsPart
<1>7. Collects(q, rows, end, found \o Selected(Plan(q), page))
  <2>1. Selected(Plan(q), page) = Keep(page, Wanted(q))
    BY <1>6, SelectedIs
  <2>2. Part(rows, 0, m) \o Part(rows, m, end) = Part(rows, 0, end)
    <3>1. 0 \in Nat /\ 0 <= m
      OBVIOUS
    <3>. QED
      BY <1>3, <3>1, PartsJoin
  <2>3. IsPart(Part(rows, 0, m), rows, 0, m)
    BY PartIs
  <2>4. PICK a \in Seq(Document) : a = Part(rows, 0, m)
    BY <2>3 DEF IsPart
  <2>5. PICK b \in Seq(Document) : b = page
    BY <1>6
  <2>6. Joined(Part(rows, 0, end), a, b)
    BY <1>4, <2>2, <2>4, <2>5 DEF Joined
  <2>7. Joined(Keep(Part(rows, 0, end), Wanted(q)), Keep(a, Wanted(q)), Keep(b, Wanted(q)))
    BY <2>6, KeepJoined
  <2>. QED
    BY <2>1, <2>4, <2>7, <2>5 DEF Collects, Joined
<1>8. n - m > size => end = m + size /\ (size # 0 => end # 0 /\ page[Len(page)] = rows[end])
  <2>1. SUFFICES ASSUME n - m > size
                 PROVE  end = m + size /\ (size # 0 => end # 0 /\ page[Len(page)] = rows[end])
    OBVIOUS
  <2>2. end = m + size /\ end - m = size
    BY <1>2, <2>1
  <2>3. size # 0 => size \in 1 .. end - m
    BY <2>2
  <2>4. size # 0 => page[size] = rows[m + size]
    BY <1>6, <2>3
  <2>. QED
    BY <1>6, <2>2, <2>4
<1>9. ~(n - m > size) => end = n
  BY <1>2
<1>10. end \in 0 .. n
  BY <1>3
<1>. QED
  BY <1>4, <1>7, <1>8, <1>9, <1>10 DEF Moved

\* The rows of a paged driver are in a strict order of their key.
LEMMA RowsStrict ==
  ASSUME StoreAssumption, events \in Seq(Document), NEW key \in Seq(Key),
         Untied(events, DOMAIN events, key), NEW from, NEW rows, rows = Sorted(Listed(from), key)
  PROVE  Strict(rows, key)
<1>1. PICK I \in SUBSET DOMAIN events : I = At(Source(from))
  BY AtAll
<1>2. Untied(events, I, key)
  BY DEF Untied
<1>3. rows = Arranged(events, I, key)
  BY <1>1, RowsAre
<1>. QED
  BY <1>2, <1>3, ArrangedStrict

LEMMA RevisionUntied ==
  ASSUME StoreAssumption, events \in Seq(Document), UniqueRevs
  PROVE  Untied(events, DOMAIN events, <<"rev">>)
<1>. SUFFICES ASSUME NEW x \in DOMAIN events, NEW y \in DOMAIN events, x # y
              PROVE  Less(<<"rev">>, events[x], events[y]) \/ Less(<<"rev">>, events[y], events[x])
  BY DEF Untied
<1>1. events[x].rev # events[y].rev
  BY DEF UniqueRevs
<1>2. events[x].rev \in Nat /\ events[y].rev \in Nat
  BY EventIs
<1>. QED
  BY <1>1, <1>2, OrdersAre

LEMMA IdUntied ==
  ASSUME StoreAssumption, events \in Seq(Document), UniqueIds
  PROVE  Untied(events, DOMAIN events, ById)
<1>. SUFFICES ASSUME NEW x \in DOMAIN events, NEW y \in DOMAIN events, x # y
              PROVE  Less(ById, events[x], events[y]) \/ Less(ById, events[y], events[x])
  BY DEF Untied
<1>1. events[x].commit # events[y].commit \/ events[x].seq # events[y].seq
  BY DEF UniqueIds, Id
<1>2. /\ events[x].commit \in Nat /\ events[y].commit \in Nat
      /\ events[x].seq \in Nat /\ events[y].seq \in Nat
  BY EventIs
<1>3. events[x].seq = events[y].seq \/ TextLess(events[x].seq, events[y].seq)
      \/ TextLess(events[y].seq, events[x].seq)
  BY <1>2, TextOrder
<1>. QED
  BY <1>1, <1>2, <1>3, OrdersAre

\* Without gaps the order of the revisions is the order of time.
LEMMA RowsInTime ==
  ASSUME StoreAssumption, events \in Seq(Document), Contiguous
  PROVE  Sorted(events, <<"rev">>) = TimeOrder /\ FromZero(TimeOrder)
<1>1. PICK n \in Nat : n = Len(events)
  OBVIOUS
<1>2. PICK I \in SUBSET DOMAIN events : I = DOMAIN events
  OBVIOUS
<1>3. PICK f : Enumerates(f, events, I, ByTime)
  BY NoOrder, HasEnumeration
<1>4. Cardinality(I) = n
  BY <1>1, <1>2, CountTo
<1>5. TimeOrder = [k \in 1 .. n |-> events[f[k]]]
  <2>1. Arranged(events, I, ByTime) = [k \in 1 .. n |-> events[f[k]]]
    BY <1>3, <1>4, NoOrder, ArrangedFits
  <2>. QED
    BY <1>2, <2>1 DEF TimeOrder, Sorted
<1>6. \A k \in 1 .. n : events[f[k]].rev = k - 1
  <2>1. \A k \in DOMAIN events : TimeOrder[k].rev = k - 1
    BY DEF Contiguous
  <2>2. DOMAIN events = 1 .. n
    BY <1>1
  <2>3. \A k \in 1 .. n : TimeOrder[k] = events[f[k]]
    BY <1>5
  <2>. QED
    BY <2>1, <2>2, <2>3
<1>7. \A k, l \in 1 .. n : f[k] \in I /\ (k < l => Precedes(events, ByTime, f[k], f[l]))
  BY <1>3, <1>4 DEF Enumerates
<1>8. \A x \in I : \E k \in 1 .. n : f[k] = x
  <2>1. Reaches(f, n, I)
    BY <1>3, <1>4, NoOrder, EnumerationReaches
  <2>. QED
    BY <2>1 DEF Reaches
<1>9. ASSUME NEW x \in I, NEW y \in I, Precedes(events, ByTime, x, y)
      PROVE  Precedes(events, <<"rev">>, x, y)
  <2>1. PICK k \in 1 .. n : f[k] = x
    BY <1>8
  <2>2. PICK l \in 1 .. n : f[l] = y
    BY <1>8
  <2>3. x \in DOMAIN events /\ y \in DOMAIN events
    BY <1>2
  <2>4. x # y /\ ~Precedes(events, ByTime, y, x)
    BY <1>9, <2>3, NoOrder, PrecedesOrder
  <2>5. k < l
    BY <1>7, <2>1, <2>2, <2>4
  <2>6. events[x].rev < events[y].rev
    BY <1>6, <2>1, <2>2, <2>5
  <2>7. Less(<<"rev">>, events[x], events[y])
    BY <2>6, OrdersAre
  <2>. QED
    BY <2>7 DEF Precedes
<1>10. PICK rev \in Seq(Key) : rev = <<"rev">>
  <2>1. <<"rev">> \in Seq(Key)
    BY DEF Key
  <2>. QED
    BY <2>1
<1>11. Arranged(events, I, ByTime) = Arranged(events, I, rev)
  <2>1. \A x, y \in I : Precedes(events, ByTime, x, y) => Precedes(events, rev, x, y)
    BY <1>9, <1>10
  <2>. QED
    BY <2>1, NoOrder, OrdersAgree
<1>12. FromZero(TimeOrder)
  <2>1. TimeOrder \in Seq(Document) /\ Len(TimeOrder) = Len(events)
    BY NoOrder, SortedType DEF TimeOrder
  <2>. QED
    BY <2>1 DEF FromZero, Contiguous
<1>. QED
  BY <1>2, <1>10, <1>11, <1>12 DEF TimeOrder, Sorted
Covers(u, skip, take) == skip + take <= Len(u)

LEMMA SliceOfJoined ==
  ASSUME NEW u \in Seq(Document), NEW v \in Seq(Document), NEW w, Joined(w, u, v),
         NEW skip \in Nat, NEW take \in Nat, Covers(u, skip, take)
  PROVE  Slice(w, skip, take) = Slice(u, skip, take)
BY SliceOfFirst DEF Joined, Covers

\* The first m rows in the order of the revisions are the revisions below m.
LEMMA PartByRevision ==
  ASSUME StoreAssumption, NEW T, FromZero(T), NEW n \in Nat, n = Len(T), NEW m \in Nat, m <= n
  PROVE  Part(T, 0, m) = Keep(T, Between(0, m))
<1>1. T \in Seq(Document)
  BY DEF FromZero
<1>2. PICK zero \in Nat, take \in Int : zero = 0 /\ take = m
  OBVIOUS
<1>3. Reach(0, m) = take
  <2>1. Max({0, m - 0}) = IF 0 < m - 0 THEN m - 0 ELSE 0
    <3>1. 0 \in Int /\ m - 0 \in Int
      OBVIOUS
    <3>. QED
      BY <3>1, MaxOfTwo
  <2>2. m # -1
    OBVIOUS
  <2>. QED
    BY <1>2, <2>1, <2>2 DEF Reach
<1>4. EndsAt(m, n, zero, take)
  BY <1>2 DEF EndsAt
<1>5. Slice(T, zero, take) = Part(T, zero, m)
  BY <1>1, <1>4, SliceIs
<1>6. Keep(T, Between(zero, m)) = Slice(T, zero, Reach(zero, m))
  <2>1. m \in Nat \cup {-1}
    OBVIOUS
  <2>. QED
    BY <2>1, RevisionSlice
<1>. QED
  BY <1>2, <1>3, <1>5, <1>6

UpTo(rows, m) == m <= Len(rows)
Limited(q) == q.limit # -1
InTimeRows(rows, key) == rows = Sorted(events, key) /\ rows = TimeOrder /\ FromZero(rows)
Sorts(q, sort) == Plan(q).sort = sort
RefinesAll(key, sort) ==
  \A I \in SUBSET DOMAIN events : Refines(events, I, key, sort, ByTime)

TwiceKept(s, rows, B, W) == s = Keep(Keep(rows, B), W)

LEMMA HeadAndTail ==
  ASSUME NEW rows \in Seq(Document), NEW n \in Nat, n = Len(rows), NEW m \in Nat, m <= n
  PROVE  Joined(rows, Part(rows, 0, m), Part(rows, m, n))
<1>1. PICK zero \in Nat, all \in Nat : zero = 0 /\ all = n
  OBVIOUS
<1>2. zero <= m /\ m <= all /\ all <= n
  BY <1>1
<1>3. Part(rows, zero, m) \o Part(rows, m, all) = Part(rows, zero, all)
  BY <1>2, PartsJoin
<1>4. Part(rows, 0, n) = rows
  BY PartAll
<1>. QED
  BY <1>1, <1>3, <1>4 DEF Joined

LEMMA KeptAndSorted ==
  ASSUME StoreAssumption, events \in Seq(Document), NEW B, NEW W,
         NEW key \in Seq(Key), NEW sort \in Seq(Key), RefinesAll(key, sort),
         NEW s, TwiceKept(s, Sorted(events, key), B, W), TwiceKept(s, TimeOrder, B, W)
  PROVE  Sorted(s, sort) = s
<1>1. PICK J \in SUBSET DOMAIN events : J = Within(events, At(B), W)
  BY AtAll DEF Within
<1>2. At(B) \in SUBSET DOMAIN events
  BY AtAll
<1>3. s = Arranged(events, J, key)
  <2>1. Keep(Sorted(events, key), B) = Arranged(events, At(B), key)
    BY KeepIs DEF At
  <2>2. PICK a : a = Keep(Sorted(events, key), B)
    OBVIOUS
  <2>3. Keep(a, W) = Arranged(events, Within(events, At(B), W), key)
    BY <1>2, <2>1, <2>2, KeepArranged
  <2>. QED
    BY <1>1, <2>2, <2>3 DEF TwiceKept
<1>4. s = Arranged(events, J, ByTime)
  <2>1. Keep(TimeOrder, B) = Arranged(events, At(B), ByTime)
    BY OrderedIs DEF Ordered
  <2>2. PICK a : a = Keep(TimeOrder, B)
    OBVIOUS
  <2>3. Keep(a, W) = Arranged(events, Within(events, At(B), W), ByTime)
    BY <1>2, <2>1, <2>2, NoOrder, KeepArranged
  <2>. QED
    BY <1>1, <2>2, <2>3 DEF TwiceKept
<1>5. Refines(events, J, key, sort, ByTime)
  BY DEF RefinesAll
<1>6. Sorted(s, sort) = Arranged(events, J, ByTime)
  BY <1>3, <1>5, NoOrder, SortArranged
<1>. QED
  BY <1>4, <1>6

\* dynamodb stops as soon as it has the events of the window that is asked for.
LEMMA PrefixAgrees ==
  ASSUME StoreAssumption, events \in Seq(Document), NEW q \in Queries, Filters(q), Cuts(q),
         Pages(q), Limited(q),
         NEW rev \in Seq(Key), NEW sort \in Seq(Key), Sorts(q, sort),
         RefinesAll(rev, sort),
         NEW rows, InTimeRows(rows, rev), NEW m \in Nat, UpTo(rows, m),
         NEW found, Collects(q, rows, m, found),
         Covers(found, q.skip, q.limit), NEW version, Answered(q, found, version).ok
  PROVE  Answered(q, found, version).docs = Promised(q)
<1>1. PICK n \in Nat : n = Len(rows) /\ m <= n
  BY DEF UpTo, InTimeRows, FromZero
<1>2. rows = TimeOrder /\ rows = Sorted(events, rev)
  BY DEF InTimeRows
<1>3. rows \in Seq(Document) /\ FromZero(rows)
  BY DEF InTimeRows, FromZero
<1>4. PICK B : B = Between(0, m)
  OBVIOUS
<1>5. PICK a \in Seq(Document) : a = Part(rows, 0, m)
  <2>1. Part(rows, 0, m) = Keep(rows, Between(0, m))
    BY <1>1, <1>3, PartByRevision
  <2>2. Keep(rows, Between(0, m)) \in Seq(Document)
    BY <1>3, KeepIs
  <2>. QED
    BY <2>1, <2>2
<1>6. a = Keep(rows, B)
  BY <1>1, <1>3, <1>4, <1>5, PartByRevision
<1>7. PICK W : W = Asked(q)
  OBVIOUS
<1>8. Wanted(q) = W
  <2>1. \A d \in Document : d.rev \in Nat /\ d.stamp \in Nat
    BY DEF Document
  <2>2. CASE q.op = "getEvents"
    BY <1>7, <2>1, <2>2 DEF Filters, Wanted, Wants, Asked
  <2>3. CASE q.op = "getEventsSince"
    <3>1. \A d \in Document : Wants(Plan(q), d) <=> d.stamp >= q.since
      BY <2>1, <2>3 DEF Filters, Wants
    <3>. QED
      BY <1>7, <2>3, <3>1 DEF Wanted, Asked, Since
  <2>. QED
    BY <2>2, <2>3 DEF Pages
<1>9. found = Keep(a, W)
  BY <1>5, <1>8 DEF Collects
<1>10. Sorted(found, sort) = found
  <2>1. TwiceKept(found, Sorted(events, rev), B, W) /\ TwiceKept(found, TimeOrder, B, W)
    BY <1>2, <1>6, <1>9 DEF TwiceKept
  <2>. QED
    BY <2>1, KeptAndSorted
<1>11. Plan(q).skip = q.skip /\ Plan(q).take = q.limit /\ LastOnly(q) /\ q.op # "getLastEvent"
  BY DEF Cuts, Filters, Pages
<1>12. Answered(q, found, version).docs = Slice(found, q.skip, q.limit)
  BY <1>10, <1>11 DEF Answered, LastOnly, Sorts
<1>13. Promised(q) = Slice(Keep(rows, W), q.skip, q.limit)
  <2>1. Cut(Ordered(W), q) = Slice(Ordered(W), q.skip, q.limit)
    BY DEF Cut, Pages
  <2>. QED
    BY <1>2, <1>7, <2>1, PromisedIs, OrderedIs
<1>14. PICK b \in Seq(Document) : b = Part(rows, m, n)
  <2>1. IsPart(Part(rows, m, n), rows, m, n)
    BY <1>1, <1>3, PartIs
  <2>. QED
    BY <2>1 DEF IsPart
<1>15. Joined(rows, a, b)
  <2>1. Joined(rows, Part(rows, 0, m), Part(rows, m, n))
    BY <1>1, <1>3, HeadAndTail
  <2>. QED
    BY <1>5, <1>14, <2>1 DEF Joined
<1>16. Joined(Keep(rows, W), Keep(a, W), Keep(b, W))
  BY <1>15, KeepJoined
<1>17. Keep(a, W) \in Seq(Document) /\ Keep(b, W) \in Seq(Document)
  BY KeepIs
<1>18. q.skip \in Nat /\ q.limit \in Nat
  BY Query DEF Limited
<1>19. Slice(Keep(rows, W), q.skip, q.limit) = Slice(Keep(a, W), q.skip, q.limit)
  BY <1>9, <1>16, <1>17, <1>18, SliceOfJoined
<1>. QED
  BY <1>9, <1>12, <1>13, <1>19

\* What a reader has collected when it stops asking for pages.
Enough(q, rows, n, found) ==
  \E m \in 0 .. n :
    /\ Collects(q, rows, m, found)
    /\ m = n \/ (Plan(q).enough <= Len(found) /\ ~OnePage(q))

LEMMA FoundFits ==
  ASSUME StoreAssumption, NEW rows \in Seq(Document), NEW n \in Nat, n = Len(rows),
         NEW m \in Nat, m <= n, NEW q, NEW found, Collects(q, rows, m, found)
  PROVE  Len(found) <= n /\ found \in Seq(Document)
<1>1. IsPart(Part(rows, 0, m), rows, 0, m)
  BY PartIs
<1>2. PICK a \in Seq(Document) : a = Part(rows, 0, m) /\ Len(a) = m
  BY <1>1 DEF IsPart
<1>3. PICK none \in Seq(Key), I \in SUBSET DOMAIN a :
         none = <<>> /\ I = Within(a, DOMAIN a, Wanted(q))
  BY NoOrder DEF Within
<1>4. found = Arranged(a, I, none)
  BY <1>2, <1>3, KeepIs DEF Collects
<1>5. Len(found) = Cardinality(I) /\ found \in Seq(Document)
  BY <1>4, ArrangedType
<1>6. I \subseteq 1 .. m /\ Cardinality(1 .. m) = m /\ IsFiniteSet(1 .. m)
  BY <1>2, <1>3, CountTo
<1>7. Cardinality(I) <= m /\ Cardinality(I) \in Nat
  BY <1>6, FS_Subset, FS_CardinalityType
<1>. QED
  BY <1>5, <1>7

LEMMA WholeFound ==
  ASSUME StoreAssumption, events \in Seq(Document), Len(events) <= MaxDocs,
         NEW q \in Queries, Paging(q), ~Windowed(q) \/ OnePage(q),
         NEW key \in Seq(Key), NEW rows, rows = Sorted(Listed(Plan(q).from), key),
         NEW n \in Nat, n = Len(rows), NEW found, Enough(q, rows, n, found)
  PROVE  found = Arranged(events, Held(q), key)
<1>1. rows \in Seq(Document) /\ Keep(rows, Wanted(q)) = Arranged(events, Held(q), key)
  BY CollectedIs
<1>2. PICK m \in Nat : /\ m <= n /\ Collects(q, rows, m, found)
                       /\ m = n \/ (Plan(q).enough <= Len(found) /\ ~OnePage(q))
  BY DEF Enough
<1>3. m = n
  <2>1. SUFFICES ASSUME Plan(q).enough <= Len(found), ~OnePage(q)
                 PROVE  FALSE
    BY <1>2
  <2>2. Plan(q).enough = All
    BY <2>1 DEF Paging
  <2>3. Len(found) <= n /\ Len(found) \in Nat
    BY <1>1, <1>2, FoundFits
  <2>4. n <= Len(events) /\ Len(events) \in Nat
    <3>1. PICK I \in SUBSET DOMAIN events : I = At(Source(Plan(q).from))
      BY AtAll
    <3>2. rows = Arranged(events, I, key)
      BY <3>1, RowsAre
    <3>. QED
      BY <3>2, NoMore
  <2>5. MaxDocs \in Nat /\ All = MaxDocs + 1
    BY DEF Parameters, All
  <2>. QED
    BY <2>1, <2>2, <2>3, <2>4, <2>5
<1>4. Part(rows, 0, n) = rows
  BY <1>1, PartAll
<1>. QED
  BY <1>1, <1>2, <1>3, <1>4 DEF Collects

LEMMA AzuretableAgrees ==
  ASSUME StoreAssumption, events \in Seq(Document), Len(events) <= MaxDocs, Counting,
         driver = "azuretable", NEW q \in Queries, Regular(q),
         NEW rows, rows = Sorted(Listed(Plan(q).from), Plan(q).key),
         NEW n \in Nat, n = Len(rows), NEW found, Enough(q, rows, n, found),
         NEW version, Answered(q, found, version).ok
  PROVE  Answered(q, found, version).docs = Promised(q)
<1>1. /\ OneStampEach /\ ShortCommits /\ (q.op = "getLastEvent" => ShortStream)
      /\ Windowed(q) => OnePage(q)
  BY DEF Regular
<1>2. /\ Paging(q) /\ Cuts(q) /\ Filters(q)
      /\ q.op # "getLastEvent" => Keyed(q, ById, ByStamp)
      /\ q.op = "getLastEvent" => Keyed(q, ById, <<"stamp", "revText", "seqText">>)
  BY AzuretablePlans
<1>3. Plan(q).key = ById
  BY <1>2 DEF Keyed
<1>4. found = Arranged(events, Held(q), ById)
  BY <1>1, <1>2, <1>3, NoOrder, WholeFound
<1>5. CutAs(q, Ordered(Asked(q)))
  BY <1>2, OrderedIs, CutsAs
<1>6. At(Asked(q)) \in SUBSET DOMAIN events
  BY AtAll
<1>7. CASE q.op # "getLastEvent"
  <2>1. Refines(events, At(Asked(q)), ById, ByStamp, ByTime)
    BY <1>1, <1>6, IdThenStamp
  <2>2. Plan(q).sort = ByStamp
    BY <1>2, <1>7 DEF Keyed
  <2>. QED
    BY <1>2, <1>4, <1>5, <2>1, <2>2, NoOrder, FilteredAgrees
<1>8. CASE q.op = "getLastEvent"
  <2>1. PICK texts \in Seq(Key) : texts = <<"stamp", "revText", "seqText">>
    <3>1. <<"stamp", "revText", "seqText">> \in Seq(Key)
      BY DEF Key
    <3>. QED
      BY <3>1
  <2>2. Refines(events, At(Asked(q)), ById, texts, ByTime)
    BY <1>1, <1>6, <1>8, <2>1, IdThenTexts
  <2>3. Plan(q).sort = texts
    BY <1>2, <1>8, <2>1 DEF Keyed
  <2>. QED
    BY <1>2, <1>4, <1>5, <2>2, <2>3, NoOrder, FilteredAgrees
<1>. QED
  BY <1>7, <1>8

\* dynamodb asks for one revision more than the caller.
LEMMA DynamodbRevisions ==
  ASSUME StoreAssumption, events \in Seq(Document), driver = "dynamodb",
         NEW q \in Queries, q.op = "getEventsByRevision", Regular(q)
  PROVE  Held(q) = At(Asked(q)) /\ LastOnly(q)
<1>1. Plan(q) = Dynamodb_getEventsByRevision(q)
  BY DEF Plan, GetEventsByRevision
<1>2. /\ Plan(q).from = "events" /\ Plan(q).lo = q.lo /\ Plan(q).since = 0 /\ ~Plan(q).last
      /\ Plan(q).hi = IF q.hi = -1 THEN -1 ELSE q.hi + 1
  BY <1>1 DEF Dynamodb_getEventsByRevision, Reading
<1>3. \A i \in DOMAIN events : events[i].rev # q.hi
  BY DEF Regular
<1>4. q.lo \in Nat /\ q.hi \in Nat \cup {-1}
  BY Query
<1>5. ASSUME NEW i \in DOMAIN events
      PROVE  events[i] \in Source(Plan(q).from) \cap Wanted(q) <=> events[i] \in Asked(q)
  <2>1. /\ events[i] \in Document /\ events[i].rev \in Nat /\ events[i].stamp \in Nat
        /\ events[i].rev # q.hi
    BY <1>3, EventIs
  <2>2. Wants(Plan(q), events[i]) <=>
          events[i].rev >= q.lo /\ (q.hi = -1 \/ events[i].rev < q.hi)
    <3>1. CASE q.hi = -1
      BY <1>2, <2>1, <3>1 DEF Wants
    <3>2. CASE q.hi # -1
      <4>1. q.hi \in Nat /\ Plan(q).hi = q.hi + 1 /\ Plan(q).hi # -1
        BY <1>2, <1>4, <3>2
      <4>. QED
        BY <1>2, <1>4, <2>1, <3>2, <4>1 DEF Wants
    <3>. QED
      BY <3>1, <3>2
  <2>. QED
    BY <1>2, <2>1, <2>2 DEF Source, Wanted, Asked, Between
<1>. QED
  BY <1>2, <1>5 DEF Held, At, Within, LastOnly

\* The orders dynamodb sorts by once the events are in the order of the revisions.
LEMMA DynamodbSorts ==
  ASSUME StoreAssumption, events \in Seq(Document), driver = "dynamodb", UniqueRevs,
         NEW q \in Queries, Plan(q).from # "nowhere", q.op # "getUndispatchedEvents", Regular(q),
         NEW rev \in Seq(Key), rev = <<"rev">>
  PROVE  /\ Plan(q).key = rev
         /\ \E sort \in Seq(Key) : Sorts(q, sort) /\ RefinesAll(rev, sort)
<1>1. q.op \in {"getEvents", "getLastEvent"} => ShortStream
  BY DEF Regular
<1>2. <<"stamp", "revText">> \in Seq(Key) /\ <<"stamp", "revText", "seqText">> \in Seq(Key)
  BY DEF Key
<1>3. CASE q.op = "getEvents"
  <2>1. Keyed(q, rev, <<"stamp", "revText">>)
    BY <1>3, DynamodbPlans
  <2>2. RefinesAll(rev, <<"stamp", "revText">>)
    BY <1>1, <1>3, RevisionThenText DEF RefinesAll
  <2>. QED
    BY <1>2, <2>1, <2>2 DEF Keyed, Sorts
<1>4. CASE q.op \in {"getEventsSince", "getEventsByRevision"}
  <2>1. Keyed(q, rev, ByStamp)
    BY <1>4, DynamodbPlans
  <2>2. RefinesAll(rev, ByStamp)
    BY RevisionThenStamp DEF RefinesAll
  <2>. QED
    BY <2>1, <2>2, NoOrder DEF Keyed, Sorts
<1>5. CASE q.op = "getLastEvent"
  <2>1. Keyed(q, rev, <<"stamp", "revText", "seqText">>)
    BY <1>5, DynamodbPlans
  <2>2. RefinesAll(rev, <<"stamp", "revText", "seqText">>)
    BY <1>1, <1>5, RevisionThenTexts DEF RefinesAll
  <2>. QED
    BY <1>2, <2>1, <2>2 DEF Keyed, Sorts
<1>. QED
  BY <1>3, <1>4, <1>5, Query

LEMMA KeyedAgrees ==
  ASSUME StoreAssumption, events \in Seq(Document), NEW q \in Queries,
         Held(q) = At(Asked(q)), LastOnly(q), CutAs(q, Ordered(Asked(q))),
         NEW key \in Seq(Key), NEW sort \in Seq(Key), Sorts(q, sort), RefinesAll(key, sort),
         NEW found, found = Arranged(events, Held(q), key), NEW version,
         Answered(q, found, version).ok
  PROVE  Answered(q, found, version).docs = Promised(q)
<1>1. PICK I \in SUBSET DOMAIN events : I = At(Asked(q))
  BY AtAll
<1>2. found = Arranged(events, I, key) /\ Refines(events, I, key, sort, ByTime)
  BY <1>1 DEF RefinesAll
<1>3. sort = Plan(q).sort
  BY DEF Sorts
<1>. QED
  BY <1>1, <1>2, <1>3, Agreed

LEMMA DynamodbAgrees ==
  ASSUME StoreAssumption, events \in Seq(Document), Len(events) <= MaxDocs,
         Counting, UniqueRevs, driver = "dynamodb",
         NEW q \in Queries, Plan(q).from # "nowhere", Regular(q),
         NEW rows, rows = Sorted(Listed(Plan(q).from), Plan(q).key),
         NEW n \in Nat, n = Len(rows), NEW found, Enough(q, rows, n, found),
         NEW version, Answered(q, found, version).ok
  PROVE  Answered(q, found, version).docs = Promised(q)
<1>1. /\ Paging(q) /\ Cuts(q)
      /\ q.op # "getEventsByRevision" => Filters(q)
      /\ q.op = "getUndispatchedEvents" => Keyed(q, ById, <<"stamp", "id", "seqText">>)
  BY DynamodbPlans
<1>2. CutAs(q, Ordered(Asked(q)))
  BY <1>1, OrderedIs, CutsAs
<1>3. At(Asked(q)) \in SUBSET DOMAIN events
  BY AtAll
<1>4. CASE q.op = "getUndispatchedEvents"
  <2>1. OneStampEach /\ ShortCommits
    BY <1>4 DEF Regular
  <2>2. PICK ids \in Seq(Key) : ids = <<"stamp", "id", "seqText">>
    <3>1. <<"stamp", "id", "seqText">> \in Seq(Key)
      BY DEF Key
    <3>. QED
      BY <3>1
  <2>3. Plan(q).key = ById /\ Plan(q).sort = ids
    BY <1>1, <1>4, <2>2 DEF Keyed
  <2>4. ~Windowed(q)
    BY <1>4, NotWindowed
  <2>5. found = Arranged(events, Held(q), ById)
    BY <1>1, <2>3, <2>4, NoOrder, WholeFound
  <2>6. Refines(events, At(Asked(q)), ById, ids, ByTime)
    BY <1>3, <2>1, <2>2, IdThenIds
  <2>. QED
    BY <1>1, <1>2, <1>4, <2>3, <2>5, <2>6, NoOrder, FilteredAgrees
<1>5. CASE q.op # "getUndispatchedEvents"
  <2>1. PICK rev \in Seq(Key) : rev = <<"rev">>
    <3>1. <<"rev">> \in Seq(Key)
      BY DEF Key
    <3>. QED
      BY <3>1
  <2>2. Plan(q).key = rev
    BY <1>5, <2>1, DynamodbSorts
  <2>3. PICK sort \in Seq(Key) : Sorts(q, sort) /\ RefinesAll(rev, sort)
    BY <1>5, <2>1, DynamodbSorts
  <2>4. Plan(q).sort = sort
    BY <2>3 DEF Sorts
  <2>5. Held(q) = At(Asked(q)) /\ LastOnly(q)
    BY <1>1, HeldIs, DynamodbRevisions DEF Filters
  <2>6. CASE ~Windowed(q) \/ OnePage(q)
    <3>1. found = Arranged(events, Held(q), rev)
      BY <1>1, <2>2, <2>6, WholeFound
    <3>. QED
      BY <1>2, <2>3, <2>5, <3>1, KeyedAgrees
  <2>7. CASE Windowed(q) /\ ~OnePage(q)
    <3>1. q.limit # -1 /\ Contiguous
      BY <2>7 DEF Regular
    <3>2. Pages(q) /\ Plan(q).enough = q.skip + q.limit /\ q.op # "getEventsByRevision"
      BY <1>1, <2>7, <3>1 DEF Paging, Windowed, Pages
    <3>3. Filters(q)
      BY <1>1, <3>2
    <3>4. Plan(q).from = "events"
      BY <3>2, <3>3 DEF Filters, Pages
    <3>5. rows = Sorted(events, rev)
      BY <2>2, <3>4 DEF Listed
    <3>6. InTimeRows(rows, rev)
      BY <2>1, <3>1, <3>5, RowsInTime DEF InTimeRows
    <3>7. PICK m \in Nat : /\ m <= n /\ Collects(q, rows, m, found)
                           /\ m = n \/ Plan(q).enough <= Len(found)
      BY DEF Enough
    <3>8. CASE m = n
      <4>1. rows \in Seq(Document)
        BY <3>6 DEF InTimeRows, FromZero
      <4>2. Part(rows, 0, n) = rows
        BY <4>1, PartAll
      <4>3. found = Arranged(events, Held(q), rev)
        BY <2>2, <3>7, <3>8, <4>2, CollectedIs DEF Collects
      <4>4. Refines(events, At(Asked(q)), rev, sort, ByTime)
        BY <1>3, <2>3 DEF RefinesAll
      <4>. QED
        BY <1>2, <2>4, <3>3, <4>3, <4>4, FilteredAgrees
    <3>9. CASE Plan(q).enough <= Len(found)
      <4>1. Covers(found, q.skip, q.limit)
        BY <3>2, <3>9 DEF Covers
      <4>2. PICK T : T = rows
        OBVIOUS
      <4>3. InTimeRows(T, rev) /\ UpTo(T, m) /\ Collects(q, T, m, found)
        BY <3>6, <3>7, <4>2 DEF UpTo
      <4>4. Cuts(q) /\ Limited(q)
        BY <1>1, <3>1 DEF Limited
      <4>. QED
        BY <2>3, <3>2, <3>3, <4>1, <4>3, <4>4, PrefixAgrees
    <3>. QED
      BY <3>7, <3>8, <3>9
  <2>. QED
    BY <2>6, <2>7
<1>. QED
  BY <1>4, <1>5

-----------------------------------------------------------------------------
(* The invariant of reads *)

\* The drivers whose readers send several requests.
Paged == driver \in {"redis", "dynamodb", "azuretable"}
Unlisted(r) == Ids(r.docs) \cap (waiting \cup marked) = {}

\* An event is listed once: by a request still to come, or it is listed, or marked.
ListOK ==
  /\ IsFiniteSet(marked)
  /\ driver = "redis" => marked \subseteq Stored
  /\ Paged /\ listing =>
       /\ waiting \cap marked = {}
       /\ waiting \cup marked \subseteq Made
       /\ \A p \in Client : Adds(p) =>
            \A j \in DOMAIN call[p].todo :
              call[p].todo[j].do = "list" => Unlisted(call[p].todo[j])
       /\ \A r \in late : r.do = "list" => Unlisted(r)

\* Every request of dynamodb and azuretable is sent once; the events of redis are
\* numbered in a row.
Once(s) == \A i, j \in DOMAIN s : s[i] = s[j] => i = j
Elsewhere(c, r) == r.do = "list" => \A i \in DOMAIN r.docs : r.docs[i].commit # c
OnceOK ==
  /\ driver \in {"dynamodb", "azuretable"} => \A p \in Client : Adds(p) => Once(call[p].todo)
  /\ driver = "azuretable" =>
       /\ UniqueIds
       /\ \A r \in late : r.do = "list" => r.awaited
       /\ \A p \in Client : Adds(p) => \A r \in late : Elsewhere(call[p].c, r)
  /\ driver = "redis" => Counting

\* A version the store had when the read began.
Past(v) ==
  /\ v[1] \in Nat /\ v[1] <= Len(events)
  /\ v[3] \in Nat /\ v[3] <= Cardinality(marked)
  /\ v[1] = Len(events) /\ v[3] = Cardinality(marked) => v[2] \subseteq waiting

\* A reader stands at a row and has collected what it wants up to there.
RowsOf(q) == Sorted(Listed(Plan(q).from), Plan(q).key)
StandsIn(rows, q, found, cursor) ==
  \E m \in 0 .. Len(rows) : Collects(q, rows, m, found) /\ Stands(rows, m, cursor)

PagedRead(a) ==
  Paged /\ a.pc \in {"asked", "scan"} =>
    /\ Plan(a.q).from # "nowhere"
    /\ Past(a.version)
    /\ a.version = Version /\ Regular(a.q) =>
         IF a.pc = "scan" THEN Ids(a.found) = Ids(Listed(Plan(a.q).from))
         ELSE Plan(a.q).pages = "keys" => StandsIn(RowsOf(a.q), a.q, a.found, a.cursor)
JournaledRead(a) ==
  a.pc \in {"lookup", "clean"} =>
    /\ a.version[1] \in Nat /\ a.version[1] <= Len(events)
    /\ a.version[1] = Len(events) => a.docs = Promised(a.q)
Agreeing(a) ==
  a.pc = "answered" /\ a.ok /\ a.version = Version /\ Regular(a.q)
    => a.docs = Promised(a.q) \/ FailedSilently(a)
ScanRead(a) == a.pc = "scan" => driver = "redis"
Reads(a) == ScanRead(a) /\ PagedRead(a) /\ JournaledRead(a) /\ Agreeing(a)

Quiet ==
  /\ ListOK /\ OnceOK
  /\ \A p \in Client : Reads(call[p])

-----------------------------------------------------------------------------
(* A step of the store, and where it leaves the readers *)

\* The plan of a query depends on the driver and the listing only.
LEMMA SamePlans ==
  ASSUME UNCHANGED <<driver, listing>>, NEW q
  PROVE  Plan(q)' = Plan(q)
<1>1. GetEvents(q)' = GetEvents(q)
  BY DEF GetEvents, Mongodb_streamEvents, Tingodb_getEvents, Inmemory_getEvents, Redis_getEvents,
         Redis_scan, Dynamodb_getEvents, Dynamodb_paging, Azuretable_getEvents, Azuretable_paging,
         Elasticsearch_getEvents, Elasticsearch_search, Elasticsearch_buildQuery, Reading
<1>2. GetEventsSince(q)' = GetEventsSince(q)
  BY DEF GetEventsSince, Mongodb_streamEventsSince, Tingodb_getEventsSince, Inmemory_getEventsSince,
         Redis_getEventsSince, Dynamodb_getEventsSince, Azuretable_getEventsSince,
         Elasticsearch_getEventsSince
<1>3. GetEventsByRevision(q)' = GetEventsByRevision(q)
  BY DEF GetEventsByRevision
<1>4. GetUndispatchedEvents(q)' = GetUndispatchedEvents(q)
  BY DEF GetUndispatchedEvents, Dynamodb_getUndispatchedEvents
<1>5. GetLastEvent(q)' = GetLastEvent(q)
  BY DEF GetLastEvent
<1>. QED
  BY <1>1, <1>2, <1>3, <1>4, <1>5 DEF Plan

LEMMA SameStore ==
  ASSUME UNCHANGED <<driver, listing, events, waiting>>, NEW q
  PROVE  /\ Plan(q)' = Plan(q) /\ (Regular(q)' <=> Regular(q)) /\ Promised(q)' = Promised(q)
         /\ \A from : Listed(from)' = Listed(from)
         /\ RowsOf(q)' = RowsOf(q)
<1>1. Plan(q)' = Plan(q)
  BY SamePlans
<1>2. TimeOrder' = TimeOrder /\ Stored' = Stored
  BY DEF TimeOrder, Stored
<1>3. Promised(q)' = Promised(q)
  BY DEF Promised
<1>4. \A from : Listed(from)' = Listed(from)
  BY DEF Listed, Undispatched, Keep
<1>5. RowsOf(q)' = RowsOf(q)
  BY <1>1, <1>4 DEF RowsOf
<1>6. /\ Contiguous' <=> Contiguous
      /\ OneStampEach' <=> OneStampEach
      /\ ShortCommits' <=> ShortCommits
      /\ ShortStream' <=> ShortStream
      /\ OnePage(q)' <=> OnePage(q)
  BY <1>1, <1>2 DEF Contiguous, OneStampEach, ShortCommits, ShortStream, OnePage
<1>7. Regular(q)' <=> Regular(q)
  BY <1>2, <1>6 DEF Regular
<1>. QED
  BY <1>1, <1>3, <1>4, <1>5, <1>7

LEMMA NoneLeft ==
  ASSUME NEW S, S = {}
  PROVE  SetToSeq(S) = <<>>
<1>1. Cardinality(S) = 0
  BY FS_EmptySet
<1>2. [1 .. 0 -> S] = {<<>>}
  <2>1. ASSUME NEW f \in [1 .. 0 -> S]
        PROVE  f = <<>>
    OBVIOUS
  <2>2. <<>> \in [1 .. 0 -> S]
    OBVIOUS
  <2>. QED
    BY <2>1, <2>2
<1>3. \E f \in [1 .. Cardinality(S) -> S] : IsInjective(f)
  <2>1. IsInjective(<<>>)
    BY DEF IsInjective
  <2>. QED
    BY <1>1, <1>2, <2>1
<1>. QED
  BY <1>1, <1>2, <1>3 DEF SetToSeq

\* What is listed is stored, or the table of the stored events is read.
LEMMA RowsListed ==
  ASSUME StoreAssumption, events \in Seq(Document), NEW from,
         from = "events" \/ waiting \subseteq Stored
  PROVE  Rows(from) = Listed(from)
<1>1. CASE from = "events"
  BY <1>1 DEF Rows, Listed
<1>2. CASE from # "events"
  <2>1. waiting \ Stored = {}
    BY <1>2
  <2>2. SetToSeq({commit[id[1]][id[2] + 1] : id \in waiting \ Stored}) = <<>>
    BY <2>1, NoneLeft
  <2>3. \A i \in DOMAIN events : events[i] \in Document
    OBVIOUS
  <2>4. {i \in DOMAIN events : Id(events[i]) \in waiting}
          = {i \in DOMAIN events : events[i] \in Undispatched}
    BY <2>3 DEF Undispatched
  <2>5. PICK s \in Seq(Document) : s = Keep(events, Undispatched)
    BY KeepIs
  <2>6. Rows(from) = s \o <<>>
    BY <1>2, <2>2, <2>4, <2>5 DEF Rows, Keep
  <2>7. s \o <<>> = s
    BY ConcatEmptySeq
  <2>. QED
    BY <1>2, <2>5, <2>6, <2>7 DEF Listed
<1>. QED
  BY <1>1, <1>2

LEMMA GenuineIs ==
  ASSUME StoreAssumption, Inv, NEW x \in DOMAIN events
  PROVE  /\ events[x] \in Document
         /\ events[x].commit \in CommitId /\ events[x].seq \in Nat
         /\ events[x].seq + 1 \in DOMAIN commit[events[x].commit]
         /\ driver # "redis" =>
              /\ events[x] = commit[events[x].commit][events[x].seq + 1]
              /\ events[x].rev = commit[events[x].commit][1].rev + events[x].seq
              /\ commit[events[x].commit][1].rev \in Nat
<1>1. events[x] \in Document /\ Genuine(events[x])
  BY DEF Inv, EventsOK
<1>2. events[x].commit \in CommitId /\ events[x].seq \in Nat /\ events[x].rev \in Nat
  BY <1>1 DEF Document
<1>3. PICK docs \in Seq(Document) : docs = commit[events[x].commit]
  BY <1>2 DEF Inv, CommitsOK
<1>4. Counted(events[x].commit, docs)
  BY <1>2, <1>3 DEF Inv, CommitsOK
<1>5. PICK k \in Nat : k = events[x].seq
  BY <1>2
<1>6. k + 1 \in DOMAIN docs /\ (driver # "redis" => events[x] = docs[k + 1])
  BY <1>1, <1>3, <1>5 DEF Genuine
<1>7. docs[k + 1].rev = docs[1].rev + k
  <2>1. docs[k + 1].rev = docs[1].rev + (k + 1) - 1 /\ docs[1] \in Document
    BY <1>4, <1>6 DEF Counted
  <2>2. docs[1].rev \in Nat
    BY <2>1 DEF Document
  <2>. QED
    BY <2>1, <2>2
<1>8. docs[1].rev \in Nat
  <2>1. 1 \in DOMAIN docs
    BY <1>6
  <2>2. docs[1] \in Document
    BY <2>1
  <2>. QED
    BY <2>2 DEF Document
<1>. QED
  BY <1>1, <1>2, <1>3, <1>5, <1>6, <1>7, <1>8

LEMMA Identified ==
  ASSUME StoreAssumption, Inv, OnceOK, Paged
  PROVE  UniqueIds /\ Counting /\ (driver = "dynamodb" => UniqueRevs)
<1>1. Counting
  <2>1. CASE driver = "redis"
    BY <2>1 DEF OnceOK
  <2>2. CASE driver # "redis"
    <3>1. SUFFICES ASSUME NEW x \in DOMAIN events, NEW y \in DOMAIN events,
                          events[x].commit = events[y].commit
                   PROVE  events[x].rev - events[x].seq = events[y].rev - events[y].seq
      BY DEF Counting
    <3>2. PICK first \in Nat : first = commit[events[x].commit][1].rev
      BY <2>2, GenuineIs
    <3>3. events[x].rev = first + events[x].seq /\ events[x].seq \in Nat
      BY <2>2, <3>2, GenuineIs
    <3>4. events[y].rev = first + events[y].seq /\ events[y].seq \in Nat
      BY <2>2, <3>1, <3>2, GenuineIs
    <3>. QED
      BY <3>3, <3>4
  <2>. QED
    BY <2>1, <2>2
<1>2. driver \in {"dynamodb", "redis"} => UniqueRevs
  BY DEF Inv, RevisionIsUnique, UniqueRevs
<1>3. UniqueIds
  <2>1. CASE driver = "azuretable"
    BY <2>1 DEF OnceOK
  <2>2. CASE driver # "azuretable"
    <3>1. SUFFICES ASSUME NEW x \in DOMAIN events, NEW y \in DOMAIN events,
                          Id(events[x]) = Id(events[y])
                   PROVE  x = y
      BY DEF UniqueIds
    <3>2. events[x].commit = events[y].commit /\ events[x].seq = events[y].seq
      BY <3>1 DEF Id
    <3>3. events \in Seq(Document)
      BY DEF Inv, EventsOK
    <3>4. events[x].rev = events[y].rev
      BY <1>1, <3>2, <3>3, Parallel
    <3>. QED
      BY <1>2, <2>2, <3>4 DEF UniqueRevs, Paged
  <2>. QED
    BY <2>1, <2>2
<1>. QED
  BY <1>1, <1>2, <1>3

LEMMA FewEvents ==
  ASSUME StoreAssumption, Inv, UniqueIds
  PROVE  Len(events) <= MaxDocs
<1>1. PICK n \in Nat : n = Len(events)
  BY DEF Inv, EventsOK
<1>2. DOMAIN events = 1 .. n
  BY <1>1 DEF Inv, EventsOK
<1>3. ASSUME NEW i \in 1 .. n
      PROVE  Id(events[i]) \in Made
  <2>1. PICK c \in CommitId, k \in Nat : c = events[i].commit /\ k = events[i].seq
    BY <1>2, GenuineIs
  <2>2. k + 1 \in DOMAIN commit[c]
    BY <1>2, <2>1, GenuineIs
  <2>3. commit[c] \in Seq(Document) /\ commit[c][k + 1].commit = c
        /\ commit[c][k + 1].seq = (k + 1) - 1
    BY <2>2 DEF Inv, CommitsOK, Counted
  <2>4. Id(commit[c][k + 1]) = <<c, k>>
    BY <2>3 DEF Id
  <2>5. <<c, k>> \in Ids(commit[c])
    BY <2>2, <2>4 DEF Ids
  <2>. QED
    BY <2>1, <2>5 DEF Made, Id
<1>4. PICK f : f = [i \in 1 .. n |-> Id(events[i])]
  OBVIOUS
<1>5. f \in Injection(1 .. n, Made)
  BY <1>2, <1>3, <1>4 DEF UniqueIds, Injection, IsInjective
<1>6. IsFiniteSet(Made) /\ Cardinality(Made) <= MaxDocs
  BY DEF Inv, CountsOK
<1>7. Cardinality(1 .. n) <= Cardinality(Made)
  BY <1>5, <1>6, FS_Injection
<1>8. Cardinality(1 .. n) = n /\ Cardinality(Made) \in Nat /\ MaxDocs \in Nat
  BY <1>6, CountTo, FS_CardinalityType DEF Parameters
<1>. QED
  BY <1>1, <1>6, <1>7, <1>8

\* The store went on as it does: events and marks are only added, and an event
\* leaves the list of an undisturbed store only when it is marked.
Growing ==
  /\ UNCHANGED <<driver, listing>>
  /\ Len(events) \in Nat /\ Len(events') \in Nat /\ Len(events) <= Len(events')
  /\ Len(events') = Len(events) => events' = events
  /\ Cardinality(marked) \in Nat /\ Cardinality(marked') \in Nat
  /\ Cardinality(marked) <= Cardinality(marked')
  /\ Paged /\ Cardinality(marked') = Cardinality(marked) => waiting \subseteq waiting'

LEMMA PastGrows ==
  ASSUME Growing, Paged, NEW v, Past(v)
  PROVE  /\ Past(v)'
         /\ v = Version' => v = Version /\ UNCHANGED <<events, waiting>>
<1>1. ASSUME v[1] = Len(events'), v[3] = Cardinality(marked')
      PROVE  /\ v[1] = Len(events) /\ v[3] = Cardinality(marked)
             /\ events' = events /\ v[2] \subseteq waiting /\ waiting \subseteq waiting'
  BY <1>1 DEF Growing, Past
<1>2. Past(v)'
  BY <1>1 DEF Growing, Past
<1>3. ASSUME v = Version'
      PROVE  v = Version /\ UNCHANGED <<events, waiting>>
  <2>1. v = <<Len(events'), waiting', Cardinality(marked')>>
    BY <1>3 DEF Version
  <2>2. v[1] = Len(events') /\ v[2] = waiting' /\ v[3] = Cardinality(marked')
    BY <2>1
  <2>3. waiting' = waiting /\ events' = events
    BY <1>1, <2>2
  <2>4. Len(events') = Len(events) /\ Cardinality(marked') = Cardinality(marked)
    BY <1>1, <2>2
  <2>. QED
    BY <2>1, <2>3, <2>4 DEF Version
<1>. QED
  BY <1>2, <1>3

LEMMA StandsGrows ==
  ASSUME UNCHANGED <<driver, listing, events, waiting>>, NEW q, NEW found, NEW cursor,
         StandsIn(RowsOf(q), q, found, cursor)
  PROVE  StandsIn(RowsOf(q), q, found, cursor)'
<1>1. Plan(q)' = Plan(q) /\ RowsOf(q)' = RowsOf(q)
  BY SameStore
<1>2. Wanted(q)' = Wanted(q)
  BY <1>1 DEF Wanted
<1>3. PICK m \in 0 .. Len(RowsOf(q)) : Collects(q, RowsOf(q), m, found) /\ Stands(RowsOf(q), m, cursor)
  BY DEF StandsIn
<1>4. Collects(q, RowsOf(q), m, found)' /\ Stands(RowsOf(q), m, cursor)' /\ m \in 0 .. Len(RowsOf(q)')
  BY <1>1, <1>2, <1>3 DEF Collects, Stands, Part, Keep
<1>. QED
  BY <1>4 DEF StandsIn

LEMMA PagedReadGrows ==
  ASSUME Growing, NEW a, PagedRead(a)
  PROVE  PagedRead(a)'
<1>1. SUFFICES ASSUME Paged', a.pc \in {"asked", "scan"}
               PROVE  /\ Plan(a.q)'.from # "nowhere"
                      /\ Past(a.version)'
                      /\ a.version = Version' /\ Regular(a.q)' =>
                           IF a.pc = "scan" THEN Ids(a.found) = Ids(Listed(Plan(a.q).from))'
                           ELSE Plan(a.q)'.pages = "keys" =>
                                  StandsIn(RowsOf(a.q), a.q, a.found, a.cursor)'
  BY DEF PagedRead
<1>2. Paged
  BY <1>1 DEF Paged, Growing
<1>3. Plan(a.q)' = Plan(a.q)
  BY SamePlans DEF Growing
<1>4. /\ Plan(a.q).from # "nowhere" /\ Past(a.version)
      /\ a.version = Version /\ Regular(a.q) =>
           IF a.pc = "scan" THEN Ids(a.found) = Ids(Listed(Plan(a.q).from))
           ELSE Plan(a.q).pages = "keys" => StandsIn(RowsOf(a.q), a.q, a.found, a.cursor)
  BY <1>1, <1>2 DEF PagedRead
<1>5. Past(a.version)'
  BY <1>2, <1>4, PastGrows
<1>6. ASSUME a.version = Version', Regular(a.q)'
      PROVE  IF a.pc = "scan" THEN Ids(a.found) = Ids(Listed(Plan(a.q).from))'
             ELSE Plan(a.q)'.pages = "keys" => StandsIn(RowsOf(a.q), a.q, a.found, a.cursor)'
  <2>1. a.version = Version /\ UNCHANGED <<events, waiting>>
    BY <1>2, <1>4, <1>6, PastGrows
  <2>2. UNCHANGED <<driver, listing, events, waiting>>
    BY <2>1 DEF Growing
  <2>3. Regular(a.q)
    BY <1>6, <2>2, SameStore
  <2>4. CASE a.pc = "scan"
    <3>1. Listed(Plan(a.q).from)' = Listed(Plan(a.q).from)
      BY <1>3, <2>2, SameStore
    <3>2. Ids(Listed(Plan(a.q).from))' = Ids(Listed(Plan(a.q).from))
      BY <3>1 DEF Ids, Id
    <3>. QED
      BY <1>4, <2>1, <2>3, <2>4, <3>2
  <2>5. CASE a.pc # "scan"
    <3>1. ASSUME Plan(a.q)'.pages = "keys"
          PROVE  StandsIn(RowsOf(a.q), a.q, a.found, a.cursor)'
      <4>1. StandsIn(RowsOf(a.q), a.q, a.found, a.cursor)
        BY <1>3, <1>4, <2>1, <2>3, <2>5, <3>1
      <4>. QED
        BY <2>2, <4>1, StandsGrows
    <3>. QED
      BY <2>5, <3>1
  <2>. QED
    BY <2>4, <2>5
<1>. QED
  BY <1>3, <1>4, <1>5, <1>6

LEMMA JournaledReadGrows ==
  ASSUME Growing, NEW a, JournaledRead(a), a.pc \in {"lookup", "clean"} => a.q.op = "getEventsByRevision"
  PROVE  JournaledRead(a)'
<1>1. SUFFICES ASSUME a.pc \in {"lookup", "clean"}
               PROVE  /\ a.version[1] \in Nat /\ a.version[1] <= Len(events')
                      /\ a.version[1] = Len(events') => a.docs = Promised(a.q)'
  BY DEF JournaledRead
<1>2. /\ a.version[1] \in Nat /\ a.version[1] <= Len(events)
      /\ a.version[1] = Len(events) => a.docs = Promised(a.q)
  BY <1>1 DEF JournaledRead
<1>3. ASSUME a.version[1] = Len(events')
      PROVE  a.docs = Promised(a.q)'
  <2>1. events' = events /\ a.docs = Promised(a.q)
    BY <1>2, <1>3 DEF Growing
  <2>2. Promised(a.q)' = Promised(a.q)
    BY <1>1, <2>1 DEF Promised
  <2>. QED
    BY <2>1, <2>2
<1>. QED
  BY <1>2, <1>3 DEF Growing

\* What the calls of the others keep; an answered call is looked at first.
LEMMA ReadsGrow ==
  ASSUME Growing, Inv, NEW p \in Client, Reads(call[p]), call'[p] = call[p],
         call[p].pc # "answered" \/ UNCHANGED <<events, waiting, marked>>
  PROVE  Reads(call[p])'
<1>1. PICK a : a = call[p]
  OBVIOUS
<1>2. PagedRead(a) /\ JournaledRead(a) /\ Agreeing(a)
  BY <1>1 DEF Reads
<1>3. PagedRead(a)'
  BY <1>2, PagedReadGrows
<1>4. a.pc \in {"lookup", "clean"} => a.q.op = "getEventsByRevision"
  BY <1>1 DEF Inv, ReadsOK, ReadOK
<1>5. JournaledRead(a)'
  BY <1>2, <1>4, JournaledReadGrows
<1>6. Agreeing(a)'
  <2>1. CASE a.pc # "answered"
    BY <2>1 DEF Agreeing
  <2>2. CASE UNCHANGED <<events, waiting, marked>>
    <3>1. UNCHANGED <<driver, listing, events, waiting>> /\ Version' = Version
      BY <2>2 DEF Growing, Version
    <3>2. (Regular(a.q)' <=> Regular(a.q)) /\ Promised(a.q)' = Promised(a.q)
      BY <3>1, SameStore
    <3>. QED
      BY <1>2, <3>1, <3>2 DEF Agreeing, FailedSilently
  <2>. QED
    BY <1>1, <2>1, <2>2
<1>7. Reads(a)'
  <2>1. ScanRead(a)'
    BY <1>1 DEF Reads, ScanRead, Growing
  <2>. QED
    BY <1>3, <1>5, <1>6, <2>1 DEF Reads
<1>8. Reads(call[p])' = Reads(a)'
  BY <1>1
<1>. QED
  BY <1>7, <1>8

NoneAnswered == \A p \in Client : call[p].pc # "answered"
OnlyDrops == \A r \in late' : r \in late \/ r = Drop(<<>>)'
SamePaged == Paged => UNCHANGED <<events, waiting>>

\* What a reader does leaves the writers and their lists alone.
LEMMA ListsKept ==
  ASSUME Inv, ListOK, OnceOK, UNCHANGED <<driver, listing, commit, marked>>, SamePaged, OnlyDrops,
         NEW p \in Client, NEW x, call' = [call EXCEPT ![p] = x], x.pc # "adding"
  PROVE  ListOK' /\ OnceOK'
<1>1. ASSUME NEW q \in Client, Adds(q)'
      PROVE  call'[q] = call[q] /\ Adds(q)
  BY <1>1 DEF Adds, Inv, Setting
<1>2. \A r \in late' : r.do = "list" => r \in late
  BY DEF OnlyDrops, Drop, Request
<1>3. \A r \in late' : r \in late \/ DOMAIN r.docs = {}
  <2>1. ASSUME NEW r \in late', r \notin late
        PROVE  DOMAIN r.docs = {}
    <3>1. r = Drop(<<>>)'
      BY <2>1 DEF OnlyDrops
    <3>2. r.docs = <<>>
      BY <3>1 DEF Drop, Request
    <3>. QED
      BY <3>2
  <2>. QED
    BY <2>1
<1>4. ListOK'
  <2>1. driver = "redis" => marked' \subseteq Stored'
    BY DEF ListOK, SamePaged, Paged, Stored, Ids
  <2>2. ASSUME Paged', listing'
        PROVE  /\ waiting' \cap marked' = {} /\ waiting' \cup marked' \subseteq Made'
               /\ \A q \in Client : Adds(q)' =>
                    \A j \in DOMAIN call'[q].todo :
                      call'[q].todo[j].do = "list" => Unlisted(call[q].todo[j])'
               /\ \A r \in late' : r.do = "list" => Unlisted(r)'
    <3>1. Paged /\ listing /\ waiting' = waiting
      BY <2>2 DEF Paged, SamePaged
    <3>2. Made' = Made
      BY DEF Made, Ids, Id
    <3>3. \A r : Unlisted(r) => Unlisted(r)'
      BY <3>1 DEF Unlisted, Ids, Id
    <3>4. ASSUME NEW q \in Client, Adds(q)', NEW j \in DOMAIN call'[q].todo,
                 call'[q].todo[j].do = "list"
          PROVE  Unlisted(call[q].todo[j])'
      <4>1. call'[q] = call[q] /\ Adds(q)
        BY <1>1, <3>4
      <4>2. PICK r : r = call[q].todo[j]
        OBVIOUS
      <4>3. Unlisted(r)
        BY <3>1, <3>4, <4>1, <4>2 DEF ListOK
      <4>4. Unlisted(r)'
        BY <3>3, <4>3
      <4>5. call'[q].todo[j] = r
        BY <4>1, <4>2
      <4>. QED
        BY <4>4, <4>5 DEF Unlisted
    <3>5. \A r \in late' : r.do = "list" => Unlisted(r)'
      BY <1>2, <3>1, <3>3 DEF ListOK
    <3>. QED
      BY <3>1, <3>4, <3>5, <3>2 DEF ListOK
  <2>3. IsFiniteSet(marked')
    BY DEF ListOK
  <2>. QED
    BY <2>1, <2>2, <2>3 DEF ListOK
<1>5. OnceOK'
  <2>1. ASSUME driver \in {"dynamodb", "azuretable"}, NEW q \in Client, Adds(q)'
        PROVE  Once(call'[q].todo)
    BY <1>1, <2>1 DEF OnceOK
  <2>2. ASSUME driver = "azuretable"
        PROVE  /\ UniqueIds' /\ \A r \in late' : r.do = "list" => r.awaited
               /\ \A q \in Client : Adds(q)' => \A r \in late' : Elsewhere(call[q].c, r)'
    <3>1. events' = events
      BY <2>2 DEF SamePaged, Paged
    <3>2. UniqueIds'
      BY <2>2, <3>1 DEF OnceOK, UniqueIds, Id
    <3>3. \A r \in late' : r.do = "list" => r.awaited
      BY <1>2, <2>2 DEF OnceOK
    <3>4. ASSUME NEW q \in Client, Adds(q)', NEW r \in late'
          PROVE  Elsewhere(call[q].c, r)'
      <4>1. Adds(q) /\ call'[q] = call[q]
        BY <1>1, <3>4
      <4>. QED
        BY <1>3, <2>2, <4>1 DEF OnceOK, Elsewhere
    <3>. QED
      BY <3>2, <3>3, <3>4
  <2>3. ASSUME driver = "redis"
        PROVE  Counting'
    <3>1. events' = events
      BY <2>3 DEF SamePaged, Paged
    <3>. QED
      BY <2>3, <3>1 DEF OnceOK, Counting
  <2>. QED
    BY <2>1, <2>2, <2>3 DEF OnceOK
<1>. QED
  BY <1>4, <1>5

\* A step that leaves the store alone lets the readers stand where they are.
LEMMA StoreUnchanged ==
  ASSUME Inv, Quiet, UNCHANGED <<driver, listing, events, waiting, marked>>
  PROVE  Growing /\ SamePaged
<1>1. Len(events) \in Nat
  BY DEF Inv, EventsOK
<1>2. Cardinality(marked) \in Nat
  BY FS_CardinalityType DEF Quiet, ListOK
<1>. QED
  BY <1>1, <1>2 DEF Growing, SamePaged

\* A step of one reader leaves the other readers where they stand.
LEMMA ReaderStep ==
  ASSUME StoreAssumption, Inv, Quiet, Growing, SamePaged, UNCHANGED <<commit, marked>>, NoneAnswered,
         OnlyDrops,
         NEW p \in Client, NEW x, call' = [call EXCEPT ![p] = x], x.pc # "adding", Reads(x)'
  PROVE  Quiet'
<1>1. ListOK' /\ OnceOK'
  BY ListsKept DEF Quiet, Growing
<1>2. ASSUME NEW q \in Client
      PROVE  Reads(call[q])'
  <2>1. CASE q = p
    <3>1. call'[q] = x
      BY <2>1 DEF Inv, Setting
    <3>2. Reads(call[q])' = Reads(x)'
      BY <3>1
    <3>. QED
      BY <3>2
  <2>2. CASE q # p
    <3>1. call'[q] = call[q]
      BY <2>2 DEF Inv, Setting
    <3>2. Reads(call[q]) /\ call[q].pc # "answered"
      BY DEF Quiet, NoneAnswered
    <3>. QED
      BY <3>1, <3>2, ReadsGrow
  <2>. QED
    BY <2>1, <2>2
<1>. QED
  BY <1>1, <1>2 DEF Quiet

\* A reader that did not change the store.
LEMMA QuietReader ==
  ASSUME StoreAssumption, Inv, Quiet, NoneAnswered,
         UNCHANGED <<driver, listing, commit, events, waiting, marked>>, OnlyDrops,
         NEW p \in Client, NEW x, call' = [call EXCEPT ![p] = x], x.pc # "adding", Reads(x)
  PROVE  Quiet'
<1>1. Growing /\ SamePaged
  BY StoreUnchanged
<1>2. Reads(x)'
  <2>1. PagedRead(x)'
    BY <1>1, PagedReadGrows DEF Reads
  <2>2. /\ UNCHANGED <<driver, listing, events, waiting>> /\ Version' = Version
        /\ Promised(x.q)' = Promised(x.q) /\ (Regular(x.q)' <=> Regular(x.q))
    BY SameStore DEF Version
  <2>3. JournaledRead(x)'
    BY <2>2 DEF Reads, JournaledRead
  <2>4. Agreeing(x)'
    BY <2>2 DEF Reads, Agreeing, FailedSilently
  <2>. QED
    BY <2>1, <2>3, <2>4 DEF Reads, ScanRead
<1>. QED
  BY <1>1, <1>2, ReaderStep
  

\* A call that reads nothing and has no good answer has nothing to agree with.
LEMMA Untold ==
  ASSUME NEW a, a.pc \notin {"asked", "scan", "lookup", "clean"}, a.pc = "answered" => ~a.ok
  PROVE  Reads(a)
BY DEF Reads, ScanRead, PagedRead, JournaledRead, Agreeing

LEMMA PagedPages ==
  ASSUME StoreAssumption, Paged, NEW q \in Queries
  PROVE  Plan(q).pages = IF driver = "redis" THEN "scan" ELSE "keys"
<1>1. CASE driver = "redis"
  BY <1>1, RedisPlans, SlicePlans
<1>2. CASE driver = "azuretable"
  BY <1>2, AzuretablePlans DEF Paging
<1>3. CASE driver = "dynamodb"
  <2>1. CASE Plan(q).from # "nowhere"
    BY <1>3, <2>1, DynamodbPlans DEF Paging
  <2>2. CASE Plan(q).from = "nowhere"
    BY <1>3, Query DEF Plan, GetEvents, GetEventsSince, GetEventsByRevision, GetUndispatchedEvents,
       GetLastEvent, Dynamodb_getEvents, Dynamodb_getEventsSince, Dynamodb_getEventsByRevision,
       Dynamodb_getUndispatchedEvents, Dynamodb_getLastEvent, Dynamodb_paging, Reading
  <2>. QED
    BY <2>1, <2>2
<1>. QED
  BY <1>1, <1>2, <1>3 DEF Paged

LEMMA PagedKeys ==
  ASSUME StoreAssumption, Paged, NEW q \in Queries, Plan(q).from # "nowhere", Plan(q).pages = "keys"
  PROVE  /\ driver \in {"dynamodb", "azuretable"} /\ Paging(q)
         /\ Plan(q).key \in Seq(Key)
         /\ Plan(q).key = ById \/ (driver = "dynamodb" /\ Plan(q).key = <<"rev">>)
<1>1. driver \in {"dynamodb", "azuretable"}
  BY PagedPages DEF Paged
<1>2. <<"rev">> \in Seq(Key) /\ ById \in Seq(Key)
  BY NoOrder DEF Key
<1>3. CASE driver = "azuretable"
  BY <1>2, <1>3, AzuretablePlans, Query DEF Keyed
<1>4. CASE driver = "dynamodb"
  BY <1>2, <1>4, DynamodbPlans, Query DEF Keyed
<1>. QED
  BY <1>1, <1>3, <1>4

LEMMA NothingKept ==
  ASSUME StoreAssumption, NEW q, NEW rows \in Seq(Document)
  PROVE  Collects(q, rows, 0, <<>>)
<1>1. Part(rows, 0, 0) = <<>>
  BY PartEmpty
<1>2. PICK s \in Seq(Document) : s = <<>>
  <2>1. <<>> \in Seq(Document)
    OBVIOUS
  <2>. QED
    BY <2>1
<1>3. {i \in DOMAIN s : s[i] \in Wanted(q)} = DOMAIN s
  BY <1>2
<1>4. Keep(s, Wanted(q)) = s
  BY <1>3, ChosenAll DEF Keep
<1>. QED
  BY <1>1, <1>2, <1>4 DEF Collects

LEMMA FetchAgrees ==
  ASSUME StoreAssumption, Inv, ~Paged, NEW q \in Queries, Regular(q),
         NEW found, found = Selected(Plan(q), Rows(Plan(q).from)), NEW version,
         Answered(q, found, version).ok
  PROVE  Answered(q, found, version).docs = Promised(q)
<1>1. events \in Seq(Document) /\ driver \in Driver
  BY DEF Inv, EventsOK, Setting
<1>2. waiting \subseteq Stored
  BY DEF Inv, AckedIsStored, Paged
<1>3. Rows(Plan(q).from) = Listed(Plan(q).from)
  BY <1>1, <1>2, RowsListed
<1>4. found = Selected(Plan(q), Listed(Plan(q).from))
  BY <1>3
<1>5. CASE driver \in {"mongodb", "tingodb"}
  BY <1>1, <1>4, <1>5, MongodbAgrees
<1>6. CASE driver = "inmemory"
  BY <1>1, <1>4, <1>6, InmemoryAgrees
<1>7. CASE driver = "elasticsearch"
  BY <1>1, <1>4, <1>7, ElasticsearchAgrees
<1>. QED
  BY <1>1, <1>5, <1>6, <1>7 DEF Paged, Driver

LEMMA DropSame ==
  ASSUME UNCHANGED driver
  PROVE  Drop(<<>>)' = Drop(<<>>)
BY DEF Drop, Request

-----------------------------------------------------------------------------
(* The steps of the readers *)

\* The first step of a read notes the version and has collected nothing.
LEMMA QuietAsk ==
  ASSUME StoreAssumption, Inv, Quiet, NoneAnswered, NEW p \in Client, NEW q \in Queries, Ask(p, q)
  PROVE  Quiet'
<1>1. UNCHANGED <<driver, listing, commit, events, waiting, marked, late>>
  BY DEF Ask, Unread, store
<1>2. PICK x : x = [pc |-> "asked", q |-> q, found |-> <<>>, cursor |-> <<>>, version |-> Version]
  OBVIOUS
<1>3. call' = [call EXCEPT ![p] = x] /\ x.pc = "asked"
  BY <1>2 DEF Ask
<1>4. /\ Len(events) \in Nat /\ Cardinality(marked) \in Nat
  BY FS_CardinalityType DEF Inv, EventsOK, Quiet, ListOK
<1>5. Past(x.version)
  <2>1. x.version = <<Len(events), waiting, Cardinality(marked)>>
    BY <1>2 DEF Version
  <2>. QED
    BY <1>4, <2>1 DEF Past
<1>6. ASSUME Paged, Plan(q).from # "nowhere", Plan(q).pages = "keys"
      PROVE  StandsIn(RowsOf(q), q, <<>>, <<>>)
  <2>1. events \in Seq(Document)
    BY DEF Inv, EventsOK
  <2>2. Plan(q).key \in Seq(Key)
    BY <1>6, PagedKeys
  <2>3. PICK rows \in Seq(Document) : rows = RowsOf(q)
    BY <2>1, <2>2, CollectedIs DEF RowsOf
  <2>4. Collects(q, rows, 0, <<>>) /\ 0 \in 0 .. Len(rows)
    BY NothingKept
  <2>. QED
    BY <2>3, <2>4 DEF StandsIn, Stands
<1>7. PagedRead(x)
  BY <1>2, <1>5, <1>6 DEF PagedRead, Ask
<1>8. Reads(x)
  BY <1>3, <1>7 DEF Reads, ScanRead, JournaledRead, Agreeing
<1>9. OnlyDrops
  BY <1>1 DEF OnlyDrops
<1>. QED
  BY <1>1, <1>3, <1>8, <1>9, QuietReader

\* A fetch answers all at once.
LEMMA QuietFetch ==
  ASSUME StoreAssumption, Inv, Quiet, NoneAnswered, NEW p \in Client, NEW q \in Queries, Fetch(p, q)
  PROVE  Quiet'
<1>1. UNCHANGED <<driver, listing, commit, events, waiting, marked>> /\ Plan(q).pages = "one"
  BY DEF Fetch, Unread, store
<1>2. ~Paged
  BY <1>1, PagedPages
<1>3. PICK found : found = Selected(Plan(q), Rows(Plan(q).from))
  OBVIOUS
<1>4. PICK done : done = Answered(q, found, Version)
  OBVIOUS
<1>5. done.pc = "answered" /\ done.q = q
  BY <1>4, AnsweredIs
<1>6. Reads(done)
  <2>1. Regular(q) /\ done.ok => done.docs = Promised(q)
    BY <1>2, <1>3, <1>4, FetchAgrees
  <2>. QED
    BY <1>5, <2>1 DEF Reads, ScanRead, PagedRead, JournaledRead, Agreeing
<1>7. PICK y : y = [pc |-> IF Torn(q, done.docs) THEN "lookup" ELSE "clean",
                    q |-> q, docs |-> done.docs, version |-> Version]
  OBVIOUS
<1>8. ASSUME driver \in {"mongodb", "tingodb"}, done.docs # <<>>
      PROVE  Reads(y)
  <2>1. done.ok
    BY <1>4, <1>8 DEF Answered
  <2>2. Regular(q)
    BY <1>8 DEF Regular
  <2>3. done.docs = Promised(q)
    BY <1>2, <1>3, <1>4, <2>1, <2>2, FetchAgrees
  <2>4. y.version[1] = Len(events) /\ Len(events) \in Nat /\ y.pc \in {"lookup", "clean"}
    BY <1>7 DEF Version, Inv, EventsOK
  <2>. QED
    BY <1>2, <1>7, <2>3, <2>4 DEF Reads, ScanRead, PagedRead, JournaledRead, Agreeing
<1>9. PICK x : call' = [call EXCEPT ![p] = x] /\ x \in {y, done} /\ Reads(x)
  BY <1>3, <1>4, <1>6, <1>7, <1>8 DEF Fetch
<1>10. x.pc # "adding"
  BY <1>5, <1>7, <1>9
<1>11. OnlyDrops
  <2>1. late' \subseteq late \cup {Drop(<<>>)}
    BY DEF Fetch
  <2>. QED
    BY <1>1, <2>1, DropSame DEF OnlyDrops
<1>. QED
  BY <1>1, <1>9, <1>10, <1>11, QuietReader

LEMMA GrowingStore ==
  ASSUME Inv, Quiet, UNCHANGED <<driver, listing, marked>>,
         NEW new \in Seq(Document), events' = events \o new, Paged => waiting \subseteq waiting'
  PROVE  Growing
<1>1. PICK n \in Nat : n = Len(events)
  BY DEF Inv, EventsOK
<1>2. PICK m \in Nat : m = Len(new)
  OBVIOUS
<1>3. events \in Seq(Document)
  BY DEF Inv, EventsOK
<1>4. Len(events') = n + m
  BY <1>1, <1>2, <1>3, IdsAppend
<1>5. ASSUME m = 0
      PROVE  events' = events
  <2>1. new = <<>>
    BY <1>2, <1>5, EmptySeq
  <2>2. events \o <<>> = events
    BY <1>3, ConcatEmptySeq
  <2>. QED
    BY <2>1, <2>2
<1>6. Cardinality(marked) \in Nat
  BY FS_CardinalityType DEF Quiet, ListOK
<1>. QED
  BY <1>1, <1>2, <1>4, <1>5, <1>6 DEF Growing

LEMMA PromisedSorted ==
  ASSUME StoreAssumption, Inv, driver \in {"mongodb", "tingodb"}, NEW q \in Queries,
         q.op = "getEventsByRevision",
         NEW docs, docs = Promised(q), NEW version, Answered(q, docs, version).ok
  PROVE  Answered(q, docs, version).docs = Promised(q)
<1>1. events \in Seq(Document)
  BY DEF Inv, EventsOK
<1>2. PICK key \in Seq(Key) : key = ByTime
  BY NoOrder
<1>3. Filters(q) /\ Cuts(q) /\ Sorts(q, key)
  BY <1>2, MongodbPlans, TingodbPlans DEF Sorts
<1>4. Held(q) = At(Asked(q)) /\ LastOnly(q)
  BY <1>1, <1>3, HeldIs DEF Filters
<1>5. Ordered(Asked(q)) \in Seq(Document)
  BY <1>1, OrderedIs
<1>6. CutAs(q, Ordered(Asked(q)))
  BY <1>3, <1>5, CutsAs
<1>7. RefinesAll(key, key)
  BY <1>2, PlainOrders DEF RefinesAll
<1>8. docs = Arranged(events, Held(q), key)
  <2>1. Promised(q) = Cut(Ordered(Asked(q)), q)
    BY <1>1, PromisedIs
  <2>2. Promised(q) = Ordered(Asked(q))
    BY <2>1 DEF Cut, Pages
  <2>. QED
    BY <1>2, <1>4, <2>2 DEF Ordered
<1>. QED
  BY <1>1, <1>3, <1>4, <1>6, <1>7, <1>8, KeyedAgrees

\* mongodb and tingodb answer what they found before they looked at the journal.
LEMMA JournaledAnswer ==
  ASSUME StoreAssumption, Inv, NEW a, JournaledRead(a), a.pc \in {"lookup", "clean"},
         driver \in {"mongodb", "tingodb"}, a.q \in Queries, a.q.op = "getEventsByRevision",
         NEW x, x = Answered(a.q, a.docs, a.version)
  PROVE  x.pc = "answered" /\ Reads(x)
<1>1. x.pc = "answered" /\ x.q = a.q
  BY AnsweredIs
<1>2. x.version = a.version
  BY DEF Answered
<1>3. ASSUME x.ok, x.version = Version
      PROVE  x.docs = Promised(x.q)
  <2>1. a.version[1] = Len(events)
    <3>1. a.version = <<Len(events), waiting, Cardinality(marked)>>
      BY <1>2, <1>3 DEF Version
    <3>. QED
      BY <3>1
  <2>2. a.docs = Promised(a.q)
    BY <2>1 DEF JournaledRead
  <2>. QED
    BY <1>1, <1>3, <2>2, PromisedSorted
<1>. QED
  BY <1>1, <1>3 DEF Reads, ScanRead, PagedRead, JournaledRead, Agreeing

LEMMA RejectedReads ==
  ASSUME NEW q
  PROVE  Rejected(q).pc = "answered" /\ Reads(Rejected(q))
BY Untold DEF Rejected

\* A request of a read fails.
LEMMA QuietReadFails ==
  ASSUME StoreAssumption, Inv, Quiet, NoneAnswered, NEW p \in Client, NEW q, ReadFails(p, q)
  PROVE  Quiet'
<1>1. UNCHANGED <<driver, listing, commit, events, waiting, marked, late>>
  BY DEF ReadFails, Unread, store
<1>2. PICK x : x = Rejected(q)
  OBVIOUS
<1>3. PICK y : y = [Rejected(q) EXCEPT !.ok = TRUE, !.version = Version]
  OBVIOUS
<1>4. PICK z : /\ call' = [call EXCEPT ![p] = z]
               /\ z = x \/ (driver = "elasticsearch" /\ z = y)
  BY <1>2, <1>3 DEF ReadFails, Elasticsearch_searchFails
<1>5. x.pc = "answered" /\ Reads(x)
  BY <1>2, RejectedReads
<1>6. y.pc = "answered" /\ y.failed = TRUE /\ y.docs = <<>>
  BY <1>3 DEF Rejected
<1>7. driver = "elasticsearch" => Reads(y)
  BY <1>6 DEF Reads, ScanRead, PagedRead, JournaledRead, Agreeing, FailedSilently
<1>8. z.pc # "adding" /\ Reads(z)
  BY <1>4, <1>5, <1>6, <1>7
<1>9. OnlyDrops
  BY <1>1 DEF OnlyDrops
<1>. QED
  BY <1>1, <1>4, <1>8, <1>9, QuietReader

\* mongodb and tingodb remove a journal entry, look at a commit and repair it.
LEMMA QuietClean ==
  ASSUME StoreAssumption, Inv, Quiet, NoneAnswered, NEW p \in Client, Clean(p)
  PROVE  Quiet'
<1>1. PICK o \in Outcomes(Drop(<<>>)) :
        /\ Takes(Drop(<<>>), o)
        /\ call' = [call EXCEPT ![p] =
             IF o.ok THEN Answered(@.q, @.docs, @.version) ELSE Rejected(@.q)]
  BY DEF Clean
<1>2. UNCHANGED <<driver, listing, commit, events, waiting, marked, late>>
  BY <1>1, DropTakes DEF Clean, Unread
<1>3. PICK a : a = call[p]
  OBVIOUS
<1>4. /\ a.pc = "clean" /\ JournaledRead(a) /\ driver \in {"mongodb", "tingodb"}
      /\ a.q \in Queries /\ a.q.op = "getEventsByRevision"
  BY <1>3 DEF Clean, Quiet, Reads, Inv, ReadsOK, ReadOK, Adds
<1>5. PICK x : x = Answered(a.q, a.docs, a.version)
  OBVIOUS
<1>6. x.pc = "answered" /\ Reads(x)
  BY <1>4, <1>5, JournaledAnswer
<1>7. PICK y : y = Rejected(a.q)
  OBVIOUS
<1>8. y.pc = "answered" /\ Reads(y)
  BY <1>7, RejectedReads
<1>9. PICK z \in {x, y} : call' = [call EXCEPT ![p] = z]
  BY <1>1, <1>3, <1>5, <1>7
<1>10. OnlyDrops
  BY <1>2 DEF OnlyDrops
<1>11. z.pc # "adding" /\ Reads(z)
  BY <1>6, <1>8, <1>9
<1>. QED
  BY <1>2, <1>9, <1>10, <1>11, QuietReader

LEMMA QuietLookup ==
  ASSUME StoreAssumption, Inv, Quiet, NoneAnswered, NEW p \in Client, Lookup(p)
  PROVE  Quiet'
<1>1. UNCHANGED <<driver, listing, commit, events, waiting, marked, late>>
  BY DEF Lookup, Unread, store
<1>2. PICK a : a = call[p]
  OBVIOUS
<1>3. /\ a.pc = "lookup" /\ JournaledRead(a) /\ driver \in {"mongodb", "tingodb"}
      /\ a.q \in Queries /\ a.q.op = "getEventsByRevision"
  BY <1>2 DEF Lookup, Quiet, Reads, Inv, ReadsOK, ReadOK, Adds
<1>4. PICK x : x = Answered(a.q, a.docs, a.version)
  OBVIOUS
<1>5. x.pc = "answered" /\ Reads(x)
  BY <1>3, <1>4, JournaledAnswer
<1>6. PICK y : y = Rejected(a.q)
  OBVIOUS
<1>7. y.pc = "answered" /\ Reads(y)
  BY <1>6, RejectedReads
<1>8. PICK w : w = [pc |-> "repair", q |-> a.q,
                    todo |-> <<Request("insert", Missing(a.docs)), Drop(<<>>)>>]
  OBVIOUS
<1>9. w.pc = "repair" /\ Reads(w)
  BY <1>8, Untold
<1>10. PICK z \in {x, y, w} : call' = [call EXCEPT ![p] = z]
  BY <1>2, <1>4, <1>6, <1>8 DEF Lookup
<1>11. z.pc # "adding" /\ Reads(z)
  BY <1>5, <1>7, <1>9, <1>10
<1>12. OnlyDrops
  BY <1>1 DEF OnlyDrops
<1>. QED
  BY <1>1, <1>10, <1>11, <1>12, QuietReader

LEMMA QuietRepair ==
  ASSUME StoreAssumption, Inv, Quiet, NoneAnswered, NEW p \in Client, Repair(p)
  PROVE  Quiet'
<1>1. driver \in {"mongodb", "tingodb"} /\ ~Paged
  BY DEF Repair, Inv, ReadsOK, ReadOK, Adds, Paged
<1>2. PICK r : r = call[p].todo[1]
  OBVIOUS
<1>3. PICK rest : rest = Tail(call[p].todo)
  OBVIOUS
<1>4. PICK q : q = call[p].q
  OBVIOUS
<1>5. PICK o \in Outcomes(r) :
        /\ Takes(r, o)
        /\ call' = [call EXCEPT ![p] =
             IF ~o.ok THEN Rejected(q)
             ELSE IF \E i \in DOMAIN rest : rest[i].awaited THEN [@ EXCEPT !.todo = rest]
             ELSE [pc |-> "asked", q |-> q, found |-> <<>>, cursor |-> <<>>,
                   version |-> Version']]
        /\ late' = IF o.ok /\ \A i \in DOMAIN rest : ~rest[i].awaited
                   THEN late \cup ToSet(rest) ELSE late
  BY <1>2, <1>3, <1>4 DEF Repair
<1>6. UNCHANGED <<driver, listing, commit, marked>> /\ call[p].pc = "repair"
  BY DEF Repair, Unread
<1>7. PICK x : call' = [call EXCEPT ![p] = x]
               /\ \/ x = Rejected(q)
                  \/ x = [call[p] EXCEPT !.todo = rest]
                  \/ x = [pc |-> "asked", q |-> q, found |-> <<>>, cursor |-> <<>>,
                          version |-> Version']
  BY <1>5
<1>8. x.pc \in {"answered", "repair", "asked"} /\ (x.pc = "answered" => ~x.ok)
  <2>1. CASE x = Rejected(q)
    BY <2>1 DEF Rejected
  <2>2. CASE x = [call[p] EXCEPT !.todo = rest]
    <3>1. call[p] = [pc |-> "repair", q |-> call[p].q, todo |-> call[p].todo]
      BY <1>6 DEF Inv, ReadsOK, ReadOK
    <3>. QED
      BY <2>2, <3>1
  <2>. QED
    BY <1>7, <2>1, <2>2
<1>9. Reads(x)'
  BY <1>1, <1>6, <1>8 DEF Reads, ScanRead, PagedRead, JournaledRead, Agreeing, Paged
<1>10. /\ r \in Requests /\ r.do \in {"insert", "drop"} /\ rest \in {<<>>, <<Drop(<<>>)>>}
       /\ \A i \in DOMAIN r.docs : Genuine(r.docs[i])
  BY <1>2, <1>3, <1>5, <1>6, RepairIs
<1>11. OnlyDrops
  <2>1. ToSet(rest) \subseteq {Drop(<<>>)}
    BY <1>10 DEF ToSet
  <2>. QED
    BY <1>5, <1>6, <2>1, DropSame DEF OnlyDrops
<1>12. New(r, o) \in Seq(Document) /\ events' = events \o New(r, o)
  BY <1>5, <1>6, <1>10, StoreStep DEF Repair, Unread
<1>13. Growing
  BY <1>1, <1>6, <1>12, GrowingStore
<1>14. SamePaged
  BY <1>1 DEF SamePaged
<1>. QED
  BY <1>6, <1>7, <1>8, <1>9, <1>11, <1>13, <1>14, ReaderStep

LEMMA OnePages ==
  ASSUME StoreAssumption, driver \in Driver, ~Paged, NEW q \in Queries
  PROVE  Plan(q).pages = "one"
<1>1. CASE driver \in {"mongodb", "tingodb"}
  BY <1>1, MongodbPlans, TingodbPlans
<1>2. CASE driver = "inmemory"
  BY <1>2, InmemoryPlans, SlicePlans
<1>3. CASE driver = "elasticsearch"
  BY <1>3, ElasticsearchPlans
<1>. QED
  BY <1>1, <1>2, <1>3 DEF Driver, Paged

\* What a reader of pages finds in the table.
LEMMA PageRows ==
  ASSUME StoreAssumption, Inv, OnceOK, Paged, NEW q \in Queries, Regular(q),
         Plan(q).from # "nowhere", Plan(q).pages = "keys"
  PROVE  /\ RowsOf(q) \in Seq(Document)
         /\ RowsOf(q) = Sorted(Rows(Plan(q).from), Plan(q).key)
         /\ Strict(RowsOf(q), Plan(q).key)
         /\ Len(RowsOf(q)) <= Len(events)
<1>1. events \in Seq(Document)
  BY DEF Inv, EventsOK
<1>2. PICK key \in Seq(Key) : key = Plan(q).key
  BY PagedKeys
<1>3. UniqueIds /\ (driver = "dynamodb" => UniqueRevs)
  BY Identified
<1>4. Untied(events, DOMAIN events, key)
  BY <1>1, <1>2, <1>3, PagedKeys, RevisionUntied, IdUntied
<1>5. PICK from : from = Plan(q).from
  OBVIOUS
<1>6. PICK rows : rows = Sorted(Listed(from), key)
  OBVIOUS
<1>7. rows = RowsOf(q)
  BY <1>2, <1>5, <1>6 DEF RowsOf
<1>8. rows \in Seq(Document)
  BY <1>1, <1>5, <1>6, CollectedIs
<1>9. Strict(rows, key)
  BY <1>1, <1>4, <1>6, RowsStrict
<1>10. from = "events" \/ waiting \subseteq Stored
  <2>1. CASE driver = "dynamodb"
    BY <2>1 DEF Inv, AckedIsStored
  <2>2. CASE driver = "azuretable"
    <3>1. Filters(q)
      BY <2>2, AzuretablePlans
    <3>2. q.op = "getUndispatchedEvents" => waiting \subseteq Stored
      BY <2>2 DEF Regular
    <3>. QED
      BY <1>5, <3>1, <3>2 DEF Filters
  <2>. QED
    BY <2>1, <2>2, PagedKeys
<1>11. Rows(from) = Listed(from)
  BY <1>1, <1>10, RowsListed
<1>12. Len(rows) <= Len(events)
  <2>1. rows = Arranged(events, At(Source(from)), key)
    BY <1>1, <1>6, RowsAre
  <2>2. At(Source(from)) \in SUBSET DOMAIN events
    BY <1>1, AtAll
  <2>. QED
    BY <1>1, <2>1, <2>2, NoMore
<1>. QED
  BY <1>2, <1>5, <1>6, <1>7, <1>8, <1>9, <1>11, <1>12

LEMMA PageAnswer ==
  ASSUME StoreAssumption, Inv, OnceOK, Paged, NEW q \in Queries, Regular(q),
         Plan(q).from # "nowhere", Plan(q).pages = "keys",
         NEW rows, rows = RowsOf(q), NEW n \in Nat, n = Len(rows),
         NEW found, Enough(q, rows, n, found), NEW version, Answered(q, found, version).ok
  PROVE  Answered(q, found, version).docs = Promised(q)
<1>1. events \in Seq(Document)
  BY DEF Inv, EventsOK
<1>2. UniqueIds /\ Counting /\ (driver = "dynamodb" => UniqueRevs)
  BY Identified
<1>3. Len(events) <= MaxDocs
  BY <1>2, FewEvents
<1>4. rows = Sorted(Listed(Plan(q).from), Plan(q).key)
  BY DEF RowsOf
<1>5. CASE driver = "azuretable"
  BY <1>1, <1>2, <1>3, <1>4, <1>5, AzuretableAgrees
<1>6. CASE driver = "dynamodb"
  BY <1>1, <1>2, <1>3, <1>4, <1>6, DynamodbAgrees
<1>. QED
  BY <1>5, <1>6, PagedKeys

\* One page further, a reader whom nobody disturbed stands at a later row; when
\* it stops it has enough.
PageStops(q, rest, found) == ~(Len(rest) > Plan(q).size /\ Len(found) < Plan(q).enough)

LEMMA PageTurns ==
  ASSUME StoreAssumption, Inv, OnceOK, Paged, NEW q \in Queries, Regular(q),
         Plan(q).from # "nowhere", Plan(q).pages = "keys",
         NEW rows, rows = RowsOf(q), NEW n \in Nat, n = Len(rows),
         NEW cursor, NEW old, StandsIn(rows, q, old, cursor),
         NEW rest, rest = Remaining(rows, Plan(q).key, cursor),
         NEW page, page = Slice(rest, 0, Plan(q).size),
         NEW found, found = old \o Selected(Plan(q), page)
  PROVE  /\ PageStops(q, rest, found) => Enough(q, rows, n, found)
         /\ ~PageStops(q, rest, found) => StandsIn(rows, q, found, <<page[Len(page)]>>)
<1>1. /\ rows \in Seq(Document) /\ Strict(rows, Plan(q).key) /\ Len(rows) <= Len(events)
  BY PageRows
<1>2. PICK m \in 0 .. n : Collects(q, rows, m, old) /\ Stands(rows, m, cursor)
  BY DEF StandsIn
<1>3. PICK size \in Nat : size = Plan(q).size
  BY PagedKeys DEF Paging
<1>4. PICK enough \in Nat : enough = Plan(q).enough
  BY PagedKeys DEF Paging
<1>5. enough # 0 => size # 0
  BY <1>3, <1>4, PagedKeys DEF Paging
<1>6. m \in Nat /\ m <= n
  BY <1>2
<1>7. Moved(q, rows, n, m, size, rest, page, old \o Selected(Plan(q), page))
  BY <1>1, <1>2, <1>3, <1>6, PageMoves
<1>8. Moved(q, rows, n, m, size, rest, page, found)
  BY <1>7
<1>9. PICK end \in 0 .. n :
        /\ Collects(q, rows, end, found)
        /\ Len(rest) = n - m
        /\ IF n - m > size THEN end = m + size /\ (size # 0 => end # 0 /\ page[Len(page)] = rows[end])
                           ELSE end = n
  BY <1>8 DEF Moved
<1>10. PICK w \in Nat : w = Len(found)
  BY <1>1, <1>9, FoundFits
<1>11. PICK all \in Nat : all = Len(events)
  BY DEF Inv, EventsOK
<1>12. PageStops(q, rest, found) <=> ~(n - m > size /\ w < enough)
  BY <1>3, <1>4, <1>9, <1>10 DEF PageStops
<1>13. ASSUME PageStops(q, rest, found)
       PROVE  Enough(q, rows, n, found)
  <2>1. CASE n - m > size
    <3>1. enough <= w
      BY <1>12, <1>13, <2>1
    <3>2. ~(all <= size)
      BY <1>1, <1>6, <1>11, <2>1
    <3>3. ~OnePage(q)
      BY <1>3, <1>11, <3>2 DEF OnePage
    <3>. QED
      BY <1>4, <1>9, <1>10, <3>1, <3>3 DEF Enough
  <2>2. CASE ~(n - m > size)
    <3>1. end = n
      BY <1>9, <2>2
    <3>. QED
      BY <1>9, <3>1 DEF Enough
  <2>. QED
    BY <2>1, <2>2
<1>14. ASSUME ~PageStops(q, rest, found)
       PROVE  StandsIn(rows, q, found, <<page[Len(page)]>>)
  <2>1. n - m > size /\ size # 0
    BY <1>5, <1>12, <1>14
  <2>2. end # 0 /\ page[Len(page)] = rows[end]
    BY <1>9, <2>1
  <2>3. Stands(rows, end, <<page[Len(page)]>>)
    BY <2>2 DEF Stands
  <2>. QED
    BY <1>9, <2>3 DEF StandsIn
<1>. QED
  BY <1>13, <1>14

\* A page collects, and the last page answers.
LEMMA QuietPage ==
  ASSUME StoreAssumption, Inv, Quiet, NoneAnswered, NEW p \in Client, Page(p)
  PROVE  Quiet'
<1>1. UNCHANGED <<driver, listing, commit, events, waiting, marked, late>>
  BY DEF Page, Unread, store
<1>2. PICK a : a = call[p]
  OBVIOUS
<1>3. PICK q \in Queries : q = a.q
  BY <1>2 DEF Page, Inv, ReadsOK, ReadOK, Adds
<1>4. a.pc = "asked" /\ Plan(q).pages = "keys"
  BY <1>2, <1>3 DEF Page
<1>5. Paged
  BY <1>4, OnePages DEF Inv, Setting
<1>6. /\ a = [pc |-> "asked", q |-> q, found |-> a.found, cursor |-> a.cursor,
              version |-> a.version]
      /\ Reads(a)
  BY <1>2, <1>3, <1>4 DEF Inv, ReadsOK, ReadOK, Quiet
<1>7. /\ Plan(q).from # "nowhere" /\ Past(a.version)
      /\ a.version = Version /\ Regular(q) => StandsIn(RowsOf(q), q, a.found, a.cursor)
  BY <1>3, <1>4, <1>5, <1>6 DEF Reads, PagedRead
<1>8. PICK rest : rest = Remaining(Sorted(Rows(Plan(q).from), Plan(q).key), Plan(q).key, a.cursor)
  OBVIOUS
<1>9. PICK page : page = Slice(rest, 0, Plan(q).size)
  OBVIOUS
<1>10. PICK found : found = a.found \o Selected(Plan(q), page)
  OBVIOUS
<1>11. PICK x : x = IF PageStops(q, rest, found) THEN Answered(q, found, a.version)
                    ELSE [a EXCEPT !.found = found, !.cursor = <<page[Len(page)]>>]
  OBVIOUS
<1>12. call' = [call EXCEPT ![p] = x]
  BY <1>2, <1>3, <1>8, <1>9, <1>10, <1>11 DEF Page, Remaining, PageStops
<1>13. ASSUME a.version = Version, Regular(q)
       PROVE  /\ PageStops(q, rest, found) => Enough(q, RowsOf(q), Len(RowsOf(q)), found)
              /\ ~PageStops(q, rest, found) => StandsIn(RowsOf(q), q, found, <<page[Len(page)]>>)
              /\ Len(RowsOf(q)) \in Nat
  <2>1. OnceOK
    BY DEF Quiet
  <2>2. PICK rows \in Seq(Document) : rows = RowsOf(q)
    BY <1>4, <1>5, <1>7, <1>13, <2>1, PageRows
  <2>3. rest = Remaining(rows, Plan(q).key, a.cursor)
    BY <1>4, <1>5, <1>7, <1>8, <1>13, <2>1, <2>2, PageRows
  <2>4. PICK n \in Nat : n = Len(rows)
    OBVIOUS
  <2>5. StandsIn(rows, q, a.found, a.cursor)
    BY <1>7, <1>13, <2>2
  <2>6. /\ PageStops(q, rest, found) => Enough(q, rows, n, found)
        /\ ~PageStops(q, rest, found) => StandsIn(rows, q, found, <<page[Len(page)]>>)
    BY <1>4, <1>5, <1>7, <1>9, <1>10, <1>13, <2>1, <2>2, <2>3, <2>4, <2>5, PageTurns
  <2>. QED
    BY <2>2, <2>4, <2>6
<1>14. CASE PageStops(q, rest, found)
  <2>1. x = Answered(q, found, a.version)
    BY <1>11, <1>14
  <2>2. x.pc = "answered" /\ x.q = q /\ x.version = a.version
    BY <2>1, AnsweredIs DEF Answered
  <2>3. ASSUME x.ok, x.version = Version, Regular(q)
        PROVE  x.docs = Promised(q)
    <3>1. a.version = Version /\ OnceOK
      BY <2>2, <2>3 DEF Quiet
    <3>2. PICK rows : rows = RowsOf(q)
      OBVIOUS
    <3>3. PICK n \in Nat : n = Len(rows)
      BY <1>13, <2>3, <3>1, <3>2
    <3>4. Enough(q, rows, n, found)
      BY <1>13, <1>14, <2>3, <3>1, <3>2, <3>3
    <3>. QED
      BY <1>4, <1>5, <1>7, <2>1, <2>3, <3>1, <3>2, <3>3, <3>4, PageAnswer
  <2>4. Reads(x)
    BY <2>2, <2>3 DEF Reads, ScanRead, PagedRead, JournaledRead, Agreeing
  <2>. QED
    BY <1>1, <1>12, <2>2, <2>4, QuietReader DEF OnlyDrops
<1>15. CASE ~PageStops(q, rest, found)
  <2>1. /\ x.pc = "asked" /\ x.q = q /\ x.found = found /\ x.cursor = <<page[Len(page)]>>
        /\ x.version = a.version
    BY <1>6, <1>11, <1>15
  <2>2. PagedRead(x)
    BY <1>7, <1>13, <1>15, <2>1 DEF PagedRead
  <2>3. Reads(x)
    BY <2>1, <2>2 DEF Reads, ScanRead, JournaledRead, Agreeing
  <2>. QED
    BY <1>1, <1>12, <2>1, <2>3, QuietReader DEF OnlyDrops
<1>. QED
  BY <1>14, <1>15

LEMMA ScanRows ==
  ASSUME StoreAssumption, Inv, driver = "redis", NEW q \in Queries
  PROVE  /\ Plan(q).from \in {"events", "waiting"}
         /\ Rows(Plan(q).from) = Listed(Plan(q).from)
<1>1. events \in Seq(Document) /\ waiting \subseteq Stored
  BY DEF Inv, EventsOK, AckedIsStored
<1>. QED
  BY <1>1, RedisPlans, SlicePlans, RowsListed DEF Filters, Slices

\* A scan of redis collects keys, and answers with their events when it ends.
LEMMA ScanBegins ==
  ASSUME StoreAssumption, Inv, Quiet, NoneAnswered, NEW p \in Client, Redis_scanBegins(p)
  PROVE  Quiet'
<1>1. UNCHANGED <<driver, listing, commit, events, waiting, marked, late>>
  BY DEF Redis_scanBegins, Unread, store
<1>2. PICK a : a = call[p]
  OBVIOUS
<1>3. PICK q \in Queries : q = a.q
  BY <1>2 DEF Redis_scanBegins, Inv, ReadsOK, ReadOK, Adds
<1>4. a.pc = "asked" /\ Plan(q).pages = "scan"
  BY <1>2, <1>3 DEF Redis_scanBegins
<1>5. Paged /\ driver = "redis"
  BY <1>4, OnePages, PagedPages DEF Inv, Setting
<1>6. /\ a = [pc |-> "asked", q |-> q, found |-> a.found, cursor |-> a.cursor,
              version |-> a.version]
      /\ Reads(a)
  BY <1>2, <1>3, <1>4 DEF Inv, ReadsOK, ReadOK, Quiet
<1>7. Plan(q).from # "nowhere" /\ Past(a.version)
  BY <1>3, <1>4, <1>5, <1>6 DEF Reads, PagedRead
<1>8. PICK x : x = [pc |-> "scan", q |-> q, found |-> Rows(Plan(q).from), cursor |-> a.cursor,
                    version |-> a.version]
  OBVIOUS
<1>9. call' = [call EXCEPT ![p] = x]
  <2>1. call' = [call EXCEPT ![p] = [[a EXCEPT !.pc = "scan"] EXCEPT !.found = Rows(Plan(q).from)]]
    BY <1>2, <1>3 DEF Redis_scanBegins, Inv, Setting
  <2>2. PICK f, old, cursor, v : /\ f = Rows(Plan(q).from) /\ old = a.found
                                 /\ cursor = a.cursor /\ v = a.version
    OBVIOUS
  <2>3. [[a EXCEPT !.pc = "scan"] EXCEPT !.found = f] = x
    <3>1. \A y : y = [pc |-> "asked", q |-> q, found |-> old, cursor |-> cursor, version |-> v] =>
            [y EXCEPT !.pc = "scan"]
              = [pc |-> "scan", q |-> q, found |-> old, cursor |-> cursor, version |-> v]
      OBVIOUS
    <3>2. \A y : y = [pc |-> "scan", q |-> q, found |-> old, cursor |-> cursor, version |-> v] =>
            [y EXCEPT !.found = f]
              = [pc |-> "scan", q |-> q, found |-> f, cursor |-> cursor, version |-> v]
      OBVIOUS
    <3>. QED
      BY <1>6, <1>8, <2>2, <3>1, <3>2, Zenon
  <2>. QED
    BY <2>1, <2>2, <2>3
<1>10. Ids(x.found) = Ids(Listed(Plan(q).from))
  BY <1>5, <1>8, ScanRows
<1>11. PagedRead(x)
  BY <1>7, <1>8, <1>10 DEF PagedRead
<1>12. Reads(x) /\ x.pc # "adding"
  BY <1>5, <1>8, <1>11 DEF Reads, ScanRead, JournaledRead, Agreeing
<1>. QED
  BY <1>1, <1>9, <1>12, QuietReader DEF OnlyDrops

\* A scan of an undisturbed store finds what is listed.
LEMMA ScanFinds ==
  ASSUME StoreAssumption, events \in Seq(Document), NEW from \in {"events", "waiting"}
  PROVE  Chosen(events, {i \in DOMAIN events : Id(events[i]) \in Ids(Listed(from))}) = Listed(from)
<1>1. CASE from = "events"
  <2>1. {i \in DOMAIN events : Id(events[i]) \in Ids(events)} = DOMAIN events
    BY DEF Ids
  <2>. QED
    BY <1>1, <2>1, ChosenAll DEF Listed
<1>2. CASE from = "waiting"
  <2>1. PICK s \in Seq(Document) : s = Keep(events, Undispatched)
    BY KeepIs
  <2>2. ToSet(s) = {events[i] : i \in {j \in DOMAIN events : events[j] \in Undispatched}}
    BY <2>1, ChosenType DEF Keep
  <2>3. Ids(s) = {Id(d) : d \in ToSet(s)}
    BY DEF Ids, ToSet
  <2>4. ASSUME NEW i \in DOMAIN events
        PROVE  Id(events[i]) \in Ids(s) <=> events[i] \in Undispatched
    <3>1. events[i] \in Document
      OBVIOUS
    <3>2. ASSUME events[i] \in Undispatched
          PROVE  Id(events[i]) \in Ids(s)
      BY <2>2, <2>3, <3>2
    <3>3. ASSUME Id(events[i]) \in Ids(s)
          PROVE  events[i] \in Undispatched
      <4>1. PICK d \in ToSet(s) : Id(d) = Id(events[i])
        BY <2>3, <3>3
      <4>2. d \in Undispatched
        BY <2>2
      <4>. QED
        BY <3>1, <4>1, <4>2 DEF Undispatched
    <3>. QED
      BY <3>2, <3>3
  <2>5. {i \in DOMAIN events : Id(events[i]) \in Ids(s)}
          = {i \in DOMAIN events : events[i] \in Undispatched}
    BY <2>4
  <2>. QED
    BY <1>2, <2>1, <2>5 DEF Listed, Keep
<1>. QED
  BY <1>1, <1>2

\* The answer of a scan that returned the keys of ids.
Scanned(ids) == Chosen(events, {i \in DOMAIN events : Id(events[i]) \in ids})
Shared(old, now, some) == (old \cap now) \cup some
Changed(old, now) == (old \ now) \cup (now \ old)
ScanAnswer(q, ids, version) == Answered(q, Selected(Plan(q), Scanned(ids)), version)

LEMMA ScanEnds ==
  ASSUME StoreAssumption, Inv, Quiet, NoneAnswered, NEW p \in Client, Redis_scanEnds(p)
  PROVE  Quiet'
<1>1. UNCHANGED <<driver, listing, commit, events, waiting, marked, late>>
  BY DEF Redis_scanEnds, Unread, store
<1>2. PICK a : a = call[p]
  OBVIOUS
<1>3. PICK q \in Queries : q = a.q
  BY <1>2 DEF Redis_scanEnds, Inv, ReadsOK, ReadOK, Adds
<1>4. a.pc = "scan" /\ Reads(a)
  BY <1>2 DEF Redis_scanEnds, Quiet
<1>5. PICK old : old = Ids(a.found)
  OBVIOUS
<1>6. PICK now : now = Ids(Rows(Plan(q).from))
  OBVIOUS
<1>7. \E some \in SUBSET Changed(Ids(call[p].found), Ids(Rows(Plan(call[p].q).from))) :
         call' = [call EXCEPT ![p] = Rejected(call[p].q)]
         \/ call' = [call EXCEPT ![p] =
              ScanAnswer(call[p].q, Shared(Ids(call[p].found), Ids(Rows(Plan(call[p].q).from)), some),
                         call[p].version)]
  BY DEF Redis_scanEnds, ScanAnswer, Scanned, Shared, Changed
<1>8. PICK some \in SUBSET Changed(old, now) :
        \/ call' = [call EXCEPT ![p] = Rejected(q)]
        \/ call' = [call EXCEPT ![p] = ScanAnswer(q, Shared(old, now, some), a.version)]
  BY <1>2, <1>3, <1>5, <1>6, <1>7
<1>9. PICK found : found = Selected(Plan(q), Scanned(Shared(old, now, some)))
  OBVIOUS
<1>10. PICK x : x = Answered(q, found, a.version)
  OBVIOUS
<1>11. PICK z \in {x, Rejected(q)} : call' = [call EXCEPT ![p] = z]
  BY <1>8, <1>9, <1>10 DEF ScanAnswer
<1>12. x.pc = "answered" /\ x.q = q /\ x.version = a.version
  BY <1>10, AnsweredIs DEF Answered
<1>13. ASSUME x.ok, x.version = Version, Regular(q), driver = "redis"
       PROVE  x.docs = Promised(q)
  <2>1. old = Ids(Listed(Plan(q).from))
    BY <1>3, <1>4, <1>5, <1>12, <1>13 DEF Reads, PagedRead, Paged
  <2>2. Rows(Plan(q).from) = Listed(Plan(q).from) /\ Plan(q).from \in {"events", "waiting"}
    BY <1>13, ScanRows
  <2>3. Shared(old, now, some) = Ids(Listed(Plan(q).from))
    BY <1>6, <1>8, <2>1, <2>2 DEF Shared, Changed
  <2>4. events \in Seq(Document) /\ Counting
    BY <1>13 DEF Inv, EventsOK, Quiet, OnceOK
  <2>5. found = Selected(Plan(q), Listed(Plan(q).from))
    BY <1>9, <2>2, <2>3, <2>4, ScanFinds DEF Scanned
  <2>. QED
    BY <1>10, <1>13, <2>4, <2>5, RedisAgrees
<1>14. driver = "redis"
  BY <1>4 DEF Reads, ScanRead
<1>15. Reads(x)
  BY <1>12, <1>13, <1>14 DEF Reads, ScanRead, PagedRead, JournaledRead, Agreeing
<1>16. z.pc # "adding" /\ Reads(z)
  BY <1>11, <1>12, <1>15, RejectedReads
<1>. QED
  BY <1>1, <1>11, <1>16, QuietReader DEF OnlyDrops

\* A client that has its answer forgets the call.
LEMMA QuietDone ==
  ASSUME StoreAssumption, Inv, Quiet, NEW p \in Client, Done(p)
  PROVE  Quiet'
<1>1. /\ UNCHANGED <<driver, listing, commit, events, waiting, marked, late>>
      /\ call' = [call EXCEPT ![p] = Idle] /\ Idle.pc = "idle"
  BY DEF Done, store, Idle
<1>2. Growing /\ SamePaged
  BY <1>1, StoreUnchanged
<1>3. PICK x : x = Idle
  OBVIOUS
<1>4. ListOK' /\ OnceOK'
  BY <1>1, <1>2, <1>3, ListsKept DEF Quiet, OnlyDrops
<1>5. ASSUME NEW q \in Client
      PROVE  Reads(call[q])'
  <2>1. CASE q = p
    <3>1. call'[q] = x /\ x.pc = "idle"
      BY <1>1, <1>3, <2>1 DEF Inv, Setting
    <3>2. Reads(call[q])' = Reads(x)'
      BY <3>1
    <3>3. Reads(x)'
      BY <3>1 DEF Reads, ScanRead, PagedRead, JournaledRead, Agreeing
    <3>. QED
      BY <3>2, <3>3
  <2>2. CASE q # p
    <3>1. call'[q] = call[q] /\ Reads(call[q])
      BY <1>1, <2>2 DEF Inv, Setting, Quiet
    <3>. QED
      BY <1>1, <1>2, <3>1, ReadsGrow
  <2>. QED
    BY <2>1, <2>2
<1>. QED
  BY <1>4, <1>5 DEF Quiet

\* What a writer does, seen by the readers.
LEMMA WriterQuiet ==
  ASSUME StoreAssumption, Inv, Quiet, Growing, NoneAnswered, ListOK', OnceOK',
         NEW p \in Client, NEW x, call' = [call EXCEPT ![p] = x], x.pc \in {"idle", "adding"}
  PROVE  Quiet'
<1>1. ASSUME NEW q \in Client
      PROVE  Reads(call[q])'
  <2>1. CASE q = p
    <3>1. call'[q] = x
      BY <2>1 DEF Inv, Setting
    <3>2. Reads(call[q])' = Reads(x)'
      BY <3>1
    <3>3. Reads(x)'
      BY DEF Reads, ScanRead, PagedRead, JournaledRead, Agreeing
    <3>. QED
      BY <3>2, <3>3
  <2>2. CASE q # p
    <3>1. call'[q] = call[q] /\ Reads(call[q]) /\ call[q].pc # "answered"
      BY <2>2 DEF Inv, Setting, Quiet, NoneAnswered
    <3>. QED
      BY <3>1, ReadsGrow
  <2>. QED
    BY <2>1, <2>2
<1>. QED
  BY <1>1 DEF Quiet

\* A client that only writes in the store of the others' calls.
LEMMA CallsQuiet ==
  ASSUME StoreAssumption, Inv, Quiet, Growing, NoneAnswered, ListOK', OnceOK', UNCHANGED call
  PROVE  Quiet'
<1>1. ASSUME NEW q \in Client
      PROVE  Reads(call[q])'
  <2>1. call'[q] = call[q] /\ Reads(call[q]) /\ call[q].pc # "answered"
    BY DEF Quiet, NoneAnswered
  <2>. QED
    BY <2>1, ReadsGrow
<1>. QED
  BY <1>1 DEF Quiet

-----------------------------------------------------------------------------
(* The steps of the writers and the dispatcher *)

\* An event that is marked was listed, or is marked already.
LEMMA MarkedIs ==
  ASSUME StoreAssumption, Inv, Quiet, Paged, listing,
         NEW c \in CommitId, NEW i \in DOMAIN commit[c], NEW id, id = <<c, i - 1>>, Mark(id)
  PROVE  /\ id \in Made
         /\ waiting' = waiting \ {id}
         /\ marked' \subseteq marked \cup {id} /\ marked \subseteq marked'
         /\ marked' # marked => id \in waiting
         /\ id \in waiting => marked' = marked \cup {id}
<1>1. id \in Made
  <2>1. Id(commit[c][i]) = id
    BY Originals DEF Inv
  <2>2. id \in Ids(commit[c])
    BY <2>1 DEF Ids
  <2>. QED
    BY <2>2 DEF Made
<1>2. waiting' = waiting \ {id}
  BY DEF Mark, SetEventToDispatched, Redis_setEventToDispatched, Dynamodb_setEventToDispatched,
         Azuretable_setEventToDispatched, Paged
<1>3. SetEventToDispatched(id).ok = IF driver = "azuretable" THEN id \in waiting ELSE TRUE
  BY DEF SetEventToDispatched, Redis_setEventToDispatched, Dynamodb_setEventToDispatched,
         Azuretable_setEventToDispatched, Paged
<1>4. marked' = IF SetEventToDispatched(id).ok THEN marked \cup {id} ELSE marked
  BY DEF Mark
<1>5. driver # "azuretable" => id \in waiting \cup marked
  <2>1. SUFFICES ASSUME driver # "azuretable", id \notin waiting
                 PROVE  id \in marked
    OBVIOUS
  <2>2. id[1] = c /\ id[1] \in acked
    BY <2>1 DEF Mark
  <2>3. Lossless
    BY DEF Lossless, Paged
  <2>. QED
    BY <2>1, <2>2, <2>3 DEF Inv, AckedIsStored
<1>. QED
  BY <1>1, <1>2, <1>3, <1>4, <1>5

\* Marking an event as dispatched takes it off the list for good.
LEMMA MarksGrow ==
  ASSUME StoreAssumption, Inv, Quiet, NEW c \in CommitId, NEW i \in DOMAIN commit[c],
         NEW id, id = <<c, i - 1>>, Mark(id)
  PROVE  Growing /\ IsFiniteSet(marked')
<1>1. UNCHANGED <<driver, listing, events>> /\ Len(events) \in Nat
  BY DEF Mark, Inv, EventsOK
<1>2. IsFiniteSet(marked)
  BY DEF Quiet, ListOK
<1>3. marked' = marked \/ marked' = marked \cup {id}
  BY DEF Mark
<1>4. /\ IsFiniteSet(marked \cup {id})
      /\ Cardinality(marked \cup {id}) = IF id \in marked THEN Cardinality(marked)
                                         ELSE Cardinality(marked) + 1
  BY <1>2, FS_AddElement
<1>5. Cardinality(marked) \in Nat
  BY <1>2, FS_CardinalityType
<1>6. /\ IsFiniteSet(marked') /\ Cardinality(marked') \in Nat
      /\ Cardinality(marked) <= Cardinality(marked')
      /\ Cardinality(marked') = Cardinality(marked) => marked' = marked
  <2>1. CASE marked' = marked
    BY <1>2, <1>5, <2>1
  <2>2. CASE marked' = marked \cup {id} /\ id \in marked
    <3>1. marked' = marked
      BY <2>2
    <3>. QED
      BY <1>2, <1>5, <3>1
  <2>3. CASE marked' = marked \cup {id} /\ id \notin marked
    <3>1. Cardinality(marked') = Cardinality(marked) + 1
      BY <1>4, <2>3
    <3>. QED
      BY <1>4, <1>5, <2>3, <3>1
  <2>. QED
    BY <1>3, <2>1, <2>2, <2>3
<1>7. Paged /\ marked' = marked => waiting \subseteq waiting'
  <2>1. SUFFICES ASSUME Paged, marked' = marked
                 PROVE  waiting \subseteq waiting'
    OBVIOUS
  <2>2. CASE listing
    <3>1. waiting' = waiting \ {id} /\ (id \in waiting => marked' = marked \cup {id})
      BY <2>1, <2>2, MarkedIs
    <3>2. waiting \cap marked = {}
      BY <2>1, <2>2 DEF Quiet, ListOK
    <3>. QED
      BY <2>1, <3>1, <3>2
  <2>3. CASE ~listing
    <3>1. driver = "dynamodb"
      BY <2>3 DEF Inv, Setting
    <3>. QED
      BY <2>3, <3>1 DEF Mark, SetEventToDispatched, Dynamodb_setEventToDispatched
  <2>. QED
    BY <2>2, <2>3
<1>. QED
  BY <1>1, <1>5, <1>6, <1>7 DEF Growing

LEMMA QuietMark ==
  ASSUME StoreAssumption, Inv, Quiet, NoneAnswered, NEW c \in CommitId, NEW i \in DOMAIN commit[c],
         Mark(<<c, i - 1>>)
  PROVE  Quiet'
<1>1. PICK id : id = <<c, i - 1>>
  OBVIOUS
<1>2. Mark(id)
  BY <1>1
<1>3. Growing /\ IsFiniteSet(marked')
  BY <1>1, <1>2, MarksGrow
<1>4. UNCHANGED <<driver, listing, commit, events, late, acked, call>>
  BY <1>2 DEF Mark
<1>5. Made' = Made
  BY <1>4 DEF Made, Ids, Id
<1>6. ListOK'
  <2>1. ASSUME driver = "redis"
        PROVE  marked' \subseteq Stored'
    <3>1. Paged /\ listing /\ Stored' = Stored
      BY <1>4, <2>1 DEF Paged, Inv, Setting, Stored, Ids, Id
    <3>2. marked' \subseteq marked \cup {id} /\ (marked' # marked => id \in waiting)
      BY <1>1, <1>2, <3>1, MarkedIs
    <3>3. waiting \subseteq Stored /\ marked \subseteq Stored
      BY <2>1 DEF Inv, AckedIsStored, Quiet, ListOK
    <3>. QED
      BY <3>1, <3>2, <3>3
  <2>2. ASSUME Paged', listing'
        PROVE  /\ waiting' \cap marked' = {} /\ waiting' \cup marked' \subseteq Made'
               /\ \A r : Unlisted(r) => Unlisted(r)'
    <3>1. Paged /\ listing
      BY <1>4, <2>2 DEF Paged
    <3>2. /\ id \in Made /\ waiting' = waiting \ {id}
          /\ marked' \subseteq marked \cup {id} /\ (marked' # marked => id \in waiting)
      BY <1>1, <1>2, <3>1, MarkedIs
    <3>3. waiting \cap marked = {} /\ waiting \cup marked \subseteq Made
      BY <3>1 DEF Quiet, ListOK
    <3>4. waiting' \cup marked' \subseteq waiting \cup marked
      BY <3>2
    <3>. QED
      BY <1>5, <3>2, <3>3, <3>4 DEF Unlisted, Ids, Id
  <2>3. ASSUME Paged', listing'
        PROVE  /\ \A q \in Client : Adds(q)' =>
                    \A j \in DOMAIN call'[q].todo :
                      call'[q].todo[j].do = "list" => Unlisted(call[q].todo[j])'
               /\ \A r \in late' : r.do = "list" => Unlisted(r)'
    <3>1. Paged /\ listing
      BY <1>4, <2>3 DEF Paged
    <3>2. ASSUME NEW q \in Client, Adds(q)', NEW j \in DOMAIN call'[q].todo,
                 call'[q].todo[j].do = "list"
          PROVE  Unlisted(call[q].todo[j])'
      <4>1. PICK r : r = call[q].todo[j]
        OBVIOUS
      <4>2. Unlisted(r)
        BY <1>4, <3>1, <3>2, <4>1 DEF Quiet, ListOK, Adds
      <4>3. Unlisted(r)'
        BY <2>2, <2>3, <4>2
      <4>4. call'[q].todo[j] = r
        BY <1>4, <4>1
      <4>. QED
        BY <4>3, <4>4 DEF Unlisted
    <3>3. \A r \in late' : r.do = "list" => Unlisted(r)'
      BY <1>4, <2>2, <2>3, <3>1 DEF Quiet, ListOK
    <3>. QED
      BY <3>2, <3>3
  <2>. QED
    BY <1>3, <2>1, <2>2, <2>3, <1>4 DEF ListOK
<1>7. OnceOK'
  BY <1>4 DEF Quiet, OnceOK, Adds, UniqueIds, Id, Counting, Elsewhere
<1>. QED
  BY <1>3, <1>4, <1>6, <1>7, CallsQuiet

\* The empty store.
LEMMA QuietInit ==
  ASSUME StoreAssumption, Init
  PROVE  Quiet
<1>1. IsFiniteSet(marked) /\ marked = {} /\ waiting = {} /\ late = {}
  BY FS_EmptySet DEF Init
<1>2. \A q \in Client : call[q] = Idle /\ Idle.pc = "idle"
  BY DEF Init, Idle
<1>3. ListOK
  BY <1>1, <1>2 DEF ListOK, Adds
<1>4. DOMAIN events = {}
  BY DEF Init
<1>5. OnceOK
  BY <1>1, <1>2, <1>4 DEF OnceOK, UniqueIds, Counting, Adds
<1>6. \A q \in Client : Reads(call[q])
  BY <1>2 DEF Reads, ScanRead, PagedRead, JournaledRead, Agreeing
<1>. QED
  BY <1>3, <1>5, <1>6 DEF Quiet

\* The requests of one commit that name one event each.
OfCommit(r, c) ==
  /\ r \in Requests /\ r.do \in {"put", "list"} /\ r.awaited
  /\ \E j \in DOMAIN commit[c] : r.docs = <<commit[c][j]>>
InTurn(docs) == \A i \in DOMAIN docs : docs[i].seq = i - 1
Apart(r, ids) == Ids(r.docs) \cap (waiting \cup marked \cup ids) = {}
LaterLists(ids) ==
  /\ \A q \in Client : Adds(q)' =>
       \A j \in DOMAIN call'[q].todo :
         call'[q].todo[j].do = "list" => Apart(call'[q].todo[j], ids)
  /\ \A r \in late' : r.do = "list" => Apart(r, ids)

\* No two of the requests that store and list the events of a commit are the same.
LEMMA OnceEach ==
  ASSUME NEW docs \in Seq(Document), InTurn(docs), driver \in {"dynamodb", "azuretable"},
         NEW all, all = AddEvents(docs)
  PROVE  Once(all)
<1>1. ASSUME NEW i \in DOMAIN docs, NEW j \in DOMAIN docs, <<docs[i]>> = <<docs[j]>>
      PROVE  i = j
  <2>1. docs[i] = docs[j]
    BY <1>1
  <2>2. docs[i].seq = i - 1 /\ docs[j].seq = j - 1
    BY DEF InTurn
  <2>3. i \in Int /\ j \in Int
    OBVIOUS
  <2>. QED
    BY <2>1, <2>2, <2>3
<1>2. CASE all = OneByOne(docs, <<"put", "list">>)
  <2>1. \A i \in DOMAIN docs : /\ all[2 * i - 1] = Request("put", <<docs[i]>>)
                               /\ all[2 * i] = Request("list", <<docs[i]>>)
    BY <1>2, PutAndList
  <2>2. \A k \in DOMAIN all : \E i \in DOMAIN docs : k = 2 * i - 1 \/ k = 2 * i
    BY <1>2, PutAndList
  <2>3. ASSUME NEW a \in DOMAIN all, NEW b \in DOMAIN all, all[a] = all[b]
        PROVE  a = b
    <3>1. PICK i \in DOMAIN docs : a = 2 * i - 1 \/ a = 2 * i
      BY <2>2
    <3>2. PICK j \in DOMAIN docs : b = 2 * j - 1 \/ b = 2 * j
      BY <2>2
    <3>3. PICK u, v : u = <<docs[i]>> /\ v = <<docs[j]>>
      OBVIOUS
    <3>4. /\ all[2 * i - 1] = Request("put", u) /\ all[2 * i] = Request("list", u)
          /\ all[2 * j - 1] = Request("put", v) /\ all[2 * j] = Request("list", v)
      BY <2>1, <3>3
    <3>5. /\ Request("put", u) # Request("list", v) /\ Request("list", u) # Request("put", v)
          /\ Request("put", u) = Request("put", v) => u = v
          /\ Request("list", u) = Request("list", v) => u = v
      BY DEF Request
    <3>6. PICK pu, lu, pv, lv : /\ pu = Request("put", u) /\ lu = Request("list", u)
                                /\ pv = Request("put", v) /\ lv = Request("list", v)
      OBVIOUS
    <3>7. (a = 2 * i - 1 /\ all[a] = pu) \/ (a = 2 * i /\ all[a] = lu)
      BY <3>1, <3>4, <3>6
    <3>8. (b = 2 * j - 1 /\ all[b] = pv) \/ (b = 2 * j /\ all[b] = lv)
      BY <3>2, <3>4, <3>6
    <3>9. pu # lv /\ lu # pv /\ (pu = pv => u = v) /\ (lu = lv => u = v)
      BY <3>5, <3>6
    <3>10. u = v /\ ((a = 2 * i - 1 /\ b = 2 * j - 1) \/ (a = 2 * i /\ b = 2 * j))
      BY <2>3, <3>7, <3>8, <3>9
    <3>11. i = j
      BY <1>1, <3>3, <3>10
    <3>. QED
      BY <3>10, <3>11
  <2>. QED
    BY <2>3 DEF Once
<1>3. CASE all = OneByOne(docs, <<"put">>)
  <2>1. all \in Seq(Requests) /\ Len(all) = Len(docs)
    BY <1>3, PutOnly
  <2>2. \A i \in DOMAIN docs : all[i] = Request("put", <<docs[i]>>)
    BY <1>3, PutOnly
  <2>3. DOMAIN all = DOMAIN docs
    BY <2>1
  <2>4. ASSUME NEW a \in DOMAIN all, NEW b \in DOMAIN all, all[a] = all[b]
        PROVE  a = b
    <3>1. Request("put", <<docs[a]>>) = Request("put", <<docs[b]>>)
      BY <2>2, <2>3, <2>4
    <3>2. <<docs[a]>> = <<docs[b]>>
      BY <3>1 DEF Request
    <3>. QED
      BY <1>1, <2>3, <3>2
  <2>. QED
    BY <2>4 DEF Once
<1>4. all = OneByOne(docs, <<"put", "list">>) \/ all = OneByOne(docs, <<"put">>)
  BY DEF AddEvents, Dynamodb_addEvents, Azuretable_addEvents
<1>. QED
  BY <1>2, <1>3, <1>4

\* What a request for one event of a commit names.
LEMMA OfCommitIs ==
  ASSUME Inv, NEW c \in CommitId, NEW r, OfCommit(r, c)
  PROVE  \E d \in Document : /\ r.docs = <<d>> /\ d.commit = c /\ Genuine(d)
                             /\ Ids(r.docs) = {Id(d)}
                             /\ Ids(r.docs) \subseteq Made
<1>1. PICK j \in DOMAIN commit[c] : r.docs = <<commit[c][j]>>
  BY DEF OfCommit
<1>2. PICK d : d = commit[c][j]
  OBVIOUS
<1>3. CommitsOK
  BY DEF Inv
<1>4. Genuine(d) /\ d \in Document /\ Id(d) = <<c, j - 1>>
  BY <1>2, <1>3, Originals
<1>5. Ids(<<d>>) = {Id(d)}
  BY <1>4, OneDoc
<1>6. d.commit = c
  BY <1>2, <1>3 DEF CommitsOK, Counted
<1>7. Id(d) \in Made
  BY <1>2 DEF Made, Ids
<1>. QED
  BY <1>1, <1>2, <1>4, <1>5, <1>6, <1>7

\* Two of them with the same verb name different events.
LEMMA ListsApart ==
  ASSUME Inv, NEW c \in CommitId, NEW e \in CommitId, NEW r, NEW q, OfCommit(r, c), OfCommit(q, e),
         r.do = q.do, r # q \/ c # e
  PROVE  Ids(r.docs) \cap Ids(q.docs) = {}
<1>1. PICK j \in DOMAIN commit[c] : r.docs = <<commit[c][j]>>
  BY DEF OfCommit
<1>2. PICK k \in DOMAIN commit[e] : q.docs = <<commit[e][k]>>
  BY DEF OfCommit
<1>3. CommitsOK
  BY DEF Inv
<1>4. commit[c][j] \in Document /\ Id(commit[c][j]) = <<c, j - 1>>
  BY <1>3, Originals
<1>5. commit[e][k] \in Document /\ Id(commit[e][k]) = <<e, k - 1>>
  BY <1>3, Originals
<1>6. Ids(r.docs) = {<<c, j - 1>>}
  BY <1>1, <1>4, OneDoc
<1>7. Ids(q.docs) = {<<e, k - 1>>}
  BY <1>2, <1>5, OneDoc
<1>8. SUFFICES ASSUME <<c, j - 1>> = <<e, k - 1>>
               PROVE  FALSE
  BY <1>6, <1>7
<1>9. commit[c] \in Seq(Document) /\ commit[e] \in Seq(Document)
  BY <1>3 DEF CommitsOK
<1>10. j \in Int /\ k \in Int /\ c = e /\ j - 1 = k - 1
  BY <1>8, <1>9
<1>11. j = k
  BY <1>10
<1>12. r.docs = q.docs
  BY <1>1, <1>2, <1>10, <1>11
<1>13. r \in Requests /\ q \in Requests /\ r.awaited /\ q.awaited
  BY DEF OfCommit
<1>14. r.awaited = q.awaited
  BY <1>13 DEF Requests
<1>15. r = q
  BY <1>12, <1>13, <1>14 DEF Requests
<1>. QED
  BY <1>10, <1>15

\* The requests that a client of dynamodb or azuretable has still to send.
LEMMA WritersOf ==
  ASSUME StoreAssumption, Inv, driver \in {"dynamodb", "azuretable"}, NEW p \in Client, Adds(p)
  PROVE  /\ call[p].todo \in Seq(Requests)
         /\ \A j \in DOMAIN call[p].todo : OfCommit(call[p].todo[j], call[p].c)
<1>1. PICK c, docs, all : c = call[p].c /\ docs = commit[c] /\ all = AllOf(p)
  OBVIOUS
<1>2. c \in CommitId /\ docs \in Seq(Document) /\ docs # <<>> /\ Progress(p)
  BY <1>1, WriterIs
<1>3. Singles(all, docs)
  <2>1. all = AddEvents(docs)
    BY <1>1 DEF AllOf
  <2>. QED
    BY <1>2, <2>1, SingleRequests
<1>4. all \in Seq(Requests) /\ \A k \in DOMAIN all : OfCommit(all[k], c)
  <2>1. all \in Seq(Requests)
    BY <1>3 DEF Singles
  <2>2. \A k \in DOMAIN all : /\ all[k].do \in {"put", "list"} /\ all[k].awaited
                              /\ \E j \in DOMAIN docs : all[k].docs = <<docs[j]>>
    BY <1>3 DEF Singles
  <2>3. \A k \in DOMAIN all : all[k] \in Requests
    BY <2>1
  <2>. QED
    BY <1>1, <2>1, <2>2, <2>3 DEF OfCommit
<1>5. CASE driver = "azuretable"
  <2>1. PICK todo \in Seq(ToSet(all)) : todo = call[p].todo
    BY <1>1, <1>2, <1>5 DEF Progress
  <2>2. \A q \in ToSet(all) : q \in Requests /\ OfCommit(q, c)
    BY <1>4 DEF ToSet, OfCommit
  <2>3. ToSet(all) \subseteq Requests
    BY <2>2
  <2>4. todo \in Seq(Requests)
    BY <2>3
  <2>5. \A j \in DOMAIN todo : OfCommit(todo[j], c)
    BY <2>2
  <2>. QED
    BY <1>1, <2>1, <2>4, <2>5
<1>6. CASE driver = "dynamodb"
  <2>1. PICK k \in DOMAIN all : call[p].todo = SubSeq(all, k, Len(all))
    BY <1>1, <1>2, <1>6 DEF Progress
  <2>2. PICK todo : todo = SubSeq(all, k, Len(all))
    OBVIOUS
  <2>3. todo \in Seq(Requests)
    BY <1>4, <2>2, SuffixStep
  <2>4. \A j \in DOMAIN todo : todo[j] = all[k + j - 1] /\ k + j - 1 \in DOMAIN all
    BY <1>4, <2>2, SuffixStep
  <2>. QED
    BY <1>1, <1>4, <2>1, <2>2, <2>3, <2>4
<1>. QED
  BY <1>5, <1>6

\* A list request of an answered call names one event of its commit.
LEMMA LateOf ==
  ASSUME Inv, OnceOK, NEW r \in late, r.do = "list"
  PROVE  driver = "azuretable" /\ \E c \in CommitId : OfCommit(r, c)
<1>1. /\ r \in Requests /\ driver = "azuretable"
      /\ \E c \in CommitId : \E i \in DOMAIN commit[c] : r.docs = <<commit[c][i]>>
  BY DEF Inv, LateOK
<1>2. r.awaited
  BY <1>1 DEF OnceOK
<1>. QED
  BY <1>1, <1>2 DEF OfCommit

\* Events that come to be listed were not, and no other request lists them.
LEMMA ListsAfter ==
  ASSUME Inv, Quiet, UNCHANGED <<driver, listing, commit, marked>>, NEW ids,
         waiting' \subseteq waiting \cup ids, Stored \subseteq Stored',
         Paged /\ listing => ids \subseteq Made,
         Paged /\ listing => ids \cap marked = {},
         Paged /\ listing => LaterLists(ids)
  PROVE  ListOK'
<1>1. IsFiniteSet(marked') /\ (driver = "redis" => marked' \subseteq Stored')
  BY DEF Quiet, ListOK
<1>2. Made' = Made
  BY DEF Made, Ids, Id
<1>3. ASSUME Paged', listing'
      PROVE  /\ waiting' \cap marked' = {} /\ waiting' \cup marked' \subseteq Made'
             /\ \A q \in Client : Adds(q)' =>
                  \A j \in DOMAIN call'[q].todo :
                    call'[q].todo[j].do = "list" => Unlisted(call[q].todo[j])'
             /\ \A r \in late' : r.do = "list" => Unlisted(r)'
  <2>1. Paged /\ listing
    BY <1>3 DEF Paged
  <2>2. waiting \cap marked = {} /\ waiting \cup marked \subseteq Made
    BY <2>1 DEF Quiet, ListOK
  <2>3. \A r : Apart(r, ids) => Unlisted(r)'
    BY DEF Apart, Unlisted, Ids, Id
  <2>4. ASSUME NEW q \in Client, Adds(q)', NEW j \in DOMAIN call'[q].todo,
               call'[q].todo[j].do = "list"
        PROVE  Unlisted(call[q].todo[j])'
    <3>1. PICK r : r = call'[q].todo[j]
      OBVIOUS
    <3>2. Apart(r, ids)
      BY <2>1, <2>4, <3>1 DEF LaterLists
    <3>3. Unlisted(r)'
      BY <2>3, <3>2
    <3>. QED
      BY <3>1, <3>3 DEF Unlisted
  <2>5. \A r \in late' : r.do = "list" => Unlisted(r)'
    BY <2>1, <2>3 DEF LaterLists
  <2>. QED
    BY <1>2, <2>1, <2>2, <2>4, <2>5
<1>. QED
  BY <1>1, <1>3 DEF ListOK

\* A client turns to a new commit: none of its events is listed yet.
LEMMA QuietAdd ==
  ASSUME StoreAssumption, Inv, Quiet, NoneAnswered, NEW p \in Client, NEW c \in CommitId,
         NEW n \in Sizes, Add(p, c, n)
  PROVE  Quiet'
<1>1. n \in Nat \ {0}
  BY DEF Parameters
<1>2. /\ call[p].pc = "idle" /\ commit[c] = <<>>
      /\ UNCHANGED <<driver, listing, events, waiting, marked, late, acked>>
  BY DEF Add, store
<1>3. base[p] \in Nat /\ clock \in Nat
  BY DEF Inv, TypeOK, CountsOK
<1>4. PICK at \in Stamps(n) :
        LET docs == [i \in 1..n |-> Doc(c, i - 1, n, base[p], at[i])]
        IN  /\ clock' = Max({clock, at[n]})
            /\ commit' = [commit EXCEPT ![c] = docs]
            /\ call' = [call EXCEPT ![p] = [pc |-> "adding", c |-> c, todo |-> AddEvents(docs)]]
  BY DEF Add
<1>5. PICK docs : docs = [i \in 1..n |-> Doc(c, i - 1, n, base[p], at[i])]
  OBVIOUS
<1>6. PICK all : all = AddEvents(docs)
  OBVIOUS
<1>7. PICK x : x = [pc |-> "adding", c |-> c, todo |-> all]
  OBVIOUS
<1>8. commit' = [commit EXCEPT ![c] = docs] /\ call' = [call EXCEPT ![p] = x]
  BY <1>4, <1>5, <1>6, <1>7
<1>9. x.pc = "adding" /\ x.c = c /\ x.todo = all
  BY <1>7
<1>10. /\ docs \in Seq(Document) /\ docs # <<>>
       /\ \A i \in DOMAIN docs : docs[i].commit = c /\ docs[i].seq = i - 1
  <2>1. PICK first \in Nat : first = base[p]
    BY <1>3
  <2>2. PICK m \in Nat \ {0} : m = n
    BY <1>1
  <2>3. at \in [1 .. n -> Nat]
    BY <1>1, <1>3, StampsAre
  <2>4. PICK u \in [1 .. m -> Nat] : u = at
    BY <2>2, <2>3
  <2>5. docs = NewEvents(c, m, first, u)
    BY <1>5, <2>1, <2>2, <2>4 DEF NewEvents
  <2>6. FreshDocs(docs, c, m, first)
    BY <2>5, NewDocs
  <2>. QED
    BY <2>6 DEF FreshDocs
<1>11. commit \in [CommitId -> Seq(Document)] /\ DOMAIN commit = CommitId
  BY DEF Inv, CommitsOK
<1>12. Made \subseteq Made'
  <2>1. \A e \in CommitId : e # c => commit'[e] = commit[e]
    BY <1>8, <1>11
  <2>2. Ids(commit[c]) = {}
    BY <1>2 DEF Ids
  <2>3. \A e \in CommitId : Ids(commit[e]) \subseteq Ids(commit[e])'
    BY <2>1, <2>2 DEF Ids, Id
  <2>. QED
    BY <2>3 DEF Made
<1>13. \A id \in Made : id[1] # c
  <2>1. ASSUME NEW e \in CommitId, NEW i \in DOMAIN commit[e]
        PROVE  Id(commit[e][i])[1] # c
    <3>1. e # c
      BY <1>2, <2>1
    <3>2. CommitsOK
      BY DEF Inv
    <3>3. Id(commit[e][i]) = <<e, i - 1>>
      BY <3>2, Originals
    <3>. QED
      BY <3>1, <3>3
  <2>. QED
    BY <2>1 DEF Made, Ids
<1>14. \A q \in Client : Adds(q)' => (q = p /\ call'[q] = x) \/ (q # p /\ Adds(q) /\ call'[q] = call[q])
  BY <1>8 DEF Adds, Inv, Setting
<1>15. \A r : Unlisted(r) => Unlisted(r)'
  BY <1>2 DEF Unlisted, Ids, Id
<1>16. ASSUME driver \in {"dynamodb", "azuretable"}
       PROVE  Once(all) /\ Singles(all, docs)
  <2>1. InTurn(docs)
    BY <1>10 DEF InTurn
  <2>2. Once(all)
    BY <1>6, <1>10, <1>16, <2>1, OnceEach
  <2>3. Singles(all, docs)
    BY <1>6, <1>10, <1>16, SingleRequests
  <2>. QED
    BY <2>2, <2>3
<1>17. ASSUME Paged, NEW j \in DOMAIN all, all[j].do = "list"
       PROVE  \A id \in Ids(all[j].docs) : id[1] = c
  <2>1. CASE driver = "redis"
    <3>1. all = <<Request("incr", docs), Request("mset", docs)>>
      BY <1>6, <1>10, <2>1, BatchRequests
    <3>2. PICK r, s : r = Request("incr", docs) /\ s = Request("mset", docs)
      OBVIOUS
    <3>3. r.do = "incr" /\ s.do = "mset"
      BY <3>2 DEF Request
    <3>4. all = <<r, s>>
      BY <3>1, <3>2
    <3>. QED
      BY <1>17, <3>3, <3>4
  <2>2. CASE driver \in {"dynamodb", "azuretable"}
    <3>1. PICK i \in DOMAIN docs : all[j].docs = <<docs[i]>>
      BY <1>16, <2>2 DEF Singles
    <3>2. docs[i] \in Document /\ docs[i].commit = c
      BY <1>10
    <3>3. Ids(<<docs[i]>>) = {Id(docs[i])}
      BY <3>2, OneDoc
    <3>. QED
      BY <3>1, <3>2, <3>3 DEF Id
  <2>. QED
    BY <1>17, <2>1, <2>2 DEF Paged
<1>18. ListOK'
  <2>1. IsFiniteSet(marked') /\ (driver = "redis" => marked' \subseteq Stored')
    BY <1>2 DEF Quiet, ListOK, Stored, Ids, Id
  <2>2. ASSUME Paged', listing'
        PROVE  /\ waiting' \cap marked' = {} /\ waiting' \cup marked' \subseteq Made'
               /\ \A q \in Client : Adds(q)' =>
                    \A j \in DOMAIN call'[q].todo :
                      call'[q].todo[j].do = "list" => Unlisted(call[q].todo[j])'
               /\ \A r \in late' : r.do = "list" => Unlisted(r)'
    <3>1. Paged /\ listing
      BY <1>2, <2>2 DEF Paged
    <3>2. waiting \cap marked = {} /\ waiting \cup marked \subseteq Made
      BY <3>1 DEF Quiet, ListOK
    <3>3. ASSUME NEW q \in Client, Adds(q)', NEW j \in DOMAIN call'[q].todo,
                 call'[q].todo[j].do = "list"
          PROVE  Unlisted(call[q].todo[j])'
      <4>1. PICK r : r = call'[q].todo[j]
        OBVIOUS
      <4>2. Unlisted(r)
        <5>1. CASE q = p /\ call'[q] = x
          <6>1. j \in DOMAIN all /\ all[j] = r /\ r.do = "list"
            BY <1>9, <3>3, <4>1, <5>1
          <6>2. \A id \in Ids(r.docs) : id[1] = c
            BY <1>17, <3>1, <6>1
          <6>. QED
            BY <1>13, <3>2, <6>2 DEF Unlisted
        <5>2. CASE q # p /\ Adds(q) /\ call'[q] = call[q]
          BY <3>1, <3>3, <4>1, <5>2 DEF Quiet, ListOK
        <5>. QED
          BY <1>14, <3>3, <5>1, <5>2
      <4>3. Unlisted(r)'
        BY <1>15, <4>2
      <4>. QED
        BY <4>1, <4>3 DEF Unlisted
    <3>4. \A r \in late' : r.do = "list" => Unlisted(r)'
      BY <1>2, <1>15, <3>1 DEF Quiet, ListOK
    <3>. QED
      BY <1>2, <1>12, <3>2, <3>3, <3>4
  <2>. QED
    BY <1>2, <2>1, <2>2 DEF ListOK
<1>19. OnceOK'
  <2>1. ASSUME driver' \in {"dynamodb", "azuretable"}, NEW q \in Client, Adds(q)'
        PROVE  Once(call'[q].todo)
    <3>1. driver \in {"dynamodb", "azuretable"}
      BY <1>2, <2>1
    <3>2. CASE q = p /\ call'[q] = x
      BY <1>9, <1>16, <3>1, <3>2
    <3>3. CASE q # p /\ Adds(q) /\ call'[q] = call[q]
      BY <3>1, <3>3 DEF Quiet, OnceOK
    <3>. QED
      BY <1>14, <2>1, <3>2, <3>3
  <2>2. ASSUME driver' = "azuretable"
        PROVE  /\ UniqueIds' /\ \A r \in late' : r.do = "list" => r.awaited
               /\ \A q \in Client : Adds(q)' => \A r \in late' : Elsewhere(call[q].c, r)'
    <3>1. driver = "azuretable" /\ OnceOK
      BY <1>2, <2>2 DEF Quiet
    <3>2. UniqueIds'
      BY <1>2, <3>1 DEF OnceOK, UniqueIds, Id
    <3>3. \A r \in late' : r.do = "list" => r.awaited
      BY <1>2, <3>1 DEF OnceOK
    <3>4. ASSUME NEW q \in Client, Adds(q)', NEW r \in late
          PROVE  Elsewhere(call[q].c, r)'
      <4>1. CASE q = p /\ call'[q] = x
        <5>1. ASSUME r.do = "list", NEW i \in DOMAIN r.docs
              PROVE  r.docs[i].commit # c
          <6>1. r.do # "drop" => \E e \in CommitId : \E k \in DOMAIN commit[e] : r.docs = <<commit[e][k]>>
            BY DEF Inv, LateOK
          <6>2. PICK e \in CommitId : \E k \in DOMAIN commit[e] : r.docs = <<commit[e][k]>>
            BY <5>1, <6>1
          <6>3. PICK k \in DOMAIN commit[e] : r.docs = <<commit[e][k]>>
            BY <6>2
          <6>4. commit[e][k].commit = e
            BY DEF Inv, CommitsOK, Counted
          <6>5. e # c
            BY <1>2, <6>3
          <6>6. r.docs[i] = commit[e][k]
            BY <6>3
          <6>. QED
            BY <6>4, <6>5, <6>6
        <5>. QED
          BY <1>9, <4>1, <5>1 DEF Elsewhere
      <4>2. CASE q # p /\ Adds(q) /\ call'[q] = call[q]
        BY <3>1, <4>2 DEF OnceOK, Elsewhere
      <4>. QED
        BY <1>14, <3>4, <4>1, <4>2
    <3>. QED
      BY <1>2, <3>2, <3>3, <3>4
  <2>3. ASSUME driver' = "redis"
        PROVE  Counting'
    BY <1>2, <2>3 DEF Quiet, OnceOK, Counting
  <2>. QED
    BY <2>1, <2>2, <2>3 DEF OnceOK
<1>20. Growing
  BY <1>2, StoreUnchanged
<1>. QED
  BY <1>8, <1>9, <1>18, <1>19, <1>20, WriterQuiet

\* A sequence without the element at i, and where its elements stand.
Skips(t, s, i) ==
  /\ DOMAIN t = 1 .. Len(s) - 1
  /\ \A j \in 1 .. Len(s) - 1 : t[j] = IF j < i THEN s[j] ELSE s[j + 1]

\* What remains of the requests of a commit when one of them was sent.
LEMMA RemoveAtIs ==
  ASSUME NEW D, NEW s \in Seq(D), NEW i \in DOMAIN s
  PROVE  RemoveAt(s, i) \in Seq(D) /\ Skips(RemoveAt(s, i), s, i)
<1>1. PICK n \in Nat : n = Len(s) /\ DOMAIN s = 1 .. n /\ i \in 1 .. n
  OBVIOUS
<1>2. PICK u, w : u = SubSeq(s, 1, i - 1) /\ w = SubSeq(s, i + 1, n)
  OBVIOUS
<1>3. /\ u \in Seq(D) /\ Len(u) = i - 1
      /\ \A j \in 1 .. i - 1 : u[j] = s[j]
  <2>1. \A j \in 1 .. i - 1 : j \in 1 .. n /\ s[j] \in D
    BY <1>1
  <2>2. /\ u \in Seq(D) /\ Len(u) = (IF 1 <= i - 1 THEN i - 1 - 1 + 1 ELSE 0)
        /\ \A j \in 1 .. i - 1 - 1 + 1 : u[j] = s[1 + j - 1]
    BY <1>1, <1>2, <2>1, SubSeqProperties
  <2>. QED
    BY <1>1, <2>2
<1>4. /\ w \in Seq(D) /\ Len(w) = n - i
      /\ \A j \in 1 .. n - i : w[j] = s[i + j]
  <2>1. \A j \in i + 1 .. n : j \in 1 .. n /\ s[j] \in D
    BY <1>1
  <2>2. /\ w \in Seq(D) /\ Len(w) = (IF i + 1 <= n THEN n - (i + 1) + 1 ELSE 0)
        /\ \A j \in 1 .. n - (i + 1) + 1 : w[j] = s[i + 1 + j - 1]
    BY <1>1, <1>2, <2>1, SubSeqProperties
  <2>3. n - (i + 1) + 1 = n - i /\ (IF i + 1 <= n THEN n - (i + 1) + 1 ELSE 0) = n - i
    BY <1>1
  <2>4. \A j \in 1 .. n - i : i + 1 + j - 1 = i + j
    BY <1>1
  <2>. QED
    BY <2>2, <2>3, <2>4
<1>5. PICK t : t = u \o w
  OBVIOUS
<1>6. /\ t \in Seq(D) /\ Len(t) = n - 1
      /\ \A j \in 1 .. n - 1 : t[j] = IF j <= i - 1 THEN u[j] ELSE w[j - (i - 1)]
  <2>1. (i - 1) + (n - i) = n - 1
    BY <1>1
  <2>2. /\ t \in Seq(D) /\ Len(t) = Len(u) + Len(w)
        /\ \A j \in 1 .. Len(u) + Len(w) : t[j] = IF j <= Len(u) THEN u[j] ELSE w[j - Len(u)]
    BY <1>3, <1>4, <1>5, ConcatProperties
  <2>. QED
    BY <1>3, <1>4, <2>1, <2>2
<1>7. \A j \in 1 .. n - 1 : t[j] = IF j < i THEN s[j] ELSE s[j + 1]
  <2>1. SUFFICES ASSUME NEW j \in 1 .. n - 1
                 PROVE  t[j] = IF j < i THEN s[j] ELSE s[j + 1]
    OBVIOUS
  <2>2. CASE j < i
    <3>1. j \in 1 .. i - 1 /\ j <= i - 1
      BY <1>1, <2>2
    <3>. QED
      BY <1>3, <1>6, <2>2, <3>1
  <2>3. CASE ~(j < i)
    <3>1. j - (i - 1) \in 1 .. n - i /\ i + (j - (i - 1)) = j + 1 /\ ~(j <= i - 1)
      BY <1>1, <2>3
    <3>. QED
      BY <1>4, <1>6, <2>3, <3>1
  <2>. QED
    BY <2>2, <2>3
<1>8. DOMAIN t = 1 .. n - 1
  BY <1>6
<1>9. RemoveAt(s, i) = t
  BY <1>1, <1>2, <1>5 DEF RemoveAt
<1>10. Skips(t, s, i)
  BY <1>1, <1>7, <1>8 DEF Skips
<1>. QED
  BY <1>6, <1>9, <1>10

\* Without one of them, what is sent once is still sent once, and that one no more.
LEMMA RemoveOnce ==
  ASSUME NEW D, NEW s \in Seq(D), NEW i \in DOMAIN s, Once(s), NEW t, t = RemoveAt(s, i)
  PROVE  /\ t \in Seq(D) /\ Once(t)
         /\ \A j \in DOMAIN t : t[j] # s[i] /\ \E k \in DOMAIN s : t[j] = s[k]
<1>1. PICK n \in Nat : n = Len(s) /\ DOMAIN s = 1 .. n /\ i \in 1 .. n
  OBVIOUS
<1>2. t \in Seq(D) /\ Skips(t, s, i)
  BY RemoveAtIs
<1>3. DOMAIN t = 1 .. n - 1 /\ \A j \in 1 .. n - 1 : t[j] = IF j < i THEN s[j] ELSE s[j + 1]
  BY <1>1, <1>2 DEF Skips
<1>4. PICK f : f = [j \in 1 .. n - 1 |-> IF j < i THEN j ELSE j + 1]
  OBVIOUS
<1>5. \A j \in 1 .. n - 1 : /\ f[j] \in 1 .. n /\ f[j] # i /\ t[j] = s[f[j]]
                           /\ \A l \in 1 .. n - 1 : f[j] = f[l] => j = l
  BY <1>1, <1>3, <1>4
<1>6. \A k, l \in 1 .. n : s[k] = s[l] => k = l
  BY <1>1 DEF Once
<1>7. Once(t)
  <2>1. ASSUME NEW j \in 1 .. n - 1, NEW l \in 1 .. n - 1, t[j] = t[l]
        PROVE  j = l
    BY <1>5, <1>6, <2>1
  <2>. QED
    BY <1>3, <2>1 DEF Once
<1>8. ASSUME NEW j \in 1 .. n - 1
      PROVE  t[j] # s[i] /\ \E k \in DOMAIN s : t[j] = s[k]
  BY <1>1, <1>5, <1>6
<1>. QED
  BY <1>2, <1>3, <1>7, <1>8

\* What a request does to the events and to the list.
LEMMA TakesAppends ==
  ASSUME StoreAssumption, Inv, NEW r \in Requests, NEW o \in Outcomes(r), Takes(r, o)
  PROVE  /\ New(r, o) \in Seq(Document) /\ events' = events \o New(r, o)
         /\ Stored' = Stored \cup Ids(New(r, o))
         /\ waiting \subseteq waiting' /\ waiting' \subseteq waiting \cup Ids(o.docs)
         /\ r.do \notin {"insert", "mset", "list", "bulk"} => waiting' = waiting
         /\ Ids(o.docs) \subseteq Ids(r.docs)
<1>1. faults \in 0 .. MaxFaults /\ events \in Seq(Document)
  BY DEF Inv, TypeOK, EventsOK
<1>2. o.docs \in Seq(Document) /\ ToSet(o.docs) \subseteq ToSet(r.docs)
  BY <1>1, OutcomeCases
<1>3. r.docs \in Seq(Document)
  BY DEF Requests
<1>4. PICK new \in Seq(Document) : new = New(r, o) /\ (r.do \in Stores => new = o.docs)
                                   /\ (r.do \notin Stores => new = <<>>)
  <2>1. CASE r.do \in Stores
    BY <1>2, <2>1 DEF New
  <2>2. CASE r.do \notin Stores
    <3>1. New(r, o) = <<>> /\ <<>> \in Seq(Document)
      BY <2>2 DEF New
    <3>. QED
      BY <2>2, <3>1
  <2>. QED
    BY <2>1, <2>2
<1>5. events' = events \o new
  <2>1. r.do \notin Stores => events' = events
    BY DEF Takes, Stores
  <2>2. r.do \in Stores => events' = events \o o.docs
    BY DEF Takes, Stores
  <2>3. events \o <<>> = events
    BY <1>1, ConcatEmptySeq
  <2>. QED
    BY <1>4, <2>1, <2>2, <2>3
<1>6. Stored' = Stored \cup Ids(new)
  <2>1. PICK e \in Seq(Document) : e = events
    BY <1>1
  <2>2. PICK w : w = e \o new
    OBVIOUS
  <2>3. Ids(w) = Ids(e) \cup Ids(new)
    BY <2>2, IdsAppend
  <2>4. w = events'
    BY <1>5, <2>1, <2>2
  <2>. QED
    BY <2>1, <2>3, <2>4 DEF Stored, Ids
<1>7. Ids(o.docs) \subseteq Ids(r.docs)
  BY <1>2, <1>3, IdsOf
<1>8. waiting \subseteq waiting' /\ waiting' \subseteq waiting \cup Ids(o.docs)
  BY DEF Takes
<1>9. r.do \notin {"insert", "mset", "list", "bulk"} => waiting' = waiting
  BY DEF Takes
<1>. QED
  BY <1>4, <1>5, <1>6, <1>7, <1>8, <1>9

\* An event with a new id.
LEMMA OneMoreId ==
  ASSUME EventsOK, NEW d \in Document, events' = events \o <<d>>, Id(d) \notin Stored, UniqueIds
  PROVE  UniqueIds'
<1>1. PICK old \in Seq(Document), one \in Seq(Document) : old = events /\ one = <<d>>
  <2>1. events \in Seq(Document)
    BY DEF EventsOK
  <2>2. <<d>> \in Seq(Document)
    BY OneDoc
  <2>. QED
    BY <2>1, <2>2
<1>2. one \in Seq(Document) /\ DOMAIN one = {1} /\ one[1] = d
  BY <1>1
<1>3. PICK w : w = old \o one
  OBVIOUS
<1>4. \A j \in DOMAIN w : (j \in DOMAIN old /\ w[j] = old[j]) \/ (j = Len(old) + 1 /\ w[j] = d)
  <2>1. \A j \in DOMAIN w : \/ j \in DOMAIN old /\ w[j] = old[j]
                            \/ \E l \in DOMAIN one : j = Len(old) + l /\ w[j] = one[l]
    BY <1>3, Appended
  <2>. QED
    BY <1>2, <2>1
<1>5. events' = w
  BY <1>1, <1>3
<1>6. \A i \in DOMAIN old : Id(old[i]) # Id(d)
  BY <1>1 DEF Stored, Ids
<1>7. \A i, j \in DOMAIN old : Id(old[i]) = Id(old[j]) => i = j
  BY <1>1 DEF UniqueIds
<1>8. \A i, j \in DOMAIN w : Id(w[i]) = Id(w[j]) => i = j
  BY <1>4, <1>6, <1>7
<1>. QED
  BY <1>5, <1>8 DEF UniqueIds, Id

\* A client sends the request r; rest are those it has still to send.
Sends(p, i, r, rest) ==
  /\ i \in Pending(p) /\ r = call[p].todo[i]
  /\ rest = IF r.do = "incr" THEN <<Request("mset", Numbered(r.docs, counter))>>
                             ELSE RemoveAt(call[p].todo, i)

\* A write sends one of the pending requests of a commit and takes its effect.
LEMMA WriteIs ==
  ASSUME Inv, NEW p \in Client, Write(p)
  PROVE  Adds(p) /\ \E i, r, rest : Sends(p, i, r, rest) /\ \E o \in Outcomes(r) : Effect(p, r, o, rest)
<1>1. Adds(p)
  BY DEF Write, Adds
<1>2. PICK i \in Pending(p) :
        LET r    == call[p].todo[i]
            left == RemoveAt(call[p].todo, i)
            rest == IF r.do = "incr"
                    THEN <<Request("mset", Numbered(r.docs, counter))>> ELSE left
        IN  \E o \in Outcomes(r) :
              /\ Takes(r, o)
              /\ IF o.ok /\ \E j \in DOMAIN rest : rest[j].awaited
                 THEN /\ call' = [call EXCEPT ![p].todo = rest]
                      /\ UNCHANGED <<acked, late>>
                 ELSE /\ call' = [call EXCEPT ![p] = Idle]
                      /\ acked' = IF o.ok THEN acked \cup {call[p].c} ELSE acked
                      /\ late' = IF o.ok \/ driver = "azuretable"
                                 THEN late \cup ToSet(rest) ELSE late
  BY DEF Write
<1>3. PICK r, left, rest : /\ r = call[p].todo[i]
                           /\ left = RemoveAt(call[p].todo, i)
                           /\ rest = IF r.do = "incr"
                                     THEN <<Request("mset", Numbered(r.docs, counter))>> ELSE left
  OBVIOUS
<1>4. PICK o \in Outcomes(r) :
        /\ Takes(r, o)
        /\ IF o.ok /\ \E j \in DOMAIN rest : rest[j].awaited
           THEN /\ call' = [call EXCEPT ![p].todo = rest]
                /\ UNCHANGED <<acked, late>>
           ELSE /\ call' = [call EXCEPT ![p] = Idle]
                /\ acked' = IF o.ok THEN acked \cup {call[p].c} ELSE acked
                /\ late' = IF o.ok \/ driver = "azuretable"
                           THEN late \cup ToSet(rest) ELSE late
  BY <1>2, <1>3
<1>5. Effect(p, r, o, rest)
  <2>1. UNCHANGED <<driver, listing, commit, clock, marked, base>>
    BY DEF Write
  <2>2. CASE o.ok /\ \E j \in DOMAIN rest : rest[j].awaited
    <3>1. call' = [call EXCEPT ![p] = Going(p, rest)]
      BY <1>1, <1>4, <2>2, GoingOn
    <3>. QED
      BY <1>4, <2>1, <2>2, <3>1 DEF Effect
  <2>3. CASE ~(o.ok /\ \E j \in DOMAIN rest : rest[j].awaited)
    BY <1>4, <2>1, <2>3 DEF Effect
  <2>. QED
    BY <2>2, <2>3
<1>6. Sends(p, i, r, rest)
  BY <1>3 DEF Sends
<1>. QED
  BY <1>1, <1>5, <1>6

\* What follows a request of one client: other clients and the requests under way.
LEMMA WritersNext ==
  ASSUME Inv, NEW p \in Client, Adds(p), NEW r, NEW o, NEW rest, Effect(p, r, o, rest)
  PROVE  /\ \A q \in Client : Adds(q)' =>
              \/ q # p /\ Adds(q) /\ call'[q] = call[q] /\ call[q].c # call[p].c
              \/ q = p /\ call'[q] = Going(p, rest) /\ late' = late
         /\ late' \subseteq late \cup ToSet(rest)
         /\ UNCHANGED <<driver, listing, commit, marked>>
         /\ \E x : call' = [call EXCEPT ![p] = x] /\ x.pc \in {"idle", "adding"}
<1>1. \A q \in Client : q # p => call'[q] = call[q]
  BY EffectCases
<1>2. call'[p] = Idle \/ call'[p] = Going(p, rest)
  BY EffectCases
<1>3. late' \subseteq late \cup ToSet(rest)
  BY EffectCases
<1>4. \A q \in Client : Adds(q) /\ call[q].c = call[p].c => q = p
  BY DEF Inv, WritesOK, WriteOK
<1>5. Idle.pc = "idle" /\ Going(p, rest).pc = "adding"
  BY DEF Idle, Going
<1>6. call'[p] = Going(p, rest) => late' = late
  <2>1. call' = [call EXCEPT ![p] = Idle] => call'[p] = Idle
    BY DEF Inv, Setting
  <2>. QED
    BY <1>5, <2>1 DEF Effect
<1>7. ASSUME NEW q \in Client, Adds(q)'
      PROVE  \/ q # p /\ Adds(q) /\ call'[q] = call[q] /\ call[q].c # call[p].c
             \/ q = p /\ call'[q] = Going(p, rest) /\ late' = late
  <2>1. CASE q = p
    BY <1>2, <1>5, <1>6, <1>7, <2>1 DEF Adds
  <2>2. CASE q # p
    BY <1>1, <1>4, <1>7, <2>2 DEF Adds
  <2>. QED
    BY <2>1, <2>2
<1>8. \E x : call' = [call EXCEPT ![p] = x] /\ x.pc \in {"idle", "adding"}
  BY <1>5 DEF Effect
<1>. QED
  BY <1>3, <1>7, <1>8 DEF Effect

\* dynamodb and azuretable: a request for one event.
LEMMA QuietSingle ==
  ASSUME StoreAssumption, Inv, Quiet, NoneAnswered, NEW p \in Client, Adds(p),
         driver \in {"dynamodb", "azuretable"}, NEW i \in DOMAIN call[p].todo,
         NEW r, r = call[p].todo[i], NEW o \in Outcomes(r),
         NEW rest, rest = RemoveAt(call[p].todo, i), Effect(p, r, o, rest)
  PROVE  Quiet'
<1>1. PICK c, todo : c = call[p].c /\ todo = call[p].todo
  OBVIOUS
<1>2. c \in CommitId /\ todo \in Seq(Requests) /\ \A j \in DOMAIN todo : OfCommit(todo[j], c)
  BY <1>1, WriterIs, WritersOf
<1>3. ListOK /\ OnceOK /\ Paged /\ Once(todo)
  BY <1>1 DEF Quiet, OnceOK, Paged
<1>4. /\ i \in DOMAIN todo /\ r = todo[i] /\ rest = RemoveAt(todo, i)
      /\ r \in Requests /\ OfCommit(r, c)
  BY <1>1, <1>2
<1>5. /\ rest \in Seq(Requests) /\ Once(rest)
      /\ \A j \in DOMAIN rest : rest[j] # r /\ OfCommit(rest[j], c)
  <2>1. rest \in Seq(Requests)
    BY <1>2, <1>3, <1>4, RemoveOnce
  <2>2. Once(rest)
    BY <1>2, <1>3, <1>4, RemoveOnce
  <2>3. \A j \in DOMAIN rest : rest[j] # todo[i] /\ \E k \in DOMAIN todo : rest[j] = todo[k]
    BY <1>2, <1>3, <1>4, RemoveOnce
  <2>. QED
    BY <1>2, <1>4, <2>1, <2>2, <2>3
<1>6. PICK d \in Document : /\ r.docs = <<d>> /\ d.commit = c /\ Genuine(d)
                            /\ Ids(r.docs) = {Id(d)} /\ Ids(r.docs) \subseteq Made
  BY <1>2, <1>4, OfCommitIs
<1>7. r.do \in {"put", "list"} /\ Takes(r, o)
  BY <1>4 DEF OfCommit, Effect
<1>8. PICK new \in Seq(Document) : new = New(r, o) /\ events' = events \o new
  BY <1>4, <1>7, TakesAppends
<1>9. Stored \subseteq Stored' /\ waiting \subseteq waiting'
  BY <1>4, <1>7, TakesAppends
<1>10. /\ waiting' \subseteq waiting \cup Ids(r.docs)
       /\ r.do # "list" => waiting' = waiting
  <2>1. waiting' \subseteq waiting \cup Ids(o.docs) /\ Ids(o.docs) \subseteq Ids(r.docs)
    BY <1>4, <1>7, TakesAppends
  <2>2. r.do \notin {"insert", "mset", "list", "bulk"} => waiting' = waiting
    BY <1>4, <1>7, TakesAppends
  <2>. QED
    BY <1>7, <2>1, <2>2
<1>11. UNCHANGED <<driver, listing, commit, marked>> /\ late' \subseteq late \cup ToSet(rest)
  BY WritersNext
<1>12. \A q \in Client : Adds(q)' =>
         \/ q # p /\ Adds(q) /\ call'[q] = call[q] /\ call[q].c # c
         \/ q = p /\ call'[q] = Going(p, rest) /\ late' = late
  BY <1>1, WritersNext
<1>13. \A q \in Client : Adds(q) =>
         /\ call[q].c \in CommitId
         /\ \A j \in DOMAIN call[q].todo : OfCommit(call[q].todo[j], call[q].c)
  BY WriterIs, WritersOf
<1>14. Going(p, rest).c = c /\ Going(p, rest).todo = rest
  BY <1>1 DEF Going
<1>15. PICK ids : ids = IF r.do = "list" THEN Ids(r.docs) ELSE {}
  OBVIOUS
<1>16. waiting' \subseteq waiting \cup ids /\ ids \subseteq Made
  BY <1>6, <1>10, <1>15
<1>17. ASSUME listing
       PROVE  ids \cap marked = {}
  <2>1. r.do = "list" => Unlisted(r)
    BY <1>3, <1>4, <1>1, <1>17 DEF ListOK
  <2>. QED
    BY <1>15, <2>1 DEF Unlisted
<1>18. ASSUME NEW e \in CommitId, NEW q, OfCommit(q, e), q.do = "list", q # r \/ e # c
       PROVE  Ids(q.docs) \cap ids = {}
  <2>1. r.do = "list" => Ids(r.docs) \cap Ids(q.docs) = {}
    BY <1>2, <1>4, <1>18, ListsApart
  <2>. QED
    BY <1>15, <2>1
<1>19. ASSUME NEW q \in late, q.do = "list"
       PROVE  Ids(q.docs) \cap ids = {}
  <2>1. driver = "azuretable"
    BY <1>3, <1>19, LateOf
  <2>2. PICK e \in CommitId : OfCommit(q, e)
    BY <1>3, <1>19, LateOf
  <2>3. Elsewhere(c, q)
    BY <1>1, <1>3, <2>1 DEF OnceOK
  <2>4. PICK f \in Document : q.docs = <<f>> /\ f.commit = e
    BY <2>2, OfCommitIs
  <2>5. e # c
    BY <1>19, <2>3, <2>4 DEF Elsewhere
  <2>. QED
    BY <1>18, <1>19, <2>2, <2>5
<1>20. ASSUME listing
       PROVE  LaterLists(ids)
  <2>1. ASSUME NEW q \in Client, Adds(q)', NEW j \in DOMAIN call'[q].todo, call'[q].todo[j].do = "list"
        PROVE  Apart(call'[q].todo[j], ids)
    <3>1. PICK s : s = call'[q].todo[j]
      OBVIOUS
    <3>2. CASE q # p /\ Adds(q) /\ call'[q] = call[q] /\ call[q].c # c
      <4>1. j \in DOMAIN call[q].todo /\ s = call[q].todo[j] /\ s.do = "list"
        BY <2>1, <3>1, <3>2
      <4>2. Unlisted(s)
        BY <1>3, <1>20, <3>2, <4>1 DEF ListOK
      <4>3. OfCommit(s, call[q].c) /\ call[q].c \in CommitId
        BY <1>13, <3>2, <4>1
      <4>4. Ids(s.docs) \cap ids = {}
        BY <1>18, <3>2, <4>1, <4>3
      <4>. QED
        BY <3>1, <4>2, <4>4 DEF Unlisted, Apart
    <3>3. CASE q = p /\ call'[q] = Going(p, rest)
      <4>1. j \in DOMAIN rest /\ s = rest[j] /\ s.do = "list"
        BY <1>14, <2>1, <3>1, <3>3
      <4>2. PICK k \in DOMAIN todo : s = todo[k]
        BY <1>2, <1>3, <1>4, <4>1, RemoveOnce
      <4>3. Unlisted(s)
        BY <1>1, <1>3, <1>20, <4>1, <4>2 DEF ListOK
      <4>4. OfCommit(s, c) /\ s # r
        BY <1>5, <4>1
      <4>5. Ids(s.docs) \cap ids = {}
        BY <1>2, <1>18, <4>1, <4>4
      <4>. QED
        BY <3>1, <4>3, <4>5 DEF Unlisted, Apart
    <3>. QED
      BY <1>12, <2>1, <3>2, <3>3
  <2>2. ASSUME NEW q \in late', q.do = "list"
        PROVE  Apart(q, ids)
    <3>1. CASE q \in late
      <4>1. Unlisted(q)
        BY <1>3, <1>20, <2>2, <3>1 DEF ListOK
      <4>2. Ids(q.docs) \cap ids = {}
        BY <1>19, <2>2, <3>1
      <4>. QED
        BY <4>1, <4>2 DEF Unlisted, Apart
    <3>2. CASE q \in ToSet(rest)
      <4>1. PICK j \in DOMAIN rest : q = rest[j]
        BY <3>2 DEF ToSet
      <4>2. PICK k \in DOMAIN todo : q = todo[k]
        BY <1>2, <1>3, <1>4, <4>1, RemoveOnce
      <4>3. Unlisted(q)
        BY <1>1, <1>3, <1>20, <2>2, <4>2 DEF ListOK
      <4>4. OfCommit(q, c) /\ q # r
        BY <1>5, <4>1
      <4>5. Ids(q.docs) \cap ids = {}
        BY <1>2, <1>18, <2>2, <4>4
      <4>. QED
        BY <4>3, <4>5 DEF Unlisted, Apart
    <3>. QED
      BY <1>11, <2>2, <3>1, <3>2
  <2>. QED
    BY <2>1, <2>2 DEF LaterLists
<1>21. ListOK'
  BY <1>9, <1>11, <1>16, <1>17, <1>20, ListsAfter
<1>22. OnceOK'
  <2>1. ASSUME NEW q \in Client, Adds(q)'
        PROVE  Once(call'[q].todo)
    <3>1. CASE q # p /\ Adds(q) /\ call'[q] = call[q]
      BY <1>3, <3>1 DEF OnceOK
    <3>2. CASE q = p /\ call'[q] = Going(p, rest)
      BY <1>5, <1>14, <3>2
    <3>. QED
      BY <1>12, <2>1, <3>1, <3>2
  <2>2. ASSUME driver = "azuretable"
        PROVE  /\ UniqueIds' /\ \A q \in late' : q.do = "list" => q.awaited
               /\ \A q \in Client : Adds(q)' => \A s \in late' : Elsewhere(call[q].c, s)'
    <3>1. UniqueIds'
      <4>1. \/ new = <<>>
            \/ new = <<d>> /\ r.do = "put" /\ ~Refuses(r, d)
        BY <1>4, <1>6, <1>7, <1>8, SingleOutcome
      <4>2. CASE new = <<>>
        <5>1. events' = events
          BY <1>8, <4>2, ConcatEmptySeq DEF Inv, EventsOK
        <5>. QED
          BY <1>3, <2>2, <5>1 DEF OnceOK, UniqueIds, Id
      <4>3. CASE new = <<d>> /\ r.do = "put" /\ ~Refuses(r, d)
        <5>1. Id(d) \notin Stored
          BY <2>2, <4>3 DEF Refuses
        <5>2. EventsOK /\ UniqueIds
          BY <1>3, <2>2 DEF Inv, OnceOK
        <5>3. events' = events \o <<d>>
          BY <1>8, <4>3
        <5>. QED
          BY <5>1, <5>2, <5>3, OneMoreId
      <4>. QED
        BY <4>1, <4>2, <4>3
    <3>2. \A q \in late' : q.do = "list" => q.awaited
      <4>1. \A q \in ToSet(rest) : q.awaited
        BY <1>5 DEF ToSet, OfCommit
      <4>. QED
        BY <1>3, <1>11, <2>2, <4>1 DEF OnceOK
    <3>3. ASSUME NEW q \in Client, Adds(q)', NEW s \in late'
          PROVE  Elsewhere(call[q].c, s)'
      <4>1. CASE q # p /\ Adds(q) /\ call'[q] = call[q] /\ call[q].c # c
        <5>1. CASE s \in late
          BY <1>3, <2>2, <4>1, <5>1 DEF OnceOK, Elsewhere
        <5>2. CASE s \in ToSet(rest)
          <6>1. PICK j \in DOMAIN rest : s = rest[j]
            BY <5>2 DEF ToSet
          <6>2. PICK f \in Document : s.docs = <<f>> /\ f.commit = c
            BY <1>2, <1>5, <6>1, OfCommitIs
          <6>3. \A l \in DOMAIN s.docs : s.docs[l].commit = c
            BY <6>2
          <6>. QED
            BY <4>1, <6>3 DEF Elsewhere
        <5>. QED
          BY <1>11, <3>3, <5>1, <5>2
      <4>2. CASE q = p /\ call'[q] = Going(p, rest) /\ late' = late
        <5>1. s \in late /\ call'[q].c = c
          BY <1>14, <3>3, <4>2
        <5>2. Elsewhere(c, s)
          BY <1>1, <1>3, <2>2, <5>1 DEF OnceOK
        <5>. QED
          BY <5>1, <5>2 DEF Elsewhere
      <4>. QED
        BY <1>12, <3>3, <4>1, <4>2
    <3>. QED
      BY <3>1, <3>2, <3>3
  <2>. QED
    BY <1>11, <2>1, <2>2 DEF OnceOK
<1>23. Growing
  BY <1>8, <1>9, <1>11, GrowingStore
<1>24. PICK x : call' = [call EXCEPT ![p] = x] /\ x.pc \in {"idle", "adding"}
  BY WritersNext
<1>. QED
  BY <1>21, <1>22, <1>23, <1>24, WriterQuiet

\* Redis lists the events of a commit together with storing them.
LEMMA NoListed ==
  ASSUME StoreAssumption, Inv, driver = "redis", NEW p \in Client, Adds(p)
  PROVE  \A j \in DOMAIN call[p].todo : call[p].todo[j].do # "list"
<1>1. PICK docs : docs = commit[call[p].c]
  OBVIOUS
<1>2. docs \in Seq(Document) /\ Progress(p)
  BY <1>1, WriterIs
<1>3. CASE call[p].todo = AllOf(p)
  <2>1. AllOf(p) = <<Request("incr", docs), Request("mset", docs)>>
    <3>1. PICK all : all = AddEvents(docs)
      OBVIOUS
    <3>2. all = <<Request("incr", docs), Request("mset", docs)>>
      BY <1>2, <3>1, BatchRequests
    <3>. QED
      BY <1>1, <3>1, <3>2 DEF AllOf
  <2>2. PICK r, s : r = Request("incr", docs) /\ s = Request("mset", docs)
    OBVIOUS
  <2>3. r.do = "incr" /\ s.do = "mset"
    BY <2>2 DEF Request
  <2>4. call[p].todo = <<r, s>>
    BY <1>3, <2>1, <2>2
  <2>. QED
    BY <2>3, <2>4
<1>4. CASE \E first \in 0 .. counter : call[p].todo = <<Request("mset", Numbered(docs, first))>>
  <2>1. PICK first \in 0 .. counter : call[p].todo = <<Request("mset", Numbered(docs, first))>>
    BY <1>4
  <2>2. PICK r : r = Request("mset", Numbered(docs, first))
    OBVIOUS
  <2>3. r.do = "mset"
    BY <2>2 DEF Request
  <2>4. call[p].todo = <<r>>
    BY <2>1, <2>2
  <2>. QED
    BY <2>3, <2>4
<1>. QED
  BY <1>1, <1>2, <1>3, <1>4 DEF Progress

\* Events that start one after the other at the same revision.
StartAt(docs, c, first) ==
  \A i \in DOMAIN docs : docs[i].commit = c /\ docs[i].rev - docs[i].seq = first

\* Redis counts on where the store ends.
LEMMA CountingMore ==
  ASSUME EventsOK, Counting, NEW new \in Seq(Document), events' = events \o new, NEW c, NEW first,
         StartAt(new, c, first), \A i \in DOMAIN events : events[i].commit # c
  PROVE  Counting'
<1>1. PICK old \in Seq(Document) : old = events
  BY DEF EventsOK
<1>2. PICK w : w = old \o new
  OBVIOUS
<1>3. \A j \in DOMAIN w : \/ j \in DOMAIN old /\ w[j] = old[j]
                          \/ \E l \in DOMAIN new : j = Len(old) + l /\ w[j] = new[l]
  BY <1>2, Appended
<1>4. \A j \in DOMAIN w : \/ j \in DOMAIN old /\ w[j] = old[j] /\ w[j].commit # c
                          \/ w[j].commit = c /\ w[j].rev - w[j].seq = first
  BY <1>1, <1>3 DEF StartAt
<1>5. \A x, y \in DOMAIN old : old[x].commit = old[y].commit => old[x].rev - old[x].seq = old[y].rev - old[y].seq
  BY <1>1 DEF Counting
<1>6. \A x, y \in DOMAIN w : w[x].commit = w[y].commit => w[x].rev - w[x].seq = w[y].rev - w[y].seq
  BY <1>4, <1>5
<1>7. events' = w
  BY <1>1, <1>2
<1>. QED
  BY <1>6, <1>7 DEF Counting

\* redis: the counter goes on, or the events are stored with the numbers it gave.
LEMMA QuietNumbers ==
  ASSUME StoreAssumption, Inv, Quiet, NoneAnswered, NEW p \in Client, Adds(p), driver = "redis",
         NEW r \in Requests, NEW o \in Outcomes(r), NEW rest, Effect(p, r, o, rest),
         r.do = "incr" \/ (r.do = "mset" /\ \E first \in Nat : r.docs = Numbered(commit[call[p].c], first)),
         \A j \in DOMAIN rest : rest[j].do # "list"
  PROVE  Quiet'
<1>1. PICK c, docs : c = call[p].c /\ docs = commit[c]
  OBVIOUS
<1>2. /\ c \in CommitId /\ docs \in Seq(Document)
      /\ \A i \in DOMAIN docs : docs[i].commit = c /\ docs[i].seq = i - 1
  BY <1>1, WriterIs DEF Counted
<1>3. ListOK /\ OnceOK /\ Takes(r, o) /\ EventsOK
  BY DEF Quiet, Effect, Inv
<1>4. \A i \in DOMAIN events : events[i].commit # c
  BY <1>1 DEF Inv, CutOK, AtOnce
<1>5. PICK new \in Seq(Document) : new = New(r, o) /\ events' = events \o new
  BY <1>3, TakesAppends
<1>6. Stored \subseteq Stored' /\ waiting \subseteq waiting'
  BY <1>3, TakesAppends
<1>7. UNCHANGED <<driver, listing, commit, marked>> /\ late' \subseteq late \cup ToSet(rest)
  BY WritersNext
<1>8. \A q \in Client : Adds(q)' =>
         \/ q # p /\ Adds(q) /\ call'[q] = call[q]
         \/ q = p /\ call'[q] = Going(p, rest)
  BY WritersNext
<1>9. PICK ids : ids = IF r.do = "mset" THEN Ids(r.docs) ELSE {}
  OBVIOUS
<1>10. waiting' \subseteq waiting \cup ids
  <2>1. waiting' \subseteq waiting \cup Ids(o.docs) /\ Ids(o.docs) \subseteq Ids(r.docs)
    BY <1>3, TakesAppends
  <2>2. r.do \notin {"insert", "mset", "list", "bulk"} => waiting' = waiting
    BY <1>3, TakesAppends
  <2>. QED
    BY <1>9, <2>1, <2>2
<1>11. ids \subseteq Ids(docs)
  <2>1. ASSUME NEW first \in Nat, r.docs = Numbered(docs, first)
        PROVE  Ids(r.docs) = Ids(docs)
    <3>1. PICK s : s = Numbered(docs, first)
      OBVIOUS
    <3>2. Ids(s) = Ids(docs)
      BY <1>2, <3>1, NumberedIs
    <3>. QED
      BY <2>1, <3>1, <3>2
  <2>. QED
    BY <1>1, <1>9, <2>1
<1>12. ids \subseteq Made
  BY <1>1, <1>2, <1>11 DEF Made
<1>13. ids \cap marked = {}
  <2>1. \A id \in Ids(docs) : id[1] = c
    BY <1>2 DEF Ids, Id
  <2>2. \A id \in Stored : id[1] # c
    BY <1>4 DEF Stored, Ids, Id
  <2>3. marked \subseteq Stored
    BY <1>3 DEF ListOK
  <2>. QED
    BY <1>11, <2>1, <2>2, <2>3
<1>14. LaterLists(ids)
  <2>1. ASSUME NEW q \in Client, Adds(q)', NEW j \in DOMAIN call'[q].todo
        PROVE  call'[q].todo[j].do # "list"
    <3>1. CASE q # p /\ Adds(q) /\ call'[q] = call[q]
      BY <2>1, <3>1, NoListed
    <3>2. CASE q = p /\ call'[q] = Going(p, rest)
      <4>1. call'[q].todo = rest
        BY <3>2 DEF Going
      <4>. QED
        BY <2>1, <4>1
    <3>. QED
      BY <1>8, <2>1, <3>1, <3>2
  <2>2. \A q \in late' : q.do # "list"
    <3>1. \A q \in late : q.do # "list"
      BY DEF Inv, LateOK
    <3>2. \A q \in ToSet(rest) : q.do # "list"
      BY DEF ToSet
    <3>. QED
      BY <1>7, <3>1, <3>2
  <2>. QED
    BY <2>1, <2>2 DEF LaterLists
<1>15. ListOK'
  BY <1>6, <1>7, <1>10, <1>12, <1>13, <1>14, ListsAfter
<1>16. Counting /\ driver \notin {"dynamodb", "azuretable"}
  BY <1>3 DEF OnceOK
<1>17. Counting'
  <2>1. CASE r.do = "incr"
    <3>1. events' = events
      BY <1>3, <2>1 DEF Takes
    <3>. QED
      BY <1>16, <3>1 DEF Counting
  <2>2. CASE r.do = "mset" /\ \E first \in Nat : r.docs = Numbered(docs, first)
    <3>1. PICK first \in Nat : r.docs = Numbered(docs, first)
      BY <2>2
    <3>2. PICK s : s = Numbered(docs, first)
      OBVIOUS
    <3>3. docs \in Seq(Document)
      BY <1>2
    <3>4. s \in Seq(Document) /\ DOMAIN s = DOMAIN docs
      BY <3>2, <3>3, NumberedIs
    <3>5. \A i \in 1 .. Len(docs) : s[i].rev = first + i - 1
      <4>1. ASSUME NEW i \in DOMAIN docs
            PROVE  s[i].rev = first + i - 1
        <5>1. Numbered(docs, first)[i].rev = first + i - 1
          BY <3>3, NumberedRev
        <5>. QED
          BY <3>2, <5>1
      <4>2. DOMAIN docs = 1 .. Len(docs)
        BY <3>3
      <4>. QED
        BY <4>1, <4>2
    <3>6. \A i \in DOMAIN s : s[i].commit = docs[i].commit /\ s[i].seq = docs[i].seq
      <4>1. ASSUME NEW i \in DOMAIN docs
            PROVE  s[i].commit = docs[i].commit /\ s[i].seq = docs[i].seq
        <5>1. docs[i] \in Document /\ s[i] = [docs[i] EXCEPT !.rev = first + i - 1]
          BY <3>2, <3>3 DEF Numbered
        <5>. QED
          BY <5>1 DEF Document
      <4>. QED
        BY <3>4, <4>1
    <3>7. \A i \in DOMAIN s : s[i].commit = c /\ s[i].rev - s[i].seq = first
      <4>1. SUFFICES ASSUME NEW i \in 1 .. Len(docs)
                     PROVE  s[i].commit = c /\ s[i].rev - s[i].seq = first
        BY <1>2, <3>4
      <4>2. i \in DOMAIN docs /\ i \in Int
        BY <1>2
      <4>3. s[i].rev = first + i - 1 /\ s[i].commit = c /\ s[i].seq = i - 1
        BY <1>2, <3>4, <3>5, <3>6, <4>2
      <4>4. (first + i - 1) - (i - 1) = first
        BY <4>2
      <4>. QED
        BY <4>3, <4>4
    <3>8. faults \in 0 .. MaxFaults
      BY DEF Inv, TypeOK
    <3>9. ToSet(o.docs) \subseteq ToSet(r.docs) /\ new = o.docs
      BY <1>5, <2>2, <3>8, OutcomeCases DEF New, Stores
    <3>10. ASSUME NEW i \in DOMAIN new
          PROVE  new[i].commit = c /\ new[i].rev - new[i].seq = first
      <4>1. new[i] \in ToSet(s)
        BY <3>1, <3>2, <3>9, <3>10 DEF ToSet
      <4>2. PICK k \in DOMAIN s : new[i] = s[k]
        BY <4>1 DEF ToSet
      <4>. QED
        BY <3>7, <4>2
    <3>11. StartAt(new, c, first)
      BY <3>10 DEF StartAt
    <3>. QED
      BY <1>3, <1>4, <1>5, <1>16, <3>11, CountingMore
  <2>. QED
    BY <1>1, <2>1, <2>2
<1>18. OnceOK'
  BY <1>7, <1>17 DEF OnceOK
<1>19. Growing
  BY <1>5, <1>6, <1>7, GrowingStore
<1>20. PICK x : call' = [call EXCEPT ![p] = x] /\ x.pc \in {"idle", "adding"}
  BY WritersNext
<1>. QED
  BY <1>15, <1>18, <1>19, <1>20, WriterQuiet

\* The other drivers: the reader sends one request, or looks at the last event.
LEMMA QuietBatch ==
  ASSUME StoreAssumption, Inv, Quiet, NoneAnswered, NEW p \in Client, Adds(p), ~Paged,
         NEW r \in Requests, NEW o \in Outcomes(r), NEW rest, Effect(p, r, o, rest)
  PROVE  Quiet'
<1>1. UNCHANGED <<driver, listing, commit, marked>>
  BY WritersNext
<1>2. driver' \notin {"redis", "dynamodb", "azuretable"} /\ ~Paged'
  BY <1>1 DEF Paged
<1>3. ListOK'
  BY <1>1, <1>2 DEF Quiet, ListOK
<1>4. OnceOK'
  BY <1>2 DEF OnceOK
<1>5. PICK new \in Seq(Document) : events' = events \o new
  <2>1. Takes(r, o)
    BY DEF Effect
  <2>2. New(r, o) \in Seq(Document) /\ events' = events \o New(r, o)
    BY <2>1, TakesAppends
  <2>. QED
    BY <2>2
<1>6. Growing
  BY <1>1, <1>5, GrowingStore
<1>7. PICK x : call' = [call EXCEPT ![p] = x] /\ x.pc \in {"idle", "adding"}
  BY WritersNext
<1>. QED
  BY <1>3, <1>4, <1>6, <1>7, WriterQuiet

\* The request that a client sends next, by driver.
LEMMA SentIs ==
  ASSUME StoreAssumption, Inv, NEW p \in Client, Adds(p), NEW i, NEW r, NEW rest, Sends(p, i, r, rest)
  PROVE  /\ r \in Requests
         /\ driver \in {"dynamodb", "azuretable"} =>
              i \in DOMAIN call[p].todo /\ rest = RemoveAt(call[p].todo, i)
         /\ driver = "redis" =>
              /\ \/ r.do = "incr"
                 \/ r.do = "mset" /\ \E first \in Nat : r.docs = Numbered(commit[call[p].c], first)
              /\ \A j \in DOMAIN rest : rest[j].do # "list"
<1>1. PICK c, docs, all : c = call[p].c /\ docs = commit[c] /\ all = AllOf(p)
  OBVIOUS
<1>2. /\ docs \in Seq(Document) /\ docs # <<>> /\ Progress(p) /\ all = AddEvents(docs)
      /\ driver \in Driver
  BY <1>1, WriterIs DEF AllOf, Inv, Setting
<1>3. /\ r = call[p].todo[i] /\ (driver # "azuretable" => i = 1)
      /\ driver = "azuretable" => i \in DOMAIN call[p].todo
      /\ r.do # "incr" => rest = RemoveAt(call[p].todo, i)
      /\ r.do = "incr" => rest = <<Request("mset", Numbered(r.docs, counter))>>
  BY DEF Sends, Pending
<1>4. all \in Seq(Requests) /\ all # <<>>
  BY <1>2, AllRequests
<1>5. CASE driver \in {"dynamodb", "azuretable"}
  <2>1. /\ call[p].todo \in Seq(Requests)
        /\ \A j \in DOMAIN call[p].todo : OfCommit(call[p].todo[j], c)
    BY <1>1, <1>5, WritersOf
  <2>2. call[p].todo # <<>>
    <3>1. CASE driver = "azuretable"
      BY <1>2, <3>1 DEF Progress
    <3>2. CASE driver = "dynamodb"
      <4>1. PICK k \in DOMAIN all : call[p].todo = SubSeq(all, k, Len(all))
        BY <1>1, <1>2, <3>2 DEF Progress
      <4>2. PICK t : t = SubSeq(all, k, Len(all))
        OBVIOUS
      <4>3. t # <<>>
        BY <1>4, <4>2, SuffixStep
      <4>. QED
        BY <4>1, <4>2, <4>3
    <3>. QED
      BY <1>5, <3>1, <3>2
  <2>3. i \in DOMAIN call[p].todo
    BY <1>3, <2>1, <2>2
  <2>4. r \in Requests /\ r.do # "incr"
    BY <1>3, <2>1, <2>3 DEF OfCommit
  <2>. QED
    BY <1>3, <1>5, <2>3, <2>4
<1>6. CASE driver = "redis"
  <2>1. i = 1
    BY <1>3, <1>6
  <2>2. CASE call[p].todo = all
    <3>1. PICK a, b : a = Request("incr", docs) /\ b = Request("mset", docs)
      OBVIOUS
    <3>2. all = <<a, b>>
      BY <1>2, <1>6, <3>1, BatchRequests
    <3>3. r = a /\ a.do = "incr"
      BY <1>3, <2>1, <2>2, <3>1, <3>2 DEF Request
    <3>4. r \in Requests
      BY <1>3, <1>4, <2>1, <2>2
    <3>5. \A j \in DOMAIN rest : rest[j].do # "list"
      <4>1. PICK s : s = Request("mset", Numbered(r.docs, counter))
        OBVIOUS
      <4>2. rest = <<s>> /\ s.do = "mset"
        BY <1>3, <3>3, <4>1 DEF Request
      <4>. QED
        BY <4>2
    <3>. QED
      BY <1>6, <3>3, <3>4, <3>5
  <2>3. CASE \E first \in 0 .. counter : call[p].todo = <<Request("mset", Numbered(docs, first))>>
    <3>1. counter \in Nat
      BY DEF Inv, TypeOK
    <3>2. PICK first \in Nat : call[p].todo = <<Request("mset", Numbered(docs, first))>>
      BY <2>3, <3>1
    <3>3. PICK s : s = Numbered(docs, first)
      OBVIOUS
    <3>4. s \in Seq(Document)
      BY <1>2, <3>3, NumberedIs
    <3>5. PICK a \in Requests : a = Request("mset", s) /\ a.do = "mset" /\ a.docs = s
      <4>1. "mset" \in Verb
        BY DEF Verb
      <4>2. Request("mset", s) \in Requests
        BY <3>4, <4>1, RequestIs
      <4>3. Request("mset", s).do = "mset" /\ Request("mset", s).docs = s
        BY DEF Request
      <4>. QED
        BY <4>2, <4>3
    <3>6. call[p].todo = <<a>>
      BY <3>2, <3>3, <3>5
    <3>7. <<a>> \in Seq(Requests) /\ 1 \in DOMAIN <<a>> /\ <<a>>[1] = a /\ Len(<<a>>) = 1
      OBVIOUS
    <3>8. PICK t \in Seq(Requests) : t = call[p].todo /\ 1 \in DOMAIN t /\ t[1] = a /\ Len(t) = 1
      BY <3>6, <3>7
    <3>9. r = a
      BY <1>3, <2>1, <3>8
    <3>10. DOMAIN rest = {}
      <4>1. rest = RemoveAt(t, 1)
        BY <1>3, <2>1, <3>5, <3>8, <3>9
      <4>2. Skips(rest, t, 1)
        BY <3>8, <4>1, RemoveAtIs
      <4>. QED
        BY <3>8, <4>2 DEF Skips
    <3>. QED
      BY <1>1, <1>6, <3>3, <3>5, <3>9, <3>10
  <2>. QED
    BY <1>1, <1>2, <1>6, <2>2, <2>3 DEF Progress
<1>7. CASE driver \notin {"redis", "dynamodb", "azuretable"}
  <2>1. PICK k \in DOMAIN all : call[p].todo = SubSeq(all, k, Len(all))
    BY <1>1, <1>2, <1>7 DEF Progress
  <2>2. PICK t : t = SubSeq(all, k, Len(all))
    OBVIOUS
  <2>3. t[1] = all[k]
    BY <1>4, <2>2, SuffixStep
  <2>4. r = all[k]
    BY <1>3, <1>7, <2>1, <2>2, <2>3
  <2>. QED
    BY <1>4, <1>7, <2>4
<1>. QED
  BY <1>5, <1>6, <1>7

\* A write stores and lists what was not stored and not listed before.
LEMMA QuietWrite ==
  ASSUME StoreAssumption, Inv, Quiet, NoneAnswered, NEW p \in Client, Write(p)
  PROVE  Quiet'
<1>1. Adds(p)
  BY WriteIs
<1>2. PICK i, r, rest : Sends(p, i, r, rest) /\ \E o \in Outcomes(r) : Effect(p, r, o, rest)
  BY WriteIs
<1>3. PICK o \in Outcomes(r) : Effect(p, r, o, rest)
  BY <1>2
<1>4. r \in Requests /\ r = call[p].todo[i]
  <2>1. r \in Requests
    BY <1>1, <1>2, SentIs
  <2>. QED
    BY <1>2, <2>1 DEF Sends
<1>5. CASE driver \in {"dynamodb", "azuretable"}
  <2>1. i \in DOMAIN call[p].todo /\ rest = RemoveAt(call[p].todo, i)
    BY <1>1, <1>2, <1>5, SentIs
  <2>. QED
    BY <1>1, <1>3, <1>4, <1>5, <2>1, QuietSingle
<1>6. CASE driver = "redis"
  <2>1. \/ r.do = "incr"
        \/ r.do = "mset" /\ \E first \in Nat : r.docs = Numbered(commit[call[p].c], first)
    BY <1>1, <1>2, <1>6, SentIs
  <2>2. \A j \in DOMAIN rest : rest[j].do # "list"
    BY <1>1, <1>2, <1>6, SentIs
  <2>. QED
    BY <1>1, <1>3, <1>4, <1>6, <2>1, <2>2, QuietNumbers
<1>7. CASE ~Paged
  BY <1>1, <1>3, <1>4, <1>7, QuietBatch
<1>. QED
  BY <1>5, <1>6, <1>7 DEF Paged

\* A request of an answered call names an event that no other request lists.
LEMMA QuietWriteLate ==
  ASSUME StoreAssumption, Inv, Quiet, NoneAnswered, WriteLate
  PROVE  Quiet'
<1>1. PICK r \in late, o \in UNION {Outcomes(q) : q \in late} :
        o \in Outcomes(r) /\ Takes(r, o) /\ late' = late \ {r}
  BY DEF WriteLate
<1>2. UNCHANGED <<driver, listing, commit, clock, marked, acked, base, call>>
  BY DEF WriteLate
<1>3. /\ r \in Requests
      /\ \/ r.do = "drop"
         \/ /\ driver = "azuretable" /\ r.do \in {"put", "list"}
            /\ \E c \in CommitId : \E i \in DOMAIN commit[c] : r.docs = <<commit[c][i]>>
  BY <1>1 DEF Inv, LateOK
<1>4. ListOK /\ OnceOK
  BY DEF Quiet
<1>5. PICK new \in Seq(Document) : new = New(r, o) /\ events' = events \o new
  BY <1>1, <1>3, TakesAppends
<1>6. Stored \subseteq Stored' /\ waiting \subseteq waiting'
  BY <1>1, <1>3, TakesAppends
<1>7. PICK ids : ids = IF r.do = "list" THEN Ids(r.docs) ELSE {}
  OBVIOUS
<1>8. waiting' \subseteq waiting \cup ids
  <2>1. waiting' \subseteq waiting \cup Ids(o.docs) /\ Ids(o.docs) \subseteq Ids(r.docs)
    BY <1>1, <1>3, TakesAppends
  <2>2. r.do \notin {"insert", "mset", "list", "bulk"} => waiting' = waiting
    BY <1>1, <1>3, TakesAppends
  <2>. QED
    BY <1>3, <1>7, <2>1, <2>2
<1>9. ids \subseteq Made
  <2>1. CASE r.do = "list"
    <3>1. PICK e \in CommitId : OfCommit(r, e)
      BY <1>1, <1>4, <2>1, LateOf
    <3>2. Ids(r.docs) \subseteq Made
      BY <3>1, OfCommitIs
    <3>. QED
      BY <1>7, <3>2
  <2>. QED
    BY <1>7, <2>1
<1>10. ASSUME Paged, listing
       PROVE  ids \cap marked = {}
  <2>1. r.do = "list" => Unlisted(r)
    BY <1>1, <1>4, <1>10 DEF ListOK
  <2>. QED
    BY <1>7, <2>1 DEF Unlisted
<1>11. ASSUME NEW e \in CommitId, NEW q, OfCommit(q, e), q.do = "list", q # r
       PROVE  Ids(q.docs) \cap ids = {}
  <2>1. CASE r.do = "list"
    <3>1. PICK f \in CommitId : OfCommit(r, f)
      BY <1>1, <1>4, <2>1, LateOf
    <3>2. Ids(q.docs) \cap Ids(r.docs) = {}
      BY <1>11, <2>1, <3>1, ListsApart
    <3>. QED
      BY <1>7, <3>2
  <2>. QED
    BY <1>7, <2>1
<1>12. ASSUME driver = "azuretable", NEW q \in Client, Adds(q), NEW j \in DOMAIN call[q].todo,
              call[q].todo[j].do = "list"
       PROVE  Ids(call[q].todo[j].docs) \cap ids = {}
  <2>1. PICK e, s : e = call[q].c /\ s = call[q].todo[j]
    OBVIOUS
  <2>2. e \in CommitId /\ OfCommit(s, e) /\ s.do = "list"
    BY <1>12, <2>1, WriterIs, WritersOf
  <2>3. CASE r.do = "list"
    <3>1. PICK f \in CommitId : OfCommit(r, f)
      BY <1>1, <1>4, <2>3, LateOf
    <3>2. PICK d \in Document : r.docs = <<d>> /\ d.commit = f
      BY <3>1, OfCommitIs
    <3>3. Elsewhere(e, r)
      BY <1>1, <1>4, <1>12, <2>1 DEF OnceOK
    <3>4. e # f
      BY <2>3, <3>2, <3>3 DEF Elsewhere
    <3>5. Ids(s.docs) \cap Ids(r.docs) = {}
      BY <2>2, <2>3, <3>1, <3>4, ListsApart
    <3>. QED
      BY <1>7, <2>1, <3>5
  <2>. QED
    BY <1>7, <2>3
<1>13. ASSUME Paged, listing
       PROVE  LaterLists(ids)
  <2>1. ASSUME NEW q \in Client, Adds(q), NEW j \in DOMAIN call[q].todo, call[q].todo[j].do = "list"
        PROVE  Apart(call[q].todo[j], ids)
    <3>1. Unlisted(call[q].todo[j])
      BY <1>4, <1>13, <2>1 DEF ListOK
    <3>2. Ids(call[q].todo[j].docs) \cap ids = {}
      <4>1. CASE r.do = "list"
        <5>1. driver = "azuretable"
          BY <1>3, <4>1
        <5>. QED
          BY <1>12, <2>1, <5>1
      <4>. QED
        BY <1>7, <4>1
    <3>. QED
      BY <3>1, <3>2 DEF Unlisted, Apart
  <2>2. ASSUME NEW q \in late', q.do = "list"
        PROVE  Apart(q, ids)
    <3>1. q \in late /\ q # r
      BY <1>1, <2>2
    <3>2. Unlisted(q)
      BY <1>4, <1>13, <2>2, <3>1 DEF ListOK
    <3>3. PICK e \in CommitId : OfCommit(q, e)
      BY <1>4, <2>2, <3>1, LateOf
    <3>4. Ids(q.docs) \cap ids = {}
      BY <1>11, <2>2, <3>1, <3>3
    <3>. QED
      BY <3>2, <3>4 DEF Unlisted, Apart
  <2>. QED
    BY <1>2, <2>1, <2>2 DEF LaterLists, Adds
<1>14. ListOK'
  BY <1>2, <1>6, <1>8, <1>9, <1>10, <1>13, ListsAfter
<1>15. driver = "azuretable" => UniqueIds'
  <2>1. SUFFICES ASSUME driver = "azuretable"
                 PROVE  UniqueIds'
    OBVIOUS
  <2>2. UniqueIds /\ EventsOK
    BY <1>4, <2>1 DEF OnceOK, Inv
  <2>3. CASE new = <<>>
    <3>1. events' = events
      BY <1>5, <2>3, ConcatEmptySeq DEF Inv, EventsOK
    <3>. QED
      BY <2>2, <3>1 DEF UniqueIds, Id
  <2>4. CASE r.do = "drop"
    <3>1. events' = events
      BY <1>1, <2>4 DEF Takes
    <3>. QED
      BY <2>2, <3>1 DEF UniqueIds, Id
  <2>5. CASE r.do \in {"put", "list"} /\ new # <<>>
    <3>1. PICK c \in CommitId : \E i \in DOMAIN commit[c] : r.docs = <<commit[c][i]>>
      BY <1>3, <2>5
    <3>2. PICK i \in DOMAIN commit[c] : r.docs = <<commit[c][i]>>
      BY <3>1
    <3>3. PICK d \in Document : d = commit[c][i]
      BY Originals DEF Inv
    <3>4. r.docs = <<d>>
      BY <3>2, <3>3
    <3>5. \/ new = <<>>
          \/ new = <<d>> /\ r.do = "put" /\ ~Refuses(r, d)
      BY <1>1, <1>3, <1>5, <2>5, <3>4, SingleOutcome
    <3>6. new = <<d>> /\ Id(d) \notin Stored
      BY <2>1, <2>5, <3>5 DEF Refuses
    <3>7. events' = events \o <<d>>
      BY <1>5, <3>6
    <3>. QED
      BY <2>2, <3>6, <3>7, OneMoreId
  <2>. QED
    BY <1>3, <2>3, <2>4, <2>5
<1>16. driver = "redis" => Counting'
  <2>1. SUFFICES ASSUME driver = "redis"
                 PROVE  Counting'
    OBVIOUS
  <2>2. events' = events
    BY <1>1, <1>3, <2>1 DEF Takes
  <2>. QED
    BY <1>4, <2>1, <2>2 DEF OnceOK, Counting
<1>17. OnceOK'
  <2>1. late' \subseteq late
    BY <1>1
  <2>. QED
    BY <1>2, <1>4, <1>15, <1>16, <2>1 DEF OnceOK, Adds, Elsewhere
<1>18. Growing
  BY <1>2, <1>5, <1>6, GrowingStore
<1>. QED
  BY <1>2, <1>14, <1>17, <1>18, CallsQuiet

\* Every step keeps the invariant of reads.
LEMMA QuietNext ==
  ASSUME StoreAssumption, Inv, Quiet, [Next]_vars
  PROVE  Quiet'
<1>1. CASE \E p \in Client : Done(p)
  BY <1>1, QuietDone
<1>2. CASE NoneAnswered /\ Others
  <2>1. ASSUME NEW p \in Client, Step(p)
        PROVE  Quiet'
    <3>1. \A q \in Asks(p) : q \in Queries
      BY DEF Asks
    <3>2. CASE \E c \in CommitId, n \in Sizes : Add(p, c, n)
      BY <1>2, <3>2, QuietAdd
    <3>3. CASE Write(p)
      BY <1>2, <3>3, QuietWrite
    <3>4. CASE \E q \in Asks(p) : Ask(p, q)
      BY <1>2, <3>1, <3>4, QuietAsk
    <3>5. CASE \E q \in Asks(p) : Fetch(p, q)
      BY <1>2, <3>1, <3>5, QuietFetch
    <3>6. CASE Clean(p)
      BY <1>2, <3>6, QuietClean
    <3>7. CASE Lookup(p)
      BY <1>2, <3>7, QuietLookup
    <3>8. CASE Repair(p)
      BY <1>2, <3>8, QuietRepair
    <3>9. CASE Page(p)
      BY <1>2, <3>9, QuietPage
    <3>10. CASE Redis_scanBegins(p)
      BY <1>2, <3>10, ScanBegins
    <3>11. CASE Redis_scanEnds(p)
      BY <1>2, <3>11, ScanEnds
    <3>12. CASE \E q \in Asks(p) : ReadFails(p, q)
      BY <1>2, <3>12, QuietReadFails
    <3>. QED
      BY <2>1, <3>2, <3>3, <3>4, <3>5, <3>6, <3>7, <3>8, <3>9, <3>10, <3>11, <3>12 DEF Step
  <2>2. ASSUME NEW c \in CommitId, NEW i \in DOMAIN commit[c], Mark(<<c, i - 1>>)
        PROVE  Quiet'
    BY <1>2, <2>2, QuietMark
  <2>3. CASE WriteLate
    BY <1>2, <2>3, QuietWriteLate
  <2>. QED
    BY <1>2, <2>1, <2>2, <2>3 DEF Others
<1>3. CASE UNCHANGED vars
  <2>1. UNCHANGED <<driver, listing, commit, events, waiting, late, marked, call>>
    BY <1>3 DEF vars
  <2>2. ListOK'
    BY <2>1 DEF Quiet, ListOK, Paged, Stored, Made, Ids, Id, Adds, Unlisted
  <2>3. OnceOK'
    BY <2>1 DEF Quiet, OnceOK, Adds, UniqueIds, Id, Counting, Elsewhere
  <2>4. ASSUME NEW p \in Client
        PROVE  Reads(call[p])'
    <3>1. Growing
      BY <2>1, StoreUnchanged
    <3>2. Reads(call[p]) /\ call'[p] = call[p]
      BY <2>1 DEF Quiet
    <3>. QED
      BY <2>1, <3>1, <3>2, ReadsGrow
  <2>. QED
    BY <2>2, <2>3, <2>4 DEF Quiet
<1>. QED
  BY <1>1, <1>2, <1>3 DEF Next, NoneAnswered

\* Whatever the driver, a read during which the store did not change answers what the
\* contract promises, where Regular says that the driver can: the pages, scans, sorts
\* and cuts of the seven drivers come to the same.
THEOREM ReadersAgree == Spec => []QuietReadsAgree
<1>1. StoreAssumption
  BY StoreAssumption
<1>2. Init => Quiet
  BY <1>1, QuietInit
<1>3. Inv /\ Inv' /\ Quiet /\ [Next]_vars => Quiet'
  BY <1>1, QuietNext
<1>4. Quiet => QuietReadsAgree
  BY DEF Quiet, Reads, Agreeing, QuietReadsAgree
<1>. QED
  BY <1>2, <1>3, <1>4, InvHolds, PTL DEF Spec
=============================================================================
