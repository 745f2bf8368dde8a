----------------------- MODULE EventstoreCommit_proofs -----------------------
(***************************************************************************)
(* Machine-checked proofs about EventstoreCommit, for any number of stream *)
(* objects, streams, events and commits of callers that commit whenever    *)
(* they like: positions are unique, nothing is published that is not       *)
(* stored, nothing is published twice, and nothing is stored twice.        *)
(***************************************************************************)
EXTENDS EventstoreCommit, SequenceTheorems, TLAPS

-----------------------------------------------------------------------------
(* Sequences of records *)

LEMMA NoElements == Elements(<<>>) = {}
BY DEF Elements

LEMMA InConcat ==
  ASSUME NEW S, NEW s \in Seq(S), NEW t \in Seq(S), NEW k \in DOMAIN (s \o t)
  PROVE  \/ k \in DOMAIN s /\ (s \o t)[k] = s[k]
         \/ /\ k > Len(s)
            /\ k - Len(s) \in DOMAIN t
            /\ (s \o t)[k] = t[k - Len(s)]
<1>1. /\ Len(s \o t) = Len(s) + Len(t)
      /\ \A i \in 1 .. (Len(s) + Len(t)) :
           (s \o t)[i] = IF i <= Len(s) THEN s[i] ELSE t[i - Len(s)]
  BY ConcatProperties
<1>2. /\ DOMAIN s = 1 .. Len(s) /\ DOMAIN t = 1 .. Len(t)
      /\ DOMAIN (s \o t) = 1 .. (Len(s) + Len(t))
      /\ Len(s) \in Nat /\ Len(t) \in Nat
  BY <1>1
<1>. QED
  BY <1>1, <1>2

LEMMA ElementsOfConcat ==
  ASSUME NEW S, NEW s \in Seq(S), NEW t \in Seq(S)
  PROVE  /\ s \o t \in Seq(S)
         /\ Elements(s \o t) \subseteq Elements(s) \cup Elements(t)
<1>1. s \o t \in Seq(S)
  BY ConcatProperties
<1>. QED
  BY <1>1, InConcat DEF Elements

LEMMA ElementsOfSubSeq ==
  ASSUME NEW S, NEW s \in Seq(S), NEW m \in 1 .. (Len(s) + 1), NEW n \in 0 .. Len(s)
  PROVE  /\ SubSeq(s, m, n) \in Seq(S)
         /\ Elements(SubSeq(s, m, n)) \subseteq Elements(s)
<1>1. /\ SubSeq(s, m, n) \in Seq(S)
      /\ DOMAIN SubSeq(s, m, n) = 1 .. Len(SubSeq(s, m, n))
      /\ Len(SubSeq(s, m, n)) = IF m <= n THEN n - m + 1 ELSE 0
      /\ \A i \in 1 .. (n - m + 1) : SubSeq(s, m, n)[i] = s[m + i - 1]
  BY SubSeqProperties
<1>2. ASSUME NEW i \in DOMAIN SubSeq(s, m, n) PROVE SubSeq(s, m, n)[i] \in Elements(s)
  <2>1. SubSeq(s, m, n)[i] = s[m + i - 1] /\ m + i - 1 \in DOMAIN s
    BY <1>1
  <2>. QED
    BY <2>1 DEF Elements
<1>. QED
  BY <1>1, <1>2 DEF Elements

-----------------------------------------------------------------------------
(* The inductive invariant *)

\* A commit that has its positions has taken them from the counter.
CallOK(c) ==
  /\ c.pc # "free" => c.by \in Handle
  /\ c.pc \in {"add", "publish", "concat"} => c.first + Len(c.batch) <= position

CallsOK == \A i \in Call : CallOK(call[i])

StoreOK == \A s \in Stream : \A k \in DOMAIN store[s] : store[s][k].pos \in 1 .. position

QueueOK == \A k \in DOMAIN queue : queue[k].pos \in 1 .. position

\* Two commits on their way to the store have different positions.
ClaimsDiffer ==
  \A i, j \in Call : (i # j /\ call[i].pc = "add" /\ call[j].pc = "add") =>
    \/ call[i].first + Len(call[i].batch) <= call[j].first
    \/ call[j].first + Len(call[j].batch) <= call[i].first

\* Nobody else has stored an event with one of them.
ClaimsUnstored ==
  \A i \in Call : call[i].pc = "add" =>
    \A s \in Stream : \A k \in DOMAIN store[s] :
      \/ store[s][k].pos <= call[i].first
      \/ store[s][k].pos > call[i].first + Len(call[i].batch)

IInv ==
  /\ TypeOK
  /\ CallsOK
  /\ StoreOK
  /\ QueueOK
  /\ ClaimsDiffer
  /\ ClaimsUnstored
  /\ PositionsAreUnique

LEMMA UnusedType == Unused \in Objects
<1>1. <<>> \in Seq(Event)
  BY EmptySeq
<1>. QED
  BY <1>1 DEF Unused, Objects

LEMMA NoCallType == NoCall \in Calls /\ NoCall.pc = "free"
<1>1. <<>> \in Seq(Event)
  BY EmptySeq
<1>. QED
  BY <1>1 DEF NoCall, Calls

LEMMA RevisedType ==
  ASSUME NEW c \in Calls
  PROVE  /\ Len(c.batch) \in Nat
         /\ DOMAIN c.batch = 1 .. Len(c.batch)
         /\ Revised(c) \in Seq(Records)
         /\ Len(Revised(c)) = Len(c.batch)
         /\ \A k \in 1 .. Len(c.batch) : Revised(c)[k].pos = c.first + k
         /\ Elements(Revised(c)) \subseteq Records
         /\ Positions(Elements(Revised(c))) = (c.first + 1) .. (c.first + Len(c.batch))
<1>1. c.batch \in Seq(Event) /\ c.base \in Int /\ c.first \in Nat
  BY DEF Calls
<1>2. Len(c.batch) \in Nat /\ DOMAIN c.batch = 1 .. Len(c.batch)
  BY <1>1, LenProperties
<1>3. ASSUME NEW k \in 1 .. Len(c.batch)
      PROVE  Revised(c)[k] \in Records /\ Revised(c)[k].pos = c.first + k
  BY <1>1, <1>2, ElementOfSeq DEF Revised, Records
<1>4. DOMAIN Revised(c) = 1 .. Len(c.batch)
  BY <1>2 DEF Revised
<1>5. Revised(c) \in [1 .. Len(c.batch) -> Records]
  BY <1>2, <1>3 DEF Revised
<1>6. Revised(c) \in Seq(Records) /\ Len(Revised(c)) = Len(c.batch)
  BY <1>2, <1>4, <1>5
<1>7. Positions(Elements(Revised(c))) = {c.first + k : k \in 1 .. Len(c.batch)}
  BY <1>3, <1>4 DEF Positions, Elements
<1>8. {c.first + k : k \in 1 .. Len(c.batch)} = (c.first + 1) .. (c.first + Len(c.batch))
  <2>1. ASSUME NEW x \in (c.first + 1) .. (c.first + Len(c.batch))
        PROVE  x - c.first \in 1 .. Len(c.batch) /\ x = c.first + (x - c.first)
    BY <1>1, <1>2
  <2>. QED
    BY <1>1, <1>2, <2>1
<1>. QED
  BY <1>2, <1>3, <1>4, <1>6, <1>7, <1>8 DEF Elements

\* A step that leaves the store and the counter alone keeps the invariant,
\* unless it brings a commit on its way to the store.
LEMMA QuietStep ==
  ASSUME IInv, TypeOK', QueueOK', UNCHANGED <<store, position>>,
         \A i \in Call : \/ call'[i] = call[i]
                         \/ call'[i].pc # "add" /\ CallOK(call[i])'
  PROVE  IInv'
<1>1. CallsOK'
  BY DEF IInv, CallsOK, CallOK
<1>2. StoreOK' /\ PositionsAreUnique'
  BY DEF IInv, StoreOK, PositionsAreUnique
<1>3. ClaimsDiffer' /\ ClaimsUnstored'
  BY DEF IInv, ClaimsDiffer, ClaimsUnstored
<1>. QED
  BY <1>1, <1>2, <1>3 DEF IInv

LEMMA SameCalls ==
  ASSUME IInv, TypeOK', QueueOK', UNCHANGED <<store, position, call>>
  PROVE  IInv'
BY QuietStep

\* The same for a step of one commit.
LEMMA CallStep ==
  ASSUME IInv, TypeOK', QueueOK', UNCHANGED <<store, position>>,
         NEW i \in Call, NEW c, c.pc # "add", CallOK(c), call' = [call EXCEPT ![i] = c]
  PROVE  IInv'
<1>1. \A j \in Call : call'[j] = IF j = i THEN c ELSE call[j]
  BY DEF IInv, TypeOK
<1>2. call'[i].pc # "add" /\ CallOK(call[i])'
  BY <1>1 DEF CallOK
<1>. QED
  BY <1>1, <1>2, QuietStep

LEMMA NoCallOK == CallOK(NoCall)
BY NoCallType DEF CallOK

-----------------------------------------------------------------------------
(* The application's steps *)

LEMMA LoadStep ==
  ASSUME IInv, NEW h \in Handle, NEW s \in Stream, Load(h, s)
  PROVE  IInv'
<1> DEFINE o == [Unused EXCEPT !.stream = s, !.events = {<<r.event, r.rev>> : r \in Stored(s)}]
<1>1. Stored(s) \subseteq Records
  BY ElementOfSeq DEF IInv, TypeOK, Stored, Elements
<1>2. {<<r.event, r.rev>> : r \in Stored(s)} \in SUBSET (Event \X Int)
  BY <1>1 DEF Records
<1>20. o \in Objects
  BY <1>2, UnusedType DEF Objects
<1>3. TypeOK'
  BY <1>20 DEF IInv, TypeOK, Load, dispatcher, history
<1>. QED
  BY <1>3, SameCalls DEF IInv, QueueOK, Load, dispatcher, history

LEMMA ReleaseStep ==
  ASSUME IInv, NEW h \in Handle, Release(h)
  PROVE  IInv'
<1>1. TypeOK'
  BY UnusedType DEF IInv, TypeOK, Release, dispatcher, history
<1>. QED
  BY <1>1, SameCalls DEF IInv, QueueOK, Release, dispatcher, history

LEMMA AddEventStep ==
  ASSUME IInv, NEW h \in Handle, NEW e \in Event, AddEvent(h, e)
  PROVE  IInv'
<1>1. object[h] \in Objects
  BY DEF IInv, TypeOK
<1>2. Append(object[h].uncommitted, e) \in Seq(Event)
  BY <1>1, AppendProperties DEF Objects
<1>3. [object[h] EXCEPT !.uncommitted = Append(@, e), !.added = @ \cup {e}] \in Objects
  BY <1>1, <1>2 DEF Objects
<1>4. TypeOK'
  BY <1>3 DEF IInv, TypeOK, AddEvent, dispatcher
<1>. QED
  BY <1>4, SameCalls DEF IInv, QueueOK, AddEvent, dispatcher

LEMMA CommitStep ==
  ASSUME IInv, NEW h \in Handle, NEW i \in Call, Commit(h, i)
  PROVE  IInv'
<1>1. object[h] \in Objects
  BY DEF IInv, TypeOK
<1>2. PICK base \in CurrentRevision(h) :
        call' = [call EXCEPT ![i] = [pc |-> "ids", by |-> h, base |-> base,
                                     batch |-> object[h].uncommitted, first |-> 0]]
  BY DEF Commit
<1> DEFINE c == [pc |-> "ids", by |-> h, base |-> base,
                 batch |-> object[h].uncommitted, first |-> 0]
<1>3. base \in Int
  BY <1>1, <1>2 DEF CurrentRevision, Objects
<1>4. c \in Calls
  BY <1>1, <1>3 DEF Calls, Objects
<1>5. [object[h] EXCEPT !.uncommitted = Left(@)] \in Objects
  BY <1>1, EmptySeq DEF Objects, Left
<1>6. TypeOK'
  BY <1>2, <1>4, <1>5 DEF IInv, TypeOK, Commit, dispatcher, history
<1>7. CallOK(c)
  BY DEF CallOK
<1>. QED
  BY <1>2, <1>6, <1>7, CallStep DEF IInv, QueueOK, Commit, dispatcher, history

-----------------------------------------------------------------------------
(* The steps of a commit *)

LEMMA NumberedStep ==
  ASSUME IInv, NEW i \in Call, Numbered(i)
  PROVE  IInv'
<1> DEFINE c == [call[i] EXCEPT !.pc = "add", !.first = position]
           n == Len(call[i].batch)
<1>1. call[i] \in Calls /\ CallOK(call[i]) /\ position \in Nat
  BY DEF IInv, TypeOK, CallsOK
<1>2. n \in Nat /\ position' = position + n /\ position' \in Nat
  BY <1>1, RevisedType DEF Numbered, NextPosition
<1>3. c \in Calls
  BY <1>1 DEF Calls
<1>4. \A j \in Call : j # i => call'[j] = call[j]
  BY DEF IInv, TypeOK, Numbered
<1>5. /\ call'[i].pc = "add" /\ call'[i].by = call[i].by
      /\ call'[i].batch = call[i].batch /\ call'[i].first = position
  BY <1>1 DEF IInv, TypeOK, Numbered, Calls
<1>6. \A j \in Call : call[j].first \in Nat /\ Len(call[j].batch) \in Nat
  BY RevisedType DEF IInv, TypeOK, Calls
<1>7. \A s \in Stream : \A k \in DOMAIN store[s] : store[s][k].pos \in 1 .. position
  BY DEF IInv, StoreOK
<1>8. TypeOK'
  BY <1>1, <1>2, <1>3 DEF IInv, TypeOK, Numbered, dispatcher, history
<1>9. CallsOK'
  <2>1. CallOK(call[i])'
    BY <1>1, <1>2, <1>5 DEF CallOK, Numbered
  <2>2. ASSUME NEW j \in Call, j # i PROVE CallOK(call[j])'
    <3>1. CallOK(call[j]) /\ call'[j] = call[j]
      BY <1>4, <2>2 DEF IInv, CallsOK
    <3>2. call[j].first + Len(call[j].batch) <= position =>
            call[j].first + Len(call[j].batch) <= position'
      <4>1. call[j].first \in Nat /\ Len(call[j].batch) \in Nat /\ position \in Nat /\ n \in Nat
        BY <1>1, <1>2, <1>6
      <4>. HIDE DEF n
      <4>. QED
        BY <1>2, <4>1
    <3>. QED
      BY <3>1, <3>2 DEF CallOK
  <2>. QED
    BY <2>1, <2>2 DEF CallsOK
<1>0. store' = store /\ queue' = queue
  BY DEF Numbered, dispatcher
<1>10. StoreOK' /\ QueueOK'
  <2>1. \A x \in 1 .. position : x \in 1 .. position'
    BY <1>1, <1>2
  <2>2. StoreOK'
    BY <1>0, <1>7, <2>1 DEF StoreOK
  <2>. QED
    BY <1>0, <2>1, <2>2 DEF IInv, QueueOK
<1>11. ClaimsDiffer'
  <2>1. \A j \in Call : call[j].pc = "add" => call[j].first + Len(call[j].batch) <= position
    BY DEF IInv, CallsOK, CallOK
  <2>. QED
    BY <1>1, <1>2, <1>4, <1>5, <1>6, <2>1 DEF IInv, ClaimsDiffer
<1>12. ClaimsUnstored'
  <2>. SUFFICES ASSUME NEW j \in Call, call'[j].pc = "add",
                       NEW s \in Stream, NEW k \in DOMAIN store[s]
                PROVE  \/ store[s][k].pos <= call'[j].first
                       \/ store[s][k].pos > call'[j].first + Len(call'[j].batch)
    BY <1>0 DEF ClaimsUnstored
  <2>1. CASE j = i
    BY <1>1, <1>4, <1>5, <1>7, <2>1
  <2>2. CASE j # i
    BY <1>4, <2>2 DEF IInv, ClaimsUnstored
  <2>. QED
    BY <2>1, <2>2
<1>13. PositionsAreUnique'
  BY DEF IInv, PositionsAreUnique, Numbered
<1>. QED
  BY <1>8, <1>9, <1>10, <1>11, <1>12, <1>13 DEF IInv

\* A rejected commit leaves its object and its state behind.
LEMMA RejectedType ==
  ASSUME IInv, NEW i \in Call, call[i].pc # "free"
  PROVE  /\ call[i].by \in Handle
         /\ object[call[i].by] \in Objects
         /\ [object EXCEPT ![call[i].by].rejected = TRUE] \in [Handle -> Objects]
<1>1. call[i].by \in Handle
  BY DEF IInv, CallsOK, CallOK
<1>2. object[call[i].by] \in Objects
  BY <1>1 DEF IInv, TypeOK
<1>3. [object[call[i].by] EXCEPT !.rejected = TRUE] \in Objects
  BY <1>2 DEF Objects
<1>. QED
  BY <1>1, <1>2, <1>3 DEF IInv, TypeOK

LEMMA NotNumberedStep ==
  ASSUME IInv, NEW i \in Call, NotNumbered(i), faults' \in 0 .. MaxFaults
  PROVE  IInv'
<1>1. call[i] \in Calls /\ position \in Nat
  BY DEF IInv, TypeOK
<1>2. position' \in Nat /\ position' >= position
  BY <1>1, RevisedType DEF NotNumbered, NextPosition
<1>3. \A x \in 1 .. position : x \in 1 .. position'
  BY <1>1, <1>2
<1>4. /\ store' = store /\ queue' = queue
      /\ call' = [call EXCEPT ![i] = NoCall]
      /\ object' = [object EXCEPT ![call[i].by].rejected = TRUE]
  BY DEF NotNumbered, dispatcher
<1>5. \A j \in Call : call'[j] = NoCall \/ call'[j] = call[j]
  BY <1>4 DEF IInv, TypeOK
<1>6. object' \in [Handle -> Objects]
  BY <1>4, RejectedType DEF NotNumbered
<1>7. TypeOK'
  BY <1>2, <1>3, <1>4, <1>6, NoCallType DEF IInv, TypeOK, NotNumbered, dispatcher, history
<1>8. StoreOK' /\ QueueOK'
  BY <1>3, <1>4 DEF IInv, StoreOK, QueueOK
<1>9. CallsOK'
  <2>. SUFFICES ASSUME NEW j \in Call PROVE CallOK(call[j])'
    BY DEF CallsOK
  <2>1. CASE call'[j] = NoCall
    BY <2>1, NoCallType DEF CallOK
  <2>2. CASE call'[j] = call[j]
    <3>1. call[j].first \in Nat /\ Len(call[j].batch) \in Nat
      BY RevisedType DEF IInv, TypeOK, Calls
    <3>. QED
      BY <1>1, <1>2, <2>2, <3>1 DEF IInv, CallsOK, CallOK
  <2>. QED
    BY <1>5, <2>1, <2>2
<1>10. ClaimsDiffer' /\ ClaimsUnstored' /\ PositionsAreUnique'
  BY <1>4, <1>5, NoCallType DEF IInv, ClaimsDiffer, ClaimsUnstored, PositionsAreUnique
<1>. QED
  BY <1>7, <1>8, <1>9, <1>10 DEF IInv

\* What the store holds after an insertion.
LEMMA InsertType ==
  ASSUME IInv, NEW i \in Call, call[i].pc = "add", Insert(call[i])
  PROVE  /\ store' \in [Stream -> Seq(Records)]
         /\ undispatched' \subseteq 1 .. position
         /\ \A s \in Stream : \A k \in DOMAIN store'[s] :
              \/ k \in DOMAIN store[s] /\ store'[s][k] = store[s][k]
              \/ /\ s = object[call[i].by].stream
                 /\ k > Len(store[s])
                 /\ k - Len(store[s]) \in 1 .. Len(call[i].batch)
                 /\ store'[s][k].pos = call[i].first + (k - Len(store[s]))
<1> DEFINE c == call[i]
           t == object[c.by].stream
           new == Revised(c)
<1>1. c \in Calls /\ c.first \in Nat /\ Len(c.batch) \in Nat /\ position \in Nat
  BY RevisedType DEF IInv, TypeOK, Calls
<1>2. /\ new \in Seq(Records)
      /\ Len(new) = Len(c.batch)
      /\ \A k \in 1 .. Len(c.batch) : new[k].pos = c.first + k
      /\ Positions(Elements(new)) = (c.first + 1) .. (c.first + Len(c.batch))
  BY <1>1, RevisedType
<1>3. c.first + Len(c.batch) <= position
  BY DEF IInv, CallsOK, CallOK
<1>4. store' = [store EXCEPT ![t] = @ \o new] /\ undispatched' = undispatched \cup Positions(Elements(new))
  BY DEF Insert
<1> HIDE DEF new, t, c
<1>5. undispatched' \subseteq 1 .. position
  BY <1>1, <1>2, <1>3, <1>4 DEF IInv, TypeOK
<1>6. ASSUME NEW s \in Stream PROVE /\ store[s] \in Seq(Records)
                                   /\ store'[s] = IF s = t THEN store[s] \o new ELSE store[s]
  BY <1>4 DEF IInv, TypeOK
<1>7. ASSUME NEW s \in Stream PROVE store[s] \o new \in Seq(Records)
  BY <1>2, <1>6, ConcatProperties
<1>8. store' \in [Stream -> Seq(Records)]
  <2>1. DOMAIN store' = Stream /\ store' = [s \in Stream |-> store'[s]]
    BY <1>4 DEF IInv, TypeOK
  <2>. QED
    BY <1>6, <1>7, <2>1
<1>9. ASSUME NEW s \in Stream, NEW k \in DOMAIN store'[s]
      PROVE  \/ k \in DOMAIN store[s] /\ store'[s][k] = store[s][k]
             \/ /\ s = t
                /\ k > Len(store[s])
                /\ k - Len(store[s]) \in 1 .. Len(c.batch)
                /\ store'[s][k].pos = c.first + (k - Len(store[s]))
  <2>1. CASE s # t
    BY <1>6, <2>1
  <2>2. CASE s = t
    <3>1. store'[s] = store[s] \o new /\ DOMAIN new = 1 .. Len(c.batch)
      BY <1>2, <1>6, <2>2, LenProperties
    <3>2. \/ k \in DOMAIN store[s] /\ (store[s] \o new)[k] = store[s][k]
          \/ /\ k > Len(store[s])
             /\ k - Len(store[s]) \in DOMAIN new
             /\ (store[s] \o new)[k] = new[k - Len(store[s])]
      BY <1>2, <1>6, <3>1, InConcat
    <3>. QED
      BY <1>2, <2>2, <3>1, <3>2
  <2>. QED
    BY <2>1, <2>2
<1>. QED
  BY <1>5, <1>8, <1>9 DEF t, c

\* Inserting the events of a commit keeps the positions apart.
LEMMA InsertStep ==
  ASSUME IInv, NEW i \in Call, call[i].pc = "add", Insert(call[i]),
         UNCHANGED position, TypeOK', QueueOK', NEW st, st.pc # "add", CallOK(st),
         call' = [call EXCEPT ![i] = st]
  PROVE  IInv'
<1>1. \A j \in Call : call'[j] = IF j = i THEN st ELSE call[j]
  BY DEF IInv, TypeOK
<1>2. \A j \in Call : call[j].first \in Nat /\ Len(call[j].batch) \in Nat
  BY RevisedType DEF IInv, TypeOK, Calls
<1>3. position \in Nat /\ call[i].first + Len(call[i].batch) <= position
  BY DEF IInv, TypeOK, CallsOK, CallOK
<1>4. \A s \in Stream : \A k \in DOMAIN store[s] :
        /\ store[s][k].pos \in 1 .. position
        /\ store[s][k].pos <= call[i].first
           \/ store[s][k].pos > call[i].first + Len(call[i].batch)
  BY DEF IInv, StoreOK, ClaimsUnstored
<1>5. \A s \in Stream : Len(store[s]) \in Nat
  BY LenProperties DEF IInv, TypeOK
<1> DEFINE t == object[call[i].by].stream
           New(s, k) == /\ s = t
                        /\ k > Len(store[s])
                        /\ k - Len(store[s]) \in 1 .. Len(call[i].batch)
                        /\ store'[s][k].pos = call[i].first + (k - Len(store[s]))
           Old(s, k) == k \in DOMAIN store[s] /\ store'[s][k] = store[s][k]
<1>6. ASSUME NEW s \in Stream, NEW k \in DOMAIN store'[s]
      PROVE  k \in Nat /\ (Old(s, k) \/ New(s, k))
  BY InsertType, LenProperties
<1>7. ASSUME NEW s \in Stream, NEW k \in DOMAIN store'[s], New(s, k)
      PROVE  /\ store'[s][k].pos > call[i].first
             /\ store'[s][k].pos <= call[i].first + Len(call[i].batch)
             /\ store'[s][k].pos \in 1 .. position
  BY <1>2, <1>3, <1>5, <1>7
<1> HIDE DEF New
<1>8. CallsOK'
  BY <1>1 DEF IInv, CallsOK, CallOK
<1>9. StoreOK'
  BY <1>4, <1>6, <1>7 DEF StoreOK
<1>10. ClaimsDiffer'
  BY <1>1 DEF IInv, ClaimsDiffer
<1>11. ClaimsUnstored'
  <2>. SUFFICES ASSUME NEW j \in Call, j # i, call[j].pc = "add",
                       NEW s \in Stream, NEW k \in DOMAIN store'[s]
                PROVE  \/ store'[s][k].pos <= call[j].first
                       \/ store'[s][k].pos > call[j].first + Len(call[j].batch)
    BY <1>1 DEF ClaimsUnstored
  <2>1. CASE Old(s, k)
    BY <2>1 DEF IInv, ClaimsUnstored
  <2>2. CASE New(s, k)
    <3>1. \/ call[i].first + Len(call[i].batch) <= call[j].first
          \/ call[j].first + Len(call[j].batch) <= call[i].first
      BY DEF IInv, ClaimsDiffer
    <3>. QED
      BY <1>2, <1>7, <2>2, <3>1
  <2>. QED
    BY <1>6, <2>1, <2>2
<1>12. PositionsAreUnique'
  <2>. SUFFICES ASSUME NEW s \in Stream, NEW u \in Stream,
                       NEW k \in DOMAIN store'[s], NEW m \in DOMAIN store'[u],
                       store'[s][k].pos = store'[u][m].pos
                PROVE  s = u /\ k = m
    BY DEF PositionsAreUnique
  <2>1. CASE Old(s, k) /\ Old(u, m)
    BY <2>1 DEF IInv, PositionsAreUnique
  <2>2. CASE Old(s, k) /\ New(u, m)
    BY <1>2, <1>4, <1>7, <2>2
  <2>3. CASE New(s, k) /\ Old(u, m)
    BY <1>2, <1>4, <1>7, <2>3
  <2>4. CASE New(s, k) /\ New(u, m)
    <3>1. s = u /\ call[i].first + (k - Len(store[s])) = call[i].first + (m - Len(store[s]))
      BY <2>4 DEF New
    <3>. QED
      BY <1>2, <1>5, <1>6, <3>1
  <2>. QED
    BY <1>6, <2>1, <2>2, <2>3, <2>4
<1>. QED
  BY <1>8, <1>9, <1>10, <1>11, <1>12 DEF IInv

LEMMA AddedStep ==
  ASSUME IInv, NEW i \in Call, Added(i)
  PROVE  IInv'
<1> DEFINE st == [call[i] EXCEPT !.pc = "publish"]
<1>1. call[i] \in Calls /\ CallOK(call[i]) /\ call[i].pc = "add" /\ Insert(call[i])
  BY DEF IInv, TypeOK, CallsOK, Added
<1>2. st \in Calls /\ CallOK(st) /\ st.pc # "add"
  BY <1>1 DEF Calls, CallOK
<1>3. queue' = queue /\ position' = position /\ call' = [call EXCEPT ![i] = st]
  BY DEF Added, dispatcher
<1>4. store' \in [Stream -> Seq(Records)] /\ undispatched' \subseteq 1 .. position
  BY <1>1, InsertType
<1>5. TypeOK'
  BY <1>2, <1>3, <1>4 DEF IInv, TypeOK, Added, dispatcher, history
<1>6. QueueOK'
  BY <1>3 DEF IInv, QueueOK
<1>. QED
  BY <1>1, <1>2, <1>3, <1>5, <1>6, InsertStep

LEMMA NotAddedStep ==
  ASSUME IInv, NEW i \in Call, NotAdded(i), faults' \in 0 .. MaxFaults
  PROVE  IInv'
<1> DEFINE h == call[i].by
           o == [object[h] EXCEPT !.uncommitted = Restored(call[i].batch, @), !.rejected = TRUE]
<1>1. call[i] \in Calls /\ call[i].pc = "add"
  BY DEF IInv, TypeOK, NotAdded
<1>2. h \in Handle /\ object[h] \in Objects
  BY <1>1, RejectedType
<1>3. Restored(call[i].batch, object[h].uncommitted) \in Seq(Event)
  BY <1>1, <1>2, ConcatProperties DEF Calls, Objects, Restored
<1>4. o \in Objects
  BY <1>2, <1>3 DEF Objects
<1>5. /\ call' = [call EXCEPT ![i] = NoCall] /\ position' = position /\ queue' = queue
      /\ object' = [object EXCEPT ![h] = o]
  BY DEF NotAdded, dispatcher
<1>6. object' \in [Handle -> Objects] /\ call' \in [Call -> Calls]
  BY <1>4, <1>5, NoCallType DEF IInv, TypeOK
<1>7. /\ store' \in [Stream -> Seq(Records)] /\ undispatched' \subseteq 1 .. position
      /\ UNCHANGED store \/ Insert(call[i])
  BY <1>1, InsertType DEF IInv, TypeOK, NotAdded
<1>8. TypeOK'
  BY <1>5, <1>6, <1>7 DEF IInv, TypeOK, NotAdded, dispatcher, history
<1>9. QueueOK'
  BY <1>5 DEF IInv, QueueOK
<1>10. CASE UNCHANGED store
  BY <1>5, <1>8, <1>9, <1>10, NoCallOK, NoCallType, CallStep
<1>11. CASE Insert(call[i])
  BY <1>1, <1>5, <1>8, <1>9, <1>11, NoCallOK, NoCallType, InsertStep
<1>. QED
  BY <1>7, <1>10, <1>11

LEMMA OfferStep ==
  ASSUME IInv, NEW i \in Call, Offer(i)
  PROVE  IInv'
<1> DEFINE h == call[i].by
           o == [object[h] EXCEPT !.toDispatch = call[i].batch]
           st == [call[i] EXCEPT !.pc = "concat"]
<1>1. call[i] \in Calls /\ CallOK(call[i]) /\ call[i].pc = "publish"
  BY DEF IInv, TypeOK, CallsOK, Offer
<1>2. h \in Handle /\ object[h] \in Objects
  BY <1>1, RejectedType
<1>3. o \in Objects
  BY <1>1, <1>2 DEF Objects, Calls
<1>4. st \in Calls /\ CallOK(st) /\ st.pc # "add"
  BY <1>1 DEF Calls, CallOK
<1>5. /\ call' = [call EXCEPT ![i] = st] /\ object' = [object EXCEPT ![h] = o]
      /\ UNCHANGED <<store, position, queue>>
  BY DEF Offer, dispatcher
<1>6. TypeOK'
  BY <1>3, <1>4, <1>5 DEF IInv, TypeOK, Offer, dispatcher, history
<1>7. QueueOK'
  BY <1>5 DEF IInv, QueueOK
<1>. QED
  BY <1>4, <1>5, <1>6, <1>7, CallStep

\* What trigger works on: the queue and the events of the commit behind it.
LEMMA ToPublish ==
  ASSUME IInv, NEW i \in Call, call[i].pc = "publish",
         NEW all, all = queue \o Revised(call[i])
  PROVE  /\ all \in Seq(Records)
         /\ \A k \in DOMAIN all : all[k].pos \in 1 .. position
         /\ Positions(Elements(all)) \subseteq 1 .. position
<1>1. call[i] \in Calls /\ CallOK(call[i]) /\ position \in Nat /\ queue \in Seq(Records)
  BY DEF IInv, TypeOK, CallsOK
<1>2. /\ Revised(call[i]) \in Seq(Records)
      /\ Positions(Elements(Revised(call[i]))) =
           (call[i].first + 1) .. (call[i].first + Len(call[i].batch))
      /\ call[i].first \in Nat /\ Len(call[i].batch) \in Nat
  BY <1>1, RevisedType DEF Calls
<1>3. Positions(Elements(Revised(call[i]))) \subseteq 1 .. position
  BY <1>1, <1>2 DEF CallOK
<1>4. Positions(Elements(queue)) \subseteq 1 .. position
  BY DEF IInv, QueueOK, Positions, Elements
<1>5. all \in Seq(Records) /\ Elements(all) \subseteq Elements(queue) \cup Elements(Revised(call[i]))
  BY <1>1, <1>2, ElementsOfConcat
<1>6. Positions(Elements(all)) \subseteq 1 .. position
  BY <1>3, <1>4, <1>5 DEF Positions
<1>. QED
  BY <1>5, <1>6 DEF Positions, Elements

LEMMA PublishStep ==
  ASSUME IInv, NEW i \in Call, Publish(i)
  PROVE  IInv'
<1> DEFINE all == queue \o Revised(call[i])
           st == [call[i] EXCEPT !.pc = "concat"]
<1>1. call[i] \in Calls /\ CallOK(call[i]) /\ call[i].pc = "publish"
  BY DEF IInv, TypeOK, CallsOK, Publish
<1>2. st \in Calls /\ CallOK(st) /\ st.pc # "add"
  BY <1>1 DEF Calls, CallOK
<1>3. /\ all \in Seq(Records)
      /\ \A k \in DOMAIN all : all[k].pos \in 1 .. position
      /\ Positions(Elements(all)) \subseteq 1 .. position
  BY <1>1, ToPublish
<1>4. /\ call' = [call EXCEPT ![i] = st]
      /\ UNCHANGED <<object, store, undispatched, position, publisher, marking, settled,
                     used, owed, faults>>
  BY DEF Publish
<1>5. Rest(all, Len(all)) = <<>>
  <2>. HIDE DEF all
  <2>1. Len(all) \in Nat
    BY <1>3, LenProperties
  <2>. QED
    BY <2>1, SubSeqEmpty DEF Rest
<1>6. \/ queue' = all /\ UNCHANGED <<published, handed, running>>
      \/ /\ queue' = <<>>
         /\ published' = published \o all
         /\ handed' = handed \cup Positions(Elements(all))
         /\ running' = FALSE
  BY <1>5 DEF Publish, Given, RunningAfter
<1> HIDE DEF all, st
<1>7. published \o all \in Seq(Records)
  BY <1>3, ConcatProperties DEF IInv, TypeOK
<1>8. QueueOK'
  BY <1>3, <1>4, <1>6 DEF IInv, QueueOK
<1>9. TypeOK'
  BY <1>2, <1>3, <1>4, <1>6, <1>7, EmptySeq DEF IInv, TypeOK
<1>. QED
  BY <1>2, <1>4, <1>8, <1>9, CallStep

LEMMA PublishThrowsStep ==
  ASSUME IInv, NEW i \in Call, PublishThrows(i), faults' \in 0 .. MaxFaults
  PROVE  IInv'
<1> DEFINE all == queue \o Revised(call[i])
<1>1. call[i].pc = "publish"
  BY DEF PublishThrows
<1>2. /\ all \in Seq(Records)
      /\ \A k \in DOMAIN all : all[k].pos \in 1 .. position
  BY <1>1, ToPublish
<1>3. PICK n \in DOMAIN all :
        /\ published' = published \o SubSeq(all, 1, n)
        /\ handed' = handed \cup {all[k].pos : k \in 1 .. n - 1}
        /\ queue' = Rest(all, n)
  BY DEF PublishThrows, Given
<1>4. /\ call' = [call EXCEPT ![i] = NoCall] /\ running' = TRUE
      /\ object' = [object EXCEPT ![call[i].by].rejected = TRUE]
      /\ UNCHANGED <<store, undispatched, position, publisher, marking, settled, used, owed>>
  BY DEF PublishThrows
<1>5. object' \in [Handle -> Objects]
  BY <1>1, <1>4, RejectedType
<1> HIDE DEF all
<1>6. Len(all) \in Nat /\ n \in 1 .. Len(all) /\ DOMAIN all = 1 .. Len(all)
  BY <1>2, LenProperties
<1>7. \A k \in 1 .. n - 1 : k \in DOMAIN all
  BY <1>6
<1>8. handed' \subseteq 1 .. position
  BY <1>2, <1>3, <1>7 DEF IInv, TypeOK
<1>9. SubSeq(all, 1, n) \in Seq(Records)
  <2>1. 1 \in 1 .. (Len(all) + 1) /\ n \in 0 .. Len(all)
    BY <1>6
  <2>. QED
    BY <1>2, <2>1, ElementsOfSubSeq
<1>10. Rest(all, n) \in Seq(Records) /\ Elements(Rest(all, n)) \subseteq Elements(all)
  <2>1. n + 1 \in 1 .. (Len(all) + 1) /\ Len(all) \in 0 .. Len(all)
    BY <1>6
  <2>. QED
    BY <1>2, <2>1, ElementsOfSubSeq DEF Rest
<1>11. published' \in Seq(Records)
  BY <1>3, <1>9, ConcatProperties DEF IInv, TypeOK
<1>12. QueueOK'
  BY <1>2, <1>3, <1>4, <1>10 DEF QueueOK, Elements
<1>13. TypeOK'
  BY <1>3, <1>4, <1>5, <1>8, <1>10, <1>11, NoCallType DEF IInv, TypeOK
<1>. QED
  BY <1>4, <1>12, <1>13, NoCallOK, NoCallType, CallStep

LEMMA ConcatStep ==
  ASSUME IInv, NEW i \in Call, Concat(i)
  PROVE  IInv'
<1> DEFINE h == call[i].by
           recs == Elements(Revised(call[i]))
           o == [object[h] EXCEPT !.events = @ \cup {<<r.event, r.rev>> : r \in recs},
                                  !.rejected = FALSE]
<1>1. call[i] \in Calls /\ CallOK(call[i]) /\ call[i].pc = "concat" /\ position \in Nat
  BY DEF IInv, TypeOK, CallsOK, Concat
<1>2. h \in Handle /\ object[h] \in Objects
  BY <1>1, RejectedType
<1>3. /\ recs \subseteq Records
      /\ Positions(recs) = (call[i].first + 1) .. (call[i].first + Len(call[i].batch))
      /\ call[i].first \in Nat /\ Len(call[i].batch) \in Nat
  BY <1>1, RevisedType DEF Calls
<1>4. Positions(recs) \subseteq 1 .. position
  BY <1>1, <1>3 DEF CallOK
<1>5. /\ call' = [call EXCEPT ![i] = NoCall] /\ object' = [object EXCEPT ![h] = o]
      /\ settled' = settled \cup Positions(recs)
      /\ UNCHANGED <<store, undispatched, position, dispatcher, published, used, owed, faults>>
  BY DEF Concat
<1> HIDE DEF recs, h
<1>6. {<<r.event, r.rev>> : r \in recs} \in SUBSET (Event \X Int)
  BY <1>3 DEF Records
<1>7. o \in Objects
  BY <1>2, <1>6 DEF Objects
<1> HIDE DEF o
<1>8. TypeOK'
  BY <1>4, <1>5, <1>7, NoCallType DEF IInv, TypeOK, dispatcher
<1>9. QueueOK'
  BY <1>5 DEF IInv, QueueOK, dispatcher
<1>. QED
  BY <1>5, <1>8, <1>9, NoCallOK, NoCallType, CallStep

-----------------------------------------------------------------------------
(* The publisher's answers and a restart *)

LEMMA ConfirmStep ==
  ASSUME IInv, NEW p \in handed, Confirm(p)
  PROVE  IInv'
<1>1. TypeOK'
  BY DEF IInv, TypeOK, Confirm, history
<1>. QED
  BY <1>1, SameCalls DEF IInv, QueueOK, Confirm

LEMMA MarkedStep ==
  ASSUME IInv, NEW p \in marking, Marked(p)
  PROVE  IInv'
<1>1. TypeOK'
  BY DEF IInv, TypeOK, Marked, history
<1>. QED
  BY <1>1, SameCalls DEF IInv, QueueOK, Marked

LEMMA RestartStep ==
  ASSUME IInv, Restart, faults' \in 0 .. MaxFaults
  PROVE  IInv'
<1>1. TypeOK'
  BY UnusedType, NoCallType, EmptySeq DEF IInv, TypeOK, Restart, StartQueue
<1>2. QueueOK'
  BY DEF QueueOK, Restart, StartQueue
<1>3. \A i \in Call : call'[i].pc # "add" /\ CallOK(call[i])'
  BY NoCallType DEF Restart, CallOK
<1>4. UNCHANGED <<store, position>>
  BY DEF Restart
<1>. QED
  BY <1>1, <1>2, <1>3, <1>4, QuietStep

-----------------------------------------------------------------------------
(* The theorems *)

LEMMA InitInv == CommitAssumption /\ Init => IInv
<1>. SUFFICES ASSUME CommitAssumption, Init PROVE IInv
  OBVIOUS
<1>1. TypeOK
  <2>1. /\ object \in [Handle -> Objects] /\ call \in [Call -> Calls]
        /\ store \in [Stream -> Seq(Records)]
        /\ queue \in Seq(Records) /\ published \in Seq(Records)
    BY UnusedType, NoCallType, EmptySeq DEF Init, StartQueue
  <2>2. /\ position \in Nat /\ faults \in 0 .. MaxFaults
        /\ undispatched \cup handed \cup marking \cup settled \cup owed \subseteq 1 .. position
    BY DEF CommitAssumption, Init
  <2>3. running \in BOOLEAN /\ publisher \in BOOLEAN /\ used \subseteq Event
    BY DEF Init
  <2>. QED
    BY <2>1, <2>2, <2>3 DEF TypeOK
<1>2. CallsOK /\ ClaimsDiffer /\ ClaimsUnstored
  BY NoCallType DEF Init, CallsOK, CallOK, ClaimsDiffer, ClaimsUnstored
<1>3. StoreOK /\ QueueOK /\ PositionsAreUnique
  BY DEF Init, StoreOK, QueueOK, PositionsAreUnique, StartQueue
<1>. QED
  BY <1>1, <1>2, <1>3 DEF IInv

LEMMA FailsType ==
  ASSUME CommitAssumption, TypeOK, NEW what, Fails(what)
  PROVE  faults' \in 0 .. MaxFaults
BY DEF CommitAssumption, TypeOK, Fails

LEMMA NextInv == CommitAssumption /\ IInv /\ [Next]_vars => IInv'
<1>. SUFFICES ASSUME CommitAssumption, IInv, [Next]_vars PROVE IInv'
  OBVIOUS
<1>1. TypeOK
  BY DEF IInv
<1>2. ASSUME NEW h \in Handle, NEW s \in Stream, Load(h, s) PROVE IInv'
  BY <1>2, LoadStep
<1>3. ASSUME NEW h \in Handle, NEW e \in Event, AddEvent(h, e) PROVE IInv'
  BY <1>3, AddEventStep
<1>4. ASSUME NEW h \in Handle, NEW i \in Call, Commit(h, i) PROVE IInv'
  BY <1>4, CommitStep
<1>5. ASSUME NEW h \in Handle, Release(h) PROVE IInv'
  BY <1>5, ReleaseStep
<1>6. ASSUME NEW i \in Call, Link(i) PROVE IInv'
  BY <1>6, NumberedStep, AddedStep, OfferStep, PublishStep, ConcatStep DEF Link
<1>7. ASSUME NEW i \in Call, NotNumbered(i) PROVE IInv'
  BY <1>1, <1>7, FailsType, NotNumberedStep DEF NotNumbered
<1>8. ASSUME NEW i \in Call, NotAdded(i) PROVE IInv'
  BY <1>1, <1>8, FailsType, NotAddedStep DEF NotAdded
<1>9. ASSUME NEW i \in Call, PublishThrows(i) PROVE IInv'
  BY <1>1, <1>9, FailsType, PublishThrowsStep DEF PublishThrows
<1>10. ASSUME NEW p \in handed, Confirm(p) PROVE IInv'
  BY <1>10, ConfirmStep
<1>11. ASSUME NEW p \in marking, Marked(p) PROVE IInv'
  BY <1>11, MarkedStep
<1>12. CASE Restart
  BY <1>1, <1>12, FailsType, RestartStep DEF Restart
<1>13. CASE UNCHANGED vars
  <2>1. TypeOK' /\ QueueOK'
    BY <1>13 DEF IInv, TypeOK, QueueOK, vars, dispatcher, history
  <2>. QED
    BY <1>13, <2>1, SameCalls DEF vars
<1>. QED
  BY <1>2, <1>3, <1>4, <1>5, <1>6, <1>7, <1>8, <1>9, <1>10, <1>11, <1>12, <1>13 DEF Next

\* Every variable of the pipeline keeps its type, and the positions that wait
\* for the publisher or are marked were given out by the counter, however
\* commits overlap and fail (Eventstore.commit, EventDispatcher).
THEOREM TypeCorrect == Spec => []TypeOK
<1>1. IInv => TypeOK
  BY DEF IInv
<1>. QED
  BY <1>1, InitInv, NextInv, CommitAssumption, PTL DEF Spec

\* No two stored events share a position, for any number of overlapping and
\* failing commits: a range taken from the counter belongs to one commit
\* (getNextPositions, processPositions).
THEOREM PositionsStayUnique == Spec => []PositionsAreUnique
<1>1. IInv => PositionsAreUnique
  BY DEF IInv
<1>. QED
  BY <1>1, InitInv, NextInv, CommitAssumption, PTL DEF Spec

-----------------------------------------------------------------------------
(* Nothing happens twice: the inductive invariants *)

\* What the publisher got and what still waits for it, in order.
Line == published \o queue

Claimed(c) == (c.first + 1) .. (c.first + Len(c.batch))

\* The object of a commit in progress is not released.
CallsAlive == \A i \in Call : call[i].pc # "free" => object[call[i].by].stream # None

LineStored == Elements(Line) \subseteq AllStored

LineDiffers == \A k, m \in DOMAIN Line : Line[k].pos = Line[m].pos => k = m

\* The events of a commit that has to publish them are stored, and nobody
\* else published them.
BatchesStored ==
  \A i \in Call : call[i].pc = "publish" => Elements(Revised(call[i])) \subseteq AllStored

BatchesUnpublished ==
  \A i \in Call : call[i].pc = "publish" =>
    \A r \in Elements(Line) : r.pos \notin Claimed(call[i])

\* Commits between numbering and publishing have different positions.
BatchesApart ==
  \A i, j \in Call :
    (i # j /\ call[i].pc \in {"add", "publish"} /\ call[j].pc \in {"add", "publish"}) =>
      Claimed(call[i]) \cap Claimed(call[j]) = {}

OnceInv ==
  /\ CallsAlive
  /\ LineStored
  /\ LineDiffers
  /\ BatchesStored
  /\ BatchesUnpublished
  /\ BatchesApart

\* The places where an event can be: the stored streams, the uncommitted
\* events of the objects, and the commits that can still give them back.
Place == ({"store"} \X Stream) \cup ({"object"} \X Handle) \cup ({"call"} \X Call)

EventsOf(recs) == [k \in DOMAIN recs |-> recs[k].event]

Returnable(c) == IF c.pc \in {"ids", "add"} THEN c.batch ELSE <<>>

Placed(st, ob, ca) ==
  [p \in Place |-> CASE p[1] = "store"  -> EventsOf(st[p[2]])
                     [] p[1] = "object" -> ob[p[2]].uncommitted
                     [] p[1] = "call"   -> Returnable(ca[p[2]])]

\* No event is in two places, or twice in one, and all of them are used up.
Apart(f, all) ==
  /\ \A p, q \in DOMAIN f : \A k \in DOMAIN f[p], m \in DOMAIN f[q] :
       f[p][k] = f[q][m] => p = q /\ k = m
  /\ \A p \in DOMAIN f : Elements(f[p]) \subseteq all

PlacesInv == Apart(Placed(store, object, call), used)

-----------------------------------------------------------------------------
(* Objects and commits *)

\* A commit in progress stays with its object until it ends.
LEMMA KeepsAlive ==
  ASSUME CallsAlive,
         \A i \in Call : call'[i].pc # "free" =>
           /\ call[i].pc # "free"
           /\ call'[i].by = call[i].by
           /\ object'[call[i].by].stream = object[call[i].by].stream
  PROVE  CallsAlive'
BY DEF CallsAlive

LEMMA AliveNext ==
  ASSUME CommitAssumption, IInv, CallsAlive, [Next]_vars
  PROVE  CallsAlive'
<1>1. /\ object \in [Handle -> Objects] /\ call \in [Call -> Calls] /\ NoCall \in Calls
      /\ NoCall.pc = "free"
  BY NoCallType DEF IInv, TypeOK
<1>2. \A i \in Call : call[i].pc # "free" => call[i].by \in Handle
  BY DEF IInv, CallsOK, CallOK
<1>3. ASSUME NEW h \in Handle, NEW s \in Stream, Load(h, s) PROVE CallsAlive'
  <2>1. call' = call /\ object[h].stream = None
    BY <1>3 DEF Load
  <2>2. \A g \in Handle : g # h => object'[g] = object[g]
    BY <1>1, <1>3 DEF Load
  <2>. QED
    BY <1>2, <2>1, <2>2, KeepsAlive DEF CallsAlive
<1>4. ASSUME NEW h \in Handle, NEW e \in Event, AddEvent(h, e) PROVE CallsAlive'
  <2>1. call' = call /\ \A g \in Handle : object'[g].stream = object[g].stream
    BY <1>1, <1>4 DEF AddEvent, Objects
  <2>. QED
    BY <1>2, <2>1, KeepsAlive
<1>5. ASSUME NEW h \in Handle, NEW i \in Call, Commit(h, i) PROVE CallsAlive'
  <2>1. \A g \in Handle : object'[g].stream = object[g].stream
    BY <1>1, <1>5 DEF Commit, Objects
  <2>2. call'[i].by = h /\ object[h].stream # None /\ \A j \in Call : j # i => call'[j] = call[j]
    BY <1>1, <1>5 DEF Commit
  <2>. QED
    BY <1>2, <2>1, <2>2 DEF CallsAlive
<1>6. ASSUME NEW h \in Handle, Release(h) PROVE CallsAlive'
  <2>1. call' = call /\ \A i \in Call : call[i].by # h
    BY <1>6 DEF Release, Busy
  <2>2. \A g \in Handle : g # h => object'[g] = object[g]
    BY <1>1, <1>6 DEF Release
  <2>. QED
    BY <1>2, <2>1, <2>2, KeepsAlive
<1>7. ASSUME NEW i \in Call,
             Link(i) \/ NotNumbered(i) \/ NotAdded(i) \/ PublishThrows(i)
      PROVE  CallsAlive'
  <2>1. \A g \in Handle : object'[g].stream = object[g].stream
    <3>1. CASE UNCHANGED object
      BY <3>1
    <3>2. CASE NotNumbered(i) \/ PublishThrows(i)
      <4>1. object' = [object EXCEPT ![call[i].by].rejected = TRUE]
        BY <3>2 DEF NotNumbered, PublishThrows
      <4>. QED
        BY <1>1, <4>1 DEF Objects
    <3>3. CASE NotAdded(i)
      BY <1>1, <3>3 DEF NotAdded, Objects
    <3>4. CASE Offer(i)
      BY <1>1, <3>4 DEF Offer, Objects
    <3>5. CASE Concat(i)
      <4>1. PICK recs : recs = {<<r.event, r.rev>> : r \in Elements(Revised(call[i]))}
        OBVIOUS
      <4>2. object' = [object EXCEPT ![call[i].by].events = @ \cup recs,
                                     ![call[i].by].rejected = FALSE]
        BY <3>5, <4>1 DEF Concat
      <4>. QED
        BY <1>1, <4>2 DEF Objects
    <3>. QED
      BY <1>7, <3>1, <3>2, <3>3, <3>4, <3>5 DEF Link, Numbered, Added, Publish
  <2>2. /\ call[i].pc # "free"
        /\ call'[i].pc # "free" => call'[i].by = call[i].by
        /\ \A j \in Call : j # i => call'[j] = call[j]
    BY <1>1, <1>7
       DEF Link, Numbered, Added, Offer, Publish, Concat, NotNumbered, NotAdded, PublishThrows,
           Calls
  <2>. QED
    BY <1>2, <2>1, <2>2, KeepsAlive
<1>8. CASE Restart
  <2>1. \A i \in Call : call'[i].pc = "free"
    BY <1>1, <1>8 DEF Restart
  <2>. QED
    BY <2>1 DEF CallsAlive
<1>9. CASE \/ \E p \in handed : Confirm(p)
           \/ \E p \in marking : Marked(p)
           \/ UNCHANGED vars
  <2>1. UNCHANGED <<call, object>>
    BY <1>9 DEF Confirm, Marked, vars
  <2>. QED
    BY <2>1, KeepsAlive
<1>. QED
  BY <1>3, <1>4, <1>5, <1>6, <1>7, <1>8, <1>9 DEF Next

-----------------------------------------------------------------------------
(* What the store and the publisher get *)

LEMMA AllElements ==
  ASSUME NEW S, NEW s \in Seq(S), NEW t \in Seq(S)
  PROVE  Elements(s \o t) = Elements(s) \cup Elements(t)
<1>1. /\ Len(s \o t) = Len(s) + Len(t)
      /\ \A i \in 1 .. (Len(s) + Len(t)) :
           (s \o t)[i] = IF i <= Len(s) THEN s[i] ELSE t[i - Len(s)]
      /\ s \o t \in Seq(S)
  BY ConcatProperties
<1>2. /\ DOMAIN s = 1 .. Len(s) /\ DOMAIN t = 1 .. Len(t)
      /\ DOMAIN (s \o t) = 1 .. (Len(s) + Len(t))
      /\ Len(s) \in Nat /\ Len(t) \in Nat
  BY <1>1
<1>3. ASSUME NEW k \in DOMAIN s PROVE k \in DOMAIN (s \o t) /\ (s \o t)[k] = s[k]
  BY <1>1, <1>2
<1>4. ASSUME NEW k \in DOMAIN t
      PROVE  k + Len(s) \in DOMAIN (s \o t) /\ (s \o t)[k + Len(s)] = t[k]
  BY <1>1, <1>2
<1>5. Elements(s) \subseteq Elements(s \o t)
  BY <1>3 DEF Elements
<1>6. Elements(t) \subseteq Elements(s \o t)
  BY <1>4 DEF Elements
<1>. QED
  BY <1>5, <1>6, ElementsOfConcat

LEMMA ClaimedPositions ==
  ASSUME NEW c \in Calls
  PROVE  /\ c.first \in Nat /\ Len(c.batch) \in Nat
         /\ \A r \in Elements(Revised(c)) : r.pos \in Claimed(c)
<1>1. Positions(Elements(Revised(c))) = Claimed(c)
  BY RevisedType DEF Claimed
<1>. QED
  BY <1>1, RevisedType DEF Positions, Calls

\* An insertion adds the events of the commit to the stream of its object.
LEMMA StoreGrows ==
  ASSUME IInv, CallsAlive, NEW i \in Call, call[i].pc = "add", Insert(call[i])
  PROVE  /\ object[call[i].by].stream \in Stream
         /\ \A s \in Stream :
              store'[s] = IF s = object[call[i].by].stream
                          THEN store[s] \o Revised(call[i]) ELSE store[s]
         /\ \A s \in Stream :
              Stored(s)' = IF s = object[call[i].by].stream
                           THEN Stored(s) \cup Elements(Revised(call[i])) ELSE Stored(s)
         /\ AllStored' = AllStored \cup Elements(Revised(call[i]))
<1>1. PICK t : t = object[call[i].by].stream
  OBVIOUS
<1>2. PICK new : new = Revised(call[i])
  OBVIOUS
<1>3. t \in Stream
  BY <1>1, RejectedType DEF CallsAlive, Objects
<1>4. new \in Seq(Records)
  BY <1>2, RevisedType DEF IInv, TypeOK
<1>5. store' = [store EXCEPT ![t] = @ \o new]
  BY <1>1, <1>2 DEF Insert
<1>6. \A s \in Stream : store'[s] = IF s = t THEN store[s] \o new ELSE store[s]
  BY <1>5 DEF IInv, TypeOK
<1>7. ASSUME NEW s \in Stream
      PROVE  Stored(s)' = IF s = t THEN Stored(s) \cup Elements(new) ELSE Stored(s)
  <2>1. Stored(s)' = Elements(store'[s])
    BY DEF Stored, Elements
  <2>2. store[s] \in Seq(Records)
    BY DEF IInv, TypeOK
  <2>3. Elements(store[s] \o new) = Elements(store[s]) \cup Elements(new)
    BY <1>4, <2>2, AllElements
  <2>. QED
    BY <1>6, <2>1, <2>3 DEF Stored
<1>8. AllStored' = AllStored \cup Elements(new)
  <2>1. AllStored' = UNION {Stored(s)' : s \in Stream}
    BY DEF AllStored
  <2>. QED
    BY <1>3, <1>7, <2>1 DEF AllStored
<1>. QED
  BY <1>1, <1>2, <1>3, <1>6, <1>7, <1>8

-----------------------------------------------------------------------------
(* Only stored events are published, and once *)

LEMMA SamePlaces == LineStored /\ LineDiffers <=> PublishedOnce
BY DEF LineStored, LineDiffers, PublishedOnce, Line

LEMMA LineType == IInv => Line \in Seq(Records)
BY ConcatProperties DEF IInv, TypeOK, Line

\* A step that leaves the store and the line alone and brings no commit to
\* the store.
LEMMA QuietOnce ==
  ASSUME OnceInv, CallsAlive', UNCHANGED <<store, published, queue>>,
         \A i \in Call : call'[i] = call[i] \/ call'[i].pc \notin {"add", "publish"}
  PROVE  OnceInv'
<1>1. Line' = Line /\ AllStored' = AllStored
  BY DEF Line, AllStored, Stored
<1>2. LineStored' /\ LineDiffers'
  BY <1>1 DEF OnceInv, LineStored, LineDiffers, Elements
<1>3. BatchesStored' /\ BatchesUnpublished' /\ BatchesApart'
  BY <1>1 DEF OnceInv, BatchesStored, BatchesUnpublished, BatchesApart, Revised, Claimed, Elements
<1>. QED
  BY <1>2, <1>3 DEF OnceInv

LEMMA NumberedOnce ==
  ASSUME IInv, OnceInv, CallsAlive', NEW i \in Call, Numbered(i)
  PROVE  OnceInv'
<1>0. UNCHANGED <<store, published, queue>>
  BY DEF Numbered, dispatcher, history
<1>1. Line' = Line /\ AllStored' = AllStored
  BY <1>0 DEF Line, AllStored, Stored
<1>2. LineStored' /\ LineDiffers'
  BY <1>1 DEF OnceInv, LineStored, LineDiffers, Elements
<1>3. /\ call'[i].pc = "add" /\ call'[i].first = position
      /\ \A j \in Call : j # i => call'[j] = call[j]
  BY DEF IInv, TypeOK, Numbered, Calls
<1>4. BatchesStored' /\ BatchesUnpublished'
  BY <1>1, <1>3 DEF OnceInv, BatchesStored, BatchesUnpublished, Revised, Claimed, Elements
<1>5. ASSUME NEW j \in Call, j # i, call[j].pc \in {"add", "publish"}
      PROVE  Claimed(call'[i]) \cap Claimed(call'[j]) = {}
  <2>1. call[j].first + Len(call[j].batch) <= position
    BY <1>5 DEF IInv, CallsOK, CallOK
  <2>2. call[j].first \in Nat /\ Len(call[j].batch) \in Nat /\ position \in Nat
    BY ClaimedPositions DEF IInv, TypeOK
  <2>. QED
    BY <1>3, <1>5, <2>1, <2>2 DEF Claimed
<1>6. BatchesApart'
  <2>. SUFFICES ASSUME NEW j \in Call, NEW k \in Call, j # k,
                       call'[j].pc \in {"add", "publish"}, call'[k].pc \in {"add", "publish"}
                PROVE  Claimed(call'[j]) \cap Claimed(call'[k]) = {}
    BY DEF BatchesApart, Claimed
  <2>. QED
    BY <1>3, <1>5 DEF OnceInv, BatchesApart
<1>. QED
  BY <1>2, <1>4, <1>6 DEF OnceInv

\* The store gets the events of a commit, which are on the line only later.
LEMMA InsertOnce ==
  ASSUME IInv, OnceInv, CallsAlive', NEW i \in Call, call[i].pc = "add", Insert(call[i]),
         UNCHANGED <<published, queue>>, NEW c, call' = [call EXCEPT ![i] = c],
         \/ c = [call[i] EXCEPT !.pc = "publish"]
         \/ c.pc = "free"
  PROVE  OnceInv'
<1>1. Line' = Line
  BY DEF Line
<1>2. AllStored' = AllStored \cup Elements(Revised(call[i]))
  BY StoreGrows DEF OnceInv
<1>3. LineStored' /\ LineDiffers'
  BY <1>1, <1>2 DEF OnceInv, LineStored, LineDiffers, Elements
<1>4. \A j \in Call : call'[j] = IF j = i THEN c ELSE call[j]
  BY DEF IInv, TypeOK
<1>5. /\ c.pc \in {"free", "publish"}
      /\ c.pc = "publish" => /\ Revised(c) = Revised(call[i])
                             /\ Claimed(c) = Claimed(call[i])
  BY DEF Revised, Claimed, IInv, TypeOK, Calls
<1>6. \A r \in Elements(Line) : r.pos \notin Claimed(call[i])
  <2>1. \A r \in AllStored : r.pos \notin Claimed(call[i])
    <3>. SUFFICES ASSUME NEW s \in Stream, NEW k \in DOMAIN store[s]
                  PROVE  store[s][k].pos \notin Claimed(call[i])
      BY DEF AllStored, Stored, Elements
    <3>1. \/ store[s][k].pos <= call[i].first
          \/ store[s][k].pos > call[i].first + Len(call[i].batch)
      BY DEF IInv, ClaimsUnstored
    <3>2. store[s][k].pos \in 1 .. position /\ position \in Nat
      BY DEF IInv, StoreOK, TypeOK
    <3>3. call[i].first \in Nat /\ Len(call[i].batch) \in Nat
      BY ClaimedPositions DEF IInv, TypeOK
    <3>. QED
      BY <3>1, <3>2, <3>3 DEF Claimed
  <2>. QED
    BY <2>1 DEF OnceInv, LineStored
<1>7. BatchesStored'
  <2>. SUFFICES ASSUME NEW j \in Call, call'[j].pc = "publish"
                PROVE  Elements(Revised(call'[j])) \subseteq AllStored'
    BY DEF BatchesStored, Revised, Elements
  <2>. QED
    BY <1>2, <1>4, <1>5 DEF OnceInv, BatchesStored
<1>8. BatchesUnpublished'
  <2>. SUFFICES ASSUME NEW j \in Call, call'[j].pc = "publish"
                PROVE  \A r \in Elements(Line) : r.pos \notin Claimed(call'[j])
    BY <1>1 DEF BatchesUnpublished, Claimed, Elements
  <2>. QED
    BY <1>4, <1>5, <1>6 DEF OnceInv, BatchesUnpublished
<1>9. BatchesApart'
  <2>. SUFFICES ASSUME NEW j \in Call, NEW k \in Call, j # k,
                       call'[j].pc \in {"add", "publish"}, call'[k].pc \in {"add", "publish"}
                PROVE  Claimed(call'[j]) \cap Claimed(call'[k]) = {}
    BY DEF BatchesApart, Claimed
  <2>1. ASSUME NEW m \in Call, call'[m].pc \in {"add", "publish"}
        PROVE  call[m].pc \in {"add", "publish"} /\ Claimed(call'[m]) = Claimed(call[m])
    BY <1>4, <1>5, <2>1
  <2>. QED
    BY <2>1 DEF OnceInv, BatchesApart
<1>. QED
  BY <1>3, <1>7, <1>8, <1>9 DEF OnceInv

\* The line grows by the events of a commit.
LEMMA LineGrows ==
  ASSUME IInv, OnceInv, CallsAlive', NEW i \in Call, call[i].pc = "publish",
         UNCHANGED store, Line' = Line \o Revised(call[i]),
         NEW c, c.pc \notin {"add", "publish"}, call' = [call EXCEPT ![i] = c]
  PROVE  OnceInv'
<1>1. PICK new : new = Revised(call[i])
  OBVIOUS
<1>2. PICK line : line = Line
  OBVIOUS
<1>3. /\ new \in Seq(Records) /\ line \in Seq(Records)
      /\ call[i] \in Calls
  BY <1>1, <1>2, RevisedType, LineType DEF IInv, TypeOK
<1>4. /\ Len(new) = Len(call[i].batch) /\ call[i].first \in Nat /\ Len(new) \in Nat
      /\ \A k \in 1 .. Len(new) : new[k].pos = call[i].first + k
      /\ DOMAIN new = 1 .. Len(new)
  BY <1>1, <1>3, RevisedType, ClaimedPositions, LenProperties
<1>5. Elements(new) \subseteq AllStored /\ AllStored' = AllStored
  BY <1>1 DEF OnceInv, BatchesStored, AllStored, Stored
<1>6. Line' = line \o new /\ Elements(line \o new) = Elements(line) \cup Elements(new)
  BY <1>1, <1>2, <1>3, AllElements
<1>7. LineStored'
  BY <1>2, <1>5, <1>6 DEF OnceInv, LineStored, Elements
<1>8. \A r \in Elements(line) : r.pos \notin Claimed(call[i])
  BY <1>2 DEF OnceInv, BatchesUnpublished
<1>9. \A r \in Elements(new) : r.pos \in Claimed(call[i])
  BY <1>1, <1>3, ClaimedPositions
<1>10. LineDiffers'
  <2>. SUFFICES ASSUME NEW k \in DOMAIN (line \o new), NEW m \in DOMAIN (line \o new),
                       (line \o new)[k].pos = (line \o new)[m].pos
                PROVE  k = m
    BY <1>6 DEF LineDiffers
  <2> DEFINE Old(n) == n \in DOMAIN line /\ (line \o new)[n] = line[n]
             New(n) == /\ n > Len(line) /\ n - Len(line) \in DOMAIN new
                       /\ (line \o new)[n] = new[n - Len(line)]
  <2>1. (Old(k) \/ New(k)) /\ (Old(m) \/ New(m))
    BY <1>3, InConcat
  <2>2. CASE Old(k) /\ Old(m)
    BY <1>2, <2>2 DEF OnceInv, LineDiffers
  <2>3. CASE (Old(k) /\ New(m)) \/ (New(k) /\ Old(m))
    BY <1>8, <1>9, <2>3 DEF Elements
  <2>4. CASE New(k) /\ New(m)
    <3>1. Len(line) \in Nat /\ k \in Int /\ m \in Int
      <4>1. line \o new \in Seq(Records)
        BY <1>3, ConcatProperties
      <4>. QED
        BY <1>3, <4>1, LenProperties
    <3>2. call[i].first + (k - Len(line)) = call[i].first + (m - Len(line))
      BY <1>4, <2>4
    <3>. QED
      BY <1>4, <3>1, <3>2
  <2>. QED
    BY <2>1, <2>2, <2>3, <2>4
<1>11. \A j \in Call : call'[j] = IF j = i THEN c ELSE call[j]
  BY DEF IInv, TypeOK
<1>12. BatchesStored' /\ BatchesApart'
  <2>1. BatchesStored'
    <3>. SUFFICES ASSUME NEW j \in Call, call'[j].pc = "publish"
                  PROVE  Elements(Revised(call'[j])) \subseteq AllStored'
      BY DEF BatchesStored, Revised, Elements
    <3>. QED
      BY <1>5, <1>11 DEF OnceInv, BatchesStored
  <2>2. BatchesApart'
    BY <1>11 DEF OnceInv, BatchesApart, Claimed
  <2>. QED
    BY <2>1, <2>2
<1>13. BatchesUnpublished'
  <2>. SUFFICES ASSUME NEW j \in Call, j # i, call[j].pc = "publish",
                       NEW r \in Elements(line) \cup Elements(new)
                PROVE  r.pos \notin Claimed(call[j])
    BY <1>6, <1>11 DEF BatchesUnpublished, Claimed, Elements
  <2>1. Claimed(call[i]) \cap Claimed(call[j]) = {}
    BY DEF OnceInv, BatchesApart
  <2>. QED
    BY <1>2, <1>9, <2>1 DEF OnceInv, BatchesUnpublished
<1>. QED
  BY <1>7, <1>10, <1>12, <1>13 DEF OnceInv

LEMMA PublishLine ==
  ASSUME IInv, NEW i \in Call, Publish(i)
  PROVE  Line' = Line \o Revised(call[i])
<1> DEFINE all == queue \o Revised(call[i])
<1>1. call[i].pc = "publish" /\ call[i] \in Calls
  BY DEF Publish, IInv, TypeOK
<1>3. /\ published \in Seq(Records) /\ queue \in Seq(Records)
      /\ Revised(call[i]) \in Seq(Records) /\ all \in Seq(Records)
  BY <1>1, RevisedType, ConcatProperties DEF IInv, TypeOK
<1>4. Rest(all, Len(all)) = <<>>
  <2>. HIDE DEF all
  <2>1. Len(all) \in Nat
    BY <1>3, LenProperties
  <2>. QED
    BY <2>1, SubSeqEmpty DEF Rest
<1>5. published' \o queue' = published \o all
  <2>1. published \o all \in Seq(Records)
    BY <1>3, ConcatProperties
  <2>2. \/ queue' = all /\ published' = published
        \/ queue' = <<>> /\ published' = published \o all
    BY <1>4 DEF Publish, Given
  <2>. QED
    BY <2>1, <2>2, ConcatEmptySeq
<1>. QED
  BY <1>3, <1>5, ConcatAssociative DEF Line

LEMMA PublishOnce ==
  ASSUME IInv, OnceInv, CallsAlive', NEW i \in Call, Publish(i)
  PROVE  OnceInv'
<1> DEFINE c == [call[i] EXCEPT !.pc = "concat"]
<1>1. call[i].pc = "publish" /\ call[i] \in Calls
  BY DEF Publish, IInv, TypeOK
<1>2. c.pc = "concat" /\ call' = [call EXCEPT ![i] = c] /\ UNCHANGED store
  BY <1>1 DEF Publish, Calls
<1>. QED
  BY <1>1, <1>2, PublishLine, LineGrows

\* A sequence given in two parts.
LEMMA SplitConcat ==
  ASSUME NEW S, NEW p \in Seq(S), NEW a \in Seq(S), NEW n \in DOMAIN a
  PROVE  (p \o SubSeq(a, 1, n)) \o SubSeq(a, n + 1, Len(a)) = p \o a
<1>1. Len(a) \in Nat /\ n \in 1 .. Len(a)
  BY LenProperties
<1>2. /\ 1 \in 1 .. (Len(a) + 1) /\ n \in 0 .. Len(a) /\ n \in (1 - 1) .. Len(a)
      /\ n + 1 \in 1 .. (Len(a) + 1)
      /\ Len(a) \in 0 .. Len(a) /\ Len(a) \in n .. Len(a)
  BY <1>1
<1>3. PICK x : x = SubSeq(a, 1, n)
  OBVIOUS
<1>4. PICK y : y = SubSeq(a, n + 1, Len(a))
  OBVIOUS
<1>5. x \in Seq(S) /\ y \in Seq(S)
  BY <1>2, <1>3, <1>4, ElementsOfSubSeq
<1>6. x \o y = a
  BY <1>2, <1>3, <1>4, ConcatAdjacentSubSeq, SubSeqFull
<1>7. (p \o x) \o y = p \o (x \o y)
  BY <1>5, ConcatAssociative
<1>. QED
  BY <1>3, <1>4, <1>6, <1>7

LEMMA PublishThrowsLine ==
  ASSUME IInv, NEW i \in Call, PublishThrows(i)
  PROVE  Line' = Line \o Revised(call[i])
<1> DEFINE all == queue \o Revised(call[i])
<1>1. call[i].pc = "publish" /\ call[i] \in Calls
  BY DEF PublishThrows, IInv, TypeOK
<1>3. /\ published \in Seq(Records) /\ queue \in Seq(Records)
      /\ Revised(call[i]) \in Seq(Records) /\ all \in Seq(Records)
  BY <1>1, RevisedType, ConcatProperties DEF IInv, TypeOK
<1>4. PICK n \in DOMAIN all :
        published' = published \o SubSeq(all, 1, n) /\ queue' = SubSeq(all, n + 1, Len(all))
  BY DEF PublishThrows, Given, Rest
<1>5. published' \o queue' = published \o all
  BY <1>3, <1>4, SplitConcat
<1>. QED
  BY <1>3, <1>5, ConcatAssociative DEF Line

LEMMA PublishThrowsOnce ==
  ASSUME IInv, OnceInv, CallsAlive', NEW i \in Call, PublishThrows(i)
  PROVE  OnceInv'
<1>1. call[i].pc = "publish" /\ call' = [call EXCEPT ![i] = NoCall] /\ UNCHANGED store
  BY DEF PublishThrows
<1>. QED
  BY <1>1, NoCallType, PublishThrowsLine, LineGrows

LEMMA RestartOnce ==
  ASSUME IInv, CallsAlive', Restart
  PROVE  OnceInv'
<1>1. Line' = <<>> /\ \A i \in Call : call'[i].pc = "free"
  BY EmptySeq, ConcatEmptySeq, NoCallType DEF Restart, StartQueue, Line
<1>2. LineStored' /\ LineDiffers'
  BY <1>1 DEF LineStored, LineDiffers, Elements
<1>3. BatchesStored' /\ BatchesUnpublished' /\ BatchesApart'
  BY <1>1 DEF BatchesStored, BatchesUnpublished, BatchesApart
<1>. QED
  BY <1>2, <1>3 DEF OnceInv

LEMMA OnceInit == CommitAssumption /\ Init => OnceInv
<1>. SUFFICES ASSUME Init PROVE OnceInv
  OBVIOUS
<1>1. Line = <<>> /\ \A i \in Call : call[i].pc = "free"
  BY EmptySeq, ConcatEmptySeq, NoCallType DEF Init, StartQueue, Line
<1>. QED
  BY <1>1 DEF OnceInv, CallsAlive, LineStored, LineDiffers, BatchesStored, BatchesUnpublished,
              BatchesApart, Elements

LEMMA OnceNext == CommitAssumption /\ IInv /\ OnceInv /\ [Next]_vars => OnceInv'
<1>. SUFFICES ASSUME CommitAssumption, IInv, OnceInv, [Next]_vars PROVE OnceInv'
  OBVIOUS
<1>1. CallsAlive'
  BY AliveNext DEF OnceInv
<1>2. call \in [Call -> Calls] /\ NoCall.pc = "free"
  BY NoCallType DEF IInv, TypeOK
<1>3. CASE \E h \in Handle : \/ \E s \in Stream : Load(h, s)
                             \/ \E e \in Event : AddEvent(h, e)
                             \/ Release(h)
  <2>1. UNCHANGED <<store, published, queue, call>>
    BY <1>3 DEF Load, AddEvent, Release, dispatcher, history
  <2>. QED
    BY <1>1, <2>1, QuietOnce
<1>4. ASSUME NEW h \in Handle, NEW i \in Call, Commit(h, i) PROVE OnceInv'
  <2>1. /\ UNCHANGED <<store, published, queue>>
        /\ call'[i].pc = "ids" /\ \A j \in Call : j # i => call'[j] = call[j]
    BY <1>2, <1>4 DEF Commit, dispatcher, history
  <2>. QED
    BY <1>1, <2>1, QuietOnce
<1>5. ASSUME NEW i \in Call, Numbered(i) PROVE OnceInv'
  BY <1>1, <1>5, NumberedOnce
<1>6. ASSUME NEW i \in Call, Added(i) PROVE OnceInv'
  <2>1. /\ call[i].pc = "add" /\ Insert(call[i]) /\ UNCHANGED <<published, queue>>
        /\ call' = [call EXCEPT ![i] = [call[i] EXCEPT !.pc = "publish"]]
    BY <1>6 DEF Added, dispatcher, history
  <2>. QED
    BY <1>1, <2>1, InsertOnce
<1>7. ASSUME NEW i \in Call, Offer(i) \/ Concat(i) \/ NotNumbered(i) PROVE OnceInv'
  <2>1. UNCHANGED <<store, published, queue>>
    BY <1>7 DEF Offer, Concat, NotNumbered, dispatcher, history
  <2>2. /\ call'[i].pc \notin {"add", "publish"}
        /\ \A j \in Call : j # i => call'[j] = call[j]
    BY <1>2, <1>7 DEF Offer, Concat, NotNumbered, Calls
  <2>. QED
    BY <1>1, <2>1, <2>2, QuietOnce
<1>8. ASSUME NEW i \in Call, NotAdded(i) PROVE OnceInv'
  <2>1. /\ call[i].pc = "add" /\ UNCHANGED <<published, queue>>
        /\ call' = [call EXCEPT ![i] = NoCall]
        /\ UNCHANGED store \/ Insert(call[i])
    BY <1>8 DEF NotAdded, dispatcher, history
  <2>2. CASE UNCHANGED store
    <3>1. \A j \in Call : call'[j] = call[j] \/ call'[j].pc \notin {"add", "publish"}
      BY <1>2, <2>1
    <3>. QED
      BY <1>1, <2>1, <2>2, <3>1, QuietOnce
  <2>3. CASE Insert(call[i])
    BY <1>1, <1>2, <2>1, <2>3, InsertOnce
  <2>. QED
    BY <2>1, <2>2, <2>3
<1>9. ASSUME NEW i \in Call, Publish(i) PROVE OnceInv'
  BY <1>1, <1>9, PublishOnce
<1>10. ASSUME NEW i \in Call, PublishThrows(i) PROVE OnceInv'
  BY <1>1, <1>10, PublishThrowsOnce
<1>11. CASE \/ \E p \in handed : Confirm(p)
            \/ \E p \in marking : Marked(p)
            \/ UNCHANGED vars
  <2>1. UNCHANGED <<store, published, queue, call>>
    BY <1>11 DEF Confirm, Marked, vars, dispatcher, history
  <2>. QED
    BY <1>1, <2>1, QuietOnce
<1>12. CASE Restart
  BY <1>1, <1>12, RestartOnce
<1>. QED
  BY <1>3, <1>4, <1>5, <1>6, <1>7, <1>8, <1>9, <1>10, <1>11, <1>12 DEF Next, Link

\* The publisher of a process gets only stored events, each of them at most
\* once, however commits overlap, fail and are repeated, and also after a
\* publisher threw and isRunning stayed set (Eventstore.commit,
\* EventDispatcher.addUndispatchedEvents, trigger).
THEOREM NothingIsPublishedTwice == Spec => []PublishedOnce
<1>1. OnceInv => PublishedOnce
  BY SamePlaces DEF OnceInv
<1>2. CommitAssumption /\ Init => IInv /\ OnceInv
  BY InitInv, OnceInit
<1>3. CommitAssumption /\ (IInv /\ OnceInv) /\ [Next]_vars => (IInv /\ OnceInv)'
  BY NextInv, OnceNext
<1>. QED
  BY <1>1, <1>2, <1>3, CommitAssumption, PTL DEF Spec

-----------------------------------------------------------------------------
(* Events move from place to place *)

\* Places lose their events.
LEMMA PlacesShrink ==
  ASSUME NEW f, NEW g, NEW all, Apart(f, all), DOMAIN g = DOMAIN f,
         \A p \in DOMAIN f : g[p] = f[p] \/ g[p] = <<>>
  PROVE  Apart(g, all)
<1>1. \A p \in DOMAIN f : \A k \in DOMAIN g[p] : k \in DOMAIN f[p] /\ g[p][k] = f[p][k]
  OBVIOUS
<1>. QED
  BY <1>1 DEF Apart, Elements

\* The events of place b join those of place a, behind or before them.
LEMMA PlacesJoin ==
  ASSUME NEW S, NEW f, NEW g, NEW all, Apart(f, all), DOMAIN g = DOMAIN f,
         \A p \in DOMAIN f : f[p] \in Seq(S),
         NEW a \in DOMAIN f, NEW b \in DOMAIN f, a # b,
         g[a] = f[a] \o f[b] \/ g[a] = f[b] \o f[a],
         g[b] = <<>>,
         \A p \in DOMAIN f : p # a /\ p # b => g[p] = f[p]
  PROVE  Apart(g, all)
<1>1. PICK x \in {a, b}, y \in {a, b} : x # y /\ g[a] = f[x] \o f[y]
  OBVIOUS
<1>2. PICK fx, fy, ga : fx = f[x] /\ fy = f[y] /\ ga = g[a]
  OBVIOUS
<1> DEFINE First(k)  == k \in DOMAIN fx /\ ga[k] = fx[k]
           Second(k) == k - Len(fx) \in DOMAIN fy /\ ga[k] = fy[k - Len(fx)]
<1>3. fx \in Seq(S) /\ fy \in Seq(S) /\ ga = fx \o fy
  BY <1>1, <1>2
<1>30. \A k \in DOMAIN ga : First(k) \/ Second(k)
  <2>. SUFFICES ASSUME NEW k \in DOMAIN (fx \o fy)
                PROVE  \/ k \in DOMAIN fx /\ (fx \o fy)[k] = fx[k]
                       \/ /\ k - Len(fx) \in DOMAIN fy
                          /\ (fx \o fy)[k] = fy[k - Len(fx)]
    BY <1>3
  <2>. QED
    BY <1>3, InConcat
<1>31. ASSUME NEW k \in DOMAIN ga
       PROVE  \E z \in {a, b} : \E n \in DOMAIN f[z] : ga[k] = f[z][n]
  <2>1. CASE First(k)
    BY <1>1, <1>2, <2>1
  <2>2. CASE Second(k)
    BY <1>1, <1>2, <2>2
  <2>. QED
    BY <1>30, <2>1, <2>2
<1>4. Len(fx) \in Nat /\ \A k \in DOMAIN ga : k \in Int
  <2>1. ga \in Seq(S)
    BY <1>3, ConcatProperties
  <2>. QED
    BY <1>3, <2>1, LenProperties
<1>5. ASSUME NEW p \in DOMAIN g, p # a, NEW k \in DOMAIN g[p]
      PROVE  p \notin {a, b} /\ k \in DOMAIN f[p] /\ g[p][k] = f[p][k]
  BY <1>5
<1>6. ASSUME NEW p \in DOMAIN g, p # a, NEW k \in DOMAIN g[p], NEW m \in DOMAIN g[a]
      PROVE  g[p][k] # g[a][m]
  <2>1. PICK z \in {a, b} : \E n \in DOMAIN f[z] : g[a][m] = f[z][n]
    BY <1>2, <1>31
  <2>2. p # z /\ p \in DOMAIN f /\ z \in DOMAIN f
    BY <1>5, <1>6
  <2>. QED
    BY <1>5, <1>6, <2>1, <2>2 DEF Apart
<1>7. ASSUME NEW k \in DOMAIN g[a], NEW m \in DOMAIN g[a], g[a][k] = g[a][m]
      PROVE  k = m
  <2>. k \in DOMAIN ga /\ m \in DOMAIN ga /\ ga[k] = ga[m]
    BY <1>2, <1>7
  <2>1. CASE First(k) /\ First(m)
    BY <1>1, <1>2, <2>1 DEF Apart
  <2>2. CASE (First(k) /\ Second(m)) \/ (Second(k) /\ First(m))
    BY <1>1, <1>2, <2>2 DEF Apart
  <2>3. CASE Second(k) /\ Second(m)
    <3>1. k - Len(fx) = m - Len(fx)
      BY <1>1, <1>2, <2>3 DEF Apart
    <3>. QED
      BY <1>4, <3>1
  <2>. QED
    BY <1>30, <2>1, <2>2, <2>3
<1>8. ASSUME NEW p \in DOMAIN g, NEW k \in DOMAIN g[p] PROVE g[p][k] \in all
  <2>1. \A q \in DOMAIN f : \A n \in DOMAIN f[q] : f[q][n] \in all
    BY DEF Apart, Elements
  <2>2. CASE p = a
    BY <1>2, <1>31, <2>1, <2>2
  <2>3. CASE p # a
    BY <1>5, <2>1, <2>3
  <2>. QED
    BY <2>2, <2>3
<1>9. ASSUME NEW p \in DOMAIN g, NEW q \in DOMAIN g,
             NEW k \in DOMAIN g[p], NEW m \in DOMAIN g[q], g[p][k] = g[q][m]
      PROVE  p = q /\ k = m
  <2>1. CASE p = a /\ q = a
    BY <1>7, <1>9, <2>1
  <2>2. CASE (p = a /\ q # a) \/ (p # a /\ q = a)
    BY <1>6, <1>9, <2>2
  <2>3. CASE p # a /\ q # a
    BY <1>5, <1>9, <2>3 DEF Apart
  <2>. QED
    BY <2>1, <2>2, <2>3
<1>. QED
  BY <1>8, <1>9 DEF Apart, Elements

\* A new event comes to place a.
LEMMA PlacesGrow ==
  ASSUME NEW S, NEW f, NEW g, NEW all, Apart(f, all), DOMAIN g = DOMAIN f,
         \A p \in DOMAIN f : f[p] \in Seq(S),
         NEW a \in DOMAIN f, NEW e \in S, e \notin all,
         g[a] = Append(f[a], e),
         \A p \in DOMAIN f : p # a => g[p] = f[p]
  PROVE  Apart(g, all \cup {e})
<1>0. PICK fa, ga : fa = f[a] /\ ga = g[a]
  OBVIOUS
<1>1. fa \in Seq(S) /\ ga = Append(fa, e)
  BY <1>0
<1>2. /\ ga \in Seq(S) /\ Len(ga) = Len(fa) + 1
      /\ \A k \in 1 .. Len(fa) : ga[k] = fa[k]
      /\ ga[Len(fa) + 1] = e
  BY <1>1, AppendProperties
<1>20. Len(fa) \in Nat /\ DOMAIN fa = 1 .. Len(fa) /\ DOMAIN ga = 1 .. (Len(fa) + 1)
  BY <1>1, <1>2, LenProperties
<1>21. \A k \in DOMAIN ga : \/ k \in DOMAIN fa /\ ga[k] = fa[k]
                            \/ k = Len(fa) + 1 /\ ga[k] = e
  <2>1. \A k \in DOMAIN ga : k \in DOMAIN fa \/ k = Len(fa) + 1
    BY <1>20
  <2>. QED
    BY <1>2, <1>20, <2>1
<1>3. \A k \in DOMAIN g[a] : \/ k \in DOMAIN f[a] /\ g[a][k] = f[a][k]
                             \/ k = Len(f[a]) + 1 /\ g[a][k] = e
  BY <1>0, <1>21
<1>4. \A p \in DOMAIN f : \A k \in DOMAIN f[p] : f[p][k] \in all /\ f[p][k] # e
  BY DEF Apart, Elements
<1>5. \A p \in DOMAIN g : \A k \in DOMAIN g[p] : g[p][k] \in all \cup {e}
  BY <1>3, <1>4
<1>6. ASSUME NEW p \in DOMAIN g, NEW q \in DOMAIN g,
             NEW k \in DOMAIN g[p], NEW m \in DOMAIN g[q], g[p][k] = g[q][m]
      PROVE  p = q /\ k = m
  <2>1. CASE p = a /\ q = a
    BY <1>3, <1>4, <1>6, <2>1 DEF Apart
  <2>2. CASE (p = a /\ q # a) \/ (p # a /\ q = a)
    <3>1. \A k1 \in DOMAIN g[a] : \/ g[a][k1] = e
                                  \/ \E n \in DOMAIN f[a] : g[a][k1] = f[a][n]
      BY <1>3
    <3>2. \A r \in DOMAIN f : r # a =>
            \A n \in DOMAIN f[r] : f[r][n] # e /\ \A l \in DOMAIN f[a] : f[r][n] # f[a][l]
      BY <1>4 DEF Apart
    <3>3. CASE p = a /\ q # a
      BY <1>6, <3>1, <3>2, <3>3
    <3>4. CASE p # a /\ q = a
      BY <1>6, <3>1, <3>2, <3>4
    <3>. QED
      BY <2>2, <3>3, <3>4
  <2>3. CASE p # a /\ q # a
    BY <1>6, <2>3 DEF Apart
  <2>. QED
    BY <2>1, <2>2, <2>3
<1>. QED
  BY <1>5, <1>6 DEF Apart, Elements

Shows(f, st, ob, ca) ==
  /\ DOMAIN f = Place
  /\ \A s \in Stream : <<"store", s>> \in Place /\ f[<<"store", s>>] = EventsOf(st[s])
  /\ \A h \in Handle : <<"object", h>> \in Place /\ f[<<"object", h>>] = ob[h].uncommitted
  /\ \A i \in Call : <<"call", i>> \in Place /\ f[<<"call", i>>] = Returnable(ca[i])

LEMMA KindsOfPlace ==
  \A p \in Place : \/ \E s \in Stream : p = <<"store", s>>
                   \/ \E h \in Handle : p = <<"object", h>>
                   \/ \E i \in Call : p = <<"call", i>>
<1>1. ASSUME NEW p \in Place
      PROVE  \/ \E s \in Stream : p = <<"store", s>>
             \/ \E h \in Handle : p = <<"object", h>>
             \/ \E i \in Call : p = <<"call", i>>
  <2>1. CASE p \in {"store"} \X Stream
    <3>1. p = <<"store", p[2]>> /\ p[2] \in Stream
      BY <2>1
    <3>. QED
      BY <3>1
  <2>2. CASE p \in {"object"} \X Handle
    <3>1. p = <<"object", p[2]>> /\ p[2] \in Handle
      BY <2>2
    <3>. QED
      BY <3>1
  <2>3. CASE p \in {"call"} \X Call
    <3>1. p = <<"call", p[2]>> /\ p[2] \in Call
      BY <2>3
    <3>. QED
      BY <3>1
  <2>. QED
    BY <2>1, <2>2, <2>3 DEF Place
<1>. QED
  BY <1>1

LEMMA WhatIsPlaced ==
  ASSUME NEW st, NEW ob, NEW ca
  PROVE  \E f : f = Placed(st, ob, ca) /\ Shows(f, st, ob, ca)
<1>1. PICK f : f = Placed(st, ob, ca)
  OBVIOUS
<1>2. ASSUME NEW s \in Stream
      PROVE <<"store", s>> \in Place /\ f[<<"store", s>>] = EventsOf(st[s])
  BY <1>1 DEF Place, Placed
<1>3. ASSUME NEW h \in Handle
      PROVE <<"object", h>> \in Place /\ f[<<"object", h>>] = ob[h].uncommitted
  BY <1>1 DEF Place, Placed
<1>4. ASSUME NEW i \in Call
      PROVE <<"call", i>> \in Place /\ f[<<"call", i>>] = Returnable(ca[i])
  BY <1>1 DEF Place, Placed
<1>5. DOMAIN f = Place
  BY <1>1 DEF Placed
<1>. QED
  BY <1>1, <1>2, <1>3, <1>4, <1>5 DEF Shows

LEMMA EventsOfConcat ==
  ASSUME NEW s \in Seq(Records), NEW c \in Calls
  PROVE  /\ EventsOf(s) \in Seq(Event)
         /\ EventsOf(s \o Revised(c)) = EventsOf(s) \o c.batch
<1>1. PICK new, b : new = Revised(c) /\ b = c.batch
  OBVIOUS
<1>2. new \in Seq(Records) /\ Len(new) = Len(b) /\ b \in Seq(Event)
  BY <1>1, RevisedType DEF Calls
<1>3. /\ Len(s) \in Nat /\ DOMAIN s = 1 .. Len(s)
      /\ Len(b) \in Nat /\ DOMAIN b = 1 .. Len(b) /\ DOMAIN new = 1 .. Len(b)
  BY <1>2, LenProperties
<1>4. \A k \in 1 .. Len(b) : new[k].event = b[k]
  BY <1>1, <1>3 DEF Revised
<1>5. \A recs \in Seq(Records) : /\ EventsOf(recs) \in Seq(Event)
                                 /\ Len(EventsOf(recs)) = Len(recs)
                                 /\ \A k \in 1 .. Len(recs) : EventsOf(recs)[k] = recs[k].event
  <2>. TAKE recs \in Seq(Records)
  <2>1. Len(recs) \in Nat /\ DOMAIN recs = 1 .. Len(recs)
    BY LenProperties
  <2>2. ASSUME NEW k \in 1 .. Len(recs) PROVE recs[k].event \in Event
    <3>1. recs[k] \in Records
      BY ElementOfSeq
    <3>. QED
      BY <3>1 DEF Records
  <2>3. EventsOf(recs) \in [1 .. Len(recs) -> Event]
    BY <2>1, <2>2 DEF EventsOf
  <2>. QED
    BY <2>1, <2>3 DEF EventsOf
<1>6. PICK es, both, joined : es = EventsOf(s) /\ both = s \o new /\ joined = es \o b
  OBVIOUS
<1>7. es \in Seq(Event) /\ Len(es) = Len(s) /\ \A k \in 1 .. Len(s) : es[k] = s[k].event
  BY <1>5, <1>6
<1>8. /\ both \in Seq(Records) /\ Len(both) = Len(s) + Len(b)
      /\ \A k \in 1 .. (Len(s) + Len(b)) : both[k] = IF k <= Len(s) THEN s[k] ELSE new[k - Len(s)]
  <2>1. /\ s \o new \in Seq(Records) /\ Len(s \o new) = Len(s) + Len(new)
        /\ \A k \in 1 .. Len(s) + Len(new) :
             (s \o new)[k] = IF k <= Len(s) THEN s[k] ELSE new[k - Len(s)]
    BY <1>2, ConcatProperties
  <2>. QED
    BY <1>2, <1>6, <2>1
<1>9. /\ joined \in Seq(Event) /\ Len(joined) = Len(s) + Len(b)
      /\ \A k \in 1 .. (Len(s) + Len(b)) : joined[k] = IF k <= Len(s) THEN es[k] ELSE b[k - Len(s)]
  <2>1. /\ es \o b \in Seq(Event) /\ Len(es \o b) = Len(es) + Len(b)
        /\ \A k \in 1 .. Len(es) + Len(b) :
             (es \o b)[k] = IF k <= Len(es) THEN es[k] ELSE b[k - Len(es)]
    BY <1>2, <1>7, ConcatProperties
  <2>. QED
    BY <1>6, <1>7, <2>1
<1>10. PICK all : all = EventsOf(both)
  OBVIOUS
<1>11. /\ all \in Seq(Event) /\ Len(all) = Len(s) + Len(b)
       /\ \A k \in 1 .. (Len(s) + Len(b)) : all[k] = both[k].event
  BY <1>5, <1>8, <1>10
<1>12. ASSUME NEW k \in 1 .. (Len(s) + Len(b)) PROVE all[k] = joined[k]
  <2>1. CASE k <= Len(s)
    <3>1. k \in 1 .. Len(s)
      BY <1>3, <2>1
    <3>. QED
      BY <1>7, <1>8, <1>9, <1>11, <2>1, <3>1
  <2>2. CASE ~(k <= Len(s))
    <3>1. k - Len(s) \in 1 .. Len(b)
      BY <1>3, <2>2
    <3>. QED
      BY <1>4, <1>8, <1>9, <1>11, <2>2, <3>1
  <2>. QED
    BY <2>1, <2>2
<1>13. all = joined
  BY <1>9, <1>11, <1>12, SeqEqual
<1>. QED
  BY <1>1, <1>6, <1>7, <1>10, <1>13

-----------------------------------------------------------------------------
(* No event is stored twice *)

\* The places before and after a step.
LEMMA BothPlaced ==
  ASSUME IInv, PlacesInv
  PROVE  \E f, g :
           /\ Shows(f, store, object, call)
           /\ Shows(g, store', object', call')
           /\ Apart(f, used)
           /\ \A p \in Place : f[p] \in Seq(Event)
           /\ Apart(g, used') => PlacesInv'
<1>1. PICK f : f = Placed(store, object, call) /\ Shows(f, store, object, call)
  BY WhatIsPlaced
<1>2. PICK g : g = Placed(store', object', call') /\ Shows(g, store', object', call')
  BY WhatIsPlaced
<1>3. ASSUME NEW s \in Stream PROVE EventsOf(store[s]) \in Seq(Event)
  <2>1. store[s] \in Seq(Records) /\ NoCall \in Calls
    BY NoCallType DEF IInv, TypeOK
  <2>. QED
    BY <2>1, EventsOfConcat
<1>4. \A h \in Handle : object[h].uncommitted \in Seq(Event)
  BY DEF IInv, TypeOK, Objects
<1>5. \A i \in Call : Returnable(call[i]) \in Seq(Event)
  BY EmptySeq DEF IInv, TypeOK, Calls, Returnable
<1>6. \A p \in Place : f[p] \in Seq(Event)
  BY <1>1, <1>3, <1>4, <1>5, KindsOfPlace DEF Shows
<1>. QED
  BY <1>1, <1>2, <1>6 DEF PlacesInv

\* Nothing is stored in this step and no place gets new events.
LEMMA PlacesLoseStep ==
  ASSUME IInv, PlacesInv, UNCHANGED <<store, used>>,
         \A h \in Handle : \/ object'[h].uncommitted = object[h].uncommitted
                           \/ object'[h].uncommitted = <<>>,
         \A i \in Call : \/ Returnable(call'[i]) = Returnable(call[i])
                         \/ Returnable(call'[i]) = <<>>
  PROVE  PlacesInv'
<1>1. PICK f, g : /\ Shows(f, store, object, call) /\ Shows(g, store', object', call')
                  /\ Apart(f, used)
                  /\ \A p \in Place : f[p] \in Seq(Event)
                  /\ Apart(g, used') => PlacesInv'
  BY BothPlaced
<1>2. DOMAIN g = DOMAIN f /\ \A p \in DOMAIN f : g[p] = f[p] \/ g[p] = <<>>
  BY <1>1, KindsOfPlace DEF Shows
<1>3. Apart(g, used)
  BY <1>1, <1>2, PlacesShrink
<1>. QED
  BY <1>1, <1>3

LEMMA AddEventPlaces ==
  ASSUME IInv, PlacesInv, NEW h \in Handle, NEW e \in Event, AddEvent(h, e)
  PROVE  PlacesInv'
<1>1. PICK f, g : /\ Shows(f, store, object, call) /\ Shows(g, store', object', call')
                  /\ Apart(f, used)
                  /\ \A p \in Place : f[p] \in Seq(Event)
                  /\ Apart(g, used') => PlacesInv'
  BY BothPlaced
<1>2. PICK a : a = <<"object", h>>
  OBVIOUS
<1>3. UNCHANGED <<store, call>> /\ e \notin used /\ used' = used \cup {e}
  BY DEF AddEvent
<1>4. /\ object'[h].uncommitted = Append(object[h].uncommitted, e)
      /\ \A o \in Handle : o # h => object'[o] = object[o]
  BY DEF AddEvent, IInv, TypeOK, Objects
<1>5. DOMAIN f = Place /\ DOMAIN g = Place /\ a \in Place /\ g[a] = Append(f[a], e)
  BY <1>1, <1>2, <1>4 DEF Shows
<1>6. \A p \in Place : p # a => g[p] = f[p]
  BY <1>1, <1>2, <1>3, <1>4, KindsOfPlace DEF Shows
<1>7. Apart(g, used \cup {e})
  BY <1>1, <1>3, <1>5, <1>6, PlacesGrow
<1>. QED
  BY <1>1, <1>3, <1>7

LEMMA CommitPlaces ==
  ASSUME IInv, PlacesInv, NEW h \in Handle, NEW i \in Call, Commit(h, i)
  PROVE  PlacesInv'
<1>1. PICK f, g : /\ Shows(f, store, object, call) /\ Shows(g, store', object', call')
                  /\ Apart(f, used)
                  /\ \A p \in Place : f[p] \in Seq(Event)
                  /\ Apart(g, used') => PlacesInv'
  BY BothPlaced
<1>2. PICK a, b : a = <<"call", i>> /\ b = <<"object", h>>
  OBVIOUS
<1>3. store' = store /\ used' = used
  BY DEF Commit, history
<1>4. /\ object'[h].uncommitted = <<>>
      /\ \A o \in Handle : o # h => object'[o] = object[o]
  BY DEF Commit, Left, IInv, TypeOK, Objects
<1>5. /\ Returnable(call[i]) = <<>>
      /\ Returnable(call'[i]) = object[h].uncommitted
      /\ \A j \in Call : j # i => call'[j] = call[j]
  BY NoCallType DEF Commit, Returnable, IInv, TypeOK
<1>6. /\ DOMAIN f = Place /\ DOMAIN g = Place /\ a \in Place /\ b \in Place /\ a # b
      /\ g[a] = f[b] /\ f[a] = <<>> /\ g[b] = <<>>
  BY <1>1, <1>2, <1>4, <1>5 DEF Shows
<1>7. \A p \in Place : p # a /\ p # b => g[p] = f[p]
  <2>. SUFFICES ASSUME NEW p \in Place, p # a, p # b PROVE g[p] = f[p]
    OBVIOUS
  <2>1. CASE \E s \in Stream : p = <<"store", s>>
    BY <1>1, <1>2, <1>3, <1>4, <1>5, <2>1 DEF Shows
  <2>2. CASE \E o \in Handle : p = <<"object", o>>
    BY <1>1, <1>2, <1>3, <1>4, <1>5, <2>2 DEF Shows
  <2>3. CASE \E j \in Call : p = <<"call", j>>
    BY <1>1, <1>2, <1>3, <1>4, <1>5, <2>3 DEF Shows
  <2>. QED
    BY <2>1, <2>2, <2>3, KindsOfPlace
<1>8. g[a] = f[a] \o f[b]
  <2>1. f[b] \in Seq(Event)
    BY <1>1, <1>6
  <2>. QED
    BY <1>6, <2>1, ConcatEmptySeq
<1>9. Apart(g, used)
  BY <1>1, <1>6, <1>7, <1>8, PlacesJoin
<1>. QED
  BY <1>1, <1>3, <1>9

LEMMA AddedPlaces ==
  ASSUME IInv, CallsAlive, PlacesInv, NEW i \in Call, Added(i)
  PROVE  PlacesInv'
<1>1. PICK f, g : /\ Shows(f, store, object, call) /\ Shows(g, store', object', call')
                  /\ Apart(f, used)
                  /\ \A p \in Place : f[p] \in Seq(Event)
                  /\ Apart(g, used') => PlacesInv'
  BY BothPlaced
<1>2. PICK t : t = object[call[i].by].stream
  OBVIOUS
<1>3. PICK a, b : a = <<"store", t>> /\ b = <<"call", i>>
  OBVIOUS
<1>4. /\ call[i].pc = "add" /\ Insert(call[i]) /\ object' = object /\ used' = used
      /\ call[i] \in Calls
  BY DEF Added, history, IInv, TypeOK
<1>5. /\ t \in Stream
      /\ store'[t] = store[t] \o Revised(call[i])
      /\ \A s \in Stream : s # t => store'[s] = store[s]
  BY <1>2, <1>4, StoreGrows
<1>6. EventsOf(store'[t]) = EventsOf(store[t]) \o call[i].batch
  <2>1. store[t] \in Seq(Records)
    BY <1>5 DEF IInv, TypeOK
  <2>. QED
    BY <1>4, <1>5, <2>1, EventsOfConcat
<1>7. /\ Returnable(call[i]) = call[i].batch
      /\ Returnable(call'[i]) = <<>>
      /\ \A j \in Call : j # i => call'[j] = call[j]
  BY <1>4 DEF Added, Returnable, IInv, TypeOK, Calls
<1>8. DOMAIN f = Place /\ DOMAIN g = Place /\ a \in Place /\ b \in Place /\ a # b
  BY <1>1, <1>3, <1>5 DEF Shows
<1>9. g[b] = <<>> /\ f[b] = call[i].batch
  BY <1>1, <1>3, <1>7 DEF Shows
<1>10. g[a] = EventsOf(store'[t]) /\ f[a] = EventsOf(store[t])
  BY <1>1, <1>3, <1>5 DEF Shows
<1>11. g[a] = f[a] \o f[b]
  BY <1>6, <1>9, <1>10
<1>12. \A p \in Place : p # a /\ p # b => g[p] = f[p]
  <2>. SUFFICES ASSUME NEW p \in Place, p # a, p # b PROVE g[p] = f[p]
    OBVIOUS
  <2>1. CASE \E s \in Stream : p = <<"store", s>>
    BY <1>1, <1>3, <1>4, <1>5, <1>7, <2>1 DEF Shows
  <2>2. CASE \E o \in Handle : p = <<"object", o>>
    BY <1>1, <1>3, <1>4, <1>5, <1>7, <2>2 DEF Shows
  <2>3. CASE \E j \in Call : p = <<"call", j>>
    BY <1>1, <1>3, <1>4, <1>5, <1>7, <2>3 DEF Shows
  <2>. QED
    BY <2>1, <2>2, <2>3, KindsOfPlace
<1>13. Apart(g, used)
  <2>1. g[b] = <<>>
    BY <1>9
  <2>2. /\ DOMAIN g = DOMAIN f /\ a \in DOMAIN f /\ b \in DOMAIN f
        /\ \A p \in DOMAIN f : f[p] \in Seq(Event)
        /\ \A p \in DOMAIN f : p # a /\ p # b => g[p] = f[p]
    BY <1>1, <1>8, <1>12
  <2>3. a # b /\ Apart(f, used)
    BY <1>1, <1>8
  <2>. QED
    BY <1>11, <2>1, <2>2, <2>3, PlacesJoin
<1>. QED
  BY <1>1, <1>4, <1>13

LEMMA NotAddedPlaces ==
  ASSUME IInv, PlacesInv, "added" \notin FailAt, NEW i \in Call, NotAdded(i)
  PROVE  PlacesInv'
<1>1. PICK f, g : /\ Shows(f, store, object, call) /\ Shows(g, store', object', call')
                  /\ Apart(f, used)
                  /\ \A p \in Place : f[p] \in Seq(Event)
                  /\ Apart(g, used') => PlacesInv'
  BY BothPlaced
<1>2. PICK h : h = call[i].by
  OBVIOUS
<1>3. PICK a, b : a = <<"object", h>> /\ b = <<"call", i>>
  OBVIOUS
<1>4. /\ call[i].pc = "add" /\ store' = store /\ used' = used
      /\ call[i] \in Calls /\ h \in Handle
  BY <1>2, RejectedType DEF NotAdded, Fails, history, IInv, TypeOK
<1>5. /\ object'[h].uncommitted = call[i].batch \o object[h].uncommitted
      /\ \A o \in Handle : o # h => object'[o] = object[o]
  BY <1>2, <1>4 DEF NotAdded, Restored, IInv, TypeOK, Objects
<1>6. /\ Returnable(call[i]) = call[i].batch
      /\ Returnable(call'[i]) = <<>>
      /\ \A j \in Call : j # i => call'[j] = call[j]
  BY <1>4, NoCallType DEF NotAdded, Returnable, IInv, TypeOK
<1>7. DOMAIN f = Place /\ DOMAIN g = Place /\ a \in Place /\ b \in Place /\ a # b
  BY <1>1, <1>3, <1>4 DEF Shows
<1>8. g[b] = <<>> /\ f[b] = call[i].batch
  BY <1>1, <1>3, <1>6 DEF Shows
<1>9. g[a] = object'[h].uncommitted /\ f[a] = object[h].uncommitted
  BY <1>1, <1>3, <1>4 DEF Shows
<1>10. g[a] = f[b] \o f[a]
  BY <1>5, <1>8, <1>9
<1>11. \A p \in Place : p # a /\ p # b => g[p] = f[p]
  <2>. SUFFICES ASSUME NEW p \in Place, p # a, p # b PROVE g[p] = f[p]
    OBVIOUS
  <2>1. CASE \E s \in Stream : p = <<"store", s>>
    BY <1>1, <1>3, <1>4, <1>5, <1>6, <2>1 DEF Shows
  <2>2. CASE \E o \in Handle : p = <<"object", o>>
    BY <1>1, <1>3, <1>4, <1>5, <1>6, <2>2 DEF Shows
  <2>3. CASE \E j \in Call : p = <<"call", j>>
    BY <1>1, <1>3, <1>4, <1>5, <1>6, <2>3 DEF Shows
  <2>. QED
    BY <2>1, <2>2, <2>3, KindsOfPlace
<1>12. Apart(g, used)
  <2>1. g[b] = <<>>
    BY <1>8
  <2>. QED
    BY <1>1, <1>7, <1>10, <1>11, <2>1, PlacesJoin
<1>. QED
  BY <1>1, <1>4, <1>12

LEMMA PlacesInit == CommitAssumption /\ Init => PlacesInv
<1>. SUFFICES ASSUME Init PROVE PlacesInv
  OBVIOUS
<1>1. PICK f : f = Placed(store, object, call) /\ Shows(f, store, object, call)
  BY WhatIsPlaced
<1>2. \A p \in Place : f[p] = <<>>
  <2>1. EventsOf(<<>>) = <<>> /\ Unused.uncommitted = <<>> /\ Returnable(NoCall) = <<>>
    BY DEF EventsOf, Unused, NoCall, Returnable
  <2>. QED
    BY <1>1, <2>1, KindsOfPlace DEF Shows, Init
<1>. QED
  BY <1>1, <1>2 DEF PlacesInv, Apart, Shows, Elements

LEMMA PlacesNext ==
  CommitAssumption /\ "added" \notin FailAt /\ IInv /\ CallsAlive /\ PlacesInv /\ [Next]_vars
    => PlacesInv'
<1>. SUFFICES ASSUME "added" \notin FailAt, IInv, CallsAlive, PlacesInv, [Next]_vars
              PROVE  PlacesInv'
  OBVIOUS
<1>1. /\ object \in [Handle -> Objects] /\ call \in [Call -> Calls]
      /\ Returnable(NoCall) = <<>> /\ Unused.uncommitted = <<>>
  BY DEF IInv, TypeOK, Returnable, NoCall, Unused
<1>2. ASSUME NEW h \in Handle, \/ \E s \in Stream : Load(h, s)
                               \/ Release(h)
      PROVE  PlacesInv'
  <2>1. UNCHANGED <<store, used, call>>
    BY <1>2 DEF Load, Release, history
  <2>2. \A g \in Handle : g # h => object'[g] = object[g]
    BY <1>1, <1>2 DEF Load, Release
  <2>3. object'[h].uncommitted = <<>>
    <3>1. CASE Release(h)
      BY <1>1, <3>1 DEF Release
    <3>2. ASSUME NEW s \in Stream, Load(h, s) PROVE object'[h].uncommitted = <<>>
      BY <1>1, <3>2 DEF Load, Unused
    <3>. QED
      BY <1>2, <3>1, <3>2
  <2>. QED
    BY <2>1, <2>2, <2>3, PlacesLoseStep
<1>3. ASSUME NEW h \in Handle, NEW e \in Event, AddEvent(h, e) PROVE PlacesInv'
  BY <1>3, AddEventPlaces
<1>4. ASSUME NEW h \in Handle, NEW i \in Call, Commit(h, i) PROVE PlacesInv'
  BY <1>4, CommitPlaces
<1>5. ASSUME NEW i \in Call, Added(i) PROVE PlacesInv'
  BY <1>5, AddedPlaces
<1>6. ASSUME NEW i \in Call, NotAdded(i) PROVE PlacesInv'
  BY <1>6, NotAddedPlaces
<1>7. ASSUME NEW i \in Call,
             Numbered(i) \/ NotNumbered(i) \/ Offer(i) \/ Publish(i) \/ PublishThrows(i) \/ Concat(i)
      PROVE  PlacesInv'
  <2>1. UNCHANGED <<store, used>>
    BY <1>7 DEF Numbered, NotNumbered, Offer, Publish, PublishThrows, Concat, history
  <2>2. \A g \in Handle : object'[g].uncommitted = object[g].uncommitted
    <3>1. CASE UNCHANGED object
      BY <3>1
    <3>2. CASE NotNumbered(i) \/ PublishThrows(i)
      <4>1. object' = [object EXCEPT ![call[i].by].rejected = TRUE]
        BY <3>2 DEF NotNumbered, PublishThrows
      <4>. QED
        BY <1>1, <4>1 DEF Objects
    <3>3. CASE Offer(i)
      BY <1>1, <3>3 DEF Offer, Objects
    <3>4. CASE Concat(i)
      <4>1. PICK recs : recs = {<<r.event, r.rev>> : r \in Elements(Revised(call[i]))}
        OBVIOUS
      <4>2. object' = [object EXCEPT ![call[i].by].events = @ \cup recs,
                                     ![call[i].by].rejected = FALSE]
        BY <3>4, <4>1 DEF Concat
      <4>. QED
        BY <1>1, <4>2 DEF Objects
    <3>. QED
      BY <1>7, <3>1, <3>2, <3>3, <3>4 DEF Numbered, Publish
  <2>3. \A j \in Call : j # i => call'[j] = call[j]
    BY <1>1, <1>7 DEF Numbered, NotNumbered, Offer, Publish, PublishThrows, Concat
  <2>4. \/ Returnable(call'[i]) = Returnable(call[i])
        \/ Returnable(call'[i]) = <<>>
    <3>1. CASE Numbered(i)
      BY <1>1, <3>1 DEF Numbered, Returnable, Calls
    <3>2. CASE Offer(i) \/ Publish(i)
      BY <1>1, <3>2 DEF Offer, Publish, Returnable, Calls
    <3>3. CASE NotNumbered(i) \/ PublishThrows(i) \/ Concat(i)
      BY <1>1, <3>3 DEF NotNumbered, PublishThrows, Concat
    <3>. QED
      BY <1>7, <3>1, <3>2, <3>3
  <2>. QED
    BY <2>1, <2>2, <2>3, <2>4, PlacesLoseStep
<1>8. CASE \/ \E p \in handed : Confirm(p)
           \/ \E p \in marking : Marked(p)
           \/ UNCHANGED vars
  <2>1. UNCHANGED <<store, used, object, call>>
    BY <1>8 DEF Confirm, Marked, vars, history
  <2>. QED
    BY <2>1, PlacesLoseStep
<1>9. CASE Restart
  <2>1. /\ UNCHANGED <<store, used>>
        /\ \A h \in Handle : object'[h].uncommitted = <<>>
        /\ \A i \in Call : Returnable(call'[i]) = <<>>
    BY <1>1, <1>9 DEF Restart
  <2>. QED
    BY <2>1, PlacesLoseStep
<1>. QED
  BY <1>2, <1>3, <1>4, <1>5, <1>6, <1>7, <1>8, <1>9 DEF Next, Link

\* The events that wait are in places other than the store.
LEMMA WaitingPlaces ==
  ASSUME NEW f, Shows(f, store, object, call), NEW h \in Handle, NEW w \in Waiting(h)
  PROVE  /\ <<w[1], w[2]>> \in Place
         /\ w[1] # "store"
         /\ w[3] \in DOMAIN f[<<w[1], w[2]>>]
         /\ f[<<w[1], w[2]>>][w[3]] = EventAt(w)
         /\ w = <<w[1], w[2], w[3]>>
<1>1. CASE \E k \in DOMAIN object[h].uncommitted : w = <<"object", h, k>>
  BY <1>1 DEF Shows, EventAt
<1>2. CASE \E i \in Call : /\ call[i].pc \in {"ids", "add"}
                           /\ \E k \in DOMAIN call[i].batch : w = <<"call", i, k>>
  BY <1>2 DEF Shows, EventAt, Returnable
<1>. QED
  BY <1>1, <1>2 DEF Waiting

LEMMA PlacesOnce == PlacesInv => StoredOnce
<1>. SUFFICES ASSUME PlacesInv PROVE StoredOnce
  OBVIOUS
<1>1. PICK f : f = Placed(store, object, call) /\ Shows(f, store, object, call)
  BY WhatIsPlaced
<1>2. \A p, q \in Place : \A k \in DOMAIN f[p], m \in DOMAIN f[q] :
        f[p][k] = f[q][m] => p = q /\ k = m
  BY <1>1 DEF PlacesInv, Apart, Shows
<1>3. ASSUME NEW s \in Stream, NEW k \in DOMAIN store[s]
      PROVE  /\ <<"store", s>> \in Place
             /\ k \in DOMAIN f[<<"store", s>>]
             /\ f[<<"store", s>>][k] = store[s][k].event
  BY <1>1 DEF Shows, EventsOf
<1>4. ASSUME NEW s \in Stream, NEW t \in Stream, NEW i \in DOMAIN store[s], NEW j \in DOMAIN store[t],
             store[s][i].event = store[t][j].event
      PROVE  s = t /\ i = j
  <2>1. PICK p, q : p = <<"store", s>> /\ q = <<"store", t>>
    OBVIOUS
  <2>2. /\ p \in Place /\ i \in DOMAIN f[p] /\ f[p][i] = store[s][i].event
        /\ q \in Place /\ j \in DOMAIN f[q] /\ f[q][j] = store[t][j].event
    BY <1>3, <2>1
  <2>3. p = q /\ i = j
    BY <1>2, <1>4, <2>2
  <2>. QED
    BY <2>1, <2>3
<1>5. ASSUME NEW h \in Handle, NEW w \in Waiting(h), NEW r \in AllStored
      PROVE  r.event # EventAt(w)
  <2>1. PICK s \in Stream : \E k \in DOMAIN store[s] : r = store[s][k]
    BY DEF AllStored, Stored, Elements
  <2>2. PICK k \in DOMAIN store[s] : r = store[s][k]
    BY <2>1
  <2>3. PICK p, q : p = <<"store", s>> /\ q = <<w[1], w[2]>>
    OBVIOUS
  <2>4. p \in Place /\ k \in DOMAIN f[p] /\ f[p][k] = r.event
    BY <1>3, <2>2, <2>3
  <2>5. q \in Place /\ w[3] \in DOMAIN f[q] /\ f[q][w[3]] = EventAt(w) /\ w[1] # "store"
    BY <1>1, <2>3, WaitingPlaces
  <2>6. p # q
    BY <2>3, <2>5
  <2>. QED
    BY <1>2, <2>4, <2>5, <2>6
<1>6. ASSUME NEW h \in Handle, NEW v \in Waiting(h), NEW w \in Waiting(h), EventAt(v) = EventAt(w)
      PROVE  v = w
  <2>1. PICK p, q : p = <<v[1], v[2]>> /\ q = <<w[1], w[2]>>
    OBVIOUS
  <2>2. /\ p \in Place /\ v[3] \in DOMAIN f[p] /\ f[p][v[3]] = EventAt(v)
        /\ v = <<v[1], v[2], v[3]>>
    BY <1>1, <2>1, WaitingPlaces
  <2>3. /\ q \in Place /\ w[3] \in DOMAIN f[q] /\ f[q][w[3]] = EventAt(w)
        /\ w = <<w[1], w[2], w[3]>>
    BY <1>1, <2>1, WaitingPlaces
  <2>4. p = q /\ v[3] = w[3]
    BY <1>2, <1>6, <2>2, <2>3
  <2>. QED
    BY <2>1, <2>2, <2>3, <2>4
<1>. QED
  BY <1>4, <1>5, <1>6 DEF StoredOnce

\* As long as a rejected addEvents stored nothing, no event is stored twice
\* and none waits that is stored, for any number of overlapping, failing and
\* repeated commits (Eventstore.commit takes the uncommitted events at once
\* and a failed addEvents gives them back).
THEOREM NothingIsStoredTwice == "added" \notin FailAt => (Spec => []StoredOnce)
<1>. SUFFICES ASSUME "added" \notin FailAt PROVE Spec => []StoredOnce
  OBVIOUS
<1>1. CommitAssumption /\ Init => IInv /\ OnceInv /\ PlacesInv
  BY InitInv, OnceInit, PlacesInit
<1>2. CommitAssumption /\ (IInv /\ OnceInv /\ PlacesInv) /\ [Next]_vars
        => (IInv /\ OnceInv /\ PlacesInv)'
  <2>1. OnceInv => CallsAlive
    BY DEF OnceInv
  <2>. QED
    BY <2>1, NextInv, OnceNext, PlacesNext
<1>. QED
  BY <1>1, <1>2, PlacesOnce, CommitAssumption, PTL DEF Spec

-----------------------------------------------------------------------------
(***************************************************************************)
(* Callers that use one object per stream and await each commit: revisions *)
(* count the stored events, positions and the publisher follow them, and a *)
(* stream is the line of events FifoStream describes.                      *)
(***************************************************************************)

\* A rejected commit is repeated only where its events are not stored.
Careful == Awaits /\ (Retries => FailAt \cap {"added", "publish"} = {})

InProgress(i) == call[i].pc # "free"

OneObject ==
  \A g, h \in Handle :
    (object[g].stream # None /\ object[g].stream = object[h].stream) => g = h

OneCall ==
  \A i, j \in Call : (InProgress(i) /\ InProgress(j) /\ call[i].by = call[j].by) => i = j

CallsAllowed == \A i \in Call : InProgress(i) => (object[call[i].by].rejected => Retries)

AloneInv == CallsAlive /\ OneObject /\ OneCall /\ CallsAllowed

\* The events of an object go up to revision n - 1.
Knows(events, n) ==
  /\ \A e \in events : e[2] < n
  /\ n > 0 => \E e \in events : e[2] = n - 1

LogOf(h) == store[object[h].stream]

Idle(h) == \A i \in Call : InProgress(i) => call[i].by # h

\* An object that may commit has seen all of its stream.
FreeObjectsCurrent ==
  \A h \in Handle :
    (object[h].stream # None /\ (object[h].rejected => Retries) /\ Idle(h)) =>
      Knows(object[h].events, Len(LogOf(h)))

\* A commit on its way to the store counts on from the end of the stream, and
\* its positions come after all of the stream's; one that is stored is its end.
CallCurrent(c, events, log) ==
  /\ c.base >= -1
  /\ Knows(events, c.base + 1)
  /\ c.pc \in {"ids", "add"} => c.base + 1 = Len(log)
  /\ c.pc = "add" => \A k \in DOMAIN log : log[k].pos <= c.first
  /\ c.pc \in {"publish", "concat"} => c.base + 1 + Len(c.batch) = Len(log)

CallsCurrent ==
  \A i \in Call : InProgress(i) =>
    CallCurrent(call[i], object[call[i].by].events, LogOf(call[i].by))

\* A stream reaches the publisher in the order of its revisions, and what a
\* commit still has to publish comes after it.
LineOrdered ==
  \A s \in Stream : \A k, m \in DOMAIN Line :
    (k < m /\ Line[k] \in Stored(s) /\ Line[m] \in Stored(s)) => Line[k].rev < Line[m].rev

BatchesNext ==
  \A i \in Call : call[i].pc = "publish" =>
    /\ Elements(Revised(call[i])) \subseteq Stored(object[call[i].by].stream)
    /\ \A r \in Elements(Line) \cap Stored(object[call[i].by].stream) : r.rev <= call[i].base

OrderInv ==
  /\ FreeObjectsCurrent
  /\ CallsCurrent
  /\ RevisionIsIndex
  /\ PositionsFollowRevisions
  /\ LineOrdered
  /\ BatchesNext

-----------------------------------------------------------------------------
(* What the steps of a commit change *)

\* A commit that goes on.
LEMMA AdvanceEffect ==
  ASSUME IInv, NEW i \in Call, Numbered(i) \/ Added(i) \/ Offer(i) \/ Publish(i)
  PROVE  /\ call[i].pc # "free" /\ call'[i].pc # "free"
         /\ call'[i].by = call[i].by /\ call'[i].base = call[i].base
         /\ call'[i].batch = call[i].batch
         /\ \A j \in Call : j # i => call'[j] = call[j]
         /\ \A g \in Handle : /\ object'[g].stream = object[g].stream
                              /\ object'[g].events = object[g].events
                              /\ object'[g].rejected = object[g].rejected
<1>1. object \in [Handle -> Objects] /\ call \in [Call -> Calls]
  BY DEF IInv, TypeOK
<1>2. CASE Numbered(i)
  BY <1>1, <1>2 DEF Numbered, Calls
<1>3. CASE Added(i)
  BY <1>1, <1>3 DEF Added, Calls
<1>4. CASE Publish(i)
  BY <1>1, <1>4 DEF Publish, Calls
<1>5. CASE Offer(i)
  <2>1. /\ call[i].pc # "free" /\ call'[i].pc # "free"
        /\ call'[i].by = call[i].by /\ call'[i].base = call[i].base
        /\ call'[i].batch = call[i].batch
        /\ \A j \in Call : j # i => call'[j] = call[j]
    BY <1>1, <1>5 DEF Offer, Calls
  <2>2. object' = [object EXCEPT ![call[i].by].toDispatch = call[i].batch]
    BY <1>5 DEF Offer
  <2>3. \A g \in Handle : /\ object'[g].stream = object[g].stream
                          /\ object'[g].events = object[g].events
                          /\ object'[g].rejected = object[g].rejected
    BY <1>1, <2>2 DEF Objects
  <2>. QED
    BY <2>1, <2>3
<1>. QED
  BY <1>2, <1>3, <1>4, <1>5

\* A commit that ends.
LEMMA EndEffect ==
  ASSUME IInv, NEW i \in Call,
         NotNumbered(i) \/ NotAdded(i) \/ PublishThrows(i) \/ Concat(i)
  PROVE  /\ call[i].pc # "free" /\ call' = [call EXCEPT ![i] = NoCall]
         /\ call'[i].pc = "free"
         /\ \A j \in Call : j # i => call'[j] = call[j]
         /\ \A g \in Handle : object'[g].stream = object[g].stream
         /\ \A g \in Handle : g # call[i].by => object'[g] = object[g]
<1>1. object \in [Handle -> Objects] /\ call \in [Call -> Calls] /\ NoCall.pc = "free"
  BY NoCallType DEF IInv, TypeOK
<1>2. call[i].pc # "free" /\ call' = [call EXCEPT ![i] = NoCall]
  BY DEF NotNumbered, NotAdded, PublishThrows, Concat
<1>3. CASE NotNumbered(i) \/ PublishThrows(i)
  <2>1. object' = [object EXCEPT ![call[i].by].rejected = TRUE]
    BY <1>3 DEF NotNumbered, PublishThrows
  <2>. QED
    BY <1>1, <1>2, <2>1 DEF Objects
<1>4. CASE NotAdded(i)
  <2>1. object' = [object EXCEPT ![call[i].by].uncommitted = Restored(call[i].batch, @),
                                 ![call[i].by].rejected = TRUE]
    BY <1>4 DEF NotAdded
  <2>. QED
    BY <1>1, <1>2, <2>1 DEF Objects
<1>5. CASE Concat(i)
  <2>1. PICK recs : recs = {<<r.event, r.rev>> : r \in Elements(Revised(call[i]))}
    OBVIOUS
  <2>2. object' = [object EXCEPT ![call[i].by].events = @ \cup recs,
                                 ![call[i].by].rejected = FALSE]
    BY <1>5, <2>1 DEF Concat
  <2>. QED
    BY <1>1, <1>2, <2>2 DEF Objects
<1>. QED
  BY <1>3, <1>4, <1>5

-----------------------------------------------------------------------------
(* One object per stream, one commit per object *)

LEMMA AloneNext ==
  CommitAssumption /\ Awaits /\ IInv /\ AloneInv /\ [Next]_vars => AloneInv'
<1>. SUFFICES ASSUME CommitAssumption, Awaits, IInv, AloneInv, [Next]_vars PROVE AloneInv'
  OBVIOUS
<1>1. /\ object \in [Handle -> Objects] /\ call \in [Call -> Calls]
      /\ \A i \in Call : InProgress(i) => call[i].by \in Handle
      /\ NoCall.pc = "free" /\ Unused.stream = None /\ ~Unused.rejected
  BY NoCallType DEF IInv, TypeOK, CallsOK, CallOK, InProgress, Unused
<1>2. CallsAlive'
  BY AliveNext DEF AloneInv
<1>. USE DEF InProgress
<1>3. ASSUME NEW h \in Handle, NEW s \in Stream, Load(h, s) PROVE AloneInv'
  <2>1. /\ call' = call /\ object[h].stream = None
        /\ \A g \in Handle : object[g].stream # s
    BY <1>3 DEF Load
  <2>2. object'[h].stream = s /\ \A g \in Handle : g # h => object'[g] = object[g]
    BY <1>1, <1>3 DEF Load, Unused
  <2>3. OneObject'
    BY <2>1, <2>2 DEF AloneInv, OneObject
  <2>4. OneCall' /\ CallsAllowed'
    BY <1>1, <2>1, <2>2 DEF AloneInv, OneCall, CallsAllowed, CallsAlive
  <2>. QED
    BY <1>2, <2>3, <2>4 DEF AloneInv
<1>4. ASSUME NEW h \in Handle, NEW e \in Event, AddEvent(h, e) PROVE AloneInv'
  <2>1. /\ call' = call
        /\ \A g \in Handle : /\ object'[g].stream = object[g].stream
                             /\ object'[g].rejected = object[g].rejected
    BY <1>1, <1>4 DEF AddEvent, Objects
  <2>. QED
    BY <1>1, <1>2, <2>1 DEF AloneInv, OneObject, OneCall, CallsAllowed
<1>5. ASSUME NEW h \in Handle, NEW i \in Call, Commit(h, i) PROVE AloneInv'
  <2>1. \A g \in Handle : /\ object'[g].stream = object[g].stream
                          /\ object'[g].rejected = object[g].rejected
    BY <1>1, <1>5 DEF Commit, Objects
  <2>2. call'[i].by = h /\ \A j \in Call : j # i => call'[j] = call[j]
    BY <1>1, <1>5 DEF Commit
  <2>3. (object[h].rejected => Retries) /\ \A j \in Call : call[j].by # h
    BY <1>5 DEF Commit, Busy
  <2>4. OneObject'
    BY <2>1 DEF AloneInv, OneObject
  <2>5. OneCall'
    BY <2>2, <2>3 DEF AloneInv, OneCall
  <2>6. CallsAllowed'
    BY <1>1, <2>1, <2>2, <2>3 DEF AloneInv, CallsAllowed
  <2>. QED
    BY <1>2, <2>4, <2>5, <2>6 DEF AloneInv
<1>6. ASSUME NEW h \in Handle, Release(h) PROVE AloneInv'
  <2>1. call' = call /\ \A i \in Call : call[i].by # h
    BY <1>6 DEF Release, Busy
  <2>2. object'[h].stream = None /\ \A g \in Handle : g # h => object'[g] = object[g]
    BY <1>1, <1>6 DEF Release
  <2>3. OneObject'
    BY <2>2 DEF AloneInv, OneObject
  <2>4. OneCall' /\ CallsAllowed'
    BY <1>1, <2>1, <2>2 DEF AloneInv, OneCall, CallsAllowed
  <2>. QED
    BY <1>2, <2>3, <2>4 DEF AloneInv
<1>7. ASSUME NEW i \in Call, Numbered(i) \/ Added(i) \/ Offer(i) \/ Publish(i) PROVE AloneInv'
  <2>1. OneObject'
    BY <1>7, AdvanceEffect DEF AloneInv, OneObject
  <2>2. OneCall' /\ CallsAllowed'
    BY <1>1, <1>7, AdvanceEffect DEF AloneInv, OneCall, CallsAllowed
  <2>. QED
    BY <1>2, <2>1, <2>2 DEF AloneInv
<1>8. ASSUME NEW i \in Call, NotNumbered(i) \/ NotAdded(i) \/ PublishThrows(i) \/ Concat(i)
      PROVE  AloneInv'
  <2>1. OneObject'
    BY <1>8, EndEffect DEF AloneInv, OneObject
  <2>2. OneCall'
    BY <1>8, EndEffect DEF AloneInv, OneCall
  <2>3. CallsAllowed'
    <3>. SUFFICES ASSUME NEW j \in Call, j # i, call[j].pc # "free"
                  PROVE  object'[call[j].by].rejected => Retries
      BY <1>8, EndEffect DEF CallsAllowed
    <3>1. call[j].by # call[i].by
      BY <1>8, EndEffect DEF AloneInv, OneCall
    <3>. QED
      BY <1>1, <1>8, <3>1, EndEffect DEF AloneInv, CallsAllowed
  <2>. QED
    BY <1>2, <2>1, <2>2, <2>3 DEF AloneInv
<1>9. CASE \/ \E p \in handed : Confirm(p)
           \/ \E p \in marking : Marked(p)
           \/ UNCHANGED vars
  <2>1. UNCHANGED <<object, call>>
    BY <1>9 DEF Confirm, Marked, vars
  <2>. QED
    BY <1>2, <2>1 DEF AloneInv, OneObject, OneCall, CallsAllowed
<1>10. CASE Restart
  <2>1. /\ \A h \in Handle : object'[h].stream = None
        /\ \A i \in Call : call'[i].pc = "free"
    BY <1>1, <1>10 DEF Restart
  <2>. QED
    BY <1>2, <2>1 DEF AloneInv, OneObject, OneCall, CallsAllowed
<1>. QED
  BY <1>3, <1>4, <1>5, <1>6, <1>7, <1>8, <1>9, <1>10 DEF Next, Link

LEMMA AloneInit == Init => AloneInv
<1>1. NoCall.pc = "free" /\ Unused.stream = None
  BY NoCallType DEF Unused
<1>. QED
  BY <1>1 DEF Init, AloneInv, CallsAlive, OneObject, OneCall, CallsAllowed, InProgress

-----------------------------------------------------------------------------
(* Revisions, positions and the line to the publisher: steps that store and *)
(* publish nothing                                                          *)

\* What a loaded object knows.
LEMMA LoadKnows ==
  ASSUME IInv, RevisionIsIndex, NEW s \in Stream
  PROVE  Knows({<<r.event, r.rev>> : r \in Stored(s)}, Len(store[s]))
<1>1. /\ Len(store[s]) \in Nat /\ DOMAIN store[s] = 1 .. Len(store[s])
      /\ \A k \in DOMAIN store[s] : store[s][k].rev = k - 1
  BY LenProperties DEF IInv, TypeOK, RevisionIsIndex
<1>2. \A e \in {<<r.event, r.rev>> : r \in Stored(s)} : e[2] < Len(store[s])
  BY <1>1 DEF Stored, Elements
<1>3. ASSUME Len(store[s]) > 0
      PROVE  \E e \in {<<r.event, r.rev>> : r \in Stored(s)} : e[2] = Len(store[s]) - 1
  <2>1. PICK r : r = store[s][Len(store[s])]
    OBVIOUS
  <2>2. r \in Stored(s) /\ r.rev = Len(store[s]) - 1
    BY <1>1, <1>3, <2>1 DEF Stored, Elements
  <2>3. PICK e : e = <<r.event, r.rev>>
    OBVIOUS
  <2>4. e \in {<<q.event, q.rev>> : q \in Stored(s)} /\ e[2] = Len(store[s]) - 1
    BY <2>2, <2>3
  <2>. QED
    BY <2>4
<1>. QED
  BY <1>2, <1>3 DEF Knows

\* A commit counts on from what its object knows.
LEMMA KnowsBase ==
  ASSUME IInv, NEW h \in Handle, NEW n \in Nat, Knows(object[h].events, n),
         NEW base \in CurrentRevision(h)
  PROVE  base = n - 1
<1>1. PICK revs : revs = {e[2] : e \in object[h].events} \cup {-1}
  OBVIOUS
<1>2. object[h].events \subseteq Event \X Int
  BY DEF IInv, TypeOK, Objects
<1>3. revs \subseteq Int /\ \A r \in revs : r <= n - 1
  BY <1>1, <1>2 DEF Knows
<1>4. n - 1 \in revs
  <2>1. CASE n = 0
    BY <1>1, <2>1
  <2>2. CASE n # 0
    BY <1>1, <2>2 DEF Knows
  <2>. QED
    BY <2>1, <2>2
<1>5. base \in revs /\ n - 1 <= base
  BY <1>1, <1>4 DEF CurrentRevision
<1>. QED
  BY <1>3, <1>5

\* A step with the same store and the same line.
LEMMA QuietOrder ==
  ASSUME OrderInv, UNCHANGED store, Line' = Line, FreeObjectsCurrent', CallsCurrent',
         \A i \in Call : call'[i].pc = "publish" =>
           call'[i] = call[i] /\ object'[call[i].by].stream = object[call[i].by].stream
  PROVE  OrderInv'
<1>1. RevisionIsIndex' /\ PositionsFollowRevisions'
  BY DEF OrderInv, RevisionIsIndex, PositionsFollowRevisions
<1>2. \A s : Stored(s)' = Stored(s)
  BY DEF Stored, Elements
<1>3. LineOrdered'
  BY <1>2 DEF OrderInv, LineOrdered
<1>4. BatchesNext'
  <2>. SUFFICES ASSUME NEW i \in Call, call'[i].pc = "publish"
                PROVE  /\ Elements(Revised(call'[i])) \subseteq Stored(object'[call'[i].by].stream)
                       /\ \A r \in Elements(Line) \cap Stored(object'[call'[i].by].stream) :
                            r.rev <= call'[i].base
    BY <1>2 DEF BatchesNext, Revised, Elements
  <2>. QED
    BY DEF OrderInv, BatchesNext
<1>. QED
  BY <1>1, <1>3, <1>4 DEF OrderInv

LEMMA LoadOrder ==
  ASSUME IInv, AloneInv, OrderInv, NEW h \in Handle, NEW s \in Stream, Load(h, s)
  PROVE  OrderInv'
<1>1. PICK evs : evs = {<<r.event, r.rev>> : r \in Stored(s)}
  OBVIOUS
<1>2. /\ UNCHANGED <<store, call, published, queue>> /\ object[h].stream = None
      /\ object' = [object EXCEPT ![h] = [Unused EXCEPT !.stream = s, !.events = evs]]
  BY <1>1 DEF Load, dispatcher, history
<1>3. /\ object'[h].stream = s /\ object'[h].events = evs
      /\ \A g \in Handle : g # h => object'[g] = object[g]
  BY <1>2 DEF IInv, TypeOK, Unused
<1>4. Knows(evs, Len(store[s]))
  BY <1>1, LoadKnows DEF OrderInv
<1>5. FreeObjectsCurrent'
  BY <1>2, <1>3, <1>4 DEF OrderInv, FreeObjectsCurrent, LogOf, Idle, InProgress
<1>6. \A i \in Call : call[i].pc # "free" => call[i].by \in Handle /\ call[i].by # h
  BY <1>2 DEF IInv, CallsOK, CallOK, AloneInv, CallsAlive
<1>7. CallsCurrent'
  BY <1>2, <1>3, <1>6 DEF OrderInv, CallsCurrent, InProgress, LogOf
<1>8. Line' = Line
  BY <1>2 DEF Line
<1>. QED
  BY <1>2, <1>3, <1>5, <1>6, <1>7, <1>8, QuietOrder

LEMMA AddEventOrder ==
  ASSUME IInv, AloneInv, OrderInv, NEW h \in Handle, NEW e \in Event, AddEvent(h, e)
  PROVE  OrderInv'
<1>1. UNCHANGED <<store, call, published, queue>>
  BY DEF AddEvent, dispatcher
<1>2. \A g \in Handle : /\ object'[g].stream = object[g].stream
                        /\ object'[g].events = object[g].events
                        /\ object'[g].rejected = object[g].rejected
  BY DEF AddEvent, IInv, TypeOK, Objects
<1>3. FreeObjectsCurrent'
  BY <1>1, <1>2 DEF OrderInv, FreeObjectsCurrent, LogOf, Idle, InProgress
<1>4. \A i \in Call : call[i].pc # "free" => call[i].by \in Handle
  BY DEF IInv, CallsOK, CallOK
<1>5. CallsCurrent'
  BY <1>1, <1>2, <1>4 DEF OrderInv, CallsCurrent, InProgress, LogOf
<1>6. Line' = Line
  BY <1>1 DEF Line
<1>. QED
  BY <1>1, <1>2, <1>3, <1>4, <1>5, <1>6, QuietOrder

LEMMA ReleaseOrder ==
  ASSUME IInv, AloneInv, OrderInv, NEW h \in Handle, Release(h)
  PROVE  OrderInv'
<1>1. UNCHANGED <<store, call, published, queue>> /\ \A i \in Call : call[i].by # h
  BY DEF Release, dispatcher, history, Busy
<1>2. object'[h].stream = None /\ \A g \in Handle : g # h => object'[g] = object[g]
  BY DEF Release, IInv, TypeOK, Unused
<1>3. FreeObjectsCurrent'
  BY <1>1, <1>2 DEF OrderInv, FreeObjectsCurrent, LogOf, Idle, InProgress
<1>4. \A i \in Call : call[i].pc # "free" => call[i].by \in Handle
  BY DEF IInv, CallsOK, CallOK
<1>5. CallsCurrent'
  BY <1>1, <1>2, <1>4 DEF OrderInv, CallsCurrent, InProgress, LogOf
<1>6. Line' = Line
  BY <1>1 DEF Line
<1>. QED
  BY <1>1, <1>2, <1>3, <1>4, <1>5, <1>6, QuietOrder

LEMMA CommitOrder ==
  ASSUME Awaits, IInv, AloneInv, OrderInv, NEW h \in Handle, NEW i \in Call, Commit(h, i)
  PROVE  OrderInv'
<1>1. /\ UNCHANGED <<store, published, queue>>
      /\ object[h].stream # None /\ (object[h].rejected => Retries) /\ ~Busy(h)
  BY DEF Commit, dispatcher, history
<1>2. PICK base \in CurrentRevision(h) :
        call' = [call EXCEPT ![i] = [pc |-> "ids", by |-> h, base |-> base,
                                     batch |-> object[h].uncommitted, first |-> 0]]
  BY DEF Commit
<1>3. /\ call'[i].pc = "ids" /\ call'[i].by = h /\ call'[i].base = base
      /\ \A j \in Call : j # i => call'[j] = call[j]
  BY <1>2 DEF IInv, TypeOK
<1>4. \A g \in Handle : /\ object'[g].stream = object[g].stream
                        /\ object'[g].events = object[g].events
                        /\ object'[g].rejected = object[g].rejected
  BY DEF Commit, IInv, TypeOK, Objects
<1>5. object[h].stream \in Stream
  BY <1>1 DEF IInv, TypeOK, Objects
<1>6. Len(LogOf(h)) \in Nat
  BY <1>5, LenProperties DEF LogOf, IInv, TypeOK
<1>7. Knows(object[h].events, Len(LogOf(h)))
  BY <1>1 DEF OrderInv, FreeObjectsCurrent, Idle, Busy
<1>8. base = Len(LogOf(h)) - 1
  BY <1>6, <1>7, KnowsBase
<1>9. CallCurrent(call'[i], object[h].events, LogOf(h))
  BY <1>3, <1>6, <1>7, <1>8 DEF CallCurrent
<1>10. \A j \in Call : call[j].pc # "free" => call[j].by \in Handle
  BY DEF IInv, CallsOK, CallOK
<1>11. CallsCurrent'
  <2>. SUFFICES ASSUME NEW j \in Call, call'[j].pc # "free"
                PROVE  CallCurrent(call'[j], object'[call'[j].by].events,
                                   store'[object'[call'[j].by].stream])
    BY DEF CallsCurrent, InProgress, LogOf
  <2>1. CASE j = i
    BY <1>1, <1>3, <1>4, <1>9, <2>1 DEF LogOf
  <2>2. CASE j # i
    BY <1>1, <1>3, <1>4, <1>10, <2>2 DEF OrderInv, CallsCurrent, InProgress, LogOf
  <2>. QED
    BY <2>1, <2>2
<1>12. FreeObjectsCurrent'
  <2>. SUFFICES ASSUME NEW g \in Handle, object'[g].stream # None,
                       object'[g].rejected => Retries,
                       \A j \in Call : call'[j].pc # "free" => call'[j].by # g
                PROVE  Knows(object'[g].events, Len(store'[object'[g].stream]))
    BY DEF FreeObjectsCurrent, Idle, InProgress, LogOf
  <2>1. Idle(g)
    BY <1>3, NoCallType DEF Commit, Idle, InProgress
  <2>. QED
    BY <1>1, <1>4, <2>1 DEF OrderInv, FreeObjectsCurrent, LogOf
<1>13. Line' = Line
  BY <1>1 DEF Line
<1>. QED
  BY <1>1, <1>3, <1>4, <1>10, <1>11, <1>12, <1>13, QuietOrder

-----------------------------------------------------------------------------
(* The same for the steps of a commit *)

\* Free objects stay as current as they are, while a commit goes on.
LEMMA FreeWhileAdvancing ==
  ASSUME IInv, OrderInv, UNCHANGED store,
         NEW i \in Call, Numbered(i) \/ Added(i) \/ Offer(i) \/ Publish(i)
  PROVE  FreeObjectsCurrent'
<1>. SUFFICES ASSUME NEW g \in Handle, object'[g].stream # None, object'[g].rejected => Retries,
                     \A j \in Call : call'[j].pc # "free" => call'[j].by # g
              PROVE  Knows(object'[g].events, Len(store[object'[g].stream]))
  BY DEF FreeObjectsCurrent, Idle, InProgress, LogOf
<1>1. Idle(g)
  BY AdvanceEffect DEF Idle, InProgress
<1>. QED
  BY <1>1, AdvanceEffect DEF OrderInv, FreeObjectsCurrent, LogOf

\* The other commits stay as they are.
LEMMA OthersCurrent ==
  ASSUME IInv, AloneInv, OrderInv, UNCHANGED store, NEW i \in Call,
         NEW j \in Call, j # i, call'[j] = call[j], call[j].pc # "free", call[i].pc # "free",
         \A g \in Handle : object'[g].stream = object[g].stream,
         \A g \in Handle : g # call[i].by => object'[g] = object[g]
  PROVE  CallCurrent(call'[j], object'[call'[j].by].events, store'[object'[call'[j].by].stream])
<1>1. call[j].by \in Handle /\ call[j].by # call[i].by
  BY DEF IInv, CallsOK, CallOK, AloneInv, OneCall, InProgress
<1>. QED
  BY <1>1 DEF OrderInv, CallsCurrent, InProgress, LogOf

LEMMA CallsWhileAdvancing ==
  ASSUME IInv, AloneInv, OrderInv, UNCHANGED store,
         NEW i \in Call, Numbered(i) \/ Offer(i) \/ Publish(i)
  PROVE  CallsCurrent'
<1>. SUFFICES ASSUME NEW j \in Call, call'[j].pc # "free"
              PROVE  CallCurrent(call'[j], object'[call'[j].by].events,
                                 store'[object'[call'[j].by].stream])
  BY DEF CallsCurrent, InProgress, LogOf
<1>1. call[i] \in Calls /\ call[i].by \in Handle /\ object[call[i].by].stream \in Stream
  BY AdvanceEffect, RejectedType DEF IInv, TypeOK, AloneInv, CallsAlive, Objects
<1>2. CASE j # i
  <2>1. call[j].by \in Handle /\ call'[j] = call[j] /\ call[j].pc # "free"
    BY <1>2, AdvanceEffect DEF IInv, CallsOK, CallOK
  <2>. QED
    BY <2>1, AdvanceEffect DEF OrderInv, CallsCurrent, InProgress, LogOf
<1>3. CASE j = i
  <2>1. PICK log, evs : log = LogOf(call[i].by) /\ evs = object[call[i].by].events
    OBVIOUS
  <2>2. CallCurrent(call[i], evs, log)
    BY <2>1, AdvanceEffect DEF OrderInv, CallsCurrent, InProgress
  <2>3. store'[object'[call'[i].by].stream] = log /\ object'[call'[i].by].events = evs
    BY <1>1, <2>1, AdvanceEffect DEF LogOf
  <2>4. CASE Numbered(i)
    <3>1. /\ call[i].pc = "ids" /\ call'[i].pc = "add" /\ call'[i].first = position
      BY <1>1, <2>4 DEF Numbered, IInv, TypeOK, Calls
    <3>2. \A k \in DOMAIN log : log[k].pos <= position
      BY <1>1, <2>1 DEF LogOf, IInv, StoreOK, TypeOK
    <3>. QED
      BY <1>3, <2>2, <2>3, <2>4, <3>1, <3>2, AdvanceEffect DEF CallCurrent
  <2>5. CASE Offer(i) \/ Publish(i)
    <3>1. call[i].pc = "publish" /\ call'[i].pc = "concat"
      BY <1>1, <2>5 DEF Offer, Publish, IInv, TypeOK, Calls
    <3>. QED
      BY <1>3, <2>2, <2>3, <2>5, <3>1, AdvanceEffect DEF CallCurrent
  <2>. QED
    BY <2>4, <2>5
<1>. QED
  BY <1>2, <1>3

LEMMA QuietAdvanceOrder ==
  ASSUME IInv, AloneInv, OrderInv, NEW i \in Call, Numbered(i) \/ Offer(i)
  PROVE  OrderInv'
<1>1. UNCHANGED <<store, published, queue>>
  BY DEF Numbered, Offer, dispatcher, history
<1>2. Line' = Line
  BY <1>1 DEF Line
<1>3. \A j \in Call : call[j].pc # "free" => call[j].by \in Handle
  BY DEF IInv, CallsOK, CallOK
<1>4. call'[i].pc # "publish"
  BY DEF Numbered, Offer, IInv, TypeOK, Calls
<1>5. FreeObjectsCurrent' /\ CallsCurrent'
  BY <1>1, FreeWhileAdvancing, CallsWhileAdvancing
<1>. QED
  BY <1>1, <1>2, <1>3, <1>4, <1>5, AdvanceEffect, QuietOrder

\* After a commit ended, the other objects are as current as they were.
LEMMA FreeAfterEnd ==
  ASSUME IInv, AloneInv, OrderInv, UNCHANGED store, NEW i \in Call,
         NotNumbered(i) \/ NotAdded(i) \/ PublishThrows(i) \/ Concat(i),
         LET h == call[i].by
         IN  (object'[h].rejected => Retries) => Knows(object'[h].events, Len(LogOf(h)))
  PROVE  FreeObjectsCurrent' /\ CallsCurrent'
<1>1. call[i].by \in Handle
  BY EndEffect, RejectedType
<1>2. FreeObjectsCurrent'
  <2>. SUFFICES ASSUME NEW g \in Handle, object'[g].stream # None, object'[g].rejected => Retries,
                       \A j \in Call : call'[j].pc # "free" => call'[j].by # g
                PROVE  Knows(object'[g].events, Len(store[object'[g].stream]))
    BY DEF FreeObjectsCurrent, Idle, InProgress, LogOf
  <2>1. CASE g = call[i].by
    BY <2>1, EndEffect DEF LogOf
  <2>2. CASE g # call[i].by
    <3>1. Idle(g)
      BY <2>2, EndEffect DEF Idle, InProgress
    <3>. QED
      BY <2>2, <3>1, EndEffect DEF OrderInv, FreeObjectsCurrent, LogOf
  <2>. QED
    BY <2>1, <2>2
<1>3. CallsCurrent'
  <2>. SUFFICES ASSUME NEW j \in Call, call'[j].pc # "free"
                PROVE  CallCurrent(call'[j], object'[call'[j].by].events,
                                   store'[object'[call'[j].by].stream])
    BY DEF CallsCurrent, InProgress, LogOf
  <2>. QED
    BY EndEffect, OthersCurrent
<1>. QED
  BY <1>2, <1>3

\* A rejected commit that stored nothing.
LEMMA RejectedOrder ==
  ASSUME IInv, AloneInv, OrderInv, NEW i \in Call,
         NotNumbered(i) \/ (NotAdded(i) /\ UNCHANGED store)
  PROVE  OrderInv'
<1>1. /\ UNCHANGED <<store, published, queue>> /\ call[i].pc \in {"ids", "add"}
  BY DEF NotNumbered, NotAdded, dispatcher, history
<1>2. call[i].by \in Handle
  BY EndEffect, RejectedType
<1>3. object'[call[i].by].events = object[call[i].by].events
  <2>1. CASE NotNumbered(i)
    BY <1>2, <2>1 DEF NotNumbered, IInv, TypeOK, Objects
  <2>2. CASE NotAdded(i)
    BY <1>2, <2>2 DEF NotAdded, IInv, TypeOK, Objects
  <2>. QED
    BY <2>1, <2>2
<1>4. Knows(object[call[i].by].events, Len(LogOf(call[i].by)))
  BY <1>1 DEF OrderInv, CallsCurrent, CallCurrent, InProgress
<1>5. FreeObjectsCurrent' /\ CallsCurrent'
  BY <1>1, <1>3, <1>4, FreeAfterEnd
<1>6. Line' = Line
  BY <1>1 DEF Line
<1>7. \A j \in Call : call[j].pc # "free" => call[j].by \in Handle
  BY DEF IInv, CallsOK, CallOK
<1>. QED
  BY <1>1, <1>5, <1>6, <1>7, EndEffect, QuietOrder

\* The object of a commit that resolves knows the events it stored.
LEMMA ConcatOrder ==
  ASSUME IInv, AloneInv, OrderInv, NEW i \in Call, Concat(i)
  PROVE  OrderInv'
<1>1. PICK h, c, new : h = call[i].by /\ c = call[i] /\ new = Revised(call[i])
  OBVIOUS
<1>2. /\ UNCHANGED <<store, published, queue>> /\ c.pc = "concat" /\ c \in Calls
  BY <1>1 DEF Concat, dispatcher, IInv, TypeOK
<1>3. h \in Handle /\ object[h].stream \in Stream /\ Len(LogOf(h)) \in Nat
  <2>1. h \in Handle /\ object[h].stream \in Stream
    BY <1>1, <1>2, RejectedType DEF AloneInv, CallsAlive, Objects
  <2>. QED
    BY <2>1, LenProperties DEF LogOf, IInv, TypeOK
<1>4. object'[h].events = object[h].events \cup {<<r.event, r.rev>> : r \in Elements(new)}
  <2>1. PICK recs : recs = {<<r.event, r.rev>> : r \in Elements(new)}
    OBVIOUS
  <2>2. object' = [object EXCEPT ![h].events = @ \cup recs, ![h].rejected = FALSE]
    BY <1>1, <2>1 DEF Concat
  <2>. QED
    BY <1>3, <2>1, <2>2 DEF IInv, TypeOK, Objects
<1>5. /\ Len(c.batch) \in Nat /\ c.base \in Int
      /\ DOMAIN new = 1 .. Len(c.batch)
      /\ \A k \in 1 .. Len(c.batch) : new[k].rev = c.base + k
  BY <1>1, <1>2, RevisedType DEF Revised, Calls
<1>6. /\ c.base >= -1 /\ Knows(object[h].events, c.base + 1)
      /\ c.base + 1 + Len(c.batch) = Len(LogOf(h))
  BY <1>1, <1>2 DEF OrderInv, CallsCurrent, CallCurrent, InProgress
<1>7. Knows(object'[h].events, Len(LogOf(h)))
  <2>1. ASSUME NEW e \in object'[h].events PROVE e[2] < Len(LogOf(h))
    <3>1. CASE e \in object[h].events
      <4>1. e[2] < c.base + 1 /\ e[2] \in Int
        BY <1>3, <1>6, <3>1 DEF Knows, IInv, TypeOK, Objects
      <4>. QED
        BY <1>3, <1>5, <1>6, <4>1
    <3>2. CASE e \in {<<r.event, r.rev>> : r \in Elements(new)}
      <4>1. PICK k \in 1 .. Len(c.batch) : e = <<new[k].event, new[k].rev>>
        BY <1>5, <3>2 DEF Elements
      <4>. QED
        BY <1>3, <1>5, <1>6, <4>1
    <3>. QED
      BY <1>4, <3>1, <3>2
  <2>2. ASSUME Len(LogOf(h)) > 0 PROVE \E e \in object'[h].events : e[2] = Len(LogOf(h)) - 1
    <3>1. CASE Len(c.batch) = 0
      <4>1. \E e \in object[h].events : e[2] = Len(LogOf(h)) - 1
        BY <1>3, <1>5, <1>6, <2>2, <3>1 DEF Knows
      <4>. QED
        BY <1>4, <4>1
    <3>2. CASE Len(c.batch) > 0
      <4>1. PICK k, e : k = Len(c.batch) /\ e = <<new[k].event, new[k].rev>>
        OBVIOUS
      <4>20. k \in 1 .. Len(c.batch)
        BY <1>5, <3>2, <4>1
      <4>21. k \in DOMAIN new /\ new[k].rev = c.base + k
        BY <1>5, <4>20
      <4>22. c.base + k = Len(LogOf(h)) - 1
        <5>1. PICK n : n = Len(LogOf(h))
          OBVIOUS
        <5>2. n \in Nat /\ c.base \in Int /\ k \in Nat /\ c.base + 1 + k = n
          BY <1>3, <1>5, <1>6, <4>1, <5>1
        <5>. QED
          BY <5>1, <5>2
      <4>2. k \in DOMAIN new /\ new[k].rev = Len(LogOf(h)) - 1
        BY <4>21, <4>22
      <4>3. e \in object'[h].events
        BY <1>4, <4>1, <4>2 DEF Elements
      <4>. QED
        BY <4>1, <4>2, <4>3
    <3>. QED
      BY <1>5, <3>1, <3>2
  <2>. QED
    BY <2>1, <2>2 DEF Knows
<1>8. FreeObjectsCurrent' /\ CallsCurrent'
  BY <1>1, <1>2, <1>7, FreeAfterEnd
<1>9. Line' = Line
  BY <1>2 DEF Line
<1>10. \A j \in Call : call[j].pc # "free" => call[j].by \in Handle
  BY DEF IInv, CallsOK, CallOK
<1>. QED
  BY <1>2, <1>8, <1>9, <1>10, EndEffect, QuietOrder

LEMMA StoredType ==
  ASSUME IInv, NEW s \in Stream
  PROVE  /\ store[s] \in Seq(Records) /\ Len(store[s]) \in Nat
         /\ DOMAIN store[s] = 1 .. Len(store[s])
         /\ Stored(s) \subseteq Records
<1>1. store[s] \in Seq(Records)
  BY DEF IInv, TypeOK
<1>. QED
  BY <1>1, LenProperties, ElementOfSeq DEF Stored, Elements

LEMMA StoredApart ==
  ASSUME IInv, NEW s \in Stream, NEW t \in Stream, NEW r, r \in Stored(s), r \in Stored(t)
  PROVE  s = t
BY DEF IInv, PositionsAreUnique, Stored, Elements

\* The store's new events are not on the line to the publisher yet.
LEMMA NewNotOnLine ==
  ASSUME IInv, OnceInv, NEW i \in Call, call[i].pc = "add",
         NEW r \in Elements(Line)
  PROVE  r \notin Elements(Revised(call[i]))
<1>1. PICK s \in Stream : r \in Stored(s)
  BY DEF OnceInv, LineStored, AllStored
<1>2. PICK k \in DOMAIN store[s] : r = store[s][k]
  BY <1>1 DEF Stored, Elements
<1>3. \/ r.pos <= call[i].first
      \/ r.pos > call[i].first + Len(call[i].batch)
  BY <1>2 DEF IInv, ClaimsUnstored
<1>4. r.pos \in 1 .. position /\ position \in Nat
  BY <1>2 DEF IInv, StoreOK, TypeOK
<1>5. call[i].first \in Nat /\ Len(call[i].batch) \in Nat
  BY ClaimedPositions DEF IInv, TypeOK
<1>6. r.pos \notin Claimed(call[i])
  BY <1>3, <1>4, <1>5 DEF Claimed
<1>. QED
  BY <1>6, ClaimedPositions DEF IInv, TypeOK

\* The stream of a commit after its events were stored, record by record.
LEMMA LogGrows ==
  ASSUME IInv, NEW t \in Stream, NEW c \in Calls, NEW both, both = store[t] \o Revised(c)
  PROVE  /\ DOMAIN both = 1 .. (Len(store[t]) + Len(c.batch))
         /\ Len(both) = Len(store[t]) + Len(c.batch)
         /\ \A k \in 1 .. Len(store[t]) : both[k] = store[t][k]
         /\ \A k \in (Len(store[t]) + 1) .. (Len(store[t]) + Len(c.batch)) :
              /\ both[k].rev = c.base + (k - Len(store[t]))
              /\ both[k].pos = c.first + (k - Len(store[t]))
<1>1. PICK log, new : log = store[t] /\ new = Revised(c)
  OBVIOUS
<1>2. /\ log \in Seq(Records) /\ new \in Seq(Records) /\ Len(new) = Len(c.batch)
      /\ Len(log) \in Nat /\ Len(c.batch) \in Nat
      /\ \A k \in 1 .. Len(c.batch) : new[k].pos = c.first + k
  BY <1>1, RevisedType, StoredType
<1>3. \A k \in 1 .. Len(c.batch) : new[k].rev = c.base + k
  BY <1>1, RevisedType DEF Revised
<1>4. both = log \o new
  BY <1>1
<1>5. /\ log \o new \in Seq(Records) /\ Len(log \o new) = Len(log) + Len(new)
      /\ \A k \in 1 .. Len(log) + Len(new) :
           (log \o new)[k] = IF k <= Len(log) THEN log[k] ELSE new[k - Len(log)]
  BY <1>2, ConcatProperties
<1>6. /\ both \in Seq(Records) /\ Len(both) = Len(log) + Len(c.batch)
      /\ \A k \in 1 .. Len(log) + Len(c.batch) :
           both[k] = IF k <= Len(log) THEN log[k] ELSE new[k - Len(log)]
  BY <1>2, <1>4, <1>5
<1>7. DOMAIN both = 1 .. (Len(log) + Len(c.batch))
  BY <1>6, LenProperties
<1>8. ASSUME NEW k \in (Len(log) + 1) .. (Len(log) + Len(c.batch))
      PROVE  /\ both[k].rev = c.base + (k - Len(log))
             /\ both[k].pos = c.first + (k - Len(log))
  <2>1. k - Len(log) \in 1 .. Len(c.batch) /\ k \in 1 .. Len(log) + Len(c.batch) /\ ~(k <= Len(log))
    BY <1>2
  <2>. QED
    BY <1>2, <1>3, <1>6, <2>1
<1>9. ASSUME NEW k \in 1 .. Len(log) PROVE both[k] = log[k]
  BY <1>2, <1>6
<1>. QED
  BY <1>1, <1>6, <1>7, <1>8, <1>9

\* A log of l records, extended by n that go on counting.
Extends(both, log, l, n, first) ==
  /\ l \in Nat /\ n \in Nat /\ first \in Nat
  /\ DOMAIN log = 1 .. l /\ DOMAIN both = 1 .. (l + n)
  /\ \A k \in 1 .. l : both[k] = log[k]
  /\ \A k \in (l + 1) .. (l + n) :
       both[k].rev = l - 1 + (k - l) /\ both[k].pos = first + (k - l)
  /\ \A k \in 1 .. l : log[k].rev = k - 1 /\ log[k].pos \in Nat /\ log[k].pos <= first
  /\ \A k, m \in 1 .. l : k < m => log[k].pos < log[m].pos

LEMMA Extended ==
  ASSUME NEW log, NEW both, NEW l, NEW n, NEW first, Extends(both, log, l, n, first)
  PROVE  /\ \A k \in DOMAIN both : both[k].rev = k - 1
         /\ \A k, m \in DOMAIN both : k < m => both[k].pos < both[m].pos
<1>. USE DEF Extends
<1>1. \A k \in DOMAIN both : k \in 1 .. l \/ k \in (l + 1) .. (l + n)
  OBVIOUS
<1>2. ASSUME NEW k \in DOMAIN both PROVE both[k].rev = k - 1
  BY <1>1
<1>3. ASSUME NEW k \in DOMAIN both, NEW m \in DOMAIN both, k < m
      PROVE  both[k].pos < both[m].pos
  <2>1. CASE k \in 1 .. l /\ m \in 1 .. l
    BY <1>3, <2>1
  <2>2. CASE k \in 1 .. l /\ m \in (l + 1) .. (l + n)
    <3>1. both[k].pos \in Nat /\ both[k].pos <= first
      BY <2>2
    <3>2. both[m].pos = first + (m - l) /\ m - l \in Nat /\ m - l > 0
      BY <2>2
    <3>. QED
      BY <3>1, <3>2
  <2>3. CASE k \in (l + 1) .. (l + n) /\ m \in (l + 1) .. (l + n)
    <3>1. both[k].pos = first + (k - l) /\ both[m].pos = first + (m - l)
      BY <2>3
    <3>. QED
      BY <1>3, <2>3, <3>1
  <2>. QED
    BY <1>1, <1>3, <2>1, <2>2, <2>3
<1>. QED
  BY <1>2, <1>3

\* What the insertion does to the stored streams.
LEMMA InsertOrder ==
  ASSUME IInv, OnceInv, AloneInv, OrderInv, UNCHANGED <<published, queue>>,
         NEW i \in Call, call[i].pc = "add", Insert(call[i])
  PROVE  /\ RevisionIsIndex' /\ PositionsFollowRevisions' /\ LineOrdered'
         /\ \A s \in Stream : Elements(Line) \cap Stored(s)' = Elements(Line) \cap Stored(s)
<1>1. PICK t, c : t = object[call[i].by].stream /\ c = call[i]
  OBVIOUS
<1>2. /\ t \in Stream /\ c \in Calls /\ c.base \in Int /\ c.first \in Nat
      /\ Len(store[t]) \in Nat /\ Len(c.batch) \in Nat
  BY <1>1, StoreGrows, StoredType, RevisedType DEF AloneInv, IInv, TypeOK, Calls
<1>3. /\ \A s \in Stream : s # t => store'[s] = store[s]
      /\ store'[t] = store[t] \o Revised(c)
  BY <1>1, StoreGrows DEF AloneInv
<1>4. /\ DOMAIN store'[t] = 1 .. (Len(store[t]) + Len(c.batch))
      /\ \A k \in 1 .. Len(store[t]) : store'[t][k] = store[t][k]
      /\ \A k \in (Len(store[t]) + 1) .. (Len(store[t]) + Len(c.batch)) :
           /\ store'[t][k].rev = c.base + (k - Len(store[t]))
           /\ store'[t][k].pos = c.first + (k - Len(store[t]))
  BY <1>2, <1>3, LogGrows
<1>5. /\ c.base = Len(store[t]) - 1
      /\ \A k \in 1 .. Len(store[t]) : store[t][k].pos <= c.first
  <2>1. c.base + 1 = Len(store[t])
    BY <1>1 DEF OrderInv, CallsCurrent, CallCurrent, InProgress, LogOf
  <2>2. \A k \in DOMAIN store[t] : store[t][k].pos <= c.first
    BY <1>1 DEF OrderInv, CallsCurrent, CallCurrent, InProgress, LogOf
  <2>. QED
    BY <1>2, <2>1, <2>2, StoredType
<1>6. DOMAIN store[t] = 1 .. Len(store[t])
  BY <1>2, StoredType
<1>7. /\ \A k \in 1 .. Len(store[t]) : store[t][k].rev = k - 1 /\ store[t][k].pos \in Nat
      /\ \A k, m \in 1 .. Len(store[t]) : k < m => store[t][k].pos < store[t][m].pos
  <2>1. ASSUME NEW k \in 1 .. Len(store[t]) PROVE store[t][k].pos \in Nat
    <3>1. store[t][k] \in Records
      BY <1>2, StoredType, ElementOfSeq
    <3>. QED
      BY <3>1 DEF Records
  <2>. QED
    BY <1>2, <1>6, <2>1 DEF OrderInv, RevisionIsIndex, PositionsFollowRevisions
<1>8. RevisionIsIndex' /\ PositionsFollowRevisions'
  <2>1. PICK log, both, l, n : log = store[t] /\ both = store'[t] /\ l = Len(store[t]) /\ n = Len(c.batch)
    OBVIOUS
  <2>2. Extends(both, log, l, n, c.first)
    BY <1>2, <1>4, <1>5, <1>6, <1>7, <2>1 DEF Extends
  <2>3. /\ \A k \in DOMAIN both : both[k].rev = k - 1
        /\ \A k, m \in DOMAIN both : k < m => both[k].pos < both[m].pos
    BY <2>2, Extended
  <2>4. /\ \A k \in DOMAIN store'[t] : store'[t][k].rev = k - 1
        /\ \A k, m \in DOMAIN store'[t] : k < m => store'[t][k].pos < store'[t][m].pos
    BY <2>1, <2>3
  <2>. QED
    BY <1>3, <2>4 DEF OrderInv, RevisionIsIndex, PositionsFollowRevisions
<1>9. ASSUME NEW s \in Stream PROVE Elements(Line) \cap Stored(s)' = Elements(Line) \cap Stored(s)
  <2>1. Stored(s)' \in {Stored(s), Stored(s) \cup Elements(Revised(c))}
    BY <1>1, StoreGrows DEF AloneInv
  <2>2. \A r \in Elements(Line) : r \notin Elements(Revised(c))
    BY <1>1, NewNotOnLine
  <2>. QED
    BY <2>1, <2>2
<1>10. LineOrdered'
  <2>1. Line' = Line
    BY DEF Line
  <2>2. \A k \in DOMAIN Line : Line[k] \in Elements(Line)
    BY DEF Elements
  <2>. QED
    BY <1>9, <2>1, <2>2 DEF OrderInv, LineOrdered
<1>. QED
  BY <1>8, <1>9, <1>10

\* Added stores the events of a commit.
LEMMA AddedOrder ==
  ASSUME IInv, OnceInv, AloneInv, OrderInv, NEW i \in Call, Added(i)
  PROVE  OrderInv'
<1>1. PICK t, c, h : t = object[call[i].by].stream /\ c = call[i] /\ h = call[i].by
  OBVIOUS
<1>2. /\ UNCHANGED <<object, published, queue>>
      /\ c.pc = "add" /\ Insert(c) /\ c \in Calls /\ c.base \in Int
      /\ call'[i].pc = "publish" /\ Revised(call'[i]) = Revised(c)
      /\ call'[i].base = c.base /\ call'[i].by = h /\ call'[i].batch = c.batch
      /\ \A j \in Call : j # i => call'[j] = call[j]
  BY <1>1 DEF Added, dispatcher, history, IInv, TypeOK, Calls, Revised
<1>3. /\ RevisionIsIndex' /\ PositionsFollowRevisions' /\ LineOrdered'
      /\ \A s \in Stream : Elements(Line) \cap Stored(s)' = Elements(Line) \cap Stored(s)
  BY <1>1, <1>2, InsertOrder
<1>4. /\ t \in Stream /\ h \in Handle
      /\ \A s \in Stream : s # t => store'[s] = store[s]
      /\ store'[t] = store[t] \o Revised(c)
      /\ Stored(t)' = Stored(t) \cup Elements(Revised(c))
  BY <1>1, <1>2, StoreGrows, RejectedType DEF AloneInv
<1>5. Len(store'[t]) = Len(store[t]) + Len(c.batch) /\ Len(store[t]) \in Nat /\ Len(c.batch) \in Nat
  BY <1>2, <1>4, LogGrows, StoredType, RevisedType
<1>6. /\ c.base >= -1 /\ Knows(object[h].events, c.base + 1)
      /\ c.base + 1 = Len(store[t])
  BY <1>1, <1>2 DEF OrderInv, CallsCurrent, CallCurrent, InProgress, LogOf
<1>7. \A j \in Call : call[j].pc # "free" => call[j].by \in Handle /\ object[call[j].by].stream \in Stream
  BY RejectedType DEF AloneInv, CallsAlive, Objects
<1>8. \A g \in Handle : g # h /\ object[g].stream # None => object[g].stream # t /\ object[g].stream \in Stream
  BY <1>1, <1>4 DEF AloneInv, OneObject, IInv, TypeOK, Objects
<1>9. \A j \in Call : j # i /\ call[j].pc # "free" => call[j].by # h
  BY <1>1, <1>2 DEF AloneInv, OneCall, InProgress
<1>10. CallsCurrent'
  <2>. SUFFICES ASSUME NEW j \in Call, call'[j].pc # "free"
                PROVE  CallCurrent(call'[j], object[call'[j].by].events,
                                   store'[object[call'[j].by].stream])
    BY <1>2 DEF CallsCurrent, InProgress, LogOf
  <2>1. CASE j # i
    <3>1. /\ call'[j] = call[j] /\ call[j].by \in Handle /\ call[j].by # h
          /\ object[call[j].by].stream # None
      BY <1>2, <1>7, <1>9, <2>1 DEF AloneInv, CallsAlive
    <3>2. store'[object[call[j].by].stream] = store[object[call[j].by].stream]
      BY <1>4, <1>8, <3>1
    <3>. QED
      BY <3>1, <3>2 DEF OrderInv, CallsCurrent, InProgress, LogOf
  <2>2. CASE j = i
    <3>1. c.base + 1 + Len(c.batch) = Len(store'[t])
      BY <1>2, <1>5, <1>6
    <3>. QED
      BY <1>1, <1>2, <1>6, <2>2, <3>1 DEF CallCurrent
  <2>. QED
    BY <2>1, <2>2
<1>11. FreeObjectsCurrent'
  <2>. SUFFICES ASSUME NEW g \in Handle, object[g].stream # None, object[g].rejected => Retries,
                       \A j \in Call : call'[j].pc # "free" => call'[j].by # g
                PROVE  Knows(object[g].events, Len(store'[object[g].stream]))
    BY <1>2 DEF FreeObjectsCurrent, Idle, InProgress, LogOf
  <2>1. g # h /\ Idle(g)
    BY <1>1, <1>2 DEF Idle, InProgress
  <2>2. store'[object[g].stream] = store[object[g].stream]
    BY <1>4, <1>8, <2>1
  <2>. QED
    BY <2>1, <2>2 DEF OrderInv, FreeObjectsCurrent, LogOf
<1>12. BatchesNext'
  <2>0. Line' = Line /\ object' = object
    BY <1>2 DEF Line
  <2>. SUFFICES ASSUME NEW j \in Call, call'[j].pc = "publish"
                PROVE  LET log == store'[object'[call'[j].by].stream]
                       IN  /\ Elements(Revised(call'[j])) \subseteq Elements(log)
                           /\ \A r \in Elements(Line) \cap Elements(log) : r.rev <= call'[j].base
    BY <2>0 DEF BatchesNext, Revised, Elements, Stored
  <2>. PICK s : s = object'[call'[j].by].stream
    OBVIOUS
  <2>. SUFFICES /\ Elements(Revised(call'[j])) \subseteq Stored(s)'
                /\ \A r \in Elements(Line) \cap Stored(s)' : r.rev <= call'[j].base
    BY DEF Stored, Elements
  <2>1. CASE j # i
    <3>1. /\ call'[j] = call[j] /\ call[j].by \in Handle /\ call[j].by # h
          /\ s \in Stream /\ s # None /\ s = object[call[j].by].stream
      BY <1>2, <1>7, <1>9, <2>1 DEF AloneInv, CallsAlive
    <3>2. Stored(s)' = Stored(s)
      BY <1>4, <1>8, <3>1 DEF Stored, Elements
    <3>. QED
      BY <3>1, <3>2 DEF OrderInv, BatchesNext
  <2>2. CASE j = i
    <3>1. s = t /\ Elements(Revised(call'[j])) \subseteq Stored(t)'
      BY <1>1, <1>2, <1>4, <2>2
    <3>2. ASSUME NEW r \in Elements(Line) \cap Stored(t)' PROVE r.rev <= c.base
      <4>1. PICK k \in DOMAIN store[t] : r = store[t][k]
        BY <1>3, <1>4, <3>2 DEF Stored, Elements
      <4>2. r.rev = k - 1 /\ k \in 1 .. Len(store[t])
        BY <1>4, <4>1, StoredType DEF OrderInv, RevisionIsIndex
      <4>. QED
        BY <1>2, <1>5, <1>6, <4>2
    <3>. QED
      BY <1>2, <2>2, <3>1, <3>2
  <2>. QED
    BY <2>1, <2>2
<1>. QED
  BY <1>3, <1>10, <1>11, <1>12 DEF OrderInv

\* addEvents stored the events and rejects nevertheless.
LEMMA StoredRejectedOrder ==
  ASSUME IInv, OnceInv, AloneInv, OrderInv, ~Retries,
         NEW i \in Call, NotAdded(i), Insert(call[i])
  PROVE  OrderInv'
<1>1. PICK t, c, h : t = object[call[i].by].stream /\ c = call[i] /\ h = call[i].by
  OBVIOUS
<1>2. /\ UNCHANGED <<published, queue>> /\ c.pc = "add" /\ Insert(c) /\ c \in Calls
      /\ call'[i].pc = "free"
      /\ \A j \in Call : j # i => call'[j] = call[j]
      /\ \A g \in Handle : object'[g].stream = object[g].stream
      /\ \A g \in Handle : g # h => object'[g] = object[g]
  BY <1>1, EndEffect DEF NotAdded, dispatcher, history, IInv, TypeOK
<1>3. /\ RevisionIsIndex' /\ PositionsFollowRevisions' /\ LineOrdered'
      /\ \A s \in Stream : Elements(Line) \cap Stored(s)' = Elements(Line) \cap Stored(s)
  BY <1>1, <1>2, InsertOrder
<1>4. /\ t \in Stream /\ h \in Handle
      /\ \A s \in Stream : s # t => store'[s] = store[s]
  BY <1>1, <1>2, StoreGrows, RejectedType DEF AloneInv
<1>5. object'[h].rejected
  BY <1>1, <1>4 DEF NotAdded, IInv, TypeOK, Objects
<1>6. \A g \in Handle : g # h /\ object[g].stream # None => object[g].stream # t /\ object[g].stream \in Stream
  BY <1>1, <1>4 DEF AloneInv, OneObject, IInv, TypeOK, Objects
<1>7. \A j \in Call : call'[j].pc # "free" =>
        /\ call'[j] = call[j] /\ call[j].by \in Handle /\ call[j].by # h
        /\ object'[call[j].by] = object[call[j].by] /\ object[call[j].by].stream # None
  BY <1>1, <1>2, RejectedType DEF AloneInv, OneCall, InProgress, CallsAlive
<1>8. CallsCurrent'
  <2>. SUFFICES ASSUME NEW j \in Call, call'[j].pc # "free"
                PROVE  CallCurrent(call'[j], object'[call'[j].by].events,
                                   store'[object'[call'[j].by].stream])
    BY DEF CallsCurrent, InProgress, LogOf
  <2>. QED
    BY <1>4, <1>6, <1>7 DEF OrderInv, CallsCurrent, InProgress, LogOf
<1>9. FreeObjectsCurrent'
  <2>. SUFFICES ASSUME NEW g \in Handle, object'[g].stream # None, object'[g].rejected => Retries,
                       \A j \in Call : call'[j].pc # "free" => call'[j].by # g
                PROVE  Knows(object'[g].events, Len(store'[object'[g].stream]))
    BY DEF FreeObjectsCurrent, Idle, InProgress, LogOf
  <2>1. g # h /\ Idle(g)
    BY <1>1, <1>2, <1>5 DEF Idle, InProgress
  <2>. QED
    BY <1>2, <1>4, <1>6, <2>1 DEF OrderInv, FreeObjectsCurrent, LogOf
<1>10. BatchesNext'
  <2>0. Line' = Line
    BY <1>2 DEF Line
  <2>. SUFFICES ASSUME NEW j \in Call, call'[j].pc = "publish"
                PROVE  LET log == store'[object'[call'[j].by].stream]
                       IN  /\ Elements(Revised(call'[j])) \subseteq Elements(log)
                           /\ \A r \in Elements(Line) \cap Elements(log) : r.rev <= call'[j].base
    BY <2>0 DEF BatchesNext, Revised, Elements, Stored
  <2>1. /\ call'[j] = call[j] /\ store'[object'[call'[j].by].stream] = store[object[call[j].by].stream]
    BY <1>4, <1>6, <1>7
  <2>. QED
    BY <2>1 DEF OrderInv, BatchesNext, Stored
<1>. QED
  BY <1>3, <1>8, <1>9, <1>10 DEF OrderInv

\* What the batch adds to the line to the publisher: records of stream t with
\* revisions after those of t that are on the line.
Continues(both, line, new, l, n, base) ==
  /\ l \in Nat /\ n \in Nat /\ base \in Int
  /\ DOMAIN line = 1 .. l /\ DOMAIN both = 1 .. (l + n)
  /\ \A k \in 1 .. l : both[k] = line[k]
  /\ \A k \in (l + 1) .. (l + n) : k - l \in 1 .. n /\ both[k] = new[k - l]
  /\ \A k \in 1 .. n : new[k].rev = base + k

LEMMA LineContinues ==
  ASSUME IInv, NEW c \in Calls, NEW both, both = Line \o Revised(c)
  PROVE  Continues(both, Line, Revised(c), Len(Line), Len(c.batch), c.base)
<1>1. PICK line, new : line = Line /\ new = Revised(c)
  OBVIOUS
<1>2. /\ line \in Seq(Records) /\ new \in Seq(Records) /\ Len(new) = Len(c.batch)
      /\ Len(line) \in Nat /\ Len(c.batch) \in Nat /\ c.base \in Int
      /\ DOMAIN line = 1 .. Len(line)
  BY <1>1, RevisedType, LineType, LenProperties DEF Calls
<1>3. \A k \in 1 .. Len(c.batch) : new[k].rev = c.base + k
  BY <1>1, RevisedType DEF Revised
<1>4. both = line \o new
  BY <1>1
<1>5. /\ line \o new \in Seq(Records) /\ Len(line \o new) = Len(line) + Len(new)
      /\ \A k \in 1 .. Len(line) + Len(new) :
           (line \o new)[k] = IF k <= Len(line) THEN line[k] ELSE new[k - Len(line)]
  BY <1>2, ConcatProperties
<1>6. /\ both \in Seq(Records) /\ Len(both) = Len(line) + Len(c.batch)
      /\ \A k \in 1 .. Len(line) + Len(c.batch) :
           both[k] = IF k <= Len(line) THEN line[k] ELSE new[k - Len(line)]
  BY <1>2, <1>4, <1>5
<1>7. DOMAIN both = 1 .. (Len(line) + Len(c.batch))
  BY <1>6, LenProperties
<1>8. ASSUME NEW k \in (Len(line) + 1) .. (Len(line) + Len(c.batch))
      PROVE  k - Len(line) \in 1 .. Len(c.batch) /\ both[k] = new[k - Len(line)]
  <2>1. k - Len(line) \in 1 .. Len(c.batch) /\ k \in 1 .. Len(line) + Len(c.batch) /\ ~(k <= Len(line))
    BY <1>2
  <2>. QED
    BY <1>6, <2>1
<1>9. ASSUME NEW k \in 1 .. Len(line) PROVE both[k] = line[k]
  BY <1>2, <1>6
<1>10. Continues(both, line, new, Len(line), Len(c.batch), c.base)
  BY <1>2, <1>3, <1>7, <1>8, <1>9 DEF Continues
<1>. QED
  BY <1>1, <1>10

LEMMA LineStaysOrdered ==
  ASSUME NEW both, NEW line, NEW new, NEW l, NEW n, NEW base, NEW T, NEW S,
         Continues(both, line, new, l, n, base),
         \A k \in 1 .. n : new[k] \in T,
         \A k \in 1 .. l : line[k] \in T => line[k].rev \in Int /\ line[k].rev <= base,
         S = T \/ S \cap T = {},
         \A k, m \in 1 .. l : (k < m /\ line[k] \in S /\ line[m] \in S) => line[k].rev < line[m].rev,
         NEW k \in DOMAIN both, NEW m \in DOMAIN both, k < m, both[k] \in S, both[m] \in S
  PROVE  both[k].rev < both[m].rev
<1>. USE DEF Continues
<1>0. \A q \in DOMAIN both : q \in 1 .. l \/ q \in (l + 1) .. (l + n)
  OBVIOUS
<1>1. CASE k \in 1 .. l /\ m \in 1 .. l
  BY <1>1
<1>2. CASE k \in 1 .. l /\ m \in (l + 1) .. (l + n)
  <2>1. both[m] = new[m - l] /\ m - l \in 1 .. n /\ new[m - l] \in T
    BY <1>2
  <2>2. S = T
    BY <2>1
  <2>3. both[m].rev = base + (m - l)
    BY <2>1
  <2>4. both[k].rev \in Int /\ both[k].rev <= base
    BY <1>2, <2>2
  <2>. QED
    BY <2>1, <2>3, <2>4
<1>3. CASE k \in (l + 1) .. (l + n) /\ m \in (l + 1) .. (l + n)
  <2>1. both[k].rev = base + (k - l) /\ both[m].rev = base + (m - l)
    BY <1>3
  <2>. QED
    BY <1>3, <2>1
<1>. QED
  BY <1>0, <1>1, <1>2, <1>3

\* The events of a commit reach the line.
LEMMA LineOrder ==
  ASSUME IInv, AloneInv, OrderInv, UNCHANGED store,
         NEW i \in Call, call[i].pc = "publish",
         Line' = Line \o Revised(call[i]),
         \A j \in Call : call'[j].pc = "publish" => j # i /\ call'[j] = call[j],
         \A g \in Handle : object'[g].stream = object[g].stream
  PROVE  RevisionIsIndex' /\ PositionsFollowRevisions' /\ LineOrdered' /\ BatchesNext'
<1>1. PICK c, t, new : c = call[i] /\ t = object[call[i].by].stream /\ new = Revised(call[i])
  OBVIOUS
<1>2. /\ c \in Calls /\ t \in Stream /\ Line' = Line \o new
      /\ \A j \in Call : call[j].pc # "free" =>
           call[j].by \in Handle /\ object[call[j].by].stream \in Stream
  BY <1>1, RejectedType DEF AloneInv, CallsAlive, Objects, IInv, TypeOK
<1>3. /\ Elements(new) \subseteq Stored(t)
      /\ \A r \in Elements(Line) \cap Stored(t) : r.rev <= c.base
  BY <1>1 DEF OrderInv, BatchesNext
<1>4. RevisionIsIndex' /\ PositionsFollowRevisions'
  BY DEF OrderInv, RevisionIsIndex, PositionsFollowRevisions
<1>5. \A s : Stored(s)' = Stored(s)
  BY DEF Stored, Elements
<1>6. Continues(Line', Line, new, Len(Line), Len(c.batch), c.base)
  BY <1>1, <1>2, LineContinues
<1>7. LineOrdered'
  <2>. SUFFICES ASSUME NEW s \in Stream, NEW k \in DOMAIN Line', NEW m \in DOMAIN Line', k < m,
                       Line'[k] \in Stored(s), Line'[m] \in Stored(s)
                PROVE  Line'[k].rev < Line'[m].rev
    BY <1>5 DEF LineOrdered
  <2>1. PICK line, both, l, n, S, T :
          /\ line = Line /\ both = Line' /\ l = Len(Line) /\ n = Len(c.batch)
          /\ S = Stored(s) /\ T = Stored(t)
    OBVIOUS
  <2>2. Continues(both, line, new, l, n, c.base)
    BY <1>6, <2>1
  <2>3. DOMAIN line = 1 .. l /\ DOMAIN new = 1 .. n
    BY <1>1, <1>2, <2>1, <2>2, RevisedType DEF Continues
  <2>4. \A q \in 1 .. n : new[q] \in T
    BY <1>3, <2>1, <2>3 DEF Elements
  <2>5. \A q \in 1 .. l : line[q] \in T => line[q].rev \in Int /\ line[q].rev <= c.base
    <3>. SUFFICES ASSUME NEW q \in 1 .. l, line[q] \in T
                  PROVE  line[q].rev \in Int /\ line[q].rev <= c.base
      OBVIOUS
    <3>1. line[q] \in Records
      BY <1>2, <2>1, StoredType
    <3>2. line[q] \in Elements(Line) \cap Stored(t)
      BY <2>1, <2>3 DEF Elements
    <3>. QED
      BY <1>3, <3>1, <3>2 DEF Records
  <2>6. S = T \/ S \cap T = {}
    BY <1>2, <2>1, StoredApart
  <2>7. \A q, p \in 1 .. l : (q < p /\ line[q] \in S /\ line[p] \in S) => line[q].rev < line[p].rev
    BY <2>1, <2>3 DEF OrderInv, LineOrdered
  <2>8. both[k].rev < both[m].rev
    BY <2>1, <2>2, <2>4, <2>5, <2>6, <2>7, LineStaysOrdered
  <2>. QED
    BY <2>1, <2>8
<1>8. BatchesNext'
  <2>. SUFFICES ASSUME NEW j \in Call, call'[j].pc = "publish"
                PROVE  LET log == store'[object'[call'[j].by].stream]
                       IN  /\ Elements(Revised(call'[j])) \subseteq Elements(log)
                           /\ \A r \in Elements(Line') \cap Elements(log) : r.rev <= call'[j].base
    BY DEF BatchesNext, Revised, Elements, Stored
  <2>1. j # i /\ call'[j] = call[j] /\ call[j].pc = "publish" /\ call[j].by \in Handle
    BY <1>2
  <2>2. PICK s : s = object[call[j].by].stream
    OBVIOUS
  <2>3. s \in Stream /\ s # t /\ store'[object'[call'[j].by].stream] = store[s]
    BY <1>1, <1>2, <2>1, <2>2 DEF AloneInv, OneCall, OneObject, InProgress, CallsAlive
  <2>4. Elements(Line') = Elements(Line) \cup Elements(new)
    BY <1>1, <1>2, AllElements, LineType, RevisedType
  <2>5. Elements(Line') \cap Stored(s) = Elements(Line) \cap Stored(s)
    BY <1>2, <1>3, <2>3, <2>4, StoredApart
  <2>. QED
    BY <2>1, <2>2, <2>3, <2>5 DEF OrderInv, BatchesNext, Stored
<1>. QED
  BY <1>4, <1>7, <1>8

LEMMA PublishOrder ==
  ASSUME IInv, AloneInv, OrderInv, NEW i \in Call, Publish(i)
  PROVE  OrderInv'
<1>1. /\ UNCHANGED store /\ call[i].pc = "publish" /\ call'[i].pc = "concat"
  BY DEF Publish, IInv, TypeOK, Calls
<1>2. FreeObjectsCurrent' /\ CallsCurrent'
  BY <1>1, FreeWhileAdvancing, CallsWhileAdvancing
<1>3. Line' = Line \o Revised(call[i])
  BY PublishLine
<1>. QED
  BY <1>1, <1>2, <1>3, AdvanceEffect, LineOrder DEF OrderInv

LEMMA PublishThrowsOrder ==
  ASSUME IInv, AloneInv, OrderInv, ~Retries, NEW i \in Call, PublishThrows(i)
  PROVE  OrderInv'
<1>1. UNCHANGED store /\ call[i].pc = "publish" /\ call[i].by \in Handle
  BY EndEffect, RejectedType DEF PublishThrows
<1>2. object'[call[i].by].rejected
  BY <1>1 DEF PublishThrows, IInv, TypeOK, Objects
<1>3. FreeObjectsCurrent' /\ CallsCurrent'
  BY <1>1, <1>2, FreeAfterEnd
<1>4. Line' = Line \o Revised(call[i])
  BY PublishThrowsLine
<1>. QED
  BY <1>1, <1>3, <1>4, EndEffect, LineOrder DEF OrderInv

LEMMA RestartOrder ==
  ASSUME IInv, OrderInv, Restart
  PROVE  OrderInv'
<1>1. /\ UNCHANGED store
      /\ \A h \in Handle : object'[h].stream = None
      /\ \A j \in Call : call'[j].pc = "free"
      /\ published' = <<>> /\ queue' = <<>>
  BY NoCallType DEF Restart, StartQueue, Unused
<1>2. Line' = <<>>
  BY <1>1, EmptySeq, ConcatEmptySeq DEF Line
<1>3. LineOrdered'
  BY <1>2 DEF LineOrdered
<1>4. RevisionIsIndex' /\ PositionsFollowRevisions'
  BY <1>1 DEF OrderInv, RevisionIsIndex, PositionsFollowRevisions
<1>5. FreeObjectsCurrent' /\ CallsCurrent' /\ BatchesNext'
  BY <1>1 DEF FreeObjectsCurrent, CallsCurrent, BatchesNext, InProgress
<1>. QED
  BY <1>3, <1>4, <1>5 DEF OrderInv

LEMMA OrderInit == Init => OrderInv
<1>. SUFFICES ASSUME Init PROVE OrderInv
  OBVIOUS
<1>1. /\ \A s \in Stream : store[s] = <<>>
      /\ \A h \in Handle : object[h].stream = None
      /\ \A j \in Call : call[j].pc = "free"
      /\ published = <<>> /\ queue = <<>>
  BY NoCallType DEF Init, StartQueue, Unused
<1>2. Line = <<>>
  BY <1>1, EmptySeq, ConcatEmptySeq DEF Line
<1>. QED
  BY <1>1, <1>2 DEF OrderInv, LineOrdered, RevisionIsIndex, PositionsFollowRevisions,
                    FreeObjectsCurrent, CallsCurrent, BatchesNext, InProgress

LEMMA OrderNext ==
  CommitAssumption /\ Careful /\ IInv /\ OnceInv /\ AloneInv /\ OrderInv /\ [Next]_vars => OrderInv'
<1>. SUFFICES ASSUME CommitAssumption, Careful, IInv, OnceInv, AloneInv, OrderInv, [Next]_vars
              PROVE  OrderInv'
  OBVIOUS
<1>1. ASSUME NEW h \in Handle, \/ \E s \in Stream : Load(h, s)
                               \/ \E e \in Event : AddEvent(h, e)
                               \/ \E i \in Call : Commit(h, i)
                               \/ Release(h)
      PROVE  OrderInv'
  BY <1>1, LoadOrder, AddEventOrder, CommitOrder, ReleaseOrder DEF Careful
<1>2. ASSUME NEW i \in Call, Link(i) PROVE OrderInv'
  BY <1>2, QuietAdvanceOrder, AddedOrder, PublishOrder, ConcatOrder DEF Link
<1>3. ASSUME NEW i \in Call, NotNumbered(i) PROVE OrderInv'
  BY <1>3, RejectedOrder
<1>4. ASSUME NEW i \in Call, NotAdded(i) PROVE OrderInv'
  <2>1. CASE UNCHANGED store
    BY <1>4, <2>1, RejectedOrder
  <2>2. CASE Fails("added") /\ Insert(call[i])
    <3>1. ~Retries
      BY <2>2 DEF Fails, Careful
    <3>. QED
      BY <1>4, <2>2, <3>1, StoredRejectedOrder
  <2>. QED
    BY <1>4, <2>1, <2>2 DEF NotAdded
<1>5. ASSUME NEW i \in Call, PublishThrows(i) PROVE OrderInv'
  <2>1. ~Retries
    BY <1>5 DEF PublishThrows, Fails, Careful
  <2>. QED
    BY <1>5, <2>1, PublishThrowsOrder
<1>6. CASE \/ \E p \in handed : Confirm(p)
           \/ \E p \in marking : Marked(p)
           \/ UNCHANGED vars
  <2>1. UNCHANGED <<object, call, store, published, queue>>
    BY <1>6 DEF Confirm, Marked, vars, dispatcher, history
  <2>2. Line' = Line
    BY <2>1 DEF Line
  <2>3. FreeObjectsCurrent' /\ CallsCurrent'
    BY <2>1 DEF OrderInv, FreeObjectsCurrent, CallsCurrent, LogOf, Idle, InProgress
  <2>. QED
    BY <2>1, <2>2, <2>3, QuietOrder
<1>7. CASE Restart
  BY <1>7, RestartOrder
<1>. QED
  BY <1>1, <1>2, <1>3, <1>4, <1>5, <1>6, <1>7 DEF Next

LEMMA OrderAlways == Careful => (Spec => [](IInv /\ OrderInv))
<1>. SUFFICES ASSUME Careful PROVE Spec => [](IInv /\ OrderInv)
  OBVIOUS
<1>1. Init => IInv /\ OnceInv /\ AloneInv /\ OrderInv
  BY CommitAssumption, InitInv, OnceInit, AloneInit, OrderInit
<1>2. IInv /\ OnceInv /\ AloneInv /\ OrderInv /\ [Next]_vars
        => (IInv /\ OnceInv /\ AloneInv /\ OrderInv)'
  BY CommitAssumption, NextInv, OnceNext, AloneNext, OrderNext DEF Careful
<1>. QED
  BY <1>1, <1>2, PTL DEF Spec

\* The publisher has got a beginning of the line.
LEMMA PublishedFirst == IInv /\ LineOrdered => PublishedInOrder
<1>. SUFFICES ASSUME IInv, LineOrdered, NEW s \in Stream,
                     NEW k \in DOMAIN published, NEW m \in DOMAIN published, k < m,
                     published[k] \in Stored(s), published[m] \in Stored(s)
              PROVE  published[k].rev < published[m].rev
  BY DEF PublishedInOrder
<1>1. published \in Seq(Records) /\ queue \in Seq(Records)
  BY DEF IInv, TypeOK
<1>2. /\ Line \in Seq(Records) /\ Len(Line) = Len(published) + Len(queue)
      /\ \A n \in 1 .. Len(published) + Len(queue) :
           Line[n] = IF n <= Len(published) THEN published[n] ELSE queue[n - Len(published)]
  BY <1>1, ConcatProperties DEF Line
<1>3. /\ DOMAIN published = 1 .. Len(published) /\ DOMAIN Line = 1 .. Len(Line)
      /\ Len(published) \in Nat /\ Len(queue) \in Nat
  BY <1>1, <1>2, LenProperties
<1>4. \A n \in DOMAIN published : n \in DOMAIN Line /\ Line[n] = published[n]
  BY <1>2, <1>3
<1>. QED
  BY <1>4 DEF LineOrdered

-----------------------------------------------------------------------------
(* The theorems *)

\* With one object per stream and awaited commits the n-th stored event of a
\* stream has revision n - 1: commit counts on from currentRevision, and the
\* object has seen the whole stream whenever it may commit.  A rejected commit
\* is repeated only where nothing of it was stored.
THEOREM RevisionsCountEvents == Careful => (Spec => []RevisionIsIndex)
<1>1. OrderInv => RevisionIsIndex
  BY DEF OrderInv
<1>. QED
  BY <1>1, OrderAlways, PTL

\* Under the same use positions follow the revisions of each stream, also when
\* other streams are committed in between (getNextPositions).
THEOREM PositionsOrderStreams == Careful => (Spec => []PositionsFollowRevisions)
<1>1. OrderInv => PositionsFollowRevisions
  BY DEF OrderInv
<1>. QED
  BY <1>1, OrderAlways, PTL

\* Under the same use the publisher gets the events of a stream in the order of
\* their revisions, whatever it threw in between (addUndispatchedEvents,
\* trigger).
THEOREM PublisherKeepsOrder == Careful => (Spec => []PublishedInOrder)
<1>1. IInv /\ OrderInv => PublishedInOrder
  BY PublishedFirst DEF OrderInv
<1>. QED
  BY <1>1, OrderAlways, PTL

-----------------------------------------------------------------------------
(* A stream as a line of events *)

\* Pending(s), of any objects and commits.
Waits(ob, ca, s) ==
  LET hs == {h \in Handle : ob[h].stream = s}
      cs == {i \in Call : ca[i].by \in hs /\ ca[i].pc \in {"ids", "add"}}
      batch == IF cs = {} THEN <<>> ELSE ca[CHOOSE i \in cs : TRUE].batch
  IN  IF hs = {} THEN <<>>
      ELSE LET o == ob[CHOOSE h \in hs : TRUE]
           IN  IF o.rejected /\ ~Retries THEN <<>> ELSE batch \o o.uncommitted

\* One object per stream, one commit per object.
Alone(ob, ca) ==
  /\ ob \in [Handle -> Objects] /\ ca \in [Call -> Calls]
  /\ \A g, h \in Handle : (ob[g].stream # None /\ ob[g].stream = ob[h].stream) => g = h
  /\ \A i, j \in Call : (ca[i].pc # "free" /\ ca[j].pc # "free" /\ ca[i].by = ca[j].by) => i = j

Returns(ca, i, h) == ca[i].pc \in {"ids", "add"} /\ ca[i].by = h

GaveUp(ob, h) == ob[h].rejected /\ ~Retries

LEMMA AreAlone ==
  /\ IInv /\ AloneInv => Alone(object, call)
  /\ (IInv /\ AloneInv)' => Alone(object', call')
<1>1. IInv /\ AloneInv => Alone(object, call)
  BY DEF IInv, TypeOK, AloneInv, OneObject, OneCall, InProgress, Alone
<1>2. (IInv /\ AloneInv)' => Alone(object', call')
  BY DEF IInv, TypeOK, AloneInv, OneObject, OneCall, InProgress, Alone
<1>. QED
  BY <1>1, <1>2

LEMMA WhatWaits ==
  /\ \A s : Pending(s) = Waits(object, call, s)
  /\ \A s : Pending(s)' = Waits(object', call', s)
BY DEF Pending, Waits

LEMMA NobodyWaits ==
  ASSUME NEW ob, NEW ca, NEW s, \A h \in Handle : ob[h].stream # s
  PROVE  Waits(ob, ca, s) = <<>>
BY DEF Waits

LEMMA WaitsAt ==
  ASSUME CommitAssumption, NEW ob, NEW ca, Alone(ob, ca),
         NEW h \in Handle, NEW s \in Stream, ob[h].stream = s
  PROVE  /\ GaveUp(ob, h) => Waits(ob, ca, s) = <<>>
         /\ ~GaveUp(ob, h) /\ (\A i \in Call : ~Returns(ca, i, h)) =>
              Waits(ob, ca, s) = ob[h].uncommitted
         /\ \A i \in Call : ~GaveUp(ob, h) /\ Returns(ca, i, h) =>
              Waits(ob, ca, s) = ca[i].batch \o ob[h].uncommitted
<1>. DEFINE hs == {g \in Handle : ob[g].stream = s}
            cs == {i \in Call : ca[i].by \in hs /\ ca[i].pc \in {"ids", "add"}}
            g == CHOOSE x \in hs : TRUE
            batch == IF cs = {} THEN <<>> ELSE ca[CHOOSE i \in cs : TRUE].batch
<1>2. hs = {h}
  BY DEF Alone, CommitAssumption
<1>3. g = h /\ hs # {}
  BY <1>2
<1>4. cs = {i \in Call : Returns(ca, i, h)}
  BY <1>2 DEF Returns
<1>5. Waits(ob, ca, s) = IF GaveUp(ob, h) THEN <<>> ELSE batch \o ob[h].uncommitted
  <2>1. Waits(ob, ca, s) = IF hs = {} THEN <<>>
                           ELSE IF ob[g].rejected /\ ~Retries THEN <<>>
                           ELSE batch \o ob[g].uncommitted
    BY DEF Waits
  <2>. HIDE DEF hs, cs, g, batch
  <2>. QED
    BY <1>3, <2>1 DEF GaveUp
<1>. HIDE DEF hs, cs, g
<1>6. ob[h].uncommitted \in Seq(Event)
  BY DEF Alone, Objects
<1>7. CASE GaveUp(ob, h)
  BY <1>5, <1>7
<1>8. CASE ~GaveUp(ob, h) /\ cs = {}
  BY <1>4, <1>5, <1>6, <1>8, ConcatEmptySeq
<1>9. ASSUME ~GaveUp(ob, h), NEW i \in cs
      PROVE  Waits(ob, ca, s) = ca[i].batch \o ob[h].uncommitted
  <2>1. \A j \in cs : j = i
    BY <1>4, <1>9 DEF Alone, Returns
  <2>2. (CHOOSE j \in cs : TRUE) = i
    BY <2>1
  <2>. QED
    BY <1>5, <1>9, <2>2
<1>. QED
  BY <1>4, <1>7, <1>8, <1>9

LEMMA WaitsNow ==
  ASSUME CommitAssumption, Alone(object, call),
         NEW h \in Handle, NEW s \in Stream, object[h].stream = s
  PROVE  /\ GaveUp(object, h) => Pending(s) = <<>>
         /\ ~GaveUp(object, h) /\ (\A i \in Call : ~Returns(call, i, h)) =>
              Pending(s) = object[h].uncommitted
         /\ \A i \in Call : ~GaveUp(object, h) /\ Returns(call, i, h) =>
              Pending(s) = call[i].batch \o object[h].uncommitted
<1>1. PICK ob, ca, w : ob = object /\ ca = call /\ w = Pending(s)
  OBVIOUS
<1>2. w = Waits(ob, ca, s) /\ Alone(ob, ca) /\ ob[h].stream = s
  BY <1>1, WhatWaits
<1>3. /\ GaveUp(ob, h) => w = <<>>
      /\ ~GaveUp(ob, h) /\ (\A i \in Call : ~Returns(ca, i, h)) => w = ob[h].uncommitted
      /\ \A i \in Call : ~GaveUp(ob, h) /\ Returns(ca, i, h) =>
           w = ca[i].batch \o ob[h].uncommitted
  BY <1>2, WaitsAt
<1>. QED
  BY <1>1, <1>3

LEMMA WaitsNext ==
  ASSUME CommitAssumption, Alone(object', call'),
         NEW h \in Handle, NEW s \in Stream, object'[h].stream = s
  PROVE  /\ GaveUp(object', h) => Pending(s)' = <<>>
         /\ ~GaveUp(object', h) /\ (\A i \in Call : ~Returns(call', i, h)) =>
              Pending(s)' = object'[h].uncommitted
         /\ \A i \in Call : ~GaveUp(object', h) /\ Returns(call', i, h) =>
              Pending(s)' = call'[i].batch \o object'[h].uncommitted
<1>1. PICK ob, ca, w : ob = object' /\ ca = call' /\ w = Pending(s)'
  OBVIOUS
<1>2. w = Waits(ob, ca, s) /\ Alone(ob, ca) /\ ob[h].stream = s
  BY <1>1, WhatWaits
<1>3. /\ GaveUp(ob, h) => w = <<>>
      /\ ~GaveUp(ob, h) /\ (\A i \in Call : ~Returns(ca, i, h)) => w = ob[h].uncommitted
      /\ \A i \in Call : ~GaveUp(ob, h) /\ Returns(ca, i, h) =>
           w = ca[i].batch \o ob[h].uncommitted
  BY <1>2, WaitsAt
<1>. QED
  BY <1>1, <1>3

LEMMA WaitsType ==
  ASSUME CommitAssumption, NEW ob, NEW ca, Alone(ob, ca), NEW s \in Stream
  PROVE  Waits(ob, ca, s) \in Seq(Event)
<1>1. CASE \A h \in Handle : ob[h].stream # s
  BY <1>1, NobodyWaits, EmptySeq
<1>2. ASSUME NEW h \in Handle, ob[h].stream = s PROVE Waits(ob, ca, s) \in Seq(Event)
  <2>1. ob[h].uncommitted \in Seq(Event)
    BY DEF Alone, Objects
  <2>2. CASE GaveUp(ob, h)
    BY <1>2, <2>2, WaitsAt, EmptySeq
  <2>3. CASE ~GaveUp(ob, h) /\ \A i \in Call : ~Returns(ca, i, h)
    BY <1>2, <2>1, <2>3, WaitsAt
  <2>4. ASSUME ~GaveUp(ob, h), NEW i \in Call, Returns(ca, i, h)
        PROVE  Waits(ob, ca, s) \in Seq(Event)
    <3>1. ca[i].batch \in Seq(Event)
      BY DEF Alone, Calls
    <3>2. ca[i].batch \o ob[h].uncommitted \in Seq(Event)
      BY <2>1, <3>1, ConcatProperties
    <3>. QED
      BY <1>2, <2>4, <3>2, WaitsAt
  <2>. QED
    BY <2>2, <2>3, <2>4
<1>. QED
  BY <1>1, <1>2

\* Of two sequences in a row: what SubSeq takes off.
LEMMA TakeOff ==
  ASSUME NEW S, NEW a \in Seq(S), NEW b \in Seq(S)
  PROVE  /\ a \o b \in Seq(S) /\ Len(a) \in 0 .. Len(a \o b)
         /\ Len(a \o b) = Len(a) + Len(b) /\ Len(a) \in Nat /\ Len(b) \in Nat
         /\ SubSeq(a \o b, 1, Len(a)) = a
         /\ SubSeq(a \o b, Len(a) + 1, Len(a \o b)) = b
         /\ SubSeq(a, 1, Len(a)) = a
         /\ SubSeq(a, Len(a) + 1, Len(a)) = <<>>
<1>1. PICK ab, la, lb, lab : ab = a \o b /\ la = Len(a) /\ lb = Len(b) /\ lab = Len(ab)
  OBVIOUS
<1>2. /\ la \in Nat /\ lb \in Nat /\ lab \in Nat /\ ab \in Seq(S) /\ lab = la + lb
      /\ \A k \in 1 .. la + lb : ab[k] = IF k <= la THEN a[k] ELSE b[k - la]
      /\ \A k \in 1 .. lab : ab[k] \in S
  BY <1>1, ConcatProperties, LenProperties, ElementOfSeq
<1>3. SubSeq(ab, 1, la) = a
  <2>1. PICK x : x = SubSeq(ab, 1, la)
    OBVIOUS
  <2>2. \A k \in 1 .. la : ab[k] \in S
    BY <1>2
  <2>3. /\ x \in Seq(S) /\ Len(x) = IF 1 <= la THEN la - 1 + 1 ELSE 0
        /\ \A k \in 1 .. la - 1 + 1 : x[k] = ab[1 + k - 1]
    BY <1>2, <2>1, <2>2, SubSeqProperties
  <2>4. Len(x) = la /\ \A k \in 1 .. la : x[k] = a[k]
    BY <1>2, <2>3
  <2>5. x = a
    BY <1>1, <2>3, <2>4, SeqEqual
  <2>. QED
    BY <2>1, <2>5
<1>4. SubSeq(ab, la + 1, lab) = b
  <2>1. PICK x, m : x = SubSeq(ab, la + 1, lab) /\ m = la + 1
    OBVIOUS
  <2>2. m \in Int /\ lab \in Int /\ \A k \in m .. lab : ab[k] \in S
    BY <1>2, <2>1
  <2>3. /\ x \in Seq(S) /\ Len(x) = IF m <= lab THEN lab - m + 1 ELSE 0
        /\ \A k \in 1 .. lab - m + 1 : x[k] = ab[m + k - 1]
    BY <2>1, <2>2, SubSeqProperties
  <2>4. Len(x) = lb
    BY <1>2, <2>1, <2>3
  <2>5. \A k \in 1 .. lb : x[k] = b[k]
    <3>. SUFFICES ASSUME NEW k \in 1 .. lb PROVE x[k] = b[k]
      OBVIOUS
    <3>1. k \in 1 .. lab - m + 1 /\ m + k - 1 = la + k /\ la + k \in 1 .. la + lb
          /\ ~(la + k <= la) /\ (la + k) - la = k
      BY <1>2, <2>1
    <3>. QED
      BY <1>2, <2>3, <3>1
  <2>6. x = b
    BY <1>1, <2>3, <2>4, <2>5, SeqEqual
  <2>. QED
    BY <2>1, <2>6
<1>5. SubSeq(a, 1, Len(a)) = a
  BY SubSeqFull
<1>6. SubSeq(a, Len(a) + 1, Len(a)) = <<>>
  BY <1>1, <1>2, SubSeqEmpty
<1>. QED
  BY <1>1, <1>2, <1>3, <1>4, <1>5, <1>6

\* A step of one object and its commits leaves the other streams alone.
LEMMA OthersWait ==
  ASSUME CommitAssumption, Alone(object, call), Alone(object', call'),
         NEW h \in Handle, \A g \in Handle : g # h => object'[g] = object[g],
         \A j \in Call : \/ call'[j] = call[j]
                         \/ /\ call[j].pc \in {"ids", "add"} => call[j].by = h
                            /\ call'[j].pc \in {"ids", "add"} => call'[j].by = h,
         NEW s \in Stream, object[h].stream # s, object'[h].stream # s
  PROVE  Pending(s)' = Pending(s)
<1>1. Pending(s) = Waits(object, call, s) /\ Pending(s)' = Waits(object', call', s)
  BY WhatWaits
<1>2. CASE \A g \in Handle : object[g].stream # s
  <2>1. \A g \in Handle : object'[g].stream # s
    BY <1>2
  <2>. QED
    BY <1>1, <1>2, <2>1, NobodyWaits
<1>3. ASSUME NEW g \in Handle, object[g].stream = s PROVE Pending(s)' = Pending(s)
  <2>1. g # h /\ object'[g] = object[g]
    BY <1>3
  <2>2. /\ GaveUp(object', g) <=> GaveUp(object, g)
        /\ \A j \in Call : Returns(call', j, g) <=> Returns(call, j, g)
        /\ \A j \in Call : Returns(call, j, g) => call'[j] = call[j]
    <3>1. GaveUp(object', g) <=> GaveUp(object, g)
      BY <2>1 DEF GaveUp
    <3>2. ASSUME NEW j \in Call
          PROVE  /\ Returns(call', j, g) <=> Returns(call, j, g)
                 /\ Returns(call, j, g) => call'[j] = call[j]
      BY <2>1 DEF Returns
    <3>. QED
      BY <3>1, <3>2
  <2>3. CASE GaveUp(object, g)
    BY <1>3, <2>1, <2>2, <2>3, WaitsNow, WaitsNext
  <2>4. CASE ~GaveUp(object, g) /\ \A j \in Call : ~Returns(call, j, g)
    BY <1>3, <2>1, <2>2, <2>4, WaitsNow, WaitsNext
  <2>5. ASSUME ~GaveUp(object, g), NEW j \in Call, Returns(call, j, g)
        PROVE  Pending(s)' = Pending(s)
    <3>1. Returns(call', j, g) /\ call'[j] = call[j]
      BY <2>2, <2>5
    <3>2. Pending(s) = call[j].batch \o object[g].uncommitted
      BY <1>3, <2>5, WaitsNow
    <3>3. Pending(s)' = call'[j].batch \o object'[g].uncommitted
      BY <1>3, <2>1, <2>2, <2>5, <3>1, WaitsNext
    <3>. QED
      BY <2>1, <3>1, <3>2, <3>3
  <2>. QED
    BY <2>3, <2>4, <2>5
<1>. QED
  BY <1>2, <1>3

\* The line of a stream with a commit in progress.
LEMMA CallWaits ==
  ASSUME CommitAssumption, IInv, AloneInv, NEW i \in Call, call[i].pc # "free"
  PROVE  LET h == call[i].by
             s == object[h].stream
         IN  /\ h \in Handle /\ s \in Stream /\ ~GaveUp(object, h)
             /\ object[h].uncommitted \in Seq(Event) /\ call[i].batch \in Seq(Event)
             /\ call[i].pc \in {"ids", "add"} =>
                  Pending(s) = call[i].batch \o object[h].uncommitted
             /\ call[i].pc \notin {"ids", "add"} => Pending(s) = object[h].uncommitted
<1>1. PICK h, s : h = call[i].by /\ s = object[h].stream
  OBVIOUS
<1>2. /\ h \in Handle /\ s \in Stream /\ ~GaveUp(object, h)
      /\ object[h].uncommitted \in Seq(Event) /\ call[i].batch \in Seq(Event)
  BY <1>1, RejectedType
     DEF AloneInv, CallsAlive, CallsAllowed, InProgress, GaveUp, Objects, Calls, IInv, TypeOK
<1>3. Alone(object, call)
  BY AreAlone
<1>4. CASE call[i].pc \in {"ids", "add"}
  <2>1. Returns(call, i, h)
    BY <1>1, <1>4 DEF Returns
  <2>. QED
    BY <1>1, <1>2, <1>3, <1>4, <2>1, WaitsNow
<1>5. CASE call[i].pc \notin {"ids", "add"}
  <2>1. \A j \in Call : ~Returns(call, j, h)
    BY <1>1, <1>5 DEF Returns, AloneInv, OneCall, InProgress
  <2>. QED
    BY <1>1, <1>2, <1>3, <1>5, <2>1, WaitsNow
<1>. QED
  BY <1>1, <1>4, <1>5, <1>2

\* The same after a step of the commit.
LEMMA CallWaitsNext ==
  ASSUME CommitAssumption, IInv, AloneInv, Alone(object', call'),
         NEW i \in Call, call[i].pc # "free",
         \A j \in Call : j # i => call'[j] = call[j],
         call'[i].pc \notin {"ids", "add"},
         NEW h \in Handle, h = call[i].by, NEW s \in Stream, object'[h].stream = s
  PROVE  /\ GaveUp(object', h) => Pending(s)' = <<>>
         /\ ~GaveUp(object', h) => Pending(s)' = object'[h].uncommitted
<1>1. \A j \in Call : ~Returns(call', j, h)
  BY DEF Returns, AloneInv, OneCall, InProgress
<1>. QED
  BY <1>1, WaitsNext

\* What a step does to the lines that stores nothing.
Shortens ==
  \A s \in Stream : \/ Pending(s)' = Pending(s)
                    \/ Pending(s)' = <<>>
                    \/ \E a \in Seq(Event) : Pending(s) = a \o Pending(s)'

LEMMA LoadShortens ==
  ASSUME CommitAssumption, Awaits, IInv, AloneInv, (IInv /\ AloneInv)',
         NEW h \in Handle, NEW s \in Stream, Load(h, s)
  PROVE  Shortens
<1>1. Alone(object, call) /\ Alone(object', call')
  BY AreAlone
<1>2. call' = call /\ object[h].stream = None /\ \A g \in Handle : object[g].stream # s
  BY DEF Load
<1>3. /\ object'[h].stream = s /\ object'[h].uncommitted = <<>> /\ ~object'[h].rejected
      /\ \A g \in Handle : g # h => object'[g] = object[g]
  BY DEF Load, Unused, IInv, TypeOK
<1>4. \A t \in Stream : t # s => Pending(t)' = Pending(t)
  BY <1>1, <1>2, <1>3, OthersWait DEF CommitAssumption
<1>5. Pending(s)' = <<>>
  <2>1. \A j \in Call : ~Returns(call', j, h)
    BY <1>2 DEF Returns, AloneInv, CallsAlive
  <2>. QED
    BY <1>1, <1>3, <2>1, WaitsNext DEF GaveUp
<1>. QED
  BY <1>4, <1>5 DEF Shortens

LEMMA CommitShortens ==
  ASSUME CommitAssumption, Awaits, IInv, AloneInv, (IInv /\ AloneInv)',
         NEW h \in Handle, NEW i \in Call, Commit(h, i)
  PROVE  Shortens
<1>1. Alone(object, call) /\ Alone(object', call')
  BY AreAlone
<1>2. PICK s, u : s = object[h].stream /\ u = object[h].uncommitted
  OBVIOUS
<1>3. s \in Stream /\ u \in Seq(Event) /\ (object[h].rejected => Retries) /\ call[i].pc = "free"
  BY <1>2, NoCallType DEF Commit, IInv, TypeOK, Objects
<1>4. /\ object'[h].stream = s /\ object'[h].uncommitted = <<>>
      /\ object'[h].rejected = object[h].rejected
      /\ \A g \in Handle : g # h => object'[g] = object[g]
  BY <1>2 DEF Commit, Left, IInv, TypeOK, Objects
<1>5. /\ call'[i].pc = "ids" /\ call'[i].by = h /\ call'[i].batch = u
      /\ \A j \in Call : j # i => call'[j] = call[j]
  BY <1>2 DEF Commit, IInv, TypeOK
<1>6. \A t \in Stream : t # s => Pending(t)' = Pending(t)
  <2>1. \A j \in Call : \/ call'[j] = call[j]
                        \/ /\ call[j].pc \in {"ids", "add"} => call[j].by = h
                           /\ call'[j].pc \in {"ids", "add"} => call'[j].by = h
    BY <1>3, <1>5
  <2>. QED
    BY <1>1, <1>2, <1>4, <2>1, OthersWait
<1>7. Pending(s) = u
  <2>1. \A j \in Call : ~Returns(call, j, h)
    BY DEF Commit, Busy, Returns
  <2>. QED
    BY <1>1, <1>2, <1>3, <2>1, WaitsNow DEF GaveUp
<1>8. Pending(s)' = u
  <2>1. Returns(call', i, h) /\ ~GaveUp(object', h)
    BY <1>3, <1>4, <1>5 DEF Returns, GaveUp
  <2>2. Pending(s)' = call'[i].batch \o object'[h].uncommitted
    BY <1>1, <1>3, <1>4, <2>1, WaitsNext
  <2>. QED
    BY <1>3, <1>4, <1>5, <2>2, ConcatEmptySeq
<1>. QED
  BY <1>6, <1>7, <1>8 DEF Shortens

LEMMA ReleaseShortens ==
  ASSUME CommitAssumption, IInv, AloneInv, (IInv /\ AloneInv)', NEW h \in Handle, Release(h)
  PROVE  Shortens
<1>1. Alone(object, call) /\ Alone(object', call')
  BY AreAlone
<1>2. call' = call /\ object[h].stream # None
  BY DEF Release
<1>3. /\ object'[h].stream = None
      /\ \A g \in Handle : g # h => object'[g] = object[g]
  BY DEF Release, Unused, IInv, TypeOK
<1>4. PICK s : s = object[h].stream
  OBVIOUS
<1>5. \A t \in Stream : t # s => Pending(t)' = Pending(t)
  BY <1>1, <1>2, <1>3, <1>4, OthersWait DEF CommitAssumption
<1>6. s \in Stream => Pending(s)' = <<>>
  <2>1. ASSUME NEW g \in Handle, s \in Stream PROVE object'[g].stream # s
    BY <1>2, <1>3, <1>4, <2>1 DEF AloneInv, OneObject, CommitAssumption
  <2>. QED
    BY <2>1, NobodyWaits, WhatWaits
<1>. QED
  BY <1>5, <1>6 DEF Shortens

LEMMA AdvanceShortens ==
  ASSUME CommitAssumption, IInv, AloneInv, (IInv /\ AloneInv)',
         NEW i \in Call, Numbered(i) \/ Offer(i) \/ Publish(i)
  PROVE  Shortens
<1>1. Alone(object, call) /\ Alone(object', call')
  BY AreAlone
<1>2. PICK h, s : h = call[i].by /\ s = object[h].stream
  OBVIOUS
<1>3. h \in Handle /\ s \in Stream /\ ~GaveUp(object, h)
  BY <1>2, AdvanceEffect, CallWaits
<1>4. /\ \A g \in Handle : object'[g].uncommitted = object[g].uncommitted
      /\ \A g \in Handle : g # h => object'[g] = object[g]
  <2>1. CASE Numbered(i) \/ Publish(i)
    BY <2>1 DEF Numbered, Publish
  <2>2. CASE Offer(i)
    BY <1>2, <1>3, <2>2 DEF Offer, IInv, TypeOK, Objects
  <2>. QED
    BY <2>1, <2>2
<1>5. \A t \in Stream : t # s => Pending(t)' = Pending(t)
  <2>1. \A j \in Call : \/ call'[j] = call[j]
                        \/ /\ call[j].pc \in {"ids", "add"} => call[j].by = h
                           /\ call'[j].pc \in {"ids", "add"} => call'[j].by = h
    BY <1>2, AdvanceEffect
  <2>. QED
    BY <1>1, <1>2, <1>3, <1>4, <2>1, AdvanceEffect, OthersWait
<1>6. Pending(s)' = Pending(s)
  <2>0. ~GaveUp(object', h) /\ object'[h].stream = s
    BY <1>2, <1>3, AdvanceEffect DEF GaveUp
  <2>1. CASE Numbered(i)
    <3>0. call[i].pc = "ids" /\ call'[i].pc = "add"
      BY <2>1 DEF Numbered, IInv, TypeOK, Calls
    <3>1. /\ call[i].pc = "ids" /\ call'[i].pc = "add"
          /\ call'[i].by = h /\ call'[i].batch = call[i].batch
      BY <1>2, <2>1, <3>0, AdvanceEffect
    <3>2. Pending(s) = call[i].batch \o object[h].uncommitted
      BY <1>2, <3>1, CallWaits
    <3>3. Returns(call', i, h)
      BY <3>1 DEF Returns
    <3>4. Pending(s)' = call'[i].batch \o object'[h].uncommitted
      BY <1>1, <1>3, <2>0, <3>3, WaitsNext
    <3>. QED
      BY <1>3, <1>4, <3>1, <3>2, <3>4
  <2>2. CASE Offer(i) \/ Publish(i)
    <3>1. call[i].pc = "publish" /\ call'[i].pc = "concat"
      BY <2>2 DEF Offer, Publish, IInv, TypeOK, Calls
    <3>2. Pending(s) = object[h].uncommitted
      BY <1>2, <3>1, CallWaits
    <3>3. call[i].pc # "free" /\ \A j \in Call : j # i => call'[j] = call[j]
      BY <2>2, AdvanceEffect
    <3>4. Pending(s)' = object'[h].uncommitted
      BY <1>1, <1>2, <1>3, <2>0, <3>1, <3>3, CallWaitsNext
    <3>. QED
      BY <1>3, <1>4, <3>2, <3>4
  <2>. QED
    BY <2>1, <2>2
<1>. QED
  BY <1>5, <1>6 DEF Shortens

\* Of a commit that ends: the other streams.
LEMMA OthersAtEnd ==
  ASSUME CommitAssumption, IInv, AloneInv, (IInv /\ AloneInv)', NEW i \in Call,
         NotNumbered(i) \/ NotAdded(i) \/ PublishThrows(i) \/ Concat(i)
  PROVE  /\ \A t \in Stream : t # object[call[i].by].stream => Pending(t)' = Pending(t)
         /\ \A h \in Handle, s \in Stream : h = call[i].by /\ s = object[h].stream =>
              /\ GaveUp(object', h) => Pending(s)' = <<>>
              /\ ~GaveUp(object', h) => Pending(s)' = object'[h].uncommitted
<1>1. Alone(object, call) /\ Alone(object', call') /\ call[i].by \in Handle
  BY AreAlone, EndEffect, RejectedType
<1>2. \A j \in Call : \/ call'[j] = call[j]
                      \/ /\ call[j].pc \in {"ids", "add"} => call[j].by = call[i].by
                         /\ call'[j].pc \in {"ids", "add"} => call'[j].by = call[i].by
  BY EndEffect
<1>3. \A t \in Stream : t # object[call[i].by].stream => Pending(t)' = Pending(t)
  BY <1>1, <1>2, EndEffect, OthersWait
<1>. QED
  BY <1>1, <1>3, EndEffect, CallWaitsNext

LEMMA EndShortens ==
  ASSUME CommitAssumption, IInv, AloneInv, (IInv /\ AloneInv)', NEW i \in Call,
         \/ NotNumbered(i) \/ PublishThrows(i) \/ Concat(i)
         \/ NotAdded(i) /\ UNCHANGED store
  PROVE  Shortens
<1>1. PICK h, s, u, b : /\ h = call[i].by /\ s = object[h].stream
                        /\ u = object[h].uncommitted /\ b = call[i].batch
  OBVIOUS
<1>0. call[i].pc # "free"
  BY EndEffect
<1>2. /\ h \in Handle /\ s \in Stream /\ u \in Seq(Event) /\ b \in Seq(Event)
      /\ ~GaveUp(object, h)
      /\ call[i].pc \in {"ids", "add"} => Pending(s) = b \o u
      /\ call[i].pc \notin {"ids", "add"} => Pending(s) = u
  BY <1>0, <1>1, CallWaits
<1>3. Pending(s)' = <<>> \/ Pending(s)' = object'[h].uncommitted
  BY <1>1, <1>2, OthersAtEnd
<1>4. Pending(s)' \in {<<>>, u, b \o u} /\ (Pending(s)' = b \o u => Pending(s) = b \o u)
      /\ (Pending(s)' = u => Pending(s) \in {u, b \o u})
  <2>1. CASE NotNumbered(i)
    <3>1. object'[h].uncommitted = u
      BY <1>1, <1>2, <2>1 DEF NotNumbered, IInv, TypeOK, Objects
    <3>. QED
      BY <1>2, <1>3, <2>1, <3>1 DEF NotNumbered
  <2>2. CASE PublishThrows(i)
    <3>1. object'[h].uncommitted = u
      BY <1>1, <1>2, <2>2 DEF PublishThrows, IInv, TypeOK, Objects
    <3>. QED
      BY <1>2, <1>3, <2>2, <3>1 DEF PublishThrows
  <2>3. CASE Concat(i)
    <3>1. PICK recs : recs = {<<r.event, r.rev>> : r \in Elements(Revised(call[i]))}
      OBVIOUS
    <3>2. object' = [object EXCEPT ![h].events = @ \cup recs, ![h].rejected = FALSE]
      BY <1>1, <2>3, <3>1 DEF Concat
    <3>3. object'[h].uncommitted = u
      BY <1>1, <1>2, <3>2 DEF IInv, TypeOK, Objects
    <3>. QED
      BY <1>2, <1>3, <2>3, <3>3 DEF Concat
  <2>4. CASE NotAdded(i)
    <3>1. object'[h].uncommitted = b \o u
      BY <1>1, <1>2, <2>4 DEF NotAdded, Restored, IInv, TypeOK, Objects
    <3>. QED
      BY <1>2, <1>3, <2>4, <3>1 DEF NotAdded
  <2>. QED
    BY <2>1, <2>2, <2>3, <2>4
<1>. QED
  BY <1>1, <1>2, <1>4, OthersAtEnd DEF Shortens

LEMMA RestartShortens ==
  ASSUME CommitAssumption, Restart
  PROVE  Shortens
<1>1. \A h \in Handle : object'[h].stream = None
  BY DEF Restart, Unused
<1>. QED
  BY <1>1, NobodyWaits, WhatWaits DEF Shortens, CommitAssumption

\* Every event anywhere was added.
UsedInv ==
  /\ \A s \in Stream : \A k \in DOMAIN store[s] : store[s][k].event \in used
  /\ \A h \in Handle : Elements(object[h].uncommitted) \subseteq used
  /\ \A i \in Call : Elements(call[i].batch) \subseteq used

LEMMA ConcatUsed ==
  ASSUME NEW S, NEW a \in Seq(S), NEW b \in Seq(S), NEW U,
         Elements(a) \subseteq U, Elements(b) \subseteq U
  PROVE  Elements(a \o b) \subseteq U
BY AllElements

LEMMA InsertUsed ==
  ASSUME IInv, AloneInv, UsedInv, used' = used, NEW i \in Call, call[i].pc = "add", Insert(call[i])
  PROVE  \A s \in Stream : \A k \in DOMAIN store'[s] : store'[s][k].event \in used
<1>1. PICK t, c : t = object[call[i].by].stream /\ c = call[i]
  OBVIOUS
<1>2. /\ t \in Stream /\ c \in Calls
      /\ \A s \in Stream :
           Stored(s)' = IF s = t THEN Stored(s) \cup Elements(Revised(c)) ELSE Stored(s)
  BY <1>1, StoreGrows DEF AloneInv, IInv, TypeOK
<1>3. ASSUME NEW r \in Elements(Revised(c)) PROVE r.event \in used
  <2>1. PICK k \in DOMAIN c.batch : r = Revised(c)[k]
    BY DEF Elements, Revised
  <2>2. r.event = c.batch[k]
    BY <2>1 DEF Revised
  <2>3. c.batch[k] \in Elements(c.batch) /\ Elements(c.batch) \subseteq used
    BY <1>1 DEF Elements, UsedInv
  <2>. QED
    BY <2>2, <2>3
<1>. SUFFICES ASSUME NEW s \in Stream, NEW k \in DOMAIN store'[s]
              PROVE  store'[s][k].event \in used
  OBVIOUS
<1>4. store'[s][k] \in Stored(s)'
  BY DEF Stored, Elements
<1>5. \A r \in Stored(s) : r.event \in used
  BY DEF UsedInv, Stored, Elements
<1>. QED
  BY <1>2, <1>3, <1>4, <1>5

LEMMA UsedNext ==
  ASSUME CommitAssumption, IInv, AloneInv, UsedInv, [Next]_vars
  PROVE  UsedInv'
<1>1. /\ object \in [Handle -> Objects] /\ call \in [Call -> Calls]
      /\ \A h \in Handle : object[h].uncommitted \in Seq(Event)
      /\ \A i \in Call : call[i].batch \in Seq(Event)
      /\ Elements(<<>>) = {} /\ NoCall.batch = <<>> /\ Unused.uncommitted = <<>>
      /\ \A i \in Call : call[i].pc # "free" => call[i].by \in Handle
  BY DEF IInv, TypeOK, Objects, Calls, Elements, NoCall, Unused, CallsOK, CallOK
<1>2. ASSUME NEW h \in Handle, NEW s \in Stream, Load(h, s) PROVE UsedInv'
  <2>1. /\ UNCHANGED <<call, store, used>> /\ object'[h].uncommitted = <<>>
        /\ \A g \in Handle : g # h => object'[g] = object[g]
    BY <1>1, <1>2 DEF Load, Unused, history
  <2>. QED
    BY <1>1, <2>1 DEF UsedInv
<1>3. ASSUME NEW h \in Handle, NEW e \in Event, AddEvent(h, e) PROVE UsedInv'
  <2>1. /\ UNCHANGED <<call, store>> /\ used' = used \cup {e}
        /\ object'[h].uncommitted = Append(object[h].uncommitted, e)
        /\ \A g \in Handle : g # h => object'[g] = object[g]
    BY <1>1, <1>3 DEF AddEvent, Objects
  <2>2. Elements(Append(object[h].uncommitted, e)) \subseteq Elements(object[h].uncommitted) \cup {e}
    <3>1. PICK u, v : u = object[h].uncommitted /\ v = Append(u, e)
      OBVIOUS
    <3>2. /\ u \in Seq(Event) /\ v \in Seq(Event) /\ Len(v) = Len(u) + 1 /\ Len(u) \in Nat
          /\ \A k \in 1 .. Len(u) : v[k] = u[k]
          /\ v[Len(u) + 1] = e
          /\ DOMAIN u = 1 .. Len(u) /\ DOMAIN v = 1 .. Len(v)
      BY <1>1, <3>1, AppendProperties, LenProperties
    <3>. QED
      BY <3>1, <3>2 DEF Elements
  <2>. QED
    BY <1>1, <2>1, <2>2 DEF UsedInv
<1>4. ASSUME NEW h \in Handle, NEW i \in Call, Commit(h, i) PROVE UsedInv'
  <2>1. /\ UNCHANGED <<store, used>> /\ object'[h].uncommitted = <<>>
        /\ call'[i].batch = object[h].uncommitted
        /\ \A g \in Handle : g # h => object'[g] = object[g]
        /\ \A j \in Call : j # i => call'[j] = call[j]
    BY <1>1, <1>4 DEF Commit, Left, Objects, history
  <2>. QED
    BY <1>1, <2>1 DEF UsedInv
<1>5. ASSUME NEW h \in Handle, Release(h) PROVE UsedInv'
  <2>1. /\ UNCHANGED <<call, store, used>> /\ object'[h].uncommitted = <<>>
        /\ \A g \in Handle : g # h => object'[g] = object[g]
    BY <1>1, <1>5 DEF Release, history
  <2>. QED
    BY <1>1, <2>1 DEF UsedInv
<1>6. ASSUME NEW i \in Call, Numbered(i) \/ Added(i) \/ Offer(i) \/ Publish(i) PROVE UsedInv'
  <2>1. used' = used /\ \A h \in Handle : object'[h].uncommitted = object[h].uncommitted
    <3>1. CASE Offer(i)
      BY <1>1, <3>1 DEF Offer, Objects, history
    <3>2. CASE Numbered(i) \/ Added(i) \/ Publish(i)
      BY <3>2 DEF Numbered, Added, Publish, history
    <3>. QED
      BY <1>6, <3>1, <3>2
  <2>2. \A j \in Call : call'[j].batch = call[j].batch
    BY <1>6, AdvanceEffect
  <2>3. \A s \in Stream : \A k \in DOMAIN store'[s] : store'[s][k].event \in used
    <3>1. CASE Added(i)
      BY <2>1, <3>1, InsertUsed DEF Added
    <3>2. CASE Numbered(i) \/ Offer(i) \/ Publish(i)
      BY <3>2 DEF Numbered, Offer, Publish, UsedInv
    <3>. QED
      BY <1>6, <3>1, <3>2
  <2>. QED
    BY <2>1, <2>2, <2>3 DEF UsedInv
<1>7. ASSUME NEW i \in Call, NotNumbered(i) \/ NotAdded(i) \/ PublishThrows(i) \/ Concat(i)
      PROVE  UsedInv'
  <2>1. used' = used
    BY <1>7 DEF NotNumbered, NotAdded, PublishThrows, Concat, history
  <2>2. /\ call[i].by \in Handle
        /\ \A j \in Call : j # i => call'[j] = call[j]
        /\ call'[i].batch = <<>>
        /\ \A g \in Handle : g # call[i].by => object'[g] = object[g]
    BY <1>1, <1>7, EndEffect
  <2>3. object'[call[i].by].uncommitted
          \in {object[call[i].by].uncommitted, call[i].batch \o object[call[i].by].uncommitted}
    <3>. PICK h, u, b : h = call[i].by /\ u = object[h].uncommitted /\ b = call[i].batch
      OBVIOUS
    <3>1. CASE NotNumbered(i) \/ PublishThrows(i)
      BY <1>1, <2>2, <3>1 DEF NotNumbered, PublishThrows, Objects
    <3>2. CASE NotAdded(i)
      <4>0. h \in Handle /\ object[h] \in Objects
        BY <1>1, <2>2
      <4>1. object'[h].uncommitted = b \o u
        BY <4>0, <3>2 DEF NotAdded, Restored, Objects, IInv, TypeOK
      <4>. QED
        BY <4>1
    <3>3. CASE Concat(i)
      <4>1. PICK recs : recs = {<<r.event, r.rev>> : r \in Elements(Revised(call[i]))}
        OBVIOUS
      <4>2. object' = [object EXCEPT ![h].events = @ \cup recs, ![h].rejected = FALSE]
        BY <3>3, <4>1 DEF Concat
      <4>3. object'[h].uncommitted = u
        BY <1>1, <2>2, <4>2 DEF Objects
      <4>. QED
        BY <4>3
    <3>. QED
      BY <1>7, <3>1, <3>2, <3>3
  <2>4. Elements(call[i].batch \o object[call[i].by].uncommitted) \subseteq used
    BY <1>1, <2>2, ConcatUsed DEF UsedInv
  <2>5. \A h \in Handle : Elements(object'[h].uncommitted) \subseteq used
    BY <2>2, <2>3, <2>4 DEF UsedInv
  <2>6. \A j \in Call : Elements(call'[j].batch) \subseteq used
    BY <1>1, <2>2 DEF UsedInv
  <2>7. \A s \in Stream : \A k \in DOMAIN store'[s] : store'[s][k].event \in used
    <3>1. CASE NotAdded(i) /\ Insert(call[i])
      BY <2>1, <3>1, InsertUsed DEF NotAdded
    <3>2. CASE UNCHANGED store
      BY <3>2 DEF UsedInv
    <3>. QED
      BY <1>7, <3>1, <3>2 DEF NotNumbered, NotAdded, PublishThrows, Concat
  <2>. QED
    BY <2>1, <2>5, <2>6, <2>7 DEF UsedInv
<1>8. CASE \/ \E p \in handed : Confirm(p)
           \/ \E p \in marking : Marked(p)
           \/ UNCHANGED vars
  <2>1. UNCHANGED <<object, call, store, used>>
    BY <1>8 DEF Confirm, Marked, vars, history
  <2>. QED
    BY <2>1 DEF UsedInv
<1>9. CASE Restart
  <2>1. /\ UNCHANGED <<store, used>>
        /\ \A h \in Handle : object'[h].uncommitted = <<>>
        /\ \A i \in Call : call'[i].batch = <<>>
    BY <1>1, <1>9 DEF Restart
  <2>. QED
    BY <1>1, <2>1 DEF UsedInv
<1>. QED
  BY <1>2, <1>3, <1>4, <1>5, <1>6, <1>7, <1>8, <1>9 DEF Next, Link

LEMMA UsedInit == Init => UsedInv
<1>1. Elements(<<>>) = {} /\ NoCall.batch = <<>> /\ Unused.uncommitted = <<>>
  BY DEF Elements, NoCall, Unused
<1>. QED
  BY <1>1 DEF Init, UsedInv

-----------------------------------------------------------------------------
(* Every step is a step of the line *)

FifoStep == [Fifo!FifoNext]_(Fifo!fvars)

LEMMA ShortensIsLoss ==
  ASSUME CommitAssumption, IInv, AloneInv, (IInv /\ AloneInv)', UNCHANGED store, Shortens
  PROVE  FifoStep
<1>1. PICK P, Q : P = [s \in Stream |-> Pending(s)] /\ Q = [s \in Stream |-> Pending(s)']
  OBVIOUS
<1>2. \A s \in Stream : P[s] \in Seq(Event) /\ Q[s] \in Seq(Event)
  BY <1>1, WhatWaits, WaitsType, AreAlone
<1>3. ASSUME NEW s \in Stream
      PROVE  \E lost \in 0 .. Len(P[s]) : Q[s] = SubSeq(P[s], lost + 1, Len(P[s]))
  <2>1. PICK p, q : p = P[s] /\ q = Q[s]
    OBVIOUS
  <2>2. p \in Seq(Event) /\ q \in Seq(Event) /\ Len(p) \in Nat
    BY <1>2, <2>1, LenProperties
  <2>3. q = p \/ q = <<>> \/ \E a \in Seq(Event) : p = a \o q
    BY <1>1, <2>1 DEF Shortens
  <2>4. CASE q = p
    <3>1. SubSeq(p, 0 + 1, Len(p)) = p
      BY <2>2, SubSeqFull
    <3>2. 0 \in 0 .. Len(p)
      BY <2>2
    <3>. QED
      BY <2>1, <2>4, <3>1, <3>2
  <2>5. CASE q = <<>>
    <3>1. SubSeq(p, Len(p) + 1, Len(p)) = <<>> /\ Len(p) \in 0 .. Len(p)
      BY <2>2, TakeOff
    <3>. QED
      BY <2>1, <2>5, <3>1
  <2>6. ASSUME NEW a \in Seq(Event), p = a \o q
        PROVE  \E lost \in 0 .. Len(p) : q = SubSeq(p, lost + 1, Len(p))
    <3>1. SubSeq(p, Len(a) + 1, Len(p)) = q /\ Len(a) \in 0 .. Len(p)
      BY <2>2, <2>6, TakeOff
    <3>. QED
      BY <3>1
  <2>. QED
    BY <2>1, <2>3, <2>4, <2>5, <2>6
<1>4. Fifo!Lose
  <2>1. DOMAIN Q = Stream
    BY <1>1
  <2>. QED
    BY <1>1, <1>3, <2>1 DEF Fifo!Lose, Fifo!After
<1>. QED
  BY <1>4 DEF FifoStep, Fifo!FifoNext

LEMMA AddEventFifo ==
  ASSUME CommitAssumption, IInv, AloneInv, UsedInv, (IInv /\ AloneInv)',
         NEW h \in Handle, NEW e \in Event, AddEvent(h, e)
  PROVE  FifoStep
<1>1. PICK s, u : s = object[h].stream /\ u = object[h].uncommitted
  OBVIOUS
<1>2. /\ UNCHANGED <<call, store>> /\ e \notin used
      /\ s \in Stream /\ u \in Seq(Event)
      /\ object'[h].stream = s /\ object'[h].uncommitted = Append(u, e)
      /\ object'[h].rejected = object[h].rejected
      /\ \A g \in Handle : g # h => object'[g] = object[g]
  BY <1>1 DEF AddEvent, IInv, TypeOK, Objects
<1>3. Alone(object, call) /\ Alone(object', call')
  BY AreAlone
<1>4. \A t \in Stream : t # s => Pending(t)' = Pending(t)
  BY <1>1, <1>2, <1>3, OthersWait
<1>5. GaveUp(object', h) <=> GaveUp(object, h)
  BY <1>2 DEF GaveUp
<1>6. CASE GaveUp(object, h)
  <2>1. Pending(s) = <<>> /\ Pending(s)' = <<>>
    BY <1>1, <1>2, <1>3, <1>5, <1>6, WaitsNow, WaitsNext
  <2>. QED
    BY <1>2, <1>4, <2>1, ShortensIsLoss DEF Shortens
<1>7. CASE ~GaveUp(object, h)
  <2>1. Pending(s)' = Append(Pending(s), e)
    <3>1. CASE \A i \in Call : ~Returns(call, i, h)
      <4>1. Pending(s) = u
        BY <1>1, <1>2, <1>3, <1>7, <3>1, WaitsNow
      <4>2. \A i \in Call : ~Returns(call', i, h)
        BY <1>2, <3>1 DEF Returns
      <4>3. Pending(s)' = object'[h].uncommitted
        BY <1>2, <1>3, <1>5, <1>7, <4>2, WaitsNext
      <4>. QED
        BY <1>2, <4>1, <4>3
    <3>2. ASSUME NEW i \in Call, Returns(call, i, h) PROVE Pending(s)' = Append(Pending(s), e)
      <4>1. Pending(s) = call[i].batch \o object[h].uncommitted
        BY <1>1, <1>2, <1>3, <1>7, <3>2, WaitsNow
      <4>2. Returns(call', i, h)
        BY <1>2, <3>2 DEF Returns
      <4>3. Pending(s)' = call'[i].batch \o object'[h].uncommitted
        BY <1>2, <1>3, <1>5, <1>7, <4>2, WaitsNext
      <4>4. PICK b : b = call[i].batch
        OBVIOUS
      <4>5. b \in Seq(Event) /\ Pending(s) = b \o u /\ Pending(s)' = b \o Append(u, e)
        BY <1>1, <1>2, <4>1, <4>3, <4>4 DEF IInv, TypeOK, Calls
      <4>6. b \o Append(u, e) = Append(b \o u, e)
        <5>1. /\ Append(u, e) = u \o <<e>> /\ <<e>> \in Seq(Event) /\ b \o u \in Seq(Event)
          BY <1>2, <4>5, AppendIsConcat, ConcatProperties
        <5>2. Append(b \o u, e) = (b \o u) \o <<e>>
          BY <5>1, AppendIsConcat
        <5>3. (b \o u) \o <<e>> = b \o (u \o <<e>>)
          BY <1>2, <4>5, <5>1, ConcatAssociative
        <5>. QED
          BY <5>1, <5>2, <5>3
      <4>. QED
        BY <4>5, <4>6
    <3>. QED
      BY <3>1, <3>2
  <2>2. Fifo!Enqueue(s, e)
    <3>1. PICK P, Q, L : /\ P = [t \in Stream |-> Pending(t)] /\ Q = [t \in Stream |-> Pending(t)']
                         /\ L = [t \in Stream |-> [i \in DOMAIN store[t] |-> store[t][i].event]]
      OBVIOUS
    <3>2. Q = [P EXCEPT ![s] = Append(@, e)]
      BY <1>2, <1>4, <2>1, <3>1
    <3>3. \A t \in Stream : \A i \in DOMAIN L[t] : L[t][i] # e
      BY <1>2, <3>1 DEF UsedInv
    <3>. QED
      BY <1>2, <3>1, <3>2, <3>3 DEF Fifo!Enqueue
  <2>. QED
    BY <1>2, <2>2 DEF FifoStep, Fifo!FifoNext
<1>. QED
  BY <1>6, <1>7

\* The stored events are the first in their line; what is left of the line
\* stays or is given up.
LEMMA InsertFifo ==
  ASSUME CommitAssumption, IInv, AloneInv, (IInv /\ AloneInv)',
         NEW i \in Call, call[i].pc = "add", Insert(call[i]),
         NEW s \in Stream, s = object[call[i].by].stream,
         NEW u \in Seq(Event), Pending(s) = call[i].batch \o u,
         Pending(s)' = u \/ Pending(s)' = <<>>,
         \A t \in Stream : t # s => Pending(t)' = Pending(t)
  PROVE  FifoStep
<1>1. PICK c, b, p : c = call[i] /\ b = call[i].batch /\ p = Pending(s)
  OBVIOUS
<1>2. /\ c \in Calls /\ b \in Seq(Event) /\ c.batch = b /\ p = b \o u
      /\ store[s] \in Seq(Records)
      /\ \A t \in Stream : store'[t] = IF t = s THEN store[t] \o Revised(c) ELSE store[t]
  BY <1>1, StoreGrows, StoredType DEF AloneInv, IInv, TypeOK, Calls
<1>3. PICK P, Q, L, M :
        /\ P = [t \in Stream |-> Pending(t)] /\ Q = [t \in Stream |-> Pending(t)']
        /\ L = [t \in Stream |-> EventsOf(store[t])]
        /\ M = [t \in Stream |-> EventsOf(store'[t])]
  OBVIOUS
<1>4. M = [L EXCEPT ![s] = @ \o b] /\ L[s] \in Seq(Event)
  <2>1. EventsOf(store[s] \o Revised(c)) = EventsOf(store[s]) \o b /\ EventsOf(store[s]) \in Seq(Event)
    BY <1>2, EventsOfConcat
  <2>2. L[s] \in Seq(Event) /\ M[s] = L[s] \o b
    BY <1>2, <1>3, <2>1
  <2>3. \A t \in Stream : t # s => M[t] = L[t]
    BY <1>2, <1>3
  <2>4. M = [t \in Stream |-> IF t = s THEN L[s] \o b ELSE L[t]]
    <3>1. M = [t \in Stream |-> M[t]]
      BY <1>3
    <3>. QED
      BY <2>2, <2>3, <3>1
  <2>5. L = [t \in Stream |-> L[t]]
    BY <1>3
  <2>. QED
    BY <2>2, <2>4, <2>5
<1>5. /\ p \in Seq(Event) /\ Len(p) = Len(b) + Len(u) /\ Len(b) \in Nat /\ Len(u) \in Nat
      /\ SubSeq(p, 1, Len(b)) = b /\ SubSeq(p, Len(b) + 1, Len(p)) = u
      /\ SubSeq(p, Len(p) + 1, Len(p)) = <<>>
  BY <1>2, TakeOff
<1>6. Q = [P EXCEPT ![s] = Q[s]] /\ P[s] = p /\ (Q[s] = u \/ Q[s] = <<>>)
  BY <1>1, <1>3
<1>7. CASE Len(b) = 0
  <2>1. b = <<>> /\ p = u
    BY <1>2, <1>7, EmptySeq, ConcatEmptySeq
  <2>2. M = L
    BY <1>3, <1>4, <2>1, ConcatEmptySeq
  <2>3. \A t \in Stream : \E lost \in 0 .. Len(P[t]) : Q[t] = SubSeq(P[t], lost + 1, Len(P[t]))
    <3>. SUFFICES ASSUME NEW t \in Stream
                  PROVE  \E lost \in 0 .. Len(P[t]) : Q[t] = SubSeq(P[t], lost + 1, Len(P[t]))
      OBVIOUS
    <3>1. PICK x, y : x = P[t] /\ y = Q[t]
      OBVIOUS
    <3>2. x \in Seq(Event) /\ (y = x \/ y = <<>>)
      <4>1. CASE t = s
        BY <1>5, <1>6, <2>1, <3>1, <4>1
      <4>2. CASE t # s
        BY <1>3, <3>1, <4>2, WhatWaits, WaitsType, AreAlone
      <4>. QED
        BY <4>1, <4>2
    <3>3. Len(x) \in Nat /\ SubSeq(x, 0 + 1, Len(x)) = x /\ SubSeq(x, Len(x) + 1, Len(x)) = <<>>
      BY <3>2, TakeOff
    <3>4. 0 \in 0 .. Len(x) /\ Len(x) \in 0 .. Len(x)
      BY <3>3
    <3>. QED
      BY <3>1, <3>2, <3>3, <3>4
  <2>4. Fifo!Lose
    BY <1>3, <2>2, <2>3 DEF Fifo!Lose, Fifo!After, EventsOf
  <2>. QED
    BY <2>4 DEF FifoStep, Fifo!FifoNext
<1>8. CASE Len(b) # 0
  <2>1. PICK n, l : n = Len(b) /\ l = Len(p)
    OBVIOUS
  <2>2. n \in 1 .. l /\ n \in Nat /\ l \in Nat
    BY <1>5, <1>8, <2>1
  <2>3. PICK lost \in 0 .. (l - n) : Q[s] = SubSeq(p, (n + lost) + 1, l)
    <3>1. CASE Q[s] = u
      <4>1. 0 \in 0 .. (l - n) /\ n + 0 = n
        BY <2>2
      <4>. QED
        BY <1>5, <2>1, <3>1, <4>1
    <3>2. CASE Q[s] = <<>>
      <4>1. l - n \in 0 .. (l - n) /\ n + (l - n) = l
        BY <2>2
      <4>. QED
        BY <1>5, <2>1, <3>2, <4>1
    <3>. QED
      BY <1>6, <3>1, <3>2
  <2>4. Fifo!Store(s, n, lost)
    <3>1. M = [L EXCEPT ![s] = @ \o SubSeq(P[s], 1, n)]
      BY <1>4, <1>5, <1>6, <2>1
    <3>2. Q = [P EXCEPT ![s] = SubSeq(@, (n + lost) + 1, Len(@))]
      BY <1>6, <2>1, <2>3
    <3>. QED
      BY <1>3, <3>1, <3>2 DEF Fifo!Store, Fifo!After, EventsOf
  <2>5. n \in 1 .. Len(P[s]) /\ lost \in 0 .. (Len(P[s]) - n)
    BY <1>6, <2>1, <2>2, <2>3
  <2>. QED
    BY <1>3, <2>4, <2>5 DEF FifoStep, Fifo!FifoNext
<1>. QED
  BY <1>7, <1>8

LEMMA AddedFifo ==
  ASSUME CommitAssumption, IInv, AloneInv, (IInv /\ AloneInv)', NEW i \in Call, Added(i)
  PROVE  FifoStep
<1>1. PICK h, s, u : h = call[i].by /\ s = object[h].stream /\ u = object[h].uncommitted
  OBVIOUS
<1>2. /\ call[i].pc = "add" /\ call[i].pc # "free" /\ Insert(call[i]) /\ object' = object
      /\ call'[i].pc = "publish" /\ \A j \in Call : j # i => call'[j] = call[j]
  BY DEF Added, IInv, TypeOK, Calls
<1>3. /\ h \in Handle /\ s \in Stream /\ ~GaveUp(object, h) /\ u \in Seq(Event)
      /\ Pending(s) = call[i].batch \o u
  BY <1>1, <1>2, CallWaits
<1>4. Alone(object, call) /\ Alone(object', call')
  BY AreAlone
<1>5. ~GaveUp(object', h) /\ object'[h].stream = s
  BY <1>1, <1>2, <1>3 DEF GaveUp
<1>6. Pending(s)' = object'[h].uncommitted
  BY <1>1, <1>2, <1>3, <1>4, <1>5, CallWaitsNext
<1>7. \A t \in Stream : t # s => Pending(t)' = Pending(t)
  <2>1. \A j \in Call : \/ call'[j] = call[j]
                        \/ /\ call[j].pc \in {"ids", "add"} => call[j].by = h
                           /\ call'[j].pc \in {"ids", "add"} => call'[j].by = h
    BY <1>1, <1>2
  <2>. QED
    BY <1>1, <1>2, <1>3, <1>4, <2>1, OthersWait
<1>. QED
  BY <1>1, <1>2, <1>3, <1>6, <1>7, InsertFifo

LEMMA StoredRejectedFifo ==
  ASSUME CommitAssumption, IInv, AloneInv, (IInv /\ AloneInv)', ~Retries,
         NEW i \in Call, NotAdded(i), Insert(call[i])
  PROVE  FifoStep
<1>1. PICK h, s, u : h = call[i].by /\ s = object[h].stream /\ u = object[h].uncommitted
  OBVIOUS
<1>2. call[i].pc = "add" /\ call[i].pc # "free"
  BY DEF NotAdded
<1>3. /\ h \in Handle /\ s \in Stream /\ u \in Seq(Event)
      /\ Pending(s) = call[i].batch \o u
  BY <1>1, <1>2, CallWaits
<1>4. GaveUp(object', h)
  BY <1>1, <1>3 DEF NotAdded, GaveUp, IInv, TypeOK, Objects
<1>5. Pending(s)' = <<>> /\ \A t \in Stream : t # s => Pending(t)' = Pending(t)
  BY <1>1, <1>3, <1>4, OthersAtEnd
<1>. QED
  BY <1>1, <1>2, <1>3, <1>5, InsertFifo

LEMMA NextFifo ==
  ASSUME CommitAssumption, Awaits, Retries => "added" \notin FailAt,
         IInv, AloneInv, UsedInv, (IInv /\ AloneInv)', [Next]_vars
  PROVE  FifoStep
<1>1. ASSUME NEW h \in Handle, \/ \E s \in Stream : Load(h, s)
                               \/ \E i \in Call : Commit(h, i)
                               \/ Release(h)
      PROVE  FifoStep
  <2>1. UNCHANGED store
    BY <1>1 DEF Load, Commit, Release
  <2>2. Shortens
    BY <1>1, LoadShortens, CommitShortens, ReleaseShortens
  <2>. QED
    BY <2>1, <2>2, ShortensIsLoss
<1>2. ASSUME NEW h \in Handle, NEW e \in Event, AddEvent(h, e) PROVE FifoStep
  BY <1>2, AddEventFifo
<1>3. ASSUME NEW i \in Call, Link(i) PROVE FifoStep
  <2>1. CASE Added(i)
    BY <2>1, AddedFifo
  <2>2. CASE Numbered(i) \/ Offer(i) \/ Publish(i) \/ Concat(i)
    <3>1. UNCHANGED store
      BY <2>2 DEF Numbered, Offer, Publish, Concat
    <3>2. Shortens
      BY <2>2, AdvanceShortens, EndShortens
    <3>. QED
      BY <3>1, <3>2, ShortensIsLoss
  <2>. QED
    BY <1>3, <2>1, <2>2 DEF Link
<1>4. ASSUME NEW i \in Call, NotNumbered(i) \/ NotAdded(i) \/ PublishThrows(i) PROVE FifoStep
  <2>1. CASE NotAdded(i) /\ Fails("added") /\ Insert(call[i])
    BY <2>1, StoredRejectedFifo DEF Fails
  <2>2. CASE NotNumbered(i) \/ PublishThrows(i) \/ (NotAdded(i) /\ UNCHANGED store)
    <3>1. UNCHANGED store
      BY <2>2 DEF NotNumbered, PublishThrows
    <3>2. Shortens
      BY <2>2, EndShortens
    <3>. QED
      BY <3>1, <3>2, ShortensIsLoss
  <2>. QED
    BY <1>4, <2>1, <2>2 DEF NotAdded
<1>5. CASE \/ \E p \in handed : Confirm(p)
           \/ \E p \in marking : Marked(p)
           \/ UNCHANGED vars
  <2>1. UNCHANGED <<object, call, store>>
    BY <1>5 DEF Confirm, Marked, vars
  <2>2. Shortens
    BY <2>1, WhatWaits DEF Shortens
  <2>. QED
    BY <2>1, <2>2, ShortensIsLoss
<1>6. CASE Restart
  <2>1. UNCHANGED store
    BY <1>6 DEF Restart
  <2>. QED
    BY <1>6, <2>1, RestartShortens, ShortensIsLoss
<1>. QED
  BY <1>1, <1>2, <1>3, <1>4, <1>5, <1>6 DEF Next

\* With one object per stream and awaited commits every stream is the line of
\* events FifoStream describes: it grows by whole commits, in the order in
\* which the events were added, and no event is stored twice, also when
\* commits fail and are repeated with the same object.  A repetition counts on
\* addEvents to store nothing when it rejects.
THEOREM StreamsAreFifo ==
  (Awaits /\ (Retries => "added" \notin FailAt)) => (Spec => StreamIsFifo)
<1>. SUFFICES ASSUME Awaits, Retries => "added" \notin FailAt PROVE Spec => StreamIsFifo
  OBVIOUS
<1>1. Init => IInv /\ AloneInv /\ UsedInv /\ Fifo!FifoInit
  <2>. SUFFICES ASSUME Init PROVE Fifo!FifoInit
    BY CommitAssumption, InitInv, AloneInit, UsedInit
  <2>1. \A h \in Handle : object[h].stream = None
    BY DEF Init, Unused
  <2>2. \A s \in Stream : Pending(s) = <<>>
    BY <2>1, CommitAssumption, NobodyWaits, WhatWaits DEF CommitAssumption
  <2>3. \A s \in Stream : [k \in DOMAIN store[s] |-> store[s][k].event] = <<>>
    BY DEF Init
  <2>. QED
    BY <2>2, <2>3 DEF Fifo!FifoInit
<1>2. IInv /\ AloneInv /\ UsedInv /\ [Next]_vars => (IInv /\ AloneInv /\ UsedInv)'
  BY CommitAssumption, NextInv, AloneNext, UsedNext
<1>3. IInv /\ AloneInv /\ UsedInv /\ (IInv /\ AloneInv)' /\ [Next]_vars
        => [Fifo!FifoNext]_(Fifo!fvars)
  BY CommitAssumption, NextFifo DEF FifoStep
<1>. QED
  BY <1>1, <1>2, <1>3, PTL DEF Spec, StreamIsFifo, Fifo!FifoSpec
=============================================================================
