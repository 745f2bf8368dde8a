------------------------ MODULE MongoEventLog_proofs ------------------------
(***************************************************************************)
(* Machine-checked proofs about MongoEventLog, for every number of         *)
(* clients, streams and commits, every commit size and every discipline.   *)
(***************************************************************************)
EXTENDS MongoEventLog, FiniteSetTheorems, TLAPS

-----------------------------------------------------------------------------
(* Type correctness *)

LEMMA BecomeType ==
  ASSUME TypeOK, NEW p \in Client, NEW state \in Clients, Become(p, state)
  PROVE  client' \in [Client -> Clients]
BY DEF Become, TypeOK

LEMMA IdleType == Idle \in Clients
BY DEF Idle, Clients, Resting, Waiting, Reading, Repairing, Writing, Pending, Event

LEMMA RejectsType ==
  ASSUME TypeOK, NEW p \in Client, Rejects(p)
  PROVE  client' \in [Client -> Clients]
<1>1. client[p] \in Clients
  BY DEF TypeOK
<1>2. [client[p] EXCEPT !.pc = "failed", !.batch = None, !.next = 0] \in Clients
  BY <1>1 DEF Clients, Resting, Waiting, Reading, Repairing, Writing, Pending
<1>. QED
  BY <1>2, IdleType, BecomeType DEF Rejects

LEMMA FindType ==
  ASSUME TypeOK, NEW s, NEW r
  PROVE  Find(s, r) \subseteq events /\ Find(s, r) \subseteq Event
BY DEF Find, TypeOK

LEMMA LastType == ASSUME NEW S PROVE Last(S) \subseteq S
BY DEF Last

LEMMA CommitType ==
  ASSUME TypeOK, NEW c \in CommitId
  PROVE  /\ commit[c].len \in Nat
         /\ commit[c].base \in Int
         /\ commit[c].stamp \in Nat
         /\ commit[c].stream \in Stream \cup {None}
         /\ Used(c) => commit[c] \in Commits
BY DEF TypeOK, Commits, NoCommit, Used

LEMMA EventType ==
  ASSUME TypeOK, NEW e \in events
  PROVE  /\ e = <<e[1], e[2]>>
         /\ e[1] \in CommitId
         /\ e[2] \in Nat
         /\ StreamRevision(e) \in Int
         /\ FirstMissing(e) = e[2] + 1
BY CommitType DEF TypeOK, Event, StreamRevision, FirstMissing, RestInCommitStream

-----------------------------------------------------------------------------
(* The inductive invariant *)

\* What a call relies on between two of its requests, me being its state:
\* the events it has passed by are stored, and stay stored.
CallOK(me) ==
  /\ me.found \subseteq events
  /\ me.task = "stream" => me.stream \in Stream
  /\ me.pc \in Reading \cup Writing \cup {"loaded", "failed"} => me.task = "stream"
  /\ me.pc = "last" => me.stream \in Stream
  /\ me.pc \in Repairing \cup Writing =>
       /\ me.batch \in CommitId
       /\ Used(me.batch)
       /\ me.next <= commit[me.batch].len
       /\ \A i \in 0 .. (me.next - 1) : <<me.batch, i>> \in events
  /\ me.pc = "settle" => me.next = commit[me.batch].len

\* Every stored event is one of the events of a commit that was made.
EventsOK == \A e \in events : Used(e[1]) /\ e[2] < commit[e[1]].len

AckedOK == \A c \in acked : Used(c) /\ Whole(c)

Store == EventsOK /\ CommitPrefix /\ AckedOK

IInv == TypeOK /\ Store /\ \A p \in Client : CallOK(client[p])

LEMMA IdleOK == CallOK(Idle)
BY DEF CallOK, Idle, Reading, Writing, Repairing

\* A step that leaves the events and the commits alone keeps the invariant
\* when the client that takes it ends up in a state that may rely on them.
LEMMA ClientStep ==
  ASSUME IInv, NEW p \in Client, NEW state \in Clients, CallOK(state),
         Become(p, state), UNCHANGED <<commit, events, acked>>,
         txs' \subseteq CommitId, clock' \in Nat, faults' \in 0 .. MaxFaults
  PROVE  IInv'
<1>1. TypeOK'
  BY BecomeType DEF IInv, TypeOK
<1>2. Store'
  BY DEF IInv, Store, EventsOK, AckedOK, CommitPrefix, Used, Whole, EventsOf
<1>3. ASSUME NEW q \in Client PROVE CallOK(client'[q])
  <2>1. client'[q] = IF q = p THEN state ELSE client[q]
    BY DEF IInv, TypeOK, Become
  <2>. QED
    BY <2>1 DEF IInv
<1>4. ASSUME NEW q \in Client PROVE CallOK(client[q])'
  BY <1>3 DEF CallOK, Used
<1>. QED
  BY <1>1, <1>2, <1>4 DEF IInv

LEMMA RejectsStep ==
  ASSUME IInv, NEW p \in Client, client[p].pc \in Waiting, Rejects(p),
         UNCHANGED <<commit, events, acked>>,
         txs' \subseteq CommitId, clock' \in Nat, faults' \in 0 .. MaxFaults
  PROVE  IInv'
<1> DEFINE failed == [client[p] EXCEPT !.pc = "failed", !.batch = None, !.next = 0]
<1>1. CASE client[p].pc \in Writing
  <2>1. client[p] \in Clients /\ CallOK(client[p])
    BY DEF IInv, TypeOK
  <2>2. failed \in Clients
    BY <2>1 DEF Clients, Resting
  <2>3. CallOK(failed)
    BY <1>1, <2>1 DEF CallOK, Clients, Reading, Writing, Repairing
  <2>4. Become(p, failed)
    BY <1>1 DEF Rejects
  <2>. QED
    BY <2>2, <2>3, <2>4, ClientStep
<1>2. CASE client[p].pc \notin Writing
  <2>1. Become(p, Idle)
    BY <1>2 DEF Rejects
  <2>. QED
    BY <2>1, IdleType, IdleOK, ClientStep
<1>. QED
  BY <1>1, <1>2

LEMMA InitInv == ConstantsAssumption /\ Init => IInv
<1> SUFFICES ASSUME ConstantsAssumption, Init PROVE IInv
  OBVIOUS
<1>1. TypeOK
  BY IdleType DEF ConstantsAssumption, Init, TypeOK
<1>2. Store
  BY DEF Init, Store, EventsOK, AckedOK, CommitPrefix
<1>. QED
  BY <1>1, <1>2, IdleOK DEF Init, IInv

\* Whoever turns to a repair after a stored event e has seen that the event
\* and all those before it are stored.
LEMMA LookupStep ==
  ASSUME IInv, NEW p \in Client, NEW e \in events,
         client[p].pc \in {"find", "last"},
         Become(p, [client[p] EXCEPT !.pc = "lookup", !.batch = e[1],
                                     !.next = FirstMissing(e)]),
         UNCHANGED <<db, acked, faults>>
  PROVE  IInv'
<1> DEFINE me == client[p]
           c == e[1]
           n == FirstMissing(e)
           state == [me EXCEPT !.pc = "lookup", !.batch = c, !.next = n]
<1>0. TypeOK /\ me \in Clients /\ CallOK(me)
  BY DEF IInv, TypeOK
<1>1. c \in CommitId /\ e[2] \in Nat /\ n = e[2] + 1
  BY <1>0, EventType
<1>2. Used(c) /\ e[2] < commit[c].len /\ commit[c].len \in Nat
  BY <1>0, <1>1, CommitType DEF IInv, Store, EventsOK
<1>3. \A i \in 0 .. (n - 1) : <<c, i>> \in events
  BY <1>1 DEF IInv, Store, CommitPrefix
<1>4. n \in Nat /\ n <= commit[c].len
  BY <1>1, <1>2
<1>5. state \in Clients /\ CallOK(state)
  <2> HIDE DEF c, n
  <2>1. state \in Clients
    BY <1>0, <1>1, <1>4 DEF Clients, Waiting, Repairing
  <2>2. CallOK(state)
    BY <1>0, <1>1, <1>2, <1>3, <1>4
       DEF Clients, CallOK, Reading, Writing, Repairing, Used
  <2>. QED
    BY <2>1, <2>2
<1>. QED
  BY <1>0, <1>5, ClientStep DEF db, TypeOK

-----------------------------------------------------------------------------
(* One lemma per group of actions *)

\* The steps of a read, of a repair and of a repair from outside, but for the
\* insertion of an event.
LEMMA ReadSteps ==
  ASSUME IInv, NEW p \in Client,
         \/ Found(p) \/ Cleaned(p) \/ Release(p)
         \/ \E s \in Stream, r \in Ranges : Load(p, s, r)
  PROVE  IInv'
<1> DEFINE me == client[p]
<1>0. TypeOK /\ me \in Clients /\ CallOK(me)
  BY DEF IInv, TypeOK
<1> USE DEF Resting, Waiting, Reading, Repairing, Writing, Pending, db
<1>1. CASE Found(p)
  <2> DEFINE result == Find(me.stream, me.range)
  <2>1. result \subseteq events /\ result \subseteq Event
    BY <1>0, FindType
  <2>2. UNCHANGED <<commit, events, txs, clock, acked, faults>> /\ me.pc = "find"
    BY <1>1 DEF Found
  <2>3. CASE Become(p, [me EXCEPT !.pc = "loaded"])
    <3>1. [me EXCEPT !.pc = "loaded"] \in Clients /\ CallOK([me EXCEPT !.pc = "loaded"])
      BY <1>0, <2>2 DEF Clients, CallOK
    <3>. QED
      BY <1>0, <2>2, <2>3, <3>1, ClientStep DEF TypeOK
  <2>4. CASE Become(p, [me EXCEPT !.pc = "clean", !.found = result])
    <3>1. /\ [me EXCEPT !.pc = "clean", !.found = result] \in Clients
          /\ CallOK([me EXCEPT !.pc = "clean", !.found = result])
      BY <1>0, <2>1, <2>2 DEF Clients, CallOK
    <3>. QED
      BY <1>0, <2>2, <2>4, <3>1, ClientStep DEF TypeOK
  <2>5. ASSUME NEW e \in Last(result),
               Become(p, [me EXCEPT !.pc = "lookup", !.batch = e[1],
                                    !.next = FirstMissing(e)])
        PROVE  IInv'
    BY <2>1, <2>2, <2>5, LastType, LookupStep
  <2>. QED
    BY <1>1, <2>3, <2>4, <2>5 DEF Found
<1>2. CASE Cleaned(p)
  <2> DEFINE state == [me EXCEPT !.pc = "loaded"]
  <2>1. state \in Clients /\ CallOK(state)
    BY <1>0, <1>2 DEF Clients, CallOK, Cleaned
  <2>2. txs' \subseteq CommitId /\ clock' \in Nat /\ faults' \in 0 .. MaxFaults
    BY <1>0, <1>2 DEF Cleaned, WithoutTransactions, TypeOK
  <2>. QED
    BY <1>2, <2>1, <2>2, ClientStep DEF Cleaned
<1>3. CASE Release(p)
  BY <1>0, <1>3, IdleType, IdleOK, ClientStep DEF Release, TypeOK
<1>4. ASSUME NEW s \in Stream, NEW r \in Ranges, Load(p, s, r) PROVE IInv'
  <2> DEFINE state == [Idle EXCEPT !.pc = "find", !.task = "stream",
                                   !.stream = s, !.range = r]
  <2>1. state \in Clients
    BY IdleType DEF Clients
  <2>2. CallOK(state)
    BY DEF CallOK, Idle
  <2>. QED
    BY <1>0, <1>4, <2>1, <2>2, ClientStep DEF Load, TypeOK
<1>. QED
  BY <1>1, <1>2, <1>3, <1>4

LEMMA RepairSteps ==
  ASSUME IInv, NEW p \in Client, LookedUp(p) \/ Restored(p) \/ Repaired(p)
  PROVE  IInv'
<1> DEFINE me == client[p]
<1>0. TypeOK /\ me \in Clients /\ CallOK(me)
  BY DEF IInv, TypeOK
<1> USE DEF Resting, Waiting, Reading, Repairing, Writing, Pending, db
<1>1. CASE LookedUp(p)
  <2>1. UNCHANGED <<commit, events, txs, clock, acked, faults>> /\ me.pc = "lookup"
    BY <1>1 DEF LookedUp
  <2>2. CASE Become(p, [me EXCEPT !.pc = "repair"])
    <3>1. [me EXCEPT !.pc = "repair"] \in Clients /\ CallOK([me EXCEPT !.pc = "repair"])
      BY <1>0, <2>1 DEF Clients, CallOK
    <3>. QED
      BY <1>0, <2>1, <2>2, <3>1, ClientStep DEF TypeOK
  <2>3. CASE Rejects(p)
    BY <1>0, <2>1, <2>3, RejectsStep DEF TypeOK
  <2>. QED
    BY <1>1, <2>2, <2>3 DEF LookedUp
<1>2. CASE Restored(p)
  <2>1. [me EXCEPT !.pc = "repaired"] \in Clients /\ CallOK([me EXCEPT !.pc = "repaired"])
    BY <1>0, <1>2 DEF Clients, CallOK, Restored, BatchDone
  <2>. QED
    BY <1>0, <1>2, <2>1, ClientStep DEF Restored, TypeOK
<1>3. CASE Repaired(p)
  <2> DEFINE state == [me EXCEPT !.pc = "find", !.batch = None, !.next = 0]
  <2>1. txs' \subseteq CommitId /\ clock' \in Nat /\ faults' \in 0 .. MaxFaults
    BY <1>0, <1>3 DEF Repaired, WithoutTransactions, TypeOK
  <2>2. CASE me.task = "stream"
    <3>1. state \in Clients /\ CallOK(state)
      BY <1>0, <1>3, <2>2 DEF Clients, CallOK
    <3>. QED
      BY <1>3, <2>1, <2>2, <3>1, ClientStep DEF Repaired
  <2>3. CASE me.task # "stream"
    BY <1>3, <2>1, <2>3, IdleType, IdleOK, ClientStep DEF Repaired
  <2>. QED
    BY <2>2, <2>3
<1>. QED
  BY <1>1, <1>2, <1>3

LEMMA PendingSteps ==
  ASSUME IInv, NEW p \in Client,
         ListPending(p) \/ Listed(p) \/ Probed(p) \/ Pruned(p) \/ GotLast(p)
  PROVE  IInv'
<1> DEFINE me == client[p]
<1>0. TypeOK /\ me \in Clients /\ CallOK(me)
  BY DEF IInv, TypeOK
<1> USE DEF Resting, Waiting, Reading, Repairing, Writing, Pending, db
<1>1. CASE ListPending(p)
  <2> DEFINE state == [Idle EXCEPT !.pc = "list", !.task = "pending"]
  <2>1. state \in Clients /\ CallOK(state)
    BY IdleType DEF Clients, CallOK, Idle
  <2>. QED
    BY <1>0, <1>1, <2>1, ClientStep DEF ListPending, TypeOK
<1>2. CASE Listed(p)
  <2> DEFINE state == [me EXCEPT !.pc = "probe", !.listed = txs]
  <2>1. state \in Clients /\ CallOK(state)
    BY <1>0, <1>2 DEF Clients, CallOK, Listed, TypeOK
  <2>. QED
    BY <1>0, <1>2, <2>1, ClientStep DEF Listed, TypeOK
<1>3. CASE Probed(p)
  <2> DEFINE S == UNION {Stored(c) : c \in me.listed}
             state == [me EXCEPT !.pc = "prune", !.found = S]
  <2>1. S \subseteq events /\ S \subseteq Event
    BY <1>0 DEF Stored, TypeOK
  <2>2. state \in Clients /\ CallOK(state)
    BY <1>0, <1>3, <2>1 DEF Clients, CallOK, Probed
  <2>. QED
    BY <1>0, <1>3, <2>2, ClientStep DEF Probed, TypeOK
<1>4. CASE Pruned(p)
  <2> DEFINE present == {e[1] : e \in me.found}
  <2>1. /\ UNCHANGED <<commit, events, acked>>
        /\ txs' \subseteq CommitId /\ clock' \in Nat /\ faults' \in 0 .. MaxFaults
    BY <1>0, <1>4 DEF Pruned, TypeOK
  <2>2. CASE Become(p, Idle)
    BY <2>1, <2>2, IdleType, IdleOK, ClientStep
  <2>3. ASSUME NEW c \in present,
               Become(p, [me EXCEPT !.pc = "last", !.stream = commit[c].stream,
                                    !.found = {}, !.listed = {}])
        PROVE  IInv'
    <3> DEFINE state == [me EXCEPT !.pc = "last", !.stream = commit[c].stream,
                                   !.found = {}, !.listed = {}]
    <3>1. c \in CommitId /\ Used(c)
      BY <1>0, EventType DEF CallOK, IInv, Store, EventsOK
    <3>2. commit[c].stream \in Stream
      BY <1>0, <3>1, CommitType DEF Commits
    <3>3. state \in Clients
      BY <1>0, <3>2 DEF Clients
    <3>4. CallOK(state)
      BY <1>0, <1>4, <3>2 DEF CallOK, Clients
    <3>. QED
      BY <2>1, <2>3, <3>3, <3>4, ClientStep
  <2>. QED
    BY <1>4, <2>2, <2>3 DEF Pruned
<1>5. CASE GotLast(p)
  <2> DEFINE result == Find(me.stream, <<0, -1>>)
  <2>1. PICK e \in Last(result) :
          Become(p, [me EXCEPT !.pc = "lookup", !.batch = e[1], !.next = FirstMissing(e)])
    BY <1>5 DEF GotLast
  <2>2. e \in events
    BY <1>0, LastType, FindType
  <2>. QED
    BY <1>5, <2>1, <2>2, LookupStep DEF GotLast
<1>. QED
  BY <1>1, <1>2, <1>3, <1>4, <1>5
\* Storing the next event of a batch: it is one of the events of its commit,
\* all those before it are stored, and nobody's knowledge is disturbed.
LEMMA InsertStep ==
  ASSUME IInv, NEW p \in Client, InsertNext(p)
  PROVE  IInv'
<1> DEFINE me == client[p]
           e == <<me.batch, me.next>>
           state == [me EXCEPT !.next = @ + 1]
<1>0. /\ TypeOK /\ me \in Clients /\ CallOK(me)
      /\ me.pc \in {"repair", "insert"} /\ me.next < commit[me.batch].len
      /\ UNCHANGED <<commit, txs, clock, acked, faults>>
  BY DEF IInv, TypeOK, InsertNext
<1>1. CASE e \in events
  BY <1>0, <1>1, RejectsStep DEF InsertNext, TypeOK, Waiting, Writing, Repairing
<1>2. CASE e \notin events
  <2>1. events' = events \cup {e} /\ Become(p, state)
    BY <1>2 DEF InsertNext
  <2>2. /\ me.batch \in CommitId /\ me.next \in Nat /\ Used(me.batch)
        /\ \A i \in 0 .. (me.next - 1) : <<me.batch, i>> \in events
        /\ commit[me.batch].len \in Nat
    BY <1>0, CommitType DEF CallOK, Clients, Repairing, Writing
  <2>3. TypeOK'
    <3>1. state \in Clients
      BY <1>0, <2>2 DEF Clients
    <3>2. e \in Event
      BY <2>2 DEF Event
    <3>. QED
      BY <1>0, <2>1, <3>1, <3>2, BecomeType DEF TypeOK
  <2>4. EventsOK'
    BY <1>0, <2>1, <2>2 DEF IInv, Store, EventsOK, Used
  <2>5. CommitPrefix'
    <3> SUFFICES ASSUME NEW d \in events', NEW i \in 0 .. d[2]
                 PROVE  <<d[1], i>> \in events'
      BY DEF CommitPrefix
    <3>1. CASE d \in events
      BY <2>1, <3>1 DEF IInv, Store, CommitPrefix
    <3>2. CASE d = e
      <4>1. i = me.next \/ i \in 0 .. (me.next - 1)
        BY <2>2, <3>2
      <4>. QED
        BY <2>1, <2>2, <3>2, <4>1
    <3>. QED
      BY <2>1, <3>1, <3>2
  <2>6. AckedOK'
    BY <1>0, <2>1 DEF IInv, Store, AckedOK, Whole, Used, EventsOf
  <2>7. ASSUME NEW q \in Client PROVE CallOK(client[q])'
    <3>1. CASE q = p
      <4>1. client'[q] = state
        BY <2>1, <3>1 DEF Become, IInv, TypeOK
      <4>2. state.next = me.next + 1 /\ state.batch = me.batch
        BY <1>0 DEF Clients
      <4>3. \A i \in 0 .. (state.next - 1) : <<state.batch, i>> \in events'
        BY <2>1, <2>2, <4>2
      <4>4. state.next <= commit'[state.batch].len
        BY <1>0, <2>2, <4>2
      <4>. QED
        BY <1>0, <2>1, <2>2, <4>1, <4>2, <4>3, <4>4
           DEF CallOK, Clients, Used, Reading, Writing, Repairing
    <3>2. CASE q # p
      <4>1. client'[q] = client[q]
        BY <2>1, <3>2 DEF Become, IInv, TypeOK
      <4>2. CallOK(client[q])
        BY DEF IInv
      <4>. QED
        BY <1>0, <2>1, <4>1, <4>2 DEF CallOK, Used
    <3>. QED
      BY <3>1, <3>2
  <2>. QED
    BY <2>3, <2>4, <2>5, <2>6, <2>7 DEF IInv, Store
<1>. QED
  BY <1>1, <1>2

\* A new commit takes an id that no event, journal entry or call uses.
LEMMA CommitStep ==
  ASSUME ConstantsAssumption, IInv, NEW p \in Client,
         NEW c \in CommitId, NEW n \in Sizes, Commit(p, c, n)
  PROVE  IInv'
<1> DEFINE me == client[p]
           state == [me EXCEPT !.pc = IF n = 1 THEN "insert" ELSE "journal",
                               !.batch = c, !.next = 0]
<1>0. /\ TypeOK /\ me \in Clients /\ CallOK(me) /\ n \in Nat \ {0}
      /\ me.pc \in {"loaded", "failed"} /\ me.stream \in Stream
      /\ ~Used(c) /\ Become(p, state)
      /\ UNCHANGED <<events, txs, acked, faults>>
  BY DEF ConstantsAssumption, IInv, TypeOK, Commit, CallOK
<1>1. PICK t \in (clock - Skew) .. (clock + 1), base \in CurrentRevision(me.found) :
        /\ t >= 0
        /\ commit' = [commit EXCEPT ![c] = [stream |-> me.stream, len |-> n,
                                            base |-> base, stamp |-> t]]
        /\ clock' = IF t > clock THEN t ELSE clock
  BY DEF Commit
<1>2. base \in Int
  <2>1. me.found \subseteq events
    BY <1>0 DEF CallOK
  <2>2. \A e \in me.found : StreamRevision(e) \in Int
    BY <1>0, <2>1, EventType
  <2>. QED
    BY <2>2 DEF CurrentRevision
<1>3. t \in Nat /\ clock' \in Nat
  BY <1>0, <1>1 DEF ConstantsAssumption, TypeOK
<1>4. commit' \in [CommitId -> Commits \cup {NoCommit}]
  BY <1>0, <1>1, <1>2, <1>3 DEF TypeOK, Commits
<1>5. state \in Clients
  BY <1>0 DEF Clients, Waiting, Writing
<1>6. TypeOK'
  BY <1>0, <1>3, <1>4, <1>5, BecomeType DEF TypeOK
<1>7. /\ \A d \in CommitId \ {c} : commit'[d] = commit[d]
      /\ commit'[c].len = n
  BY <1>0, <1>1 DEF TypeOK
<1>8. Used(c)'
  BY <1>0, <1>7 DEF Used
<1>9. Store'
  <2>1. \A e \in events : e[1] \in CommitId /\ e[1] # c
    BY <1>0, EventType DEF IInv, Store, EventsOK
  <2>2. \A d \in acked : d \in CommitId /\ d # c
    BY <1>0 DEF IInv, Store, AckedOK, TypeOK
  <2>3. EventsOK'
    BY <1>0, <1>7, <2>1 DEF IInv, Store, EventsOK, Used
  <2>4. CommitPrefix'
    BY <1>0 DEF IInv, Store, CommitPrefix
  <2>5. AckedOK'
    BY <1>0, <1>7, <2>2 DEF IInv, Store, AckedOK, Used, Whole, EventsOf
  <2>. QED
    BY <2>3, <2>4, <2>5 DEF Store
<1>10. ASSUME NEW q \in Client PROVE CallOK(client[q])'
  <2>1. CASE q = p
    <3>1. client'[q] = state
      BY <1>0, <2>1 DEF Become, TypeOK
    <3>. QED
      BY <1>0, <1>7, <1>8, <3>1
         DEF CallOK, Clients, Used, Reading, Writing, Repairing
  <2>2. CASE q # p
    <3>1. client'[q] = client[q]
      BY <1>0, <2>2 DEF Become, TypeOK
    <3>2. CallOK(client[q])
      BY DEF IInv
    <3>3. client[q].pc = "settle" => client[q].pc \in Writing
      BY DEF Writing
    <3>. QED
      BY <1>0, <1>7, <3>1, <3>2, <3>3 DEF CallOK, Used
  <2>. QED
    BY <2>1, <2>2
<1>. QED
  BY <1>6, <1>9, <1>10 DEF IInv

\* A commit resolves only once all its events are stored.
LEMMA ResolvesStep ==
  ASSUME IInv, NEW p \in Client, Resolves(p), UNCHANGED <<commit, events, clock, faults>>,
         txs' \subseteq CommitId,
         client[p].pc \in Writing, client[p].next = commit[client[p].batch].len
  PROVE  IInv'
<1> DEFINE me == client[p]
           c == me.batch
           state == [me EXCEPT !.pc = "loaded", !.batch = None, !.next = 0,
                               !.found = @ \cup EventsOf(c)]
<1>0. /\ TypeOK /\ me \in Clients /\ CallOK(me)
      /\ acked' = acked \cup {c} /\ Become(p, state)
  BY DEF IInv, TypeOK, Resolves
<1>1. /\ c \in CommitId /\ Used(c) /\ commit[c].len \in Nat
      /\ \A i \in 0 .. (commit[c].len - 1) : <<c, i>> \in events
  BY <1>0, CommitType DEF CallOK
<1>2. EventsOf(c) \subseteq events
  BY <1>1 DEF EventsOf
<1>3. state \in Clients
  BY <1>0, <1>2 DEF Clients, Resting, TypeOK
<1>4. TypeOK'
  BY <1>0, <1>1, <1>3, BecomeType DEF TypeOK
<1>5. Store'
  BY <1>0, <1>1, <1>2
     DEF IInv, Store, EventsOK, CommitPrefix, AckedOK, Used, Whole, EventsOf
<1>6. ASSUME NEW q \in Client PROVE CallOK(client[q])'
  <2>1. client'[q] = IF q = p THEN state ELSE client[q]
    BY <1>0 DEF Become, TypeOK
  <2>2. CallOK(state)
    BY <1>0, <1>2 DEF CallOK, Clients, Reading, Writing, Repairing
  <2>3. CallOK(client'[q])
    BY <2>1, <2>2 DEF IInv
  <2>. QED
    BY <2>3 DEF CallOK, Used
<1>. QED
  BY <1>4, <1>5, <1>6 DEF IInv
LEMMA WriteSteps ==
  ASSUME IInv, NEW p \in Client, Journaled(p) \/ Inserted(p) \/ Settled(p)
  PROVE  IInv'
<1> DEFINE me == client[p]
<1>0. TypeOK /\ me \in Clients /\ CallOK(me)
  BY DEF IInv, TypeOK
<1> USE DEF Waiting, Reading, Repairing, Writing, db
<1>1. CASE Journaled(p)
  <2> DEFINE state == [me EXCEPT !.pc = "insert"]
  <2>1. state \in Clients /\ CallOK(state) /\ me.batch \in CommitId
    BY <1>0, <1>1 DEF Clients, CallOK, Journaled
  <2>. QED
    BY <1>0, <1>1, <2>1, ClientStep DEF Journaled, TypeOK
<1>2. CASE Inserted(p)
  <2> DEFINE state == [me EXCEPT !.pc = "settle"]
  <2>1. CASE commit[me.batch].len = 1
    BY <1>0, <1>2, <2>1, ResolvesStep DEF Inserted, BatchDone, TypeOK
  <2>2. CASE commit[me.batch].len # 1
    <3>1. state \in Clients /\ CallOK(state)
      BY <1>0, <1>2 DEF Clients, CallOK, Inserted, BatchDone
    <3>. QED
      BY <1>0, <1>2, <2>2, <3>1, ClientStep DEF Inserted, TypeOK
  <2>. QED
    BY <2>1, <2>2
<1>3. CASE Settled(p)
  <2>1. txs' \subseteq CommitId
    BY <1>0, <1>3 DEF Settled, WithoutTransactions, TypeOK
  <2>. QED
    BY <1>0, <1>3, <2>1, ResolvesStep DEF Settled, CallOK
<1>. QED
  BY <1>1, <1>2, <1>3

LEMMA FaultSteps ==
  ASSUME ConstantsAssumption, IInv, NEW p \in Client, Fail(p) \/ Crash(p)
  PROVE  IInv'
<1>0. TypeOK
  BY DEF IInv
<1>1. faults' \in 0 .. MaxFaults
  BY <1>0 DEF ConstantsAssumption, TypeOK, Fail, Crash
<1>2. CASE Fail(p)
  <2>1. txs' \subseteq CommitId
    BY <1>0, <1>2 DEF Fail, WithoutTransactions, TypeOK
  <2>. QED
    BY <1>0, <1>1, <1>2, <2>1, RejectsStep DEF Fail, TypeOK
<1>3. CASE Crash(p)
  BY <1>0, <1>1, <1>3, IdleType, IdleOK, ClientStep DEF Crash, TypeOK, db
<1>. QED
  BY <1>2, <1>3

LEMMA NextInv == ConstantsAssumption /\ IInv /\ [Next]_vars => IInv'
<1> SUFFICES ASSUME ConstantsAssumption, IInv, [Next]_vars PROVE IInv'
  OBVIOUS
<1>1. CASE UNCHANGED vars
  BY <1>1 DEF vars, db, IInv, TypeOK, Store, EventsOK, CommitPrefix, AckedOK, CallOK,
              Used, Whole, EventsOf
<1>2. ASSUME NEW p \in Client,
             \/ \E s \in Stream, r \in Ranges : Load(p, s, r)
             \/ \E c \in CommitId, n \in Sizes : Commit(p, c, n)
             \/ ListPending(p) \/ Release(p) \/ Answer(p) \/ Fail(p) \/ Crash(p)
      PROVE  IInv'
  <2>1. CASE Answer(p)
    BY <2>1, ReadSteps, RepairSteps, PendingSteps, InsertStep, WriteSteps DEF Answer
  <2>. QED
    BY <1>2, <2>1, ReadSteps, PendingSteps, CommitStep, FaultSteps
<1>. QED
  BY <1>1, <1>2 DEF Next

-----------------------------------------------------------------------------
(* Theorems *)

LEMMA Invariance == Spec => []IInv
<1>1. Init => IInv
  BY InitInv, ConstantsAssumption
<1>2. IInv /\ [Next]_vars => IInv'
  BY NextInv, ConstantsAssumption
<1>. QED
  BY <1>1, <1>2, PTL DEF Spec

\* Every variable keeps its type in every behaviour of the store.
THEOREM TypeCorrect == Spec => []TypeOK
BY Invariance, PTL DEF IInv

\* The stored events of a commit are always its first ones, however many
\* writers and repairing readers interleave, fail and crash (insertMany in
\* addEvents and repairFailedTransaction).
THEOREM CommitsHavePrefixes == Spec => []CommitPrefix
BY Invariance, PTL DEF IInv, Store

\* A commit that was acknowledged to its caller is completely stored, for
\* good (addEvents).
THEOREM AckedCommitsAreStored == Spec => []AckedIsStored
<1>1. IInv => AckedIsStored
  BY DEF IInv, Store, AckedOK, AckedIsStored
<1>. QED
  BY <1>1, Invariance, PTL

-----------------------------------------------------------------------------
(* What a reader holds ends with a whole commit *)

Holding == {"clean", "loaded", "failed"} \cup Writing

\* Some last event of what a client found belongs to a commit it has all of,
\* from the revision on that it asked for.
EndsWhole(me) ==
  \E e \in Last(me.found) : \A d \in EventsOf(e[1]) :
    StreamRevision(d) >= me.range[1] => d \in me.found

NewestOK(me) ==
  (me.pc \in Holding /\ me.range[2] = -1 /\ me.found # {}) => EndsWhole(me)

\* Before a read has found something the client holds nothing.
Blank == {"find", "last"} \cup Repairing

ReaderOK(me) == NewestOK(me) /\ (me.pc \in Blank => me.found = {})

ReaderInv == \A p \in Client : ReaderOK(client[p])

LEMMA OrderKeys ==
  ASSUME TypeOK, NEW d \in Event
  PROVE  /\ d[1] \in CommitId /\ d[2] \in Nat /\ d = <<d[1], d[2]>>
         /\ commit[d[1]].stamp \in Nat
         /\ StreamRevision(d) \in Int
         /\ StreamRevision(d) = commit[d[1]].base + 1 + d[2]
<1>1. d[1] \in CommitId /\ d[2] \in Nat /\ d = <<d[1], d[2]>>
  BY DEF Event
<1>2. commit[d[1]].stamp \in Nat /\ commit[d[1]].base \in Int
  BY <1>1, CommitType
<1>. QED
  BY <1>1, <1>2 DEF StreamRevision

LEMMA PrecedesTransitive ==
  ASSUME TypeOK, NEW d \in Event, NEW e \in Event, NEW f \in Event,
         Precedes(d, e), Precedes(e, f)
  PROVE  Precedes(d, f)
<1>1. /\ d[2] \in Nat /\ commit[d[1]].stamp \in Nat /\ StreamRevision(d) \in Int
      /\ e[2] \in Nat /\ commit[e[1]].stamp \in Nat /\ StreamRevision(e) \in Int
      /\ f[2] \in Nat /\ commit[f[1]].stamp \in Nat /\ StreamRevision(f) \in Int
  BY OrderKeys
<1>. QED
  BY <1>1 DEF Precedes

\* The events of a commit are ordered by their commitSequence.
LEMMA CommitIsOrdered ==
  ASSUME TypeOK, NEW c \in CommitId, NEW i \in Nat, NEW j \in Nat
  PROVE  Precedes(<<c, i>>, <<c, j>>) <=> i < j
<1>1. <<c, i>> \in Event /\ <<c, j>> \in Event
  BY DEF Event
<1>2. commit[c].stamp \in Nat /\ commit[c].base \in Int
  BY CommitType
<1>. QED
  BY <1>1, <1>2 DEF Precedes, StreamRevision

\* Adding all events of a commit keeps the end whole: either the last event
\* stays, or the last one of the commit takes its place.
LEMMA AddWholeCommit ==
  ASSUME TypeOK, NEW c \in CommitId, Used(c), NEW S \in SUBSET Event, NEW rev,
         S # {} => \E e \in Last(S) : \A d \in EventsOf(e[1]) :
                     StreamRevision(d) >= rev => d \in S
  PROVE  \E e \in Last(S \cup EventsOf(c)) : \A d \in EventsOf(e[1]) :
           StreamRevision(d) >= rev => d \in S \cup EventsOf(c)
<1> DEFINE n == commit[c].len
           l == <<c, n - 1>>
           T == S \cup EventsOf(c)
<1>1. n \in Nat /\ n > 0
  BY CommitType DEF Used
<1>2. /\ l \in EventsOf(c) /\ EventsOf(c) \subseteq Event /\ l[1] = c
      /\ \A d \in EventsOf(c) : d = l \/ Precedes(d, l)
      /\ \A d \in EventsOf(c) : ~Precedes(l, d)
  <2>1. l \in EventsOf(c) /\ EventsOf(c) \subseteq Event
    BY <1>1 DEF EventsOf, Event
  <2>2. ASSUME NEW d \in EventsOf(c)
        PROVE  (d = l \/ Precedes(d, l)) /\ ~Precedes(l, d)
    <3>1. PICK i \in 0 .. (n - 1) : d = <<c, i>>
      BY DEF EventsOf
    <3>2. i \in Nat /\ n - 1 \in Nat /\ (i = n - 1 \/ i < n - 1) /\ ~(n - 1 < i)
      BY <1>1
    <3>. QED
      BY <3>1, <3>2, CommitIsOrdered
  <2>. QED
    BY <2>1, <2>2
<1> HIDE DEF n, l
<1>3. CASE S = {}
  <2>1. l \in Last(T)
    BY <1>2, <1>3 DEF Last
  <2>. QED
    BY <1>2, <2>1
<1>4. CASE S # {}
  <2>1. PICK e \in Last(S) : \A d \in EventsOf(e[1]) : StreamRevision(d) >= rev => d \in S
    BY <1>4
  <2>2. e \in S /\ e \in Event /\ \A d \in S : ~Precedes(e, d)
    BY DEF Last
  <2>3. CASE Precedes(e, l)
    <3>1. ASSUME NEW d \in S, Precedes(l, d) PROVE FALSE
      BY <1>2, <2>2, <2>3, <3>1, PrecedesTransitive
    <3>2. l \in Last(T)
      BY <1>2, <3>1 DEF Last
    <3>. QED
      BY <1>2, <3>2
  <2>4. CASE ~Precedes(e, l)
    <3>1. ASSUME NEW d \in EventsOf(c), Precedes(e, d) PROVE FALSE
      <4>1. CASE d = l
        BY <2>4, <3>1, <4>1
      <4>2. CASE Precedes(d, l)
        BY <1>2, <2>2, <2>4, <3>1, <4>2, PrecedesTransitive
      <4>. QED
        BY <1>2, <4>1, <4>2
    <3>2. e \in Last(T)
      BY <2>2, <3>1 DEF Last
    <3>. QED
      BY <2>1, <3>2
  <2>. QED
    BY <2>3, <2>4
<1>. QED
  BY <1>3, <1>4

\* A read to the end that found its last event to be the last one of its
\* commit found all of the commit.
LEMMA FoundIsWhole ==
  ASSUME IInv, NEW s, NEW r \in Ranges \cup {<<0, -1>>}, r[2] = -1,
         NEW e \in Last(Find(s, r)), IsTransactionOk(r[2], e)
  PROVE  \A d \in EventsOf(e[1]) : StreamRevision(d) >= r[1] => d \in Find(s, r)
<1>1. e \in events /\ commit[e[1]].stream = s
  BY DEF Last, Find
<1>2. TypeOK /\ e[1] \in CommitId /\ e[2] \in Nat /\ commit[e[1]].len \in Nat
  BY <1>1, EventType, CommitType DEF IInv
<1>3. e[2] = commit[e[1]].len - 1
  BY <1>2 DEF IsTransactionOk, RestInCommitStream
<1>4. EventsOf(e[1]) \subseteq events
  BY <1>1, <1>2, <1>3 DEF IInv, Store, CommitPrefix, EventsOf
<1>5. \A d \in EventsOf(e[1]) : d[1] = e[1]
  BY DEF EventsOf
<1>. QED
  BY <1>1, <1>4, <1>5 DEF Find

\* Commits that are in use do not change.
LEMMA NewestFrame ==
  ASSUME NEW me, me.found \subseteq events, NewestOK(me),
         \A e \in events : commit'[e[1]] = commit[e[1]]
  PROVE  NewestOK(me)'
<1>. SUFFICES ASSUME EndsWhole(me) PROVE EndsWhole(me)'
  BY DEF NewestOK
<1>1. PICK e \in Last(me.found) : \A d \in EventsOf(e[1]) :
        StreamRevision(d) >= me.range[1] => d \in me.found
  BY DEF EndsWhole
<1>2. e \in events /\ e \in me.found
  BY DEF Last
<1>3. EventsOf(e[1])' = EventsOf(e[1])
  BY <1>2 DEF EventsOf
<1>4. \A d \in EventsOf(e[1]) : StreamRevision(d)' = StreamRevision(d)
  BY <1>2 DEF EventsOf, StreamRevision
<1>5. \A d \in me.found : Precedes(e, d)' <=> Precedes(e, d)
  BY <1>2 DEF Precedes, StreamRevision
<1>6. e \in Last(me.found)'
  BY <1>5 DEF Last
<1>. QED
  BY <1>1, <1>3, <1>4, <1>6 DEF EndsWhole

CommitsKept == \A e \in events : commit'[e[1]] = commit[e[1]]

\* The client goes on with what it holds.
LEMMA Keeps ==
  ASSUME IInv, ReaderInv, CommitsKept, NEW p \in Client, NEW m, Become(p, m),
         m.found = client[p].found, m.range = client[p].range,
         m.pc \in Holding => client[p].pc \in Holding,
         m.pc \in Blank => client[p].pc \in Blank
  PROVE  ReaderOK(client[p])'
<1>1. client'[p] = m
  BY DEF Become, IInv, TypeOK
<1>2. client[p].found \subseteq events /\ NewestOK(client[p])
  BY DEF IInv, CallOK, ReaderInv, ReaderOK
<1>3. m.found \subseteq events /\ NewestOK(m)
  BY <1>2 DEF NewestOK, EndsWhole
<1>4. NewestOK(m)'
  BY <1>3, NewestFrame DEF CommitsKept
<1>5. m.pc \in Blank => m.found = {}
  BY DEF ReaderInv, ReaderOK
<1>. QED
  BY <1>1, <1>4, <1>5 DEF ReaderOK, NewestOK, EndsWhole

\* The client holds nothing, or nothing that counts.
LEMMA Drops ==
  ASSUME IInv, NEW p \in Client, NEW m, Become(p, m),
         m.found = {} \/ m.pc \notin Holding \cup Blank
  PROVE  ReaderOK(client[p])'
<1>1. client'[p] = m
  BY DEF Become, IInv, TypeOK
<1>. QED
  BY <1>1 DEF ReaderOK, NewestOK

LEMMA BecomesIdle ==
  ASSUME IInv, NEW p \in Client, Become(p, Idle)
  PROVE  ReaderOK(client[p])'
<1>1. Idle.found = {}
  BY DEF Idle
<1>. QED
  BY <1>1, Drops

LEMMA RejectsReader ==
  ASSUME IInv, ReaderInv, CommitsKept, NEW p \in Client, Rejects(p)
  PROVE  ReaderOK(client[p])'
<1> DEFINE m == [client[p] EXCEPT !.pc = "failed", !.batch = None, !.next = 0]
<1>1. CASE client[p].pc \in Writing
  <2>1. client[p] \in Clients
    BY DEF IInv, TypeOK
  <2>2. /\ m.found = client[p].found /\ m.range = client[p].range /\ m.pc = "failed"
        /\ Become(p, m)
    BY <1>1, <2>1 DEF Clients, Rejects
  <2>. QED
    BY <1>1, <2>2, Keeps DEF Holding, Blank, Repairing
<1>2. CASE client[p].pc \notin Writing
  BY <1>2, BecomesIdle DEF Rejects
<1>. QED
  BY <1>1, <1>2

LEMMA ReadReader ==
  ASSUME IInv, ReaderInv, NEW p \in Client,
         \/ Found(p) \/ Cleaned(p) \/ Release(p)
         \/ \E s \in Stream, r \in Ranges : Load(p, s, r)
  PROVE  ReaderOK(client[p])'
<1> DEFINE me == client[p]
<1>0. me \in Clients /\ TypeOK
  BY DEF IInv, TypeOK
<1>1. CASE Found(p)
  <2> DEFINE result == Find(me.stream, me.range)
  <2>1. me.pc = "find" /\ me.found = {} /\ UNCHANGED <<commit, events>>
    BY <1>1 DEF Found, db, ReaderInv, ReaderOK, Blank
  <2>2. ASSUME NEW pc, Become(p, [me EXCEPT !.pc = pc]) PROVE ReaderOK(client[p])'
    <3>1. [me EXCEPT !.pc = pc].found = {}
      BY <1>0, <2>1 DEF Clients
    <3>. QED
      BY <2>2, <3>1, Drops
  <2>3. ASSUME NEW e, Become(p, [me EXCEPT !.pc = "lookup", !.batch = e[1],
                                           !.next = FirstMissing(e)])
        PROVE  ReaderOK(client[p])'
    <3>1. [me EXCEPT !.pc = "lookup", !.batch = e[1], !.next = FirstMissing(e)].found = {}
      BY <1>0, <2>1 DEF Clients
    <3>. QED
      BY <2>3, <3>1, Drops
  <2>4. ASSUME NEW e \in Last(result), IsTransactionOk(me.range[2], e),
               Become(p, [me EXCEPT !.pc = "clean", !.found = result])
        PROVE  ReaderOK(client[p])'
    <3>0. PICK m : m = [me EXCEPT !.pc = "clean", !.found = result]
      OBVIOUS
    <3>1. m.pc = "clean" /\ m.found = result /\ m.range = me.range
      BY <1>0, <3>0 DEF Clients
    <3>2. client'[p] = m
      BY <1>0, <2>4, <3>0 DEF Become, TypeOK
    <3>3. ASSUME me.range[2] = -1 PROVE EndsWhole(m)
      <4>1. me.range \in Ranges \cup {<<0, -1>>}
        BY <1>0 DEF Clients
      <4>2. \A d \in EventsOf(e[1]) : StreamRevision(d) >= me.range[1] => d \in result
        BY <2>4, <3>3, <4>1, FoundIsWhole
      <4>. QED
        BY <2>4, <3>1, <4>2 DEF EndsWhole
    <3>4. NewestOK(m)
      BY <3>1, <3>3 DEF NewestOK
    <3>5. m.found \subseteq events
      BY <1>0, <3>1, FindType
    <3>6. NewestOK(m)'
      BY <2>1, <3>4, <3>5, NewestFrame
    <3>. QED
      BY <3>1, <3>2, <3>6 DEF ReaderOK, NewestOK, EndsWhole, Blank, Repairing
  <2>. QED
    BY <1>1, <2>2, <2>3, <2>4 DEF Found
<1>2. CASE Cleaned(p)
  <2> DEFINE m == [me EXCEPT !.pc = "loaded"]
  <2>1. /\ m.found = me.found /\ m.range = me.range /\ m.pc = "loaded"
        /\ Become(p, m) /\ me.pc = "clean" /\ CommitsKept
    BY <1>0, <1>2 DEF Clients, Cleaned, CommitsKept
  <2>. QED
    BY <2>1, Keeps DEF Holding, Blank, Repairing
<1>3. CASE Release(p)
  BY <1>3, BecomesIdle DEF Release
<1>4. ASSUME NEW s \in Stream, NEW r \in Ranges, Load(p, s, r)
      PROVE  ReaderOK(client[p])'
  <2>1. [Idle EXCEPT !.pc = "find", !.task = "stream", !.stream = s, !.range = r].found = {}
    BY DEF Idle
  <2>. QED
    BY <1>4, <2>1, Drops DEF Load
<1>. QED
  BY <1>1, <1>2, <1>3, <1>4

LEMMA RepairReader ==
  ASSUME IInv, ReaderInv, NEW p \in Client,
         LookedUp(p) \/ Restored(p) \/ Repaired(p) \/ InsertNext(p)
  PROVE  ReaderOK(client[p])'
<1> DEFINE me == client[p]
<1>0. me \in Clients /\ CommitsKept
  BY DEF IInv, TypeOK, CommitsKept, LookedUp, Restored, Repaired, InsertNext, db
<1>1. CASE Rejects(p)
  BY <1>0, <1>1, RejectsReader
<1>2. CASE Become(p, Idle)
  BY <1>2, BecomesIdle
<1>3. ASSUME me.pc \in Repairing, NEW m, Become(p, m), m.found = me.found
      PROVE  ReaderOK(client[p])'
  <2>1. me.found = {}
    BY <1>3 DEF ReaderInv, ReaderOK, Blank
  <2>. QED
    BY <1>3, <2>1, Drops
<1>4. CASE LookedUp(p)
  <2>1. [me EXCEPT !.pc = "repair"].found = me.found /\ me.pc \in Repairing
    BY <1>0, <1>4 DEF Clients, LookedUp, Repairing
  <2>. QED
    BY <1>1, <1>3, <1>4, <2>1 DEF LookedUp
<1>5. CASE Restored(p)
  <2>1. [me EXCEPT !.pc = "repaired"].found = me.found /\ me.pc \in Repairing
    BY <1>0, <1>5 DEF Clients, Restored, Repairing
  <2>. QED
    BY <1>3, <1>5, <2>1 DEF Restored
<1>6. CASE Repaired(p)
  <2>1. /\ [me EXCEPT !.pc = "find", !.batch = None, !.next = 0].found = me.found
        /\ me.pc \in Repairing
    BY <1>0, <1>6 DEF Clients, Repaired, Repairing
  <2>. QED
    BY <1>2, <1>3, <1>6, <2>1 DEF Repaired
<1>7. CASE InsertNext(p)
  <2> DEFINE m == [me EXCEPT !.next = @ + 1]
  <2>1. /\ m.found = me.found /\ m.range = me.range /\ m.pc = me.pc
        /\ Rejects(p) \/ Become(p, m)
    BY <1>0, <1>7 DEF Clients, InsertNext
  <2>. QED
    BY <1>0, <1>1, <2>1, Keeps
<1>. QED
  BY <1>4, <1>5, <1>6, <1>7

LEMMA PendingReader ==
  ASSUME IInv, ReaderInv, NEW p \in Client,
         ListPending(p) \/ Listed(p) \/ Probed(p) \/ Pruned(p) \/ GotLast(p)
  PROVE  ReaderOK(client[p])'
<1> DEFINE me == client[p]
<1>0. me \in Clients
  BY DEF IInv, TypeOK
<1> USE DEF Holding, Blank, Repairing, Writing
<1>1. CASE ListPending(p)
  <2>1. [Idle EXCEPT !.pc = "list", !.task = "pending"].found = {}
    BY DEF Idle
  <2>. QED
    BY <1>1, <2>1, Drops DEF ListPending
<1>2. CASE Listed(p)
  <2>1. [me EXCEPT !.pc = "probe", !.listed = txs].pc = "probe"
    BY <1>0 DEF Clients
  <2>. QED
    BY <1>2, <2>1, Drops DEF Listed
<1>3. CASE Probed(p)
  <2>1. [me EXCEPT !.pc = "prune", !.found = UNION {Stored(c) : c \in me.listed}].pc = "prune"
    BY <1>0 DEF Clients
  <2>. QED
    BY <1>3, <2>1, Drops DEF Probed
<1>4. CASE Pruned(p)
  <2>1. ASSUME NEW s, Become(p, [me EXCEPT !.pc = "last", !.stream = s,
                                           !.found = {}, !.listed = {}])
        PROVE  ReaderOK(client[p])'
    <3>1. [me EXCEPT !.pc = "last", !.stream = s, !.found = {}, !.listed = {}].found = {}
      BY <1>0 DEF Clients
    <3>. QED
      BY <2>1, <3>1, Drops
  <2>. QED
    BY <1>4, <2>1, BecomesIdle DEF Pruned
<1>5. CASE GotLast(p)
  <2>1. me.found = {}
    BY <1>5 DEF GotLast, ReaderInv, ReaderOK
  <2>2. PICK e : Become(p, [me EXCEPT !.pc = "lookup", !.batch = e[1],
                                      !.next = FirstMissing(e)])
    BY <1>5 DEF GotLast
  <2>3. [me EXCEPT !.pc = "lookup", !.batch = e[1], !.next = FirstMissing(e)].found = {}
    BY <1>0, <2>1 DEF Clients
  <2>. QED
    BY <2>2, <2>3, Drops
<1>. QED
  BY <1>1, <1>2, <1>3, <1>4, <1>5

LEMMA CommitKeepsCommits ==
  ASSUME IInv, NEW p \in Client, NEW c \in CommitId, NEW n, Commit(p, c, n)
  PROVE  CommitsKept
<1>1. \A d \in CommitId \ {c} : commit'[d] = commit[d]
  BY DEF Commit, IInv, TypeOK
<1>2. \A e \in events : e[1] \in CommitId /\ e[1] # c
  BY EventType DEF Commit, IInv, Store, EventsOK
<1>. QED
  BY <1>1, <1>2 DEF CommitsKept

LEMMA ResolvesReader ==
  ASSUME IInv, ReaderInv, NEW p \in Client, Resolves(p), UNCHANGED <<commit, events>>,
         client[p].pc \in Writing
  PROVE  ReaderOK(client[p])'
<1> DEFINE me == client[p]
           S == me.found
<1>0. me \in Clients /\ TypeOK /\ CallOK(me) /\ ReaderOK(me)
  BY DEF IInv, TypeOK, ReaderInv
<1>1. PICK c : c = me.batch
  OBVIOUS
<1>2. c \in CommitId /\ Used(c) /\ S \in SUBSET Event /\ S \subseteq events
  BY <1>0, <1>1 DEF CallOK, Clients
<1>3. PICK m : m = [me EXCEPT !.pc = "loaded", !.batch = None, !.next = 0,
                              !.found = @ \cup EventsOf(c)]
  OBVIOUS
<1>4. m.pc = "loaded" /\ m.found = S \cup EventsOf(c) /\ m.range = me.range
  BY <1>0, <1>3 DEF Clients
<1>5. client'[p] = m
  BY <1>0, <1>1, <1>3 DEF Resolves, Become, TypeOK
<1>6. ASSUME me.range[2] = -1 PROVE EndsWhole(m)
  <2>1. S # {} => \E e \in Last(S) : \A d \in EventsOf(e[1]) :
                    StreamRevision(d) >= me.range[1] => d \in S
    BY <1>0, <1>6 DEF ReaderOK, NewestOK, EndsWhole, Holding
  <2>2. \E e \in Last(S \cup EventsOf(c)) : \A d \in EventsOf(e[1]) :
          StreamRevision(d) >= me.range[1] => d \in S \cup EventsOf(c)
    <3> HIDE DEF S
    <3>. QED
      BY <1>0, <1>2, <2>1, AddWholeCommit
  <2>. QED
    BY <1>4, <2>2 DEF EndsWhole
<1>7. NewestOK(m)
  BY <1>4, <1>6 DEF NewestOK
<1>8. NewestOK(m)'
  BY <1>7 DEF NewestOK, EndsWhole, Last, Precedes, EventsOf, StreamRevision
<1>. QED
  BY <1>4, <1>5, <1>8 DEF ReaderOK, NewestOK, EndsWhole, Blank, Repairing

LEMMA WriteReader ==
  ASSUME IInv, ReaderInv, NEW p \in Client,
         \/ Journaled(p) \/ Inserted(p) \/ Settled(p)
         \/ \E c \in CommitId, n \in Sizes : Commit(p, c, n)
  PROVE  ReaderOK(client[p])'
<1> DEFINE me == client[p]
<1>0. me \in Clients
  BY DEF IInv, TypeOK
<1> USE DEF Holding, Blank, Repairing, Writing
<1>1. CASE Journaled(p)
  <2> DEFINE m == [me EXCEPT !.pc = "insert"]
  <2>1. /\ m.found = me.found /\ m.range = me.range /\ m.pc = "insert"
        /\ Become(p, m) /\ me.pc = "journal" /\ CommitsKept
    BY <1>0, <1>1 DEF Clients, Journaled, CommitsKept
  <2>. QED
    BY <2>1, Keeps
<1>2. CASE Inserted(p)
  <2> DEFINE m == [me EXCEPT !.pc = "settle"]
  <2>1. CASE Resolves(p)
    BY <1>2, <2>1, ResolvesReader DEF Inserted, db
  <2>2. CASE Become(p, m)
    <3>1. /\ m.found = me.found /\ m.range = me.range /\ m.pc = "settle"
          /\ me.pc = "insert" /\ CommitsKept
      BY <1>0, <1>2 DEF Clients, Inserted, db, CommitsKept
    <3>. QED
      BY <2>2, <3>1, Keeps
  <2>. QED
    BY <1>2, <2>1, <2>2 DEF Inserted
<1>3. CASE Settled(p)
  BY <1>3, ResolvesReader DEF Settled
<1>4. ASSUME NEW c \in CommitId, NEW n \in Sizes, Commit(p, c, n)
      PROVE  ReaderOK(client[p])'
  <2> DEFINE m == [me EXCEPT !.pc = IF n = 1 THEN "insert" ELSE "journal",
                             !.batch = c, !.next = 0]
  <2>1. /\ m.found = me.found /\ m.range = me.range /\ m.pc \in {"insert", "journal"}
        /\ Become(p, m) /\ me.pc \in {"loaded", "failed"}
    BY <1>0, <1>4 DEF Clients, Commit
  <2>2. CommitsKept
    BY <1>4, CommitKeepsCommits
  <2> HIDE DEF m
  <2>. QED
    BY <2>1, <2>2, Keeps
<1>. QED
  BY <1>1, <1>2, <1>3, <1>4

ClientMoves(p) ==
  \/ \E s \in Stream, r \in Ranges : Load(p, s, r)
  \/ \E c \in CommitId, n \in Sizes : Commit(p, c, n)
  \/ ListPending(p) \/ Release(p) \/ Answer(p) \/ Fail(p) \/ Crash(p)

LEMMA MoverReader ==
  ASSUME IInv, ReaderInv, NEW p \in Client, ClientMoves(p)
  PROVE  ReaderOK(client[p])'
<1>1. CASE Answer(p)
  BY <1>1, ReadReader, RepairReader, PendingReader, WriteReader DEF Answer
<1>2. CASE Fail(p)
  <2>1. Rejects(p) /\ CommitsKept
    BY <1>2 DEF Fail, CommitsKept
  <2>. QED
    BY <2>1, RejectsReader
<1>3. CASE Crash(p)
  BY <1>3, BecomesIdle DEF Crash
<1>. QED
  BY <1>1, <1>2, <1>3, ReadReader, PendingReader, WriteReader DEF ClientMoves

\* A client moves alone, and commits in use stay what they are.
LEMMA OthersRest ==
  ASSUME IInv, NEW p \in Client, ClientMoves(p)
  PROVE  /\ CommitsKept
         /\ \A q \in Client \ {p} : client'[q] = client[q]
<1>1. client' = [client EXCEPT ![p] = client'[p]]
  <2>1. ASSUME NEW m, Become(p, m) PROVE client' = [client EXCEPT ![p] = client'[p]]
    BY <2>1 DEF Become, IInv, TypeOK
  <2>2. \E m : Become(p, m)
    <3>1. CASE Rejects(p)
      BY <3>1 DEF Rejects
    <3>2. CASE Resolves(p)
      BY <3>2 DEF Resolves
    <3>3. CASE Found(p) \/ Cleaned(p) \/ Release(p) \/ Repaired(p) \/ Restored(p)
      BY <3>3 DEF Found, Cleaned, Release, Repaired, Restored
    <3>4. CASE LookedUp(p) \/ InsertNext(p) \/ Journaled(p) \/ Inserted(p) \/ Settled(p)
      BY <3>1, <3>2, <3>4 DEF LookedUp, InsertNext, Journaled, Inserted, Settled
    <3>5. CASE ListPending(p) \/ Listed(p) \/ Probed(p) \/ Pruned(p) \/ GotLast(p)
      BY <3>5 DEF ListPending, Listed, Probed, Pruned, GotLast
    <3>6. CASE Fail(p) \/ Crash(p)
      BY <3>1, <3>6 DEF Fail, Crash
    <3>7. CASE \E s \in Stream, r \in Ranges : Load(p, s, r)
      BY <3>7 DEF Load
    <3>8. CASE \E c \in CommitId, n \in Sizes : Commit(p, c, n)
      BY <3>8 DEF Commit
    <3>. QED
      BY <3>3, <3>4, <3>5, <3>6, <3>7, <3>8 DEF ClientMoves, Answer
  <2>. QED
    BY <2>1, <2>2
<1>2. CommitsKept
  <2>1. CASE UNCHANGED commit
    BY <2>1 DEF CommitsKept
  <2>2. CASE \E c \in CommitId, n \in Sizes : Commit(p, c, n)
    BY <2>2, CommitKeepsCommits
  <2>3. UNCHANGED commit \/ \E c \in CommitId, n \in Sizes : Commit(p, c, n)
    <3>1. CASE Answer(p)
      BY <3>1 DEF Answer, db, Found, Cleaned, LookedUp, InsertNext, Restored, Repaired,
         Journaled, Inserted, Settled, Listed, Probed, Pruned, GotLast
    <3>. QED
      BY <3>1 DEF ClientMoves, db, Load, ListPending, Release, Fail, Crash
  <2>. QED
    BY <2>1, <2>2, <2>3
<1>. QED
  BY <1>1, <1>2 DEF IInv, TypeOK

LEMMA NextReader == IInv /\ ReaderInv /\ [Next]_vars => ReaderInv'
<1> SUFFICES ASSUME IInv, ReaderInv, [Next]_vars PROVE ReaderInv'
  OBVIOUS
<1>1. CASE UNCHANGED vars
  BY <1>1 DEF vars, db, ReaderInv, ReaderOK, NewestOK, EndsWhole, Last, Precedes, EventsOf,
              StreamRevision
<1>2. ASSUME NEW p \in Client, ClientMoves(p), NEW q \in Client
      PROVE  ReaderOK(client[q])'
  <2>1. CASE q = p
    BY <1>2, <2>1, MoverReader
  <2>2. CASE q # p
    <3>1. PICK m : m = client[q]
      OBVIOUS
    <3>2. client'[q] = m /\ CommitsKept
      BY <1>2, <2>2, <3>1, OthersRest
    <3>3. m.found \subseteq events /\ ReaderOK(m)
      BY <3>1 DEF IInv, CallOK, ReaderInv
    <3>4. NewestOK(m)'
      BY <3>2, <3>3, NewestFrame DEF CommitsKept, ReaderOK
    <3>. QED
      BY <3>2, <3>3, <3>4 DEF ReaderOK, NewestOK, EndsWhole
  <2>. QED
    BY <2>1, <2>2
<1>. QED
  BY <1>1, <1>2 DEF Next, ClientMoves, ReaderInv

\* A read to the end of a stream never returns the beginning of a commit as
\* its newest part, although other clients write, repair and fail meanwhile
\* and clocks differ (isTransactionOk in getEventsByRevision, concatEvents).
THEOREM NewestCommitsAreWhole == Spec => []NewestCommitIsWhole
<1>1. Init => ReaderInv
  BY DEF Init, Idle, ReaderInv, ReaderOK, NewestOK
<1>2. IInv /\ ReaderInv /\ [Next]_vars => ReaderInv'
  BY NextReader
<1>3. ReaderInv => NewestCommitIsWhole
  BY DEF ReaderInv, ReaderOK, NewestOK, EndsWhole, Holding, NewestCommitIsWhole
<1>. QED
  BY <1>1, <1>2, <1>3, Invariance, PTL DEF Spec

-----------------------------------------------------------------------------
(* Callers of a stream that take turns: they read it whole, one at a time,   *)
(* and reload it after a failed commit, as getEventStream and commit are     *)
(* meant to be used.  The store then behaves like AtomicEventLog, whatever   *)
(* fails.                                                                    *)

\* The callers take turns, read whole streams, and their clocks agree.
TakingTurns == Exclusive /\ Ranges = {<<0, -1>>} /\ Skew = 0

-----------------------------------------------------------------------------
(* The inductive invariant *)

AllOf(s) == {e \in events : commit[e[1]].stream = s}
Count(s) == Cardinality(AllOf(s))

Stamp(e) == commit[e[1]].stamp

\* Everybody else is out of the way of a client that works on a stream, and
\* out of the way of a client that looks for pending transactions.
TurnsOK ==
  \A p, q \in Client : p # q =>
    /\ client[p].stream # None => client[q].stream # client[p].stream
    /\ client[p].task = "pending" => client[q] = Idle

\* The revisions of a stream number its events, in the order of a find, and
\* a commit that is not whole has the newest of them.
NumberedOK(s) ==
  /\ {StreamRevision(e) : e \in AllOf(s)} = 0 .. (Count(s) - 1)
  /\ \A d, e \in AllOf(s) :
       /\ StreamRevision(d) = StreamRevision(e) => d = e
       /\ StreamRevision(d) < StreamRevision(e) => Stamp(d) <= Stamp(e)
  /\ \A c \in LogOf(s) : Whole(c) \/ \E e \in Stored(c) : StreamRevision(e) = Count(s) - 1

\* A commit that is not whole has its journal entry.
JournalOK == \A c \in CommitId : Stored(c) # {} /\ ~Whole(c) => c \in txs

StampsOK == \A c \in CommitId : Used(c) => commit[c].stamp <= clock /\ commit[c].stream \in Stream

OthersWhole(s, c) == \A d \in LogOf(s) \ {c} : Whole(d)

\* The next event of the batch is the next event of the stream.
BatchOK(me) ==
  /\ me.stream \in Stream
  /\ commit[me.batch].stream = me.stream
  /\ commit[me.batch].base + 1 + me.next = Count(me.stream)
  /\ OthersWhole(me.stream, me.batch)
  /\ \A e \in AllOf(me.stream) : Stamp(e) <= commit[me.batch].stamp

\* What a client knows of the stream whose turn it has.
TurnOK(me) ==
  /\ me.pc = "idle" => me = Idle
  /\ me.pc \in Pending => me.task = "pending"
  /\ me.pc \in Blank => me.found = {}
  /\ me.pc \in Repairing =>
       /\ BatchOK(me)
       /\ me.next > 0
       /\ me.task \in {"stream", "pending"}
       /\ me.pc = "repair" => me.batch \in txs
       /\ me.pc = "repaired" => me.next = commit[me.batch].len
  /\ me.pc \in Writing =>
       /\ BatchOK(me)
       /\ me.found = {e \in AllOf(me.stream) : e[1] # me.batch}
       /\ me.pc = "journal" => me.next = 0
       /\ me.pc = "insert" => me.batch \in txs \/ commit[me.batch].len = 1
  /\ me.pc \in {"clean", "loaded"} =>
       /\ me.found = AllOf(me.stream)
       /\ OthersWhole(me.stream, None)
  /\ me.pc = "prune" => \A c \in me.listed : Stored(c) \subseteq me.found

TurnInv ==
  /\ IsFiniteSet(events)
  /\ TurnsOK
  /\ \A s \in Stream : NumberedOK(s)
  /\ JournalOK
  /\ StampsOK
  /\ \A p \in Client : TurnOK(client[p])
-----------------------------------------------------------------------------
(* The events of a stream *)

LEMMA WholeRange ==
  ASSUME TakingTurns, TypeOK, NEW p \in Client
  PROVE  client[p].range = <<0, -1>>
BY DEF TakingTurns, TypeOK, Clients

LEMMA CountType ==
  ASSUME IsFiniteSet(events), NEW s
  PROVE  IsFiniteSet(AllOf(s)) /\ Count(s) \in Nat
<1>1. AllOf(s) \subseteq events
  BY DEF AllOf
<1>. QED
  BY <1>1, FS_Subset, FS_CardinalityType DEF Count

LEMMA AllOfType ==
  ASSUME IInv, TurnInv, NEW s \in Stream, NEW e \in AllOf(s)
  PROVE  /\ e \in events /\ e \in Event /\ e[1] \in LogOf(s) /\ e \in Stored(e[1])
         /\ Count(s) \in Nat
         /\ StreamRevision(e) \in 0 .. (Count(s) - 1)
         /\ Stamp(e) \in Nat
<1>1. e \in events /\ commit[e[1]].stream = s
  BY DEF AllOf
<1>2. e \in Event /\ e[1] \in CommitId
  BY <1>1, EventType DEF IInv, TypeOK
<1>3. e[1] \in LogOf(s) /\ e \in Stored(e[1])
  BY <1>1, <1>2 DEF LogOf, Stored
<1>4. StreamRevision(e) \in 0 .. (Count(s) - 1)
  BY DEF TurnInv, NumberedOK
<1>. QED
  BY <1>1, <1>2, <1>3, <1>4, CountType, CommitType DEF IInv, TurnInv, Stamp

\* A read of the whole stream selects all of its events.
LEMMA FindsAll ==
  ASSUME IInv, TurnInv, NEW s \in Stream
  PROVE  Find(s, <<0, -1>>) = AllOf(s)
<1>1. ASSUME NEW e \in events, commit[e[1]].stream = s PROVE StreamRevision(e) >= 0
  BY <1>1, AllOfType DEF AllOf
<1>. QED
  BY <1>1 DEF Find, AllOf

\* The last event of a find is the one with the highest revision.
LEMMA LastIsNewest ==
  ASSUME IInv, TurnInv, NEW s \in Stream, NEW e \in Last(AllOf(s))
  PROVE  e \in AllOf(s) /\ StreamRevision(e) = Count(s) - 1
<1>1. e \in AllOf(s)
  BY LastType
<1>2. StreamRevision(e) \in 0 .. (Count(s) - 1) /\ Count(s) \in Nat
  BY <1>1, AllOfType
<1>3. PICK f \in AllOf(s) : StreamRevision(f) = Count(s) - 1
  <2>1. Count(s) - 1 \in 0 .. (Count(s) - 1)
    BY <1>2
  <2>. QED
    BY <2>1 DEF TurnInv, NumberedOK
<1>4. ~Precedes(e, f)
  BY <1>3 DEF Last
<1>5. CASE StreamRevision(e) < StreamRevision(f)
  <2>1. Stamp(e) <= Stamp(f)
    BY <1>1, <1>3, <1>5 DEF TurnInv, NumberedOK
  <2>2. Stamp(e) \in Nat /\ Stamp(f) \in Nat
    BY <1>1, <1>3, AllOfType
  <2>. QED
    BY <1>4, <1>5, <2>1, <2>2 DEF Precedes, Stamp
<1>. QED
  BY <1>1, <1>2, <1>3, <1>5

\* Only the commit of the last event may be torn.
LEMMA NewestIsTorn ==
  ASSUME IInv, TurnInv, NEW s \in Stream, NEW e \in AllOf(s),
         StreamRevision(e) = Count(s) - 1
  PROVE  OthersWhole(s, e[1])
<1>1. SUFFICES ASSUME NEW d \in LogOf(s) \ {e[1]}, ~Whole(d) PROVE FALSE
  BY DEF OthersWhole
<1>2. PICK f \in Stored(d) : StreamRevision(f) = Count(s) - 1
  BY <1>1 DEF TurnInv, NumberedOK
<1>3. f \in AllOf(s) /\ f[1] = d
  BY <1>1 DEF Stored, AllOf, LogOf
<1>4. f = e
  BY <1>2, <1>3 DEF TurnInv, NumberedOK
<1>. QED
  BY <1>1, <1>3, <1>4

\* A commit with its last event stored is whole.
LEMMA LastEventCompletes ==
  ASSUME IInv, NEW e \in events, e[2] = commit[e[1]].len - 1
  PROVE  Whole(e[1])
<1>1. e[1] \in CommitId /\ e[2] \in Nat
  BY EventType DEF IInv
<1>. QED
  BY <1>1 DEF IInv, Store, CommitPrefix, Whole, EventsOf

\* A stream whose last event is the last one of its commit is not torn.
LEMMA FoundOkIsWhole ==
  ASSUME IInv, TurnInv, NEW s \in Stream, NEW e \in Last(AllOf(s)), IsTransactionOk(-1, e)
  PROVE  OthersWhole(s, None)
<1>1. OthersWhole(s, e[1]) /\ e \in events
  BY LastIsNewest, NewestIsTorn, AllOfType
<1>2. e[2] = commit[e[1]].len - 1
  BY <1>1, EventType, CommitType DEF IInv, IsTransactionOk, RestInCommitStream
<1>3. Whole(e[1])
  BY <1>1, <1>2, LastEventCompletes
<1>. QED
  BY <1>1, <1>3 DEF OthersWhole

-----------------------------------------------------------------------------
(* Steps that store nothing *)

\* The journal may lose entries, but none that a torn commit or another
\* client needs.
JournalKept(p) ==
  /\ JournalOK'
  /\ \A q \in Client \ {p} :
       client[q].pc \in {"repair", "insert"} /\ client[q].batch \in txs
         => client[q].batch \in txs'

LEMMA Frame ==
  ASSUME UNCHANGED <<commit, events>>, NEW s
  PROVE  /\ AllOf(s)' = AllOf(s) /\ Count(s)' = Count(s) /\ LogOf(s)' = LogOf(s)
         /\ \A e : StreamRevision(e)' = StreamRevision(e) /\ Stamp(e)' = Stamp(e)
         /\ \A c : /\ Whole(c)' <=> Whole(c)
                   /\ Stored(c)' = Stored(c)
                   /\ Used(c)' <=> Used(c)
                   /\ OthersWhole(s, c)' <=> OthersWhole(s, c)
BY DEF AllOf, Count, LogOf, StreamRevision, Stamp, Whole, Stored, Used, OthersWhole, EventsOf

LEMMA TurnStep ==
  ASSUME IInv, TurnInv, NEW p \in Client, NEW state, Become(p, state), TurnOK(state),
         UNCHANGED <<commit, events, clock>>, TurnsOK', JournalKept(p),
         state.pc \in {"repair", "insert"} /\ state.batch \in txs => state.batch \in txs'
  PROVE  TurnInv'
<1>1. client' = [client EXCEPT ![p] = state] /\ client \in [Client -> Clients]
  BY DEF Become, IInv, TypeOK
<1>2. \A s \in Stream : NumberedOK(s)'
  <2> SUFFICES ASSUME NEW s \in Stream PROVE NumberedOK(s)'
    OBVIOUS
  <2>1. NumberedOK(s)
    BY DEF TurnInv
  <2>. QED
    BY <2>1, Frame DEF NumberedOK
<1>3. StampsOK' /\ JournalOK' /\ IsFiniteSet(events)'
  BY DEF TurnInv, StampsOK, JournalKept, Used
<1>4. ASSUME NEW q \in Client PROVE TurnOK(client[q])'
  <2>1. PICK m : m = IF q = p THEN state ELSE client[q]
    OBVIOUS
  <2>2. client'[q] = m
    BY <1>1, <2>1
  <2>3. TurnOK(m)
    BY <2>1 DEF TurnInv
  <2>4. m.pc \in {"repair", "insert"} /\ m.batch \in txs => m.batch \in txs'
    BY <2>1 DEF JournalKept
  <2>5. BatchOK(m)' <=> BatchOK(m)
    BY Frame DEF BatchOK
  <2>6. TurnOK(m)'
    BY <2>3, <2>4, <2>5, Frame DEF TurnOK, BatchOK
  <2>. QED
    BY <2>2, <2>6 DEF TurnOK, BatchOK
<1>. QED
  BY <1>2, <1>3, <1>4 DEF TurnInv
\* A client that stays on its stream, or leaves it, keeps the turns.
LEMMA SameTurn ==
  ASSUME IInv, TurnInv, NEW p \in Client, NEW state, Become(p, state),
         state.stream \in {client[p].stream, None},
         state.task = "pending" => client[p].task = "pending",
         client[p] = Idle => state = Idle
  PROVE  TurnsOK'
<1>1. \A q \in Client : client'[q] = IF q = p THEN state ELSE client[q]
  BY DEF Become, IInv, TypeOK
<1>. QED
  BY <1>1 DEF TurnInv, TurnsOK

LEMMA SameJournal ==
  ASSUME IInv, TurnInv, UNCHANGED <<commit, events, txs>>, NEW p \in Client
  PROVE  JournalKept(p)
BY Frame DEF TurnInv, JournalOK, JournalKept

\* Removing the journal entries of a stream of whole commits is harmless.
LEMMA StreamSettled ==
  ASSUME IInv, TurnInv, NEW p \in Client, UNCHANGED <<commit, events>>,
         OthersWhole(client[p].stream, None), client[p].stream \in Stream,
         txs' = WithoutTransactions(client[p].stream)
  PROVE  JournalKept(p)
<1> DEFINE s == client[p].stream
<1>1. \A c \in txs : commit[c].stream # s => c \in txs'
  BY DEF WithoutTransactions
<1>2. JournalOK'
  <2> SUFFICES ASSUME NEW c \in CommitId, Stored(c) # {}, ~Whole(c) PROVE c \in txs'
    BY Frame DEF JournalOK
  <2>1. c \in txs
    BY DEF TurnInv, JournalOK
  <2>2. c # None
    BY ConstantsAssumption DEF ConstantsAssumption
  <2>3. commit[c].stream # s
    BY <2>2 DEF OthersWhole, LogOf
  <2>. QED
    BY <1>1, <2>1, <2>3
<1>3. ASSUME NEW q \in Client \ {p}, client[q].pc \in {"repair", "insert"},
             client[q].batch \in txs
      PROVE  client[q].batch \in txs'
  <2>1. BatchOK(client[q])
    BY <1>3 DEF TurnInv, TurnOK, Repairing, Writing
  <2>2. client[q].stream # s
    BY ConstantsAssumption DEF ConstantsAssumption, TurnInv, TurnsOK
  <2>. QED
    BY <1>1, <1>3, <2>1, <2>2 DEF BatchOK
<1>. QED
  BY <1>2, <1>3 DEF JournalKept

\* With the batch complete nothing in the stream is torn.
LEMMA BatchCompletes ==
  ASSUME IInv, NEW me, CallOK(me), BatchOK(me), me.pc \in Repairing \cup Writing,
         me.next = commit[me.batch].len
  PROVE  OthersWhole(me.stream, None)
<1>1. Whole(me.batch)
  BY DEF CallOK, Whole, EventsOf
<1>. QED
  BY <1>1 DEF BatchOK, OthersWhole

LEMMA IdleTurnOK == TurnOK(Idle)
BY DEF TurnOK, Idle, Pending, Blank, Repairing, Writing

LEMMA BecomesIdleTurn ==
  ASSUME IInv, TurnInv, NEW p \in Client, Become(p, Idle),
         UNCHANGED <<commit, events, clock>>, JournalKept(p)
  PROVE  TurnInv'
<1>1. Idle.stream = None /\ Idle.task = "none" /\ Idle.pc = "idle"
  BY DEF Idle
<1>2. TurnsOK'
  BY <1>1, SameTurn
<1>. QED
  BY <1>1, <1>2, IdleTurnOK, TurnStep

LEMMA RejectsTurn ==
  ASSUME IInv, TurnInv, NEW p \in Client, Rejects(p),
         UNCHANGED <<commit, events, clock>>, JournalKept(p)
  PROVE  TurnInv'
<1> DEFINE me == client[p]
           failed == [me EXCEPT !.pc = "failed", !.batch = None, !.next = 0]
<1>1. CASE me.pc \in Writing
  <2>1. me \in Clients
    BY DEF IInv, TypeOK
  <2>2. /\ failed.pc = "failed" /\ failed.stream = me.stream /\ failed.task = me.task
        /\ Become(p, failed)
    BY <1>1, <2>1 DEF Clients, Rejects
  <2>3. me # Idle
    BY <1>1 DEF Idle, Writing
  <2>4. TurnsOK'
    BY <2>2, <2>3, SameTurn
  <2>5. TurnOK(failed)
    BY <2>2 DEF TurnOK, Pending, Blank, Repairing, Writing
  <2> HIDE DEF failed
  <2>. QED
    BY <2>2, <2>4, <2>5, TurnStep
<1>2. CASE me.pc \notin Writing
  BY <1>2, BecomesIdleTurn DEF Rejects
<1>. QED
  BY <1>1, <1>2

-----------------------------------------------------------------------------
(* One lemma per group of actions *)

LEMMA LoadTurn ==
  ASSUME TakingTurns, IInv, TurnInv, NEW p \in Client,
         NEW s \in Stream, NEW r \in Ranges, Load(p, s, r)
  PROVE  TurnInv'
<1> DEFINE state == [Idle EXCEPT !.pc = "find", !.task = "stream", !.stream = s, !.range = r]
<1>1. /\ state.pc = "find" /\ state.task = "stream" /\ state.stream = s /\ state.found = {}
      /\ Become(p, state) /\ UNCHANGED <<commit, events, txs, clock>>
  BY DEF Load, Idle, db
<1>2. TurnsOK'
  <2>1. \A q \in Client \ {p} : client[q].stream # s /\ client[q].task # "pending"
    BY DEF TakingTurns, Load, Free
  <2>2. \A q \in Client : client'[q] = IF q = p THEN state ELSE client[q]
    BY <1>1 DEF Become, IInv, TypeOK
  <2> HIDE DEF state
  <2>. QED
    BY <1>1, <2>1, <2>2 DEF TurnInv, TurnsOK
<1>3. TurnOK(state)
  BY <1>1 DEF TurnOK, Pending, Blank, Repairing, Writing
<1> HIDE DEF state
<1>. QED
  BY <1>1, <1>2, <1>3, SameJournal, TurnStep

\* Whoever turns to a repair after the last event of a stream is about to
\* insert the next event of that stream.
LEMMA LookupTurn ==
  ASSUME IInv, TurnInv, NEW p \in Client, client[p].stream \in Stream,
         client[p].pc \in {"find", "last"}, client[p].task \in {"stream", "pending"},
         NEW e \in Last(AllOf(client[p].stream)), UNCHANGED db,
         Become(p, [client[p] EXCEPT !.pc = "lookup", !.batch = e[1],
                                     !.next = FirstMissing(e)])
  PROVE  TurnInv'
<1> DEFINE me == client[p]
           s == me.stream
           c == e[1]
           n == FirstMissing(e)
           state == [me EXCEPT !.pc = "lookup", !.batch = c, !.next = n]
<1>0. me \in Clients /\ me.found = {} /\ me # Idle /\ UNCHANGED <<commit, events, txs, clock>>
  BY DEF IInv, TypeOK, TurnInv, TurnOK, Blank, Idle, db
<1>1. e \in AllOf(s) /\ StreamRevision(e) = Count(s) - 1
  BY LastIsNewest
<1>2. /\ e \in events /\ c \in CommitId /\ e[2] \in Nat /\ n = e[2] + 1
      /\ commit[c].stream = s /\ commit[c].base \in Int /\ Count(s) \in Nat
  BY <1>1, AllOfType, EventType, CommitType DEF IInv, AllOf
<1>3. commit[c].base + 1 + n = Count(s)
  BY <1>1, <1>2 DEF StreamRevision
<1>4. \A f \in AllOf(s) : Stamp(f) <= commit[c].stamp
  <2> SUFFICES ASSUME NEW f \in AllOf(s) PROVE Stamp(f) <= Stamp(e)
    BY DEF Stamp
  <2>1. StreamRevision(f) \in 0 .. (Count(s) - 1) /\ Stamp(f) \in Nat
    BY AllOfType
  <2>2. CASE StreamRevision(f) = StreamRevision(e)
    BY <1>1, <2>1, <2>2 DEF TurnInv, NumberedOK
  <2>3. CASE StreamRevision(f) < StreamRevision(e)
    BY <1>1, <2>3 DEF TurnInv, NumberedOK
  <2>. QED
    BY <1>1, <1>2, <2>1, <2>2, <2>3
<1>5. OthersWhole(s, c)
  BY <1>1, NewestIsTorn
<1>6. /\ state.pc = "lookup" /\ state.stream = s /\ state.batch = c /\ state.next = n
      /\ state.found = {} /\ state.task = me.task /\ Become(p, state)
  BY <1>0 DEF Clients
<1>7. TurnOK(state)
  <2> HIDE DEF state, n, c
  <2>1. BatchOK(state)
    BY <1>2, <1>3, <1>4, <1>5, <1>6 DEF BatchOK
  <2>. QED
    BY <1>2, <1>6, <2>1 DEF TurnOK, Pending, Blank, Repairing, Writing
<1>8. TurnsOK'
  <2> HIDE DEF state
  <2>. QED
    BY <1>0, <1>6, SameTurn
<1>9. JournalKept(p)
  BY <1>0, SameJournal
<1> HIDE DEF state
<1>. QED
  BY <1>0, <1>6, <1>7, <1>8, <1>9, TurnStep
LEMMA ReadTurn ==
  ASSUME TakingTurns, IInv, TurnInv, NEW p \in Client, Found(p) \/ Cleaned(p) \/ Release(p)
  PROVE  TurnInv'
<1> DEFINE me == client[p]
           s == me.stream
<1>0. me \in Clients /\ TypeOK /\ CallOK(me) /\ TurnOK(me)
  BY DEF IInv, TypeOK, TurnInv
<1>1. CASE Found(p)
  <2>1. /\ me.pc = "find" /\ me.task = "stream" /\ s \in Stream /\ me # Idle
        /\ UNCHANGED db /\ UNCHANGED <<commit, events, txs, clock>>
    <3>1. me.pc = "find" /\ UNCHANGED db
      BY <1>1 DEF Found
    <3>2. me.task = "stream" /\ s \in Stream
      BY <1>0, <3>1 DEF CallOK, Reading
    <3>. QED
      BY <3>1, <3>2 DEF Idle, db
  <2>2. Find(s, me.range) = AllOf(s) /\ me.range[2] = -1
    BY <1>0, <2>1, WholeRange, FindsAll
  <2>3. JournalKept(p)
    BY <2>1, SameJournal
  <2>4. ASSUME AllOf(s) = {}, Become(p, [me EXCEPT !.pc = "loaded"]) PROVE TurnInv'
    <3> DEFINE state == [me EXCEPT !.pc = "loaded"]
    <3>1. /\ state.pc = "loaded" /\ state.stream = s /\ state.found = {}
          /\ state.task = me.task /\ Become(p, state)
      BY <1>0, <2>1, <2>4 DEF Clients, TurnOK, Blank
    <3>2. LogOf(s) = {}
      BY <2>4 DEF LogOf, Stored, AllOf
    <3>3. TurnOK(state)
      BY <2>4, <3>1, <3>2 DEF TurnOK, OthersWhole, Pending, Blank, Repairing, Writing
    <3> HIDE DEF state
    <3>. QED
      BY <2>1, <2>3, <3>1, <3>3, SameTurn, TurnStep
  <2>5. ASSUME NEW e \in Last(AllOf(s)), IsTransactionOk(-1, e),
               Become(p, [me EXCEPT !.pc = "clean", !.found = AllOf(s)])
        PROVE  TurnInv'
    <3> DEFINE state == [me EXCEPT !.pc = "clean", !.found = AllOf(s)]
    <3>1. /\ state.pc = "clean" /\ state.stream = s /\ state.found = AllOf(s)
          /\ state.task = me.task /\ Become(p, state)
      BY <1>0, <2>5 DEF Clients
    <3>2. OthersWhole(s, None)
      BY <2>1, <2>5, FoundOkIsWhole
    <3>3. TurnOK(state)
      BY <3>1, <3>2 DEF TurnOK, Pending, Blank, Repairing, Writing
    <3> HIDE DEF state
    <3>. QED
      BY <2>1, <2>3, <3>1, <3>3, SameTurn, TurnStep
  <2>6. ASSUME NEW e \in Last(AllOf(s)),
               Become(p, [me EXCEPT !.pc = "lookup", !.batch = e[1],
                                    !.next = FirstMissing(e)])
        PROVE  TurnInv'
    BY <2>1, <2>6, LookupTurn
  <2>. QED
    BY <1>1, <2>2, <2>4, <2>5, <2>6 DEF Found
<1>2. CASE Cleaned(p)
  <2> DEFINE state == [me EXCEPT !.pc = "loaded"]
  <2>1. /\ state.pc = "loaded" /\ state.stream = s /\ state.found = me.found
        /\ state.task = me.task /\ Become(p, state) /\ me.pc = "clean" /\ s \in Stream
        /\ me # Idle /\ UNCHANGED <<commit, events, clock>>
        /\ txs' = WithoutTransactions(s)
    BY <1>0, <1>2 DEF Clients, Cleaned, CallOK, Reading, Idle
  <2>2. me.found = AllOf(s) /\ OthersWhole(s, None)
    BY <1>0, <2>1 DEF TurnOK
  <2>3. TurnOK(state)
    BY <2>1, <2>2 DEF TurnOK, Pending, Blank, Repairing, Writing
  <2>4. JournalKept(p)
    BY <2>1, <2>2, StreamSettled
  <2> HIDE DEF state
  <2>. QED
    BY <2>1, <2>3, <2>4, SameTurn, TurnStep
<1>3. CASE Release(p)
  BY <1>3, SameJournal, BecomesIdleTurn DEF Release, db
<1>. QED
  BY <1>1, <1>2, <1>3

LEMMA RepairTurn ==
  ASSUME IInv, TurnInv, NEW p \in Client, LookedUp(p) \/ Restored(p) \/ Repaired(p)
  PROVE  TurnInv'
<1> DEFINE me == client[p]
<1>0. me \in Clients /\ TypeOK /\ CallOK(me) /\ TurnOK(me)
  BY DEF IInv, TypeOK, TurnInv
<1>1. /\ me.pc \in Repairing /\ BatchOK(me) /\ me.next > 0 /\ me # Idle /\ me.found = {}
      /\ me.task \in {"stream", "pending"} /\ me.stream \in Stream
      /\ UNCHANGED <<commit, events, clock>>
  BY <1>0 DEF LookedUp, Restored, Repaired, db, TurnOK, Repairing, Blank, BatchOK, Idle
<1>2. CASE LookedUp(p)
  <2> DEFINE state == [me EXCEPT !.pc = "repair"]
  <2>1. JournalKept(p) /\ UNCHANGED txs
    BY <1>2, SameJournal DEF LookedUp, db
  <2>2. CASE me.batch \in txs /\ Become(p, state)
    <3>1. /\ state.pc = "repair" /\ state.stream = me.stream /\ state.found = {}
          /\ state.batch = me.batch /\ state.next = me.next /\ state.task = me.task
          /\ Become(p, state)
      BY <1>0, <1>1, <2>2 DEF Clients
    <3>2. TurnOK(state)
      BY <1>1, <2>2, <3>1 DEF TurnOK, BatchOK, Pending, Blank, Repairing, Writing
    <3> HIDE DEF state
    <3>. QED
      BY <1>1, <2>1, <3>1, <3>2, SameTurn, TurnStep
  <2>3. CASE Rejects(p)
    BY <1>1, <2>1, <2>3, RejectsTurn
  <2>. QED
    BY <1>2, <2>2, <2>3 DEF LookedUp
<1>3. CASE Restored(p)
  <2> DEFINE state == [me EXCEPT !.pc = "repaired"]
  <2>1. JournalKept(p) /\ UNCHANGED txs /\ me.next = commit[me.batch].len
    BY <1>3, SameJournal DEF Restored, BatchDone, db
  <2>2. /\ state.pc = "repaired" /\ state.stream = me.stream /\ state.found = {}
        /\ state.batch = me.batch /\ state.next = me.next /\ state.task = me.task
        /\ Become(p, state)
    BY <1>0, <1>1, <1>3 DEF Clients, Restored
  <2>3. TurnOK(state)
    BY <1>1, <2>1, <2>2 DEF TurnOK, BatchOK, Pending, Blank, Repairing, Writing
  <2> HIDE DEF state
  <2>. QED
    BY <1>1, <2>1, <2>2, <2>3, SameTurn, TurnStep
<1>4. CASE Repaired(p)
  <2> DEFINE state == [me EXCEPT !.pc = "find", !.batch = None, !.next = 0]
  <2>1. OthersWhole(me.stream, None)
    BY <1>0, <1>1, <1>4, BatchCompletes DEF Repaired, TurnOK
  <2>2. JournalKept(p)
    BY <1>1, <1>4, <2>1, StreamSettled DEF Repaired
  <2>3. CASE Become(p, state)
    <3>1. /\ state.pc = "find" /\ state.stream = me.stream /\ state.found = {}
          /\ state.task = me.task /\ Become(p, state)
      BY <1>0, <1>1, <2>3 DEF Clients
    <3>2. TurnOK(state)
      BY <3>1 DEF TurnOK, Pending, Blank, Repairing, Writing
    <3> HIDE DEF state
    <3>. QED
      BY <1>1, <2>2, <3>1, <3>2, SameTurn, TurnStep
  <2>4. CASE Become(p, Idle)
    BY <1>1, <2>2, <2>4, BecomesIdleTurn
  <2>. QED
    BY <1>4, <2>3, <2>4 DEF Repaired
<1>. QED
  BY <1>2, <1>3, <1>4

\* Only entries of commits without an event are pruned, nobody else being at
\* work meanwhile.
LEMMA PruneIsSafe ==
  ASSUME IInv, TurnInv, NEW p \in Client, client[p].pc = "prune",
         UNCHANGED <<commit, events>>, NEW gone \in SUBSET Absent(client[p]),
         txs' = txs \ gone
  PROVE  JournalKept(p)
<1> DEFINE me == client[p]
<1>1. me.task = "pending" /\ \A c \in me.listed : Stored(c) \subseteq me.found
  BY DEF TurnInv, TurnOK, Pending
<1>2. \A c \in gone : Stored(c) = {}
  <2> SUFFICES ASSUME NEW c \in gone, NEW e \in Stored(c) PROVE FALSE
    OBVIOUS
  <2>1. c \in me.listed /\ c \notin {d[1] : d \in me.found}
    BY DEF Absent
  <2>2. e \in me.found /\ e[1] = c
    BY <1>1, <2>1 DEF Stored
  <2>. QED
    BY <2>1, <2>2
<1>3. JournalOK'
  BY <1>2, Frame DEF TurnInv, JournalOK
<1>4. \A q \in Client \ {p} : client[q] = Idle
  BY <1>1 DEF TurnInv, TurnsOK
<1>. QED
  BY <1>3, <1>4 DEF JournalKept, Idle

LEMMA PendingTurn ==
  ASSUME TakingTurns, IInv, TurnInv, NEW p \in Client,
         ListPending(p) \/ Listed(p) \/ Probed(p) \/ Pruned(p) \/ GotLast(p)
  PROVE  TurnInv'
<1> DEFINE me == client[p]
<1>0. me \in Clients /\ TypeOK /\ CallOK(me) /\ TurnOK(me)
  BY DEF IInv, TypeOK, TurnInv
<1>1. UNCHANGED <<commit, events, clock>>
  BY DEF ListPending, Listed, Probed, Pruned, GotLast, db
<1>2. CASE ListPending(p)
  <2> DEFINE state == [Idle EXCEPT !.pc = "list", !.task = "pending"]
  <2>1. /\ state.pc = "list" /\ state.task = "pending" /\ state.stream = None
        /\ Become(p, state) /\ UNCHANGED txs
    BY <1>2 DEF ListPending, Idle, db
  <2>2. TurnsOK'
    <3>1. \A q \in Client \ {p} : client[q] = Idle
      BY <1>2 DEF TakingTurns, ListPending, AllFree
    <3>2. \A q \in Client : client'[q] = IF q = p THEN state ELSE client[q]
      BY <2>1 DEF Become, IInv, TypeOK
    <3>3. Idle.stream = None /\ Idle.task = "none"
      BY DEF Idle
    <3> HIDE DEF state
    <3>. QED
      BY <2>1, <3>1, <3>2, <3>3 DEF TurnsOK
  <2>3. TurnOK(state)
    BY <2>1 DEF TurnOK, Pending, Blank, Repairing, Writing
  <2> HIDE DEF state
  <2>. QED
    BY <1>1, <2>1, <2>2, <2>3, SameJournal, TurnStep
<1>3. CASE Listed(p)
  <2> DEFINE state == [me EXCEPT !.pc = "probe", !.listed = txs]
  <2>1. /\ state.pc = "probe" /\ state.task = me.task /\ state.stream = me.stream
        /\ Become(p, state) /\ UNCHANGED txs /\ me.pc = "list" /\ me # Idle
    BY <1>0, <1>3 DEF Listed, Clients, Idle, db
  <2>2. TurnOK(state)
    BY <1>0, <2>1 DEF TurnOK, Pending, Blank, Repairing, Writing
  <2> HIDE DEF state
  <2>. QED
    BY <1>1, <2>1, <2>2, SameTurn, SameJournal, TurnStep
<1>4. CASE Probed(p)
  <2> DEFINE S == UNION {Stored(c) : c \in me.listed}
             state == [me EXCEPT !.pc = "prune", !.found = S]
  <2>1. /\ state.pc = "prune" /\ state.task = me.task /\ state.stream = me.stream
        /\ state.found = S /\ state.listed = me.listed
        /\ Become(p, state) /\ UNCHANGED txs /\ me.pc = "probe" /\ me # Idle
    BY <1>0, <1>4 DEF Probed, Clients, Idle, db
  <2>2. TurnOK(state)
    BY <1>0, <2>1 DEF TurnOK, Pending, Blank, Repairing, Writing
  <2> HIDE DEF state
  <2>. QED
    BY <1>1, <2>1, <2>2, SameTurn, SameJournal, TurnStep
<1>5. CASE Pruned(p)
  <2>1. me.pc = "prune" /\ me.task = "pending" /\ txs' = txs \ Absent(me)
    BY <1>0, <1>5 DEF Pruned, TurnOK, Pending
  <2>2. JournalKept(p)
    BY <1>1, <2>1, PruneIsSafe
  <2>3. CASE Become(p, Idle)
    BY <1>1, <2>2, <2>3, BecomesIdleTurn
  <2>4. ASSUME NEW c \in {e[1] : e \in me.found},
               Become(p, [me EXCEPT !.pc = "last", !.stream = commit[c].stream,
                                    !.found = {}, !.listed = {}])
        PROVE  TurnInv'
    <3> DEFINE state == [me EXCEPT !.pc = "last", !.stream = commit[c].stream,
                                   !.found = {}, !.listed = {}]
    <3>1. commit[c].stream # None
      <4>1. c \in CommitId /\ Used(c)
        BY <1>0, EventType DEF CallOK, IInv, Store, EventsOK
      <4>. QED
        BY <4>1, ConstantsAssumption DEF ConstantsAssumption, TurnInv, StampsOK
    <3>2. /\ state.pc = "last" /\ state.task = "pending" /\ state.found = {}
          /\ state.stream = commit[c].stream /\ Become(p, state)
      BY <1>0, <2>1, <2>4 DEF Clients
    <3>3. TurnsOK'
      <4>1. \A q \in Client \ {p} : client[q] = Idle
        BY <2>1 DEF TurnInv, TurnsOK
      <4>2. \A q \in Client : client'[q] = IF q = p THEN state ELSE client[q]
        BY <3>2 DEF Become, IInv, TypeOK
      <4>3. Idle.stream = None /\ Idle.task = "none"
        BY DEF Idle
      <4> HIDE DEF state
      <4>. QED
        BY <3>1, <3>2, <4>1, <4>2, <4>3 DEF TurnsOK
    <3>4. TurnOK(state)
      BY <3>2 DEF TurnOK, Pending, Blank, Repairing, Writing
    <3> HIDE DEF state
    <3>. QED
      BY <1>1, <2>2, <3>2, <3>3, <3>4, TurnStep
  <2>. QED
    BY <1>5, <2>3, <2>4 DEF Pruned
<1>6. CASE GotLast(p)
  <2>1. me.pc = "last" /\ me.stream \in Stream /\ me.task = "pending" /\ UNCHANGED db
    BY <1>0, <1>6 DEF GotLast, CallOK, TurnOK, Pending
  <2>2. Find(me.stream, <<0, -1>>) = AllOf(me.stream)
    BY <2>1, FindsAll
  <2>. QED
    BY <1>6, <2>1, <2>2, LookupTurn DEF GotLast
<1>. QED
  BY <1>2, <1>3, <1>4, <1>5, <1>6
\* The next event of a batch gets the next revision of its stream.
LEMMA InsertTurn ==
  ASSUME IInv, TurnInv, NEW p \in Client, InsertNext(p)
  PROVE  TurnInv'
<1>. PICK me : me = client[p]
  OBVIOUS
<1> DEFINE s == me.stream
           b == me.batch
           e == <<b, me.next>>
           state == [me EXCEPT !.next = @ + 1]
<1>0. /\ me \in Clients /\ TypeOK /\ CallOK(me) /\ TurnOK(me)
      /\ me.pc \in {"repair", "insert"} /\ me.next < commit[b].len
      /\ UNCHANGED <<commit, txs, clock>>
  BY DEF IInv, TypeOK, TurnInv, InsertNext
<1>1. /\ BatchOK(me) /\ s \in Stream /\ commit[b].stream = s
      /\ b \in CommitId /\ Used(b) /\ me.next \in Nat /\ commit[b].len \in Nat
      /\ commit[b].base \in Int /\ Stamp(e) = commit[b].stamp /\ commit[b].stamp \in Nat
      /\ \A i \in 0 .. (me.next - 1) : <<b, i>> \in events
      /\ Count(s) \in Nat /\ IsFiniteSet(AllOf(s)) /\ IsFiniteSet(events)
  <2>1. BatchOK(me)
    BY <1>0 DEF TurnOK, Repairing, Writing
  <2>2. s \in Stream /\ commit[b].stream = s
    BY <2>1 DEF BatchOK
  <2>3. /\ b \in CommitId /\ Used(b) /\ me.next \in Nat
        /\ \A i \in 0 .. (me.next - 1) : <<b, i>> \in events
    BY <1>0 DEF CallOK, Clients, Repairing, Writing
  <2>4. IsFiniteSet(events)
    BY DEF TurnInv
  <2>. QED
    BY <1>0, <2>1, <2>2, <2>3, <2>4, CommitType, CountType DEF Stamp
<1>2. StreamRevision(e) = Count(s)
  BY <1>1 DEF StreamRevision, BatchOK
<1>3. e \notin events
  <2>1. SUFFICES ASSUME e \in AllOf(s) PROVE FALSE
    BY <1>1 DEF AllOf
  <2>. QED
    BY <1>1, <1>2, <2>1, AllOfType
<1>4. events' = events \cup {e} /\ Become(p, state)
  BY <1>3 DEF InsertNext
<1>5. \A q \in Client : client'[q] = IF q = p THEN state ELSE client[q]
  BY <1>0, <1>4 DEF Become, TypeOK
<1>6. /\ state.pc = me.pc /\ state.stream = s /\ state.batch = b /\ state.next = me.next + 1
      /\ state.task = me.task /\ state.found = me.found /\ me # Idle
  BY <1>0 DEF Clients, Idle
<1>7. TurnsOK'
  <2> HIDE DEF state
  <2>. QED
    BY <1>4, <1>6, SameTurn
<1>8. \A f : StreamRevision(f)' = StreamRevision(f) /\ Stamp(f)' = Stamp(f)
  BY <1>0 DEF StreamRevision, Stamp
<1>9. /\ AllOf(s)' = AllOf(s) \cup {e} /\ Count(s)' = Count(s) + 1
      /\ \A t \in Stream \ {s} : AllOf(t)' = AllOf(t) /\ Count(t)' = Count(t)
  <2>1. /\ AllOf(s)' = AllOf(s) \cup {e} /\ e \notin AllOf(s)
        /\ \A t \in Stream \ {s} : AllOf(t)' = AllOf(t)
    BY <1>0, <1>1, <1>3, <1>4 DEF AllOf
  <2>. QED
    BY <1>1, <2>1, FS_AddElement DEF Count
<1>10. /\ \A c : Whole(c) => Whole(c)'
       /\ Stored(b)' = Stored(b) \cup {e}
       /\ \A c \in CommitId \ {b} : Stored(c)' = Stored(c) /\ (Whole(c)' <=> Whole(c))
       /\ \A c : Used(c)' <=> Used(c)
  BY <1>0, <1>4 DEF Whole, Stored, EventsOf, Used
<1>11. /\ LogOf(s)' = LogOf(s) \cup {b}
       /\ \A t \in Stream \ {s} : LogOf(t)' = LogOf(t)
  BY <1>0, <1>1, <1>10 DEF LogOf
<1>12. OthersWhole(s, b)' /\ OthersWhole(s, b)
  BY <1>1, <1>10, <1>11 DEF BatchOK, OthersWhole
<1>13. \A t \in Stream \ {s} : \A c : OthersWhole(t, c) => OthersWhole(t, c)'
  BY <1>10, <1>11 DEF OthersWhole
<1>14. NumberedOK(s)'
  <2>1. {StreamRevision(f) : f \in AllOf(s) \cup {e}} = 0 .. Count(s)
    <3>1. {StreamRevision(f) : f \in AllOf(s)} = 0 .. (Count(s) - 1)
      BY <1>1 DEF TurnInv, NumberedOK
    <3>2. {StreamRevision(f) : f \in AllOf(s) \cup {e}}
            = {StreamRevision(f) : f \in AllOf(s)} \cup {Count(s)}
      BY <1>2
    <3>3. (0 .. (Count(s) - 1)) \cup {Count(s)} = 0 .. Count(s)
      BY <1>1
    <3>. QED
      BY <3>1, <3>2, <3>3
  <2>2. ASSUME NEW d \in AllOf(s) \cup {e}, NEW f \in AllOf(s) \cup {e}
        PROVE  /\ StreamRevision(d) = StreamRevision(f) => d = f
               /\ StreamRevision(d) < StreamRevision(f) => Stamp(d) <= Stamp(f)
    <3>1. ASSUME NEW g \in AllOf(s)
          PROVE  StreamRevision(g) \in 0 .. (Count(s) - 1) /\ Stamp(g) <= Stamp(e)
      BY <1>1, AllOfType DEF BatchOK
    <3>2. CASE d \in AllOf(s) /\ f \in AllOf(s)
      BY <1>1, <3>2 DEF TurnInv, NumberedOK
    <3>3. CASE d = e \/ f = e
      BY <1>1, <1>2, <3>1, <3>3
    <3>. QED
      BY <3>2, <3>3
  <2>3. ASSUME NEW c \in LogOf(s) \cup {b}
        PROVE  Whole(c)' \/ \E f \in Stored(c)' : StreamRevision(f) = Count(s)
    <3>1. CASE c = b
      BY <1>2, <1>10, <3>1
    <3>2. CASE c # b
      BY <1>10, <1>12, <3>2 DEF OthersWhole
    <3>. QED
      BY <3>1, <3>2
  <2>4. Count(s)' - 1 = Count(s)
    BY <1>1, <1>9
  <2>5. {StreamRevision(f) : f \in AllOf(s)}' = {StreamRevision(f) : f \in AllOf(s) \cup {e}}
    BY <1>8, <1>9
  <2> HIDE DEF e, s, b
  <2>6. \A d, f \in AllOf(s)' :
          /\ StreamRevision(d)' = StreamRevision(f)' => d = f
          /\ StreamRevision(d)' < StreamRevision(f)' => Stamp(d)' <= Stamp(f)'
    BY <1>8, <1>9, <2>2
  <2>7. \A c \in LogOf(s)' :
          Whole(c)' \/ \E f \in Stored(c)' : StreamRevision(f)' = Count(s)' - 1
    BY <1>8, <1>11, <2>3, <2>4
  <2>. QED
    BY <2>1, <2>4, <2>5, <2>6, <2>7 DEF NumberedOK<1>15. ASSUME NEW t \in Stream \ {s} PROVE NumberedOK(t)'
  <2>1. NumberedOK(t) /\ AllOf(t)' = AllOf(t) /\ Count(t)' = Count(t) /\ LogOf(t)' = LogOf(t)
    BY <1>9, <1>11 DEF TurnInv
  <2>2. \A c \in LogOf(t) : c # b /\ c \in CommitId
    BY <1>1, <1>15 DEF LogOf
  <2>3. \A c \in LogOf(t) : Stored(c)' = Stored(c) /\ (Whole(c)' <=> Whole(c))
    BY <1>10, <2>2
  <2>. QED
    BY <1>8, <2>1, <2>3 DEF NumberedOK
<1>16. JournalOK'
  <2> SUFFICES ASSUME NEW c \in CommitId, Stored(c)' # {}, ~Whole(c)'
               PROVE  c \in txs
    BY <1>0 DEF JournalOK
  <2>1. CASE c # b
    BY <1>10, <2>1 DEF TurnInv, JournalOK
  <2>2. CASE c = b /\ me.pc = "repair"
    BY <1>0, <2>2 DEF TurnOK, Repairing
  <2>3. CASE c = b /\ me.pc = "insert" /\ b \notin txs
    <3>1. commit[b].len = 1
      BY <1>0, <2>3 DEF TurnOK, Writing
    <3>2. e = <<b, 0>>
      BY <1>0, <1>1, <3>1
    <3>3. EventsOf(b)' = {<<b, 0>>}
      BY <1>0, <3>1 DEF EventsOf
    <3>. QED
      BY <1>4, <2>3, <3>2, <3>3 DEF Whole
  <2>. QED
    BY <1>0, <2>1, <2>2, <2>3
<1>17. StampsOK' /\ IsFiniteSet(events)'
  BY <1>0, <1>1, <1>4, <1>10, FS_AddElement DEF TurnInv, StampsOK
<1>18. TurnOK(client[p])'
  <2>1. client'[p] = state
    BY <1>5
  <2>2. BatchOK(state)'
    <3>1. commit[b].base + 1 + (me.next + 1) = Count(s)'
      BY <1>1, <1>9 DEF BatchOK
    <3>2. \A f \in AllOf(s)' : Stamp(f)' <= commit[b].stamp
      BY <1>1, <1>8, <1>9 DEF BatchOK
    <3> HIDE DEF state, e
    <3>. QED
      BY <1>0, <1>1, <1>6, <1>12, <3>1, <3>2 DEF BatchOK
  <2>3. me.pc = "insert" => me.found = {f \in AllOf(s)' : f[1] # b}
    BY <1>0, <1>9 DEF TurnOK, Writing
  <2>4. state.next > 0
    BY <1>1, <1>6
  <2>5. (state.pc = "repair" => b \in txs') /\ (state.pc = "insert" => b \in txs' \/ commit'[b].len = 1)
    BY <1>0, <1>6 DEF TurnOK, Repairing, Writing
  <2>6. state.pc \in Blank => state.found = {}
    BY <1>0, <1>6 DEF TurnOK
  <2>7. state.pc = "repair" => state.task \in {"stream", "pending"}
    BY <1>0, <1>6 DEF TurnOK, Repairing
  <2>8. PICK m : m = state
    OBVIOUS
  <2> HIDE DEF state
  <2>9. TurnOK(m)'
    BY <1>0, <1>6, <2>2, <2>3, <2>4, <2>5, <2>6, <2>7, <2>8
       DEF TurnOK, BatchOK, Pending, Repairing, Writing
  <2>. QED
    BY <2>1, <2>8, <2>9 DEF TurnOK, BatchOK
<1>19. ASSUME NEW q \in Client \ {p} PROVE TurnOK(client[q])'
  <2>1. PICK m : m = client[q]
    OBVIOUS
  <2>2. client'[q] = m /\ TurnOK(m) /\ m.stream # s
    BY <1>1, <1>5, <2>1, ConstantsAssumption DEF ConstantsAssumption, TurnInv, TurnsOK
  <2>3. BatchOK(m) => BatchOK(m)'
    <3>1. SUFFICES ASSUME BatchOK(m) PROVE BatchOK(m)'
      OBVIOUS
    <3>2. m.stream \in Stream \ {s}
      BY <2>2, <3>1 DEF BatchOK
    <3>. QED
      BY <1>0, <1>8, <1>9, <1>13, <3>1, <3>2 DEF BatchOK
  <2>4. m.pc \in {"clean", "loaded"} \cup Writing => m.stream \in Stream \ {s}
    BY <2>1, <2>2 DEF IInv, CallOK, Reading
  <2>5. m.pc # "prune"
    BY <1>6, <2>1, <2>2 DEF TurnOK, Pending, TurnInv, TurnsOK
  <2>6. TurnOK(m)'
    BY <1>0, <1>9, <1>13, <2>2, <2>3, <2>4, <2>5 DEF TurnOK, Repairing
  <2>. QED
    BY <2>2, <2>6 DEF TurnOK, BatchOK
<1>. QED
  BY <1>0, <1>7, <1>14, <1>15, <1>16, <1>17, <1>18, <1>19 DEF TurnInv
\* A caller that holds all of a whole stream gives its events the revisions
\* that follow.
LEMMA CommitTurn ==
  ASSUME TakingTurns, IInv, TurnInv, NEW p \in Client,
         NEW c \in CommitId, NEW n \in Sizes, Commit(p, c, n)
  PROVE  TurnInv'
<1>. PICK me : me = client[p]
  OBVIOUS
<1> DEFINE s == me.stream
           state == [me EXCEPT !.pc = IF n = 1 THEN "insert" ELSE "journal",
                               !.batch = c, !.next = 0]
<1>0. /\ me \in Clients /\ TypeOK /\ CallOK(me) /\ TurnOK(me) /\ n \in Nat \ {0}
      /\ me.pc = "loaded" /\ ~Used(c) /\ Become(p, state)
      /\ UNCHANGED <<events, txs>>
  BY ConstantsAssumption DEF ConstantsAssumption, IInv, TypeOK, TurnInv, Commit, TakingTurns
<1>1. s \in Stream /\ me.found = AllOf(s) /\ OthersWhole(s, None) /\ me # Idle
  BY <1>0 DEF CallOK, TurnOK, Idle
<1>2. PICK t \in clock .. (clock + 1), base \in CurrentRevision(AllOf(s)) :
        /\ commit' = [commit EXCEPT ![c] = [stream |-> s, len |-> n,
                                            base |-> base, stamp |-> t]]
        /\ clock' = IF t > clock THEN t ELSE clock
  <2>1. clock - Skew = clock
    BY <1>0 DEF TypeOK, TakingTurns
  <2>. QED
    BY <1>1, <2>1 DEF Commit
<1>3. clock \in Nat /\ t \in Nat /\ clock <= t /\ clock' = t
  BY <1>0, <1>2 DEF TypeOK
<1>4. Count(s) \in Nat /\ IsFiniteSet(events)
  BY CountType DEF TurnInv
<1>5. base + 1 = Count(s)
  <2>1. CASE AllOf(s) = {}
    BY <1>2, <2>1, FS_EmptySet DEF CurrentRevision, Count
  <2>2. CASE AllOf(s) # {}
    <3>1. PICK e \in AllOf(s) : base = StreamRevision(e)
                               /\ \A f \in AllOf(s) : StreamRevision(f) <= base
      BY <1>2, <2>2 DEF CurrentRevision
    <3>2. StreamRevision(e) \in 0 .. (Count(s) - 1)
      BY <1>1, AllOfType
    <3>3. Count(s) - 1 \in 0 .. (Count(s) - 1)
      BY <1>4, <3>2
    <3>4. PICK f \in AllOf(s) : StreamRevision(f) = Count(s) - 1
      BY <1>1, <3>3 DEF TurnInv, NumberedOK
    <3>5. StreamRevision(f) <= base
      BY <3>1
    <3>. QED
      BY <1>4, <3>1, <3>2, <3>4, <3>5
  <2>. QED
    BY <2>1, <2>2
<1>6. /\ \A d \in CommitId \ {c} : commit'[d] = commit[d]
      /\ commit'[c] = [stream |-> s, len |-> n, base |-> base, stamp |-> t]
  BY <1>0, <1>2 DEF TypeOK
<1>7. \A e \in events : e[1] \in CommitId \ {c}
  BY <1>0, EventType DEF IInv, Store, EventsOK
<1>8. Stored(c) = {} /\ \A d : Stored(d)' = Stored(d)
  BY <1>0, <1>7 DEF Stored
<1>9. \A e \in events : StreamRevision(e)' = StreamRevision(e) /\ Stamp(e)' = Stamp(e)
  BY <1>6, <1>7 DEF StreamRevision, Stamp
<1>10. \A d \in CommitId \ {c} : (Whole(d)' <=> Whole(d)) /\ (Used(d)' <=> Used(d))
  BY <1>0, <1>6 DEF Whole, EventsOf, Used
<1>11. ASSUME NEW q \in Stream
       PROVE  AllOf(q)' = AllOf(q) /\ Count(q)' = Count(q) /\ LogOf(q)' = LogOf(q)
  <2>1. AllOf(q)' = AllOf(q)
    BY <1>0, <1>6, <1>7 DEF AllOf
  <2>2. LogOf(q)' = LogOf(q)
    BY <1>6, <1>8 DEF LogOf
  <2>. QED
    BY <2>1, <2>2 DEF Count
<1>12. \A q \in Stream : c \notin LogOf(q) /\ LogOf(q) \subseteq CommitId
  BY <1>8 DEF LogOf
<1>13. \A q \in Stream : \A d : OthersWhole(q, d)' <=> OthersWhole(q, d)
  BY <1>10, <1>11, <1>12 DEF OthersWhole
<1>14. ASSUME NEW q \in Stream PROVE NumberedOK(q)'
  <2>1. AllOf(q) \subseteq events /\ \A d : Stored(d) \subseteq events
    BY DEF AllOf, Stored
  <2>2. NumberedOK(q)
    BY DEF TurnInv
  <2>3. {StreamRevision(e) : e \in AllOf(q)}' = {StreamRevision(e) : e \in AllOf(q)}
    BY <1>9, <1>11, <2>1
  <2>4. \A d, e \in AllOf(q)' :
          /\ StreamRevision(d)' = StreamRevision(e)' => d = e
          /\ StreamRevision(d)' < StreamRevision(e)' => Stamp(d)' <= Stamp(e)'
    BY <1>9, <1>11, <2>1, <2>2 DEF NumberedOK
  <2>5. \A d \in LogOf(q)' :
          Whole(d)' \/ \E e \in Stored(d)' : StreamRevision(e)' = Count(q)' - 1
    BY <1>8, <1>9, <1>10, <1>11, <1>12, <2>1, <2>2 DEF NumberedOK
  <2>. QED
    BY <1>11, <2>2, <2>3, <2>4, <2>5 DEF NumberedOK
<1>15. JournalOK'
  BY <1>0, <1>8, <1>10 DEF TurnInv, JournalOK
<1>16. StampsOK'
  <2> SUFFICES ASSUME NEW d \in CommitId, Used(d)'
               PROVE  commit'[d].stamp <= clock' /\ commit'[d].stream \in Stream
    BY DEF StampsOK
  <2>1. CASE d = c
    BY <1>1, <1>3, <1>6, <2>1
  <2>2. CASE d # c
    <3>1. commit[d].stamp <= clock /\ commit[d].stream \in Stream /\ commit[d].stamp \in Nat
      BY <1>0, <1>10, <2>2, CommitType DEF TurnInv, StampsOK
    <3>. QED
      BY <1>3, <1>6, <2>2, <3>1
  <2>. QED
    BY <2>1, <2>2
<1>17. \A q \in Client : client'[q] = IF q = p THEN state ELSE client[q]
  BY <1>0 DEF Become, TypeOK
<1>18. /\ state.pc = (IF n = 1 THEN "insert" ELSE "journal") /\ state.stream = s
       /\ state.batch = c /\ state.next = 0 /\ state.found = AllOf(s) /\ state.task = me.task
  BY <1>0, <1>1 DEF Clients
<1>19. TurnsOK'
  <2> HIDE DEF state
  <2>. QED
    BY <1>0, <1>1, <1>18, SameTurn
<1>20. TurnOK(client[p])'
  <2>1. PICK m : m = state
    OBVIOUS
  <2> HIDE DEF state
  <2>2. \A e \in AllOf(s)' : Stamp(e)' <= t
    <3> SUFFICES ASSUME NEW e \in AllOf(s) PROVE Stamp(e)' <= t
      BY <1>1, <1>11
    <3>1. e \in events /\ Used(e[1]) /\ e[1] \in CommitId
      BY <1>7 DEF AllOf, IInv, Store, EventsOK
    <3>2. Stamp(e) <= clock /\ Stamp(e) \in Nat
      BY <1>0, <3>1, CommitType DEF Stamp, TurnInv, StampsOK
    <3>. QED
      BY <1>3, <1>9, <3>1, <3>2
  <2>3. OthersWhole(s, c)'
    <3>1. OthersWhole(s, c)
      BY <1>1, <1>12, ConstantsAssumption DEF ConstantsAssumption, OthersWhole
    <3>. QED
      BY <1>1, <1>13, <3>1
  <2>4. BatchOK(m)'
    <3>1. base + 1 + 0 = Count(s)'
      BY <1>1, <1>4, <1>5, <1>11
    <3>. QED
      BY <1>1, <1>6, <1>18, <2>1, <2>2, <2>3, <3>1 DEF BatchOK
  <2>5. m.found = {e \in AllOf(s)' : e[1] # c}
    BY <1>1, <1>7, <1>11, <1>18, <2>1 DEF AllOf
  <2>6. TurnOK(m)'
    BY <1>6, <1>18, <2>1, <2>4, <2>5
       DEF TurnOK, BatchOK, Pending, Blank, Repairing, Writing
  <2>7. client'[p] = m
    BY <1>17, <2>1
  <2>. QED
    BY <2>6, <2>7 DEF TurnOK, BatchOK
<1>21. ASSUME NEW q \in Client \ {p} PROVE TurnOK(client[q])'
  <2>1. PICK m : m = client[q]
    OBVIOUS
  <2>2. client'[q] = m /\ TurnOK(m) /\ CallOK(m)
    BY <1>17, <2>1 DEF TurnInv, IInv
  <2>3. m.pc \in Repairing \cup Writing => m.batch \in CommitId \ {c}
    BY <1>0, <2>2 DEF CallOK
  <2>4. m.pc \in {"clean", "loaded"} \cup Writing => m.stream \in Stream
    BY <2>2 DEF CallOK, Reading
  <2>5. BatchOK(m) /\ m.batch \in CommitId \ {c} => BatchOK(m)'
    <3>1. \A e \in AllOf(m.stream) : e \in events
      BY DEF AllOf
    <3>. QED
      BY <1>6, <1>9, <1>11, <1>13, <3>1 DEF BatchOK
  <2>6. m.pc \in Repairing \cup Writing => BatchOK(m)' /\ commit'[m.batch] = commit[m.batch]
    BY <1>6, <2>2, <2>3, <2>5 DEF TurnOK
  <2>7. TurnOK(m)'
    BY <1>0, <1>8, <1>11, <1>13, <2>2, <2>4, <2>6 DEF TurnOK, Repairing, Writing
  <2>. QED
    BY <2>2, <2>7 DEF TurnOK, BatchOK
<1>. QED
  BY <1>0, <1>4, <1>14, <1>15, <1>16, <1>19, <1>20, <1>21 DEF TurnInv
\* With the events of its completed batch a writer holds all of the stream.
LEMMA ResolvesAll ==
  ASSUME IInv, NEW me, CallOK(me), TurnOK(me), me.pc \in Writing,
         me.next = commit[me.batch].len
  PROVE  me.found \cup EventsOf(me.batch) = AllOf(me.stream)
<1> DEFINE s == me.stream
           b == me.batch
<1>0. commit[b].stream = s /\ me.found = {e \in AllOf(s) : e[1] # b}
  BY DEF TurnOK, BatchOK
<1>1. ASSUME NEW e \in EventsOf(b) PROVE e \in AllOf(s) /\ e[1] = b
  BY <1>0 DEF EventsOf, AllOf, CallOK
<1>2. ASSUME NEW e \in AllOf(s), e[1] = b PROVE e \in EventsOf(b)
  <2>1. e \in events /\ e = <<b, e[2]>> /\ e[2] \in Nat /\ b \in CommitId
    BY <1>2, EventType DEF AllOf, IInv
  <2>2. e[2] < commit[b].len /\ commit[b].len \in Nat
    BY <1>2, <2>1, CommitType DEF IInv, Store, EventsOK
  <2>3. e[2] \in 0 .. (commit[b].len - 1)
    BY <2>1, <2>2
  <2>. QED
    BY <2>1, <2>3 DEF EventsOf
<1>. QED
  BY <1>0, <1>1, <1>2

LEMMA ResolvesTurn ==
  ASSUME IInv, TurnInv, NEW p \in Client, Resolves(p), UNCHANGED <<commit, events, clock>>,
         client[p].pc \in Writing, client[p].next = commit[client[p].batch].len,
         JournalKept(p)
  PROVE  TurnInv'
<1>. PICK me : me = client[p]
  OBVIOUS
<1> DEFINE s == me.stream
           b == me.batch
           state == [me EXCEPT !.pc = "loaded", !.batch = None, !.next = 0,
                               !.found = @ \cup EventsOf(b)]
<1>0. /\ me \in Clients /\ CallOK(me) /\ TurnOK(me) /\ BatchOK(me) /\ me # Idle
      /\ s \in Stream /\ commit[b].stream = s /\ Become(p, state)
      /\ me.found = {e \in AllOf(s) : e[1] # b}
  BY DEF IInv, TypeOK, TurnInv, TurnOK, BatchOK, Resolves, Idle, Writing
<1>1. /\ state.pc = "loaded" /\ state.stream = s /\ state.task = me.task
      /\ state.found = me.found \cup EventsOf(b)
  BY <1>0 DEF Clients
<1>2. me.found \cup EventsOf(b) = AllOf(s)
  BY <1>0, ResolvesAll DEF TurnInv
<1>3. state.found = AllOf(s)
  BY <1>0, <1>1, <1>2
<1>4. OthersWhole(s, None)
  BY <1>0, BatchCompletes
<1>5. TurnOK(state)
  <2> HIDE DEF state
  <2>. QED
    BY <1>1, <1>3, <1>4 DEF TurnOK, Pending, Blank, Repairing, Writing
<1> HIDE DEF state
<1>. QED
  BY <1>0, <1>1, <1>5, SameTurn, TurnStep

LEMMA WriteTurn ==
  ASSUME IInv, TurnInv, NEW p \in Client, Journaled(p) \/ Inserted(p) \/ Settled(p)
  PROVE  TurnInv'
<1>. PICK me : me = client[p]
  OBVIOUS
<1>0. /\ me \in Clients /\ CallOK(me) /\ TurnOK(me) /\ BatchOK(me) /\ me # Idle
      /\ me.pc \in Writing /\ me.stream \in Stream /\ me.batch \in CommitId
      /\ me.found = {e \in AllOf(me.stream) : e[1] # me.batch}
      /\ UNCHANGED <<commit, events, clock>>
  BY DEF IInv, TypeOK, TurnInv, TurnOK, BatchOK, CallOK, Idle, Writing,
         Journaled, Inserted, Settled, db
<1>1. CASE Journaled(p)
  <2> DEFINE state == [me EXCEPT !.pc = "insert"]
  <2>1. /\ state.pc = "insert" /\ state.stream = me.stream /\ state.task = me.task
        /\ state.batch = me.batch /\ state.next = me.next /\ state.found = me.found
        /\ Become(p, state) /\ txs' = txs \cup {me.batch} /\ me.pc = "journal"
    BY <1>0, <1>1 DEF Clients, Journaled
  <2>2. JournalKept(p)
    BY <1>0, <2>1, Frame DEF JournalKept, TurnInv, JournalOK
  <2>. PICK m : m = state
    OBVIOUS
  <2>3. TurnsOK'
    <3> HIDE DEF state
    <3>. QED
      BY <1>0, <2>1, SameTurn
  <2>4. \A q \in Client : client'[q] = IF q = p THEN m ELSE client[q]
    BY <2>1 DEF Become, IInv, TypeOK
  <2> HIDE DEF state
  <2>5. TurnOK(m)'
    <3>1. BatchOK(m)'
      BY <1>0, <2>1, Frame DEF BatchOK
    <3>2. m.found = {e \in AllOf(m.stream)' : e[1] # m.batch}
      BY <1>0, <2>1, Frame
    <3>3. m.batch \in txs'
      BY <2>1
    <3>. QED
      BY <2>1, <3>1, <3>2, <3>3 DEF TurnOK, BatchOK, Pending, Blank, Repairing, Writing
  <2>6. ASSUME NEW q \in Client PROVE TurnOK(client[q])'
    <3>1. PICK n : n = client[q]
      OBVIOUS
    <3>2. TurnOK(n)
      BY <3>1 DEF TurnInv
    <3>3. BatchOK(n)' <=> BatchOK(n)
      BY <1>0, Frame DEF BatchOK
    <3>4. TurnOK(n)'
      BY <1>0, <2>1, <3>2, <3>3, Frame DEF TurnOK, BatchOK
    <3>5. client'[q] = n \/ client'[q] = m
      BY <2>4, <3>1
    <3>. QED
      BY <2>5, <3>4, <3>5 DEF TurnOK, BatchOK
  <2>7. \A s \in Stream : NumberedOK(s)'
    <3> SUFFICES ASSUME NEW s \in Stream PROVE NumberedOK(s)'
      OBVIOUS
    <3>. QED
      BY <1>0, Frame DEF TurnInv, NumberedOK
  <2>. QED
    BY <1>0, <2>2, <2>3, <2>6, <2>7 DEF TurnInv, StampsOK, JournalKept, Used
<1>2. CASE Inserted(p)
  <2> DEFINE state == [me EXCEPT !.pc = "settle"]
  <2>1. me.next = commit[me.batch].len /\ UNCHANGED txs /\ JournalKept(p) /\ me.pc = "insert"
    BY <1>0, <1>2, SameJournal DEF Inserted, BatchDone, db
  <2>2. CASE Resolves(p)
    BY <1>0, <2>1, <2>2, ResolvesTurn
  <2>3. CASE Become(p, state)
    <3>1. /\ state.pc = "settle" /\ state.stream = me.stream /\ state.task = me.task
          /\ state.batch = me.batch /\ state.next = me.next /\ state.found = me.found
          /\ Become(p, state)
      BY <1>0, <2>3 DEF Clients
    <3>2. TurnOK(state)
      <4> HIDE DEF state
      <4>. QED
        BY <1>0, <3>1 DEF TurnOK, BatchOK, Pending, Blank, Repairing, Writing
    <3> HIDE DEF state
    <3>. QED
      BY <1>0, <2>1, <3>1, <3>2, SameTurn, TurnStep
  <2>. QED
    BY <1>2, <2>2, <2>3 DEF Inserted
<1>3. CASE Settled(p)
  <2>1. me.next = commit[me.batch].len /\ txs' = WithoutTransactions(me.stream)
    BY <1>0, <1>3 DEF Settled, CallOK
  <2>2. OthersWhole(me.stream, None)
    BY <1>0, <2>1, BatchCompletes
  <2>3. JournalKept(p)
    BY <1>0, <2>1, <2>2, StreamSettled
  <2>. QED
    BY <1>0, <1>3, <2>1, <2>3, ResolvesTurn DEF Settled
<1>. QED
  BY <1>1, <1>2, <1>3

\* Whatever a failed request did, it leaves the journal entries that are
\* still needed.
LEMMA FaultTurn ==
  ASSUME IInv, TurnInv, NEW p \in Client, Fail(p) \/ Crash(p)
  PROVE  TurnInv'
<1>. PICK me : me = client[p]
  OBVIOUS
<1>0. me \in Clients /\ CallOK(me) /\ TurnOK(me) /\ UNCHANGED <<commit, events, clock>>
  BY DEF IInv, TypeOK, TurnInv, Fail, Crash, db
<1>1. CASE Fail(p)
  <2>1. CASE UNCHANGED txs
    BY <1>0, <2>1, <1>1, SameJournal, RejectsTurn DEF Fail
  <2>2. CASE /\ me.pc \in {"clean", "repaired", "settle"}
             /\ txs' = WithoutTransactions(me.stream)
    <3>1. me.stream \in Stream /\ OthersWhole(me.stream, None)
      <4>1. CASE me.pc = "clean"
        BY <1>0, <4>1 DEF TurnOK, CallOK, Reading
      <4>2. CASE me.pc = "repaired"
        BY <1>0, <4>2, BatchCompletes DEF TurnOK, BatchOK, Repairing
      <4>3. CASE me.pc = "settle"
        BY <1>0, <4>3, BatchCompletes DEF TurnOK, BatchOK, CallOK, Writing
      <4>. QED
        BY <2>2, <4>1, <4>2, <4>3
    <3>2. JournalKept(p)
      BY <1>0, <2>2, <3>1, StreamSettled
    <3>. QED
      BY <1>0, <1>1, <3>2, RejectsTurn DEF Fail
  <2>3. CASE me.pc = "prune" /\ \E gone \in SUBSET Absent(me) : txs' = txs \ gone
    BY <1>0, <1>1, <2>3, PruneIsSafe, RejectsTurn DEF Fail
  <2>. QED
    BY <1>1, <2>1, <2>2, <2>3 DEF Fail
<1>2. CASE Crash(p)
  BY <1>0, <1>2, SameJournal, BecomesIdleTurn DEF Crash, db
<1>. QED
  BY <1>1, <1>2

LEMMA NextTurn == TakingTurns /\ IInv /\ TurnInv /\ [Next]_vars => TurnInv'
<1> SUFFICES ASSUME TakingTurns, IInv, TurnInv, [Next]_vars PROVE TurnInv'
  OBVIOUS
<1>1. CASE UNCHANGED vars
  <2>1. UNCHANGED <<commit, events, txs, clock, client>>
    BY <1>1 DEF vars, db
  <2>2. ASSUME NEW q \in Client PROVE TurnOK(client[q])'
    <3>1. BatchOK(client[q])' <=> BatchOK(client[q])
      BY <2>1, Frame DEF BatchOK
    <3>2. TurnOK(client[q])
      BY DEF TurnInv
    <3>. QED
      BY <2>1, <3>1, <3>2, Frame DEF TurnOK
  <2>3. ASSUME NEW s \in Stream PROVE NumberedOK(s)'
    BY <2>1, Frame DEF TurnInv, NumberedOK
  <2>4. TurnsOK' /\ JournalOK' /\ StampsOK' /\ IsFiniteSet(events)'
    BY <2>1, Frame DEF TurnInv, TurnsOK, JournalOK, StampsOK
  <2>. QED
    BY <2>2, <2>3, <2>4 DEF TurnInv
<1>2. ASSUME NEW p \in Client, ClientMoves(p) PROVE TurnInv'
  <2>1. CASE Answer(p)
    BY <2>1, ReadTurn, RepairTurn, PendingTurn, InsertTurn, WriteTurn DEF Answer
  <2>. QED
    BY <1>2, <2>1, LoadTurn, ReadTurn, PendingTurn, CommitTurn, FaultTurn DEF ClientMoves
<1>. QED
  BY <1>1, <1>2 DEF Next, ClientMoves

LEMMA InitTurn == Init => TurnInv
<1> SUFFICES ASSUME Init PROVE TurnInv
  OBVIOUS
<1>1. \A s \in Stream : AllOf(s) = {} /\ Count(s) = 0 /\ LogOf(s) = {}
  BY FS_EmptySet DEF Init, AllOf, Count, LogOf, Stored
<1>2. \A s \in Stream : NumberedOK(s)
  BY <1>1 DEF NumberedOK
<1>3. TurnsOK
  BY DEF Init, TurnsOK, Idle
<1>4. JournalOK /\ StampsOK /\ IsFiniteSet(events)
  BY FS_EmptySet DEF Init, JournalOK, StampsOK, Stored, Used, NoCommit
<1>. QED
  BY <1>2, <1>3, <1>4, IdleTurnOK DEF Init, TurnInv

-----------------------------------------------------------------------------
(* Theorems *)

LEMMA TurnInvariance == TakingTurns => (Spec => [](IInv /\ TurnInv))
<1> SUFFICES ASSUME TakingTurns PROVE Spec => [](IInv /\ TurnInv)
  OBVIOUS
<1>1. Init => TurnInv
  BY InitTurn
<1>2. IInv /\ TurnInv /\ [Next]_vars => TurnInv'
  BY NextTurn
<1>. QED
  BY <1>1, <1>2, Invariance, PTL DEF Spec

\* A commit that was left half written still has its journal entry, whichever
\* request failed and whoever crashed, so that the next read repairs it.
THEOREM TornCommitsAreRepairable == TakingTurns => (Spec => []TornIsRepairable)
<1> SUFFICES ASSUME TakingTurns PROVE Spec => []TornIsRepairable
  OBVIOUS
<1>1. TurnInv => TornIsRepairable
  BY DEF TurnInv, JournalOK, TornIsRepairable, Torn
<1>. QED
  BY <1>1, TurnInvariance, PTL

\* The stored events of a stream have the revisions 0, 1, 2, ..., each once,
\* across crashes, repairs and changing writers.
THEOREM RevisionsStayContiguous == TakingTurns => (Spec => []RevisionsAreContiguous)
<1> SUFFICES ASSUME TakingTurns PROVE Spec => []RevisionsAreContiguous
  OBVIOUS
<1>1. IInv /\ TurnInv => RevisionsAreContiguous
  <2> SUFFICES ASSUME IInv, TurnInv, NEW s \in Stream
               PROVE  {StreamRevision(e) : e \in AllOf(s)} = 0 .. (Count(s) - 1)
    BY FindsAll DEF RevisionsAreContiguous, Count
  <2>. QED
    BY DEF TurnInv, NumberedOK
<1>. QED
  BY <1>1, TurnInvariance, PTL
-----------------------------------------------------------------------------
(* The store implements AtomicEventLog *)

NoView == [stream |-> None, commits |-> {}]
Seen(s) == [stream |-> s, commits |-> LogOf(s)]

\* ViewOf, of what a client knows.
ViewIn(me) ==
  IF me.pc \in {"clean", "loaded"} \cup Writing
  THEN [stream |-> me.stream, commits |-> WholeIn(me.found)]
  ELSE NoView

AtomicStep == [Log!LogNext]_(Log!avars)

LEMMA ViewsAreIn == \A p \in Client : ViewOf(p) = ViewIn(client[p])
BY DEF ViewOf, ViewIn, NoView

\* A step of the atomic log that leaves the logs alone.
LEMMA ViewStep ==
  ASSUME NEW p \in Client, \A s \in Stream : LogOf(s)' = LogOf(s),
         \A q \in Client \ {p} : ViewOf(q)' = ViewOf(q),
         \/ ViewOf(p)' = ViewOf(p)
         \/ ViewOf(p)' = NoView
         \/ \E s \in Stream : ViewOf(p)' = Seen(s)
  PROVE  AtomicStep
<1> DEFINE logs == [s \in Stream |-> LogOf(s)]
           views == [q \in Client |-> ViewOf(q)]
<1>1. logs' = logs
  OBVIOUS
<1>2. views' = [views EXCEPT ![p] = ViewOf(p)']
  OBVIOUS
<1>3. CASE ViewOf(p)' = ViewOf(p)
  <2>1. views' = views
    BY <1>3
  <2>. QED
    BY <1>1, <2>1 DEF AtomicStep, Log!avars
<1>4. CASE ViewOf(p)' = NoView
  <2>1. Log!Drop(p)
    BY <1>1, <1>2, <1>4 DEF Log!Drop, Log!NoView, NoView
  <2>. QED
    BY <2>1 DEF AtomicStep, Log!LogNext
<1>5. ASSUME NEW s \in Stream, ViewOf(p)' = Seen(s) PROVE AtomicStep
  <2>1. Log!See(p, s)
    BY <1>1, <1>2, <1>5 DEF Log!See, Seen
  <2>. QED
    BY <2>1 DEF AtomicStep, Log!LogNext
<1>. QED
  BY <1>3, <1>4, <1>5

\* A request that stores nothing changes at most what its client sees.
LEMMA QuietStep ==
  ASSUME IInv, NEW p \in Client, NEW state, Become(p, state), UNCHANGED <<commit, events>>,
         \/ ViewIn(state) = ViewIn(client[p])
         \/ ViewIn(state) = NoView
         \/ \E s \in Stream : ViewIn(state) = Seen(s)
  PROVE  AtomicStep
<1>1. \A q \in Client : client'[q] = IF q = p THEN state ELSE client[q]
  BY DEF Become, IInv, TypeOK
<1>2. \A m : ViewIn(m)' = ViewIn(m)
  BY DEF ViewIn, NoView, WholeIn, Used, EventsOf
<1>3. \A s \in Stream : LogOf(s)' = LogOf(s)
  BY Frame
<1>4. \A q \in Client \ {p} : ViewOf(q)' = ViewOf(q)
  BY <1>1 DEF ViewOf, WholeIn, Used, EventsOf
<1>5. ViewOf(p)' = ViewIn(state)
  BY <1>1 DEF ViewOf, ViewIn, NoView, WholeIn, Used, EventsOf
<1>. QED
  BY <1>3, <1>4, <1>5, ViewsAreIn, ViewStep DEF Seen

\* Whoever holds all events of a stream of whole commits sees its log.
LEMMA SeesLog ==
  ASSUME IInv, TurnInv, NEW s \in Stream, OthersWhole(s, None)
  PROVE  WholeIn(AllOf(s)) = LogOf(s)
<1>1. ASSUME NEW c \in WholeIn(AllOf(s)) PROVE c \in LogOf(s)
  <2>1. c \in CommitId /\ commit[c].len \in Nat /\ commit[c].len > 0
        /\ EventsOf(c) \subseteq AllOf(s)
    BY CommitType DEF WholeIn, Used, IInv
  <2>2. <<c, 0>> \in AllOf(s)
    BY <2>1 DEF EventsOf
  <2>. QED
    BY <2>1, <2>2 DEF AllOf, LogOf, Stored
<1>2. ASSUME NEW c \in LogOf(s) PROVE c \in WholeIn(AllOf(s))
  <2>1. Whole(c) /\ c \in CommitId /\ commit[c].stream = s
    BY ConstantsAssumption DEF ConstantsAssumption, OthersWhole, LogOf
  <2>2. Used(c)
    BY DEF LogOf, Stored, IInv, Store, EventsOK
  <2>3. EventsOf(c) \subseteq AllOf(s)
    BY <2>1 DEF Whole, EventsOf, AllOf
  <2>. QED
    BY <2>1, <2>2, <2>3 DEF WholeIn
<1>. QED
  BY <1>1, <1>2

\* Before the first event of a batch is stored the writer sees the whole log.
LEMMA WriterSeesLog ==
  ASSUME IInv, TurnInv, NEW me, CallOK(me), TurnOK(me), me.pc \in Writing,
         Stored(me.batch) = {}
  PROVE  WholeIn(me.found) = LogOf(me.stream) /\ me.stream \in Stream
<1>1. /\ me.found = {e \in AllOf(me.stream) : e[1] # me.batch}
      /\ BatchOK(me)
  BY DEF TurnOK
<1>2. me.stream \in Stream /\ OthersWhole(me.stream, me.batch)
  BY <1>1 DEF BatchOK
<1>3. me.found = AllOf(me.stream)
  BY <1>1 DEF AllOf, Stored
<1>4. OthersWhole(me.stream, None)
  BY <1>2 DEF OthersWhole, LogOf
<1>. QED
  BY <1>2, <1>3, <1>4, SeesLog

LEMMA RejectsAtomic ==
  ASSUME IInv, NEW p \in Client, Rejects(p), UNCHANGED <<commit, events>>
  PROVE  AtomicStep
<1>1. PICK m : Become(p, m) /\ m.pc \in {"failed", "idle"}
  <2> DEFINE failed == [client[p] EXCEPT !.pc = "failed", !.batch = None, !.next = 0]
  <2>1. failed.pc = "failed" /\ Idle.pc = "idle"
    BY DEF IInv, TypeOK, Clients, Idle
  <2>. QED
    BY <2>1 DEF Rejects
<1>2. ViewIn(m) = NoView
  BY <1>1 DEF ViewIn, Writing
<1>. QED
  BY <1>1, <1>2, QuietStep
Unseen == {"idle", "failed", "find"} \cup Repairing \cup Pending

LEMMA UnseenIsNoView == \A m : m.pc \in Unseen => ViewIn(m) = NoView
BY DEF ViewIn, Unseen, Writing, Repairing, Pending

LEMMA ReadAtomic ==
  ASSUME TakingTurns, IInv, TurnInv, NEW p \in Client,
         \/ Found(p) \/ Cleaned(p) \/ Release(p)
         \/ \E s \in Stream, r \in Ranges : Load(p, s, r)
  PROVE  AtomicStep
<1>. PICK me : me = client[p]
  OBVIOUS
<1>0. /\ me \in Clients /\ CallOK(me) /\ TurnOK(me) /\ TypeOK
      /\ UNCHANGED <<commit, events>>
  BY DEF IInv, TypeOK, TurnInv, Found, Cleaned, Release, Load, db
<1>1. CASE Found(p)
  <2>1. me.pc = "find" /\ me.stream \in Stream /\ me.found = {}
    BY <1>0, <1>1 DEF Found, CallOK, Reading, TurnOK, Blank
  <2>2. Find(me.stream, me.range) = AllOf(me.stream) /\ me.range[2] = -1
    BY <1>0, <2>1, WholeRange, FindsAll
  <2>3. ASSUME NEW m, Become(p, m), m.pc \in {"clean", "loaded"},
               m.stream = me.stream, m.found = AllOf(me.stream),
               OthersWhole(me.stream, None)
        PROVE  AtomicStep
    <3>1. ViewIn(m) = Seen(me.stream)
      BY <2>1, <2>3, SeesLog DEF ViewIn, Seen
    <3>. QED
      BY <1>0, <2>1, <2>3, <3>1, QuietStep
  <2>4. CASE AllOf(me.stream) = {} /\ Become(p, [me EXCEPT !.pc = "loaded"])
    <3> DEFINE m == [me EXCEPT !.pc = "loaded"]
    <3>1. m.pc = "loaded" /\ m.stream = me.stream /\ m.found = AllOf(me.stream) /\ Become(p, m)
      BY <1>0, <2>1, <2>4 DEF Clients
    <3>2. OthersWhole(me.stream, None)
      BY <2>4 DEF OthersWhole, LogOf, Stored, AllOf
    <3> HIDE DEF m
    <3>. QED
      BY <2>3, <3>1, <3>2
  <2>5. ASSUME NEW e \in Last(AllOf(me.stream)), IsTransactionOk(-1, e),
               Become(p, [me EXCEPT !.pc = "clean", !.found = AllOf(me.stream)])
        PROVE  AtomicStep
    <3> DEFINE m == [me EXCEPT !.pc = "clean", !.found = AllOf(me.stream)]
    <3>1. m.pc = "clean" /\ m.stream = me.stream /\ m.found = AllOf(me.stream) /\ Become(p, m)
      BY <1>0, <2>5 DEF Clients
    <3>2. OthersWhole(me.stream, None)
      BY <2>1, <2>5, FoundOkIsWhole
    <3> HIDE DEF m
    <3>. QED
      BY <2>3, <3>1, <3>2
  <2>6. ASSUME NEW e, Become(p, [me EXCEPT !.pc = "lookup", !.batch = e[1],
                                           !.next = FirstMissing(e)])
        PROVE  AtomicStep
    <3> DEFINE m == [me EXCEPT !.pc = "lookup", !.batch = e[1], !.next = FirstMissing(e)]
    <3>1. m.pc = "lookup"
      BY <1>0 DEF Clients
    <3>2. m.pc \in Unseen
      BY <3>1 DEF Unseen, Repairing
    <3> HIDE DEF m
    <3>3. ViewIn(m) = NoView
      BY <3>2, UnseenIsNoView
    <3>. QED
      BY <1>0, <2>6, <3>3, QuietStep DEF m
  <2>. QED
    BY <1>1, <2>2, <2>4, <2>5, <2>6 DEF Found
<1>2. CASE Cleaned(p)
  <2> DEFINE m == [me EXCEPT !.pc = "loaded"]
  <2>1. /\ m.pc = "loaded" /\ m.stream = me.stream /\ m.found = me.found /\ me.pc = "clean"
        /\ Become(p, m)
    BY <1>0, <1>2 DEF Clients, Cleaned
  <2>2. ViewIn(m) = ViewIn(me)
    BY <2>1 DEF ViewIn
  <2> HIDE DEF m
  <2>. QED
    BY <1>0, <2>1, <2>2, QuietStep
<1>3. CASE Release(p)
  <2>1. Idle.pc \in Unseen
    BY DEF Idle, Unseen
  <2>. QED
    BY <1>0, <1>3, <2>1, UnseenIsNoView, QuietStep DEF Release
<1>4. ASSUME NEW s \in Stream, NEW r \in Ranges, Load(p, s, r) PROVE AtomicStep
  <2> DEFINE m == [Idle EXCEPT !.pc = "find", !.task = "stream", !.stream = s, !.range = r]
  <2>1. m.pc \in Unseen /\ Become(p, m)
    BY <1>4 DEF Idle, Unseen, Load
  <2> HIDE DEF m
  <2>. QED
    BY <1>0, <2>1, UnseenIsNoView, QuietStep
<1>. QED
  BY <1>1, <1>2, <1>3, <1>4

LEMMA RepairAtomic ==
  ASSUME IInv, NEW p \in Client, LookedUp(p) \/ Restored(p) \/ Repaired(p)
  PROVE  AtomicStep
<1>. PICK me : me = client[p]
  OBVIOUS
<1>0. me \in Clients /\ UNCHANGED <<commit, events>>
  BY DEF IInv, TypeOK, LookedUp, Restored, Repaired, db
<1>1. CASE Rejects(p)
  BY <1>0, <1>1, RejectsAtomic
<1>2. ASSUME NEW m, Become(p, m), m.pc \in Unseen PROVE AtomicStep
  BY <1>0, <1>2, UnseenIsNoView, QuietStep
<1>3. /\ [me EXCEPT !.pc = "repair"].pc \in Unseen
      /\ [me EXCEPT !.pc = "repaired"].pc \in Unseen
      /\ [me EXCEPT !.pc = "find", !.batch = None, !.next = 0].pc \in Unseen
      /\ Idle.pc \in Unseen
  BY <1>0 DEF Clients, Unseen, Idle, Repairing
<1>. QED
  BY <1>1, <1>2, <1>3 DEF LookedUp, Restored, Repaired

LEMMA PendingAtomic ==
  ASSUME IInv, NEW p \in Client,
         ListPending(p) \/ Listed(p) \/ Probed(p) \/ Pruned(p) \/ GotLast(p)
  PROVE  AtomicStep
<1>. PICK me : me = client[p]
  OBVIOUS
<1>0. me \in Clients /\ UNCHANGED <<commit, events>>
  BY DEF IInv, TypeOK, ListPending, Listed, Probed, Pruned, GotLast, db
<1>1. ASSUME NEW m, Become(p, m), m.pc \in Unseen PROVE AtomicStep
  BY <1>0, <1>1, UnseenIsNoView, QuietStep
<1>2. /\ Idle.pc \in Unseen
      /\ [Idle EXCEPT !.pc = "list", !.task = "pending"].pc \in Unseen
      /\ \A S : /\ [me EXCEPT !.pc = "probe", !.listed = S].pc \in Unseen
                /\ [me EXCEPT !.pc = "prune", !.found = S].pc \in Unseen
      /\ \A s : [me EXCEPT !.pc = "last", !.stream = s, !.found = {}, !.listed = {}].pc \in Unseen
      /\ \A b, n : [me EXCEPT !.pc = "lookup", !.batch = b, !.next = n].pc \in Unseen
  BY <1>0 DEF Clients, Unseen, Idle, Repairing, Pending
<1>3. CASE ListPending(p) \/ Listed(p) \/ Probed(p)
  BY <1>1, <1>2, <1>3 DEF ListPending, Listed, Probed
<1>4. CASE Pruned(p)
  BY <1>1, <1>2, <1>4 DEF Pruned
<1>5. CASE GotLast(p)
  BY <1>1, <1>2, <1>5 DEF GotLast
<1>. QED
  BY <1>3, <1>4, <1>5

\* Taking an id for new events shows in no log and in no view yet.
LEMMA CommitAtomic ==
  ASSUME TakingTurns, IInv, NEW p \in Client,
         NEW c \in CommitId, NEW n \in Sizes, Commit(p, c, n)
  PROVE  AtomicStep
<1>. PICK me : me = client[p]
  OBVIOUS
<1> DEFINE m == [me EXCEPT !.pc = IF n = 1 THEN "insert" ELSE "journal",
                           !.batch = c, !.next = 0]
<1>0. /\ me \in Clients /\ TypeOK /\ n \in Nat \ {0} /\ ~Used(c) /\ Become(p, m)
      /\ UNCHANGED events
  BY ConstantsAssumption DEF ConstantsAssumption, IInv, TypeOK, Commit
<1>1. /\ \A d \in CommitId \ {c} : commit'[d] = commit[d]
      /\ commit'[c].len = n
  BY <1>0 DEF Commit, TypeOK
<1>2. \A e \in events : e[1] # c
  BY <1>0 DEF IInv, Store, EventsOK
<1>3. \A s \in Stream : LogOf(s)' = LogOf(s)
  BY <1>0, <1>1, <1>2 DEF LogOf, Stored
<1>4. ASSUME NEW S \in SUBSET events PROVE WholeIn(S)' = WholeIn(S)
  <2>1. <<c, 0>> \in EventsOf(c)' /\ <<c, 0>> \notin events
    BY <1>0, <1>1, <1>2 DEF EventsOf
  <2>2. \A d \in CommitId \ {c} : EventsOf(d)' = EventsOf(d) /\ (Used(d)' <=> Used(d))
    BY <1>1 DEF EventsOf, Used
  <2>. QED
    BY <1>0, <2>1, <2>2 DEF WholeIn
<1>5. \A q \in Client : client'[q] = IF q = p THEN m ELSE client[q]
  BY <1>0 DEF Become, TypeOK
<1>6. \A q \in Client : client[q].found \subseteq events
  BY DEF IInv, CallOK
<1>7. \A q \in Client \ {p} : ViewOf(q)' = ViewOf(q)
  BY <1>4, <1>5, <1>6 DEF ViewOf
<1>8. CASE me.pc = "loaded"
  <2>1. m.pc \in Writing /\ m.stream = me.stream /\ m.found = me.found
    BY <1>0 DEF Clients, Writing
  <2>2. client'[p] = m
    BY <1>5
  <2> HIDE DEF m
  <2>3. ViewOf(p)' = ViewOf(p)
    BY <1>4, <1>6, <1>8, <2>1, <2>2 DEF ViewOf
  <2>. QED
    BY <1>3, <1>7, <2>3, ViewStep
<1>9. me.pc = "loaded"
  BY DEF Commit, TakingTurns
<1>. QED
  BY <1>8, <1>9
\* The first event of a batch makes its commit visible; the others complete it.
LEMMA InsertAtomic ==
  ASSUME IInv, TurnInv, NEW p \in Client, InsertNext(p)
  PROVE  AtomicStep
<1>. PICK me : me = client[p]
  OBVIOUS
<1> DEFINE s == me.stream
           b == me.batch
           e == <<b, me.next>>
           state == [me EXCEPT !.next = @ + 1]
<1>0. /\ me \in Clients /\ TypeOK /\ CallOK(me) /\ TurnOK(me) /\ UNCHANGED commit
      /\ me.pc \in {"repair", "insert"}
  BY DEF IInv, TypeOK, TurnInv, InsertNext
<1>1. CASE Rejects(p) /\ UNCHANGED events
  BY <1>0, <1>1, RejectsAtomic
<1>2. CASE events' = events \cup {e} /\ Become(p, state) /\ e \notin events
  <2>1. /\ s \in Stream /\ commit[b].stream = s /\ b \in CommitId /\ me.next \in Nat
        /\ \A i \in 0 .. (me.next - 1) : <<b, i>> \in events
    <3>1. BatchOK(me)
      BY <1>0 DEF TurnOK, Repairing, Writing
    <3>. QED
      BY <1>0, <3>1 DEF BatchOK, CallOK, Clients, Repairing, Writing
  <2>2. \A q \in Client : client'[q] = IF q = p THEN state ELSE client[q]
    BY <1>0, <1>2 DEF Become, TypeOK
  <2>3. state.pc = me.pc /\ state.stream = s /\ state.found = me.found
    BY <1>0 DEF Clients
  <2> HIDE DEF state
  <2>4. \A q \in Client : ViewOf(q)' = ViewOf(q)
    BY <1>0, <2>2, <2>3 DEF ViewOf, WholeIn, Used, EventsOf
  <2>5. \A t \in Stream : LogOf(t)' = IF t = s THEN LogOf(t) \cup {b} ELSE LogOf(t)
    BY <1>0, <1>2, <2>1 DEF LogOf, Stored
  <2>6. CASE me.next > 0
    <3>1. <<b, 0>> \in events
      BY <2>1, <2>6
    <3>2. b \in LogOf(s)
      BY <2>1, <3>1 DEF LogOf, Stored
    <3>. QED
      BY <2>4, <2>5, <3>2, ViewStep
  <2>7. CASE me.next = 0
    <3>1. me.pc = "insert"
      BY <1>0, <2>7 DEF TurnOK, Repairing
    <3>2. Stored(b) = {}
      <4> SUFFICES ASSUME NEW d \in events, d[1] = b PROVE FALSE
        BY DEF Stored
      <4>1. d = <<b, d[2]>> /\ d[2] \in Nat /\ \A i \in 0 .. d[2] : <<b, i>> \in events
        BY <1>0, EventType DEF IInv, Store, CommitPrefix
      <4>2. <<b, 0>> \in events
        BY <4>1
      <4>. QED
        BY <1>2, <2>7, <4>2
    <3>3. WholeIn(me.found) = LogOf(s)
      BY <1>0, <3>1, <3>2, WriterSeesLog DEF Writing
    <3>4. \A t \in Stream : b \notin LogOf(t)
      BY <3>2 DEF LogOf
    <3>5. ViewOf(p) = Seen(s)
      BY <3>1, <3>3 DEF ViewOf, Seen, Writing
    <3>6. Log!AppendCommit(p, s, b)
      <4> DEFINE logs == [t \in Stream |-> LogOf(t)]
                 views == [q \in Client |-> ViewOf(q)]
      <4>1. views' = views
        BY <2>4
      <4>2. logs' = [logs EXCEPT ![s] = @ \cup {b}]
        BY <2>1, <2>5
      <4>3. views[p] = [stream |-> s, commits |-> logs[s]]
        BY <2>1, <3>5 DEF Seen
      <4>. QED
        BY <3>4, <4>1, <4>2, <4>3 DEF Log!AppendCommit
    <3>. QED
      BY <2>1, <3>6 DEF AtomicStep, Log!LogNext
  <2>. QED
    BY <2>1, <2>6, <2>7
<1>. QED
  BY <1>1, <1>2 DEF InsertNext

LEMMA ResolvesAtomic ==
  ASSUME IInv, TurnInv, NEW p \in Client, Resolves(p), UNCHANGED <<commit, events>>,
         client[p].pc \in Writing, client[p].next = commit[client[p].batch].len
  PROVE  AtomicStep
<1>. PICK me : me = client[p]
  OBVIOUS
<1> DEFINE m == [me EXCEPT !.pc = "loaded", !.batch = None, !.next = 0,
                           !.found = @ \cup EventsOf(me.batch)]
<1>0. /\ me \in Clients /\ CallOK(me) /\ TurnOK(me) /\ BatchOK(me) /\ me.stream \in Stream
      /\ Become(p, m) /\ UNCHANGED <<commit, events>>
  BY DEF IInv, TypeOK, TurnInv, TurnOK, BatchOK, Resolves
<1>1. /\ m.pc = "loaded" /\ m.stream = me.stream
      /\ m.found = me.found \cup EventsOf(me.batch)
  BY <1>0 DEF Clients
<1> HIDE DEF m
<1>2. m.found = AllOf(me.stream) /\ OthersWhole(me.stream, None)
  BY <1>0, <1>1, ResolvesAll, BatchCompletes
<1>3. ViewIn(m) = Seen(me.stream)
  BY <1>0, <1>1, <1>2, SeesLog DEF ViewIn, Seen
<1>. QED
  BY <1>0, <1>3, QuietStep

LEMMA WriteAtomic ==
  ASSUME IInv, TurnInv, NEW p \in Client, Journaled(p) \/ Inserted(p) \/ Settled(p)
  PROVE  AtomicStep
<1>. PICK me : me = client[p]
  OBVIOUS
<1>0. me \in Clients /\ CallOK(me) /\ me.pc \in Writing /\ UNCHANGED <<commit, events>>
  BY DEF IInv, TypeOK, Writing, Journaled, Inserted, Settled, db
<1>1. CASE Resolves(p) /\ (Inserted(p) \/ Settled(p))
  <2>1. me.next = commit[me.batch].len
    BY <1>0, <1>1 DEF Inserted, BatchDone, Settled, CallOK
  <2>. QED
    BY <1>0, <1>1, <2>1, ResolvesAtomic
<1>2. ASSUME NEW pc \in Writing, Become(p, [me EXCEPT !.pc = pc]) PROVE AtomicStep
  <2> DEFINE m == [me EXCEPT !.pc = pc]
  <2>1. m.pc \in Writing /\ m.stream = me.stream /\ m.found = me.found /\ Become(p, m)
    BY <1>0, <1>2 DEF Clients
  <2> HIDE DEF m
  <2>2. ViewIn(m) = ViewIn(me)
    BY <1>0, <2>1 DEF ViewIn
  <2>. QED
    BY <1>0, <2>1, <2>2, QuietStep
<1>3. "insert" \in Writing /\ "settle" \in Writing
  BY DEF Writing
<1>. QED
  BY <1>1, <1>2, <1>3 DEF Journaled, Inserted, Settled

LEMMA FaultAtomic ==
  ASSUME IInv, NEW p \in Client, Fail(p) \/ Crash(p)
  PROVE  AtomicStep
<1>1. UNCHANGED <<commit, events>>
  BY DEF Fail, Crash, db
<1>2. CASE Rejects(p)
  BY <1>1, <1>2, RejectsAtomic
<1>3. CASE Become(p, Idle)
  <2>1. Idle.pc \in Unseen
    BY DEF Idle, Unseen
  <2>. QED
    BY <1>1, <1>3, <2>1, UnseenIsNoView, QuietStep
<1>. QED
  BY <1>2, <1>3 DEF Fail, Crash

LEMMA NextAtomic == TakingTurns /\ IInv /\ TurnInv /\ [Next]_vars => AtomicStep
<1> SUFFICES ASSUME TakingTurns, IInv, TurnInv, [Next]_vars PROVE AtomicStep
  OBVIOUS
<1>1. CASE UNCHANGED vars
  <2>1. UNCHANGED <<commit, events, client>>
    BY <1>1 DEF vars, db
  <2>2. \A s \in Stream : LogOf(s)' = LogOf(s)
    BY <2>1, Frame
  <2>3. \A p \in Client : ViewOf(p)' = ViewOf(p)
    BY <2>1 DEF ViewOf, WholeIn, Used, EventsOf
  <2>. QED
    BY <2>2, <2>3 DEF AtomicStep, Log!avars
<1>2. ASSUME NEW p \in Client, ClientMoves(p) PROVE AtomicStep
  <2>1. CASE Answer(p)
    BY <2>1, ReadAtomic, RepairAtomic, PendingAtomic, InsertAtomic, WriteAtomic DEF Answer
  <2>. QED
    BY <1>2, <2>1, ReadAtomic, PendingAtomic, CommitAtomic, FaultAtomic DEF ClientMoves
<1>. QED
  BY <1>1, <1>2 DEF Next, ClientMoves

\* Used by one caller per stream at a time, the store behaves like a log to
\* which every commit is appended at once and completely, by a caller that has
\* seen the whole log, whatever requests fail and whichever caller crashes in
\* the middle of a commit or of a repair (addEvents, getEventsByRevision).
THEOREM StoreIsAtomicLog == TakingTurns => (Spec => ActsLikeAtomicLog)
<1> SUFFICES ASSUME TakingTurns PROVE Spec => ActsLikeAtomicLog
  OBVIOUS
<1>1. Init => Log!LogInit
  <2> SUFFICES ASSUME Init PROVE Log!LogInit
    OBVIOUS
  <2>1. \A s \in Stream : LogOf(s) = {}
    BY DEF Init, LogOf, Stored
  <2>2. \A p \in Client : ViewOf(p) = NoView
    BY DEF Init, ViewOf, NoView, Idle, Writing
  <2>. QED
    BY <2>1, <2>2 DEF Log!LogInit, Log!NoView, NoView
<1>2. IInv /\ TurnInv /\ [Next]_vars => [Log!LogNext]_(Log!avars)
  BY NextAtomic DEF AtomicStep
<1>. QED
  BY <1>1, <1>2, TurnInvariance, PTL DEF Spec, ActsLikeAtomicLog, Log!LogSpec
=============================================================================
