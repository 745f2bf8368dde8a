---------------------------- MODULE MongoEventLog ----------------------------
(***************************************************************************)
(* The event collection and the transaction journal that                   *)
(* node-eventstore keeps in MongoDB, used by several processes at once.    *)
(*                                                                         *)
(* A commit of n > 1 events is written with three requests that are not    *)
(* atomic together: the whole commit goes to the transactions collection,  *)
(* the events are inserted one after the other, and the journal entries of *)
(* the aggregate are removed.  A read of the aggregate finds the events,   *)
(* looks at the last one, and either removes the journal entries or        *)
(* repairs the commit from its journal entry and reads again.              *)
(*                                                                         *)
(* One step of this module is one request to the database taking effect;   *)
(* requests of different clients interleave freely, any of them may fail,  *)
(* and a client may crash between any two of them.                         *)
(***************************************************************************)
EXTENDS Integers, FiniteSets

CONSTANTS
  Client,     \* processes (or concurrent calls) that use the store
  Repairer,   \* those of them that also repair pending transactions from outside
  Stream,     \* aggregates: (context, aggregate, aggregateId)
  CommitId,   \* ids getNewId can return; also the bound on commits
  Sizes,      \* numbers of events a caller commits at once
  Ranges,     \* pairs <<revMin, revMax>> that callers read, revMax = -1: to the end
  Skew,       \* how far a clock may lag behind another, in ticks
  MaxFaults,  \* bound on failed requests and crashes
  Exclusive,  \* TRUE: callers serialise their work per aggregate and reload
              \* a stream after a failed commit; FALSE: they do as they like
  None        \* no commit, no stream

ASSUME ConstantsAssumption ==
  /\ Sizes \subseteq Nat \ {0}
  /\ Ranges \subseteq Nat \X (Nat \cup {-1})
  /\ Skew \in Nat
  /\ MaxFaults \in Nat
  /\ Exclusive \in BOOLEAN
  /\ None \notin CommitId
  /\ None \notin Stream

VARIABLES
  commit,  \* what Eventstore.commit gave the events of each commit id (len = 0: id unused)
  events,  \* the events collection: <<commit id, commitSequence>>
  txs,     \* the transactions collection: ids of journaled commits
  clock,   \* the latest commitStamp given so far
  acked,   \* history: commits whose promise was resolved
  faults,  \* failures and crashes so far
  client   \* the call each client is in, and what it knows

db == <<commit, events, txs, clock>>
vars == <<commit, events, txs, clock, acked, faults, client>>

-----------------------------------------------------------------------------
(* Data *)

Event == CommitId \X Nat

NoCommit == [stream |-> None, len |-> 0, base |-> -1, stamp |-> 0]

\* base is the stream revision before the first event of the commit.
Commits == [stream : Stream, len : Nat \ {0}, base : Int, stamp : Nat]

Reading   == {"find", "clean"}
Repairing == {"lookup", "repair", "repaired"}
Writing   == {"journal", "insert", "settle"}
Pending   == {"list", "probe", "prune", "last"}
Resting   == {"idle", "loaded", "failed"}
Waiting   == Reading \cup Repairing \cup Writing \cup Pending

Clients == [pc     : Resting \cup Waiting,
            task   : {"none", "stream", "pending"},
            stream : Stream \cup {None},
            range  : Ranges \cup {<<0, -1>>},
            found  : SUBSET Event,
            batch  : CommitId \cup {None},
            next   : Nat,
            listed : SUBSET CommitId]

Idle == [pc |-> "idle", task |-> "none", stream |-> None, range |-> <<0, -1>>,
         found |-> {}, batch |-> None, next |-> 0, listed |-> {}]

TypeOK ==
  /\ commit \in [CommitId -> Commits \cup {NoCommit}]
  /\ events \subseteq Event
  /\ txs \subseteq CommitId
  /\ clock \in Nat
  /\ acked \subseteq CommitId
  /\ faults \in 0..MaxFaults
  /\ client \in [Client -> Clients]

StreamRevision(e) == commit[e[1]].base + 1 + e[2]
RestInCommitStream(e) == commit[e[1]].len - 1 - e[2]

EventsOf(c) == {c} \X (0 .. commit[c].len - 1)
Used(c) == commit[c].len > 0
Stored(c) == {e \in events : e[1] = c}
Whole(c) == EventsOf(c) \subseteq events

Find_strictRevMin(s, r) ==
  {e \in events : /\ commit[e[1]].stream = s
                  /\ StreamRevision(e) > r[1]
                  /\ r[2] # -1 => StreamRevision(e) < r[2]}

\* The events of aggregate s that a find for <<revMin, revMax>> selects.
Find(s, r) ==
  {e \in events : /\ commit[e[1]].stream = s
                  /\ StreamRevision(e) >= r[1]
                  /\ r[2] # -1 => StreamRevision(e) < r[2]}

\* The sort key of a find: commitStamp, then streamRevision, then commitSequence.
Precedes(d, e) ==
  LET sd == commit[d[1]].stamp
      se == commit[e[1]].stamp
  IN  \/ sd < se
      \/ sd = se /\ StreamRevision(d) < StreamRevision(e)
      \/ sd = se /\ StreamRevision(d) = StreamRevision(e) /\ d[2] < e[2]

\* What may come last in the sorted result; the database breaks ties as it likes.
Last(S) == {e \in S : \A d \in S : ~Precedes(e, d)}

CurrentRevision_counted(S) == {Cardinality(S)}

\* EventStream.currentRevision of the loaded events, as a set of one number.
CurrentRevision(S) ==
  IF S = {} THEN {-1}
  ELSE {r \in {StreamRevision(e) : e \in S} : \A e \in S : StreamRevision(e) <= r}

IsTransactionOk_ignoresRest(revMax, e) ==
  revMax = -1 \/ StreamRevision(e) = revMax - 1 \/ RestInCommitStream(e) = 0

IsTransactionOk(revMax, e) ==
  \/ revMax = -1 /\ RestInCommitStream(e) = 0
  \/ revMax # -1 /\ (StreamRevision(e) = revMax - 1 \/ RestInCommitStream(e) = 0)

FirstMissing_skipsOne(e) == e[2] + 2

\* Where repairFailedTransaction starts: events.slice(length - restInCommitStream).
FirstMissing(e) == commit[e[1]].len - RestInCommitStream(e)

\* removeTransactions deletes every journal entry of the aggregate.
WithoutTransactions(s) == {c \in txs : commit[c].stream # s}

-----------------------------------------------------------------------------
(* Clients *)

BatchDone_notAwaited(me) == me.next <= commit[me.batch].len

\* Every document of the insertMany is stored.
BatchDone(me) == me.next = commit[me.batch].len

Absent_all(me) == me.listed

\* The listed journal entries of which no event was found.
Absent(me) == me.listed \ {e[1] : e \in me.found}

Become(p, state) == client' = [client EXCEPT ![p] = state]

\* In the exclusive discipline a client works on an aggregate nobody else uses.
Free(p, s) ==
  Exclusive => \A q \in Client \ {p} : /\ client[q].stream # s
                                       /\ client[q].task # "pending"

AllFree(p) == Exclusive => \A q \in Client \ {p} : client[q] = Idle

Rejects_unsettled(p) == UNCHANGED client

\* The promise of the call is rejected; a failed commit leaves its events in
\* the stream object.
Rejects(p) ==
  LET me == client[p]
  IN  Become(p, IF me.pc \in Writing
                THEN [me EXCEPT !.pc = "failed", !.batch = None, !.next = 0]
                ELSE Idle)

-----------------------------------------------------------------------------
(* Reading a stream: getEventStream and getEventsByRevision *)

Load(p, s, r) ==
  /\ client[p].pc = "idle"
  /\ Free(p, s)
  /\ Become(p, [Idle EXCEPT !.pc = "find", !.task = "stream", !.stream = s, !.range = r])
  /\ UNCHANGED <<db, acked, faults>>

\* The find answers; the last event decides between returning and repairing.
Found(p) ==
  LET me == client[p]
      result == Find(me.stream, me.range)
  IN  /\ me.pc = "find"
      /\ \/ /\ result = {}
            /\ Become(p, [me EXCEPT !.pc = "loaded"])
         \/ \E e \in Last(result) :
              IF IsTransactionOk(me.range[2], e)
              THEN Become(p, [me EXCEPT !.pc = "clean", !.found = result])
              ELSE Become(p, [me EXCEPT !.pc = "lookup", !.batch = e[1],
                                        !.next = FirstMissing(e)])
      /\ UNCHANGED <<db, acked, faults>>

\* removeTransactions answers and the read resolves with what was found.
Cleaned(p) ==
  LET me == client[p]
  IN  /\ me.pc = "clean"
      /\ txs' = WithoutTransactions(me.stream)
      /\ Become(p, [me EXCEPT !.pc = "loaded"])
      /\ UNCHANGED <<commit, events, clock, acked, faults>>

\* The caller drops the stream it holds.
Release(p) ==
  /\ client[p].pc \in {"loaded", "failed"}
  /\ Become(p, Idle)
  /\ UNCHANGED <<db, acked, faults>>

-----------------------------------------------------------------------------
(* repairFailedTransaction *)

\* findOne on the journal.  Without an entry, or with nothing left to insert
\* (insertMany refuses an empty list), the repair rejects.
LookedUp(p) ==
  LET me == client[p]
  IN  /\ me.pc = "lookup"
      /\ IF me.batch \in txs /\ me.next < commit[me.batch].len
         THEN Become(p, [me EXCEPT !.pc = "repair"])
         ELSE Rejects(p)
      /\ UNCHANGED <<db, acked, faults>>

\* An ordered insertMany stores one event after the other and stops with an
\* error at the first one that is there already.
InsertNext(p) ==
  LET me == client[p]
      e == <<me.batch, me.next>>
  IN  /\ me.pc \in {"repair", "insert"}
      /\ me.next < commit[me.batch].len
      /\ IF e \in events
         THEN Rejects(p) /\ UNCHANGED events
         ELSE /\ events' = events \cup {e}
              /\ Become(p, [me EXCEPT !.next = @ + 1])
      /\ UNCHANGED <<commit, txs, clock, acked, faults>>

Restored(p) ==
  LET me == client[p]
  IN  /\ me.pc = "repair"
      /\ BatchDone(me)
      /\ Become(p, [me EXCEPT !.pc = "repaired"])
      /\ UNCHANGED <<db, acked, faults>>

\* The journal entries are gone: a read starts over, an external repair ends.
Repaired(p) ==
  LET me == client[p]
  IN  /\ me.pc = "repaired"
      /\ txs' = WithoutTransactions(me.stream)
      /\ Become(p, IF me.task = "stream"
                   THEN [me EXCEPT !.pc = "find", !.batch = None, !.next = 0]
                   ELSE Idle)
      /\ UNCHANGED <<commit, events, clock, acked, faults>>

-----------------------------------------------------------------------------
(* Eventstore.commit and addEvents *)

\* The events of the stream object get an id, revisions that follow the
\* revision the object knows, and a stamp.  A single event is inserted
\* without a journal entry.
Commit(p, c, n) ==
  LET me == client[p]
  IN  /\ me.pc = "loaded" \/ (me.pc = "failed" /\ ~Exclusive)
      /\ ~Used(c)
      /\ \E t \in (clock - Skew) .. (clock + 1), base \in CurrentRevision(me.found) :
           /\ t >= 0
           /\ commit' = [commit EXCEPT ![c] = [stream |-> me.stream, len |-> n,
                                               base |-> base, stamp |-> t]]
           /\ clock' = IF t > clock THEN t ELSE clock
      /\ Become(p, [me EXCEPT !.pc = IF n = 1 THEN "insert" ELSE "journal",
                              !.batch = c, !.next = 0])
      /\ UNCHANGED <<events, txs, acked, faults>>

Journaled(p) ==
  LET me == client[p]
  IN  /\ me.pc = "journal"
      /\ txs' = txs \cup {me.batch}
      /\ Become(p, [me EXCEPT !.pc = "insert"])
      /\ UNCHANGED <<commit, events, clock, acked, faults>>

\* The commit resolves: the stream object now holds the new events too.
Resolves(p) ==
  LET me == client[p]
      c == me.batch
  IN  /\ acked' = acked \cup {c}
      /\ Become(p, [me EXCEPT !.pc = "loaded", !.batch = None, !.next = 0,
                              !.found = @ \cup EventsOf(c)])

Inserted(p) ==
  LET me == client[p]
  IN  /\ me.pc = "insert"
      /\ BatchDone(me)
      /\ IF commit[me.batch].len = 1
         THEN Resolves(p)
         ELSE Become(p, [me EXCEPT !.pc = "settle"]) /\ UNCHANGED acked
      /\ UNCHANGED <<db, faults>>

Settled(p) ==
  LET me == client[p]
  IN  /\ me.pc = "settle"
      /\ txs' = WithoutTransactions(me.stream)
      /\ Resolves(p)
      /\ UNCHANGED <<commit, events, clock, faults>>

-----------------------------------------------------------------------------
(* getPendingTransactions, getLastEvent and a repair from outside *)

ListPending(p) ==
  /\ p \in Repairer
  /\ client[p].pc = "idle"
  /\ AllFree(p)
  /\ Become(p, [Idle EXCEPT !.pc = "list", !.task = "pending"])
  /\ UNCHANGED <<db, acked, faults>>

Listed(p) ==
  LET me == client[p]
  IN  /\ me.pc = "list"
      /\ Become(p, [me EXCEPT !.pc = "probe", !.listed = txs])
      /\ UNCHANGED <<db, acked, faults>>

\* One findOne per entry tells which commits have an event.
Probed(p) ==
  LET me == client[p]
  IN  /\ me.pc = "probe"
      /\ Become(p, [me EXCEPT !.pc = "prune",
                              !.found = UNION {Stored(c) : c \in me.listed}])
      /\ UNCHANGED <<db, acked, faults>>

\* Entries without an event are deleted; the caller takes one of the others.
Pruned(p) ==
  LET me == client[p]
      present == {e[1] : e \in me.found}
  IN  /\ me.pc = "prune"
      /\ txs' = txs \ Absent(me)
      /\ \/ present = {} /\ Become(p, Idle)
         \/ \E c \in present :
              Become(p, [me EXCEPT !.pc = "last", !.stream = commit[c].stream,
                                   !.found = {}, !.listed = {}])
      /\ UNCHANGED <<commit, events, clock, acked, faults>>

GotLast(p) ==
  LET me == client[p]
  IN  /\ me.pc = "last"
      /\ \E e \in Last(Find(me.stream, <<0, -1>>)) :
           Become(p, [me EXCEPT !.pc = "lookup", !.batch = e[1],
                                !.next = FirstMissing(e)])
      /\ UNCHANGED <<db, acked, faults>>

-----------------------------------------------------------------------------
(* Failures *)

\* A request fails, before or after it took effect in the database, and its
\* promise is rejected.
Fail(p) ==
  LET me == client[p]
  IN  /\ me.pc \in Waiting
      /\ faults < MaxFaults
      /\ faults' = faults + 1
      /\ \/ UNCHANGED txs
         \/ /\ me.pc \in {"clean", "repaired", "settle"}
            /\ txs' = WithoutTransactions(me.stream)
         \/ /\ me.pc = "prune"
            /\ \E gone \in SUBSET Absent(me) : txs' = txs \ gone
      /\ Rejects(p)
      /\ UNCHANGED <<commit, events, clock, acked>>

\* The process dies and comes back knowing nothing.
Crash(p) ==
  /\ client[p] # Idle
  /\ faults < MaxFaults
  /\ faults' = faults + 1
  /\ Become(p, Idle)
  /\ UNCHANGED <<db, acked>>

-----------------------------------------------------------------------------
Init ==
  /\ commit = [c \in CommitId |-> NoCommit]
  /\ events = {}
  /\ txs = {}
  /\ clock = 0
  /\ acked = {}
  /\ faults = 0
  /\ client = [p \in Client |-> Idle]

\* The database answers the request the client waits for.
Answer(p) ==
  \/ Found(p)    \/ Cleaned(p)
  \/ LookedUp(p) \/ InsertNext(p) \/ Restored(p) \/ Repaired(p)
  \/ Journaled(p) \/ Inserted(p) \/ Settled(p)
  \/ Listed(p)   \/ Probed(p) \/ Pruned(p) \/ GotLast(p)

Next ==
  \E p \in Client :
    \/ \E s \in Stream, r \in Ranges : Load(p, s, r)
    \/ \E c \in CommitId, n \in Sizes : Commit(p, c, n)
    \/ ListPending(p)
    \/ Release(p)
    \/ Answer(p)
    \/ Fail(p)
    \/ Crash(p)

Spec == Init /\ [][Next]_vars
-----------------------------------------------------------------------------
(* Properties of every use of the store *)

\* However writers and repairing readers interleave and fail, the stored
\* events of a commit are its first ones: a repair never leaves a gap
\* (insertMany in addEvents and in repairFailedTransaction).
CommitPrefix ==
  \A e \in events : \A i \in 0 .. e[2] : <<e[1], i>> \in events

\* A commit whose promise resolved has all its events in the collection,
\* whatever readers repaired or removed meanwhile (addEvents).
AckedIsStored == \A c \in acked : Whole(c)

\* A read to the end of a stream never returns the beginning of a commit as
\* its newest part: the commit of the last event found is complete from
\* revMin on (isTransactionOk in getEventsByRevision).
NewestCommitIsWhole ==
  \A p \in Client :
    LET me == client[p]
    IN  (me.pc \in {"clean", "loaded"} /\ me.range[2] = -1 /\ me.found # {}) =>
          \E e \in Last(me.found) : \A d \in EventsOf(e[1]) :
            StreamRevision(d) >= me.range[1] => d \in me.found

-----------------------------------------------------------------------------
(* Properties of callers that serialise their work per aggregate and read  *)
(* whole streams                                                           *)

\* Some of the events are stored, and nobody is about to insert the others.
Torn(c) ==
  /\ Stored(c) # {}
  /\ ~Whole(c)
  /\ \A p \in Client : ~(client[p].batch = c /\ client[p].pc \in {"repair", "insert"})

\* A commit that was left half written can still be completed: its journal
\* entry is there ("the eventstore tries to repair itself when calling
\* getEventsByRevision", README.md:549).
TornIsRepairable == \A c \in CommitId : Torn(c) => c \in txs

\* The stored events of a stream have the revisions 0, 1, 2, ..., each once,
\* across crashes, repairs and changing writers (processPositions with
\* EventStream.currentRevision).
RevisionsAreContiguous ==
  \A s \in Stream :
    LET S == Find(s, <<0, -1>>)
    IN  /\ {StreamRevision(e) : e \in S} = 0 .. (Cardinality(S) - 1)

-----------------------------------------------------------------------------
(* Liveness: the database answers every request that is not lost, callers  *)
(* drop the streams they hold and somebody keeps reading every stream.     *)

Fairness ==
  /\ \A p \in Client : WF_vars(Answer(p)) /\ WF_vars(Release(p))
  /\ \A s \in Stream : SF_vars(\E p \in Client : Load(p, s, <<0, -1>>))

FairSpec == Spec /\ Fairness

\* Repairing a pending transaction from outside finds something to insert as
\* long as nothing else uses the store (README.md:551-561).
OutsideRepairProceeds ==
  \A p \in Client :
    LET me == client[p]
    IN  (me.task = "pending" /\ me.pc = "lookup") =>
          me.batch \in txs /\ me.next < commit[me.batch].len

\* Every call ends: no read repairs and reads again for ever, although other
\* clients keep tearing commits (repairAndRetry in getEventsByRevision).
CallsEnd ==
  \A p \in Client : client[p].pc \in Waiting ~> client[p].pc \in Resting

\* A half written commit is completed by one of the reads that follow.
TornIsRepaired == \A c \in CommitId : Torn(c) ~> Whole(c)
-----------------------------------------------------------------------------
(* The log a caller sees: a commit counts from its first stored event on,  *)
(* because it is completed before any read returns it.                     *)

LogOf(s) == {c \in CommitId : commit[c].stream = s /\ Stored(c) # {}}

WholeIn(S) == {c \in CommitId : Used(c) /\ EventsOf(c) \subseteq S}

ViewOf(p) ==
  LET me == client[p]
  IN  IF me.pc \in {"clean", "loaded"} \cup Writing
      THEN [stream |-> me.stream, commits |-> WholeIn(me.found)]
      ELSE [stream |-> None, commits |-> {}]

Log == INSTANCE AtomicEventLog
         WITH log <- [s \in Stream |-> LogOf(s)], view <- [p \in Client |-> ViewOf(p)]

\* Used one caller per stream at a time, the store behaves like the atomic
\* log, whatever requests fail and whichever caller crashes in the middle of
\* a commit or of a repair (addEvents, getEventsByRevision).
ActsLikeAtomicLog == Log!LogSpec
=============================================================================
