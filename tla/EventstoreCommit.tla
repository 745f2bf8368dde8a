-------------------------- MODULE EventstoreCommit --------------------------
(***************************************************************************)
(* Eventstore.commit over EventStream objects, and the EventDispatcher     *)
(* that hands the committed events to the publisher of the application.    *)
(*                                                                         *)
(* A commit takes the uncommitted events of the stream object at once and  *)
(* runs on as a chain of promises: new id and positions, the store's       *)
(* addEvents, publishing, extending the object.  Between two links of the  *)
(* chain anything else may run: the application adds events to the object, *)
(* commits it again, or commits other objects.  The store does each of its *)
(* operations at once here; MongoEventLog looks inside addEvents.          *)
(***************************************************************************)
EXTENDS Integers, Sequences

CONSTANTS
  Handle,     \* EventStream objects an application process can hold
  Stream,     \* aggregates
  Event,      \* events an application adds; each one is added once
  Call,       \* commits that can be in progress at once
  Awaits,     \* TRUE: one object per stream, one commit at a time per object
  Retries,    \* TRUE: a rejected commit is tried again with the same object
  FailAt,     \* what can go wrong: "ids", "add", "added", "publish", "restart"
  MaxFaults,  \* how often
  None        \* no stream

ASSUME CommitAssumption ==
  /\ Awaits \in BOOLEAN
  /\ Retries \in BOOLEAN
  /\ FailAt \subseteq {"ids", "add", "added", "publish", "restart"}
  /\ MaxFaults \in Nat
  /\ None \notin Stream

VARIABLES
  object,        \* the EventStream objects; history: what was added to each of
                 \* them, and whether its last commit was rejected
  call,          \* the commits in progress
  store,         \* the stored events of each stream, in the order of insertion
  undispatched,  \* positions of the stored events not marked as dispatched
  position,      \* the position counter of the store
  publisher,     \* TRUE: useEventPublisher was called before init
  queue,         \* EventDispatcher.undispatchedEventsQueue
  running,       \* EventDispatcher.isRunning
  handed,        \* positions given to the publisher, its callback not called yet
  marking,       \* positions in a setEventToDispatched request
  published,     \* history: what the publisher of this process got, in order
  settled,       \* history: positions whose commit resolved in this process
  used,          \* history: the events added so far
  owed,          \* history: positions left undispatched by earlier processes
  faults         \* faults so far

dispatcher == <<publisher, queue, running, handed, marking>>
history == <<published, settled, used, owed>>
vars == <<object, call, store, undispatched, position, dispatcher, history, faults>>

-----------------------------------------------------------------------------
Records == [event : Event, rev : Int, pos : Nat]

Objects == [stream      : Stream \cup {None},
            events      : SUBSET (Event \X Int),
            uncommitted : Seq(Event),
            toDispatch  : Seq(Event),
            added       : SUBSET Event,
            rejected    : BOOLEAN]

Calls == [pc    : {"free", "ids", "add", "publish", "concat"},
          by    : Handle \cup {None},
          base  : Int,
          batch : Seq(Event),
          first : Nat]

Unused == [stream |-> None, events |-> {}, uncommitted |-> <<>>,
           toDispatch |-> <<>>, added |-> {}, rejected |-> FALSE]

NoCall == [pc |-> "free", by |-> None, base |-> -1, batch |-> <<>>, first |-> 0]

Elements(s) == {s[i] : i \in DOMAIN s}
Stored(s) == Elements(store[s])
AllStored == UNION {Stored(s) : s \in Stream}
Positions(recs) == {r.pos : r \in recs}

TypeOK ==
  /\ object \in [Handle -> Objects]
  /\ call \in [Call -> Calls]
  /\ store \in [Stream -> Seq(Records)]
  /\ position \in Nat
  /\ undispatched \cup handed \cup marking \cup settled \cup owed \subseteq 1 .. position
  /\ queue \in Seq(Records)
  /\ published \in Seq(Records)
  /\ running \in BOOLEAN
  /\ publisher \in BOOLEAN
  /\ used \subseteq Event
  /\ faults \in 0 .. MaxFaults

\* EventStream.currentRevision: the highest revision among the events of the
\* object, -1 without events; as a set of one number.
CurrentRevision(h) ==
  LET revs == {e[2] : e \in object[h].events} \cup {-1}
  IN  {r \in revs : \A q \in revs : q <= r}

Revised_fromBase(c) ==
  [i \in DOMAIN c.batch |-> [event |-> c.batch[i], rev |-> c.base + i - 1, pos |-> c.first + i]]

Revised_samePosition(c) ==
  [i \in DOMAIN c.batch |-> [event |-> c.batch[i], rev |-> c.base + i, pos |-> c.first + 1]]

\* processPositions: the events with their revisions and positions.
Revised(c) ==
  [i \in DOMAIN c.batch |-> [event |-> c.batch[i], rev |-> c.base + i, pos |-> c.first + i]]

Restored_appended(batch, uncommitted) == uncommitted \o batch

\* A failed addEvents puts the events before those added in the meantime.
Restored(batch, uncommitted) == batch \o uncommitted

Left_all(uncommitted) == uncommitted

\* What a commit leaves in the object.
Left(uncommitted) == <<>>

NextPosition_lastOnly(n) == position + (IF n > 0 THEN 1 ELSE 0)

NextPosition(n) == position + n

Given_popped(q) == [k \in DOMAIN q |-> q[Len(q) + 1 - k]]

\* The order in which trigger gives a queue to the publisher.
Given(q) == q

Rest_all(q, n) == q

\* The queue after n events were shifted.
Rest(q, n) == SubSeq(q, n + 1, Len(q))

RunningAfter_unreset == TRUE

\* isRunning after a loop of trigger that came to its end.
RunningAfter == FALSE

Busy(h) == \E i \in Call : call[i].by = h

Fails(what) == what \in FailAt /\ faults < MaxFaults /\ faults' = faults + 1

-----------------------------------------------------------------------------
(* The application *)

\* getEventStream (without bounds) and new EventStream.
Load(h, s) ==
  /\ object[h].stream = None
  /\ Awaits => \A g \in Handle : object[g].stream # s
  /\ object' = [object EXCEPT ![h] = [Unused EXCEPT
                  !.stream = s, !.events = {<<r.event, r.rev>> : r \in Stored(s)}]]
  /\ UNCHANGED <<call, store, undispatched, position, dispatcher, history, faults>>

Release(h) ==
  /\ object[h].stream # None
  /\ ~Busy(h)
  /\ object' = [object EXCEPT ![h] = Unused]
  /\ UNCHANGED <<call, store, undispatched, position, dispatcher, history, faults>>

\* addEvent: the Event constructor pushes it to the uncommitted events.
AddEvent(h, e) ==
  /\ object[h].stream # None
  /\ e \notin used
  /\ used' = used \cup {e}
  /\ object' = [object EXCEPT ![h].uncommitted = Append(@, e), ![h].added = @ \cup {e}]
  /\ UNCHANGED <<call, store, undispatched, position, dispatcher, published, settled,
                 owed, faults>>

-----------------------------------------------------------------------------
(* Eventstore.commit, link by link *)

\* The events leave the object and the two requests for the id and for the
\* positions start.
Commit(h, i) ==
  /\ object[h].stream # None
  /\ call[i] = NoCall
  /\ Awaits => ~Busy(h)
  /\ object[h].rejected => Retries
  /\ \E base \in CurrentRevision(h) :
       call' = [call EXCEPT ![i] = [pc |-> "ids", by |-> h, base |-> base,
                                    batch |-> object[h].uncommitted, first |-> 0]]
  /\ object' = [object EXCEPT ![h].uncommitted = Left(@)]
  /\ UNCHANGED <<store, undispatched, position, dispatcher, history, faults>>

\* getNewId and getNextPositions answered; addEvents starts.
Numbered(i) ==
  /\ call[i].pc = "ids"
  /\ position' = NextPosition(Len(call[i].batch))
  /\ call' = [call EXCEPT ![i].pc = "add", ![i].first = position]
  /\ UNCHANGED <<object, store, undispatched, dispatcher, history, faults>>

\* One of the two rejects, and with it the commit.
NotNumbered(i) ==
  /\ call[i].pc = "ids"
  /\ Fails("ids")
  /\ position' \in {position, NextPosition(Len(call[i].batch))}
  /\ call' = [call EXCEPT ![i] = NoCall]
  /\ object' = [object EXCEPT ![call[i].by].rejected = TRUE]
  /\ UNCHANGED <<store, undispatched, dispatcher, history>>

\* The store appends the events and remembers them as not dispatched.
Insert(c) ==
  LET s == object[c.by].stream
  IN  /\ store' = [store EXCEPT ![s] = @ \o Revised(c)]
      /\ undispatched' = undispatched \cup Positions(Elements(Revised(c)))

Added(i) ==
  /\ call[i].pc = "add"
  /\ Insert(call[i])
  /\ call' = [call EXCEPT ![i].pc = "publish"]
  /\ UNCHANGED <<object, position, dispatcher, history, faults>>

\* addEvents rejects, with the events stored or not.
NotAdded(i) ==
  /\ call[i].pc = "add"
  /\ \/ Fails("add") /\ UNCHANGED <<store, undispatched>>
     \/ Fails("added") /\ Insert(call[i])
  /\ object' = [object EXCEPT
       ![call[i].by].uncommitted = Restored(call[i].batch, @), ![call[i].by].rejected = TRUE]
  /\ call' = [call EXCEPT ![i] = NoCall]
  /\ UNCHANGED <<position, dispatcher, history>>

\* Without a publisher the events are offered on the object.
Offer(i) ==
  /\ call[i].pc = "publish"
  /\ ~publisher
  /\ object' = [object EXCEPT ![call[i].by].toDispatch = call[i].batch]
  /\ call' = [call EXCEPT ![i].pc = "concat"]
  /\ UNCHANGED <<store, undispatched, position, dispatcher, history, faults>>

\* addUndispatchedEvents queues the events; trigger gives the publisher one
\* after the other, unless an earlier trigger never came to its end.
Publish(i) ==
  LET all == queue \o Revised(call[i])
  IN  /\ call[i].pc = "publish"
      /\ publisher
      /\ IF running
         THEN queue' = all /\ UNCHANGED <<published, handed, running>>
         ELSE /\ queue' = Rest(all, Len(all))
              /\ published' = published \o Given(all)
              /\ handed' = handed \cup Positions(Elements(all))
              /\ running' = RunningAfter
      /\ call' = [call EXCEPT ![i].pc = "concat"]
      /\ UNCHANGED <<object, store, undispatched, position, publisher, marking, settled,
                     used, owed, faults>>

\* The publisher throws at the n-th event: isRunning stays set and the commit
\* rejects, with its events stored.
PublishThrows(i) ==
  LET all == Given(queue \o Revised(call[i]))
  IN  /\ call[i].pc = "publish"
      /\ publisher
      /\ ~running
      /\ Fails("publish")
      /\ \E n \in DOMAIN all :
           /\ published' = published \o SubSeq(all, 1, n)
           /\ handed' = handed \cup {all[k].pos : k \in 1 .. n - 1}
           /\ queue' = Rest(all, n)
      /\ running' = TRUE
      /\ call' = [call EXCEPT ![i] = NoCall]
      /\ object' = [object EXCEPT ![call[i].by].rejected = TRUE]
      /\ UNCHANGED <<store, undispatched, position, publisher, marking, settled, used, owed>>

\* concatEvents: the object gets the events and the commit resolves.
Concat(i) ==
  LET c == call[i]
  IN  /\ c.pc = "concat"
      /\ object' = [object EXCEPT
           ![c.by].events = @ \cup {<<r.event, r.rev>> : r \in Elements(Revised(c))},
           ![c.by].rejected = FALSE]
      /\ settled' = settled \cup Positions(Elements(Revised(c)))
      /\ call' = [call EXCEPT ![i] = NoCall]
      /\ UNCHANGED <<store, undispatched, position, dispatcher, published, used, owed, faults>>

-----------------------------------------------------------------------------
(* The publisher's answers *)

\* The publisher calls back; without an error the event is marked.
Confirm(p) ==
  /\ p \in handed
  /\ handed' = handed \ {p}
  /\ marking' \in {marking, marking \cup {p}}
  /\ UNCHANGED <<object, call, store, undispatched, position, publisher, queue, running,
                 history, faults>>

\* setEventToDispatched answers.
Marked(p) ==
  /\ p \in marking
  /\ marking' = marking \ {p}
  /\ undispatched' = undispatched \ {p}
  /\ UNCHANGED <<object, call, store, position, publisher, queue, running, handed,
                 history, faults>>

-----------------------------------------------------------------------------
(* The process ends and another one starts on the same store *)

\* EventDispatcher.start asks the eventstore for the undispatched events with
\* a callback; Eventstore.getUndispatchedEvents returns a promise and never
\* calls it, so start queues nothing.
StartQueue == <<>>

Restart ==
  /\ Fails("restart")
  /\ object' = [h \in Handle |-> Unused]
  /\ call' = [i \in Call |-> NoCall]
  /\ queue' = StartQueue
  /\ running' = FALSE
  /\ handed' = {}
  /\ marking' = {}
  /\ published' = <<>>
  /\ settled' = {}
  /\ owed' = undispatched
  /\ UNCHANGED <<store, undispatched, position, publisher, used>>

-----------------------------------------------------------------------------
Init ==
  /\ object = [h \in Handle |-> Unused]
  /\ call = [i \in Call |-> NoCall]
  /\ store = [s \in Stream |-> <<>>]
  /\ undispatched = {}
  /\ position = 0
  /\ publisher \in BOOLEAN
  /\ queue = StartQueue
  /\ running = FALSE
  /\ handed = {}
  /\ marking = {}
  /\ published = <<>>
  /\ settled = {}
  /\ used = {}
  /\ owed = {}
  /\ faults = 0

\* A link of the promise chain of commit i.
Link(i) == Numbered(i) \/ Added(i) \/ Offer(i) \/ Publish(i) \/ Concat(i)

Next ==
  \/ \E h \in Handle :
       \/ \E s \in Stream : Load(h, s)
       \/ \E e \in Event : AddEvent(h, e)
       \/ \E i \in Call : Commit(h, i)
       \/ Release(h)
  \/ \E i \in Call : Link(i) \/ NotNumbered(i) \/ NotAdded(i) \/ PublishThrows(i)
  \/ \E p \in handed : Confirm(p)
  \/ \E p \in marking : Marked(p)
  \/ Restart

Spec == Init /\ [][Next]_vars

\* Promise jobs run and requests are answered.
FairSpec == Spec /\ \A i \in Call : WF_vars(Link(i))

-----------------------------------------------------------------------------
(* Properties of every use *)

\* Commits may overlap as they like: no two stored events share a position
\* (getNextPositions takes the whole range at once).
PositionsAreUnique ==
  \A s, t \in Stream : \A i \in DOMAIN store[s], j \in DOMAIN store[t] :
    store[s][i].pos = store[t][j].pos => s = t /\ i = j

Waiting(h) ==
  {<<"object", h, i>> : i \in DOMAIN object[h].uncommitted}
    \cup UNION {{<<"call", c, i>> : i \in DOMAIN call[c].batch} :
                  c \in {k \in Call : call[k].by = h /\ call[k].pc \in {"ids", "add"}}}

EventAt(w) ==
  IF w[1] = "object" THEN object[w[2]].uncommitted[w[3]] ELSE call[w[2]].batch[w[3]]

\* As long as a rejected addEvents stored nothing, an event is in one place
\* only, on its way or in the store, and stored once: neither a retry nor an
\* overlapping commit duplicates it (commit takes the uncommitted events and
\* a failed addEvents gives them back).
StoredOnce ==
  /\ \A s, t \in Stream : \A i \in DOMAIN store[s], j \in DOMAIN store[t] :
       store[s][i].event = store[t][j].event => s = t /\ i = j
  /\ \A h \in Handle : \A w \in Waiting(h) :
       /\ \A r \in AllStored : r.event # EventAt(w)
       /\ \A v \in Waiting(h) : EventAt(v) = EventAt(w) => v = w

\* The publisher of a process gets only stored events, each of them once
\* (trigger shifts the queue).
PublishedOnce ==
  /\ Elements(published \o queue) \subseteq AllStored
  /\ \A i, j \in DOMAIN (published \o queue) :
       (published \o queue)[i].pos = (published \o queue)[j].pos => i = j

-----------------------------------------------------------------------------
(* Properties of callers that await a commit before the next one *)

\* The n-th stored event of a stream has revision n, whatever failed before:
\* the in-memory store finds revisions by array index, and the next commit
\* counts on from the highest one (currentRevision, processPositions).
RevisionIsIndex ==
  \A s \in Stream : \A i \in DOMAIN store[s] : store[s][i].rev = i - 1

\* Positions order the events of a stream as its revisions do.
PositionsFollowRevisions ==
  \A s \in Stream : \A i, j \in DOMAIN store[s] :
    i < j => store[s][i].pos < store[s][j].pos

\* The publisher gets the events of a stream in the order of their revisions,
\* also when one of its calls threw (addUndispatchedEvents, trigger).
PublishedInOrder ==
  \A s \in Stream : \A i, j \in DOMAIN published :
    (i < j /\ published[i] \in Stored(s) /\ published[j] \in Stored(s)) =>
      published[i].rev < published[j].rev

Pending(s) ==
  LET hs == {h \in Handle : object[h].stream = s}
      cs == {i \in Call : call[i].by \in hs /\ call[i].pc \in {"ids", "add"}}
      batch == IF cs = {} THEN <<>> ELSE call[CHOOSE i \in cs : TRUE].batch
  IN  IF hs = {} THEN <<>>
      ELSE LET o == object[CHOOSE h \in hs : TRUE]
           IN  IF o.rejected /\ ~Retries THEN <<>> ELSE batch \o o.uncommitted

Fifo == INSTANCE FifoStream
          WITH pending <- [s \in Stream |-> Pending(s)],
               log <- [s \in Stream |-> [i \in DOMAIN store[s] |-> store[s][i].event]]

\* Events reach the store in the order they were added, in whole commits and
\* at most once, also when commits fail and are repeated.
StreamIsFifo == Fifo!FifoSpec

EventsIn(recs) == {r.event : r \in recs}

\* Every stored event reaches the publisher, as long as addEvents rejects only
\* when it stored nothing, no publisher throws and the process lives.
StoredIsPublished ==
  \A e \in Event :
    publisher /\ e \in EventsIn(AllStored) ~> e \in EventsIn(Elements(published))

-----------------------------------------------------------------------------
(* What the documentation says and the code does not do *)

\* "commits all uncommittedEvents in the eventstream" (eventstore.js:295): when
\* a commit succeeds, every event added to the object is stored or, if it was
\* added later, still waits.
CommitsAll ==
  \A i \in Call : call[i].pc = "concat" =>
    LET h == call[i].by
    IN  object[h].added \subseteq EventsIn(AllStored) \cup {EventAt(w) : w \in Waiting(h)}

\* "the committed event will be dispatched to the provided publisher"
\* (README.md:296).
CommittedIsPublished == publisher => settled \subseteq Positions(Elements(published))

\* "Get all undispatched events from store and queue them before all other
\* events" (eventDispatcher.js:91-92).
LeftoversFirst == published # <<>> => owed \subseteq Positions(Elements(published))
=============================================================================
