------------------------------ MODULE StoreEvents ------------------------------
(***************************************************************************)
(* The event half of the store contract of node-eventstore, as its seven   *)
(* drivers keep it: lib/databases (mongodb, inmemory) and shelf/databases  *)
(* (tingodb, redis, dynamodb, azuretable, elasticsearch).                  *)
(*                                                                         *)
(* Every driver function is one definition: a write is the sequence of     *)
(* requests it sends, a read is the plan it follows (what it filters, how  *)
(* it pages, when it stops, how it sorts and what it cuts).  The actions   *)
(* below execute any of them, one request to the database at a time, for   *)
(* several clients at once, on the events of one aggregate.  Init chooses  *)
(* the driver, so one specification says what all of them promise.         *)
(***************************************************************************)
EXTENDS Integers, Sequences, FiniteSets, FiniteSetsExt, SequencesExt

CONSTANTS
  Client,     \* processes that use the store: they load the stream and commit
  Reader,     \* those of them that also do the reads in Queries
  CommitId,   \* numbers standing for commit ids, ordered as the ids are as text
  Drivers,    \* the drivers to check
  Sizes,      \* numbers of events a caller commits at once
  MaxDocs,    \* bound on the events committed
  PageSize,   \* items a database puts in one page of a result
  Radix,      \* numbers below it are written with one digit
  MaxHits,    \* maxSearchResults of elasticsearch
  Queries,    \* the reads callers do
  MaxMarks,   \* bound on the events set to dispatched
  MaxFaults,  \* bound on failed requests
  Skew        \* how far the clock of one process is behind that of another

Parameters ==
  /\ Reader \subseteq Client
  /\ CommitId \subseteq Nat
  /\ Drivers \subseteq {"mongodb", "tingodb", "inmemory", "redis", "dynamodb", "azuretable",
                        "elasticsearch"}
  /\ Queries \subseteq
       [op : {"getEvents", "getEventsSince", "getEventsByRevision", "getUndispatchedEvents",
              "getLastEvent"},
        skip : Nat, limit : Nat \cup {-1}, since : Nat, lo : Nat, hi : Nat \cup {-1}]
  /\ Sizes \subseteq Nat \ {0}
  /\ {MaxDocs, MaxMarks, MaxFaults, Skew} \subseteq Nat
  /\ {PageSize, Radix, MaxHits} \subseteq Nat \ {0}

ASSUME StoreAssumption == Parameters

VARIABLES
  driver,   \* the driver in use
  listing,  \* option useUndispatchedEventsTable of dynamodb
  commit,   \* history: the events of each commit as the caller made them
  events,   \* the stored events, in the order they were stored
  waiting,  \* ids of the events listed as undispatched
  journal,  \* the transactions collection of mongodb and tingodb
  counter,  \* the revision counter of redis
  clock,    \* the latest commitStamp given
  late,     \* requests still under way for calls that were already answered
  marked,   \* history: ids successfully set to dispatched
  acked,    \* history: commits whose addEvents was answered without an error
  faults,   \* requests that failed so far
  base,     \* the revision each client would give its next event
  call      \* what each client is doing

vars == <<driver, listing, commit, events, waiting, journal, counter, clock,
          late, marked, acked, faults, base, call>>
store == <<events, waiting, journal, counter>>

-----------------------------------------------------------------------------
(* Data *)

Doc(c, n, len, first, stamp) ==
  [commit |-> c, seq |-> n, rev |-> first + n, stamp |-> stamp, rest |-> len - 1 - n]
Id(d) == <<d.commit, d.seq>>
Ids(docs) == {Id(docs[i]) : i \in DOMAIN docs}
Stored == Ids(events)
Idle == [pc |-> "idle"]

\* Numbers written without leading zeros and compared as text.
Lead(n) == IF n < Radix THEN n ELSE n \div Radix
TextLess(m, n) == Lead(m) < Lead(n) \/ (Lead(m) = Lead(n) /\ m < n)

Field == [stamp |-> "stamp", rev |-> "rev", seq |-> "seq", id |-> "commit",
          revText |-> "rev", seqText |-> "seq"]
KeyLess(k, d, e) ==
  IF k \in {"revText", "seqText"} THEN TextLess(d[Field[k]], e[Field[k]])
                                  ELSE d[Field[k]] < e[Field[k]]
Less(order, d, e) ==
  \E i \in DOMAIN order :
     /\ KeyLess(order[i], d, e)
     /\ \A j \in 1 .. i - 1 : d[Field[order[j]]] = e[Field[order[j]]]

\* A stable sort of what stands at the places I of s: an event moves behind those
\* that precede it.
Precedes(s, order, i, j) == Less(order, s[i], s[j]) \/ (~Less(order, s[j], s[i]) /\ i < j)
Arranged(s, I, order) ==
  LET Place == [j \in I |-> 1 + Cardinality({i \in I : Precedes(s, order, i, j)})]
  IN  [k \in 1 .. Cardinality(I) |-> s[CHOOSE j \in I : Place[j] = k]]

Sorted(s, order) == Arranged(s, DOMAIN s, order)
Chosen(s, I) == Arranged(s, I, <<>>)

ByTime  == <<"stamp", "rev", "seq">>
ByStamp == <<"stamp">>
ById    == <<"id", "seqText">>

\* slice(skip, skip + take) of an array; take = -1: to its end.
Slice(s, skip, take) ==
  SubSeq(s, Max({0, skip}) + 1, IF take = -1 \/ skip + take > Len(s) THEN Len(s) ELSE skip + take)

-----------------------------------------------------------------------------
(* Writes: the requests addEvents sends for the events of one commit *)

Request(verb, docs) == [do |-> verb, docs |-> docs, awaited |-> TRUE]

\* The requests verbs for each of the events in turn.
OneByOne(docs, verbs) ==
  [k \in 1 .. Len(docs) * Len(verbs) |->
     Request(verbs[1 + ((k - 1) % Len(verbs))], <<docs[1 + ((k - 1) \div Len(verbs))]>>)]

Inmemory_addEvents(docs) == <<Request("insert", docs)>>

Mongodb_addEvents(docs) ==
  IF Len(docs) = 1 THEN <<Request("insert", docs)>>
  ELSE <<Request("journal", docs), Request("insert", docs), Request("drop", docs)>>

Tingodb_addEvents_insertNotAwaited(docs) ==
  <<Request("journal", docs), [Request("insert", docs) EXCEPT !.awaited = FALSE]>>

Tingodb_addEvents(docs) ==
  IF Len(docs) = 1 THEN <<Request("insert", docs)>>
  ELSE <<Request("journal", docs), Request("insert", docs),
         [Request("drop", docs) EXCEPT !.awaited = FALSE]>>

Redis_addEvents(docs) == <<Request("incr", docs), Request("mset", docs)>>

Dynamodb_addEvents_lastFirst(docs) ==
  OneByOne(Reverse(docs), <<"put", "list">>)

Dynamodb_addEvents(docs) ==
  OneByOne(docs, IF listing THEN <<"put", "list">> ELSE <<"put">>)

Azuretable_addEvents(docs) == OneByOne(docs, <<"put", "list">>)

Elasticsearch_addEvents(docs) == <<Request("bulk", docs)>>

AddEvents(docs) ==
  CASE driver = "inmemory"      -> Inmemory_addEvents(docs)
    [] driver = "mongodb"       -> Mongodb_addEvents(docs)
    [] driver = "tingodb"       -> Tingodb_addEvents(docs)
    [] driver = "redis"         -> Redis_addEvents(docs)
    [] driver = "dynamodb"      -> Dynamodb_addEvents(docs)
    [] driver = "azuretable"    -> Azuretable_addEvents(docs)
    [] driver = "elasticsearch" -> Elasticsearch_addEvents(docs)

Dynamodb_StoredEvent_byId(d) == {Id(d)} \cap Stored

\* The stored events that have the key of d: aggregateId and the padded revision.
Dynamodb_StoredEvent(d) == {i \in DOMAIN events : events[i].rev = d.rev}

\* Whether the database refuses to store d: its key is taken.
Refuses(r, d) ==
  IF driver = "dynamodb" THEN r.do = "put" /\ Dynamodb_StoredEvent(d) # {}
  ELSE r.do \in {"insert", "put"} /\ Id(d) \in Stored

\* What a request can come to: the events it stores or lists, and its answer.
\* A batch insert stops at the first failure; a bulk answers success although
\* any of its items failed.
Outcomes(r) ==
  LET n     == Len(r.docs)
      fresh == IF \E i \in 1..n : Refuses(r, r.docs[i])
               THEN (CHOOSE i \in 1..n : /\ Refuses(r, r.docs[i])
                                         /\ \A j \in 1 .. i-1 : ~Refuses(r, r.docs[j])) - 1
               ELSE n
      Result(docs, ok, f) == [docs |-> docs, ok |-> ok, fault |-> f]
      Failures ==
        CASE r.do = "insert" -> {Result(SubSeq(r.docs, 1, k), FALSE, 1) : k \in 0 .. fresh - 1}
          [] r.do = "bulk"   -> {Result(Chosen(r.docs, I), TRUE, 1) : I \in SUBSET (1 .. n)}
          [] OTHER           -> {Result(<<>>, FALSE, 1)}
  IN  {Result(SubSeq(r.docs, 1, fresh), fresh = n, 0)}
        \cup (IF driver # "inmemory" /\ faults < MaxFaults THEN Failures ELSE {})

\* The store after request r with outcome o.
Takes(r, o) ==
  /\ events'  = IF r.do \in {"insert", "mset", "put", "bulk"} THEN events \o o.docs ELSE events
  /\ waiting' = IF r.do \in {"insert", "mset", "list", "bulk"} THEN waiting \cup Ids(o.docs)
                                                               ELSE waiting
  /\ journal' = CASE r.do = "journal" /\ o.ok -> journal \cup {r.docs[1].commit}
                  [] r.do = "drop" /\ o.ok    -> {}
                  [] OTHER                    -> journal
  /\ counter' = IF r.do = "incr" /\ o.ok THEN counter + Len(r.docs) ELSE counter
  /\ faults'  = faults + o.fault

\* Redis: the events get the revisions that the counter returned.
Numbered(docs, first) == [i \in DOMAIN docs |-> [docs[i] EXCEPT !.rev = first + i - 1]]

Made == UNION {Ids(commit[c]) : c \in CommitId}

\* commitStamps for n events: one after the other, by a clock that may be behind
\* the one of another process.
Stamps(n) ==
  {at \in [1..n -> Max({0, clock - Skew}) .. clock + 1] : \A i \in 2..n : at[i - 1] <= at[i]}

\* A client calls addEvents with the events of a new commit.
Add(p, c, n) ==
  /\ call[p].pc = "idle"
  /\ commit[c] = <<>>
  /\ Cardinality(Made) + n <= MaxDocs
  /\ \E at \in Stamps(n) :
       LET docs == [i \in 1..n |-> Doc(c, i - 1, n, base[p], at[i])]
       IN  /\ clock' = Max({clock, at[n]})
           /\ commit' = [commit EXCEPT ![c] = docs]
           /\ call' = [call EXCEPT ![p] = [pc |-> "adding", c |-> c, todo |-> AddEvents(docs)]]
  /\ UNCHANGED <<driver, listing, store, late, marked, acked, faults, base>>

Pending(p) ==  \* the requests that may take effect next
  IF driver = "azuretable" THEN DOMAIN call[p].todo ELSE {1}

Write(p) ==
  /\ call[p].pc = "adding"
  /\ \E i \in Pending(p) :
       LET r    == call[p].todo[i]
           left == RemoveAt(call[p].todo, i)
           rest == IF r.do = "incr"
                   THEN <<Request("mset", Numbered(r.docs, counter))>> ELSE left
       IN  \E o \in Outcomes(r) :
             /\ Takes(r, o)
             /\ IF o.ok /\ \E j \in DOMAIN rest : rest[j].awaited
                THEN /\ call' = [call EXCEPT ![p].todo = rest]
                     /\ UNCHANGED <<acked, late>>
                ELSE /\ call' = [call EXCEPT ![p] = Idle]
                     /\ acked' = IF o.ok THEN acked \cup {call[p].c} ELSE acked
                     /\ late' = IF o.ok \/ driver = "azuretable"
                                THEN late \cup ToSet(rest) ELSE late
  /\ UNCHANGED <<driver, listing, commit, clock, marked, base>>

\* A request of an answered call takes effect or fails.
WriteLate ==
  \E r \in late, o \in UNION {Outcomes(q) : q \in late} :
    /\ o \in Outcomes(r)
    /\ Takes(r, o)
    /\ late' = late \ {r}
    /\ UNCHANGED <<driver, listing, commit, clock, marked, acked, base, call>>

-----------------------------------------------------------------------------
(* Reads: the plan a driver function follows for a query *)

\* from:   the table that is read; listed: only events still undispatched
\* lo, hi: revisions asked of the database, hi excluded (-1: no bound)
\* since:  the least commitStamp asked of the database
\* pages:  "one" request answers all, "keys" page by page in the order of key,
\*         "scan" in no order
\* size:   items per page; enough: the loop stops when it holds that many
\* sort, skip, take: what is done with the collected events
\* last:   only the last one is answered; most: as many hits are an error
Reading == [from |-> "events", lo |-> 0, hi |-> -1, since |-> 0, pages |-> "one",
            key |-> <<>>, size |-> PageSize, enough |-> MaxDocs + 1, sort |-> ByTime,
            skip |-> 0, take |-> -1, last |-> FALSE, most |-> MaxDocs + 1]
All == MaxDocs + 1

\* mongodb.js: the database filters, sorts by eventSort, skips and limits.
Mongodb_streamEvents(q) == [Reading EXCEPT !.skip = q.skip, !.take = q.limit]
Mongodb_streamEventsSince(q) == [Mongodb_streamEvents(q) EXCEPT !.since = q.since]
Mongodb_getEventsByRevision(q) == [Reading EXCEPT !.lo = q.lo, !.hi = q.hi]
Mongodb_getUndispatchedEvents(q) == [Reading EXCEPT !.from = "waiting"]
Mongodb_getLastEvent(q) == [Reading EXCEPT !.last = TRUE]

\* tingodb.js
Tingodb_getEvents(q) == [Reading EXCEPT !.skip = q.skip, !.take = q.limit]
Tingodb_getEventsSince(q) == [Reading EXCEPT !.since = q.since, !.skip = q.skip, !.take = q.limit]
Tingodb_getEventsByRevision(q) == [Reading EXCEPT !.lo = q.lo, !.hi = q.hi]
Tingodb_getUndispatchedEvents(q) == [Reading EXCEPT !.from = "waiting"]
Tingodb_getLastEvent(q) == [Reading EXCEPT !.last = TRUE]

\* inmemory.js: sortBy is stable over the order of insertion, and a read by
\* revision is a slice of the array of the aggregate.
Inmemory_getEvents(q) == [Reading EXCEPT !.sort = ByStamp, !.skip = q.skip, !.take = q.limit]
Inmemory_getEventsSince(q) == [Inmemory_getEvents(q) EXCEPT !.since = q.since]
Inmemory_getEventsByRevision_countsRevMax(q) ==
  [Reading EXCEPT !.sort = <<>>, !.skip = q.lo, !.take = q.hi]
Inmemory_getEventsByRevision(q) ==
  [Reading EXCEPT !.sort = <<>>, !.skip = q.lo,
                  !.take = IF q.hi = -1 THEN -1 ELSE Max({0, q.hi - q.lo})]
Inmemory_getUndispatchedEvents(q) == [Reading EXCEPT !.from = "waiting", !.sort = ByStamp]
Inmemory_getLastEvent(q) == [Reading EXCEPT !.sort = ByStamp, !.last = TRUE]

\* redis.js: the keys, commitStamp:commitSequence:...:id, are sorted as text,
\* also for a read by revision, which cuts them by index.
Redis_scan == [Reading EXCEPT !.pages = "scan", !.sort = <<"stamp", "seqText", "id">>]
Redis_getEvents(q) == [Redis_scan EXCEPT !.skip = q.skip, !.take = q.limit]
Redis_getEventsSince(q) == [Redis_scan EXCEPT !.since = q.since, !.skip = q.skip, !.take = q.limit]
Redis_getEventsByRevision(q) ==
  [Redis_scan EXCEPT !.skip = q.lo, !.take = IF q.hi = -1 THEN -1 ELSE Max({0, q.hi - q.lo})]
Redis_getUndispatchedEvents(q) ==
  [Redis_scan EXCEPT !.from = "waiting", !.sort = <<"stamp", "seqText">>]
Redis_getLastEvent(q) == [Redis_scan EXCEPT !.last = TRUE]

\* dynamodb.js: the pages come in the order of rowKey; with limit -1 and
\* skip > 0 the loop stops as soon as it holds skip - 1 events; revMax is
\* included; arrays are compared as text.
Dynamodb_paging(q, plan) ==
  LET pageSize == q.skip + q.limit
  IN  [plan EXCEPT !.pages = "keys", !.key = <<"rev">>,
                   !.size = IF q.limit # -1 THEN Min({PageSize, pageSize}) ELSE PageSize,
                   !.enough = IF pageSize = -1 THEN All ELSE pageSize,
                   !.skip = q.skip, !.take = q.limit]
Dynamodb_getEvents(q) == [Dynamodb_paging(q, Reading) EXCEPT !.sort = <<"stamp", "revText">>]
Dynamodb_getEventsSince(q) ==
  [Dynamodb_paging(q, Reading) EXCEPT !.since = q.since, !.sort = ByStamp]
Dynamodb_getEventsByRevision_byId(q) ==
  [Reading EXCEPT !.lo = q.lo, !.hi = q.hi, !.pages = "keys", !.key = ById, !.sort = ByStamp]
Dynamodb_getEventsByRevision(q) ==
  [Reading EXCEPT !.lo = q.lo, !.hi = IF q.hi = -1 THEN -1 ELSE q.hi + 1,
                  !.pages = "keys", !.key = <<"rev">>, !.sort = ByStamp]
Dynamodb_getUndispatchedEvents(q) ==
  [Reading EXCEPT !.from = IF listing THEN "waiting" ELSE "nowhere",
                  !.pages = "keys", !.key = ById, !.sort = <<"stamp", "id", "seqText">>]
Dynamodb_getLastEvent(q) ==
  [Reading EXCEPT !.pages = "keys", !.key = <<"rev">>,
                  !.sort = <<"stamp", "revText", "seqText">>, !.last = TRUE]

\* azuretable.js: the pages come in the order of the event id; getEvents also
\* asks for at most skip + limit entities of that order.
Azuretable_paging(q, plan) ==
  LET pageSize == q.skip + q.limit
  IN  [plan EXCEPT !.pages = "keys", !.key = ById, !.sort = ByStamp,
                   !.enough = IF pageSize = -1 THEN All ELSE pageSize,
                   !.skip = q.skip, !.take = q.limit]
Azuretable_getEvents(q) ==
  [Azuretable_paging(q, Reading) EXCEPT
     !.size = IF q.limit # -1 THEN Min({PageSize, q.skip + q.limit}) ELSE PageSize]
Azuretable_getEventsSince(q) == [Azuretable_paging(q, Reading) EXCEPT !.since = q.since]
Azuretable_getEventsByRevision(q) ==
  [Reading EXCEPT !.lo = q.lo, !.hi = q.hi, !.pages = "keys", !.key = ById, !.sort = ByStamp]
Azuretable_getUndispatchedEvents(q) ==
  [Reading EXCEPT !.from = "waiting", !.pages = "keys", !.key = ById, !.sort = ByStamp]
Azuretable_getLastEvent(q) ==
  [Reading EXCEPT !.pages = "keys", !.key = ById,
                  !.sort = <<"stamp", "revText", "seqText">>, !.last = TRUE]

\* elasticsearch.js: one search, of maxSearchResults - skip hits when the
\* caller gives no limit.
Elasticsearch_buildQuery(skip, limit) ==
  [Reading EXCEPT !.skip = skip, !.take = IF limit = -1 THEN MaxHits - skip ELSE limit]
Elasticsearch_search(skip, limit) ==
  [Elasticsearch_buildQuery(skip, limit) EXCEPT !.most = MaxHits]
Elasticsearch_getEvents(q) == Elasticsearch_search(q.skip, q.limit)
Elasticsearch_getEventsSince(q) ==
  [Elasticsearch_search(q.skip, q.limit) EXCEPT !.since = q.since]
Elasticsearch_getEventsByRevision(q) ==
  [Elasticsearch_search(0, -1) EXCEPT !.lo = q.lo, !.hi = q.hi]
Elasticsearch_getUndispatchedEvents(q) ==
  [Elasticsearch_search(0, -1) EXCEPT !.from = "waiting"]
Elasticsearch_getLastEvent(q) == [Reading EXCEPT !.last = TRUE]

GetEvents(q) ==
  CASE driver = "mongodb"       -> Mongodb_streamEvents(q)
    [] driver = "tingodb"       -> Tingodb_getEvents(q)
    [] driver = "inmemory"      -> Inmemory_getEvents(q)
    [] driver = "redis"         -> Redis_getEvents(q)
    [] driver = "dynamodb"      -> Dynamodb_getEvents(q)
    [] driver = "azuretable"    -> Azuretable_getEvents(q)
    [] driver = "elasticsearch" -> Elasticsearch_getEvents(q)

GetEventsSince(q) ==
  CASE driver = "mongodb"       -> Mongodb_streamEventsSince(q)
    [] driver = "tingodb"       -> Tingodb_getEventsSince(q)
    [] driver = "inmemory"      -> Inmemory_getEventsSince(q)
    [] driver = "redis"         -> Redis_getEventsSince(q)
    [] driver = "dynamodb"      -> Dynamodb_getEventsSince(q)
    [] driver = "azuretable"    -> Azuretable_getEventsSince(q)
    [] driver = "elasticsearch" -> Elasticsearch_getEventsSince(q)

GetEventsByRevision(q) ==
  CASE driver = "mongodb"       -> Mongodb_getEventsByRevision(q)
    [] driver = "tingodb"       -> Tingodb_getEventsByRevision(q)
    [] driver = "inmemory"      -> Inmemory_getEventsByRevision(q)
    [] driver = "redis"         -> Redis_getEventsByRevision(q)
    [] driver = "dynamodb"      -> Dynamodb_getEventsByRevision(q)
    [] driver = "azuretable"    -> Azuretable_getEventsByRevision(q)
    [] driver = "elasticsearch" -> Elasticsearch_getEventsByRevision(q)

GetUndispatchedEvents(q) ==
  CASE driver = "mongodb"       -> Mongodb_getUndispatchedEvents(q)
    [] driver = "tingodb"       -> Tingodb_getUndispatchedEvents(q)
    [] driver = "inmemory"      -> Inmemory_getUndispatchedEvents(q)
    [] driver = "redis"         -> Redis_getUndispatchedEvents(q)
    [] driver = "dynamodb"      -> Dynamodb_getUndispatchedEvents(q)
    [] driver = "azuretable"    -> Azuretable_getUndispatchedEvents(q)
    [] driver = "elasticsearch" -> Elasticsearch_getUndispatchedEvents(q)

GetLastEvent(q) ==
  CASE driver = "mongodb"       -> Mongodb_getLastEvent(q)
    [] driver = "tingodb"       -> Tingodb_getLastEvent(q)
    [] driver = "inmemory"      -> Inmemory_getLastEvent(q)
    [] driver = "redis"         -> Redis_getLastEvent(q)
    [] driver = "dynamodb"      -> Dynamodb_getLastEvent(q)
    [] driver = "azuretable"    -> Azuretable_getLastEvent(q)
    [] driver = "elasticsearch" -> Elasticsearch_getLastEvent(q)

Plan(q) ==
  CASE q.op = "getEvents"             -> GetEvents(q)
    [] q.op = "getEventsSince"        -> GetEventsSince(q)
    [] q.op = "getEventsByRevision"   -> GetEventsByRevision(q)
    [] q.op = "getUndispatchedEvents" -> GetUndispatchedEvents(q)
    [] q.op = "getLastEvent"          -> GetLastEvent(q)

-----------------------------------------------------------------------------
(* The actions of a reader *)

\* The rows of a table; azuretable lists an event before or after it stores it.
Rows(from) ==
  IF from = "events" THEN events
  ELSE Chosen(events, {i \in DOMAIN events : Id(events[i]) \in waiting})
         \o SetToSeq({commit[id[1]][id[2] + 1] : id \in waiting \ Stored})

Wants(plan, d) == /\ d.rev >= plan.lo
                  /\ plan.hi = -1 \/ d.rev < plan.hi
                  /\ d.stamp >= plan.since

Selected(plan, rows) == Chosen(rows, {i \in DOMAIN rows : Wants(plan, rows[i])})

Version == <<Len(events), waiting, Cardinality(marked)>>

\* The answer for the collected events: sorted, cut, or an error at maxSearchResults.
Answered(q, found, version) ==
  LET plan == Plan(q)
      cut  == Slice(Sorted(found, plan.sort), plan.skip, plan.take)
      docs == IF plan.last THEN Slice(cut, Len(cut) - 1, -1) ELSE cut
      ok   == Len(cut) < plan.most
  IN  [pc |-> "answered", q |-> q, version |-> version, ok |-> ok, failed |-> ~ok,
       docs |-> IF ok THEN docs ELSE <<>>]
Rejected(q) ==
  [pc |-> "answered", q |-> q, version |-> <<>>, ok |-> FALSE, failed |-> TRUE, docs |-> <<>>]

Unread == UNCHANGED <<driver, listing, commit, clock, marked, acked, base>>

\* A query without an undispatched table is never answered: no step.
Ask(p, q) ==
  /\ call[p].pc = "idle"
  /\ Plan(q).from # "nowhere" /\ Plan(q).pages # "one"
  /\ call' = [call EXCEPT ![p] = [pc |-> "asked", q |-> q, found |-> <<>>,
                                  cursor |-> <<>>, version |-> Version]]
  /\ UNCHANGED <<store, late, faults>> /\ Unread

Torn(q, docs) ==
  LET d == docs[Len(docs)]
  IN  d.rest # 0 /\ (q.hi = -1 \/ d.rev # q.hi - 1)

Drop(docs) == [Request("drop", docs) EXCEPT !.awaited = driver = "mongodb"]

\* One request answers the whole query.  Then mongodb and tingodb look at the
\* last event of a read by revision: they clear the journal, or repair the
\* commit that is torn.
Fetch(p, q) ==
  LET plan == Plan(q)
      done == Answered(q, Selected(plan, Rows(plan.from)), Version)
      journaled == /\ driver \in {"mongodb", "tingodb"}
                   /\ q.op = "getEventsByRevision"
                   /\ done.docs # <<>>
  IN  /\ call[p].pc = "idle" \/ (call[p].pc = "asked" /\ call[p].q = q)
      /\ plan.pages = "one"
      /\ IF journaled /\ (driver = "mongodb" \/ Torn(q, done.docs))
         THEN /\ call' = [call EXCEPT ![p] =
                   [pc |-> IF Torn(q, done.docs) THEN "lookup" ELSE "clean",
                    q |-> q, docs |-> done.docs, version |-> Version]]
              /\ late' = late
         ELSE /\ call' = [call EXCEPT ![p] = done]
              /\ late' = IF journaled THEN late \cup {Drop(<<>>)} ELSE late
      /\ UNCHANGED <<store, faults>> /\ Unread

\* mongodb: the journal of the aggregate is cleared before the events are answered.
Clean(p) ==
  /\ call[p].pc = "clean"
  /\ \E o \in Outcomes(Drop(<<>>)) :
       /\ Takes(Drop(<<>>), o)
       /\ call' = [call EXCEPT ![p] =
            IF o.ok THEN Answered(@.q, @.docs, @.version) ELSE Rejected(@.q)]
  /\ UNCHANGED late /\ Unread

\* The events that the commit of the last event lacks, from its journal entry.
Missing(docs) ==
  LET d == docs[Len(docs)] IN Slice(commit[d.commit], d.seq + 1, -1)

Lookup(p) ==
  LET docs == call[p].docs
      q    == call[p].q
  IN  /\ call[p].pc = "lookup"
      /\ call' = [call EXCEPT ![p] =
           IF docs[Len(docs)].commit \in journal
           THEN [pc |-> "repair", q |-> q,
                 todo |-> <<Request("insert", Missing(docs)), Drop(<<>>)>>]
           ELSE IF driver = "tingodb" THEN Answered(q, docs, @.version)
           ELSE Rejected(q)]
      /\ UNCHANGED <<store, late, faults>> /\ Unread

\* The missing events are inserted, the journal is cleared, and the read starts again.
Repair(p) ==
  LET r    == call[p].todo[1]
      rest == Tail(call[p].todo)
      q    == call[p].q
  IN  /\ call[p].pc = "repair"
      /\ Unread
      /\ \E o \in Outcomes(r) :
           /\ Takes(r, o)
           /\ call' = [call EXCEPT ![p] =
                IF ~o.ok THEN Rejected(q)
                ELSE IF \E i \in DOMAIN rest : rest[i].awaited THEN [@ EXCEPT !.todo = rest]
                ELSE [pc |-> "asked", q |-> q, found |-> <<>>, cursor |-> <<>>,
                      version |-> Version']]
           /\ late' = IF o.ok /\ \A i \in DOMAIN rest : ~rest[i].awaited
                      THEN late \cup ToSet(rest) ELSE late

\* dynamodb and azuretable: one page in the order of the keys.
Page(p) ==
  LET q     == call[p].q
      plan  == Plan(q)
      rows  == Sorted(Rows(plan.from), plan.key)
      rest  == IF call[p].cursor = <<>> THEN rows
               ELSE Chosen(rows, {i \in DOMAIN rows : Less(plan.key, call[p].cursor[1], rows[i])})
      page  == Slice(rest, 0, plan.size)
      found == call[p].found \o Selected(plan, page)
  IN  /\ call[p].pc = "asked"
      /\ plan.pages = "keys"
      /\ call' = [call EXCEPT ![p] =
           IF Len(rest) > plan.size /\ Len(found) < plan.enough
           THEN [@ EXCEPT !.found = found, !.cursor = <<page[Len(page)]>>]
           ELSE Answered(q, found, @.version)]
      /\ UNCHANGED <<store, late, faults>> /\ Unread

\* redis: SCAN begins on the keys there are.
Redis_scanBegins(p) ==
  /\ call[p].pc = "asked"
  /\ Plan(call[p].q).pages = "scan"
  /\ call' = [call EXCEPT ![p].pc = "scan", ![p].found = Rows(Plan(call[p].q).from)]
  /\ UNCHANGED <<store, late, faults>> /\ Unread

\* SCAN returns the keys that were there throughout, and any of those that came
\* or went meanwhile; MGET answers null for one that went, which getUndispatchedEvents
\* cannot sort.
Redis_scanEnds(p) ==
  LET q    == call[p].q
      plan == Plan(q)
      old  == Ids(call[p].found)
      now  == Ids(Rows(plan.from))
  IN  /\ call[p].pc = "scan"
      /\ \E some \in SUBSET ((old \ now) \cup (now \ old)) :
           LET ids   == (old \cap now) \cup some
               found == Selected(plan, Chosen(events, {i \in DOMAIN events : Id(events[i]) \in ids}))
           IN  \E null \in SUBSET (some \ now) :
                 call' = [call EXCEPT ![p] =
                   IF null = {} THEN Answered(q, found, @.version)
                   ELSE Rejected(q)]
      /\ UNCHANGED <<store, late, faults>> /\ Unread

\* elasticsearch: a search that fails without a response is answered as one that
\* found nothing; getLastEvent drops the other errors too.
Elasticsearch_searchFails(q) ==
  {[Rejected(q) EXCEPT !.ok = TRUE, !.version = Version]}
    \cup (IF q.op = "getLastEvent" THEN {} ELSE {Rejected(q)})

\* A request of a read fails: the other drivers pass the error on.
ReadFails(p, q) ==
  /\ driver # "inmemory"
  /\ \/ call[p].pc = "idle" /\ Plan(q).from # "nowhere"
     \/ call[p].pc \in {"asked", "scan", "lookup"} /\ call[p].q = q
  /\ \E a \in IF driver = "elasticsearch" THEN Elasticsearch_searchFails(q) ELSE {Rejected(q)} :
       call' = [call EXCEPT ![p] = a]
  /\ UNCHANGED <<store, late, faults>> /\ Unread

\* EventStream.currentRevision after a load of the whole stream.
NextRevision(docs) == 1 + Max({-1} \cup {docs[i].rev : i \in DOMAIN docs})

WholeStream(q) == q.op = "getEventsByRevision" /\ q.lo = 0 /\ q.hi = -1

Done(p) ==
  LET a == call[p]
  IN  /\ a.pc = "answered"
      /\ call' = [call EXCEPT ![p] = Idle]
      /\ base' = IF a.ok /\ WholeStream(a.q) THEN [base EXCEPT ![p] = NextRevision(a.docs)]
                                             ELSE base
      /\ UNCHANGED <<driver, listing, store, commit, clock, late, marked, acked, faults>>

-----------------------------------------------------------------------------
(* setEventToDispatched: what is left of the list, and whether it succeeds *)

Mongodb_setEventToDispatched(id) == [left |-> waiting \ {id}, ok |-> TRUE]
Tingodb_setEventToDispatched(id) == [left |-> waiting \ {id}, ok |-> TRUE]
Inmemory_setEventToDispatched(id) == [left |-> waiting \ {id}, ok |-> id \in waiting]
Redis_setEventToDispatched(id) == [left |-> waiting \ {id}, ok |-> TRUE]
Dynamodb_setEventToDispatched(id) ==
  [left |-> IF listing THEN waiting \ {id} ELSE waiting, ok |-> TRUE]
Azuretable_setEventToDispatched(id) == [left |-> waiting \ {id}, ok |-> id \in waiting]
Elasticsearch_setEventToDispatched(id) == [left |-> waiting \ {id}, ok |-> id \in Stored]

SetEventToDispatched(id) ==
  CASE driver = "mongodb"       -> Mongodb_setEventToDispatched(id)
    [] driver = "tingodb"       -> Tingodb_setEventToDispatched(id)
    [] driver = "inmemory"      -> Inmemory_setEventToDispatched(id)
    [] driver = "redis"         -> Redis_setEventToDispatched(id)
    [] driver = "dynamodb"      -> Dynamodb_setEventToDispatched(id)
    [] driver = "azuretable"    -> Azuretable_setEventToDispatched(id)
    [] driver = "elasticsearch" -> Elasticsearch_setEventToDispatched(id)

\* A dispatcher marks an event that was listed or whose commit was acknowledged.
Mark(id) ==
  /\ id \in waiting \/ id[1] \in acked
  /\ Cardinality(marked \cup {id}) <= MaxMarks
  /\ waiting' = SetEventToDispatched(id).left
  /\ marked' = IF SetEventToDispatched(id).ok THEN marked \cup {id} ELSE marked
  /\ UNCHANGED <<driver, listing, commit, events, journal, counter, clock, late,
                 acked, faults, base, call>>

-----------------------------------------------------------------------------
Init ==
  /\ driver \in Drivers
  /\ listing \in BOOLEAN /\ (driver # "dynamodb" => listing)
  /\ commit = [c \in CommitId |-> <<>>]
  /\ events = <<>>
  /\ waiting = {}
  /\ journal = {}
  /\ counter = 0
  /\ clock = 0
  /\ late = {}
  /\ marked = {}
  /\ acked = {}
  /\ faults = 0
  /\ base = [p \in Client |-> 0]
  /\ call = [p \in Client |-> Idle]

Asks(p) == {q \in Queries : WholeStream(q) \/ p \in Reader}

Step(p) ==
  \/ \E c \in CommitId, n \in Sizes : Add(p, c, n)
  \/ Write(p)
  \/ \E q \in Asks(p) : Ask(p, q) \/ Fetch(p, q) \/ ReadFails(p, q)
  \/ Clean(p) \/ Lookup(p) \/ Repair(p)
  \/ Page(p)
  \/ Redis_scanBegins(p) \/ Redis_scanEnds(p)

Others ==
  \/ \E p \in Client : Step(p)
  \/ \E c \in CommitId : \E i \in DOMAIN commit[c] : Mark(<<c, i - 1>>)
  \/ WriteLate

\* A client looks at an answer before anything else happens.
Next ==
  \/ \E p \in Client : Done(p)
  \/ (\A p \in Client : call[p].pc # "answered") /\ Others

Spec == Init /\ [][Next]_vars

-----------------------------------------------------------------------------
(* Properties *)

\* Type correctness of the store and its clients.
TypeOK ==
  /\ Stored \subseteq CommitId \X Nat
  /\ waiting \cup marked \subseteq CommitId \X Nat
  /\ journal \cup acked \subseteq CommitId
  /\ {counter, clock} \subseteq 0 .. MaxDocs
  /\ faults \in 0 .. MaxFaults
  /\ base \in [Client -> Nat]
  /\ \A p \in Client : call[p].pc \in {"idle", "adding", "asked", "lookup", "clean",
                                       "repair", "scan", "answered"}

\* Two writers that loaded the same stream cannot both store an event at the
\* same revision: the key of dynamodb and the counter of redis exclude it.
RevisionIsUnique ==
  driver \in {"dynamodb", "redis"} =>
    \A i, j \in DOMAIN events : events[i].rev = events[j].rev => i = j

\* The invariant of the stored state: its types, and revisions that identify events
\* where the store sees to it.
StoreOK == TypeOK /\ RevisionIsUnique

\* Whatever fails in between, a commit is stored wholly or not at all by redis and
\* inmemory, and as a prefix by the drivers that store one event after the other.
CommitIsCutCleanly ==
  \A c \in CommitId :
    LET seqs == {id[2] : id \in {i \in Stored : i[1] = c}}
    IN  /\ driver \in {"redis", "inmemory"} => Cardinality(seqs) \in {0, Len(commit[c])}
        /\ driver \in {"mongodb", "tingodb", "dynamodb"} => seqs = 0 .. Cardinality(seqs) - 1

\* A bulk of elasticsearch is acknowledged even when items of it failed.
Lossless == driver # "elasticsearch" \/ faults = 0

\* What addEvents acknowledged is stored, and listed for the dispatcher until it is
\* marked; nothing is listed that a reader of the stream does not find (except by
\* azuretable, which sends both requests at once).
AckedIsStored ==
  /\ Lossless =>
       \A c \in acked : \A i \in DOMAIN commit[c] :
         /\ <<c, i - 1>> \in Stored
         /\ listing => <<c, i - 1>> \in waiting \cup marked
  /\ driver # "azuretable" => waiting \subseteq Stored

\* What the contract says a read answers, on the events as they are stored.
Promised(q) ==
  LET all == Sorted(events, ByTime)
  IN  CASE q.op = "getEvents"             -> Slice(all, q.skip, q.limit)
        [] q.op = "getEventsSince"        ->
             Slice(Chosen(all, {i \in DOMAIN all : all[i].stamp >= q.since}), q.skip, q.limit)
        [] q.op = "getEventsByRevision"   ->
             Chosen(all, {i \in DOMAIN all : /\ all[i].rev >= q.lo
                                             /\ q.hi = -1 \/ all[i].rev < q.hi})
        [] q.op = "getUndispatchedEvents" -> Chosen(all, {i \in DOMAIN all : Id(all[i]) \in waiting})
        [] q.op = "getLastEvent"          -> Slice(all, Len(all) - 1, -1)

\* What has to hold of the stored events for a driver to answer that.
TimeOrder     == Sorted(events, ByTime)
Contiguous    == LET all == TimeOrder IN \A i \in DOMAIN events : all[i].rev = i - 1
OneStampEach  == \A i, j \in DOMAIN events :
                   events[i].stamp = events[j].stamp => events[i].commit = events[j].commit
ShortCommits  == \A i \in DOMAIN events : events[i].seq < Radix
ShortStream   == \A i \in DOMAIN events : events[i].rev < Radix
Windowed(q)   == q.op \in {"getEvents", "getEventsSince"} /\ q.skip + q.limit # -1
OnePage(q)    == Len(events) <= Plan(q).size

Regular(q) ==
  CASE driver \in {"mongodb", "tingodb"} -> TRUE
    [] driver = "inmemory" ->
         events = TimeOrder /\ (q.op = "getEventsByRevision" => Contiguous)
    [] driver = "redis" ->
         /\ OneStampEach /\ ShortCommits
         /\ q.op = "getEventsByRevision" => Contiguous
    [] driver = "dynamodb" ->
         /\ q.op \in {"getEvents", "getLastEvent"} => ShortStream
         /\ q.op = "getUndispatchedEvents" => OneStampEach /\ ShortCommits
         /\ Windowed(q) => IF q.limit = -1 THEN OnePage(q) ELSE Contiguous
         /\ q.op = "getEventsByRevision" => \A i \in DOMAIN events : events[i].rev # q.hi
    [] driver = "azuretable" ->
         /\ OneStampEach /\ ShortCommits
         /\ q.op = "getUndispatchedEvents" => waiting \subseteq Stored
         /\ q.op = "getLastEvent" => ShortStream
         /\ Windowed(q) => OnePage(q)
    [] driver = "elasticsearch" -> Len(events) < MaxHits

\* elasticsearch: the search failed, and the answer says that there is nothing.
FailedSilently(a) == driver = "elasticsearch" /\ a.failed /\ a.docs = <<>>

\* The drivers are interchangeable for a reader nobody disturbs, except where
\* Regular says, and but for a failed search that elasticsearch answers as an
\* empty one: a read during which the store does not change answers what the
\* contract says, whatever pages, repairs and sorting it took.
QuietReadsAgree ==
  \A p \in Client :
    call[p].pc = "answered" /\ call[p].ok /\ call[p].version = Version /\ Regular(call[p].q)
      => call[p].docs = Promised(call[p].q) \/ FailedSilently(call[p])

\* No revision from 0 to the last one is missing, and none comes twice.
Gapless(docs) == {docs[i].rev : i \in DOMAIN docs} = 0 .. Len(docs) - 1

\* A later revision has no earlier stamp.
InTime(docs) ==
  \A i, j \in DOMAIN docs : docs[i].rev < docs[j].rev => docs[i].stamp <= docs[j].stamp

\* A reader that dynamodb serves page by page while others write still gets the
\* revisions from 0 on without a gap, and in order unless clocks differed.
LoadsArePrefixes ==
  driver = "dynamodb" =>
    \A p \in Client :
      LET docs == call[p].docs
      IN  call[p].pc = "answered" /\ WholeStream(call[p].q)
            => Gapless(docs) /\ (InTime(docs) => \A i \in DOMAIN docs : docs[i].rev = i - 1)
=============================================================================
