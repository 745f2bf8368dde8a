# Verification of node-packages

TLA+ models of the parts of this repository that keep state over time, the
TLC runs that check them on small instances, and proofs that TLAPS checks for
every instance.  `PROJECT.json` lists the components, the runs, the mutants
of the code each property catches, the source lines behind every definition,
the findings, the hazards and the theorems.

    tlasany MongoEventLog.tla                            # parse
    tlc -config log_shared.cfg MC_MongoEventLog.tla      # check one run
    tlapm MongoEventLog_proofs.tla                       # check the proofs

Contents: 1 the system, 2 the modules, 3 the runs, 4 bounds and fairness,
5 the proofs, 6 findings, 7 assumptions and what is left out, 8 the plan.

## 1. The system

A monorepo of independent npm packages.  The one with a protocol in it is the
event store; the kernel, the HTTP client, the decorators and the messaging and
caching packages have smaller state machines; the rest are pure functions or
generators.

### node-eventstore (`packages/node-eventstore`)

An application asks an `Eventstore` for the `EventStream` of an aggregate, adds
events to it and commits.  `commit` gives the events an id, revisions that
follow the highest one the object knows and positions from a counter of the
store; the store writes them; an `EventDispatcher` hands them to the publisher
function of the application, whose callback marks them as dispatched.

| part | state | operations | with whom |
| --- | --- | --- | --- |
| `Mongo` store (`lib/databases/mongodb.js`) | collections events, transactions, snapshots, positions; a heartbeat timer | addEvents, getEventsByRevision, streaming reads, repairFailedTransaction, getPendingTransactions, getLastEvent, snapshots, deleteStream, connect and disconnect | one database, many processes |
| `InMemory` store (`inmemory.js`) | events by aggregate, undispatched events, snapshots, one position | the same, each at once | one process |
| `Eventstore` (`eventstore.js`) and `EventStream` | events, uncommitted events and events to dispatch of each object | getEventStream, getFromSnapshot, commit, createSnapshot, deleteStream, getEvents with paging | store and dispatcher |
| `EventDispatcher` | undispatchedEventsQueue, isRunning | start, addUndispatchedEvents, trigger | publisher, store |

What is hard: MongoDB writes a commit of several events with three requests
that are not atomic together; every process that reads a stream may repair or
clean up what another one is writing; requests fail before or after they took
effect; a process may die between any two.  `commit` is a chain of promises
that reads the object once and writes it at the end, and any other call can
run between two links.  What must hold: commits are whole or repairable, what
was acknowledged is stored, revisions count 0, 1, 2, ..., positions are unique,
events are stored and published once and in order, and calls end.

The drivers under `shelf/databases` (tingodb, redis, dynamodb, azuretable,
elasticsearch) are struck out in the package's README.  They keep the same
contract on five other databases, and they are most of the package's code:

| driver | state | what is particular |
| --- | --- | --- |
| `tingodb.js` | as mongodb | the journal is removed without waiting |
| `redis.js` | a key per event, a key per undispatched event, a revision counter | SCAN, keys sorted as text, two requests per commit; connection with a heartbeat |
| `dynamodb.js` | three tables, created and removed by the driver | key of aggregate and revision, pages, batches that are processed in part |
| `azuretable.js` | three tables | requests of one commit in parallel, pages in the order of event ids |
| `elasticsearch.js` | one index | bulk requests, a search with a maximal number of hits |

What must hold: the same calls have the same results on every driver; commits
are cut only where the order of their requests cuts them; snapshots that are
kept are the right ones; tables are there when `connect` says so; a heartbeat
ends.

### kernel (`packages/kernel`) and foundation (`services/foundation`)

| part | state | operations | what must hold |
| --- | --- | --- | --- |
| `Kernel`, `PluggableKernel`, `main.ts` | container, server, plugins; boot, serve and shutdown run as promises, signals arrive at any time | boot, serve, shutdown | a shutdown closes what was opened and answers those who are connected |
| `PluginManager`, `PluginRegistry` | the map of plugins | sort, register, initialize, hook, dispose | every plugin once, before those it depends on; no order, no boot |
| `MessageBus`, `ContainerBuilder` | subscriptions per event and version | subscribe, unsubscribe, publishEvent | every subscribed handler is called once; nobody is called after unsubscribing |
| middleware (error handler, scope, authentication, validation) | the context of a request | one pass through the stack | every error is answered with its status; controllers see the user of the token |
| decorators and documentation | metadata written when classes load | read when routes are mounted | static |
| foundation `Cache`, `AppService` | a cache entry, one lazily built value | get, set, info | a hit returns what was set |

### http-client, decorators, std, oas-builder, cli

`HttpClient.request` races a timer with hooks, the fetch and the response body.
`LogBox` keeps the context of one call where several can run; the plugin cache
is keyed by object identity.  `Result`, `Option` and `Identity` are values.
oas-builder and cli transform documents and files once.

### decommissioned packages

| package | state | what must hold |
| --- | --- | --- |
| rhea-composable | requests by correlation id with their timers, replies over AMQP, a pool of connections | every request is settled once and leaves nothing behind, whatever is lost or comes twice |
| cqrs-composable | entities saved as a state or as a stream of events | an object is a beginning of what is stored; listeners hear of stored events |
| template-renderer | an engine with a cache that expires and evicts | the cache gives what rendering a job of the hash gave |
| redis-composable | a pool of connections | nothing beside the redis client's own behaviour |

## 2. The modules

| module | what it is |
| --- | --- |
| `MongoEventLog` | the events and transactions collections, used by several processes: commit, read, repair, repair from outside, failures, crashes |
| `AtomicEventLog` | what callers expect of it: a log to which whole commits are appended by someone who has seen all of it |
| `EventstoreCommit` | `Eventstore.commit` as a chain of promises, stream objects, the dispatcher, restarts |
| `FifoStream` | what an application expects of a stream it writes to: a line of events and a log |
| `StoreEvents` | the event half of the store contract as all seven drivers keep it, request by request |
| `StoreSnapshots` | snapshots on all seven drivers, `getFromSnapshot`, `deleteStream` |
| `StoreTables`, `StoreHeartbeat` | tables of dynamodb and azuretable; connection and heartbeat of mongodb and redis |
| `PluginOrder` | the sort of the plugins, and what an order is by definition |
| `KernelLifecycle` | boot, serve and shutdown of a service, EXTENDS `PluginOrder` |
| `MessageBus`, `RequestPipeline` | publications and subscriptions; a request and its errors |
| `HttpRequest`, `Dialog`, `EntityStore`, `RenderCache` | one each of the HTTP client and the decommissioned packages |
| `MC_*` | ranges, symmetry and the bounds of the runs; `MC_StoreUpkeep`, `MC_Kernel` and `MC_Clients` put modules that share no state into one specification, each behaviour being about one of them |
| `MongoEventLog_proofs` | theorems about the log: without discipline, and with callers that take turns |
| `EventstoreCommit_proofs` | theorems about the commit pipeline: positions, nothing twice; order, and the refinement of `FifoStream` |
| `StoreEvents_proofs`, `StoreReads_proofs` | theorems about `StoreEvents`: what is stored and listed; what the drivers answer |
| `Snapshots_proofs` | theorems about `StoreSnapshots` |
| `Upkeep_proofs`, `Kernel_proofs`, `Clients_proofs` | theorems about what the three `MC_*` modules compose |

The log and the commit pipeline meet in `addEvents`.  `EventstoreCommit` does it in one step
that may reject with the events stored or not; `MongoEventLog` looks inside it,
request by request, and keeps of `commit` what the database sees (a revision
to start from, a number of events, a stamp).

### MongoEventLog

One step is one request taking effect in the database.  Between two requests
everybody else may move.

| state | in the code |
| --- | --- |
| `commit[c]` | what `processPositions` writes into the events of commit `c`: stream, length (hence `restInCommitStream`), revision before the first event, `commitStamp` |
| `events` | documents of the events collection, `<<commit id, commitSequence>>` like their `_id` |
| `txs` | documents of the transactions collection |
| `client[p]` | the call process `p` is in, the events it found, where an insertMany or a repair stands |
| `acked` | history: commits whose promise resolved |

| actions | in the code |
| --- | --- |
| `Load`, `Found`, `Cleaned` | `getEventStream`, `getEventsByRevision`: the sorted find, `isTransactionOk` on the last event, `removeTransactions` |
| `LookedUp`, `InsertNext`, `Restored`, `Repaired` | `repairFailedTransaction`: the journal entry, the ordered insertMany one document at a time, removal, and the read that starts over |
| `Commit`, `Journaled`, `InsertNext`, `Inserted`, `Settled` | `commit` and `addEvents`: one event is inserted alone, several after a journal entry that is removed at the end |
| `ListPending`, `Listed`, `Probed`, `Pruned`, `GotLast` | `getPendingTransactions`, `getLastEvent` and the repair from outside that the README shows |
| `Fail`, `Crash` | a request fails before or after its effect and the promise rejects; a process dies |

`Exclusive` tells how callers use the store.  `FALSE`: they do as they like;
also a failed commit is repeated with the object it left.  `TRUE`: one caller
works on an aggregate at a time, reads it anew after a failed commit, and
repairs from outside only while nobody else is active.  What needs the
discipline and what does not is the main result of this module: prefixes,
acknowledged commits and whole newest commits need none; repairability,
contiguous revisions and the atomic log need it (finding 2 shows what happens
without).

`AtomicEventLog` is refined with `log[s]` = the commits of which at least one
event is stored and `view[p]` = the whole commits among the events a client
found.  A commit enters the abstract log with its *first* document: no read
returns before the rest is stored, so nobody sees the difference.

### EventstoreCommit

One step is what runs between two awaited results: a link of the chain, a call
of the application, an answer of the publisher.

| state | in the code |
| --- | --- |
| `object[h]` | an `EventStream`: revisions of its events, `uncommittedEvents`, `eventsToDispatch`; history: events ever added, last commit rejected |
| `call[i]` | a commit in progress: the closure's `currentRevision`, `uncommittedEvents` and positions, and the link it has reached |
| `store`, `undispatched`, `position` | the stored events of each stream, those not dispatched, the position counter |
| `publisher`, `queue`, `running` | whether one was given; `undispatchedEventsQueue`, `isRunning` |
| `handed`, `marking` | events whose publisher callback, or whose `setEventToDispatched`, is outstanding |
| `published`, `settled`, `used`, `owed` | history |

| actions | in the code |
| --- | --- |
| `Load`, `Release`, `AddEvent` | `getEventStream`, dropping an object, `addEvent` |
| `Commit` | the synchronous head of `commit`: revision read, uncommitted events taken |
| `Numbered`, `NotNumbered` | `getNewId` and `getNextPositions` resolve, or one rejects |
| `Added`, `NotAdded` | `addEvents` and its catch that gives the events back |
| `Offer` or `Publish`, `PublishThrows` | `publishEvents`: `eventsToDispatch`, or `addUndispatchedEvents` with `trigger` and its `isRunning` guard |
| `Concat` | `concatEvents`, the commit resolves |
| `Confirm`, `Marked` | the publisher's callback and `setEventToDispatched` |
| `Restart` | a new process on the same store: `init`, `initDispatcher`, `start` |

`Awaits`, `Retries` and `FailAt` are the ways to use it: whether callers wait
for a commit, repeat a rejected one with the same object or load the stream
anew, and which of the links may fail.

`FifoStream` is refined with `pending` = the events of the commit in progress
followed by those added since, and `log` = the events in the store.

### StoreEvents

Every function of a driver is one definition, named after driver and function.
A write (`Redis_addEvents`, `Dynamodb_addEvents`, ...) is the sequence of
requests it sends and whether it waits for each.  A read is a *plan*: the table
it reads, what it asks the database for, how it pages and when it stops, how it
sorts and what it cuts off.  The actions execute any of them, one request at a
time, for two clients; `Init` chooses the driver.

| state | in the code |
| --- | --- |
| `events`, `waiting`, `journal`, `counter` | the stored events, the undispatched list or flag, the transactions collection, the revision counter of redis |
| `late` | requests of calls that were answered: what tingodb does not wait for and what azuretable sends in parallel |
| `call[p]` | the call of a client with what it has collected and the key its next page begins behind |
| `commit`, `marked`, `acked` | history |

| actions | in the code |
| --- | --- |
| `Add`, `Write`, `WriteLate` | `addEvents`, request by request, each of which may fail; `Outcomes` says what a batch or a bulk leaves |
| `Ask`, `Fetch`, `Page`, `Redis_scanBegins`, `Redis_scanEnds`, `Done` | the reads: one request, pages in the order of a key, or SCAN with MGET |
| `Clean`, `Lookup`, `Repair` | what mongodb and tingodb do after a read by revision |
| `ReadFails` | any request of a read fails: the call is rejected, except that elasticsearch answers a failed search as one that found nothing (`Elasticsearch_searchFails`) |
| `Mark` | `setEventToDispatched` |

The contract is `Promised(q)`: filtered, sorted by commitStamp, revision and
sequence, cut by skip and limit.  Stamps come from the clocks of several processes
(`Stamps`), so they need not follow the revisions.  `Regular(q)` says per driver what has to hold
of the stored events for it to answer that: it is the list of differences
between the drivers, and a smaller one would be violated.  For instance redis
sorts commits of one stamp by text and reads revisions by index; dynamodb
includes `revMax` and stops after the first pages when it is asked for
everything behind an offset; azuretable applies the limit to the order of the
ids; inmemory relies on the order of insertion.

### StoreSnapshots

| actions | in the code |
| --- | --- |
| `CreateSnapshot`, `AddSnapshot`, `ListExcess`, `RemoveNext`, `RemoveLate` | `createSnapshot` with `addSnapshot` and `cleanSnapshots`: what is beyond `maxSnapshotsCount` is looked up first and removed afterwards, one by one (mongodb), unattended (tingodb), by bulk (elasticsearch) or at once (inmemory) |
| `ScanBegins`, `ScanEnds`, `GetKey` | the same and `getSnapshot` of redis, key by key |
| `GetFromSnapshot`, `LookUp`, `GetEventStream` | `getFromSnapshot`: snapshot, then events, then the last revision |
| `DeleteStream`, `Delete` | `deleteStream` of mongodb: events and snapshots side by side, failures unnoticed |
| `RequestFails` | a request of the two fails and the call is rejected; the search for events of elasticsearch is answered as an empty one |
| `Commit` | events of others, while all of that happens |

Snapshots are stamped by the clocks of several processes.  Which ones to keep is a
matter of stamps with some drivers and of revisions with others.

### StoreTables and StoreHeartbeat

`StoreTables`: `Connect` with `Exists`, `Create` and `Active` per table (the
loop that polls), `RemoveTables` with `Described`, `Delete` and `Deleted`,
`Clear` with `Scan` and `Write` page by page and batch by batch, for two
processes on one database that takes its time (`Settle`).  A task that fails
answers the call; the tasks beside it go on.

`StoreHeartbeat`: the connection of mongodb (client, indexes, close event) and
of redis, and the two timers.  `Tick` sends a ping, `PingOk`, `PingError` and
`GraceExpires` race, `Quit` and `Dropped` come at any time.

### PluginOrder, KernelLifecycle, MessageBus, RequestPipeline

`PluginOrder.Sort` is the depth-first visit of `PluginManager.sort` with its two
errors, as a recursive function of the state of the sort; `Sortable` and `DependentsFirst` say by
definition what it should give.

`KernelLifecycle` has one action per link of `boot` and `serve` (`BuildContainer`,
`AsyncInit`, `LoadPlugin`, `Register`, `BootHook`, `Booted`, `Listen`,
`Listening`) and of each `shutdown` (`ShutdownHook`, `DisposePlugin`,
`DisposeEnds`, `AsyncDispose`, `Close`, `Closed`).  `Shutdown(s)` is a signal: it
may come between any two links, also during boot and beside another shutdown.
The loops go through the live map of plugins.  A rejection nobody handles ends
the process (`Exit`), as node does since version 15.

`MessageBus`: the maps of handlers by name and version; `publishEvent` as a loop
in one turn, in which handlers subscribe, unsubscribe and publish (`Inside`),
and promises that settle later.

`RequestPipeline`: the stages in the order in which kernel and route mount them,
and the way of an error back to `ErrorView`.

### HttpRequest, Dialog, EntityStore, RenderCache

`HttpRequest`: one `HttpClient.request` between timer, hooks, fetch and body;
`Dialog`: `useDialog` with `useRequests` on one side, `useProcessor` on the
other, a broker between them that loses and delivers again; `EntityStore`:
`store` and `emitEvents` over `memoryState` and `memoryStream`, with saves that are
empty, overlap or are repeated; `RenderCache`: `Engine`, the chain of renderers, and
both storages.  A job has variables and a template, each a sequence of pieces of text,
and its hash is one after the other: different jobs may have the same.

## 3. The runs

Distinct states in brackets.

| run | instance | shows |
| --- | --- | --- |
| `log_shared` (1.4 M) | 2 clients, 1 stream, 2 commits of up to 3 events, bounded reads, clocks 1 tick apart, 1 fault, no discipline | the stored events of a commit are its first ones (`CommitPrefix`); acknowledged commits are stored (`AckedIsStored`); a read to the end never returns the beginning of a commit as its newest part (`NewestCommitIsWhole`) |
| `log_exclusive` (338 k) | 2 clients that take turns, 3 commits of 1 or 3 events, 2 faults, fair | torn commits keep their journal entry (`TornIsRepairable`); revisions are 0, 1, 2, ... (`RevisionsAreContiguous`); the store implements the atomic log (`ActsLikeAtomicLog`); a torn commit is completed (`TornIsRepaired`) |
| `log_calls_end` (362 k) | 2 clients, 2 streams, no discipline, fair | every call is answered, also a read that repairs and reads again (`CallsEnd`) |
| `commit_overlapping` (868 k) | 2 objects, 2 calls at once, commits repeated | positions are unique (`PositionsAreUnique`); an event is in one place and stored once (`StoredOnce`); the publisher gets stored events, each once (`PublishedOnce`) |
| `commit_reload` (164 k) | commits awaited, streams loaded anew after a rejection, everything may fail, 2 faults | the n-th event of a stream has revision n (`RevisionIsIndex`); positions follow revisions (`PositionsFollowRevisions`); publication follows revisions, also around an exception of the publisher (`PublishedInOrder`) |
| `commit_retry` (518 k) | commits awaited and repeated, fair | events are stored in the order they were added, in whole commits, at most once (`StreamIsFifo`); every stored event is published (`StoredIsPublished`) |
| `stores_events` (1.7 M) | seven drivers, 2 clients, 2 commits of 1 or 2 events, clocks 1 tick apart, 8 reads that may fail, 1 failing write, 1 event marked | types, and no two events of one revision where keys or counters exclude it (`StoreOK`); commits are cut only where requests are (`CommitIsCutCleanly`); acknowledged events are stored and listed until they are marked (`AckedIsStored`); an undisturbed read answers what the contract says, or elasticsearch hid its failure (`QuietReadsAgree`); dynamodb's pages have no gap also while others write, and are in order where the stamps are (`LoadsArePrefixes`) |
| `stores_snapshots` (4.0 M) | seven drivers, 2 clients, clocks 1 tick apart, 3 snapshots of which one or two are kept, 3 revisions, loads with and without `revMax`, 1 fault | cleaning keeps the right snapshots and, without a failure, no others (`SnapshotsOK`); a load finds the nearest one and is refused only when there is none (`NearestIsLoaded`); the next event comes after the snapshot (`ReplayPassesSnapshot`) |
| `stores_upkeep` (452 k) | 2 processes, 3 tables, 2 rows, pages of one, 4 calls, one throttled batch; one connection with 2 troubles; fair | types, and a connection that answers is not closed (`UpkeepOK`); tables are there after connect, gone after removal, rows gone after clear (`UpkeepIsDone`); connect is answered (`CallsAreAnswered`); a heartbeat ends with its connection and listeners are told (`HeartbeatEnds`) |
| `kernel` (335 k) | boot and 2 signals with 1 fault, 2 requests; every list of up to 3 plugins with up to 2 dependencies; 3 handlers, 2 publications, 4 changes; every token and error; fair | types, subscriptions as asked, the controller's user (`KernelOK`); the sort gives an order exactly if there is one (`SortGivesOrder`); boot hooks in order (`BootHooksInOrder`); connected clients are answered (`RequestsAreAnswered`); publications end when their handlers are done (`AnsweredWhenDone`); errors keep their status (`ErrorsAreViewed`); a signalled service stops (`StopsWhenListening`) |
| `clients` (1.1 M) | every HTTP request; 2 sends delivered up to twice; 2 callers with 3 events and any saves; two equal jobs, a different one with their hash and a fourth, on a cache of one; fair | errors that tell what went wrong, no timer left (`HttpOK`); requests, timers and promises agree (`RequestsAreConsistent`); events are stored and told once while saves of a stream overlap, objects follow the store between overlaps (`EntityFollowsStore`); a hit has what a job of its hash was rendered to (`CacheIsTransparent`); callers are answered (`CallersAreAnswered`) |
| `commit_lost_events` | smallest instance that shows it | finding 1: TLC violates `CommitsAll` |

For every property of a passing run PROJECT.json names a mutant of the code
that violates it: operators like `FirstMissing_skipsOne` or
`Dynamodb_addEvents_lastFirst` stand next to the definition they would replace.

Deadlock is checked where clients can always go on.  `stores_upkeep`, `kernel`
and `clients` end when all calls are made, a process has stopped or every
request is settled, so it is not checked there.

## 4. Bounds and fairness

| bound | constant | why it is enough |
| --- | --- | --- |
| clients, objects, calls, processes, signals | `Client`, `Handle`, `Call`, `Process`, `Signal` | every property is about two actors at most: writer and reader, two writers, two commits, two shutdowns |
| commits, events | `CommitId`, `Event`, `MaxDocs` | one torn commit, one that follows it, and in `log_exclusive` a third that builds on both; 3 or 4 events make two commits of which one has two events |
| commit size | `Sizes` | 3 leaves room for a repair that starts in the middle and is torn again; 1 takes the path without a journal |
| faults | `MaxFaults`, `MaxThrottles`, `MaxTroubles`, `MaxRetries` | 2 tear a commit and its repair; 1 is enough where clients interleave freely |
| clock skew | `Skew` | 1 tick lets a later commit sort before an earlier one, or beside it, in `MongoEventLog` and `StoreEvents`, and a later snapshot in `StoreSnapshots` |
| read ranges | `Ranges`, `Queries`, `RevMaxs` | the whole stream, an offset without limit, a limit, a time with both, a range inside a commit, a `revMax` in the middle |
| pages, digits, hits | `PageSize`, `Radix`, `MaxHits`, `PageRows`, `Row` | 3 events fill two pages; a sequence or revision that needs another digit, and a search that reaches its maximum, begin at 3 |
| snapshots | `Counts`, `MaxSnaps`, `MaxRevision` | one or two kept of three: two cleanings that overlap list each other's |
| calls on tables | `MaxCalls` | connect by both, a removal or clear, and one more beside it; the last is kept for two removals.  Five calls make 4.0 M states; `UpkeepKeepsItsWord` holds for any number |
| messages, jobs | `MaxDeliveries`, `MaxEntries`, `MaxChanges`, `MaxEvents` | a second delivery, an eviction, a handler that leaves and comes back; one save is repeated once |

Three runs have conditions on steps.  `stores_events` interleaves a read of
several requests with others only where a property judges what it answers
(`Undisturbed`), and one client does everything on azuretable (`OneWriter`: the rows
of two commits differ and no property judges its disturbed reads).  A rejected search or
page leaves client and store as they were, so that only rejected loads of the whole
stream are kept (`OneError`).  Stamps differ within a commit of inmemory and
elasticsearch only, and clocks lag for one driver of each way to sort (`OneTick`, and
`OneClock` of `stores_snapshots`); the theorems hold without these conditions.  Where no
order looks at the ids of commits they are made in turn (`InTurn`).  In
`stores_upkeep` processes do not connect beside a clear, and rows are stored while nobody connects or
removes (`Apart`: connect only reads tables that are active, and rows matter to
clear alone).  A removal of tables is judged if it began
when no connect had tables left to create (`alone`).  In `StoreEvents` and `StoreSnapshots` a client looks at its answer
before anything else happens, which changes nothing in the database.

Symmetry is used in runs without temporal properties only.

Fairness of `MongoEventLog`: weak fairness of a client's `Answer` (the database
answers a request that does not fail), weak fairness of `Release` (callers drop
the streams they hold) and strong fairness of loading each stream (somebody
keeps reading it; strong because other clients' turns disable it again and
again under `Exclusive`).  The code repairs on read only, so without readers a
torn commit stays torn.  Faults are bounded, so they end.

Fairness of `EventstoreCommit`: weak fairness of the links of a commit:
promise jobs run and the store answers.  Nothing is assumed of the application
or of its publisher's callback.

Fairness of `MC_StoreUpkeep`: a process goes on with its tasks (`Work`), the
database makes new tables active and forgets deleted ones (`Settle`), event loop
and driver get to their handlers (`Handlers`).  Of `MC_Kernel`: the links of boot
and of each shutdown, and the handlers of requests.  Of `MC_Clients`: what
`request` does by itself and its timer, the receiver that opens, sending, and
the timer of each request; a server that sends no headers, a processor and a
broker that do nothing are allowed.

## 5. The proofs

Checked by tlapm for every value of the constants that meets the named
assumptions.  The assumptions say no more than what kind of thing a constant is:
sizes and page lengths are positive, bounds are natural numbers, `None` is no
stream and no commit (`ConstantsAssumption`, `CommitAssumption`,
`TablesAssumption`, `BeatAssumption`, `DialogAssumption`, `EntityAssumption`,
`BusAssumption`), rows and signals are finitely many, chains of renderers are
sequences of names (`RenderAssumption`), plugins have a name and a sequence of
names they depend on (`DefinitionsAssumption`); codes of node are no numbers and
the view has a phrase for the statuses it maps them to (`PipeAssumption`); drivers
are among the seven there are and queries among the calls of the contract
(`SnapshotAssumption`, `StoreAssumption`).  Where
a theorem needs callers with a discipline it is a hypothesis of the theorem, so
that what holds without it is stated without it.

Every inductive invariant below was checked by TLC, on the instance of its run or
a smaller one, before it was proved.

### The log: `MongoEventLog_proofs`

| theorem | hypothesis |
| --- | --- |
| `TypeCorrect`, `CommitsHavePrefixes`, `AckedCommitsAreStored`, `NewestCommitsAreWhole` | none |
| `TornCommitsAreRepairable`, `RevisionsStayContiguous`, `StoreIsAtomicLog` | `TakingTurns` |

Without discipline: the invariant `IInv` adds to `TypeOK` and the first two
properties what a client relies on between two requests (`CallOK`): the events
it found are stored; while it writes or repairs commit `c` at position `next`,
the events of `c` before `next` are stored, whoever inserted them; a client that
waits for the removal of the journal has inserted all.  `CommitPrefix` alone is
not inductive: an insertion at `next` makes a gap unless the events before it
are there, which holds for a writer because it inserted them and for a repairer
because it saw an event and, by `CommitPrefix` at that time, those before it.
Since nothing deletes events, what a client has passed by stays.
`NewestCommitIsWhole` has an invariant of its own on top, `ReaderInv`: it holds
of a client for as long as it keeps the object, through commits that fail and
are repeated (`FoundIsWhole`, `AddWholeCommit`), also when clocks differ.

`TakingTurns` is `Exclusive`, reads of the whole stream, and clocks that agree:
what `log_exclusive` runs.  Findings 2 and 4 show that the first two are needed,
section 7 says what becomes of clocks that differ.  The invariant is `TurnInv`.
`TurnsOK`: nobody else is on the stream a client works on, and nobody at all
beside a repair from outside.  `NumberedOK`: the events of a stream have the
revisions 0 to n - 1 in the order in which a find sorts them, and a commit that is
not whole has the newest of them.  `JournalOK`: such a commit has its journal
entry.  `StampsOK`: no stamp is ahead of the clock.  `TurnOK`: what the client
whose turn it is knows in each state of its call; above all, that the next event
of its batch is the next event of the stream and all other commits are whole.
None of them is inductive without the others: that revisions continue rests on
having found all events, which rests on the turn; that a cleaning removes no
needed entry rests on the order of the find.

`StoreIsAtomicLog` is the refinement of `AtomicEventLog`, initial states and
step by step: the first insertion of a commit is the append, at which the
writer's view is the whole log; a find that is answered is the read; all other
steps stutter, a repair because its commit is in the abstract log already.

### The commit pipeline: `EventstoreCommit_proofs`

| theorem | hypothesis |
| --- | --- |
| `TypeCorrect`, `PositionsStayUnique`, `NothingIsPublishedTwice` | none |
| `NothingIsStoredTwice` | no store rejects what it stored (`"added" \notin FailAt`) |
| `RevisionsCountEvents`, `PositionsOrderStreams`, `PublisherKeepsOrder` | `Careful` |
| `StreamsAreFifo` | `Awaits`, and commits are repeated only if the store rejects nothing that it stored |

`IInv` says that commits on their way to the store have claimed disjoint ranges
below the counter (`ClaimsDiffer`, `CallsOK`) and that nobody has stored an
event with a claimed position (`ClaimsUnstored`).  A failed commit leaves a hole.

`NothingIsPublishedTwice` needs `OnceInv`: what was published and what waits in
the dispatcher's queue is stored and has positions of its own, also in a queue
whose `isRunning` stays set, and the positions of a commit that is about to
publish are nobody else's.  `NothingIsStoredTwice` needs
`PlacesInv`: an event is at one place only, in the store, among the uncommitted
events of an object, or in the batch of a commit that may still give it back;
`commit` moves it by taking the uncommitted events at once.  A store that
rejects after storing makes two places of one, which is why the hypothesis
cannot be dropped: with `"added"` in `FailAt` and repetition TLC finds an event
stored twice.

`Careful` is `Awaits` and, where commits are repeated with the same object,
that a rejected one has stored nothing.  `AloneInv` says that a stream then has
one object and an object one commit; `OrderInv` that the object knows the
stream up to its last event whenever it may commit (`FreeObjectsCurrent`,
`CallsCurrent`), from which the revisions count on, and that the events the
publisher waits for are ordered (`LineOrdered`, `BatchesNext`), also when an
exception of the publisher leaves some of them behind.

`StreamsAreFifo` is the refinement of `FifoStream`, step by step.  Every step of
a commit changes where a pending event is: from uncommitted to the batch, back in
front of those added since, or to the store.  `UsedInv` says that every event
anywhere was added, so that a new one is new.

### The seven stores: `StoreEvents_proofs`

| theorem | inductive invariant |
| --- | --- |
| `StoreIsSound`, `AcknowledgedIsStored`, `CutsAreClean` | `Inv` |
| `LoadsHaveNoGap` | `Chain` beside `Inv` |

For all seven drivers at once, any number of clients, commits, faults and repairs,
and any page size.  `Inv` says of each client how far it is with the requests of
its commit (`Progress`): what the requests before the next one were to store is
stored (`Finished`), since nothing is ever deleted; azuretable may have done any
of them.  From it follows `AckedIsStored`, when the last awaited request is done.
`CutOK` alone is not inductive: an event may only be stored behind those
before it, which `Progress` gives for a writer and, for a repair, `ReadOK`, since
what is missing is counted from an event that was read.  A failed batch or an
early late request changes none of it: requests nobody waits for store nothing,
except those of azuretable (`LateOK`).

Revisions of redis are unique because the counter hands out disjoint ranges
(`NumbersOK`), which stay below the number of events made (`CountsOK`); those of
dynamodb because the database refuses a second event with a key, whoever writes.
The order of sorts is a strict total order on places (`PrecedesOrder`), so that
there is one enumeration of what is chosen (`EnumerationCounts`, `ArrangedIs`), by
which all reads are computed.

`Chain` is why a load of dynamodb has no gap although two writers that loaded the
same stream interleave their puts: an event that is stored has revision 0 or follows
one that is stored with the revision before (`EventFollows`), be it of its own commit or the
last one its writer had read.  That writer had read a gapless beginning
(`Follows`).  Hence the stored revisions are always an interval
from 0 on (`RevisionsAre`), rows come in the order of the revisions (`Loaded`), and a
page begins where the last one ended (`PageContinues`).  The sort by stamp at the
end loses nothing, and moves nothing if no later revision has an earlier stamp
(`LoadOK`); the clocks of two processes may give it one, and then the load is out of
order (finding 14).

### What the stores answer: `StoreReads_proofs`

| theorem | inductive invariant |
| --- | --- |
| `ReadersAgree` | `Quiet` beside `Inv` |

The theorem is `QuietReadsAgree` for all seven drivers, any number of clients and
any page size: a read during which the store did not change answers what the
contract promises.  It has the exceptions of the property (`Regular`), which are those
of the code: a redis key orders numbers as text, dynamodb stops at enough rows before it
sorts them, elasticsearch stops at its maximal number of hits.  A search that fails in
elasticsearch is the one way to be told that all is well and nothing is there
(`FailedSilently`, finding 13).

One half is about sequences.  A plan selects rows, sorts and cuts them, the
contract sorts, selects and cuts.  Filtering and sorting commute
(`KeepArranged`, `SortArranged`, from `Rearranged`: an arrangement that is filtered and
sorted once more is an arrangement of the remaining places); each of the orders the
drivers use is the order of time where `Regular` says that it can be (`RedisOrder` to
`IdThenTexts`); a read by revision of a stream without gaps is a slice
(`RevisionSlice`); a window that the first rows fill is the window of all of them
(`SliceOfFirst`).  With the plan of each driver written out (`MongodbPlans` to
`AzuretablePlans`), this gives what a driver answers that found all it wants
(`MongodbAgrees` to `DynamodbAgrees`).

The other half is the invariant, in three parts.  `Reads`: a reader of pages stands
at a row of the table in the order of its key and has collected what it wants up to
there (`PageMoves`), a scan has the keys of the rows, and a reader of mongodb that
waits for its journal already has its answer.  This is said for a reader whose
`Version` is still the store's.  `ListOK` is why a version does tell: an event is
listed once, by one request or the other, and never again after it was marked, so
that the list cannot change and be as before.  It needs `OnceOK`: every
request of dynamodb and azuretable is sent once, and a list request of azuretable
that is still under way belongs to another commit than its client's new one.
`OnceOK` also says that redis numbers the events of a commit in a row, from which
its order by revision follows.

### The snapshots: `Snapshots_proofs`

| theorem | inductive invariant |
| --- | --- |
| `SnapshotsStaySound` | `StoreInv` |
| `ReplaysPassTheSnapshot` | `RevisionsInv` beside `StoreInv` |
| `NearestSnapshotIsFound` | `QuietInv` beside `StoreInv` |

For all seven drivers at once, any number of clients, snapshots and faults, and
any `maxSnapshotsCount`.  A snapshot is in excess of a set when `maxCount` others
of the set come before it in the driver's order.  Two facts about orders of
finite sets carry the rest: what is in excess of a set is in excess of every
larger one (`ExcessGrows`), and a set without excess has at most `maxCount`
elements (`NoExcess`).

`GoneInExcess` is why cleaning never removes too much: whatever was removed, or
is listed to be removed by some client, is in excess of all that were ever
stored.  A list that is out of date stays right, because snapshots added since
only make the excess grow.  `ExcessIsDoomed` is why enough is removed: as long as
nothing failed, what is in excess now is on somebody's list, or some client will
still look at all there is; each client that adds looks afterwards, hence the
last one sees everything.  Redis needs more care, since a scan may miss what
comes while it runs: then the client that added it has its own scan to come.
Both rest on `IdsDiffer`, without which snapshots would not be ordered, and on
`CallsFit`: only mongodb deletes a stream, where nobody reads page by page.

`RevisionsInv` says that revisions were given in order, and that unless one was
given twice the stream has all of them or was deleted; hence a load that finds
events finds the one of its snapshot.  `QuietInv` is about redis alone, where a
load is a scan and then one request per key: if no snapshot was added since the
load began, those that are stored are among those the scan found, and if none
was removed either, the keys not yet looked at contain the answer.  The other
drivers need no invariant here: what `getSnapshot` answers of the set it finds
(`GetSnapshotIs`) says it.

### Tables, connections, kernel and clients: `Upkeep_proofs`, `Kernel_proofs`, `Clients_proofs`

| theorem | inductive invariant |
| --- | --- |
| `HealthyConnectionsStay` | `BeatInv`: a grace timer belongs to a ping that is not answered, a client is closed for a cause |
| `UpkeepKeepsItsWord` | `TablesInv`: tasks fit the call they belong to, tables that a task saw stay while nobody removes, tables go while no connect has any to create, and the rows that were there before `clear` are behind its cursor or in its batch |
| `PublicationsAreAnswered` | `BusInv`: what a publication has called is a beginning of its own copy of a set without repetition |
| `HandlersStaySubscribed` | `SubsInv`: no empty set or map is kept, a handler is in its set exactly while it is wanted |
| `OpenRequestsAreAnswered` | `CloseInv`: how far server, boot and shutdowns are fits together, and nobody is cut off before the process ends |
| `BootHooksFollowSort`, `KernelStaysSound` | `HooksInv` beside `CloseInv`: unless a signal came too early, the hooks that were called are the beginning of the map of plugins |
| `ErrorsArriveViewed`, `UsersReachControllers` | `PipeInv`: what is known at each stage; errors come from the stages behind the scope |
| `HttpRequestsEndWell` | `HttpInv` |
| `DialogStaysConsistent` | `DialogInv`: messages carry what was sent, replies what a callable said |
| `CacheStaysTransparent` | `RenderInv`: until a job is tried again, an entry has the content of a job of its hash that was rendered, a hit likewise, and a job has been through a part of its chain |
| `EntitiesFollowTheStore` | `EntityInv`: `EventsAreSound` while saves are not repeated and those of a state do not overlap: events in hand, saved and told are different events; `ObjectsAreSound` while none overlap: a working caller's object is its own and continues what is saved |

`BootHooksFollowSort` and `KernelStaysSound` have the hypothesis `SortWorks`: of
the lists of plugins a service is booted with, `Sort` gives an order exactly when
there is one.  The sort is a recursion over lists, what it computes for every list
is out of the prover's reach, and TLC checks it for every list of up to three
plugins (`SortGivesOrder`, which is `SortIsRight` of the list).  What the theorems
add is everything between the sort and the last hook: that the list of names the
map keeps has the order of the definitions, no name twice and none too many
(`SortGivesNames`), and that a shutdown that clears the map in the middle of the
boot is one that came too early.

A finite set of rows has a least and a greatest element (`Extremes`): that is
induction over finite sets, done without the theorems that take an operator by
choosing a minimal counterexample (`WFMin` over the strict subsets).

### What the proofs corrected

* `NearestIsLoaded` took a load for undisturbed when the set of snapshots at its
  end was the one at its beginning.  With four clients on redis, beyond the bound
  of the run, TLC finds a snapshot that was added and removed in between, found by
  the scan and gone when its key was read: the load throws.  A call now records
  what was ever stored as well (`past`).
* `RemovedIsGone` was false with five calls, beyond the bound of the run: a
  connect that has answered with an error goes on creating its other tables,
  behind a removal by another process.  `alone` now leaves out removals beside
  such a connect; with five calls and one row TLC confirms it (1.2 M states).
* Six definitions used CASE with conditions that overlap.  TLC takes the first
  that is true, TLA+ does not say which; they are IF ... ELSE IF now, in the
  order of the code's branches.
* `DependentsFirst` of `PluginOrder` did not say that an order consists of the
  plugins of the list.
* A failing batch of `StoreEvents` could store documents behind the one that the
  database refuses, so that a repair with a fault stored an event twice.  It stores
  at most those before.

### Only model-checked

* `SortGivesOrder`: induction over data.
* All liveness (`CallsEnd`, `TornIsRepaired`, `StoredIsPublished`,
  `CallsAreAnswered`, `HeartbeatEnds`, `StopsWhenListening`, `CallersAreAnswered`),
  which is out of the prover's reach together with ENABLED and fairness.

The type invariants of the log and the pipeline are proved and not among the
runs; TLC confirms them when `TypeOK` is added to `log_shared.cfg` and
`commit_overlapping.cfg`.

## 6. Findings

The first is a run, the others can be reproduced as told.  Line numbers are those
of the file named.

1. **Uncommitted events are lost when the id or the positions cannot be had**
   (`commit_lost_events`, eventstore.js:303).  Only a failed addEvents gives
   them back.
2. **A read removes the journal of a commit in progress** (mongodb.js:563).
   `removeTransactions` deletes by aggregate, and a read whose last event is
   whole calls it.  When the writer beside it then fails half way, its commit
   can be repaired by nobody: reads reject.  `log_exclusive.cfg` with
   `Exclusive = FALSE`, `SPECIFICATION Spec`, no PROPERTY and 2 commits violates
   `TornIsRepairable`.
3. **A repair from outside rejects when nothing is missing** (mongodb.js:626).
   The slice is empty and insertMany refuses an empty list, so the entry stays
   and the next attempt fails too.  One client that is also
   the repairer, one commit of 2 events, one fault, `Exclusive = TRUE`:
   `OutsideRepairProceeds` is violated.
4. **A bounded read removes the journal of a torn commit** (mongodb.js:22).
   `isTransactionOk` accepts a last event with revision `revMax - 1` in the middle
   of a commit.  The instance of 3 with `Ranges <- UpToRevision` violates
   `TornIsRepairable`: the first of two events is stored, the writer crashes, a
   read up to revision 1 succeeds and cleans.
5. **One exception of the publisher stops all publication** (eventDispatcher.js:12).
   `isRunning` stays set.  `commit_lost_events.cfg` with `FailAt = {"publish"}`
   and `Retries = FALSE` violates `CommittedIsPublished`.
6. **After a restart nothing undispatched is published** (eventDispatcher.js:93).
   `start` passes a callback to a function that takes a query and returns a
   promise.  The same with `FailAt = {"restart"}` violates `LeftoversFirst`.
7. **A signal during boot does not stop the service** (main.ts:10).  The shutdown
   disposes the container and finds no server; boot goes on and the server
   listens.  `StopsWhenListening` without `late`, that is, of
   `Signals # {}`, is violated.
8. **A second signal cuts open requests** (kernel.ts:75).  `close` of a server
   that is closing answers with an error; the rejection ends the process.
   `RequestsAreAnswered` without its first conjunct is violated.  Also with one
   signal the services are disposed (line 72) before the server stops to accept.
9. **`getFromSnapshot` rejects for an aggregate without snapshot**
   (eventstore.js:246): stores answer null, the default replaces only undefined.
   It also loads the whole history, because `contextOf` drops the revision to
   start from, while the package's README (302) promises the events from the
   snapshot on.  `Found` and `Loaded` of `StoreSnapshots` say so.
10. **The drivers differ**, as `Regular` of `StoreEvents` and `NearestFound` of
   `StoreSnapshots` list.  The sharpest: inmemory answers the oldest snapshot
   below `revMax` (inmemory.js:469), dynamodb includes `revMax`, and a paged
   read from an offset without limit stops too early on dynamodb and azuretable.
11. **Snapshots may outlive their stream**: `deleteStream` waits with allSettled
   (mongodb.js:646), so a deletion that fails is not noticed; events committed
   between its two requests are deleted without being in the tombstone.
12. **An error that has a status without a phrase (499) is answered with 500**:
   the body of the view throws, and koa answers.
13. **A failed search is an empty success in elasticsearch** (elasticsearch.js:127).
   `_search` looks at the response only, and `getLastEvent` (207) drops every
   error.  A load that failed looks like one of a new stream, so that the next commit
   starts at revision 0 again.  `QuietReadsAgree` without `FailedSilently` is violated.
14. **A load of dynamodb may be out of order** (dynamodb.js:459).  It sorts by
   `commitStamp` alone, which each process takes from its own clock
   (eventstore.js:314): a writer whose clock is behind stores revision 1 with an earlier
   stamp than revision 0, and the load answers 1, 0.  `LoadsArePrefixes` without
   `InTime` is violated.
15. **Different render jobs share a cache entry** (job/index.js:14).  The hash is that
   of the variables as text and the template, with nothing between: `{a: '1'}` with
   `# Hi` and no variables with `a=1# Hi` have the same, and the syntax is not in it.
   One gets the content of the other.  `ContentIsOwn` with `job[j].content = Rendered(j)`
   also of hits is violated.

Smaller things met on the way: errors of token verification carry no status and
become 500; a boot that fails never disposes initialized plugins, which are
initialized in the order they were enabled in, not that of their dependencies;
a `listen` that fails is not handled by `serve`; two definitions with one name in
one `register` are silently merged; the HTTP client leaves its timer armed after
a before hook that throws or an invalid url, and reads bodies without a timer; a
text body of an error response that breaks off rejects with an error of no
class; a processor whose reply cannot be sent leaves the delivery open; two saves
of an entity overwrite each other because nobody compares revisions, a save without
events gives a new stream revision 0 where a new object has -1, and a listener that
throws after a save makes a retry store the events again; a connect of dynamodb that
has answered with an error goes on creating its other tables; a render job tried again
after a failed chain renders its half-made template.

## 7. Assumptions and what is left out

* A stream is a full (context, aggregate, aggregateId) triple.  Queries with
  parts of it meet the events of several streams and are not modelled.
* A find is atomic and sorted as asked; ties are broken arbitrarily.  A failed
  request has no effect later than its rejection.  insertMany is ordered and
  rejects an empty list and a duplicate `_id`, as the driver does.
* Stamps are taken from clocks that lag at most `Skew` ticks, in `MongoEventLog`,
  `StoreEvents` and `StoreSnapshots`; within a commit, which one process stamps, they do
  not go back.  `log_exclusive`
  uses `Skew = 0`, because with skewed clocks the sort puts a later commit
  before an earlier one and the wrong commit is examined.
* The requests of a read may fail at any time in `StoreEvents` (`MaxFaults` counts
  those of writes); in `StoreSnapshots` they count like the others.
* `getNewId` never repeats an id; positions are tracked.
* `InMemory` operations are atomic, and a store operation is atomic in
  `EventstoreCommit`.
* A publisher calls back at most once per event.
* In `EventstoreCommit` streams are loaded without bounds.
* The shelved drivers cannot be loaded as they are: they require `../base`, which
  is elsewhere, keep the callbacks of an earlier release, and two of them use
  loops of `async` with synchronous tests, which version 3 of the lockfile calls
  with a callback.  The models follow what their code says with the `async` it
  was written for, driven by the calls of the contract.
* SCAN returns no key twice; limits are -1 or positive.  A dynamodb store without
  undispatched table never answers `getUndispatchedEvents`: no such call.
* Payloads, event names, mappings, logging and the validation of arguments are
  left out: no property depends on them.

Not modelled: of the event store, the repair inside the streaming reads (it
writes to a stream that has ended, which depends on stream internals of the
driver), `getLastEventAsStream`, the closures that page on, `clear` of the
drivers that have no tables, and `getNewId` of redis and elasticsearch; of the
kernel, remote plugins, the container builder and the decorators, which run while
the program loads; of rhea-composable, the connection pool and credit; and the
components marked so in PROJECT.json, with the reason there.

## 8. The plan

What is left: `EventPaging` for the closures of `getEvents`; a connection pool for
rhea-composable and redis-composable; `LogBox`.

Runs are few and large, with properties of the same discipline together.
