---------------------------- MODULE StoreSnapshots ----------------------------
(***************************************************************************)
(* The snapshots of one aggregate: Eventstore.createSnapshot and           *)
(* getFromSnapshot over addSnapshot, cleanSnapshots and getSnapshot of the *)
(* seven drivers, and Eventstore.deleteStream, which mongodb alone offers. *)
(*                                                                         *)
(* A snapshot that is added removes those beyond maxSnapshotsCount in      *)
(* requests of its own; other clients add, clean, load and delete between  *)
(* these requests.  Init chooses the driver.                               *)
(***************************************************************************)
EXTENDS Integers, FiniteSets, FiniteSetsExt

CONSTANTS
  Client,       \* processes that use the store: they create snapshots
  Reader,       \* those of them that load from snapshots
  Deleter,      \* those of them that delete the stream
  Drivers,      \* the drivers to check
  Counts,       \* values of option maxSnapshotsCount
  RevMaxs,      \* values of revMax that callers of getFromSnapshot pass
  MaxRevision,  \* bound on the revisions of the stream
  MaxSnaps,     \* bound on the snapshots created
  MaxFaults,    \* bound on failed requests
  Skew          \* how far the clock of one process is behind that of another

ASSUME SnapshotAssumption ==
  /\ Reader \cup Deleter \subseteq Client
  /\ Drivers \subseteq {"mongodb", "tingodb", "inmemory", "redis", "dynamodb", "azuretable",
                        "elasticsearch"}
  /\ Counts \subseteq Nat \ {0}
  /\ RevMaxs \subseteq Nat \cup {-1}
  /\ {MaxRevision, MaxSnaps, MaxFaults, Skew} \subseteq Nat

VARIABLES
  driver,   \* the driver in use
  maxCount, \* option maxSnapshotsCount
  stream,   \* the revisions of the stored events
  snaps,    \* the stored snapshots
  ever,     \* history: the snapshots that were stored since the last deletion
  made,     \* snapshots created so far
  clock,    \* the latest commitStamp given
  used,     \* history: the revisions that events were stored with
  reused,   \* history: a revision was given again after a deletion
  late,     \* removals sent by calls that were already answered
  faults,   \* requests that failed so far
  call      \* what each client is doing

vars == <<driver, maxCount, stream, snaps, ever, made, clock, used, reused, late, faults, call>>

Idle == [pc |-> "idle"]
NoSnap == [id |-> -1, rev |-> -1, stamp |-> -1]
Latest(revs) == Max(revs \cup {-1})

-----------------------------------------------------------------------------
(* addSnapshot: the key a snapshot is stored under.  It orders what scans, pages *)
(* and the array of inmemory return.                                             *)

Mongodb_addSnapshot(s) == <<s.id>>
Tingodb_addSnapshot(s) == <<s.id>>
Inmemory_addSnapshot(s) == <<s.id>>
Redis_addSnapshot(s) == <<s.stamp, s.id>>
Dynamodb_addSnapshot(s) == <<s.id>>
Azuretable_addSnapshot(s) == <<s.id>>
Elasticsearch_addSnapshot(s) == <<s.id>>

Key(s) ==
  CASE driver = "mongodb"       -> Mongodb_addSnapshot(s)
    [] driver = "tingodb"       -> Tingodb_addSnapshot(s)
    [] driver = "inmemory"      -> Inmemory_addSnapshot(s)
    [] driver = "redis"         -> Redis_addSnapshot(s)
    [] driver = "dynamodb"      -> Dynamodb_addSnapshot(s)
    [] driver = "azuretable"    -> Azuretable_addSnapshot(s)
    [] driver = "elasticsearch" -> Elasticsearch_addSnapshot(s)

KeyLess(k, l) == \E i \in DOMAIN k : k[i] < l[i] /\ \A j \in 1 .. i - 1 : k[j] = l[j]

-----------------------------------------------------------------------------
(* Orders in which the drivers look at snapshots: a comes before b *)

HighestFirst(a, b) ==
  \/ a.rev > b.rev
  \/ a.rev = b.rev /\ a.stamp > b.stamp
  \/ a.rev = b.rev /\ a.stamp = b.stamp /\ KeyLess(Key(a), Key(b))

\* A stable sort of what pages or the array bring.
NewestFirst(a, b) == a.stamp > b.stamp \/ (a.stamp = b.stamp /\ KeyLess(Key(a), Key(b)))
OldestFirst(a, b) == NewestFirst(b, a)

KeysReversed(a, b) == KeyLess(Key(b), Key(a))

Below(S, revMax) == {s \in S : revMax = -1 \/ s.rev <= revMax}
First(S, Before(_, _)) ==
  IF S = {} THEN NoSnap ELSE CHOOSE s \in S : \A t \in S \ {s} : Before(s, t)
Beyond(S, n, Before(_, _)) == {s \in S : Cardinality({t \in S : Before(t, s)}) >= n}

-----------------------------------------------------------------------------
(* getSnapshot(query, revMax): the answer, given the snapshots it finds *)

Mongodb_getSnapshot(S, revMax) == First(Below(S, revMax), HighestFirst)
Tingodb_getSnapshot(S, revMax) == First(Below(S, revMax), HighestFirst)
Elasticsearch_getSnapshot(S, revMax) == First(Below(S, revMax), HighestFirst)
Dynamodb_getSnapshot(S, revMax) == First(Below(S, revMax), NewestFirst)
Azuretable_getSnapshot(S, revMax) == First(Below(S, revMax), NewestFirst)

\* The loop over the snapshots, newest first, starts at the end.
Inmemory_getSnapshot(S, revMax) ==
  IF revMax = -1 THEN First(S, NewestFirst) ELSE First(Below(S, revMax), OldestFirst)

\* The keys that redis gets one after the other, in the order of KeysReversed.
Redis_getSnapshot(S, revMax) == IF revMax = -1 THEN S \ Beyond(S, 1, KeysReversed) ELSE S

GetSnapshot_withoutBound(S, revMax) == First(S, HighestFirst)

GetSnapshot(S, revMax) ==
  CASE driver = "mongodb"       -> Mongodb_getSnapshot(S, revMax)
    [] driver = "tingodb"       -> Tingodb_getSnapshot(S, revMax)
    [] driver = "elasticsearch" -> Elasticsearch_getSnapshot(S, revMax)
    [] driver = "dynamodb"      -> Dynamodb_getSnapshot(S, revMax)
    [] driver = "azuretable"    -> Azuretable_getSnapshot(S, revMax)
    [] driver = "inmemory"      -> Inmemory_getSnapshot(S, revMax)

-----------------------------------------------------------------------------
(* cleanSnapshots(query): what it removes, given the snapshots it finds *)

Mongodb_cleanSnapshots(S) == Beyond(S, maxCount, HighestFirst)
Tingodb_cleanSnapshots(S) == Beyond(S, maxCount, HighestFirst)
Elasticsearch_cleanSnapshots(S) == Beyond(S, maxCount, HighestFirst)
Redis_cleanSnapshots(S) == Beyond(S, maxCount, KeysReversed)
Inmemory_cleanSnapshots(S) == Beyond(S, maxCount, KeysReversed)

CleanSnapshots_oldestKept(S) == Beyond(S, maxCount, OldestFirst)

\* dynamodb and azuretable have none: the contract's default only warns.
CleanSnapshots(S) ==
  CASE driver = "mongodb"       -> Mongodb_cleanSnapshots(S)
    [] driver = "tingodb"       -> Tingodb_cleanSnapshots(S)
    [] driver = "elasticsearch" -> Elasticsearch_cleanSnapshots(S)
    [] driver = "redis"         -> Redis_cleanSnapshots(S)
    [] driver = "inmemory"      -> Inmemory_cleanSnapshots(S)
    [] driver \in {"dynamodb", "azuretable"} -> {}

\* The sets of removals one step of cleanSnapshots may carry out: mongodb removes
\* each snapshot in a request of its own, a bulk may remove any of them.
Removals(doomed) ==
  CASE driver = "mongodb"       -> {{s} : s \in doomed}
    [] driver = "elasticsearch" -> IF faults < MaxFaults THEN SUBSET doomed ELSE {doomed}
    [] OTHER                    -> {doomed}

-----------------------------------------------------------------------------
(* createSnapshot *)

\* The revision of the event that follows a stream that was loaded up to last.
NextRevision(last) == last + 1

Store(r) ==
  /\ stream' = stream \cup {r}
  /\ used' = used \cup {r}
  /\ reused' = (reused \/ r \in used)

\* A client commits an event of the aggregate.
Commit ==
  /\ Latest(stream) < MaxRevision
  /\ Store(NextRevision(Latest(stream)))
  /\ UNCHANGED <<driver, maxCount, snaps, ever, made, clock, late, faults, call>>

\* A client that loaded the aggregate some time ago takes a snapshot of it, stamped by
\* its own clock.
CreateSnapshot(p) ==
  /\ call[p].pc = "idle"
  /\ made < MaxSnaps
  /\ made' = made + 1
  /\ \E r \in used, t \in Max({0, clock - Skew}) .. clock + 1 :
       /\ clock' = Max({clock, t})
       /\ call' = [call EXCEPT ![p] = [pc |-> "adding",
                                       snap |-> [id |-> made, rev |-> r, stamp |-> t]]]
  /\ UNCHANGED <<driver, maxCount, used, reused, stream, snaps, ever, late, faults>>

\* inmemory adds in the order in which the snapshots were created.
AddSnapshot(p) ==
  /\ call[p].pc = "adding"
  /\ driver = "inmemory" =>
       \A r \in Client : call[r].pc = "adding" => call[r].snap.id >= call[p].snap.id
  /\ \/ /\ snaps' = snaps \cup {call[p].snap}
        /\ ever' = ever \cup {call[p].snap}
        /\ call' = [call EXCEPT ![p] = [pc |-> "cleaning"]]
        /\ UNCHANGED faults
     \/ /\ driver # "inmemory" /\ faults < MaxFaults
        /\ faults' = faults + 1
        /\ call' = [call EXCEPT ![p] = Idle]
        /\ UNCHANGED <<snaps, ever>>
  /\ UNCHANGED <<driver, maxCount, used, reused, stream, made, clock, late>>

\* cleanSnapshots looks up what is beyond the newest ones.
ListExcess(p) ==
  /\ call[p].pc = "cleaning"
  /\ driver # "redis"
  /\ LET doomed == CleanSnapshots(snaps)
     IN  CASE doomed = {} ->
                call' = [call EXCEPT ![p] = Idle] /\ UNCHANGED <<snaps, late>>
           [] doomed # {} /\ driver = "inmemory" ->
                /\ snaps' = snaps \ doomed
                /\ call' = [call EXCEPT ![p] = Idle]
                /\ UNCHANGED late
           [] doomed # {} /\ driver = "tingodb" ->  \* the removals are not awaited
                /\ late' = late \cup {{s} : s \in doomed}
                /\ call' = [call EXCEPT ![p] = Idle]
                /\ UNCHANGED snaps
           [] OTHER ->
                /\ call' = [call EXCEPT ![p] = [pc |-> "removing", doomed |-> doomed]]
                /\ UNCHANGED <<snaps, late>>
  /\ UNCHANGED <<driver, maxCount, used, reused, stream, ever, made, clock, faults>>

\* One of the removals takes effect; when it fails the call is rejected, and what
\* mongodb sent with it goes on.
RemoveNext(p) ==
  /\ call[p].pc = "removing"
  /\ \E gone \in Removals(call[p].doomed) :
       LET left == IF driver = "mongodb" THEN call[p].doomed \ gone ELSE {}
           over == IF left = {} THEN Idle ELSE [call[p] EXCEPT !.doomed = left]
       IN  \/ /\ snaps' = snaps \ gone
              /\ call' = [call EXCEPT ![p] = over]
              /\ faults' = IF driver = "elasticsearch" /\ gone # call[p].doomed
                           THEN faults + 1 ELSE faults
              /\ UNCHANGED late
           \/ /\ faults < MaxFaults
              /\ faults' = faults + 1
              /\ call' = [call EXCEPT ![p] = Idle]
              /\ late' = late \cup {{s} : s \in left}
              /\ UNCHANGED snaps
  /\ UNCHANGED <<driver, maxCount, used, reused, stream, ever, made, clock>>

RemoveLate ==
  \E gone \in late :
    /\ late' = late \ {gone}
    /\ snaps' = snaps \ gone
    /\ UNCHANGED <<driver, maxCount, used, reused, stream, ever, made, clock, faults, call>>

\* redis: SCAN returns the keys there are throughout and any that come or go.
ScanBegins(p) ==
  /\ driver = "redis"
  /\ call[p].pc \in {"cleaning", "asked"}
  /\ call' = [call EXCEPT ![p] = [pc |-> "scan", found |-> snaps, of |-> call[p]]]
  /\ UNCHANGED <<driver, maxCount, used, reused, stream, snaps, ever, made, clock, late, faults>>

ScanEnds(p) ==
  /\ call[p].pc = "scan"
  /\ \E some \in SUBSET ((call[p].found \ snaps) \cup (snaps \ call[p].found)) :
       LET found  == (call[p].found \cap snaps) \cup some
           of     == call[p].of
           doomed == CleanSnapshots(found)
           keys   == Redis_getSnapshot(found, of.revMax)
       IN  call' = [call EXCEPT ![p] =
             CASE of.pc = "cleaning" /\ doomed = {} -> Idle
               [] of.pc = "cleaning" /\ doomed # {} -> [pc |-> "removing", doomed |-> doomed]
               [] of.pc = "asked" ->
                    [pc |-> "keys", revMax |-> of.revMax, keys |-> keys,
                     before |-> of.before, past |-> of.past]]
  /\ UNCHANGED <<driver, maxCount, used, reused, stream, snaps, ever, made, clock, late, faults>>

-----------------------------------------------------------------------------
(* getFromSnapshot *)

\* before, past: the snapshots there were, and had been, when the call began.
GetFromSnapshot(p, revMax) ==
  /\ p \in Reader
  /\ call[p].pc = "idle"
  /\ call' = [call EXCEPT ![p] = [pc |-> "asked", revMax |-> revMax,
                                       before |-> snaps, past |-> ever]]
  /\ UNCHANGED <<driver, maxCount, used, reused, stream, snaps, ever, made, clock, late, faults>>

\* The snapshot is there: getFromSnapshot goes on with the events.  A store that
\* answers undefined lets it go on without a snapshot; null makes it reject.
Found(p, snap) ==
  IF snap # NoSnap \/ driver \in {"dynamodb", "azuretable"}
  THEN [pc |-> "found", revMax |-> call[p].revMax, snap |-> snap]
  ELSE [pc |-> "rejected"]

\* dynamodb and azuretable, which remove none, collect pages: those added meanwhile may be on them.
LookUp(p) ==
  /\ call[p].pc = "asked"
  /\ driver # "redis"
  /\ \E seen \in IF driver \in {"dynamodb", "azuretable"}
                 THEN {call[p].before \cup some : some \in SUBSET (snaps \ call[p].before)} ELSE {snaps} :
       call' = [call EXCEPT ![p] = Found(p, GetSnapshot(seen, call[p].revMax))]
  /\ UNCHANGED <<driver, maxCount, used, reused, stream, snaps, ever, made, clock, late, faults>>

\* redis gets the snapshot of the next key; the value of a key that was removed is
\* null, which throws outside of any promise when its revision is looked at.
GetKey(p) ==
  LET c   == call[p]
      key == First(c.keys, KeysReversed)
  IN  /\ c.pc = "keys"
      /\ call' = [call EXCEPT ![p] =
           IF c.keys = {} THEN Found(p, NoSnap)
           ELSE IF key \notin snaps
                THEN IF c.revMax = -1 THEN Found(p, NoSnap) ELSE [pc |-> "thrown"]
           ELSE IF c.revMax > -1 /\ key.rev > c.revMax THEN [c EXCEPT !.keys = @ \ {key}]
           ELSE Found(p, key)]
      /\ UNCHANGED <<driver, maxCount, used, reused, stream, snaps, ever, made, clock, late, faults>>

\* The events getEventStream loads: contextOf ignores the revision after the
\* snapshot, so the history starts at 0; dynamodb includes revMax.
Loaded(revMax) ==
  {r \in stream : revMax = -1 \/ r < revMax \/ (driver = "dynamodb" /\ r = revMax)}

\* lastRevision, set to the snapshot's when no event was loaded.
AdjustRevision_never(revs, snap) == Latest(revs)
AdjustRevision(revs, snap) == IF revs = {} THEN snap.rev ELSE Latest(revs)

GetEventStream(p) ==
  LET revs == Loaded(call[p].revMax)
  IN  /\ call[p].pc = "found"
      /\ call' = [call EXCEPT ![p] =
           [pc |-> "answered", revMax |-> call[p].revMax, snap |-> call[p].snap,
            lastRevision |-> AdjustRevision(revs, call[p].snap)]]
      /\ UNCHANGED <<driver, maxCount, used, reused, stream, snaps, ever, made, clock, late, faults>>

\* A request of cleanSnapshots or getFromSnapshot fails, and the call with it.  A search
\* for events that fails in elasticsearch is answered as one that found none.
RequestFails(p) ==
  /\ call[p].pc \in {"cleaning", "asked", "scan", "keys", "found"}
  /\ driver # "inmemory" /\ faults < MaxFaults
  /\ faults' = faults + 1
  /\ call' = [call EXCEPT ![p] =
       IF driver = "elasticsearch" /\ call[p].pc = "found"
       THEN [pc |-> "answered", revMax |-> call[p].revMax, snap |-> call[p].snap,
             lastRevision |-> AdjustRevision({}, call[p].snap)]
       ELSE Idle]
  /\ UNCHANGED <<driver, maxCount, used, reused, stream, snaps, ever, made, clock, late>>

Done(p) ==
  /\ call[p].pc \in {"answered", "rejected", "thrown"}
  /\ call' = [call EXCEPT ![p] = Idle]
  /\ UNCHANGED <<driver, maxCount, used, reused, stream, snaps, ever, made, clock, late, faults>>

-----------------------------------------------------------------------------
(* deleteStream: the events are loaded, then events and snapshots are deleted *)
(* side by side; a failed deletion is not noticed.  The tombstone event the   *)
(* caller gets is handed to nobody but him: nothing of the stream is left.    *)

DeleteStream(p) ==
  /\ driver = "mongodb" /\ p \in Deleter
  /\ call[p].pc = "idle"
  /\ stream # {}
  /\ call' = [call EXCEPT ![p] = [pc |-> "deleting", left |-> {"events", "snapshots"}]]
  /\ UNCHANGED <<driver, maxCount, used, reused, stream, snaps, ever, made, clock, late, faults>>

Delete(p, what) ==
  /\ call[p].pc = "deleting"
  /\ what \in call[p].left
  /\ LET left == call[p].left \ {what}
     IN  call' = [call EXCEPT ![p] = IF left = {} THEN Idle ELSE [@ EXCEPT !.left = left]]
  /\ \/ /\ stream' = IF what = "events" THEN {} ELSE stream
        /\ snaps' = IF what = "snapshots" THEN {} ELSE snaps
        /\ ever' = IF what = "snapshots" THEN {} ELSE ever
        /\ UNCHANGED faults
     \/ /\ faults < MaxFaults
        /\ faults' = faults + 1
        /\ UNCHANGED <<stream, snaps, ever>>
  /\ UNCHANGED <<driver, maxCount, used, reused, made, clock, late>>

-----------------------------------------------------------------------------
Init ==
  /\ driver \in Drivers
  /\ maxCount \in Counts
  /\ stream = {0} /\ used = {0}
  /\ snaps = {} /\ ever = {} /\ late = {} /\ reused = FALSE
  /\ made = 0 /\ clock = 0 /\ faults = 0
  /\ call = [p \in Client |-> Idle]

Others ==
  \/ Commit
  \/ RemoveLate
  \/ \E p \in Client :
       \/ CreateSnapshot(p) \/ AddSnapshot(p) \/ ListExcess(p) \/ RemoveNext(p)
       \/ ScanBegins(p) \/ ScanEnds(p)
       \/ \E m \in RevMaxs : GetFromSnapshot(p, m)
       \/ LookUp(p) \/ GetKey(p) \/ GetEventStream(p) \/ RequestFails(p)
       \/ DeleteStream(p)
       \/ \E what \in {"events", "snapshots"} : Delete(p, what)

\* A client looks at an answer before anything else happens.
Next ==
  \/ \E p \in Client : Done(p)
  \/ (\A p \in Client : call[p].pc \notin {"answered", "rejected", "thrown"}) /\ Others

Spec == Init /\ [][Next]_vars

-----------------------------------------------------------------------------
(* Properties *)

Snapshot == [id : 0 .. MaxSnaps - 1, rev : 0 .. MaxRevision, stamp : 0 .. MaxSnaps]

\* Type correctness.
TypeOK ==
  /\ stream \subseteq 0 .. MaxRevision /\ used \subseteq 0 .. MaxRevision /\ reused \in BOOLEAN
  /\ snaps \cup ever \cup UNION late \subseteq Snapshot
  /\ made \in 0 .. MaxSnaps /\ clock \in 0 .. MaxSnaps /\ faults \in 0 .. MaxFaults
  /\ \A p \in Client : call[p].pc \in {"idle", "adding", "cleaning", "removing", "scan", "asked",
                                       "keys", "found", "answered", "rejected", "thrown", "deleting"}

\* The snapshots a driver has to keep: the first maxCount in its order.
Kept(S) ==
  S \ (IF driver \in {"redis", "inmemory"} THEN Beyond(S, maxCount, KeysReversed)
                                           ELSE Beyond(S, maxCount, HighestFirst))

\* However clients that add and clean at the same time interleave, cleanSnapshots
\* never removes one of the maxSnapshotsCount snapshots that come first; and when the
\* calls have ended without a failure no others are left, although every call listed
\* before others had added theirs.
BestSurvive ==
  /\ Kept(ever) \subseteq snaps
  /\ (/\ driver \notin {"dynamodb", "azuretable"}
      /\ \A p \in Client : call[p].pc \notin {"adding", "cleaning", "removing", "scan"}
      /\ late = {} /\ faults = 0) => Cardinality(snaps) <= maxCount

\* The invariant of the stored snapshots: their types, and that cleaning keeps the
\* right ones.
SnapshotsOK == TypeOK /\ BestSurvive

Answered(p) == call[p].pc = "answered" /\ call[p].snap # NoSnap

\* "loads the next snapshot back from given max revision": undisturbed, a load is
\* refused only when there is none, and answers the highest one up to revMax; for the
\* drivers that go by time when later snapshots are of higher revisions; for inmemory
\* with a revMax only when there is no choice.
NearestFound(p) ==
  LET S == Below(snaps, call[p].revMax)
      Aligned == \A s, t \in S : s # t => s.stamp # t.stamp /\ (s.stamp < t.stamp => s.rev <= t.rev)
  IN  \/ driver \in {"mongodb", "tingodb", "elasticsearch"}
      \/ Aligned /\ (driver = "inmemory" /\ call[p].revMax # -1 => Cardinality(S) <= 1)
      => call'[p].snap.rev = Latest({s.rev : s \in S})
NearestIsLoaded ==
  [][\A p \in Client :
       (call[p].pc \in {"asked", "keys"} /\ call[p].before = snaps /\ call[p].past = ever)
         => /\ call'[p].pc = "found" => NearestFound(p)
            /\ call'[p].pc \in {"rejected", "thrown"} => Below(snaps, call[p].revMax) = {}]_vars

\* The next event of a stream that was loaded with a snapshot gets a revision after
\* the snapshot's, whatever is added or deleted between the two reads; unless revMax
\* is the snapshot's revision, which the read of the events leaves out, or the
\* stream was deleted and its revisions are given again while snapshots outlive it.
ReplayPassesSnapshot ==
  \A p \in Client :
    (Answered(p) /\ call[p].revMax # call[p].snap.rev /\ ~reused)
      => call[p].lastRevision >= call[p].snap.rev
=============================================================================
