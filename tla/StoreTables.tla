----------------------------- MODULE StoreTables -----------------------------
(***************************************************************************)
(* The tables of dynamodb and azuretable: connect creates the missing ones *)
(* and waits until they are active, removeTables deletes them, clear       *)
(* deletes what is in them page by page.  Several processes do so at once  *)
(* on the same database while others store events.                         *)
(*                                                                         *)
(* async.parallel answers at the first error; what it started goes on.     *)
(***************************************************************************)
EXTENDS Integers, FiniteSets, FiniteSetsExt

CONSTANTS
  Process,    \* processes that connect, remove or clear
  Row,        \* numbers standing for the keys of the rows
  PageRows,   \* rows in one page of a scan
  MaxCalls,   \* bound on the calls of all processes
  MaxThrottles \* bound on batches that are processed in part

ASSUME TablesAssumption ==
  /\ Row \subseteq Nat /\ IsFiniteSet(Row)
  /\ PageRows \in Nat \ {0} /\ MaxCalls \in Nat /\ MaxThrottles \in Nat

Table == {"events", "undispatched", "snapshots"}

VARIABLES
  provider,   \* "dynamodb" or "azuretable"
  status,     \* the state of each table in the database
  rows,       \* the rows of each table
  fresh,      \* the rows nobody stored yet
  op,         \* what each process was called for, or how it ended
  task,       \* what each process is doing with each table
  removals,   \* history: removeTables was called
  alone,      \* history: removals during which no connect was going on
  calls,      \* calls made so far
  throttled   \* batches that were processed in part

tablesVars == <<provider, status, rows, fresh, op, task, removals, alone, calls, throttled>>

Rest == [pc |-> "rest"]
All(pc) == [t \in Table |-> [pc |-> pc]]
Over == {"rest", "done", "failed"}

\* What connect does before a table is there; also one that has answered with an error
\* goes on with its other tables.
Creating == {"exists", "create", "createIfNotExists"}

Database == <<status, rows, throttled>>
Calls == <<provider, fresh, op, removals, alone, calls>>

-----------------------------------------------------------------------------
(* connect *)

Connect(p) ==
  /\ calls < MaxCalls
  /\ op[p] # "busy" /\ \A t \in Table : task[p][t].pc \in Over
  /\ op' = [op EXCEPT ![p] = "connecting"]
  /\ task' = [task EXCEPT ![p] = All(IF provider = "dynamodb" THEN "exists" ELSE "createIfNotExists")]
  /\ alone' = {}
  /\ calls' = calls + 1
  /\ UNCHANGED <<provider, fresh, removals>> /\ UNCHANGED Database

To(p, t, next) == task' = [task EXCEPT ![p][t] = next]

\* describeTable, then straight on when the table is active already.
Exists(p, t) ==
  /\ task[p][t].pc = "exists"
  /\ To(p, t, CASE status[t] = "none"   -> [pc |-> "create"]
                [] status[t] = "active" -> [pc |-> "done"]
                [] OTHER                -> [pc |-> "active"])
  /\ UNCHANGED Database /\ UNCHANGED Calls

\* createTable; that another process created it meanwhile is no error, that it is
\* being deleted is one.
Create(p, t) ==
  /\ task[p][t].pc = "create"
  /\ status' = IF status[t] = "none" THEN [status EXCEPT ![t] = "creating"] ELSE status
  /\ To(p, t, IF status[t] = "deleting" THEN [pc |-> "failed"] ELSE [pc |-> "active"])
  /\ UNCHANGED <<rows, throttled>> /\ UNCHANGED Calls

Polled_forever(s) == IF s = "active" THEN "done" ELSE "active"

\* What the poll makes of a status: a table that is gone is an error.
Polled(s) == CASE s = "active" -> "done"
               [] s = "none"   -> "failed"
               [] OTHER        -> "active"

Active(p, t) ==
  /\ task[p][t].pc = "active"
  /\ To(p, t, [pc |-> Polled(status[t])])
  /\ UNCHANGED Database /\ UNCHANGED Calls

CreateIfNotExists(p, t) ==
  /\ task[p][t].pc = "createIfNotExists"
  /\ status' = [status EXCEPT ![t] = "active"]
  /\ To(p, t, [pc |-> "done"])
  /\ UNCHANGED <<rows, throttled>> /\ UNCHANGED Calls

-----------------------------------------------------------------------------
(* removeTables of dynamodb *)

RemoveTables(p) ==
  /\ provider = "dynamodb"
  /\ calls < MaxCalls
  /\ op[p] = "connected"
  /\ op' = [op EXCEPT ![p] = "removing"]
  /\ task' = [task EXCEPT ![p] =
       [t \in Table |-> [pc |-> IF status[t] = "none" THEN "done" ELSE "listed"]]]
  /\ removals' = TRUE
  /\ alone' = IF \E q \in Process, t \in Table : task[q][t].pc \in Creating THEN alone ELSE alone \cup {p}
  /\ calls' = calls + 1
  /\ UNCHANGED <<provider, fresh>> /\ UNCHANGED Database

\* A listed table that is gone when it is described has no description: the next
\* step reads a property of undefined.
Described(p, t) ==
  /\ task[p][t].pc = "listed"
  /\ IF status[t] = "none"
     THEN op' = [op EXCEPT ![p] = "thrown"] /\ task' = [task EXCEPT ![p] = All("failed")]
     ELSE op' = op /\ To(p, t, [pc |-> "delete"])
  /\ UNCHANGED <<provider, fresh, removals, alone, calls>> /\ UNCHANGED Database

AfterDelete(p) == "deleted"

Delete(p, t) ==
  /\ task[p][t].pc = "delete"
  /\ IF status[t] = "active"
     THEN status' = [status EXCEPT ![t] = "deleting"] /\ To(p, t, [pc |-> AfterDelete(p)])
     ELSE status' = status /\ To(p, t, [pc |-> "failed"])
  /\ UNCHANGED <<rows, throttled>> /\ UNCHANGED Calls

Deleted(p, t) ==
  /\ task[p][t].pc = "deleted"
  /\ status[t] = "none"
  /\ To(p, t, [pc |-> "done"])
  /\ UNCHANGED Database /\ UNCHANGED Calls

-----------------------------------------------------------------------------
(* clear *)

\* The tables a scan of dynamodb deletes from: the scan of the undispatched events
\* deletes both rows of an event, and the events are scanned after it.
Targets(t) ==
  IF t = "undispatched" /\ provider = "dynamodb" THEN {"undispatched", "events"} ELSE {t}

Clear(p) ==
  /\ calls < MaxCalls
  /\ op[p] = "connected"
  /\ \A t \in Table : status[t] = "active"
  /\ op' = [op EXCEPT ![p] = "clearing"]
  /\ task' = [task EXCEPT ![p] =
       [t \in Table |-> [pc |-> IF t = "events" /\ provider = "dynamodb" THEN "queued" ELSE "scan",
                         cursor |-> -1, before |-> rows[t], lost |-> {}]]]
  /\ calls' = calls + 1
  /\ UNCHANGED <<provider, fresh, removals, alone>> /\ UNCHANGED Database

\* The first rows of a table behind the cursor.
Page(t, cursor) ==
  LET rest == {r \in rows[t] : r > cursor}
  IN  {r \in rest : Cardinality({s \in rest : s < r}) < PageRows}

\* A scan of a table that is gone fails.
Scan(p, t) ==
  LET w == task[p][t]
      page == Page(t, w.cursor)
      more == \E r \in rows[t] : r > Max(page)
  IN  /\ w.pc = "scan"
      /\ To(p, t, IF status[t] # "active" THEN [pc |-> "failed"]
                  ELSE IF page = {} THEN [w EXCEPT !.pc = "scanned"]
                  ELSE [pc |-> "write", before |-> w.before, lost |-> w.lost, cursor |-> Max(page),
                        batch |-> Targets(t) \X page, more |-> more])
      /\ UNCHANGED Database /\ UNCHANGED Calls

Unprocessed_dropped(t, left) == {}

\* What is written again of the items that batchWrite left unprocessed: nothing by
\* the loop over the snapshots.
Unprocessed(t, left) == IF t = "snapshots" THEN {} ELSE left

\* One batchWrite; with throttling some of its items are left.  azuretable deletes
\* the entities of the first page, each in a request of its own; one that another
\* process deleted first is an error.
Write(p, t) ==
  LET w == task[p][t]
  IN  /\ w.pc = "write"
      /\ \E left \in IF throttled < MaxThrottles /\ provider = "dynamodb"
                     THEN SUBSET w.batch ELSE {{}} :
           LET again == Unprocessed(t, left)
               gone  == \E i \in w.batch : i[2] \notin rows[i[1]]
           IN  /\ rows' = [u \in Table |-> rows[u] \ {i[2] : i \in {j \in w.batch \ left : j[1] = u}}]
               /\ throttled' = IF left = {} THEN throttled ELSE throttled + 1
               /\ To(p, t,
                     IF \E u \in {i[1] : i \in w.batch} : status[u] # "active" THEN [pc |-> "failed"]
                     ELSE IF provider = "azuretable"
                     THEN [pc |-> IF gone THEN "failed" ELSE "scanned", before |-> w.before,
                           lost |-> {r \in rows[t] : r > w.cursor}]
                     ELSE IF again # {} THEN [w EXCEPT !.batch = again]
                     ELSE [pc |-> IF w.more THEN "scan" ELSE "scanned", cursor |-> w.cursor,
                           before |-> w.before, lost |-> w.lost \cup {i[2] : i \in left \ again}])
  /\ UNCHANGED status /\ UNCHANGED Calls

\* eachSeries: the events are scanned after the undispatched ones.
Queued(p) ==
  /\ task[p]["events"].pc = "queued"
  /\ task[p]["undispatched"].pc \in {"scanned", "failed"}
  /\ To(p, "events", IF task[p]["undispatched"].pc = "failed" THEN [pc |-> "failed"]
                     ELSE [task[p]["events"] EXCEPT !.pc = "scan"])
  /\ UNCHANGED Database /\ UNCHANGED Calls

-----------------------------------------------------------------------------
(* The answer of a call: an error at the first failed task, else when all ended. *)

Answer(p) ==
  /\ op[p] \in {"connecting", "removing", "clearing"}
  /\ \/ /\ \E t \in Table : task[p][t].pc = "failed"
        /\ op' = [op EXCEPT ![p] = "failed"]
     \/ /\ \A t \in Table : task[p][t].pc \in {"done", "scanned"}
        /\ op' = [op EXCEPT ![p] = CASE @ = "connecting" -> "connected"
                                     [] @ = "removing"   -> "removed"
                                     [] @ = "clearing"   -> "cleared"]
  /\ UNCHANGED <<provider, fresh, task, removals, alone, calls>> /\ UNCHANGED Database

\* The caller goes on: what was cleared is a connected store again.
Proceed(p) ==
  /\ op[p] = "cleared"
  /\ op' = [op EXCEPT ![p] = "connected"]
  /\ task' = [task EXCEPT ![p] = All("rest")]
  /\ UNCHANGED <<provider, fresh, removals, alone, calls>> /\ UNCHANGED Database

\* The database makes a new table active and forgets a deleted one.
Settle(t) ==
  /\ \/ status[t] = "creating" /\ status' = [status EXCEPT ![t] = "active"] /\ rows' = rows
     \/ /\ status[t] = "deleting"
        /\ status' = [status EXCEPT ![t] = "none"]
        /\ rows' = [rows EXCEPT ![t] = {}]
  /\ UNCHANGED <<task, throttled>> /\ UNCHANGED Calls

\* Somebody stores an event, or a snapshot.
Put(r) ==
  /\ \A t \in Table : status[t] = "active"
  /\ r \in fresh /\ fresh' = fresh \ {r}
  /\ \E ts \in {{"events", "undispatched"}, {"snapshots"}} :
       rows' = [t \in Table |-> IF t \in ts THEN rows[t] \cup {r} ELSE rows[t]]
  /\ UNCHANGED <<provider, status, op, task, removals, alone, calls, throttled>>

TablesInit ==
  /\ provider \in {"dynamodb", "azuretable"}
  /\ status = [t \in Table |-> "none"]
  /\ rows = [t \in Table |-> {}] /\ fresh = Row
  /\ op = [p \in Process |-> "new"]
  /\ task = [p \in Process |-> All("rest")]
  /\ removals = FALSE /\ alone = {}
  /\ calls = 0 /\ throttled = 0

Work(p) ==
  \/ Queued(p) \/ Answer(p)
  \/ \E t \in Table :
       \/ Exists(p, t) \/ Create(p, t) \/ Active(p, t) \/ CreateIfNotExists(p, t)
       \/ Described(p, t) \/ Delete(p, t) \/ Deleted(p, t)
       \/ Scan(p, t) \/ Write(p, t)

TablesNext ==
  \/ \E p \in Process : Connect(p) \/ RemoveTables(p) \/ Clear(p) \/ Proceed(p) \/ Work(p)
  \/ \E t \in Table : Settle(t)
  \/ \E r \in Row : Put(r)

-----------------------------------------------------------------------------
(* Properties *)

\* Type correctness of the tables and the calls.
TablesTypeOK ==
  /\ status \in [Table -> {"none", "creating", "active", "deleting"}]
  /\ rows \in [Table -> SUBSET (Row \ fresh)]
  /\ calls \in 0 .. MaxCalls /\ throttled \in 0 .. MaxThrottles
  /\ op \in [Process -> {"new", "connecting", "connected", "removing", "removed", "clearing",
                         "cleared", "failed", "thrown"}]
  /\ \A p \in Process, t \in Table :
       task[p][t].pc \in Over \cup {"exists", "create", "active", "createIfNotExists", "listed",
                                  "delete", "deleted", "queued", "scan", "write", "scanned"}

\* When connect answered and nobody removes tables, all of them can be used, also
\* when another process created them and is still waiting.
ConnectedHasTables ==
  \A p \in Process : op[p] = "connected" /\ ~removals => \A t \in Table : status[t] = "active"

\* When removeTables answers without an error no table is left, unless a connect is
\* going on, be it one that has failed already: a removal that runs beside another one
\* may fail or throw.
RemovedIsGone ==
  \A p \in alone : op[p] = "removed" => \A t \in Table : status[t] = "none"

\* What was stored before clear was called is gone when it answers, however the
\* pages, the throttled batches and other writers interleave; except for the rows of
\* azuretable behind the first page and the snapshots of an unprocessed batch.
ClearedIsEmpty ==
  \A p \in Process :
    op[p] = "cleared" =>
      \A t \in Table : rows[t] \cap task[p][t].before \subseteq
        IF provider = "azuretable" \/ t = "snapshots" THEN task[p][t].lost ELSE {}

\* What connect, removeTables and clear answer for has happened, whatever the other
\* processes do at the same time.
UpkeepIsDone == ConnectedHasTables /\ RemovedIsGone /\ ClearedIsEmpty

\* Every connect is answered once the calls stop, because a table that is polled
\* becomes active or vanishes.
CallsAreAnswered == <>[](\A p \in Process : op[p] # "connecting")
=============================================================================
