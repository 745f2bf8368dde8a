---------------------------- MODULE MC_StoreEvents ----------------------------
EXTENDS StoreEvents

Query(op) == [op |-> op, skip |-> 0, limit |-> -1, since |-> 0, lo |-> 0, hi |-> -1]

\* Whole reads, windows at both ends, and ranges of revisions.
MCQueries ==
  {[Query("getEvents") EXCEPT !.skip = w[1], !.limit = w[2]] : w \in {<<0, -1>>, <<1, -1>>, <<0, 2>>}}
    \cup {[Query("getEventsSince") EXCEPT !.since = 1, !.skip = 1, !.limit = 1]}
    \cup {[Query("getEventsByRevision") EXCEPT !.lo = r[1], !.hi = r[2]] :
            r \in {<<0, -1>>, <<1, 2>>}}
    \cup {Query("getUndispatchedEvents"), Query("getLastEvent")}

AllDrivers == {"mongodb", "tingodb", "inmemory", "redis", "dynamodb", "azuretable", "elasticsearch"}

\* Commits of azuretable have rows of their own, so the requests of two writers commute,
\* and no property judges its disturbed reads: one client does everything, its next
\* commit when the late requests were sent.
OneWriter ==
  driver = "azuretable" =>
    \A p \in Client : call[p].pc = "idle" /\ call'[p] # call[p] =>
      p \in Reader /\ (call'[p].pc = "adding" => late = {})

\* Which of two ids comes first in the order of ids matters where rows are sorted
\* by them; elsewhere commit 1 is made before commit 2.
InTurn ==
  driver \in {"mongodb", "tingodb", "inmemory", "elasticsearch"} =>
    \A c \in CommitId : commit'[c] # commit[c] => \A b \in 1 .. c - 1 : commit[b] # <<>>

\* Within a commit the clock ticks for inmemory and elasticsearch only, and it lags for
\* one driver of each way to sort: mongodb and tingodb sort like elasticsearch,
\* azuretable like dynamodb.
OneTick ==
  \A c \in CommitId : commit'[c] # commit[c] =>
    /\ driver \notin {"inmemory", "elasticsearch"} =>
         \A i \in DOMAIN commit'[c] : commit'[c][i].stamp = commit'[c][1].stamp
    /\ driver \in {"mongodb", "tingodb", "azuretable"} => commit'[c][1].stamp >= clock

\* Of the reads that others disturbed a property judges only the whole load of
\* dynamodb (it is enough that a Reader does it), and only the listing of redis
\* fails: no other read is interleaved.
Undisturbed ==
  \A p \in Client :
    call[p].pc \in {"asked", "scan"} =>
      \/ call'[p] # call[p]
      \/ driver = "dynamodb" /\ WholeStream(call[p].q) /\ p \in Reader
      \/ driver = "redis" /\ call[p].q.op = "getUndispatchedEvents"

\* An error leaves nothing behind.
OneError ==
  \A p \in Client :
    call'[p] # call[p] /\ call'[p].pc = "answered" =>
      call'[p].ok \/ call[p].pc \notin {"idle", "asked"} \/ WholeStream(call'[p].q)
=============================================================================
