--------------------------- MODULE AtomicEventLog ---------------------------
(***************************************************************************)
(* What a caller of the event store expects of it: a stream is a growing   *)
(* log of commits, a commit appears in it at once and completely, and it   *)
(* is appended by a caller that has seen the whole log.                    *)
(***************************************************************************)
CONSTANTS Client, Stream, CommitId, None

VARIABLES
  log,   \* the commits of each stream; since every commit is appended by a
         \* caller that has seen all of the others, inclusion orders them
  view   \* what each caller holds: a stream and the commits it has seen

avars == <<log, view>>

NoView == [stream |-> None, commits |-> {}]

LogTypeOK ==
  /\ log \in [Stream -> SUBSET CommitId]
  /\ view \in [Client -> [stream : Stream, commits : SUBSET CommitId] \cup {NoView}]

LogInit ==
  /\ log = [s \in Stream |-> {}]
  /\ view = [p \in Client |-> NoView]

\* A caller loads a stream, or is told that its commit succeeded: it sees
\* every commit of the log and nothing else.
See(p, s) ==
  /\ view' = [view EXCEPT ![p] = [stream |-> s, commits |-> log[s]]]
  /\ UNCHANGED log

\* A commit enters the log in one step, by a caller whose view is complete.
AppendCommit(p, s, c) ==
  /\ view[p] = [stream |-> s, commits |-> log[s]]
  /\ \A t \in Stream : c \notin log[t]
  /\ log' = [log EXCEPT ![s] = @ \cup {c}]
  /\ UNCHANGED view

Drop(p) ==
  /\ view' = [view EXCEPT ![p] = NoView]
  /\ UNCHANGED log

LogNext ==
  \E p \in Client :
    \/ Drop(p)
    \/ \E s \in Stream : See(p, s)
    \/ \E s \in Stream, c \in CommitId : AppendCommit(p, s, c)

LogSpec == LogInit /\ [][LogNext]_avars
=============================================================================
