----------------------------- MODULE FifoStream -----------------------------
(***************************************************************************)
(* What an application expects of an event stream it writes to: the events *)
(* it adds wait in a line, and the stream grows by what is first in line.  *)
(* Events may be lost before they are stored; they are never stored twice, *)
(* never overtake each other, and what is stored stays.                    *)
(***************************************************************************)
EXTENDS Naturals, Sequences

CONSTANTS Stream, Event

VARIABLES
  pending,  \* events added to each stream and not stored yet, oldest first
  log       \* the stored events of each stream, oldest first

fvars == <<pending, log>>

After(n, s) == SubSeq(s, n + 1, Len(s))

FifoInit ==
  /\ pending = [s \in Stream |-> <<>>]
  /\ log = [s \in Stream |-> <<>>]

\* A new event joins the end of the line.
Enqueue(s, e) ==
  /\ \A t \in Stream : \A i \in DOMAIN log[t] : log[t][i] # e
  /\ pending' = [pending EXCEPT ![s] = Append(@, e)]
  /\ UNCHANGED log

\* The first n events are stored together; of the others the first ones may
\* get lost.
Store(s, n, lost) ==
  /\ log' = [log EXCEPT ![s] = @ \o SubSeq(pending[s], 1, n)]
  /\ pending' = [pending EXCEPT ![s] = After(n + lost, @)]

\* A failure may cost any stream the events at the head of its line.
Lose ==
  /\ DOMAIN pending' = Stream
  /\ \A s \in Stream :
       \E lost \in 0 .. Len(pending[s]) : pending'[s] = After(lost, pending[s])
  /\ UNCHANGED log

FifoNext ==
  \/ \E s \in Stream, e \in Event : Enqueue(s, e)
  \/ \E s \in Stream : \E n \in 1 .. Len(pending[s]) :
       \E lost \in 0 .. (Len(pending[s]) - n) : Store(s, n, lost)
  \/ Lose

FifoSpec == FifoInit /\ [][FifoNext]_fvars
=============================================================================
