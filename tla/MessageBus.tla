------------------------------ MODULE MessageBus ------------------------------
(***************************************************************************)
(* LocalMessageBus: handlers subscribed by event name and version, and     *)
(* publications to them.  What a publication calls runs in one turn: the   *)
(* handlers are called one after the other, and a handler may subscribe,   *)
(* unsubscribe and publish while the loop around it is going on.  Their    *)
(* promises are settled later.                                             *)
(***************************************************************************)
EXTENDS Naturals, FiniteSets, SequencesExt

CONSTANTS
  Handler,
  Publication, \* calls of publishEvent
  EventName(_), EventVersion(_), \* of a handler
  BusEvents,   \* the name and version of each event that may be published
  MaxChanges   \* bound on subscriptions that change

ASSUME BusAssumption == MaxChanges \in Nat

VARIABLES
  handlers,    \* eventHandlers: name -> version -> handlers in order of insertion
  publication, \* what each call of publishEvent has reached
  turn,        \* the loops of publishEvent that are on the call stack
  wanted,      \* history: handlers whose last change was a subscription
  changes

busVars == <<handlers, publication, turn, wanted, changes>>

Without(f, x) == [y \in DOMAIN f \ {x} |-> f[y]]
With(f, x, v) == [y \in DOMAIN f \cup {x} |-> IF y = x THEN v ELSE f[y]]

\* The handlers of an event; none when a map lacks its entry.
Handlers(name, version) ==
  IF name \in DOMAIN handlers /\ version \in DOMAIN handlers[name] THEN handlers[name][version] ELSE <<>>

-----------------------------------------------------------------------------
Put(h) ==
  LET n == EventName(h)
      v == EventVersion(h)
      old == Handlers(n, v)
  IN  With(handlers, n, With(IF n \in DOMAIN handlers THEN handlers[n] ELSE <<>>, v,
                             IF Contains(old, h) THEN old ELSE Append(old, h)))

Removed_withName(n, v) == Without(handlers, n)

\* The maps without the set of this version, and without an empty map of versions.
Removed(n, v) ==
  LET versions == Without(handlers[n], v)
  IN  IF DOMAIN versions = {} THEN Without(handlers, n) ELSE With(handlers, n, versions)

Taken(h) ==
  LET n == EventName(h)
      v == EventVersion(h)
      old == Handlers(n, v)
      rest == IF Contains(old, h) THEN RemoveAt(old, CHOOSE i \in DOMAIN old : old[i] = h) ELSE old
  IN  IF old = <<>> THEN handlers
      ELSE IF rest = <<>> THEN Removed(n, v)
      ELSE With(handlers, n, With(handlers[n], v, rest))

\* subscribeToEvent and unsubscribeFromEvent.
Change(h) ==
  /\ changes < MaxChanges /\ changes' = changes + 1
  /\ \/ handlers' = Put(h) /\ wanted' = wanted \cup {h}
     \/ handlers' = Taken(h) /\ wanted' = wanted \ {h}

-----------------------------------------------------------------------------
\* publishEvent up to its loop: answered at once when nobody listens.
Begin(c, event) ==
  /\ publication[c].pc = "none"
  /\ LET called == Handlers(event.name, event.version)
     IN  IF called = <<>>
         THEN /\ publication' = [publication EXCEPT ![c].pc = "unhandled", ![c].event = event]
              /\ UNCHANGED turn
         ELSE /\ publication' = [publication EXCEPT ![c].pc = "calling", ![c].event = event, ![c].called = called]
              /\ turn' = Append(turn, c)

\* Subscriptions and publications from outside come between two turns.
Outside ==
  /\ turn = <<>>
  /\ \/ \E h \in Handler : Change(h) /\ UNCHANGED <<publication, turn>>
     \/ \E c \in Publication, e \in BusEvents : Begin(c, e) /\ UNCHANGED <<handlers, wanted, changes>>

Callee_live(c, i) ==
  LET now == Handlers(publication[c].event.name, publication[c].event.version)
  IN  IF i <= Len(now) THEN now[i] ELSE publication[c].called[i]

\* The loop goes through a copy of the set.
Callee(c, i) == publication[c].called[i]

\* One round of the loop: the handler works on, or throws at once, which ends the
\* loop and the wait.
Call(c) ==
  LET p == publication[c]
      h == Callee(c, Len(p.got) + 1)
  IN  /\ turn # <<>> /\ Last(turn) = c /\ Len(p.got) < Len(p.called) /\ p.pc = "calling"
      /\ \/ /\ publication' = [publication EXCEPT ![c].got = Append(@, h), ![c].running = @ \cup {h}]
            /\ UNCHANGED <<handlers, turn, wanted, changes>>
         \/ /\ publication' = [publication EXCEPT ![c].got = Append(@, h), ![c].pc = "handled", ![c].failed = TRUE]
            /\ turn' = Front(turn)
            /\ UNCHANGED <<handlers, wanted, changes>>

\* The handler that was called last changes subscriptions or publishes in turn.
Inside(c) ==
  /\ turn # <<>> /\ Last(turn) = c /\ publication[c].got # <<>>
  /\ \/ \E h \in Handler : Change(h) /\ UNCHANGED <<publication, turn>>
     \/ \E d \in Publication, e \in BusEvents : Begin(d, e) /\ UNCHANGED <<handlers, wanted, changes>>

\* The loop is over: the rest is left to Promise.all.
Called(c) ==
  /\ turn # <<>> /\ Last(turn) = c
  /\ Len(publication[c].got) = Len(publication[c].called)
  /\ turn' = Front(turn)
  /\ publication' = [publication EXCEPT ![c].pc = "waiting"]
  /\ UNCHANGED <<handlers, wanted, changes>>

\* Promise.all waits for everybody, or for the first that rejects.
Awaited(p) == p.failed \/ p.running = {}

\* A handler settles between two turns.
Settle(c) ==
  /\ turn = <<>>
  /\ \E h \in publication[c].running, rejects \in BOOLEAN :
       publication' = [publication EXCEPT ![c].running = @ \ {h}, ![c].failed = @ \/ rejects]
  /\ UNCHANGED <<handlers, turn, wanted, changes>>

\* publishEvent answers true, whatever failed.
Answer(c) ==
  /\ turn = <<>> /\ publication[c].pc = "waiting"
  /\ Awaited(publication[c])
  /\ publication' = [publication EXCEPT ![c].pc = "handled"]
  /\ UNCHANGED <<handlers, turn, wanted, changes>>

BusInit ==
  /\ handlers = <<>> /\ turn = <<>> /\ wanted = {} /\ changes = 0
  /\ publication = [c \in Publication |->
       [pc |-> "none", event |-> "none", called |-> <<>>, got |-> <<>>, running |-> {}, failed |-> FALSE]]

BusNext ==
  \/ Outside
  \/ \E c \in Publication : Call(c) \/ Inside(c) \/ Called(c) \/ Settle(c) \/ Answer(c)

-----------------------------------------------------------------------------
(* Properties *)

\* Type correctness of the bus: no set and no map of it is empty.
BusTypeOK ==
  /\ \A n \in DOMAIN handlers :
       DOMAIN handlers[n] # {} /\ \A v \in DOMAIN handlers[n] : handlers[n][v] # <<>>
  /\ \A c \in Publication : publication[c].pc \in {"none", "unhandled", "calling", "waiting", "handled"}
  /\ changes \in 0 .. MaxChanges

\* The bus holds a handler, once, if and only if it was subscribed and not
\* unsubscribed since, whatever versions come and go under the same name.
SubscribedAsAsked ==
  \A h \in Handler :
    Cardinality({i \in DOMAIN Handlers(EventName(h), EventVersion(h)) :
                   Handlers(EventName(h), EventVersion(h))[i] = h}) = IF h \in wanted THEN 1 ELSE 0

\* publishEvent calls no handler twice, also when handlers subscribe, unsubscribe or
\* publish while it goes on, and is answered when every handler that was subscribed
\* when it began is done, unless one failed.
AnsweredWhenDone ==
  \A c \in Publication :
    /\ IsInjective(publication[c].got)
    /\ publication[c].pc = "handled" /\ ~publication[c].failed =>
         publication[c].running = {} /\ publication[c].got = publication[c].called
=============================================================================
