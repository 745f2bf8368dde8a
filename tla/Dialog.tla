-------------------------------- MODULE Dialog --------------------------------
(***************************************************************************)
(* Requests and replies over a broker: a dialog sends requests and keeps   *)
(* them by correlation id until the reply comes or they expire; a          *)
(* processor answers them.  The broker loses messages and delivers again   *)
(* what was released or never concluded, so a reply can come late, twice,  *)
(* or never.  Promise jobs run to their end before the next event, so what *)
(* one message or timer starts is one step; several messages may come in   *)
(* one event.                                                              *)
(***************************************************************************)
EXTENDS Naturals, FiniteSets, FiniteSetsExt

CONSTANTS
  Ask,             \* calls of send
  MaxDeliveries    \* bound on deliveries of one request

ASSUME DialogAssumption == MaxDeliveries \in Nat \ {0}

VARIABLES
  opened,     \* the receiver is open: replyTo is resolved
  asked,      \* calls of send that were made
  promise,    \* what each of them was settled with
  store,      \* the Map of useRequests
  clocks,     \* requests whose timeout is pending
  queued,     \* requests on their way to the processor
  deliveries, \* how often each request was delivered
  handling,   \* requests in the callable of the processor
  open,       \* requests whose delivery was released or left unsettled
  replies,    \* replies on their way: request, number, success
  concluded,  \* what the dialog did with each reply: accepted or released
  outcomes    \* history: what callables made of each request

dialogVars == <<opened, asked, promise, store, clocks, queued, deliveries, handling, open, replies,
                concluded, outcomes>>
client == <<opened, asked, promise, store, clocks, concluded>>
server == <<queued, deliveries, handling, open, replies, outcomes>>

Reply == [ask : Ask, nr : 1 .. MaxDeliveries, success : BOOLEAN]

-----------------------------------------------------------------------------
(* useDialog *)

ReceiverOpens ==
  /\ ~opened /\ opened' = TRUE
  /\ UNCHANGED <<asked, promise, store, clocks, concluded>> /\ UNCHANGED server

\* send waits for replyTo first.
Send(a) ==
  /\ a \notin asked
  /\ asked' = asked \cup {a}
  /\ UNCHANGED <<opened, promise, store, clocks, concluded>> /\ UNCHANGED server

\* storeTimeout finds the request only when it was stored before.
AutoExpire_first(a) == clocks' = IF a \in store THEN clocks \cup {a} ELSE clocks
AutoExpire(a) == clocks' = IF a \in store' THEN clocks \cup {a} ELSE clocks

\* sendMessage, storeReceipt and autoExpire.
Sent(a) ==
  /\ opened /\ a \in asked /\ deliveries[a] = 0 /\ promise[a] = "pending"
  /\ store' = store \cup {a}
  /\ AutoExpire(a)
  /\ queued' = queued \cup {a}
  /\ deliveries' = [deliveries EXCEPT ![a] = 1]
  /\ UNCHANGED <<opened, asked, promise, concluded, handling, open, replies, outcomes>>

\* No credit: the promise is rejected and nothing was stored.
NotSendable(a) ==
  /\ opened /\ a \in asked /\ deliveries[a] = 0 /\ promise[a] = "pending"
  /\ promise' = [promise EXCEPT ![a] = "fault"]
  /\ UNCHANGED <<opened, asked, store, clocks, concluded>> /\ UNCHANGED server

\* A promise keeps its first outcome.
ProduceOutcome(p, outcome) == IF p = "pending" THEN outcome ELSE p

DropRequest_keepsTimer(A) == store' = store \ A /\ clocks' = clocks
DropRequest(A) == store' = store \ A /\ clocks' = clocks \ A

Word(success) == IF success THEN "success" ELSE "error"

\* onMessage for the messages of one event: each looks its request up before the jobs
\* of the others drop it, and the first outcome counts.
OnMessages(R) ==
  LET found == {r \in R : r.ask \in store}
  IN  /\ \E first \in [{r.ask : r \in found} -> R] :
           /\ \A a \in DOMAIN first : first[a].ask = a
           /\ promise' = [a \in Ask |-> IF a \in DOMAIN first
                                        THEN ProduceOutcome(promise[a], Word(first[a].success)) ELSE promise[a]]
      /\ DropRequest({r.ask : r \in found})
      /\ concluded' = [r \in Reply |-> IF r \notin R THEN concluded[r]
                                       ELSE IF r \in found THEN "accepted" ELSE "released"]
      /\ replies' = replies \ R

MessagesArrive ==
  /\ \E R \in kSubset(1, replies) \cup kSubset(2, replies) : OnMessages(R)
  /\ UNCHANGED <<opened, asked, queued, deliveries, handling, open, outcomes>>

\* The timeout: a request that is found ends with an error and is dropped.
Expire(a) ==
  /\ a \in clocks
  /\ promise' = [promise EXCEPT ![a] = IF a \in store THEN ProduceOutcome(@, "timeout") ELSE @]
  /\ IF a \in store THEN DropRequest({a}) ELSE clocks' = clocks \ {a} /\ UNCHANGED store
  /\ UNCHANGED <<opened, asked, concluded>> /\ UNCHANGED server

-----------------------------------------------------------------------------
(* useProcessor *)

\* dispatch finds a callable, or releases what it has none for.
Dispatch(a) ==
  /\ a \in queued
  /\ queued' = queued \ {a}
  /\ \/ handling' = handling \cup {a} /\ UNCHANGED open
     \/ open' = open \cup {a} /\ UNCHANGED handling
  /\ UNCHANGED <<deliveries, replies, outcomes>> /\ UNCHANGED client

\* The callable resolves: reply, then allDone; or fails: reply, then reject.
Processed(a) ==
  /\ a \in handling
  /\ handling' = handling \ {a}
  /\ \E success \in BOOLEAN :
       /\ replies' = replies \cup {[ask |-> a, nr |-> deliveries[a], success |-> success]}
       /\ outcomes' = [outcomes EXCEPT ![a] = @ \cup {success}]
  /\ UNCHANGED <<queued, deliveries, open>> /\ UNCHANGED client

\* The reply cannot be sent: the error comes before the delivery is concluded.
ReplyThrows(a) ==
  /\ a \in handling
  /\ handling' = handling \ {a}
  /\ open' = open \cup {a}
  /\ UNCHANGED <<queued, deliveries, replies, outcomes>> /\ UNCHANGED client

-----------------------------------------------------------------------------
(* The broker *)

\* Also a delivery whose conclusion got lost on its way comes again.
Redeliver(a) ==
  /\ deliveries[a] \in 1 .. MaxDeliveries - 1 /\ a \notin queued \cup handling
  /\ deliveries' = [deliveries EXCEPT ![a] = @ + 1]
  /\ queued' = queued \cup {a}
  /\ open' = open \ {a}
  /\ UNCHANGED <<handling, replies, outcomes>> /\ UNCHANGED client

Lose ==
  /\ \/ \E a \in queued : queued' = queued \ {a} /\ UNCHANGED replies
     \/ \E r \in replies : replies' = replies \ {r} /\ UNCHANGED queued
  /\ UNCHANGED <<deliveries, handling, open, outcomes>> /\ UNCHANGED client

DialogInit ==
  /\ opened = FALSE /\ asked = {} /\ promise = [a \in Ask |-> "pending"]
  /\ store = {} /\ clocks = {}
  /\ queued = {} /\ deliveries = [a \in Ask |-> 0] /\ handling = {} /\ open = {} /\ replies = {}
  /\ concluded = [r \in Reply |-> "none"]
  /\ outcomes = [a \in Ask |-> {}]

Sends(a) == Sent(a) \/ NotSendable(a)

DialogNext ==
  \/ ReceiverOpens \/ MessagesArrive \/ Lose
  \/ \E a \in Ask : \/ Send(a) \/ Sends(a) \/ Expire(a)
                    \/ Dispatch(a) \/ Processed(a) \/ ReplyThrows(a) \/ Redeliver(a)

-----------------------------------------------------------------------------
(* Properties *)

\* Type correctness of the dialog.
DialogTypeOK ==
  /\ promise \in [Ask -> {"pending", "success", "error", "timeout", "fault"}]
  /\ store \cup clocks \subseteq asked /\ asked \subseteq Ask
  /\ replies \subseteq Reply /\ deliveries \in [Ask -> 0 .. MaxDeliveries]

\* The Map, the timeouts and the promises tell the same: who waits for a reply is
\* stored and has a timeout, and nobody else; whatever comes twice or late.  What a
\* promise was settled with is what a callable made of the request; and a reply is
\* released only when its request was answered or expired before.
RequestsAreConsistent ==
  /\ DialogTypeOK
  /\ store = {a \in Ask : deliveries[a] > 0 /\ promise[a] = "pending"}
  /\ clocks = store
  /\ \A a \in Ask : /\ promise[a] = "success" => TRUE \in outcomes[a]
                    /\ promise[a] = "error" => FALSE \in outcomes[a]
  /\ \A r \in Reply : concluded[r] = "released" => promise[r.ask] \in {"success", "error", "timeout"}
=============================================================================
