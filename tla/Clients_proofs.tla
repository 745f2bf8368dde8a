---------------------------- MODULE Clients_proofs ----------------------------
(***************************************************************************)
(* Machine-checked proofs about the dialog over a broker, the HTTP client, *)
(* the entity store and the render cache, for any number of requests,      *)
(* deliveries, callers, events and jobs.                                   *)
(***************************************************************************)
EXTENDS MC_Clients, TLAPS

-----------------------------------------------------------------------------
(* The dialog over a broker *)

Outcome == {"pending", "success", "error", "timeout", "fault"}

DialogTypes ==
  /\ promise \in [Ask -> Outcome]
  /\ asked \subseteq Ask
  /\ deliveries \in [Ask -> 0 .. MaxDeliveries]
  /\ outcomes \in [Ask -> SUBSET BOOLEAN]
  /\ replies \subseteq Reply
  /\ concluded \in [Reply -> {"none", "accepted", "released"}]
  /\ queued \subseteq Ask /\ handling \subseteq Ask

\* What was sent was asked, and what was not sent is not settled by a reply.
SentOnly ==
  \A a \in Ask : /\ deliveries[a] > 0 => a \in asked
                 /\ deliveries[a] = 0 => promise[a] \in {"pending", "fault"}
                 /\ deliveries[a] > 0 => promise[a] # "fault"
                 /\ a \in queued \cup handling => deliveries[a] > 0

\* A reply on its way says what a callable made of a request that was sent.
RepliesAreTrue == \A r \in replies : deliveries[r.ask] > 0 /\ r.success \in outcomes[r.ask]

\* The Map, the timeouts and the promises.
Consistent ==
  /\ store = {a \in Ask : deliveries[a] > 0 /\ promise[a] = "pending"}
  /\ clocks = store
  /\ \A a \in Ask : /\ promise[a] = "success" => TRUE \in outcomes[a]
                    /\ promise[a] = "error" => FALSE \in outcomes[a]
  /\ \A r \in Reply : concluded[r] = "released" => promise[r.ask] \in {"success", "error", "timeout"}

DialogInv == DialogTypes /\ SentOnly /\ RepliesAreTrue /\ Consistent

LEMMA DialogStarts == DialogInit => DialogInv
BY DialogAssumption
   DEF DialogInit, DialogInv, DialogTypes, SentOnly, RepliesAreTrue, Consistent, Reply, Outcome

LEMMA MessagesKeep ==
  ASSUME DialogInv, MessagesArrive
  PROVE  DialogInv'
<1>1. PICK R \in SUBSET replies : OnMessages(R)
  BY DEF MessagesArrive, kSubset
<1>2. PICK found, A : found = {r \in R : r.ask \in store} /\ A = {r.ask : r \in found}
  OBVIOUS
<1>3. PICK first \in [A -> R] :
        /\ \A a \in A : first[a].ask = a
        /\ promise' = [a \in Ask |-> IF a \in A
                                     THEN ProduceOutcome(promise[a], Word(first[a].success)) ELSE promise[a]]
  BY <1>1, <1>2 DEF OnMessages
<1>4. /\ store' = store \ A /\ clocks' = clocks \ A
      /\ concluded' = [r \in Reply |-> IF r \notin R THEN concluded[r]
                                       ELSE IF r \in found THEN "accepted" ELSE "released"]
      /\ replies' = replies \ R
  BY <1>1, <1>2 DEF OnMessages, DropRequest
<1>5. UNCHANGED <<opened, asked, queued, deliveries, handling, open, outcomes>>
  BY DEF MessagesArrive
<1>6. /\ \A a \in A : a \in store /\ a \in Ask /\ promise[a] = "pending"
      /\ R \subseteq Reply /\ \A r \in R : r.ask \in Ask /\ r.success \in BOOLEAN
      /\ \A a \in A : first[a] \in replies /\ first[a].success \in BOOLEAN
                      /\ first[a].success \in outcomes[a]
  BY <1>2, <1>3 DEF DialogInv, DialogTypes, RepliesAreTrue, Consistent, Reply
<1>7. \A a \in A : /\ promise'[a] = IF first[a].success THEN "success" ELSE "error"
                   /\ promise'[a] \in {"success", "error"}
  BY <1>3, <1>6 DEF ProduceOutcome, Word
<1>8. \A a \in Ask \ A : promise'[a] = promise[a]
  BY <1>3
<1>9. DialogTypes'
  <2>1. promise' \in [Ask -> Outcome]
    BY <1>3, <1>7, <1>8 DEF DialogInv, DialogTypes, Outcome
  <2>2. concluded' \in [Reply -> {"none", "accepted", "released"}]
    BY <1>4 DEF DialogInv, DialogTypes
  <2>. QED
    BY <1>4, <1>5, <2>1, <2>2 DEF DialogInv, DialogTypes
<1>10. SentOnly'
  BY <1>5, <1>6, <1>7, <1>8 DEF DialogInv, SentOnly, Consistent
<1>11. RepliesAreTrue'
  BY <1>4, <1>5 DEF DialogInv, RepliesAreTrue
<1>12. Consistent'
  <2>1. store' = {a \in Ask : deliveries'[a] > 0 /\ promise'[a] = "pending"} /\ clocks' = store'
    BY <1>4, <1>5, <1>7, <1>8 DEF DialogInv, Consistent
  <2>2. \A a \in Ask : /\ promise'[a] = "success" => TRUE \in outcomes'[a]
                       /\ promise'[a] = "error" => FALSE \in outcomes'[a]
    BY <1>5, <1>6, <1>7, <1>8 DEF DialogInv, Consistent
  <2>3. ASSUME NEW r \in Reply, concluded'[r] = "released"
        PROVE  promise'[r.ask] \in {"success", "error", "timeout"}
    <3>1. r.ask \in Ask
      BY DEF Reply
    <3>2. CASE r \in R
      <4>1. r \in replies /\ r.ask \notin store
        BY <1>2, <1>4, <2>3, <3>2
      <4>2. promise[r.ask] \in {"success", "error", "timeout"}
        BY <3>1, <4>1 DEF DialogInv, DialogTypes, RepliesAreTrue, Consistent, SentOnly, Outcome
      <4>. QED
        BY <1>6, <1>8, <3>1, <4>1, <4>2
    <3>3. CASE r \notin R
      <4>1. promise[r.ask] \in {"success", "error", "timeout"}
        BY <1>4, <2>3, <3>3 DEF DialogInv, Consistent
      <4>. QED
        BY <1>6, <1>8, <3>1, <4>1
    <3>. QED
      BY <3>2, <3>3
  <2>. QED
    BY <2>1, <2>2, <2>3 DEF Consistent
<1>. QED
  BY <1>9, <1>10, <1>11, <1>12 DEF DialogInv

LEMMA SentKeeps ==
  ASSUME DialogInv, NEW a \in Ask, Sent(a)
  PROVE  DialogInv'
<1>1. /\ a \in asked /\ deliveries[a] = 0 /\ promise[a] = "pending"
      /\ store' = store \cup {a} /\ clocks' = clocks \cup {a} /\ queued' = queued \cup {a}
      /\ deliveries' = [deliveries EXCEPT ![a] = 1]
      /\ UNCHANGED <<opened, asked, promise, concluded, handling, open, replies, outcomes>>
  BY DEF Sent, AutoExpire
<1>2. /\ deliveries' \in [Ask -> 0 .. MaxDeliveries] /\ deliveries'[a] = 1
      /\ \A b \in Ask : b # a => deliveries'[b] = deliveries[b]
  BY <1>1, DialogAssumption DEF DialogInv, DialogTypes
<1>3. DialogTypes'
  BY <1>1, <1>2 DEF DialogInv, DialogTypes
<1>4. SentOnly'
  BY <1>1, <1>2 DEF DialogInv, SentOnly
<1>5. RepliesAreTrue'
  <2>1. \A r \in replies : r.ask \in Ask
    BY DEF DialogInv, DialogTypes, Reply
  <2>. QED
    BY <1>1, <1>2, <2>1 DEF DialogInv, RepliesAreTrue
<1>6. Consistent'
  <2>1. store' = {b \in Ask : deliveries'[b] > 0 /\ promise'[b] = "pending"} /\ clocks' = store'
    BY <1>1, <1>2 DEF DialogInv, Consistent
  <2>. QED
    BY <1>1, <2>1 DEF DialogInv, Consistent
<1>. QED
  BY <1>3, <1>4, <1>5, <1>6 DEF DialogInv

LEMMA ExpireKeeps ==
  ASSUME DialogInv, NEW a \in Ask, Expire(a)
  PROVE  DialogInv'
<1>1. /\ a \in store /\ promise[a] = "pending" /\ deliveries[a] > 0
  BY DEF Expire, DialogInv, Consistent
<1>2. /\ promise' = [promise EXCEPT ![a] = "timeout"]
      /\ store' = store \ {a} /\ clocks' = clocks \ {a}
      /\ UNCHANGED <<opened, asked, concluded, queued, deliveries, handling, open, replies, outcomes>>
  BY <1>1 DEF Expire, DropRequest, ProduceOutcome, server
<1>3. /\ promise' \in [Ask -> Outcome] /\ promise'[a] = "timeout"
      /\ \A b \in Ask : b # a => promise'[b] = promise[b]
  BY <1>2 DEF DialogInv, DialogTypes, Outcome
<1>4. DialogTypes'
  BY <1>2, <1>3 DEF DialogInv, DialogTypes
<1>5. SentOnly' /\ RepliesAreTrue'
  BY <1>1, <1>2, <1>3 DEF DialogInv, SentOnly, RepliesAreTrue
<1>6. Consistent'
  <2>1. \A r \in Reply : r.ask \in Ask
    BY DEF Reply
  <2>. QED
    BY <1>2, <1>3, <2>1 DEF DialogInv, Consistent
<1>. QED
  BY <1>4, <1>5, <1>6 DEF DialogInv

LEMMA NotSendableKeeps ==
  ASSUME DialogInv, NEW a \in Ask, NotSendable(a)
  PROVE  DialogInv'
<1>1. /\ promise[a] = "pending" /\ deliveries[a] = 0
      /\ promise' = [promise EXCEPT ![a] = "fault"]
      /\ UNCHANGED <<store, clocks, asked, concluded, queued, deliveries, handling, open, replies, outcomes>>
  BY DEF NotSendable, server
<1>2. /\ promise' \in [Ask -> Outcome] /\ promise'[a] = "fault"
      /\ \A b \in Ask : b # a => promise'[b] = promise[b]
  BY <1>1 DEF DialogInv, DialogTypes, Outcome
<1>3. DialogTypes'
  BY <1>1, <1>2 DEF DialogInv, DialogTypes
<1>4. SentOnly' /\ RepliesAreTrue'
  BY <1>1, <1>2 DEF DialogInv, SentOnly, RepliesAreTrue
<1>5. Consistent'
  <2>1. \A r \in Reply : r.ask \in Ask
    BY DEF Reply
  <2>2. store' = {b \in Ask : deliveries'[b] > 0 /\ promise'[b] = "pending"} /\ clocks' = store'
    BY <1>1, <1>2 DEF DialogInv, Consistent
  <2>3. \A b \in Ask : /\ promise'[b] = "success" => TRUE \in outcomes'[b]
                       /\ promise'[b] = "error" => FALSE \in outcomes'[b]
    BY <1>1, <1>2 DEF DialogInv, Consistent
  <2>4. ASSUME NEW r \in Reply, concluded'[r] = "released"
        PROVE  promise'[r.ask] \in {"success", "error", "timeout"}
    BY <1>1, <1>2, <2>1, <2>4 DEF DialogInv, Consistent
  <2>. QED
    BY <2>2, <2>3, <2>4 DEF Consistent
<1>. QED
  BY <1>3, <1>4, <1>5 DEF DialogInv

\* What the processor and the broker do.
LEMMA ServerKeeps ==
  ASSUME DialogInv, UNCHANGED client, DialogTypes',
         \A b \in Ask : /\ deliveries[b] > 0 <=> deliveries'[b] > 0
                        /\ b \in queued' \cup handling' => deliveries[b] > 0
                        /\ outcomes[b] \subseteq outcomes'[b],
         \A r \in replies' : r \in replies \/ (deliveries[r.ask] > 0 /\ r.success \in outcomes'[r.ask])
  PROVE  DialogInv'
<1>1. UNCHANGED <<opened, asked, promise, store, clocks, concluded>>
  BY DEF client
<1>2. \A r \in replies' : r.ask \in Ask
  BY DEF DialogTypes, Reply
<1>3. \A b \in Ask : deliveries[b] \in Nat /\ deliveries'[b] \in Nat
  BY DialogAssumption DEF DialogInv, DialogTypes
<1>4. SentOnly'
  BY <1>1, <1>3 DEF DialogInv, SentOnly
<1>5. RepliesAreTrue'
  BY <1>2 DEF DialogInv, RepliesAreTrue
<1>6. Consistent'
  BY <1>1 DEF DialogInv, Consistent
<1>. QED
  BY <1>4, <1>5, <1>6 DEF DialogInv

LEMMA ProcessorKeeps ==
  ASSUME DialogInv, NEW a \in Ask, Dispatch(a) \/ Processed(a) \/ ReplyThrows(a) \/ Redeliver(a) \/ Lose
  PROVE  DialogInv'
<1>1. DialogTypes /\ SentOnly
  BY DEF DialogInv
<1>2. CASE Dispatch(a)
  <2>1. /\ UNCHANGED <<deliveries, replies, outcomes, client>>
        /\ queued' \subseteq queued /\ handling' \subseteq handling \cup {a} /\ a \in queued
    BY <1>2 DEF Dispatch
  <2>2. DialogTypes'
    BY <1>1, <2>1 DEF DialogTypes, client
  <2>. QED
    BY <1>1, <2>1, <2>2, ServerKeeps DEF SentOnly
<1>3. CASE Processed(a)
  <2>1. PICK success \in BOOLEAN :
          /\ replies' = replies \cup {[ask |-> a, nr |-> deliveries[a], success |-> success]}
          /\ outcomes' = [outcomes EXCEPT ![a] = @ \cup {success}]
    BY <1>3 DEF Processed
  <2>2. UNCHANGED <<queued, deliveries, client>> /\ a \in handling /\ handling' \subseteq handling
    BY <1>3 DEF Processed
  <2>3. deliveries[a] \in 1 .. MaxDeliveries
    BY <1>1, <2>2, DialogAssumption DEF DialogTypes, SentOnly
  <2>4. /\ outcomes' \in [Ask -> SUBSET BOOLEAN] /\ success \in outcomes'[a]
        /\ \A b \in Ask : outcomes[b] \subseteq outcomes'[b]
    BY <1>1, <2>1 DEF DialogTypes
  <2>5. replies' \subseteq Reply
    BY <1>1, <2>1, <2>3 DEF DialogTypes, Reply
  <2>6. DialogTypes'
    BY <1>1, <2>2, <2>4, <2>5 DEF DialogTypes, client
  <2>7. \A r \in replies' : r \in replies \/ (deliveries[r.ask] > 0 /\ r.success \in outcomes'[r.ask])
    BY <2>1, <2>3, <2>4
  <2>. QED
    BY <1>1, <2>2, <2>4, <2>6, <2>7, ServerKeeps DEF SentOnly
<1>4. CASE ReplyThrows(a)
  <2>1. UNCHANGED <<queued, deliveries, replies, outcomes, client>> /\ handling' \subseteq handling
    BY <1>4 DEF ReplyThrows
  <2>2. DialogTypes'
    BY <1>1, <2>1 DEF DialogTypes, client
  <2>. QED
    BY <1>1, <2>1, <2>2, ServerKeeps DEF SentOnly
<1>5. CASE Redeliver(a)
  <2>1. /\ UNCHANGED <<handling, replies, outcomes, client>>
        /\ queued' = queued \cup {a} /\ deliveries[a] \in 1 .. MaxDeliveries - 1
        /\ deliveries' = [deliveries EXCEPT ![a] = @ + 1]
    BY <1>5 DEF Redeliver
  <2>2. /\ deliveries' \in [Ask -> 0 .. MaxDeliveries] /\ deliveries[a] > 0 /\ deliveries'[a] > 0
        /\ \A b \in Ask : b # a => deliveries'[b] = deliveries[b]
    BY <1>1, <2>1, DialogAssumption DEF DialogTypes
  <2>3. DialogTypes'
    BY <1>1, <2>1, <2>2 DEF DialogTypes, client
  <2>. QED
    BY <1>1, <2>1, <2>2, <2>3, ServerKeeps DEF SentOnly
<1>6. CASE Lose
  <2>1. /\ UNCHANGED <<deliveries, handling, outcomes, client>>
        /\ queued' \subseteq queued /\ replies' \subseteq replies
    BY <1>6 DEF Lose
  <2>2. DialogTypes'
    BY <1>1, <2>1 DEF DialogTypes, client
  <2>. QED
    BY <1>1, <2>1, <2>2, ServerKeeps DEF SentOnly
<1>. QED
  BY <1>2, <1>3, <1>4, <1>5, <1>6

LEMMA DialogNextKeeps == DialogInv /\ [DialogNext]_dialogVars => DialogInv'
<1>. SUFFICES ASSUME DialogInv, [DialogNext]_dialogVars PROVE DialogInv'
  OBVIOUS
<1>1. CASE ReceiverOpens \/ (\E a \in Ask : Send(a)) \/ UNCHANGED dialogVars
  <2>1. /\ UNCHANGED <<promise, store, clocks, concluded, queued, deliveries, handling, replies, outcomes>>
        /\ asked \subseteq asked' /\ asked' \subseteq Ask
    BY <1>1 DEF ReceiverOpens, Send, dialogVars, server, DialogInv, DialogTypes
  <2>. QED
    BY <2>1 DEF DialogInv, DialogTypes, SentOnly, RepliesAreTrue, Consistent
<1>2. CASE MessagesArrive
  BY <1>2, MessagesKeep
<1>3. CASE Lose
  <2>1. (\E a : a \in Ask) \/ Ask = {}
    OBVIOUS
  <2>2. Ask = {} => ~Lose
    BY DEF Lose, DialogInv, DialogTypes, Reply
  <2>. QED
    BY <1>3, <2>1, <2>2, ProcessorKeeps
<1>4. ASSUME NEW a \in Ask, Sends(a) \/ Expire(a) \/ Dispatch(a) \/ Processed(a) \/ ReplyThrows(a) \/ Redeliver(a)
      PROVE  DialogInv'
  BY <1>4, SentKeeps, NotSendableKeeps, ExpireKeeps, ProcessorKeeps DEF Sends
<1>. QED
  BY <1>1, <1>2, <1>3, <1>4 DEF DialogNext

\* The requests kept by correlation id, their timeouts and their promises tell
\* the same, whatever the broker loses or delivers twice and whenever a timeout
\* fires: who waits is stored and has a timeout, what a promise was settled with
\* is what a callable said, and a reply is released only to a request that was
\* settled before (useDialog, useRequests).
THEOREM DialogStaysConsistent == Spec => []RequestsAreConsistent
<1>1. Init => DialogInv
  BY DialogStarts DEF Init
<1>2. DialogInv /\ [Next]_vars => DialogInv'
  <2>1. [Next]_vars => [DialogNext]_dialogVars
    BY DEF Next, vars, OfHttp, OfDialog, OfEntity, OfRender
  <2>. QED
    BY <2>1, DialogNextKeeps
<1>3. DialogInv => RequestsAreConsistent
  BY DEF DialogInv, DialogTypes, SentOnly, Consistent, RequestsAreConsistent, DialogTypeOK, Outcome
<1>. QED
  BY <1>1, <1>2, <1>3, PTL DEF Spec

-----------------------------------------------------------------------------
(* The HTTP client *)

HttpTypes ==
  /\ HttpTypeOK
  /\ given \in [before : BOOLEAN, after : BOOLEAN, stream : BOOLEAN, validUrl : BOOLEAN]
  /\ response \in [ok : BOOLEAN, json : BOOLEAN]
  /\ endedIn \in {"none", "new", "before", "fetch", "after", "body"}

\* A request that is not settled has no answer; the timer is gone when the body
\* is read.
StillOpen ==
  /\ stage # "settled" => answer = NoAnswer /\ endedIn = "none"
  /\ stage = "body" => timer # "armed"

HttpInv == HttpTypes /\ StillOpen /\ RejectionsAreTyped /\ NoTimerLeft

LEMMA HttpStarts == HttpInit => HttpInv
BY DEF HttpInit, HttpInv, HttpTypes, HttpTypeOK, StillOpen, RejectionsAreTyped, NoTimerLeft, NoAnswer

LEMMA HttpNextKeeps == HttpInv /\ [HttpNext]_httpVars => HttpInv'
<1>. SUFFICES ASSUME HttpInv, [HttpNext]_httpVars PROVE HttpInv'
  OBVIOUS
<1>. USE DEF HttpInv, HttpTypes, HttpTypeOK, StillOpen, RejectionsAreTyped, NoTimerLeft,
             NoAnswer, ErrorClasses, HttpSettle, ClearTimeout
<1>1. CASE RequestBegins
  BY <1>1 DEF RequestBegins
<1>2. CASE RunBeforeHook
  BY <1>2 DEF RunBeforeHook
<1>3. CASE TimerFires
  BY <1>3 DEF TimerFires
<1>4. CASE FetchAnswers
  BY <1>4 DEF FetchAnswers
<1>5. CASE FetchRejects
  BY <1>5 DEF FetchRejects, ConvertError
<1>6. CASE RunAfterHook
  BY <1>6 DEF RunAfterHook
<1>7. CASE HandleResponse
  BY <1>7 DEF HandleResponse, Body, ErrorBody
<1>8. CASE UNCHANGED httpVars
  BY <1>8 DEF httpVars
<1>. QED
  BY <1>1, <1>2, <1>3, <1>4, <1>5, <1>6, <1>7, <1>8 DEF HttpNext

\* Whatever hooks, server and timer do, and in whichever order: a request is
\* rejected with the class of error of the stage it failed in, a timeout only
\* when the timer fired during the fetch, and no timer outlives the fetch
\* (HttpClient.request).
THEOREM HttpRequestsEndWell == Spec => []HttpOK
<1>1. Init => HttpInv
  BY HttpStarts DEF Init
<1>2. HttpInv /\ [Next]_vars => HttpInv'
  <2>1. [Next]_vars => [HttpNext]_httpVars
    BY DEF Next, vars, OfHttp, OfDialog, OfEntity, OfRender
  <2>. QED
    BY <2>1, HttpNextKeeps
<1>3. HttpInv => HttpOK
  BY DEF HttpInv, HttpTypes, HttpOK
<1>. QED
  BY <1>1, <1>2, <1>3, PTL DEF Spec

-----------------------------------------------------------------------------
(* The render cache *)

Mark == {Variables(j) : j \in Job} \cup {Template(j) : j \in Job} \cup STRING
Hashes == {Hash(j) : j \in Job}

\* What the job has become when n of its renderers went over it.
Partly(j, n) == Source(j) \o SubSeq(Suitable(j), 1, n)

RenderTypes ==
  /\ entries \in Seq(Hashes) /\ IsInjective(entries)
  /\ content \in [Hashes -> Seq(Mark)]
  /\ job \in [Job -> [pc : {"has", "hydrate", "render", "store", "hydrated", "rendered", "rejected", "missed"},
                      done : Nat, template : Seq(Mark), content : Seq(Mark), again : BOOLEAN]]

\* The hashes of jobs that were tried again.
Tried == {Hash(k) : k \in {i \in Job : job[i].again}}

\* What the jobs that were rendered have for their hashes.
Results == {<<Hash(k), Rendered(k)>> : k \in {i \in Job : job[i].pc = "rendered"}}

\* Where a job is that was not tried again, and what it holds.
JobIsOnItsWay(j) ==
  /\ job[j].pc \in {"has", "hydrate"} => job[j].done = 0 /\ job[j].template = Source(j) /\ job[j].content = <<>>
  /\ job[j].pc = "render" => /\ job[j].done <= Len(Suitable(j))
                             /\ job[j].template = Partly(j, job[j].done)
                             /\ job[j].content = IF job[j].done = 0 THEN <<>> ELSE Partly(j, job[j].done)
  /\ job[j].pc \in {"store", "rendered"} => job[j].content = Rendered(j)

EntriesAreTrue == \A h \in Hashes : h \notin Tried /\ Contains(entries, h) => <<h, content[h]>> \in Results
HitsAreTrue ==
  \A j \in Job : job[j].pc = "hydrated" /\ Hash(j) \notin Tried => <<Hash(j), job[j].content>> \in Results
JobsAreOnTheirWay == \A j \in Job : ~job[j].again => JobIsOnItsWay(j)
MemoryKeeps ==
  storage = "memory" =>
    \A j \in Job : job[j].pc # "missed" /\ (job[j].pc = "hydrate" => Contains(entries, Hash(j)))

RenderInv == RenderTypes /\ EntriesAreTrue /\ HitsAreTrue /\ JobsAreOnTheirWay /\ MemoryKeeps

LEMMA SourceType ==
  ASSUME NEW j \in Job
  PROVE  /\ Source(j) \in Seq(Mark) /\ Suitable(j) \in Seq(Mark) /\ Hash(j) \in Hashes
         /\ Len(Source(j)) = 2
BY RenderAssumption DEF Source, Mark, Hashes

\* Renderer after renderer, from the template to the whole.
LEMMA PartlyGrows ==
  ASSUME NEW j \in Job
  PROVE  /\ Partly(j, 0) = Source(j)
         /\ Suitable(j) # <<>> => Partly(j, Len(Suitable(j))) = Rendered(j)
         /\ \A n \in 0 .. Len(Suitable(j)) - 1 : Append(Partly(j, n), Suitable(j)[n + 1]) = Partly(j, n + 1)
<1>1. PICK s, h, S : s = Suitable(j) /\ h = Source(j) /\ s \in Seq(S) /\ h \in Seq(S)
  BY SourceType
<1>2. h \o SubSeq(s, 1, 0) = h
  <2>1. SubSeq(s, 1, 0) = <<>>
    BY <1>1
  <2>. QED
    BY <1>1, <2>1
<1>3. SubSeq(s, 1, Len(s)) = s
  BY <1>1
<1>4. ASSUME NEW n \in 0 .. Len(s) - 1
      PROVE  Append(h \o SubSeq(s, 1, n), s[n + 1]) = h \o SubSeq(s, 1, n + 1)
  BY <1>1
<1>. QED
  BY <1>1, <1>2, <1>3, <1>4 DEF Partly, Rendered

LEMMA RemovedElements ==
  ASSUME NEW S, NEW s \in Seq(S), NEW i \in DOMAIN s, NEW t, t = RemoveAt(s, i)
  PROVE  /\ t \in Seq(S) /\ Len(t) = Len(s) - 1 /\ i \in 1 .. Len(s) /\ Len(s) \in Nat
         /\ \A k \in 1 .. Len(s) - 1 : t[k] = IF k < i THEN s[k] ELSE s[k + 1]
<1>1. PICK a, b : a = SubSeq(s, 1, i - 1) /\ b = SubSeq(s, i + 1, Len(s))
  OBVIOUS
<1>2. i \in 1 .. Len(s) /\ Len(s) \in Nat /\ t = a \o b
  BY <1>1 DEF RemoveAt
<1>3. a \in Seq(S) /\ Len(a) = i - 1 /\ \A k \in 1 .. i - 1 : a[k] = s[k]
  BY <1>1, <1>2
<1>4. b \in Seq(S) /\ Len(b) = Len(s) - i /\ \A k \in 1 .. Len(s) - i : b[k] = s[i + k]
  BY <1>1, <1>2
<1>5. t \in Seq(S) /\ Len(t) = Len(s) - 1
  BY <1>2, <1>3, <1>4
<1>6. ASSUME NEW k \in 1 .. Len(s) - 1
      PROVE  t[k] = IF k < i THEN s[k] ELSE s[k + 1]
  <2>1. CASE k < i
    BY <1>2, <1>3, <1>4, <2>1
  <2>2. CASE k >= i
    <3>1. t[k] = b[k - (i - 1)]
      BY <1>2, <1>3, <1>4, <2>2
    <3>2. b[k - (i - 1)] = s[k + 1]
      BY <1>2, <1>4, <2>2
    <3>. QED
      BY <1>2, <2>2, <3>1, <3>2
  <2>3. k < i \/ k >= i
    BY <1>2
  <2>. QED
    BY <2>1, <2>2, <2>3
<1>. QED
  BY <1>2, <1>5, <1>6

\* An entry that is used becomes the last one and none becomes another.
LEMMA TouchedEntries ==
  ASSUME NEW S, NEW s \in Seq(S), IsInjective(s), NEW h \in S
  PROVE  /\ Touched(s, h) \in Seq(S) /\ IsInjective(Touched(s, h))
         /\ \A x \in S : Contains(Touched(s, h), x) <=> Contains(s, x) \/ x = h
<1>1. CASE ~Contains(s, h)
  <2>1. Touched(s, h) = Append(s, h)
    BY <1>1 DEF Touched
  <2>. QED
    BY <1>1, <2>1 DEF Contains, IsInjective
<1>2. CASE Contains(s, h)
  <2>1. PICK i \in DOMAIN s : s[i] = h /\ i = CHOOSE k \in DOMAIN s : s[k] = h
    BY <1>2 DEF Contains
  <2>2. PICK t : t = RemoveAt(s, i)
    OBVIOUS
  <2>4. t \in Seq(S) /\ Len(t) = Len(s) - 1 /\ i \in 1 .. Len(s) /\ Len(s) \in Nat
        /\ \A k \in 1 .. Len(s) - 1 : t[k] = IF k < i THEN s[k] ELSE s[k + 1]
    BY <2>1, <2>2, RemovedElements
  <2>5. PICK u : u = Append(t, h)
    OBVIOUS
  <2>6. u \in Seq(S) /\ Len(u) = Len(s) /\ DOMAIN u = 1 .. Len(s) /\ u[Len(s)] = h
        /\ \A k \in 1 .. Len(s) - 1 : u[k] = IF k < i THEN s[k] ELSE s[k + 1]
    BY <2>4, <2>5
  <2>7. IsInjective(u)
    <3>0. \A k, l \in 1 .. Len(s) : s[k] = s[l] => k = l
      BY DEF IsInjective
    <3>1. ASSUME NEW k \in 1 .. Len(s), NEW l \in 1 .. Len(s), u[k] = u[l]
          PROVE  k = l
      <4>1. \A n \in 1 .. Len(s) - 1 : u[n] # h
        <5>1. ASSUME NEW n \in 1 .. Len(s) - 1 PROVE u[n] # h
          <6>1. CASE n < i
            BY <2>1, <2>4, <2>6, <3>0, <6>1
          <6>2. CASE n >= i
            <7>1. u[n] = s[n + 1] /\ n + 1 \in 1 .. Len(s) /\ n + 1 # i
              BY <2>4, <2>6, <6>2
            <7>. QED
              BY <2>1, <2>4, <3>0, <7>1
          <6>. QED
            BY <2>4, <6>1, <6>2
        <5>. QED
          BY <5>1
      <4>2. CASE k = Len(s) \/ l = Len(s)
        BY <2>4, <2>6, <3>1, <4>1, <4>2
      <4>3. CASE k # Len(s) /\ l # Len(s)
        <5>1. PICK a, b : a = (IF k < i THEN k ELSE k + 1) /\ b = (IF l < i THEN l ELSE l + 1)
          OBVIOUS
        <5>2. /\ a \in 1 .. Len(s) /\ b \in 1 .. Len(s) /\ u[k] = s[a] /\ u[l] = s[b]
              /\ a = b => k = l
          BY <2>4, <2>6, <4>3, <5>1
        <5>. QED
          BY <3>0, <3>1, <5>2
      <4>. QED
        BY <4>2, <4>3
    <3>. QED
      BY <2>6, <3>1 DEF IsInjective
  <2>8. ASSUME NEW x \in S
        PROVE  Contains(u, x) <=> Contains(s, x)
    <3>1. ASSUME Contains(u, x) PROVE Contains(s, x)
      <4>1. PICK k \in 1 .. Len(s) : u[k] = x
        BY <2>6, <3>1 DEF Contains
      <4>2. CASE k = Len(s)
        BY <1>2, <2>6, <4>1, <4>2
      <4>3. CASE k # Len(s)
        BY <2>4, <2>6, <4>1, <4>3 DEF Contains
      <4>. QED
        BY <4>2, <4>3
    <3>2. ASSUME Contains(s, x) PROVE Contains(u, x)
      <4>1. PICK k \in 1 .. Len(s) : s[k] = x
        BY <3>2 DEF Contains
      <4>2. CASE k = i
        BY <2>1, <2>4, <2>6, <4>1, <4>2 DEF Contains
      <4>3. CASE k < i
        BY <2>4, <2>6, <4>1, <4>3 DEF Contains
      <4>4. CASE k > i
        <5>1. k - 1 \in 1 .. Len(s) - 1 /\ u[k - 1] = x
          BY <2>4, <2>6, <4>1, <4>4
        <5>. QED
          BY <2>6, <5>1 DEF Contains
      <4>. QED
        BY <2>4, <4>1, <4>2, <4>3, <4>4
    <3>. QED
      BY <3>1, <3>2
  <2>9. Touched(s, h) = u
    BY <1>2, <2>1, <2>2, <2>5 DEF Touched
  <2>. QED
    BY <1>2, <2>6, <2>7, <2>8, <2>9
<1>. QED
  BY <1>1, <1>2

\* An entry that goes leaves the others.
LEMMA RemovedEntry ==
  ASSUME NEW S, NEW s \in Seq(S), IsInjective(s), NEW i \in DOMAIN s
  PROVE  /\ RemoveAt(s, i) \in Seq(S) /\ IsInjective(RemoveAt(s, i))
         /\ \A x \in S : Contains(RemoveAt(s, i), x) => Contains(s, x)
<1>1. PICK t : t = RemoveAt(s, i)
  OBVIOUS
<1>3. t \in Seq(S) /\ Len(t) = Len(s) - 1 /\ i \in 1 .. Len(s) /\ Len(s) \in Nat
      /\ \A k \in 1 .. Len(s) - 1 : t[k] = IF k < i THEN s[k] ELSE s[k + 1]
  BY <1>1, RemovedElements
<1>4. IsInjective(t)
  BY <1>3 DEF IsInjective
<1>5. \A x \in S : Contains(t, x) => Contains(s, x)
  BY <1>3 DEF Contains
<1>. QED
  BY <1>1, <1>3, <1>4, <1>5

LEMMA TailOfEntries ==
  ASSUME NEW S, NEW s \in Seq(S), IsInjective(s), s # <<>>
  PROVE  /\ Tail(s) \in Seq(S) /\ IsInjective(Tail(s))
         /\ \A x \in S : Contains(Tail(s), x) => Contains(s, x)
<1>1. PICK t : t = Tail(s)
  OBVIOUS
<1>2. t \in Seq(S) /\ Len(t) = Len(s) - 1 /\ Len(s) > 0
      /\ \A k \in 1 .. Len(s) - 1 : t[k] = s[k + 1]
  BY <1>1
<1>3. IsInjective(t)
  BY <1>2 DEF IsInjective
<1>4. \A x \in S : Contains(t, x) => Contains(s, x)
  BY <1>2 DEF Contains
<1>. QED
  BY <1>1, <1>2, <1>3, <1>4

LEMMA RenderStarts == RenderInit => RenderInv
<1>. SUFFICES ASSUME RenderInit PROVE RenderInv
  OBVIOUS
<1>1. RenderTypes
  <2>1. entries \in Seq(Hashes) /\ IsInjective(entries)
    BY DEF RenderInit, IsInjective
  <2>2. content \in [Hashes -> Seq(Mark)]
    BY DEF RenderInit, Hashes
  <2>. QED
    BY <2>1, <2>2, SourceType DEF RenderInit, RenderTypes
<1>2. \A h : ~Contains(entries, h)
  BY DEF RenderInit, Contains
<1>. QED
  BY <1>1, <1>2
     DEF RenderInit, RenderInv, EntriesAreTrue, HitsAreTrue, JobsAreOnTheirWay, JobIsOnItsWay, MemoryKeeps

\* Jobs that were rendered stay so.
LEMMA RenderedStays ==
  ASSUME RenderTypes, NEW j \in Job, NEW r, job' = [job EXCEPT ![j] = r],
         job[j].pc # "rendered", job[j].again => r.again
  PROVE  /\ job'[j] = r /\ \A k \in Job : k # j => job'[k] = job[k]
         /\ Tried \subseteq Tried'
         /\ Results \subseteq Results'
<1>1. job'[j] = r /\ \A k \in Job : k # j => job'[k] = job[k]
  BY DEF RenderTypes
<1>2. Tried \subseteq Tried'
  BY <1>1 DEF Tried
<1>3. Results \subseteq Results'
  BY <1>1 DEF Results
<1>. QED
  BY <1>1, <1>2, <1>3

\* A step of one job that stores nothing.
LEMMA JobMoves ==
  ASSUME RenderInv, RenderTypes',
         NEW j \in Job, NEW r, job' = [job EXCEPT ![j] = r],
         job[j].pc # "rendered", job[j].again => r.again,
         r.pc = "hydrated" => Contains(entries, Hash(j)) /\ r.content = content[Hash(j)],
         UNCHANGED <<storage, content>>,
         \A h \in Hashes : Contains(entries', h) => Contains(entries, h),
         storage = "memory" => /\ r.pc # "missed" /\ entries' = entries
                               /\ r.pc = "hydrate" => Contains(entries, Hash(j)),
         ~job[j].again /\ ~r.again => JobIsOnItsWay(j)'
  PROVE  RenderInv'
<1>1. /\ job'[j] = r /\ \A k \in Job : k # j => job'[k] = job[k]
      /\ Tried \subseteq Tried'
      /\ Results \subseteq Results'
  BY RenderedStays DEF RenderInv
<1>2. EntriesAreTrue'
  BY <1>1 DEF RenderInv, EntriesAreTrue
<1>3. ASSUME NEW k \in Job, job'[k].pc = "hydrated", Hash(k) \notin Tried'
      PROVE  <<Hash(k), job'[k].content>> \in Results'
  <2>1. CASE k = j
    <3>1. Contains(entries, Hash(j)) /\ r.content = content[Hash(j)] /\ Hash(j) \in Hashes /\ Hash(j) \notin Tried
      BY <1>1, <1>3, <2>1, SourceType
    <3>2. <<Hash(j), r.content>> \in Results
      BY <3>1 DEF RenderInv, EntriesAreTrue
    <3>. QED
      BY <1>1, <2>1, <3>2
  <2>2. CASE k # j
    <3>1. <<Hash(k), job[k].content>> \in Results
      BY <1>1, <1>3, <2>2 DEF RenderInv, HitsAreTrue
    <3>. QED
      BY <1>1, <2>2, <3>1
  <2>. QED
    BY <2>1, <2>2
<1>4. ASSUME NEW k \in Job, ~job'[k].again
      PROVE  JobIsOnItsWay(k)'
  <2>1. CASE k = j
    BY <1>1, <1>4, <2>1
  <2>2. CASE k # j
    BY <1>1, <1>4, <2>2 DEF RenderInv, JobsAreOnTheirWay, JobIsOnItsWay
  <2>. QED
    BY <2>1, <2>2
<1>5. MemoryKeeps'
  BY <1>1 DEF RenderInv, MemoryKeeps
<1>. QED
  BY <1>2, <1>3, <1>4, <1>5 DEF RenderInv, HitsAreTrue, JobsAreOnTheirWay

LEMMA RenderStepKeeps ==
  ASSUME RenderInv, RenderStep
  PROVE  RenderInv'
<1>. USE DEF RenderInv, RenderTypes
<1>1. ASSUME EntryExpires PROVE RenderInv'
  <2>1. PICK i \in DOMAIN entries : entries' = RemoveAt(entries, i)
    BY <1>1 DEF EntryExpires
  <2>2. /\ entries' \in Seq(Hashes) /\ IsInjective(entries')
        /\ \A x \in Hashes : Contains(entries', x) => Contains(entries, x)
    BY <2>1, RemovedEntry
  <2>3. UNCHANGED <<storage, content, job>> /\ storage = "lru"
    BY <1>1 DEF EntryExpires
  <2>4. EntriesAreTrue' /\ HitsAreTrue'
    BY <2>2, <2>3 DEF EntriesAreTrue, HitsAreTrue, Tried, Results
  <2>. QED
    BY <2>2, <2>3, <2>4, SourceType DEF JobsAreOnTheirWay, JobIsOnItsWay, MemoryKeeps
<1>2. ASSUME NEW j \in Job, Has(j) PROVE RenderInv'
  <2>1. PICK r : r = [job[j] EXCEPT !.pc = IF Contains(entries, Hash(j)) THEN "hydrate" ELSE "render"]
    OBVIOUS
  <2>2. job' = [job EXCEPT ![j] = r] /\ UNCHANGED <<storage, entries, content>> /\ job[j].pc = "has"
    BY <1>2, <2>1 DEF Has
  <2>3. RenderTypes'
    BY <2>1, <2>2
  <2>4. ASSUME ~job[j].again PROVE JobIsOnItsWay(j)'
    BY <2>1, <2>2, <2>4, PartlyGrows, SourceType DEF JobsAreOnTheirWay, JobIsOnItsWay
  <2>5. /\ r.again = job[j].again /\ r.pc \in {"hydrate", "render"}
        /\ r.pc = "hydrate" => Contains(entries, Hash(j))
    BY <2>1
  <2>. QED
    BY <2>2, <2>3, <2>4, <2>5, JobMoves
<1>3. ASSUME NEW j \in Job, Hydrate(j) PROVE RenderInv'
  <2>1. CASE ~Contains(entries, Hash(j))
    <3>1. PICK r : r = [job[j] EXCEPT !.pc = "missed"]
      OBVIOUS
    <3>2. job' = [job EXCEPT ![j] = r] /\ UNCHANGED <<storage, entries, content>> /\ job[j].pc = "hydrate"
      BY <1>3, <2>1, <3>1 DEF Hydrate
    <3>3. RenderTypes'
      BY <3>1, <3>2
    <3>4. storage # "memory"
      BY <2>1, <3>2 DEF MemoryKeeps
    <3>5. JobIsOnItsWay(j)'
      BY <3>1, <3>2 DEF JobIsOnItsWay
    <3>6. r.pc = "missed" /\ r.again = job[j].again
      BY <3>1
    <3>. QED
      BY <3>2, <3>3, <3>4, <3>5, <3>6, JobMoves
  <2>2. CASE Contains(entries, Hash(j))
    <3>1. PICK c : c = content[Hash(j)]
      OBVIOUS
    <3>2. PICK r : r = [job[j] EXCEPT !.pc = "hydrated", !.content = c, !.template = c]
      OBVIOUS
    <3>3. /\ job' = [job EXCEPT ![j] = r] /\ UNCHANGED <<storage, content>> /\ job[j].pc = "hydrate"
          /\ entries' = IF storage = "lru" THEN Touched(entries, Hash(j)) ELSE entries
      BY <1>3, <2>2, <3>1, <3>2 DEF Hydrate
    <3>4. c \in Seq(Mark)
      BY <3>1, SourceType
    <3>5. /\ Touched(entries, Hash(j)) \in Seq(Hashes) /\ IsInjective(Touched(entries, Hash(j)))
          /\ \A x \in Hashes : Contains(Touched(entries, Hash(j)), x) => Contains(entries, x)
      BY <2>2, SourceType, TouchedEntries
    <3>6. RenderTypes' /\ \A h \in Hashes : Contains(entries', h) => Contains(entries, h)
      BY <3>2, <3>3, <3>4, <3>5, SourceType
    <3>7. JobIsOnItsWay(j)'
      BY <3>2, <3>3 DEF JobIsOnItsWay
    <3>8. storage = "memory" => entries' = entries
      BY <3>3
    <3>9. r.content = content[Hash(j)] /\ r.pc = "hydrated" /\ r.again = job[j].again
      BY <3>1, <3>2
    <3>. QED
      BY <2>2, <3>2, <3>3, <3>6, <3>7, <3>8, <3>9, JobMoves
  <2>. QED
    BY <2>1, <2>2
<1>4. ASSUME NEW j \in Job, RenderNext(j) PROVE RenderInv'
  <2>1. CASE job' = [job EXCEPT ![j].pc = "rejected"]
    <3>1. PICK r : r = [job[j] EXCEPT !.pc = "rejected"]
      OBVIOUS
    <3>2. job' = [job EXCEPT ![j] = r] /\ UNCHANGED <<storage, entries, content>> /\ job[j].pc = "render"
      BY <1>4, <2>1, <3>1 DEF RenderNext
    <3>3. RenderTypes'
      BY <3>1, <3>2
    <3>4. JobIsOnItsWay(j)'
      BY <3>1, <3>2 DEF JobIsOnItsWay
    <3>5. r.pc = "rejected" /\ r.again = job[j].again
      BY <3>1
    <3>. QED
      BY <3>2, <3>3, <3>4, <3>5, JobMoves
  <2>2. CASE job' = [job EXCEPT ![j].done = @ + 1, ![j].template = Chained(j), ![j].content = Chained(j)]
    <3>1. PICK c : c = Chained(j)
      OBVIOUS
    <3>2. PICK r : r = [job[j] EXCEPT !.done = job[j].done + 1, !.template = c, !.content = c]
      OBVIOUS
    <3>3. /\ job' = [job EXCEPT ![j] = r] /\ UNCHANGED <<storage, entries, content>>
          /\ job[j].pc = "render" /\ job[j].done < Len(Suitable(j))
      <4>1. job' = [job EXCEPT ![j].done = @ + 1, ![j].template = c, ![j].content = c]
        BY <2>2, <3>1
      <4>2. job' = [job EXCEPT ![j] = r]
        BY <3>2, <4>1
      <4>. QED
        BY <1>4, <4>2 DEF RenderNext
    <3>4. c \in Seq(Mark) /\ job[j].done + 1 \in 1 .. Len(Suitable(j))
      <4>1. Suitable(j)[job[j].done + 1] \in Mark /\ job[j].done + 1 \in 1 .. Len(Suitable(j))
        BY <3>3, SourceType
      <4>. QED
        BY <3>1, <4>1 DEF Chained
    <3>5. RenderTypes'
      <4>1. /\ r.pc = job[j].pc /\ r.done = job[j].done + 1 /\ r.template = c /\ r.content = c
            /\ r.again = job[j].again
            /\ r = [pc |-> r.pc, done |-> r.done, template |-> r.template, content |-> r.content,
                    again |-> r.again]
        BY <3>2
      <4>2. job[j].done + 1 \in Nat
        OBVIOUS
      <4>. QED
        BY <3>3, <3>4, <4>1, <4>2
    <3>6. ASSUME ~job[j].again PROVE JobIsOnItsWay(j)'
      <4>1. job[j].template = Partly(j, job[j].done)
        BY <3>3, <3>6 DEF JobsAreOnTheirWay, JobIsOnItsWay
      <4>2. c = Partly(j, job[j].done + 1)
        BY <3>1, <3>3, <3>4, <4>1, PartlyGrows, SourceType DEF Chained
      <4>3. /\ job'[j].pc = "render" /\ job'[j].done = job[j].done + 1
            /\ job'[j].template = c /\ job'[j].content = c
        BY <3>2, <3>3
      <4>. QED
        BY <3>3, <3>4, <4>2, <4>3, SourceType DEF JobIsOnItsWay
    <3>7. r.pc = "render" /\ r.again = job[j].again
      BY <3>2, <3>3
    <3>. QED
      BY <3>3, <3>5, <3>6, <3>7, JobMoves
  <2>. QED
    BY <1>4, <2>1, <2>2 DEF RenderNext
<1>5. ASSUME NEW j \in Job, RenderEnds(j) PROVE RenderInv'
  <2>1. PICK r : r = [job[j] EXCEPT !.pc = "store"]
    OBVIOUS
  <2>2. /\ job' = [job EXCEPT ![j] = r] /\ UNCHANGED <<storage, entries, content>>
        /\ job[j].pc = "render" /\ job[j].done = Len(Suitable(j))
    BY <1>5, <2>1 DEF RenderEnds
  <2>3. RenderTypes'
    BY <2>1, <2>2
  <2>4. ASSUME ~job[j].again PROVE JobIsOnItsWay(j)'
    <3>1. job[j].content = IF job[j].done = 0 THEN <<>> ELSE Partly(j, job[j].done)
      BY <2>2, <2>4 DEF JobsAreOnTheirWay, JobIsOnItsWay
    <3>2. Suitable(j) = <<>> <=> Len(Suitable(j)) = 0
      BY SourceType
    <3>3. job[j].content = Rendered(j)
      BY <2>2, <3>1, <3>2, PartlyGrows DEF Rendered
    <3>. QED
      BY <2>1, <2>2, <3>3 DEF JobIsOnItsWay
  <2>. QED
    BY <2>1, <2>2, <2>3, <2>4, JobMoves
<1>6. ASSUME NEW j \in Job, RenderAgain(j) PROVE RenderInv'
  <2>1. PICK r : r = [job[j] EXCEPT !.pc = "has", !.done = 0, !.again = TRUE]
    OBVIOUS
  <2>2. /\ job' = [job EXCEPT ![j] = r] /\ UNCHANGED <<storage, entries, content>>
        /\ job[j].pc \in {"rejected", "missed"}
    BY <1>6, <2>1 DEF RenderAgain
  <2>3. RenderTypes'
    BY <2>1, <2>2
  <2>4. r.again /\ r.pc = "has"
    BY <2>1
  <2>. QED
    BY <2>2, <2>3, <2>4, JobMoves
<1>7. ASSUME NEW j \in Job, StoreEntry(j) PROVE RenderInv'
  <2>1. PICK r : r = [job[j] EXCEPT !.pc = "rendered"]
    OBVIOUS
  <2>2. /\ job' = [job EXCEPT ![j] = r] /\ storage' = storage /\ job[j].pc = "store"
        /\ content' = [content EXCEPT ![Hash(j)] = job[j].content]
        /\ entries' = IF storage = "memory" /\ Contains(entries, Hash(j)) THEN entries ELSE Stored(j)
    BY <1>7, <2>1 DEF StoreEntry
  <2>3. PICK all : all = Touched(entries, Hash(j))
    OBVIOUS
  <2>4. /\ all \in Seq(Hashes) /\ IsInjective(all) /\ all # <<>>
        /\ \A x \in Hashes : Contains(all, x) <=> Contains(entries, x) \/ x = Hash(j)
    <3>1. /\ all \in Seq(Hashes) /\ IsInjective(all)
          /\ \A x \in Hashes : Contains(all, x) <=> Contains(entries, x) \/ x = Hash(j)
      <4>1. Hash(j) \in Hashes /\ entries \in Seq(Hashes) /\ IsInjective(entries)
        BY SourceType
      <4>. QED
        BY <2>3, <4>1, TouchedEntries
    <3>2. Contains(all, Hash(j))
      BY <3>1, SourceType
    <3>. QED
      BY <3>1, <3>2 DEF Contains
  <2>5. /\ entries' \in Seq(Hashes) /\ IsInjective(entries')
        /\ \A x \in Hashes : Contains(entries', x) => Contains(entries, x) \/ x = Hash(j)
        /\ storage = "memory" => \A x \in Hashes : Contains(entries, x) \/ x = Hash(j) => Contains(entries', x)
    <3>1. CASE entries' = entries /\ Contains(entries, Hash(j))
      BY <3>1
    <3>2. CASE entries' = Tail(all) /\ storage = "lru"
      BY <2>4, <3>2, TailOfEntries
    <3>3. CASE entries' = all
      BY <2>4, <3>3
    <3>. QED
      BY <2>2, <2>3, <3>1, <3>2, <3>3 DEF Stored
  <2>6. RenderTypes'
    BY <2>1, <2>2, <2>5, SourceType
  <2>7. r.pc = "rendered" /\ r.again = job[j].again /\ r.content = job[j].content
    BY <2>1
  <2>8. /\ job'[j] = r /\ \A k \in Job : k # j => job'[k] = job[k]
        /\ Tried \subseteq Tried'
        /\ Results \subseteq Results'
    BY <2>2, <2>7, RenderedStays
  <2>9. ASSUME NEW k \in Job, ~job'[k].again
        PROVE  JobIsOnItsWay(k)'
    BY <2>2, <2>7, <2>8, <2>9 DEF JobsAreOnTheirWay, JobIsOnItsWay
  <2>10. ASSUME NEW h \in Hashes, h \notin Tried', Contains(entries', h)
         PROVE  <<h, content'[h]>> \in Results'
    <3>1. CASE h = Hash(j)
      <4>1. job[j].content = Rendered(j)
        BY <2>2, <2>8, <2>10, <3>1 DEF Tried, JobsAreOnTheirWay, JobIsOnItsWay
      <4>2. content'[h] = Rendered(j)
        BY <2>2, <2>10, <3>1, <4>1
      <4>. QED
        BY <2>7, <2>8, <3>1, <4>2 DEF Results
    <3>2. CASE h # Hash(j)
      <4>1. Contains(entries, h) /\ content'[h] = content[h]
        BY <2>2, <2>5, <2>10, <3>2
      <4>2. <<h, content[h]>> \in Results
        BY <2>8, <2>10, <4>1 DEF EntriesAreTrue
      <4>. QED
        BY <2>8, <4>1, <4>2
    <3>. QED
      BY <3>1, <3>2
  <2>11. HitsAreTrue'
    <3>1. ASSUME NEW k \in Job, job'[k].pc = "hydrated", Hash(k) \notin Tried'
          PROVE  <<Hash(k), job'[k].content>> \in Results'
      <4>1. k # j /\ job'[k] = job[k]
        BY <2>7, <2>8, <3>1
      <4>2. <<Hash(k), job[k].content>> \in Results
        BY <2>8, <3>1, <4>1 DEF HitsAreTrue
      <4>. QED
        BY <2>8, <4>1, <4>2
    <3>. QED
      BY <3>1 DEF HitsAreTrue
  <2>12. MemoryKeeps'
    BY <2>2, <2>5, <2>7, <2>8, SourceType DEF MemoryKeeps
  <2>. QED
    BY <2>6, <2>9, <2>10, <2>11, <2>12 DEF JobsAreOnTheirWay, EntriesAreTrue
<1>. QED
  BY <1>1, <1>2, <1>3, <1>4, <1>5, <1>6, <1>7 DEF RenderStep, RenderRuns

\* However jobs interleave with each other and with what the storage drops between
\* the question whether it has an entry and the answer: a job that is rendered has
\* its own content unless it was tried again with the template a failed chain left; a
\* hit has the content of a rendered job of the same hash unless one of these was
\* tried again, which is its own content as far as jobs of one hash have one
\* source and one syntax; and the storage that drops nothing never misses
\* (Engine.render, RenderJob, LRUStorage, MemoryStorage).
THEOREM CacheStaysTransparent == Spec => []CacheIsTransparent
<1>1. Init => RenderInv
  BY RenderStarts DEF Init
<1>2. RenderInv /\ [Next]_vars => RenderInv'
  <2>1. [Next]_vars => RenderStep \/ UNCHANGED renderVars
    BY DEF Next, vars, OfHttp, OfDialog, OfEntity, OfRender
  <2>2. RenderInv /\ UNCHANGED renderVars => RenderInv'
    BY DEF renderVars, RenderInv, RenderTypes, EntriesAreTrue, HitsAreTrue, JobsAreOnTheirWay, JobIsOnItsWay,
           MemoryKeeps, Tried, Results
  <2>. QED
    BY <2>1, <2>2, RenderStepKeeps
<1>3. RenderInv => CacheIsTransparent
  <2>. SUFFICES ASSUME RenderInv PROVE CacheIsTransparent
    OBVIOUS
  <2>1. RenderTypeOK
    BY DEF RenderInv, RenderTypes, RenderTypeOK, ToSet
  <2>2. ContentIsOwn
    <3>1. \A j \in Job : job[j].pc = "rendered" /\ ~job[j].again => job[j].content = Rendered(j)
      BY DEF RenderInv, JobsAreOnTheirWay, JobIsOnItsWay
    <3>2. ASSUME NEW j \in Job, job[j].pc = "hydrated", \A k \in SameHash(j) : ~job[k].again
          PROVE  \E k \in SameHash(j) : job[k].pc = "rendered" /\ job[j].content = Rendered(k)
      <4>1. Hash(j) \notin Tried
        BY <3>2 DEF SameHash, Tried
      <4>2. <<Hash(j), job[j].content>> \in Results
        BY <3>2, <4>1 DEF RenderInv, HitsAreTrue
      <4>. QED
        BY <4>2 DEF Results, SameHash
    <3>. QED
      BY <3>1, <3>2 DEF ContentIsOwn
  <2>3. MemoryNeverMisses
    BY DEF RenderInv, MemoryKeeps, MemoryNeverMisses
  <2>. QED
    BY <2>1, <2>2, <2>3 DEF CacheIsTransparent
<1>. QED
  BY <1>1, <1>2, <1>3, PTL DEF Spec

LEMMA EmptyIsInjective == ASSUME NEW s, s = <<>> PROVE IsInjective(s)
BY DEF IsInjective

LEMMA EmptyHasNothing == ASSUME NEW s, s = <<>> PROVE \A x : ~Contains(s, x)
BY DEF Contains

LEMMA EmptyIsSeq == ASSUME NEW S PROVE <<>> \in Seq(S)
OBVIOUS

LEMMA EmptyJoined == ASSUME NEW S, NEW s \in Seq(S) PROVE s \o <<>> = s /\ <<>> \o s = s
OBVIOUS

-----------------------------------------------------------------------------
(* The entity store *)

Event == 1 .. MaxEvents
Revision == Nat \cup {-1}

EntityTypes ==
  /\ kind \in {"state", "stream"} /\ present \in BOOLEAN
  /\ saved \in Seq(Event) /\ emitted \in Seq(Event) /\ savedRev \in Revision
  /\ entity \in [Caller -> [state : Seq(Event), events : Seq(Event), revision : Revision]]
  /\ doing \in [Caller -> {"nothing", "working", "emitting", "rejected"}]
  /\ result \in [Caller -> Revision]
  /\ overlapped \in BOOLEAN /\ repeated \in BOOLEAN /\ pulled \in BOOLEAN /\ made \in 0 .. MaxEvents

\* The revision that a save answers when it makes n events of what is stored, and that
\* of an object which comes from n stored events: a new one has -1.
Numbered(n) == IF kind = "stream" THEN n ELSE n - 1
Revises(r, n) == r = Numbered(n) \/ (n = 0 /\ r = -1)

\* How many events of its state an object did not make itself.
Known(c) == Len(entity[c].state) - Len(entity[c].events)

\* What is stored: each event once.
SavedIsNew == IsInjective(saved) /\ \A i \in 1 .. Len(saved) : saved[i] <= made

\* The own events of an object that is worked on: nobody else has them yet.
WorkIsNew(c) ==
  /\ IsInjective(entity[c].events)
  /\ \A i \in 1 .. Len(entity[c].events) : /\ entity[c].events[i] <= made
                                           /\ ~Contains(saved, entity[c].events[i])

\* The events that are being emitted are stored and untold.
EmissionIsNew(c) ==
  /\ IsInjective(entity[c].events)
  /\ \A i \in 1 .. Len(entity[c].events) : /\ Contains(saved, entity[c].events[i])
                                           /\ ~Contains(emitted, entity[c].events[i])

\* Nobody has an event of somebody else, before it is saved or while it is emitted.
NobodyShares ==
  \A c, d \in Caller :
    c # d /\ doing[c] \in {"working", "emitting"} /\ doing[d] = doing[c] =>
      \A i \in 1 .. Len(entity[c].events) : ~Contains(entity[d].events, entity[c].events[i])

EmittedIsSaved ==
  /\ IsInjective(emitted)
  /\ \A i \in 1 .. Len(emitted) : Contains(saved, emitted[i])

EventsAreSound ==
  /\ SavedIsNew /\ NobodyShares /\ EmittedIsSaved
  /\ \A c \in Caller : doing[c] = "working" => WorkIsNew(c)
  /\ \A c \in Caller : doing[c] = "emitting" => EmissionIsNew(c)

\* An object that is worked on is the beginning of what is stored, and its own events.
WorkFollows(c) ==
  /\ Known(c) \in 0 .. Len(saved)
  /\ \A i \in 1 .. Known(c) : entity[c].state[i] = saved[i]
  /\ Revises(entity[c].revision, Known(c))

\* An object whose events are being emitted is the beginning of what is stored.
EmissionFollows(c) ==
  /\ Len(entity[c].state) \in 0 .. Len(saved)
  /\ \A i \in 1 .. Len(entity[c].state) : entity[c].state[i] = saved[i]
  /\ result[c] = Numbered(Len(entity[c].state))

SavedIsNumbered == present => savedRev = Numbered(Len(saved))

ObjectsAreSound ==
  /\ SavedIsNumbered
  /\ \A c \in Caller : doing[c] = "working" => WorkFollows(c)
  /\ \A c \in Caller : doing[c] = "emitting" => EmissionFollows(c)

EntityInv ==
  /\ EntityTypes
  /\ EventsAreKept => EventsAreSound
  /\ TurnsAreTaken => ObjectsAreSound

\* Two sequences one after the other.
LEMMA JoinedElements ==
  ASSUME NEW S, NEW s \in Seq(S), NEW t \in Seq(S), NEW u, u = s \o t
  PROVE  /\ u \in Seq(S) /\ Len(u) = Len(s) + Len(t) /\ Len(s) \in Nat /\ Len(t) \in Nat
         /\ \A i \in 1 .. Len(s) : u[i] = s[i]
         /\ \A i \in 1 .. Len(t) : u[Len(s) + i] = t[i]
         /\ \A i \in 1 .. Len(u) : i \in 1 .. Len(s) \/ \E j \in 1 .. Len(t) : i = Len(s) + j
<1>1. /\ u \in Seq(S) /\ Len(u) = Len(s) + Len(t) /\ Len(s) \in Nat /\ Len(t) \in Nat
      /\ \A i \in 1 .. Len(s) : u[i] = s[i]
      /\ \A i \in 1 .. Len(t) : u[Len(s) + i] = t[i]
  OBVIOUS
<1>2. ASSUME NEW i \in 1 .. Len(u)
      PROVE  i \in 1 .. Len(s) \/ \E j \in 1 .. Len(t) : i = Len(s) + j
  <2>1. i > Len(s) => i - Len(s) \in 1 .. Len(t) /\ i = Len(s) + (i - Len(s))
    BY <1>1
  <2>. QED
    BY <1>1, <2>1
<1>. QED
  BY <1>1, <1>2

LEMMA JoinedContains ==
  ASSUME NEW S, NEW s \in Seq(S), NEW t \in Seq(S), NEW u, u = s \o t, NEW x
  PROVE  Contains(u, x) <=> Contains(s, x) \/ Contains(t, x)
<1>1. /\ u \in Seq(S) /\ Len(u) = Len(s) + Len(t) /\ Len(s) \in Nat /\ Len(t) \in Nat
      /\ \A i \in 1 .. Len(s) : u[i] = s[i]
      /\ \A i \in 1 .. Len(t) : u[Len(s) + i] = t[i]
      /\ \A i \in 1 .. Len(u) : i \in 1 .. Len(s) \/ \E j \in 1 .. Len(t) : i = Len(s) + j
  BY JoinedElements
<1>2. Contains(u, x) => Contains(s, x) \/ Contains(t, x)
  BY <1>1 DEF Contains
<1>3. Contains(s, x) => Contains(u, x)
  BY <1>1 DEF Contains
<1>4. ASSUME Contains(t, x) PROVE Contains(u, x)
  <2>1. PICK i \in 1 .. Len(t) : t[i] = x
    BY <1>4 DEF Contains
  <2>2. Len(s) + i \in 1 .. Len(u)
    BY <1>1
  <2>. QED
    BY <1>1, <2>1, <2>2 DEF Contains
<1>. QED
  BY <1>2, <1>3, <1>4

LEMMA JoinedIsInjective ==
  ASSUME NEW S, NEW s \in Seq(S), NEW t \in Seq(S), NEW u, u = s \o t
  PROVE  IsInjective(s) /\ IsInjective(t) /\ (\A i \in 1 .. Len(t) : ~Contains(s, t[i])) => IsInjective(u)
<1>1. /\ u \in Seq(S) /\ Len(u) = Len(s) + Len(t) /\ Len(s) \in Nat /\ Len(t) \in Nat
      /\ \A i \in 1 .. Len(s) : u[i] = s[i]
      /\ \A i \in 1 .. Len(t) : u[Len(s) + i] = t[i]
      /\ \A i \in 1 .. Len(u) : i \in 1 .. Len(s) \/ \E j \in 1 .. Len(t) : i = Len(s) + j
  BY JoinedElements
<1>2. DOMAIN u = 1 .. Len(u) /\ DOMAIN s = 1 .. Len(s) /\ DOMAIN t = 1 .. Len(t)
  BY <1>1
<1>. SUFFICES ASSUME IsInjective(s), IsInjective(t), \A i \in 1 .. Len(t) : ~Contains(s, t[i])
              PROVE  IsInjective(u)
  OBVIOUS
<1>3. ASSUME NEW a \in 1 .. Len(u), NEW b \in 1 .. Len(u), u[a] = u[b]
      PROVE  a = b
  <2>1. CASE a \in 1 .. Len(s) /\ b \in 1 .. Len(s)
    BY <1>1, <1>2, <1>3, <2>1 DEF IsInjective
  <2>2. CASE \E j \in 1 .. Len(t) : a = Len(s) + j
    <3>1. PICK j \in 1 .. Len(t) : a = Len(s) + j
      BY <2>2
    <3>2. u[a] = t[j]
      BY <1>1, <3>1
    <3>3. b \notin 1 .. Len(s)
      BY <1>1, <1>3, <3>2 DEF Contains
    <3>4. PICK k \in 1 .. Len(t) : b = Len(s) + k
      BY <1>1, <3>3
    <3>5. u[b] = t[k]
      BY <1>1, <3>4
    <3>6. t[j] = t[k]
      BY <1>3, <3>2, <3>5
    <3>7. j = k
      BY <1>2, <3>6 DEF IsInjective
    <3>. QED
      BY <3>1, <3>4, <3>7
  <2>3. CASE a \in 1 .. Len(s) /\ \E j \in 1 .. Len(t) : b = Len(s) + j
    <3>1. PICK j \in 1 .. Len(t) : b = Len(s) + j
      BY <2>3
    <3>. QED
      BY <1>1, <1>3, <2>3, <3>1 DEF Contains
  <2>. QED
    BY <1>1, <2>1, <2>2, <2>3
<1>. QED
  BY <1>2, <1>3 DEF IsInjective

\* The object after a load: nothing of its own.
LEMMA Reconstituted ==
  ASSUME NEW s \in Seq(Event), NEW e \in Seq(Event), NEW r \in Revision
  PROVE  /\ Reconstitute(s, e, r) \in [state : Seq(Event), events : Seq(Event), revision : Revision]
         /\ Reconstitute(s, e, r).state = s \o e
         /\ Reconstitute(s, e, r).events = <<>>
         /\ Reconstitute(s, e, r).revision = r
BY EmptyIsInjective, EmptyHasNothing DEF Reconstitute

LEMMA EntityStarts == EntityInit => EntityInv
<1>. SUFFICES ASSUME EntityInit PROVE EntityInv
  OBVIOUS
<1>1. \A c \in Caller : entity[c] \in [state : Seq(Event), events : Seq(Event), revision : Revision]
  BY EmptyIsSeq, Reconstituted DEF EntityInit, Revision
<1>2. EntityTypes
  <2>1. -1 \in Revision /\ 0 \in 0 .. MaxEvents
    BY EntityAssumption DEF Revision
  <2>. QED
    BY <1>1, <2>1, EmptyIsSeq DEF EntityInit, EntityTypes
<1>3. saved = <<>> /\ emitted = <<>> /\ present = FALSE /\ \A c \in Caller : doing[c] = "nothing"
  BY DEF EntityInit
<1>4. SavedIsNew
  BY <1>3, EmptyIsInjective DEF SavedIsNew
<1>5. NobodyShares
  BY <1>3 DEF NobodyShares
<1>6. EmittedIsSaved
  BY <1>3, EmptyIsInjective DEF EmittedIsSaved
<1>. QED
  BY <1>2, <1>3, <1>4, <1>5, <1>6 DEF EntityInv, EventsAreSound, ObjectsAreSound, SavedIsNumbered

LEMMA EntityTypesKept ==
  ASSUME EntityTypes, EntityNext
  PROVE  EntityTypes'
<1>. DEFINE Object == [state : Seq(Event), events : Seq(Event), revision : Revision]
<1>0. EntityTypes /\ -1 \in Revision /\ MaxEvents \in Nat
      /\ \A c \in Caller : entity[c] \in Object
  BY EntityAssumption DEF EntityTypes, Revision
<1>1. ASSUME NEW c \in Caller, Create(c) PROVE EntityTypes'
  <2>1. Reconstitute(<<>>, <<>>, -1) \in Object
    BY <1>0, EmptyIsSeq, Reconstituted
  <2>. QED
    BY <1>0, <1>1, <2>1 DEF Create, EntityTypes
<1>2. ASSUME NEW c \in Caller, LoadEntity(c) PROVE EntityTypes'
  <2>1. Len(saved) \in Revision
    BY <1>0 DEF EntityTypes, Revision
  <2>2. Reconstitute(<<>>, saved, Len(saved)) \in Object /\ Reconstitute(saved, <<>>, savedRev) \in Object
    BY <1>0, <2>1, Reconstituted DEF EntityTypes
  <2>. QED
    BY <1>0, <1>2, <2>2 DEF LoadEntity, EntityTypes
<1>3. ASSUME NEW c \in Caller, Execute(c) PROVE EntityTypes'
  <2>1. made' \in Event /\ made' \in 0 .. MaxEvents
    BY <1>0, <1>3 DEF Execute, EntityTypes, Event
  <2>2. /\ Append(entity[c].state, made') \in Seq(Event)
        /\ Append(entity[c].events, made') \in Seq(Event)
    BY <1>0, <2>1
  <2>3. entity' \in [Caller -> Object]
    <3>1. PICK s, e : s = Append(entity[c].state, made') /\ e = Append(entity[c].events, made')
      OBVIOUS
    <3>2. entity' = [entity EXCEPT ![c].state = s, ![c].events = e]
      BY <1>3, <3>1 DEF Execute
    <3>3. entity \in [Caller -> Object]
      BY <1>0 DEF EntityTypes
    <3>. QED
      BY <2>2, <3>1, <3>2, <3>3
  <2>. QED
    BY <1>0, <1>3, <2>1, <2>3 DEF Execute, EntityTypes
<1>4. ASSUME NEW c \in Caller, SaveEntity(c) PROVE EntityTypes'
  <2>1. PICK e : e = entity[c]
    OBVIOUS
  <2>2. e.state \in Seq(Event) /\ e.events \in Seq(Event) /\ e.revision \in Revision
    BY <1>0, <2>1
  <2>3. Len(e.events) \in Nat /\ e.revision + Len(e.events) \in Revision
    BY <2>2 DEF Revision
  <2>4. saved \o e.events \in Seq(Event) /\ Len(saved \o e.events) \in Revision
    BY <1>0, <2>2 DEF EntityTypes, Revision
  <2>5. saved' \in Seq(Event) /\ savedRev' \in Revision
    BY <1>4, <2>1, <2>2, <2>3, <2>4 DEF SaveEntity
  <2>6. present' \in BOOLEAN /\ overlapped' \in BOOLEAN /\ repeated' \in BOOLEAN
    BY <1>0, <1>4 DEF SaveEntity, EntityTypes
  <2>7. doing' \in [Caller -> {"nothing", "working", "emitting", "rejected"}] /\ result' \in [Caller -> Revision]
    BY <1>0, <1>4, <2>5 DEF SaveEntity, EntityTypes
  <2>. QED
    BY <1>0, <1>4, <2>5, <2>6, <2>7 DEF SaveEntity, EntityTypes
<1>5. ASSUME NEW c \in Caller, Saved(c) PROVE EntityTypes'
  <2>1. emitted \o entity[c].events \in Seq(Event) /\ result[c] \in Revision
    BY <1>0 DEF EntityTypes
  <2>2. Reconstitute(entity[c].state, <<>>, result[c]) \in Object
    BY <1>0, <2>1, EmptyIsSeq, Reconstituted
  <2>. QED
    BY <1>0, <1>5, <2>1, <2>2 DEF Saved, EntityTypes
<1>6. ASSUME NEW c \in Caller, ListenerThrows(c) PROVE EntityTypes'
  <2>1. PICK n \in 1 .. Len(entity[c].events) : emitted' = emitted \o SubSeq(entity[c].events, 1, n)
    BY <1>6 DEF ListenerThrows
  <2>2. SubSeq(entity[c].events, 1, n) \in Seq(Event)
    <3>1. PICK t : t = entity[c].events /\ t \in Seq(Event)
      BY <1>0
    <3>. QED
      BY <3>1
  <2>3. emitted' \in Seq(Event)
    BY <1>0, <2>1, <2>2 DEF EntityTypes
  <2>. QED
    BY <1>0, <1>6, <2>3 DEF ListenerThrows, EntityTypes
<1>7. ASSUME NEW c \in Caller, RemoveEntity(c) PROVE EntityTypes'
  BY <1>0, <1>7, EmptyIsSeq DEF RemoveEntity, EntityTypes
<1>. QED
  BY <1>1, <1>2, <1>3, <1>4, <1>5, <1>6, <1>7 DEF EntityNext

LEMMA EventsAreNumbers ==
  ASSUME NEW s \in Seq(Event)
  PROVE  \A i \in 1 .. Len(s) : s[i] \in Int /\ s[i] \in Event
<1>1. \A i \in 1 .. Len(s) : s[i] \in Event
  OBVIOUS
<1>2. \A x \in Event : x \in Int
  BY DEF Event
<1>. QED
  BY <1>1, <1>2

\* What is told of what is stored and of the callers that do not act.
LEMMA SavedStaysNew ==
  ASSUME EntityTypes, EntityTypes', SavedIsNew, saved' = saved, made <= made'
  PROVE  SavedIsNew'
<1>1. \A i \in 1 .. Len(saved) : saved[i] \in Int /\ made \in Int /\ made' \in Int
  <2>1. saved \in Seq(Event) /\ made \in Int /\ made' \in Int
    BY DEF EntityTypes
  <2>. QED
    BY <2>1, EventsAreNumbers
<1>2. \A i \in 1 .. Len(saved) : saved[i] <= made'
  BY <1>1 DEF SavedIsNew
<1>. QED
  BY <1>2 DEF SavedIsNew

LEMMA WorkStaysNew ==
  ASSUME NEW d \in Caller, WorkIsNew(d), entity'[d] = entity[d], saved' = saved,
         EntityTypes, EntityTypes', made <= made'
  PROVE  WorkIsNew(d)'
<1>1. entity[d].events \in Seq(Event) /\ made \in Int /\ made' \in Int
  BY DEF EntityTypes
<1>2. \A i \in 1 .. Len(entity[d].events) : entity[d].events[i] \in Int
  BY <1>1, EventsAreNumbers
<1>3. \A i \in 1 .. Len(entity[d].events) : entity[d].events[i] <= made'
  BY <1>1, <1>2 DEF WorkIsNew
<1>. QED
  BY <1>3 DEF WorkIsNew

LEMMA EmissionStaysNew ==
  ASSUME NEW d \in Caller, EmissionIsNew(d), entity'[d] = entity[d], UNCHANGED <<saved, emitted>>
  PROVE  EmissionIsNew(d)'
BY DEF EmissionIsNew

LEMMA WorkStays ==
  ASSUME NEW d \in Caller, WorkFollows(d), entity'[d] = entity[d], UNCHANGED <<saved, kind>>
  PROVE  WorkFollows(d)'
BY DEF WorkFollows, Known, Revises, Numbered

LEMMA EmissionStays ==
  ASSUME NEW d \in Caller, EmissionFollows(d), entity'[d] = entity[d], result'[d] = result[d],
         UNCHANGED <<saved, kind>>
  PROVE  EmissionFollows(d)'
BY DEF EmissionFollows, Numbered

\* A caller takes an object that has nothing of its own.
LEMMA TakenIsNew ==
  ASSUME EntityTypes, EntityTypes', EventsAreSound, NEW c \in Caller,
         NEW e, entity' = [entity EXCEPT ![c] = e], doing' = [doing EXCEPT ![c] = "working"],
         e.events = <<>>, UNCHANGED <<saved, emitted, made>>
  PROVE  EventsAreSound'
<1>1. /\ entity'[c] = e /\ doing'[c] = "working"
      /\ \A d \in Caller : d # c => entity'[d] = entity[d] /\ doing'[d] = doing[d]
      /\ made \in Int /\ made <= made'
  BY DEF EntityTypes
<1>2. IsInjective(e.events) /\ Len(e.events) = 0 /\ \A x : ~Contains(e.events, x)
  BY EmptyIsInjective, EmptyHasNothing
<1>3. SavedIsNew'
  BY <1>1, SavedStaysNew DEF EventsAreSound
<1>4. NobodyShares'
  BY <1>1, <1>2 DEF EventsAreSound, NobodyShares
<1>5. EmittedIsSaved'
  BY DEF EventsAreSound, EmittedIsSaved
<1>6. WorkIsNew(c)'
  BY <1>1, <1>2 DEF WorkIsNew
<1>7. ASSUME NEW d \in Caller, doing'[d] = "working" PROVE WorkIsNew(d)'
  BY <1>1, <1>6, <1>7, WorkStaysNew DEF EventsAreSound
<1>8. ASSUME NEW d \in Caller, doing'[d] = "emitting" PROVE EmissionIsNew(d)'
  BY <1>1, <1>8, EmissionStaysNew DEF EventsAreSound
<1>. QED
  BY <1>3, <1>4, <1>5, <1>7, <1>8 DEF EventsAreSound

\* It is a beginning of what is stored.
LEMMA TakenFollows ==
  ASSUME EntityTypes, ObjectsAreSound, NEW c \in Caller,
         NEW e, entity' = [entity EXCEPT ![c] = e], doing' = [doing EXCEPT ![c] = "working"],
         e.events = <<>>, Len(e.state) \in 0 .. Len(saved), \A i \in 1 .. Len(e.state) : e.state[i] = saved[i],
         Revises(e.revision, Len(e.state)), UNCHANGED <<kind, present, saved, savedRev, result>>
  PROVE  ObjectsAreSound'
<1>1. /\ entity'[c] = e /\ doing'[c] = "working"
      /\ \A d \in Caller : d # c => entity'[d] = entity[d] /\ doing'[d] = doing[d]
  BY DEF EntityTypes
<1>2. WorkFollows(c)'
  <2>1. Known(c)' = Len(e.state)
    <3>1. Known(c)' = Len(e.state) - Len(e.events)
      BY <1>1 DEF Known
    <3>2. Len(e.events) = 0
      OBVIOUS
    <3>. QED
      BY <3>1, <3>2
  <2>2. Revises(entity[c].revision, Known(c))'
    BY <1>1, <2>1 DEF Revises, Numbered
  <2>. QED
    BY <1>1, <2>1, <2>2 DEF WorkFollows
<1>3. SavedIsNumbered'
  BY DEF ObjectsAreSound, SavedIsNumbered, Numbered
<1>4. ASSUME NEW d \in Caller, doing'[d] = "working" PROVE WorkFollows(d)'
  BY <1>1, <1>2, <1>4, WorkStays DEF ObjectsAreSound
<1>5. ASSUME NEW d \in Caller, doing'[d] = "emitting" PROVE EmissionFollows(d)'
  BY <1>1, <1>5, EmissionStays DEF ObjectsAreSound
<1>. QED
  BY <1>3, <1>4, <1>5 DEF ObjectsAreSound

LEMMA CreateKeeps ==
  ASSUME EntityTypes, EntityTypes', NEW c \in Caller, Create(c)
  PROVE  (EventsAreSound => EventsAreSound') /\ (ObjectsAreSound => ObjectsAreSound')
<1>1. PICK e : e = Reconstitute(<<>>, <<>>, -1)
  OBVIOUS
<1>2. e.events = <<>> /\ e.state = <<>> /\ e.revision = -1
  <2>1. -1 \in Revision /\ <<>> \in Seq(Event) /\ <<>> \o <<>> = <<>>
    BY EmptyIsSeq, EmptyJoined DEF Revision
  <2>. QED
    BY <1>1, <2>1, Reconstituted
<1>3. /\ Len(e.state) = 0 /\ Len(e.state) \in 0 .. Len(saved) /\ Revises(e.revision, Len(e.state))
      /\ \A i \in 1 .. Len(e.state) : e.state[i] = saved[i]
  <2>1. Len(e.state) = 0 /\ Len(saved) \in Nat
    BY <1>2 DEF EntityTypes
  <2>. QED
    BY <1>2, <2>1 DEF Revises
<1>4. /\ entity' = [entity EXCEPT ![c] = e] /\ doing' = [doing EXCEPT ![c] = "working"]
      /\ UNCHANGED <<kind, present, saved, savedRev, result, emitted, made>>
  BY <1>1 DEF Create
<1>5. EventsAreSound => EventsAreSound'
  BY <1>2, <1>4, TakenIsNew
<1>6. ObjectsAreSound => ObjectsAreSound'
  BY <1>2, <1>3, <1>4, TakenFollows
<1>. QED
  BY <1>5, <1>6

LEMMA LoadKeeps ==
  ASSUME EntityTypes, EntityTypes', NEW c \in Caller, LoadEntity(c)
  PROVE  (EventsAreSound => EventsAreSound') /\ (ObjectsAreSound => ObjectsAreSound')
<1>1. PICK e : e = IF kind = "stream" THEN Reconstitute(<<>>, saved, Len(saved))
                                      ELSE Reconstitute(saved, <<>>, savedRev)
  OBVIOUS
<1>2. /\ entity' = [entity EXCEPT ![c] = e] /\ doing' = [doing EXCEPT ![c] = "working"] /\ present
      /\ UNCHANGED <<kind, present, saved, savedRev, result, emitted, made>>
  BY <1>1 DEF LoadEntity
<1>3. saved \in Seq(Event) /\ savedRev \in Revision /\ Len(saved) \in Nat /\ Len(saved) \in Revision
  BY DEF EntityTypes, Revision
<1>4. e.events = <<>> /\ e.state = saved /\ e.revision = (IF kind = "stream" THEN Len(saved) ELSE savedRev)
  <2>1. <<>> \in Seq(Event) /\ <<>> \o saved = saved /\ saved \o <<>> = saved
    BY <1>3, EmptyIsSeq, EmptyJoined
  <2>2. CASE kind = "stream"
    <3>1. e = Reconstitute(<<>>, saved, Len(saved))
      BY <1>1, <2>2
    <3>2. e.state = <<>> \o saved /\ e.events = <<>> /\ e.revision = Len(saved)
      BY <1>3, <2>1, <3>1, Reconstituted
    <3>. QED
      BY <2>1, <2>2, <3>2
  <2>3. CASE kind # "stream"
    BY <1>1, <1>3, <2>1, <2>3, Reconstituted
  <2>. QED
    BY <2>2, <2>3
<1>5. EventsAreSound => EventsAreSound'
  BY <1>2, <1>4, TakenIsNew
<1>6. ASSUME ObjectsAreSound PROVE ObjectsAreSound'
  <2>1. savedRev = Numbered(Len(saved))
    BY <1>2, <1>6 DEF ObjectsAreSound, SavedIsNumbered
  <2>2. Revises(e.revision, Len(e.state))
    BY <1>4, <2>1 DEF Revises, Numbered
  <2>3. Len(e.state) \in 0 .. Len(saved) /\ \A i \in 1 .. Len(e.state) : e.state[i] = saved[i]
    BY <1>3, <1>4
  <2>. QED
    BY <1>2, <1>4, <1>6, <2>2, <2>3, TakenFollows
<1>. QED
  BY <1>5, <1>6

\* What a command changes: a state and a list of events get a new last event.
LEMMA Executed ==
  ASSUME EntityTypes, NEW c \in Caller, Execute(c)
  PROVE  \E s, e, s1, e1 :
           /\ s = entity[c].state /\ e = entity[c].events /\ s1 = entity'[c].state /\ e1 = entity'[c].events
           /\ s \in Seq(Event) /\ e \in Seq(Event) /\ s1 \in Seq(Event) /\ e1 \in Seq(Event)
           /\ Len(s1) = Len(s) + 1 /\ Len(e1) = Len(e) + 1 /\ Len(s) \in Nat /\ Len(e) \in Nat
           /\ s1[Len(s) + 1] = made' /\ e1[Len(e) + 1] = made'
           /\ \A i \in 1 .. Len(s) : s1[i] = s[i]
           /\ \A i \in 1 .. Len(e) : e1[i] = e[i]
           /\ entity'[c].revision = entity[c].revision
           /\ made' = made + 1 /\ made \in Nat
           /\ \A d \in Caller : d # c => entity'[d] = entity[d]
           /\ UNCHANGED <<kind, present, saved, savedRev, doing, result, emitted>>
<1>1. PICK s, e : s = entity[c].state /\ e = entity[c].events
  OBVIOUS
<1>2. /\ entity'[c].state = Append(s, made') /\ entity'[c].events = Append(e, made')
      /\ entity'[c].revision = entity[c].revision
      /\ made' = made + 1 /\ made \in Nat
      /\ \A d \in Caller : d # c => entity'[d] = entity[d]
      /\ s \in Seq(Event) /\ e \in Seq(Event)
      /\ UNCHANGED <<kind, present, saved, savedRev, doing, result, emitted>>
  BY <1>1 DEF Execute, EntityTypes
<1>3. PICK s1, e1 : s1 = entity'[c].state /\ e1 = entity'[c].events
  OBVIOUS
<1>4. s1 = Append(s, made') /\ e1 = Append(e, made')
  BY <1>2, <1>3
<1>5. made' \in Event
  <2>1. made < MaxEvents
    BY DEF Execute
  <2>. QED
    BY <1>2, <2>1, EntityAssumption DEF Event
<1>6. /\ Len(s1) = Len(s) + 1 /\ Len(e1) = Len(e) + 1 /\ Len(s) \in Nat /\ Len(e) \in Nat
      /\ s1[Len(s) + 1] = made' /\ e1[Len(e) + 1] = made'
      /\ \A i \in 1 .. Len(s) : s1[i] = s[i]
      /\ \A i \in 1 .. Len(e) : e1[i] = e[i]
      /\ e1 \in Seq(Event) /\ s1 \in Seq(Event)
  BY <1>2, <1>4, <1>5
<1>. QED
  BY <1>1, <1>2, <1>3, <1>6

\* The new event is after all others.
LEMMA ExecuteKeepsEvents ==
  ASSUME EntityTypes, EntityTypes', EventsAreSound, NEW c \in Caller, Execute(c)
  PROVE  EventsAreSound'
<1>1. PICK s, e, s1, e1 :
           /\ s = entity[c].state /\ e = entity[c].events /\ s1 = entity'[c].state /\ e1 = entity'[c].events
           /\ s \in Seq(Event) /\ e \in Seq(Event) /\ s1 \in Seq(Event) /\ e1 \in Seq(Event)
           /\ Len(s1) = Len(s) + 1 /\ Len(e1) = Len(e) + 1 /\ Len(s) \in Nat /\ Len(e) \in Nat
           /\ s1[Len(s) + 1] = made' /\ e1[Len(e) + 1] = made'
           /\ \A i \in 1 .. Len(s) : s1[i] = s[i]
           /\ \A i \in 1 .. Len(e) : e1[i] = e[i]
           /\ entity'[c].revision = entity[c].revision
           /\ made' = made + 1 /\ made \in Nat
           /\ \A d \in Caller : d # c => entity'[d] = entity[d]
           /\ UNCHANGED <<kind, present, saved, savedRev, doing, result, emitted>>
  BY Executed
<1>2. made <= made'
  BY <1>1
<1>3. SavedIsNew'
  BY <1>1, <1>2, SavedStaysNew DEF EventsAreSound
<1>4. EmittedIsSaved'
  BY <1>1 DEF EventsAreSound, EmittedIsSaved
<1>5. ASSUME NEW d \in Caller \ {c}, doing[d] = "working"
      PROVE  /\ \A i \in 1 .. Len(entity[d].events) : entity[d].events[i] # made'
             /\ ~Contains(entity[d].events, made')
  <2>1. \A i \in 1 .. Len(entity[d].events) : entity[d].events[i] <= made
    BY <1>5 DEF EventsAreSound, WorkIsNew
  <2>2. \A i \in 1 .. Len(entity[d].events) : entity[d].events[i] \in Int
    BY EventsAreNumbers DEF EntityTypes
  <2>3. \A i \in 1 .. Len(entity[d].events) : entity[d].events[i] # made'
    BY <1>1, <2>1, <2>2
  <2>. QED
    BY <2>3 DEF Contains
<1>6. doing[c] \in {"working", "rejected"}
  BY DEF Execute
<1>7. NobodyShares'
  <2>1. ASSUME NEW d \in Caller, NEW b \in Caller, d # b, doing'[d] \in {"working", "emitting"},
               doing'[b] = doing'[d], NEW i \in 1 .. Len(entity'[d].events)
        PROVE  ~Contains(entity'[b].events, entity'[d].events[i])
    <3>1. \A j \in 1 .. Len(entity[d].events) : ~Contains(entity[b].events, entity[d].events[j])
      BY <1>1, <2>1 DEF EventsAreSound, NobodyShares
    <3>2. CASE d # c /\ b # c
      BY <1>1, <2>1, <3>1, <3>2
    <3>3. CASE d = c
      <4>1. b # c /\ doing[b] = "working" /\ entity'[b] = entity[b]
        BY <1>1, <1>6, <2>1, <3>3
      <4>2. CASE i = Len(e) + 1
        BY <1>1, <1>5, <3>3, <4>1, <4>2
      <4>3. CASE i \in 1 .. Len(e)
        BY <1>1, <3>1, <3>3, <4>1, <4>3
      <4>. QED
        BY <1>1, <2>1, <3>3, <4>2, <4>3
    <3>4. CASE b = c
      <4>1. d # c /\ doing[d] = "working" /\ entity'[d] = entity[d] /\ i \in 1 .. Len(entity[d].events)
        BY <1>1, <1>6, <2>1, <3>4
      <4>2. \A j \in 1 .. Len(e) : e[j] # entity[d].events[i]
        BY <1>1, <3>1, <3>4, <4>1 DEF Contains
      <4>3. \A j \in 1 .. Len(e1) : e1[j] # entity[d].events[i]
        <5>1. ASSUME NEW j \in 1 .. Len(e1) PROVE e1[j] # entity[d].events[i]
          <6>1. CASE j = Len(e) + 1
            BY <1>1, <1>5, <4>1, <6>1
          <6>2. CASE j \in 1 .. Len(e)
            BY <1>1, <4>2, <6>2
          <6>. QED
            BY <1>1, <6>1, <6>2
        <5>. QED
          BY <5>1
      <4>. QED
        BY <1>1, <3>4, <4>1, <4>3 DEF Contains
    <3>. QED
      BY <3>2, <3>3, <3>4
  <2>. QED
    BY <2>1 DEF NobodyShares
<1>8. ASSUME doing[c] = "working" PROVE WorkIsNew(c)'
  <2>1. WorkIsNew(c)
    BY <1>8 DEF EventsAreSound
  <2>2. \A i \in 1 .. Len(e) : e[i] <= made /\ e[i] \in Int /\ ~Contains(saved, e[i])
    <3>1. \A i \in 1 .. Len(e) : e[i] \in Int
      BY <1>1, EventsAreNumbers
    <3>. QED
      BY <1>1, <2>1, <3>1 DEF WorkIsNew
  <2>3. ~Contains(saved, made')
    <3>1. \A i \in 1 .. Len(saved) : saved[i] <= made
      BY DEF EventsAreSound, SavedIsNew
    <3>. QED
      BY <1>1, <3>1 DEF Contains
  <2>4. ASSUME NEW i \in 1 .. Len(e1) PROVE e1[i] <= made' /\ ~Contains(saved, e1[i])
    <3>1. CASE i = Len(e) + 1
      BY <1>1, <2>3, <3>1
    <3>2. CASE i \in 1 .. Len(e)
      BY <1>1, <2>2, <3>2
    <3>. QED
      BY <1>1, <3>1, <3>2
  <2>5. IsInjective(e1)
    <3>1. \A i, j \in 1 .. Len(e) : e[i] = e[j] => i = j
      BY <1>1, <2>1 DEF WorkIsNew, IsInjective
    <3>2. ASSUME NEW i \in 1 .. Len(e1), NEW j \in 1 .. Len(e1), e1[i] = e1[j] PROVE i = j
      <4>1. \A k \in 1 .. Len(e) : e1[k] # made'
        <5>1. made' = made + 1 /\ made \in Nat /\ \A k \in 1 .. Len(e) : e1[k] = e[k]
          BY <1>1
        <5>. QED
          BY <2>2, <5>1
      <4>2. i = Len(e) + 1 \/ i \in 1 .. Len(e)
        BY <1>1
      <4>3. j = Len(e) + 1 \/ j \in 1 .. Len(e)
        BY <1>1
      <4>. QED
        BY <1>1, <3>1, <3>2, <4>1, <4>2, <4>3
    <3>3. DOMAIN e1 = 1 .. Len(e1)
      BY <1>1
    <3>. QED
      BY <3>2, <3>3 DEF IsInjective
  <2>. QED
    BY <1>1, <2>4, <2>5 DEF WorkIsNew
<1>9. ASSUME NEW d \in Caller, doing'[d] = "working" PROVE WorkIsNew(d)'
  <2>1. CASE d = c
    BY <1>1, <1>8, <1>9, <2>1
  <2>2. CASE d # c
    BY <1>1, <1>2, <1>9, <2>2, WorkStaysNew DEF EventsAreSound
  <2>. QED
    BY <2>1, <2>2
<1>10. ASSUME NEW d \in Caller, doing'[d] = "emitting" PROVE EmissionIsNew(d)'
  <2>1. d # c /\ EmissionIsNew(d)
    BY <1>1, <1>6, <1>10 DEF EventsAreSound
  <2>. QED
    BY <1>1, <2>1, EmissionStaysNew
<1>. QED
  BY <1>3, <1>4, <1>7, <1>9, <1>10 DEF EventsAreSound

LEMMA ExecuteKeepsObjects ==
  ASSUME EntityTypes, ObjectsAreSound, NEW c \in Caller, Execute(c)
  PROVE  ObjectsAreSound'
<1>1. PICK s, e, s1, e1 :
           /\ s = entity[c].state /\ e = entity[c].events /\ s1 = entity'[c].state /\ e1 = entity'[c].events
           /\ s \in Seq(Event) /\ e \in Seq(Event) /\ s1 \in Seq(Event) /\ e1 \in Seq(Event)
           /\ Len(s1) = Len(s) + 1 /\ Len(e1) = Len(e) + 1 /\ Len(s) \in Nat /\ Len(e) \in Nat
           /\ s1[Len(s) + 1] = made' /\ e1[Len(e) + 1] = made'
           /\ \A i \in 1 .. Len(s) : s1[i] = s[i]
           /\ \A i \in 1 .. Len(e) : e1[i] = e[i]
           /\ entity'[c].revision = entity[c].revision
           /\ made' = made + 1 /\ made \in Nat
           /\ \A d \in Caller : d # c => entity'[d] = entity[d]
           /\ UNCHANGED <<kind, present, saved, savedRev, doing, result, emitted>>
  BY Executed
<1>2. doing[c] \in {"working", "rejected"}
  BY DEF Execute
<1>3. ASSUME doing[c] = "working" PROVE WorkFollows(c)'
  <2>1. WorkFollows(c)
    BY <1>3 DEF ObjectsAreSound
  <2>2. PICK n : n = Known(c) /\ n = Len(s) - Len(e) /\ n \in 0 .. Len(saved)
    BY <1>1, <2>1 DEF Known, WorkFollows
  <2>3. Known(c)' = n
    <3>1. Known(c)' = Len(s1) - Len(e1)
      BY <1>1 DEF Known
    <3>. QED
      BY <1>1, <2>2, <3>1
  <2>4. \A i \in 1 .. n : s1[i] = saved[i]
    <3>1. \A i \in 1 .. n : s[i] = saved[i] /\ i \in 1 .. Len(s)
      BY <1>1, <2>1, <2>2 DEF WorkFollows
    <3>. QED
      BY <1>1, <3>1
  <2>5. Revises(entity[c].revision, Known(c))'
    BY <1>1, <2>1, <2>2, <2>3 DEF WorkFollows, Revises, Numbered
  <2>. QED
    BY <1>1, <2>2, <2>3, <2>4, <2>5 DEF WorkFollows
<1>4. ASSUME NEW d \in Caller, doing'[d] = "working" PROVE WorkFollows(d)'
  <2>1. CASE d = c
    BY <1>1, <1>3, <1>4, <2>1
  <2>2. CASE d # c
    BY <1>1, <1>4, <2>2, WorkStays DEF ObjectsAreSound
  <2>. QED
    BY <2>1, <2>2
<1>5. ASSUME NEW d \in Caller, doing'[d] = "emitting" PROVE EmissionFollows(d)'
  <2>1. d # c /\ EmissionFollows(d)
    BY <1>1, <1>2, <1>5 DEF ObjectsAreSound
  <2>. QED
    BY <1>1, <2>1, EmissionStays
<1>6. SavedIsNumbered'
  BY <1>1 DEF ObjectsAreSound, SavedIsNumbered, Numbered
<1>. QED
  BY <1>4, <1>5, <1>6 DEF ObjectsAreSound

\* A stream gets the events of whoever saves, and a state does if he had seen all of it.
LEMMA SaveAppends ==
  ASSUME EntityTypes, EventsAreKept', NEW c \in Caller, SaveEntity(c)
  PROVE  /\ doing[c] = "working" /\ saved' = saved \o entity[c].events
         /\ entity[c].events \in Seq(Event) /\ saved \in Seq(Event)
         /\ \A d \in Caller : d # c => doing'[d] = doing[d] /\ result'[d] = result[d]
         /\ doing'[c] = "emitting" /\ result'[c] = savedRev' /\ UNCHANGED <<kind, entity, emitted, made>>
<1>1. PICK e : e = entity[c]
  OBVIOUS
<1>2. /\ doing[c] \in {"working", "rejected"} /\ UNCHANGED <<kind, entity, emitted, made>>
      /\ overlapped' = (overlapped \/ (e.state # saved \o e.events /\ doing[c] # "rejected"))
      /\ repeated' = (repeated \/ doing[c] = "rejected")
      /\ doing' = [doing EXCEPT ![c] = "emitting"] /\ result' = [result EXCEPT ![c] = savedRev']
      /\ kind = "stream" => saved' = saved \o e.events
      /\ kind # "stream" => saved' = e.state
  BY <1>1 DEF SaveEntity
<1>3. doing[c] = "working" /\ (kind = "stream" \/ ~overlapped')
  BY <1>2 DEF EventsAreKept, Untouched
<1>4. saved' = saved \o e.events
  BY <1>2, <1>3
<1>. QED
  BY <1>1, <1>2, <1>3, <1>4 DEF EntityTypes

\* What joining makes of the stored events and those of the caller.
LEMMA SavedGrows ==
  ASSUME EntityTypes, NEW e \in Seq(Event), saved' = saved \o e
  PROVE  \E s : /\ s = saved' /\ s \in Seq(Event) /\ Len(s) = Len(saved) + Len(e)
                /\ Len(saved) \in Nat /\ Len(e) \in Nat
                /\ \A i \in 1 .. Len(saved) : s[i] = saved[i]
                /\ \A i \in 1 .. Len(e) : s[Len(saved) + i] = e[i]
                /\ \A x : Contains(s, x) <=> Contains(saved, x) \/ Contains(e, x)
                /\ IsInjective(saved) /\ IsInjective(e) /\ (\A i \in 1 .. Len(e) : ~Contains(saved, e[i])) => IsInjective(s)
<1>1. PICK a, s : a = saved /\ a \in Seq(Event) /\ s = saved' /\ s = a \o e
  BY DEF EntityTypes
<1>2. /\ s \in Seq(Event) /\ Len(s) = Len(a) + Len(e) /\ Len(a) \in Nat /\ Len(e) \in Nat
      /\ \A i \in 1 .. Len(a) : s[i] = a[i]
      /\ \A i \in 1 .. Len(e) : s[Len(a) + i] = e[i]
  BY <1>1, JoinedElements
<1>3. \A x : Contains(s, x) <=> Contains(a, x) \/ Contains(e, x)
  BY <1>1, JoinedContains
<1>4. IsInjective(a) /\ IsInjective(e) /\ (\A i \in 1 .. Len(e) : ~Contains(a, e[i])) => IsInjective(s)
  BY <1>1, JoinedIsInjective
<1>. QED
  BY <1>1, <1>2, <1>3, <1>4

LEMMA SaveKeepsEvents ==
  ASSUME EntityTypes, EntityTypes', EventsAreSound, EventsAreKept', NEW c \in Caller, SaveEntity(c)
  PROVE  EventsAreSound'
<1>1. PICK e : e = entity[c].events
  OBVIOUS
<1>2. /\ doing[c] = "working" /\ saved' = saved \o e /\ e \in Seq(Event) /\ saved \in Seq(Event)
      /\ \A d \in Caller : d # c => doing'[d] = doing[d]
      /\ doing'[c] = "emitting" /\ UNCHANGED <<entity, emitted, made>>
  BY <1>1, SaveAppends
<1>3. PICK s : /\ s = saved' /\ s \in Seq(Event) /\ Len(s) = Len(saved) + Len(e)
               /\ Len(saved) \in Nat /\ Len(e) \in Nat
               /\ \A i \in 1 .. Len(saved) : s[i] = saved[i]
               /\ \A i \in 1 .. Len(e) : s[Len(saved) + i] = e[i]
               /\ \A x : Contains(s, x) <=> Contains(saved, x) \/ Contains(e, x)
               /\ IsInjective(saved) /\ IsInjective(e) /\ (\A i \in 1 .. Len(e) : ~Contains(saved, e[i])) => IsInjective(s)
  BY <1>2, SavedGrows
<1>4. /\ IsInjective(e)
      /\ \A i \in 1 .. Len(e) : e[i] <= made /\ ~Contains(saved, e[i]) /\ Contains(e, e[i])
  BY <1>1, <1>2 DEF EventsAreSound, WorkIsNew, Contains
<1>5. SavedIsNew'
  <2>1. IsInjective(s)
    BY <1>3, <1>4 DEF EventsAreSound, SavedIsNew
  <2>2. ASSUME NEW i \in 1 .. Len(s) PROVE s[i] <= made
    <3>1. CASE i <= Len(saved)
      BY <1>3, <3>1 DEF EventsAreSound, SavedIsNew
    <3>2. CASE i > Len(saved)
      <4>1. i - Len(saved) \in 1 .. Len(e) /\ i = Len(saved) + (i - Len(saved))
        BY <1>3, <3>2
      <4>. QED
        BY <1>3, <1>4, <4>1
    <3>. QED
      BY <1>3, <3>1, <3>2
  <2>3. \A i \in 1 .. Len(saved') : saved'[i] <= made'
    BY <1>2, <1>3, <2>2
  <2>. QED
    BY <1>3, <2>1, <2>3 DEF SavedIsNew
<1>6. EmittedIsSaved'
  BY <1>2, <1>3 DEF EventsAreSound, EmittedIsSaved
<1>7. EmissionIsNew(c)'
  <2>1. \A i \in 1 .. Len(e) : Contains(s, e[i])
    BY <1>3, <1>4
  <2>2. ASSUME NEW x, Contains(emitted, x) PROVE Contains(saved, x)
    <3>1. PICK k \in 1 .. Len(emitted) : emitted[k] = x
      BY <2>2 DEF Contains
    <3>. QED
      BY <3>1 DEF EventsAreSound, EmittedIsSaved
  <2>3. \A i \in 1 .. Len(e) : ~Contains(emitted, e[i])
    BY <1>4, <2>2
  <2>. QED
    BY <1>1, <1>2, <1>3, <1>4, <2>1, <2>3 DEF EmissionIsNew
<1>8. ASSUME NEW d \in Caller, doing'[d] = "emitting" PROVE EmissionIsNew(d)'
  <2>1. CASE d = c
    BY <1>7, <2>1
  <2>2. CASE d # c
    <3>1. EmissionIsNew(d)
      BY <1>2, <1>8, <2>2 DEF EventsAreSound
    <3>2. \A i \in 1 .. Len(entity[d].events) : Contains(s, entity[d].events[i])
      BY <1>3, <3>1 DEF EmissionIsNew
    <3>. QED
      BY <1>2, <1>3, <3>1, <3>2 DEF EmissionIsNew
  <2>. QED
    BY <2>1, <2>2
<1>9. ASSUME NEW d \in Caller, doing'[d] = "working" PROVE WorkIsNew(d)'
  <2>1. WorkIsNew(d) /\ d # c /\ doing[d] = "working"
    BY <1>2, <1>9 DEF EventsAreSound
  <2>2. \A i \in 1 .. Len(entity[d].events) : ~Contains(s, entity[d].events[i])
    <3>1. \A i \in 1 .. Len(entity[d].events) : ~Contains(e, entity[d].events[i])
      BY <1>1, <1>2, <2>1 DEF EventsAreSound, NobodyShares
    <3>. QED
      BY <1>3, <2>1, <3>1 DEF WorkIsNew
  <2>. QED
    BY <1>2, <1>3, <2>1, <2>2 DEF WorkIsNew
<1>10. NobodyShares'
  <2>1. ASSUME NEW d \in Caller, NEW b \in Caller, d # b, doing'[d] \in {"working", "emitting"},
               doing'[b] = doing'[d], NEW i \in 1 .. Len(entity[d].events)
        PROVE  ~Contains(entity[b].events, entity[d].events[i])
    <3>1. CASE d # c /\ b # c
      BY <1>2, <2>1, <3>1 DEF EventsAreSound, NobodyShares
    <3>2. CASE d = c
      <4>1. EmissionIsNew(b)
        BY <1>2, <2>1, <3>2 DEF EventsAreSound
      <4>2. ~Contains(saved, entity[d].events[i])
        BY <1>1, <1>4, <2>1, <3>2
      <4>3. \A k \in 1 .. Len(entity[b].events) : Contains(saved, entity[b].events[k])
        BY <4>1 DEF EmissionIsNew
      <4>4. \A k \in 1 .. Len(entity[b].events) : entity[b].events[k] # entity[d].events[i]
        BY <4>2, <4>3
      <4>. QED
        BY <4>4 DEF Contains
    <3>3. CASE b = c
      <4>1. EmissionIsNew(d)
        BY <1>2, <2>1, <3>3 DEF EventsAreSound
      <4>2. Contains(saved, entity[d].events[i])
        BY <2>1, <4>1 DEF EmissionIsNew
      <4>3. \A k \in 1 .. Len(e) : e[k] # entity[d].events[i]
        BY <1>4, <4>2
      <4>. QED
        BY <1>1, <3>3, <4>3 DEF Contains
    <3>. QED
      BY <3>1, <3>2, <3>3
  <2>. QED
    BY <1>2, <2>1 DEF NobodyShares
<1>. QED
  BY <1>5, <1>6, <1>8, <1>9, <1>10 DEF EventsAreSound

\* Whoever takes turns has seen all that is stored when he saves.
LEMMA SaveKeepsObjects ==
  ASSUME EntityTypes, EntityTypes', ObjectsAreSound, TurnsAreTaken', NEW c \in Caller, SaveEntity(c)
  PROVE  ObjectsAreSound'
<1>1. PICK e, t, r : e = entity[c].events /\ t = entity[c].state /\ r = entity[c].revision
  OBVIOUS
<1>2. /\ doing[c] = "working" /\ saved' = saved \o e /\ e \in Seq(Event) /\ saved \in Seq(Event)
      /\ \A d \in Caller : d # c => doing'[d] = doing[d] /\ result'[d] = result[d]
      /\ doing'[c] = "emitting" /\ result'[c] = savedRev' /\ UNCHANGED <<kind, entity>>
  BY <1>1, SaveAppends DEF TurnsAreTaken, EventsAreKept
<1>3. PICK s : /\ s = saved' /\ s \in Seq(Event) /\ Len(s) = Len(saved) + Len(e)
               /\ Len(saved) \in Nat /\ Len(e) \in Nat
               /\ \A i \in 1 .. Len(saved) : s[i] = saved[i]
               /\ \A i \in 1 .. Len(e) : s[Len(saved) + i] = e[i]
               /\ \A x : Contains(s, x) <=> Contains(saved, x) \/ Contains(e, x)
               /\ IsInjective(saved) /\ IsInjective(e) /\ (\A i \in 1 .. Len(e) : ~Contains(saved, e[i])) => IsInjective(s)
  BY <1>2, SavedGrows
<1>4. /\ t = saved \o e /\ t = s
      /\ savedRev' = IF kind = "stream" THEN Len(s) ELSE r + Len(e)
  <2>1. /\ overlapped' = (overlapped \/ (t # saved \o e /\ doing[c] # "rejected"))
        /\ kind = "stream" => savedRev' = Len(saved')
        /\ kind # "stream" => savedRev' = r + Len(e)
    BY <1>1 DEF SaveEntity
  <2>2. t = saved \o e
    BY <1>2, <2>1 DEF TurnsAreTaken
  <2>. QED
    BY <1>2, <1>3, <2>1, <2>2
<1>5. Revises(r, Len(saved))
  <2>1. Known(c) = Len(saved)
    <3>1. Known(c) = Len(s) - Len(e)
      BY <1>1, <1>4 DEF Known
    <3>. QED
      BY <1>3, <3>1
  <2>. QED
    BY <1>1, <1>2, <2>1 DEF ObjectsAreSound, WorkFollows
<1>6. savedRev' = Numbered(Len(s)) /\ savedRev' = Numbered(Len(saved))'
  <2>1. CASE kind = "stream"
    BY <1>2, <1>3, <1>4, <2>1 DEF Numbered
  <2>2. CASE kind # "stream"
    <3>1. r = Len(saved) - 1
      BY <1>3, <1>5, <2>2 DEF Revises, Numbered
    <3>2. savedRev' = Len(s) - 1
      BY <1>3, <1>4, <2>2, <3>1
    <3>. QED
      BY <1>2, <1>3, <2>2, <3>2 DEF Numbered
  <2>. QED
    BY <2>1, <2>2
<1>7. SavedIsNumbered'
  BY <1>6 DEF SavedIsNumbered
<1>8. EmissionFollows(c)'
  <2>1. entity'[c].state = s /\ result'[c] = Numbered(Len(s))'
    BY <1>1, <1>2, <1>3, <1>4, <1>6
  <2>2. Len(s) \in 0 .. Len(s)
    BY <1>3
  <2>. QED
    BY <1>3, <2>1, <2>2 DEF EmissionFollows, Numbered
<1>9. ASSUME NEW d \in Caller, doing'[d] = "emitting" PROVE EmissionFollows(d)'
  <2>1. CASE d = c
    BY <1>8, <2>1
  <2>2. CASE d # c
    <3>1. EmissionFollows(d) /\ result'[d] = result[d]
      BY <1>2, <1>9, <2>2 DEF ObjectsAreSound
    <3>2. Len(entity[d].state) \in 0 .. Len(s) /\ \A i \in 1 .. Len(entity[d].state) : entity[d].state[i] = s[i]
      <4>1. Len(entity[d].state) \in 0 .. Len(saved)
        BY <3>1 DEF EmissionFollows
      <4>2. \A i \in 1 .. Len(entity[d].state) : i \in 1 .. Len(saved)
        BY <1>3, <4>1
      <4>. QED
        BY <1>3, <3>1, <4>1, <4>2 DEF EmissionFollows
    <3>3. Numbered(Len(entity[d].state))' = Numbered(Len(entity[d].state))
      BY <1>2 DEF Numbered
    <3>. QED
      BY <1>2, <1>3, <3>1, <3>2, <3>3 DEF EmissionFollows
  <2>. QED
    BY <2>1, <2>2
<1>10. ASSUME NEW d \in Caller, doing'[d] = "working" PROVE WorkFollows(d)'
  <2>1. WorkFollows(d)
    BY <1>2, <1>10 DEF ObjectsAreSound
  <2>2. Known(d)' = Known(d) /\ Revises(entity[d].revision, Known(d))'
    BY <1>2, <2>1 DEF WorkFollows, Known, Revises, Numbered
  <2>3. Known(d) \in 0 .. Len(s) /\ \A i \in 1 .. Known(d) : entity[d].state[i] = s[i]
    <3>1. Known(d) \in 0 .. Len(saved)
      BY <2>1 DEF WorkFollows
    <3>2. \A i \in 1 .. Known(d) : i \in 1 .. Len(saved)
      BY <1>3, <3>1
    <3>. QED
      BY <1>3, <2>1, <3>1, <3>2 DEF WorkFollows
  <2>. QED
    BY <1>2, <1>3, <2>1, <2>2, <2>3 DEF WorkFollows
<1>. QED
  BY <1>7, <1>9, <1>10 DEF ObjectsAreSound

\* Telling some of the events of one object.
LEMMA TellingKeeps ==
  ASSUME EntityTypes, EventsAreSound, NEW c \in Caller, doing[c] = "emitting",
         NEW t \in Seq(Event), IsInjective(t), \A i \in 1 .. Len(t) : Contains(entity[c].events, t[i]),
         emitted' = emitted \o t, saved' = saved
  PROVE  /\ EmittedIsSaved'
         /\ \A d \in Caller : d # c /\ doing[d] = "emitting" /\ entity'[d] = entity[d] => EmissionIsNew(d)'
<1>1. EmissionIsNew(c) /\ emitted \in Seq(Event)
  BY DEF EventsAreSound, EntityTypes
<1>2. ASSUME NEW i \in 1 .. Len(t)
      PROVE  Contains(saved, t[i]) /\ ~Contains(emitted, t[i])
  <2>1. PICK k \in 1 .. Len(entity[c].events) : entity[c].events[k] = t[i]
    BY DEF Contains
  <2>. QED
    BY <1>1, <2>1 DEF EmissionIsNew
<1>3. PICK m : m = emitted'
  OBVIOUS
<1>4. /\ Len(m) = Len(emitted) + Len(t) /\ Len(emitted) \in Nat /\ Len(t) \in Nat
      /\ \A i \in 1 .. Len(emitted) : m[i] = emitted[i]
      /\ \A i \in 1 .. Len(t) : m[Len(emitted) + i] = t[i]
      /\ \A x : Contains(m, x) <=> Contains(emitted, x) \/ Contains(t, x)
      /\ IsInjective(emitted) /\ IsInjective(t) /\ (\A i \in 1 .. Len(t) : ~Contains(emitted, t[i])) => IsInjective(m)
  <2>1. PICK a : a = emitted /\ a \in Seq(Event) /\ m = a \o t
    BY <1>1, <1>3
  <2>2. /\ Len(m) = Len(a) + Len(t) /\ Len(a) \in Nat /\ Len(t) \in Nat
        /\ \A i \in 1 .. Len(a) : m[i] = a[i]
        /\ \A i \in 1 .. Len(t) : m[Len(a) + i] = t[i]
        /\ \A x : Contains(m, x) <=> Contains(a, x) \/ Contains(t, x)
        /\ IsInjective(a) /\ IsInjective(t) /\ (\A i \in 1 .. Len(t) : ~Contains(a, t[i])) => IsInjective(m)
    <3>1. /\ Len(m) = Len(a) + Len(t) /\ Len(a) \in Nat /\ Len(t) \in Nat
          /\ \A i \in 1 .. Len(a) : m[i] = a[i]
          /\ \A i \in 1 .. Len(t) : m[Len(a) + i] = t[i]
      BY <2>1, JoinedElements
    <3>2. \A x : Contains(m, x) <=> Contains(a, x) \/ Contains(t, x)
      BY <2>1, JoinedContains
    <3>3. IsInjective(a) /\ IsInjective(t) /\ (\A i \in 1 .. Len(t) : ~Contains(a, t[i])) => IsInjective(m)
      BY <2>1, JoinedIsInjective
    <3>. QED
      BY <3>1, <3>2, <3>3
  <2>. QED
    BY <2>1, <2>2
<1>5. EmittedIsSaved'
  <2>1. IsInjective(m)
    BY <1>2, <1>4 DEF EventsAreSound, EmittedIsSaved
  <2>2. ASSUME NEW i \in 1 .. Len(m) PROVE Contains(saved, m[i])
    <3>1. CASE i <= Len(emitted)
      BY <1>4, <3>1 DEF EventsAreSound, EmittedIsSaved
    <3>2. CASE i > Len(emitted)
      <4>1. i - Len(emitted) \in 1 .. Len(t) /\ i = Len(emitted) + (i - Len(emitted))
        BY <1>4, <3>2
      <4>. QED
        BY <1>2, <1>4, <4>1
    <3>. QED
      BY <1>4, <3>1, <3>2
  <2>. QED
    BY <1>3, <2>1, <2>2 DEF EmittedIsSaved
<1>6. ASSUME NEW d \in Caller, d # c, doing[d] = "emitting", entity'[d] = entity[d]
      PROVE  EmissionIsNew(d)'
  <2>1. EmissionIsNew(d)
    BY <1>6 DEF EventsAreSound
  <2>2. ASSUME NEW i \in 1 .. Len(entity[d].events) PROVE ~Contains(m, entity[d].events[i])
    <3>1. ~Contains(entity[c].events, entity[d].events[i])
      BY <1>6 DEF EventsAreSound, NobodyShares
    <3>2. \A k \in 1 .. Len(t) : t[k] # entity[d].events[i]
      BY <3>1
    <3>3. ~Contains(t, entity[d].events[i])
      BY <3>2 DEF Contains
    <3>. QED
      BY <1>4, <2>1, <3>3 DEF EmissionIsNew
  <2>. QED
    BY <1>3, <1>6, <2>1, <2>2 DEF EmissionIsNew
<1>. QED
  BY <1>5, <1>6

LEMMA SavedKeepsEvents ==
  ASSUME EntityTypes, EntityTypes', EventsAreSound, NEW c \in Caller, Saved(c)
  PROVE  EventsAreSound'
<1>1. doing[c] = "emitting" /\ EmissionIsNew(c)
  BY DEF Saved, EventsAreSound
<1>2. PICK e, o : e = entity[c].events /\ o = entity'[c]
  OBVIOUS
<1>3. /\ e \in Seq(Event) /\ emitted' = emitted \o e /\ UNCHANGED <<saved, made>>
      /\ doing'[c] = "working" /\ \A d \in Caller : d # c => entity'[d] = entity[d] /\ doing'[d] = doing[d]
  BY <1>2 DEF Saved, EntityTypes
<1>4. Len(o.events) = 0 /\ IsInjective(o.events) /\ \A x : ~Contains(o.events, x)
  <2>1. o.events = <<>>
    BY <1>2 DEF Saved, Reconstitute, EntityTypes
  <2>. QED
    BY <2>1, EmptyIsInjective, EmptyHasNothing
<1>5. IsInjective(e) /\ \A i \in 1 .. Len(e) : Contains(entity[c].events, e[i])
  BY <1>1, <1>2 DEF EmissionIsNew, Contains
<1>6. /\ EmittedIsSaved'
      /\ \A d \in Caller : d # c /\ doing[d] = "emitting" /\ entity'[d] = entity[d] => EmissionIsNew(d)'
  BY <1>1, <1>3, <1>5, TellingKeeps
<1>7. made <= made' /\ SavedIsNew'
  <2>1. made <= made'
    BY <1>3 DEF EntityTypes
  <2>. QED
    BY <1>3, <2>1, SavedStaysNew DEF EventsAreSound
<1>8. WorkIsNew(c)'
  BY <1>2, <1>4 DEF WorkIsNew
<1>9. NobodyShares'
  BY <1>1, <1>2, <1>3, <1>4 DEF EventsAreSound, NobodyShares
<1>10. ASSUME NEW d \in Caller, doing'[d] = "working" PROVE WorkIsNew(d)'
  <2>1. CASE d = c
    BY <1>8, <2>1
  <2>2. CASE d # c
    BY <1>3, <1>7, <1>10, <2>2, WorkStaysNew DEF EventsAreSound
  <2>. QED
    BY <2>1, <2>2
<1>11. ASSUME NEW d \in Caller, doing'[d] = "emitting" PROVE EmissionIsNew(d)'
  BY <1>3, <1>6, <1>11
<1>. QED
  BY <1>6, <1>7, <1>9, <1>10, <1>11 DEF EventsAreSound

LEMMA SavedKeepsObjects ==
  ASSUME EntityTypes, ObjectsAreSound, NEW c \in Caller, Saved(c)
  PROVE  ObjectsAreSound'
<1>1. doing[c] = "emitting" /\ EmissionFollows(c)
  BY DEF Saved, ObjectsAreSound
<1>2. PICK s, r, e : s = entity[c].state /\ r = result[c] /\ e = Reconstitute(s, <<>>, r)
  OBVIOUS
<1>3. /\ s \in Seq(Event) /\ r \in Revision /\ UNCHANGED <<kind, present, saved, savedRev, result>>
      /\ doing' = [doing EXCEPT ![c] = "working"] /\ entity' = [entity EXCEPT ![c] = e]
  BY <1>2 DEF Saved, EntityTypes
<1>4. e.state = s /\ e.events = <<>> /\ e.revision = r
  <2>1. s \o <<>> = s /\ <<>> \in Seq(Event)
    BY <1>3, EmptyIsSeq, EmptyJoined
  <2>. QED
    BY <1>2, <1>3, <2>1, Reconstituted
<1>5. /\ Len(e.state) \in 0 .. Len(saved) /\ \A i \in 1 .. Len(e.state) : e.state[i] = saved[i]
      /\ Revises(e.revision, Len(e.state))
  BY <1>1, <1>2, <1>4 DEF EmissionFollows, Revises
<1>. QED
  BY <1>3, <1>4, <1>5, TakenFollows

LEMMA ListenerThrowsKeepsEvents ==
  ASSUME EntityTypes, EntityTypes', EventsAreSound, NEW c \in Caller, ListenerThrows(c)
  PROVE  EventsAreSound'
<1>1. doing[c] = "emitting" /\ EmissionIsNew(c)
  BY DEF ListenerThrows, EventsAreSound
<1>2. PICK e : e = entity[c].events
  OBVIOUS
<1>3. e \in Seq(Event) /\ doing' = [doing EXCEPT ![c] = "rejected"] /\ UNCHANGED <<saved, entity, made>>
  BY <1>2 DEF ListenerThrows, EntityTypes
<1>4. PICK n \in 1 .. Len(e) : emitted' = emitted \o SubSeq(e, 1, n)
  BY <1>2 DEF ListenerThrows
<1>5. PICK t : t = SubSeq(e, 1, n)
  OBVIOUS
<1>6. t \in Seq(Event) /\ Len(t) = n /\ Len(e) \in Nat /\ \A i \in 1 .. n : t[i] = e[i]
  BY <1>3, <1>4, <1>5
<1>7. IsInjective(t) /\ \A i \in 1 .. Len(t) : Contains(entity[c].events, t[i])
  <2>1. \A i \in 1 .. n : i \in 1 .. Len(e)
    BY <1>4, <1>6
  <2>2. DOMAIN t = 1 .. n /\ DOMAIN e = 1 .. Len(e)
    BY <1>3, <1>6
  <2>3. IsInjective(e)
    BY <1>1, <1>2 DEF EmissionIsNew
  <2>. QED
    BY <1>2, <1>6, <2>1, <2>2, <2>3 DEF IsInjective, Contains
<1>8. /\ EmittedIsSaved'
      /\ \A d \in Caller : d # c /\ doing[d] = "emitting" /\ entity'[d] = entity[d] => EmissionIsNew(d)'
  BY <1>1, <1>3, <1>4, <1>5, <1>6, <1>7, TellingKeeps
<1>9. made <= made' /\ SavedIsNew'
  <2>1. made <= made'
    BY <1>3 DEF EntityTypes
  <2>. QED
    BY <1>3, <2>1, SavedStaysNew DEF EventsAreSound
<1>10. doing'[c] = "rejected" /\ \A d \in Caller : d # c => doing'[d] = doing[d]
  BY <1>1, <1>3 DEF EntityTypes
<1>11. NobodyShares'
  BY <1>1, <1>3, <1>10 DEF EventsAreSound, NobodyShares
<1>12. ASSUME NEW d \in Caller, doing'[d] = "working" PROVE WorkIsNew(d)'
  BY <1>3, <1>9, <1>10, <1>12, WorkStaysNew DEF EventsAreSound
<1>13. ASSUME NEW d \in Caller, doing'[d] = "emitting" PROVE EmissionIsNew(d)'
  BY <1>3, <1>8, <1>10, <1>13
<1>. QED
  BY <1>8, <1>9, <1>11, <1>12, <1>13 DEF EventsAreSound

LEMMA ListenerThrowsKeepsObjects ==
  ASSUME EntityTypes, ObjectsAreSound, NEW c \in Caller, ListenerThrows(c)
  PROVE  ObjectsAreSound'
<1>1. UNCHANGED <<kind, present, saved, savedRev, entity, result>>
  BY DEF ListenerThrows
<1>2. doing'[c] = "rejected" /\ \A d \in Caller : d # c => doing'[d] = doing[d]
  BY DEF ListenerThrows, EntityTypes
<1>3. SavedIsNumbered'
  BY <1>1 DEF ObjectsAreSound, SavedIsNumbered, Numbered
<1>4. ASSUME NEW d \in Caller, doing'[d] = "working" PROVE WorkFollows(d)'
  BY <1>1, <1>2, <1>4, WorkStays DEF ObjectsAreSound
<1>5. ASSUME NEW d \in Caller, doing'[d] = "emitting" PROVE EmissionFollows(d)'
  BY <1>1, <1>2, <1>5, EmissionStays DEF ObjectsAreSound
<1>. QED
  BY <1>3, <1>4, <1>5 DEF ObjectsAreSound

\* Only somebody who is alone removes and does not pull it from others.
LEMMA RemoveKeeps ==
  ASSUME EntityTypes, Untouched', NEW c \in Caller, RemoveEntity(c)
  PROVE  EventsAreSound' /\ ObjectsAreSound'
<1>1. \A d \in Caller : doing'[d] = "nothing"
  BY DEF RemoveEntity, EntityTypes, Untouched
<1>2. saved' = <<>> /\ emitted' = <<>> /\ present' = FALSE
  BY DEF RemoveEntity
<1>3. PICK n : n = <<>> /\ Len(n) = 0 /\ IsInjective(n)
  BY EmptyIsInjective
<1>4. SavedIsNew'
  BY <1>2, <1>3 DEF SavedIsNew
<1>5. EmittedIsSaved'
  BY <1>2, <1>3 DEF EmittedIsSaved
<1>. QED
  BY <1>1, <1>2, <1>4, <1>5 DEF EventsAreSound, ObjectsAreSound, NobodyShares, SavedIsNumbered

\* What happened once stays in the history.
LEMMA HistoryStays ==
  ASSUME EntityTypes, EntityNext
  PROVE  (EventsAreKept' => EventsAreKept) /\ (TurnsAreTaken' => TurnsAreTaken)
<1>1. ASSUME NEW c \in Caller, SaveEntity(c) \/ RemoveEntity(c)
      PROVE  /\ kind' = kind
             /\ (overlapped => overlapped') /\ (repeated => repeated') /\ (pulled => pulled')
  <2>1. CASE SaveEntity(c)
    <3>1. /\ UNCHANGED <<kind, pulled>>
          /\ overlapped' = (overlapped \/ (entity[c].state # saved \o entity[c].events /\ doing[c] # "rejected"))
          /\ repeated' = (repeated \/ doing[c] = "rejected")
      BY <2>1 DEF SaveEntity
    <3>. QED
      BY <3>1
  <2>2. CASE RemoveEntity(c)
    BY <2>2 DEF RemoveEntity
  <2>. QED
    BY <1>1, <2>1, <2>2
<1>2. /\ kind' = kind
      /\ (overlapped => overlapped') /\ (repeated => repeated') /\ (pulled => pulled')
  BY <1>1 DEF EntityNext, Create, LoadEntity, Execute, Saved, ListenerThrows
<1>. QED
  BY <1>2 DEF EventsAreKept, TurnsAreTaken, Untouched

LEMMA EntityNextKeeps ==
  ASSUME EntityInv, [EntityNext]_entityVars
  PROVE  EntityInv'
<1>1. ASSUME EntityNext PROVE EntityInv'
  <2>1. EntityTypes /\ EntityTypes'
    BY <1>1, EntityTypesKept DEF EntityInv
  <2>2. ASSUME EventsAreKept' PROVE EventsAreSound'
    <3>1. EventsAreSound /\ Untouched'
      BY <1>1, <2>1, <2>2, HistoryStays DEF EntityInv, EventsAreKept
    <3>. QED
      BY <1>1, <2>1, <2>2, <3>1, CreateKeeps, LoadKeeps, ExecuteKeepsEvents, SaveKeepsEvents,
         SavedKeepsEvents, ListenerThrowsKeepsEvents, RemoveKeeps DEF EntityNext
  <2>3. ASSUME TurnsAreTaken' PROVE ObjectsAreSound'
    <3>1. ObjectsAreSound /\ Untouched'
      BY <1>1, <2>1, <2>3, HistoryStays DEF EntityInv, TurnsAreTaken
    <3>. QED
      BY <1>1, <2>1, <2>3, <3>1, CreateKeeps, LoadKeeps, ExecuteKeepsObjects, SaveKeepsObjects,
         SavedKeepsObjects, ListenerThrowsKeepsObjects, RemoveKeeps DEF EntityNext
  <2>. QED
    BY <2>1, <2>2, <2>3 DEF EntityInv
<1>2. ASSUME UNCHANGED entityVars PROVE EntityInv'
  <2>1. /\ EntityTypes' = EntityTypes /\ SavedIsNew' = SavedIsNew /\ NobodyShares' = NobodyShares
        /\ EmittedIsSaved' = EmittedIsSaved /\ SavedIsNumbered' = SavedIsNumbered
        /\ EventsAreKept' = EventsAreKept /\ TurnsAreTaken' = TurnsAreTaken
    BY <1>2 DEF entityVars, EntityTypes, SavedIsNew, NobodyShares, EmittedIsSaved, SavedIsNumbered, Numbered,
                EventsAreKept, TurnsAreTaken, Untouched
  <2>2. \A c \in Caller : (WorkIsNew(c) => WorkIsNew(c)') /\ (EmissionIsNew(c) => EmissionIsNew(c)')
    BY <1>2 DEF entityVars, WorkIsNew, EmissionIsNew
  <2>3. \A c \in Caller : (WorkFollows(c) => WorkFollows(c)') /\ (EmissionFollows(c) => EmissionFollows(c)')
    BY <1>2 DEF entityVars, WorkFollows, EmissionFollows, Known, Revises, Numbered
  <2>4. doing' = doing
    BY <1>2 DEF entityVars
  <2>. QED
    BY <2>1, <2>2, <2>3, <2>4 DEF EntityInv, EventsAreSound, ObjectsAreSound
<1>. QED
  BY <1>1, <1>2

\* Unless a rejected save is saved again or the entity is removed while others have it,
\* every event is stored once and told listeners once at most and what they were told
\* is stored: for streams also where saves overlap, for states where callers take
\* turns (a state is overwritten).  Where callers take turns, an object is, besides
\* its own events, the beginning of what is stored, as long as its revision says
\* (saveEntity, loadEntity, memoryState, memoryStream).
THEOREM EntitiesFollowTheStore == Spec => []EntityFollowsStore
<1>1. Init => EntityInv
  BY EntityStarts DEF Init
<1>2. EntityInv /\ [Next]_vars => EntityInv'
  <2>1. [Next]_vars => [EntityNext]_entityVars
    BY DEF Next, vars, OfHttp, OfDialog, OfEntity, OfRender
  <2>. QED
    BY <2>1, EntityNextKeeps
<1>3. ASSUME EntityInv PROVE EntityFollowsStore
  <2>1. EntityTypeOK
    <3>1. saved \in Seq(Event) /\ emitted \in Seq(Event)
      BY <1>3 DEF EntityInv, EntityTypes
    <3>2. ToSet(saved) \cup ToSet(emitted) \subseteq 1 .. MaxEvents
      <4>1. ASSUME NEW s \in Seq(Event) PROVE ToSet(s) \subseteq 1 .. MaxEvents
        <5>1. DOMAIN s = 1 .. Len(s)
          OBVIOUS
        <5>. QED
          BY <5>1, EventsAreNumbers DEF ToSet, Event
      <4>. QED
        BY <3>1, <4>1
    <3>. QED
      BY <1>3, <3>2 DEF EntityInv, EntityTypes, EntityTypeOK, Revision
  <2>2. ToldIsStored
    <3>1. emitted \in Seq(Event) /\ saved \in Seq(Event)
      BY <1>3 DEF EntityInv, EntityTypes
    <3>2. EventsAreKept => SavedIsNew /\ EmittedIsSaved
      BY <1>3 DEF EntityInv, EventsAreSound
    <3>3. EventsAreKept => ToSet(emitted) \subseteq ToSet(saved)
      BY <3>1, <3>2 DEF EmittedIsSaved, Contains, ToSet
    <3>. QED
      BY <3>2, <3>3 DEF ToldIsStored, SavedIsNew, EmittedIsSaved
  <2>3. ASSUME TurnsAreTaken, NEW c \in Caller, doing[c] = "working",
               NEW own, own = Len(entity[c].events),
               NEW seen, seen = SubSeq(entity[c].state, 1, Len(entity[c].state) - own)
        PROVE  /\ IsPrefix(seen, saved)
               /\ entity[c].revision \in IF kind = "state" THEN {Len(seen) - 1}
                                         ELSE IF seen = <<>> THEN {-1, 0} ELSE {Len(seen)}
    <3>1. WorkFollows(c) /\ EntityTypes
      BY <1>3, <2>3 DEF EntityInv, ObjectsAreSound
    <3>2. PICK s, n : s = entity[c].state /\ n = Known(c)
      OBVIOUS
    <3>3. /\ s \in Seq(Event) /\ saved \in Seq(Event) /\ n \in 0 .. Len(saved) /\ n = Len(s) - own
          /\ own \in Nat /\ Len(s) \in Nat /\ Len(saved) \in Nat /\ n <= Len(s) /\ seen = SubSeq(s, 1, n)
          /\ \A i \in 1 .. n : s[i] = saved[i]
      <4>1. entity[c].events \in Seq(Event)
        BY <3>1 DEF EntityTypes
      <4>2. own \in Nat
        BY <2>3, <4>1
      <4>3. s \in Seq(Event) /\ saved \in Seq(Event) /\ n \in 0 .. Len(saved) /\ n = Len(s) - own
            /\ \A i \in 1 .. n : s[i] = saved[i]
        BY <2>3, <3>1, <3>2 DEF EntityTypes, WorkFollows, Known
      <4>4. Len(s) \in Nat /\ Len(saved) \in Nat
        BY <4>3
      <4>5. n <= Len(s)
        BY <4>2, <4>3, <4>4
      <4>6. seen = SubSeq(s, 1, Len(s) - own)
        BY <2>3, <3>2
      <4>. QED
        BY <4>2, <4>3, <4>4, <4>5, <4>6
    <3>4. seen \in Seq(Event) /\ Len(seen) = n /\ \A i \in 1 .. n : seen[i] = s[i]
      BY <3>3
    <3>5. IsPrefix(seen, saved)
      BY <3>3, <3>4 DEF IsPrefix
    <3>6. kind \in {"state", "stream"} /\ Revises(entity[c].revision, n)
      BY <3>1, <3>2 DEF WorkFollows, EntityTypes
    <3>7. seen = <<>> <=> n = 0
      BY <3>4
    <3>. QED
      BY <3>4, <3>5, <3>6, <3>7 DEF Revises, Numbered
  <2>. QED
    BY <2>1, <2>2, <2>3 DEF EntityFollowsStore, ObjectsFollow
<1>. QED
  BY <1>1, <1>2, <1>3, PTL DEF Spec

=============================================================================
