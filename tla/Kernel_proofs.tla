----------------------------- MODULE Kernel_proofs -----------------------------
(***************************************************************************)
(* Machine-checked proofs about the life cycle of a service, its message   *)
(* bus and a request on its way, for any number of plugins, signals,       *)
(* requests, handlers, publications and events, and any errors.            *)
(***************************************************************************)
EXTENDS MC_Kernel, FiniteSetTheorems, TLAPS

-----------------------------------------------------------------------------
(* The life cycle *)

Running == [pc : {"hooks", "dispose", "asyncDispose", "close", "closing", "done", "rejected"}, i : Nat]

LifeTypes ==
  /\ boot \in {"buildContainer", "asyncInit", "loadPlugins", "hooks", "listen", "serving", "failed"}
  /\ shutdown \in [Signal -> {Idle} \cup Running]
  /\ server \in {"none", "binding", "listening", "closing", "closed"}
  /\ request \in [Request -> {"new", "open", "answered", "failed", "cut"}]
  /\ late \subseteq Signal /\ faults \in 0 .. MaxFaults

\* The server is there when boot has come so far, listens to nobody's requests before,
\* and is closed by a shutdown; after a request was cut nothing happens any more.
CloseInv ==
  /\ LifeTypes
  /\ server \in {"none", "binding"} => late = {} /\ \A r \in Request : request[r] = "new"
  /\ server \in {"listening", "closing", "closed"} => boot = "serving"
  /\ boot \notin {"listen", "serving", "failed"} => server = "none"
  /\ server \in {"closing", "closed"} => \E s \in Signal : shutdown[s].pc \in {"closing", "done"}
  /\ (\E s \in Signal : shutdown[s].pc = "closing") => server \in {"closing", "closed"}
  /\ RequestsAreAnswered
  /\ (\E r \in Request : request[r] = "cut") => exited

\* One shutdown goes on, the others stay where they are.
LEMMA ShutdownGoesOn ==
  ASSUME LifeTypes, NEW s \in Signal, shutdown[s].pc # "none", NEW pc, NEW i \in Nat, To(s, pc, i),
         pc \in {"hooks", "dispose", "asyncDispose", "close", "closing", "done", "rejected"}
  PROVE  /\ shutdown' \in [Signal -> {Idle} \cup Running]
         /\ \A t \in Signal : shutdown'[t] = IF t = s THEN [pc |-> pc, i |-> i] ELSE shutdown[t]
         /\ shutdown'[s].pc = pc
         /\ Signals' = Signals /\ s \in Signals
<1>1. shutdown \in [Signal -> {Idle} \cup Running]
  BY DEF LifeTypes
<1>0. PICK r : r = [pc |-> pc, i |-> i]
  OBVIOUS
<1>2. r = [pc |-> pc, i |-> i] /\ r \in Running /\ r.pc = pc /\ r # Idle
  <2>1. r \in Running /\ r.pc = pc
    BY <1>0 DEF Running
  <2>2. Idle.pc = "none" /\ pc # "none"
    BY DEF Idle
  <2>. QED
    BY <1>0, <2>1, <2>2
<1>3. shutdown' = [shutdown EXCEPT ![s] = r]
  BY <1>2 DEF To
<1>4. shutdown' \in [Signal -> {Idle} \cup Running] /\ \A t \in Signal : shutdown'[t] = IF t = s THEN r ELSE shutdown[t]
  BY <1>1, <1>2, <1>3
<1>5. shutdown[s] # Idle
  BY DEF Idle
<1>6. Signals' = Signals /\ s \in Signals
  BY <1>2, <1>4, <1>5 DEF Signals
<1>. QED
  BY <1>2, <1>4, <1>6

\* Whoever is connected when the process ends is cut off.
LEMMA ExitCuts ==
  ASSUME LifeTypes, Exit
  PROVE  /\ request' \in [Request -> {"new", "open", "answered", "failed", "cut"}]
         /\ exited' = TRUE
         /\ \A r \in Request : request[r] \notin {"open", "cut"} => request'[r] = request[r]
BY DEF LifeTypes, Exit

LEMMA NobodyCutYet ==
  ASSUME CloseInv, ~exited
  PROVE  \A r \in Request : request[r] # "cut"
BY DEF CloseInv

\* A step at which nobody is cut off.
LEMMA NobodyCut ==
  ASSUME CloseInv, ~exited, request' = request
  PROVE  RequestsAreAnswered' /\ ~(\E r \in Request : request[r] = "cut")'
BY NobodyCutYet DEF RequestsAreAnswered

LEMMA BootingCloses ==
  ASSUME CloseInv, Booting
  PROVE  CloseInv'
<1>. USE DEF CloseInv, LifeTypes, others, booting, history, BootLink
<1>1. CASE BuildContainer
  BY <1>1, NobodyCut DEF BuildContainer, Signals
<1>2. CASE AsyncInit
  BY <1>2, NobodyCut DEF AsyncInit
<1>3. CASE LoadPlugin
  BY <1>3, NobodyCut DEF LoadPlugin
<1>4. CASE BootHook
  BY <1>4, NobodyCut DEF BootHook
<1>5. CASE Booted
  BY <1>5, NobodyCut DEF Booted
<1>6. CASE Listen
  BY <1>6, NobodyCut DEF Listen
<1>7. CASE Listening
  BY <1>7, NobodyCut DEF Listening
<1>8. CASE Register
  <2>1. /\ server = "none" /\ server' = "none" /\ late' = late /\ late = {} /\ faults' = faults
        /\ shutdown' = shutdown /\ ~exited /\ boot = "loadPlugins"
    BY <1>8 DEF Register
  <2>2. boot' \in {"hooks", "failed"}
    BY <1>8 DEF Register
  <2>3. request' \in [Request -> {"new", "open", "answered", "failed", "cut"}] /\ \A r \in Request : request'[r] = "new"
    <3>1. CASE request' = request
      BY <2>1, <3>1
    <3>2. CASE Exit
      BY <2>1, <3>2, ExitCuts
    <3>. QED
      BY <1>8, <3>1, <3>2 DEF Register
  <2>. QED
    BY <2>1, <2>2, <2>3 DEF RequestsAreAnswered
<1>. QED
  BY <1>1, <1>2, <1>3, <1>4, <1>5, <1>6, <1>7, <1>8 DEF Booting

LEMMA FaultsClose ==
  ASSUME CloseInv, BootFails \/ \E s \in Signal : ShutdownFails(s)
  PROVE  CloseInv'
<1>. USE DEF CloseInv, others, booting, history
<1>1. /\ request' \in [Request -> {"new", "open", "answered", "failed", "cut"}] /\ exited' = TRUE
      /\ \A r \in Request : request[r] = "new" => request'[r] = "new"
  BY ExitCuts DEF BootFails, ShutdownFails
<1>2. faults \in Nat /\ faults' \in 0 .. MaxFaults /\ faults' # 0
  BY LifeAssumption DEF BootFails, ShutdownFails, Fault, LifeTypes
<1>3. RequestsAreAnswered'
  BY <1>2 DEF RequestsAreAnswered
<1>4. CASE BootFails
  <2>1. /\ boot' = "failed" /\ boot \in {"buildContainer", "asyncInit", "listen", "loadPlugins", "hooks"}
        /\ UNCHANGED <<shutdown, server, late>>
    BY <1>4 DEF BootFails
  <2>. QED
    BY <1>1, <1>2, <1>3, <2>1 DEF LifeTypes
<1>5. ASSUME NEW s \in Signal, ShutdownFails(s) PROVE CloseInv'
  <2>1. To(s, "rejected", 1) /\ shutdown[s].pc \in {"hooks", "dispose", "asyncDispose"}
        /\ UNCHANGED <<server, late, boot>>
    BY <1>5 DEF ShutdownFails
  <2>2. /\ shutdown' \in [Signal -> {Idle} \cup Running]
        /\ \A t \in Signal : t # s => shutdown'[t] = shutdown[t]
        /\ shutdown'[s].pc = "rejected"
    BY <2>1, ShutdownGoesOn
  <2>3. /\ (\E t \in Signal : shutdown[t].pc \in {"closing", "done"}) =>
             (\E t \in Signal : shutdown'[t].pc \in {"closing", "done"})
        /\ (\E t \in Signal : shutdown'[t].pc = "closing") => (\E t \in Signal : shutdown[t].pc = "closing")
    BY <2>1, <2>2
  <2>. QED
    BY <1>1, <1>2, <1>3, <2>1, <2>2, <2>3 DEF LifeTypes
<1>. QED
  BY <1>4, <1>5

\* A step of a shutdown.
LEMMA StoppingSignals ==
  ASSUME LifeTypes, NEW s \in Signal, Stopping(s)
  PROVE  Signals' = Signals /\ s \in Signals
<1>1. shutdown[s].i \in Nat
  BY DEF LifeTypes, Running, Idle
<1>2. PICK pc, i : /\ To(s, pc, i) /\ i \in Nat /\ shutdown[s].pc # "none"
                   /\ pc \in {"hooks", "dispose", "asyncDispose", "close", "closing", "done", "rejected"}
  <2>2. CASE ShutdownHook(s)
    BY <1>1, <2>2 DEF ShutdownHook, Advance
  <2>3. CASE DisposePlugin(s)
    BY <1>1, <2>3 DEF DisposePlugin, Advance
  <2>4. CASE DisposeEnds(s)
    BY <2>4 DEF DisposeEnds, AfterPlugins
  <2>5. CASE AsyncDispose(s)
    BY <2>5 DEF AsyncDispose
  <2>6. CASE Close(s)
    BY <2>6 DEF Close
  <2>7. CASE Closed(s)
    BY <2>7 DEF Closed
  <2>. QED
    BY <2>2, <2>3, <2>4, <2>5, <2>6, <2>7 DEF Stopping
<1>. QED
  BY <1>2, ShutdownGoesOn

LEMMA StoppingCloses ==
  ASSUME CloseInv, NEW s \in Signal, Stopping(s)
  PROVE  CloseInv'
<1>. USE DEF CloseInv, others, booting, history
<1>1. ~exited /\ UNCHANGED <<boot, late, faults>>
  BY DEF Stopping, ShutdownHook, DisposePlugin, DisposeEnds, AsyncDispose, Close, Closed
<1>2. shutdown[s].pc \in {"hooks", "dispose", "asyncDispose", "close", "closing"}
  BY DEF Stopping, ShutdownHook, DisposePlugin, DisposeEnds, AsyncDispose, Close, Closed
<1>3. PICK pc, i : To(s, pc, i) /\ i \in Nat
                   /\ pc \in {"hooks", "dispose", "asyncDispose", "close", "closing", "done", "rejected"}
                   /\ (shutdown[s].pc = "closing" => pc = "done")
                   /\ (server' # server => pc \in {"closing", "done"})
                   /\ (pc = "closing" => server' = "closing")
  <2>1. shutdown[s].i \in Nat
    BY DEF LifeTypes, Running, Idle
  <2>2. CASE ShutdownHook(s)
    BY <2>1, <2>2 DEF ShutdownHook, Advance
  <2>3. CASE DisposePlugin(s)
    BY <2>1, <2>3 DEF DisposePlugin, Advance
  <2>4. CASE DisposeEnds(s)
    BY <2>4 DEF DisposeEnds, AfterPlugins
  <2>5. CASE AsyncDispose(s)
    BY <2>5 DEF AsyncDispose
  <2>6. CASE Close(s)
    BY <2>6 DEF Close
  <2>7. CASE Closed(s)
    BY <2>7 DEF Closed
  <2>. QED
    BY <2>2, <2>3, <2>4, <2>5, <2>6, <2>7 DEF Stopping
<1>4. /\ shutdown' \in [Signal -> {Idle} \cup Running]
      /\ \A t \in Signal : t # s => shutdown'[t] = shutdown[t]
      /\ shutdown'[s].pc = pc /\ Signals' = Signals /\ s \in Signals
  BY <1>2, <1>3, ShutdownGoesOn
<1>9. (\E t \in Signal : shutdown'[t].pc = "closing") => server' \in {"closing", "closed"}
  <2>1. ASSUME NEW t \in Signal, t # s, shutdown'[t].pc = "closing" PROVE server' \in {"closing", "closed"}
    <3>1. server \in {"closing", "closed"}
      BY <1>4, <2>1
    <3>2. server' = server \/ server' = "closing" \/ server' = "closed"
      BY DEF Stopping, ShutdownHook, DisposePlugin, DisposeEnds, AsyncDispose, Close, Closed
    <3>. QED
      BY <3>1, <3>2
  <2>. QED
    BY <1>3, <1>4, <2>1
<1>5. (\E t \in Signal : shutdown[t].pc \in {"closing", "done"}) =>
        (\E t \in Signal : shutdown'[t].pc \in {"closing", "done"})
  <2>1. ASSUME NEW t \in Signal, shutdown[t].pc \in {"closing", "done"} PROVE shutdown'[t].pc \in {"closing", "done"}
    BY <1>2, <1>3, <1>4, <2>1
  <2>. QED
    BY <2>1
<1>6. CASE request' = request
  <2>1. server' = server \/ (server = "listening" /\ server' = "closing") \/ server' = "closed"
    BY DEF Stopping, ShutdownHook, DisposePlugin, DisposeEnds, AsyncDispose, Close, Closed, Accepts
  <2>2. server' # server => server \notin {"none", "binding"}
    <3>1. ASSUME Closed(s) PROVE server \notin {"none", "binding"}
      BY <3>1 DEF Closed
    <3>. QED
      BY <3>1 DEF Stopping, ShutdownHook, DisposePlugin, DisposeEnds, AsyncDispose, Close, Accepts
  <2>3. server' # server => server' \in {"closing", "closed"} /\ (\E t \in Signal : shutdown'[t].pc \in {"closing", "done"})
    BY <1>3, <1>4, <2>1
  <2>. QED
    BY <1>1, <1>4, <1>5, <1>6, <1>9, <2>1, <2>2, <2>3, NobodyCut DEF LifeTypes
<1>7. CASE Close(s) /\ request' # request
  <2>1. /\ server \in {"binding", "closing", "closed"} /\ server' = server /\ Exit
        /\ shutdown[s].pc = "close"
    BY <1>7 DEF Close, Accepts, LifeTypes
  <2>2. /\ request' \in [Request -> {"new", "open", "answered", "failed", "cut"}] /\ exited' = TRUE
        /\ \A r \in Request : request[r] = "new" => request'[r] = "new"
    BY <2>1, ExitCuts
  <2>3. ASSUME Cardinality(Signals) <= 1, Signals \subseteq late PROVE FALSE
    <3>1. s \in late
      BY <1>4, <2>3
    <3>2. PICK t \in Signal : shutdown[t].pc \in {"closing", "done"}
      BY <2>1, <3>1
    <3>3. t # s /\ t \in Signals
      BY <2>1, <3>2 DEF Signals, Idle
    <3>4. IsFiniteSet(Signals)
      BY FS_Subset, LifeAssumption DEF Signals
    <3>5. {s, t} \subseteq Signals /\ IsFiniteSet({s, t}) /\ Cardinality({s, t}) = 2
      <4>1. IsFiniteSet({s}) /\ Cardinality({s}) = 1 /\ t \notin {s}
        BY <3>3, FS_Singleton
      <4>2. IsFiniteSet({s} \cup {t}) /\ Cardinality({s} \cup {t}) = 2
        BY <4>1, FS_AddElement
      <4>3. {s} \cup {t} = {s, t}
        OBVIOUS
      <4>. QED
        BY <1>4, <3>3, <4>2, <4>3
    <3>6. Cardinality({s, t}) <= Cardinality(Signals) /\ Cardinality(Signals) \in Nat
      BY <3>4, <3>5, FS_Subset, FS_CardinalityType
    <3>. QED
      BY <2>3, <3>5, <3>6
  <2>4. RequestsAreAnswered'
    BY <1>1, <1>4, <2>3 DEF RequestsAreAnswered
  <2>. QED
    BY <1>1, <1>4, <1>5, <1>9, <2>1, <2>2, <2>4 DEF LifeTypes
<1>8. request' = request \/ Close(s)
  BY DEF Stopping, ShutdownHook, DisposePlugin, DisposeEnds, AsyncDispose, Close, Closed
<1>. QED
  BY <1>6, <1>7, <1>8

\* A signal that was not given before.
LEMMA SignalStarts ==
  ASSUME LifeTypes, NEW s \in Signal, Shutdown(s)
  PROVE  /\ shutdown' \in [Signal -> {Idle} \cup Running]
         /\ shutdown'[s].pc \in {"hooks", "asyncDispose"} /\ shutdown[s] = Idle
         /\ \A t \in Signal : t # s => shutdown'[t] = shutdown[t]
         /\ Signals' = Signals \cup {s} /\ s \notin Signals
<1>1. PICK pc : pc = IF managed THEN "hooks" ELSE "asyncDispose"
  OBVIOUS
<1>2. /\ shutdown \in [Signal -> {Idle} \cup Running] /\ shutdown[s] = Idle
      /\ shutdown' = [shutdown EXCEPT ![s].pc = pc]
  BY <1>1 DEF LifeTypes, Shutdown, AfterPlugins
<1>3. PICK r : r = [pc |-> pc, i |-> 1]
  OBVIOUS
<1>4. shutdown' = [shutdown EXCEPT ![s] = r]
  <2>1. [shutdown[s] EXCEPT !.pc = pc] = r
    BY <1>2, <1>3 DEF Idle
  <2>2. shutdown' = [shutdown EXCEPT ![s] = [shutdown[s] EXCEPT !.pc = pc]]
    BY <1>2
  <2>. QED
    BY <2>1, <2>2
<1>5. r \in Running /\ r.pc \in {"hooks", "asyncDispose"} /\ r # Idle
  <2>1. r \in Running /\ r.pc \in {"hooks", "asyncDispose"}
    BY <1>1, <1>3 DEF Running
  <2>2. Idle.pc = "none"
    BY DEF Idle
  <2>. QED
    BY <2>1, <2>2
<1>6. shutdown' \in [Signal -> {Idle} \cup Running] /\ \A t \in Signal : shutdown'[t] = IF t = s THEN r ELSE shutdown[t]
  BY <1>2, <1>4, <1>5
<1>. QED
  BY <1>2, <1>5, <1>6 DEF Signals

LEMMA SignalsClose ==
  ASSUME CloseInv, NEW s \in Signal, Shutdown(s)
  PROVE  CloseInv'
<1>. USE DEF CloseInv, booting
<1>1. /\ shutdown' \in [Signal -> {Idle} \cup Running]
      /\ shutdown'[s].pc \in {"hooks", "asyncDispose"} /\ shutdown[s] = Idle
      /\ \A t \in Signal : t # s => shutdown'[t] = shutdown[t]
  BY SignalStarts
<1>2. /\ ~exited /\ UNCHANGED <<boot, server, request, faults>>
      /\ late' = IF server = "listening" THEN late \cup {s} ELSE late
  BY DEF Shutdown
<1>3. /\ (\E t \in Signal : shutdown[t].pc \in {"closing", "done"}) =>
           (\E t \in Signal : shutdown'[t].pc \in {"closing", "done"})
      /\ (\E t \in Signal : shutdown'[t].pc = "closing") => (\E t \in Signal : shutdown[t].pc = "closing")
  <2>1. shutdown[s].pc = "none"
    BY <1>1 DEF Idle
  <2>. QED
    BY <1>1, <2>1
<1>. QED
  BY <1>1, <1>2, <1>3, NobodyCut DEF LifeTypes

LEMMA RequestsClose ==
  ASSUME CloseInv, NEW r \in Request, Arrive(r) \/ Respond(r)
  PROVE  CloseInv'
<1>. USE DEF CloseInv, booting, others, history
<1>1. PICK x \in {"open", "answered", "failed"} : request' = [request EXCEPT ![r] = x]
  BY DEF Arrive, Respond
<1>2. /\ ~exited /\ UNCHANGED <<boot, shutdown, server, late, faults>>
  BY DEF Arrive, Respond
<1>3. server \notin {"none", "binding"}
  BY DEF Arrive, Respond
<1>4. /\ request' \in [Request -> {"new", "open", "answered", "failed", "cut"}]
      /\ \A q \in Request : request'[q] = IF q = r THEN x ELSE request[q]
  BY <1>1 DEF LifeTypes
<1>5. \A q \in Request : request'[q] # "cut"
  BY <1>2, <1>4, NobodyCutYet
<1>. QED
  BY <1>2, <1>3, <1>4, <1>5 DEF LifeTypes, RequestsAreAnswered

LEMMA LifeCloses == CloseInv /\ [LifeNext]_lifeVars => CloseInv'
<1>. SUFFICES ASSUME CloseInv, [LifeNext]_lifeVars PROVE CloseInv'
  OBVIOUS
<1>1. CASE Booting
  BY <1>1, BootingCloses
<1>2. CASE BootFails \/ \E s \in Signal : ShutdownFails(s)
  BY <1>2, FaultsClose
<1>3. ASSUME NEW s \in Signal, Stopping(s) PROVE CloseInv'
  BY <1>3, StoppingCloses
<1>4. ASSUME NEW s \in Signal, Shutdown(s) PROVE CloseInv'
  BY <1>4, SignalsClose
<1>5. ASSUME NEW r \in Request, Arrive(r) \/ Respond(r) PROVE CloseInv'
  BY <1>5, RequestsClose
<1>6. CASE UNCHANGED lifeVars
  BY <1>6 DEF lifeVars, CloseInv, LifeTypes, RequestsAreAnswered, Signals
<1>. QED
  BY <1>1, <1>2, <1>3, <1>4, <1>5, <1>6 DEF LifeNext

LEMMA LifeStartsClosed == LifeInit => CloseInv
<1>. SUFFICES ASSUME LifeInit PROVE CloseInv
  OBVIOUS
<1>1. LifeTypes
  BY LifeAssumption DEF LifeInit, LifeTypes
<1>2. \A s \in Signal : shutdown[s].pc = "none"
  BY DEF LifeInit, Idle
<1>3. RequestsAreAnswered
  BY DEF LifeInit, RequestsAreAnswered
<1>. QED
  BY <1>1, <1>2, <1>3 DEF LifeInit, CloseInv

-----------------------------------------------------------------------------
(* The boot hooks *)

Definition == [name : STRING, dependsOn : Seq(STRING)]

\* Names in an order in which the plugins of a list may be called.
HookOrder(names, list) ==
  /\ ToSet(names) = Names(list)
  /\ \A i, j \in DOMAIN names : i < j =>
       /\ names[i] # names[j]
       /\ \A k \in DOMAIN list :
            list[k].name = names[j] /\ UniqueNames(list) => ~Contains(list[k].dependsOn, names[i])

LEMMA IntervalCount ==
  ASSUME NEW n \in Nat
  PROVE  IsFiniteSet(1 .. n) /\ Cardinality(1 .. n) = n
<1>1. 1 \in Int /\ n \in Int /\ (1 > n => n = 0) /\ (n - 1) + 1 = n
  OBVIOUS
<1>. QED
  BY <1>1, FS_Interval

\* In a list without two plugins of one name the name tells the plugin.
LEMMA NamesTell ==
  ASSUME NEW list \in Seq(Definition), UniqueNames(list), NEW k \in DOMAIN list, NEW m \in DOMAIN list,
         list[k].name = list[m].name
  PROVE  k = m
<1>1. PICK n \in Nat : n = Len(list) /\ DOMAIN list = 1 .. n
  OBVIOUS
<1>2. PICK f : f = [i \in 1 .. n |-> list[i].name]
  OBVIOUS
<1>3. f \in Surjection(1 .. n, Names(list))
  <2>1. Names(list) = {list[i].name : i \in 1 .. n}
    BY <1>1 DEF Names
  <2>2. f \in [1 .. n -> Names(list)]
    BY <1>2, <2>1
  <2>3. \A t \in Names(list) : \E i \in 1 .. n : f[i] = t
    BY <1>2, <2>1
  <2>. QED
    BY <2>2, <2>3 DEF Surjection
<1>4. IsFiniteSet(1 .. n) /\ Cardinality(1 .. n) = n
  BY <1>1, IntervalCount
<1>5. Cardinality(1 .. n) = Cardinality(Names(list))
  BY <1>1, <1>4 DEF UniqueNames
<1>6. f \in Injection(1 .. n, Names(list))
  BY <1>3, <1>4, <1>5, FS_SurjSameCardinalityImpliesInj
<1>7. k \in 1 .. n /\ m \in 1 .. n /\ f[k] = f[m]
  BY <1>1, <1>2
<1>. QED
  BY <1>2, <1>6, <1>7 DEF Injection, IsInjective

LEMMA SortGivesNames ==
  ASSUME NEW list \in Seq(Definition), SortIsRight(list), Sort(list).error = "none",
         NEW order, order = Sort(list).order, NEW names, names = [i \in DOMAIN order |-> order[i].name]
  PROVE  /\ names \in Seq(STRING) /\ HookOrder(names, list)
         /\ Len(names) <= Len(list)
<1>1. DependentsFirst(order, list)
  BY DEF SortIsRight
<1>2. ToSet(list) \subseteq Definition
  BY DEF ToSet
<1>3. order \in Seq(Definition) /\ \A i \in DOMAIN order : order[i] \in ToSet(list)
  BY <1>1, <1>2 DEF DependentsFirst
<1>4. PICK n \in Nat : n = Len(order) /\ DOMAIN order = 1 .. n
  BY <1>3
<1>5. /\ names = [i \in 1 .. n |-> order[i].name] /\ \A i \in 1 .. n : order[i] \in Definition
      /\ DOMAIN names = 1 .. n
  BY <1>3, <1>4
<1>6. names \in Seq(STRING) /\ Len(names) = n
  <2>1. \A i \in 1 .. n : order[i].name \in STRING
    BY <1>5 DEF Definition
  <2>2. names \in [1 .. n -> STRING]
    BY <1>5, <2>1
  <2>. QED
    BY <2>2
<1>7. ToSet(names) = Names(list)
  <2>1. ToSet(names) = {names[i] : i \in 1 .. n}
    BY <1>5 DEF ToSet
  <2>2. Names(order) = {order[i].name : i \in 1 .. n}
    BY <1>4 DEF Names
  <2>3. \A i \in 1 .. n : names[i] = order[i].name
    BY <1>5
  <2>4. {names[i] : i \in 1 .. n} = {order[i].name : i \in 1 .. n}
    BY <2>3
  <2>5. Names(order) = Names(list)
    BY <1>1 DEF DependentsFirst
  <2>. QED
    BY <2>1, <2>2, <2>4, <2>5
<1>8. \A i, j \in 1 .. n : i < j =>
        order[i].name # order[j].name /\ ~Contains(order[j].dependsOn, order[i].name)
  BY <1>1, <1>4 DEF DependentsFirst
<1>9. ASSUME NEW i \in 1 .. n, NEW j \in 1 .. n, i < j
      PROVE  /\ names[i] # names[j]
             /\ \A k \in DOMAIN list :
                  list[k].name = names[j] /\ UniqueNames(list) => ~Contains(list[k].dependsOn, names[i])
  <2>1. names[i] # names[j]
    BY <1>5, <1>8, <1>9
  <2>2. ASSUME NEW k \in DOMAIN list, list[k].name = names[j], UniqueNames(list)
        PROVE  ~Contains(list[k].dependsOn, names[i])
    <3>1. PICK m \in DOMAIN list : order[j] = list[m]
      BY <1>3, <1>4 DEF ToSet
    <3>2. list[m].name = list[k].name
      BY <1>5, <2>2, <3>1
    <3>3. m = k
      BY <2>2, <3>2, NamesTell
    <3>. QED
      BY <1>5, <1>8, <1>9, <3>1, <3>3
  <2>. QED
    BY <2>1, <2>2
<1>10. HookOrder(names, list)
  BY <1>5, <1>7, <1>9 DEF HookOrder
<1>11. n <= Len(list)
  <2>1. PICK l \in Nat : l = Len(list) /\ DOMAIN list = 1 .. l
    OBVIOUS
  <2>2. \A i \in 1 .. n : \E m \in 1 .. l : order[i] = list[m]
    BY <1>3, <1>4, <2>1 DEF ToSet
  <2>3. PICK f : f = [i \in 1 .. n |-> CHOOSE m \in 1 .. l : order[i] = list[m]]
    OBVIOUS
  <2>4. \A i \in 1 .. n : f[i] \in 1 .. l /\ order[i] = list[f[i]]
    BY <2>2, <2>3
  <2>5. ASSUME NEW i \in 1 .. n, NEW j \in 1 .. n, f[i] = f[j] PROVE i = j
    <3>1. order[i] = order[j]
      BY <2>4, <2>5
    <3>2. ~(i < j) /\ ~(j < i)
      BY <1>8, <3>1
    <3>. QED
      BY <3>2
  <2>6. f \in Injection(1 .. n, 1 .. l)
    <3>1. f \in [1 .. n -> 1 .. l] /\ DOMAIN f = 1 .. n
      BY <2>3, <2>4
    <3>. QED
      BY <2>5, <3>1 DEF Injection, IsInjective
  <2>7. /\ IsFiniteSet(1 .. l) /\ Cardinality(1 .. l) = l /\ Cardinality(1 .. n) = n
    BY IntervalCount
  <2>8. Cardinality(1 .. n) <= Cardinality(1 .. l)
    BY <2>6, <2>7, FS_Injection
  <2>. QED
    BY <2>1, <2>7, <2>8
<1>. QED
  BY <1>6, <1>10, <1>11

Calm == Signals \subseteq late

PluginTypes ==
  /\ enabled \in Seq(Definition) /\ SortIsRight(enabled)
  /\ plugins \in Seq(STRING) /\ ToSet(plugins) \subseteq Names(enabled) /\ Len(plugins) <= Len(enabled)
  /\ hooked \in Seq(STRING) /\ next \in Nat \ {0} /\ initialized \in 0 .. Len(enabled)

\* As long as no signal came too early, the hooks that were called are the beginning of
\* the map of plugins, and all of them behind the loop.
HooksInv ==
  /\ PluginTypes
  /\ boot \in {"buildContainer", "asyncInit", "loadPlugins"} => hooked = <<>> /\ next = initialized + 1
  /\ Calm /\ boot = "hooks" =>
       /\ HookOrder(plugins, enabled)
       /\ Len(hooked) = next - 1 /\ Len(hooked) <= Len(plugins)
       /\ \A i \in 1 .. Len(hooked) : hooked[i] = plugins[i]
  /\ Calm /\ boot \in {"listen", "serving"} => HookOrder(hooked, enabled)

\* A step that changes neither the plugins nor the loop over them.
LEMMA PluginsStay ==
  ASSUME HooksInv, UNCHANGED <<enabled, boot, next, initialized, plugins, hooked>>, Calm' => Calm
  PROVE  HooksInv'
BY DEF HooksInv, PluginTypes

\* A step of a shutdown while plugins are called: some signal came too early.
LEMMA SignalledTooEarly ==
  ASSUME CloseInv, boot \notin {"serving", "failed"}, NEW s \in Signals
  PROVE  ~Calm
<1>1. server \in {"none", "binding"}
  BY DEF CloseInv, LifeTypes
<1>. QED
  BY <1>1 DEF CloseInv, Calm

LEMMA CalmBefore ==
  ASSUME Signals' = Signals, late' = late
  PROVE  Calm' => Calm
BY DEF Calm

LEMMA EmptyFits == <<>> \in Seq(STRING) /\ ToSet(<<>>) = {} /\ Len(<<>>) = 0
BY DEF ToSet

LEMMA BootingHooks ==
  ASSUME CloseInv, HooksInv, Booting
  PROVE  HooksInv'
<1>. USE DEF others, booting, history, BootLink
<1>0. Signals' = Signals /\ late' = late /\ enabled' = enabled
  BY DEF Booting, BuildContainer, AsyncInit, LoadPlugin, Register, BootHook, Booted, Listen, Listening, Signals
<1>. USE <1>0
<1>1. CASE BuildContainer
  BY <1>1 DEF BuildContainer, HooksInv, PluginTypes
<1>2. CASE AsyncInit
  BY <1>2 DEF AsyncInit, HooksInv, PluginTypes
<1>3. CASE LoadPlugin
  <2>1. PICK l \in Nat : l = Len(enabled)
    BY DEF HooksInv, PluginTypes
  <2>2. /\ initialized \in 0 .. l /\ next = initialized + 1 /\ next <= l /\ hooked = <<>>
    BY <1>3, <2>1 DEF LoadPlugin, HooksInv, PluginTypes
  <2>3. next' \in Nat \ {0} /\ initialized' \in 0 .. l /\ next' = initialized' + 1
    BY <1>3, <2>2 DEF LoadPlugin
  <2>4. boot' = "loadPlugins" /\ UNCHANGED <<plugins, hooked>>
    BY <1>3 DEF LoadPlugin
  <2>. QED
    BY <2>1, <2>2, <2>3, <2>4 DEF HooksInv, PluginTypes
<1>4. CASE Register
  <2>1. UNCHANGED <<hooked, initialized>> /\ hooked = <<>>
    BY <1>4 DEF Register, HooksInv
  <2>2. CASE Sort(enabled).error = "none"
    <3>1. PICK order : order = Sort(enabled).order
      OBVIOUS
    <3>2. PICK names : names = [i \in DOMAIN order |-> order[i].name]
      OBVIOUS
    <3>3. boot' = "hooks" /\ next' = 1 /\ plugins' = names
      BY <1>4, <2>2, <3>1, <3>2 DEF Register
    <3>4. names \in Seq(STRING) /\ HookOrder(names, enabled) /\ Len(names) <= Len(enabled)
      BY <2>2, <3>1, <3>2, SortGivesNames DEF HooksInv, PluginTypes
    <3>5. ToSet(names) \subseteq Names(enabled)
      BY <3>4 DEF HookOrder
    <3>6. hooked \in Seq(STRING) /\ Len(hooked) = 0 /\ Len(names) \in Nat
      BY <2>1, <3>4
    <3>. QED
      BY <2>1, <3>3, <3>4, <3>5, <3>6 DEF HooksInv, PluginTypes
  <2>3. CASE Sort(enabled).error # "none"
    <3>1. boot' = "failed" /\ UNCHANGED <<next, plugins>>
      BY <1>4, <2>3 DEF Register
    <3>. QED
      BY <2>1, <3>1 DEF HooksInv, PluginTypes
  <2>. QED
    BY <2>2, <2>3
<1>5. CASE BootHook
  <2>1. PICK h, p : h = hooked /\ p = plugins /\ h \in Seq(STRING) /\ p \in Seq(STRING)
    BY DEF HooksInv, PluginTypes
  <2>2. /\ boot = "hooks" /\ boot' = "hooks" /\ next <= Len(p) /\ next' = next + 1 /\ next \in Nat \ {0}
        /\ UNCHANGED <<initialized, plugins>>
    BY <1>5, <2>1 DEF BootHook, Advance, HooksInv, PluginTypes
  <2>3. PICK g : g = Append(h, p[next])
    OBVIOUS
  <2>4. next \in 1 .. Len(p) /\ p[next] \in STRING
    BY <2>1, <2>2
  <2>5. /\ g \in Seq(STRING) /\ Len(g) = Len(h) + 1 /\ g[Len(h) + 1] = p[next] /\ Len(h) \in Nat
        /\ \A i \in 1 .. Len(h) : g[i] = h[i]
    BY <2>1, <2>3, <2>4
  <2>6. hooked' = g
    BY <1>5, <2>1, <2>3 DEF BootHook
  <2>7. PluginTypes'
    BY <2>2, <2>5, <2>6 DEF HooksInv, PluginTypes
  <2>8. ASSUME Calm
        PROVE  /\ HookOrder(p, enabled) /\ Len(g) = next /\ Len(g) <= Len(p)
               /\ \A i \in 1 .. Len(g) : g[i] = p[i]
    <3>1. /\ HookOrder(p, enabled) /\ Len(h) = next - 1 /\ \A i \in 1 .. Len(h) : h[i] = p[i]
      BY <2>1, <2>2, <2>8 DEF HooksInv
    <3>2. Len(g) = next
      BY <2>2, <2>5, <3>1
    <3>3. ASSUME NEW i \in 1 .. Len(g) PROVE g[i] = p[i]
      <4>1. CASE i = next
        BY <2>2, <2>5, <3>1, <4>1
      <4>2. CASE i # next
        <5>1. i \in 1 .. Len(h)
          BY <2>2, <2>5, <3>1, <4>2
        <5>. QED
          BY <2>5, <3>1, <5>1
      <4>. QED
        BY <4>1, <4>2
    <3>. QED
      BY <2>2, <3>1, <3>2, <3>3
  <2>9. Calm' => Calm
    BY CalmBefore
  <2>10. next' - 1 = next
    BY <2>2
  <2>. QED
    BY <2>1, <2>2, <2>6, <2>7, <2>8, <2>9, <2>10 DEF HooksInv
<1>6. CASE Booted
  <2>1. /\ boot = "hooks" /\ boot' = "listen" /\ UNCHANGED <<next, initialized, plugins, hooked>>
    BY <1>6 DEF Booted
  <2>2. PICK h, p : h = hooked /\ p = plugins /\ h \in Seq(STRING) /\ p \in Seq(STRING)
    BY DEF HooksInv, PluginTypes
  <2>3. next > Len(p) /\ next \in Nat
    BY <1>6, <2>2 DEF Booted, HooksOver, HooksInv, PluginTypes
  <2>4. ASSUME Calm PROVE HookOrder(h, enabled)
    <3>1. /\ HookOrder(p, enabled) /\ Len(h) = next - 1 /\ Len(h) <= Len(p)
          /\ \A i \in 1 .. Len(h) : h[i] = p[i]
      BY <2>1, <2>2, <2>4 DEF HooksInv
    <3>2. Len(h) = Len(p)
      BY <2>2, <2>3, <3>1
    <3>3. h = p
      BY <2>2, <3>1, <3>2
    <3>. QED
      BY <3>1, <3>3
  <2>5. Calm' => Calm
    BY CalmBefore
  <2>. QED
    BY <2>1, <2>2, <2>4, <2>5 DEF HooksInv, PluginTypes
<1>7. CASE Listen
  BY <1>7, CalmBefore, PluginsStay DEF Listen
<1>8. CASE Listening
  <2>1. boot = "listen" /\ boot' = "serving" /\ UNCHANGED <<next, initialized, plugins, hooked>>
    BY <1>8 DEF Listening
  <2>. QED
    BY <2>1, CalmBefore DEF HooksInv, PluginTypes
<1>. QED
  BY <1>1, <1>2, <1>3, <1>4, <1>5, <1>6, <1>7, <1>8 DEF Booting

LEMMA LifeHooks == CloseInv /\ HooksInv /\ [LifeNext]_lifeVars => HooksInv'
<1>. SUFFICES ASSUME CloseInv, HooksInv, [LifeNext]_lifeVars PROVE HooksInv'
  OBVIOUS
<1>. USE DEF booting, others, history
<1>1. CASE Booting
  BY <1>1, BootingHooks
<1>2. CASE BootFails
  <2>1. boot' = "failed" /\ UNCHANGED <<enabled, next, initialized, plugins, hooked>>
    BY <1>2 DEF BootFails
  <2>. QED
    BY <2>1 DEF HooksInv, PluginTypes
<1>3. ASSUME NEW s \in Signal, ShutdownFails(s) PROVE HooksInv'
  <2>1. /\ To(s, "rejected", 1) /\ shutdown[s].pc # "none"
        /\ UNCHANGED <<enabled, boot, next, initialized, plugins, hooked, late>>
    BY <1>3 DEF ShutdownFails
  <2>2. Signals' = Signals
    BY <2>1, ShutdownGoesOn DEF CloseInv
  <2>. QED
    BY <2>1, <2>2, CalmBefore, PluginsStay
<1>4. ASSUME NEW s \in Signal, Stopping(s) PROVE HooksInv'
  <2>1. UNCHANGED <<enabled, boot, next, initialized, hooked, late>> /\ (plugins' = plugins \/ plugins' = <<>>)
    BY <1>4 DEF Stopping, ShutdownHook, DisposePlugin, DisposeEnds, AsyncDispose, Close, Closed
  <2>2. shutdown[s].pc \in {"hooks", "dispose", "asyncDispose", "close", "closing"}
    BY <1>4 DEF Stopping, ShutdownHook, DisposePlugin, DisposeEnds, AsyncDispose, Close, Closed
  <2>3. Signals' = Signals /\ s \in Signals
    BY <1>4, <2>2, StoppingSignals DEF CloseInv
  <2>4. boot = "hooks" => ~Calm
    BY <2>3, SignalledTooEarly
  <2>5. Calm' => Calm
    BY <2>1, <2>3, CalmBefore
  <2>6. PluginTypes'
    <3>1. CASE plugins' = plugins
      BY <2>1, <3>1 DEF HooksInv, PluginTypes
    <3>2. CASE plugins' = <<>>
      <4>1. Len(enabled) \in Nat /\ Len(enabled) >= 0
        BY DEF HooksInv, PluginTypes
      <4>2. plugins' \in Seq(STRING) /\ ToSet(plugins') = {} /\ Len(plugins') = 0
        BY <3>2, EmptyFits
      <4>. QED
        BY <2>1, <4>1, <4>2 DEF HooksInv, PluginTypes
    <3>. QED
      BY <2>1, <3>1, <3>2
  <2>. QED
    BY <2>1, <2>4, <2>5, <2>6 DEF HooksInv
<1>5. ASSUME NEW s \in Signal, Shutdown(s) PROVE HooksInv'
  <2>1. /\ UNCHANGED <<enabled, boot, next, initialized, plugins, hooked>>
        /\ late' = late \/ late' = late \cup {s}
    BY <1>5 DEF Shutdown
  <2>2. Signals' = Signals \cup {s} /\ s \notin Signals
    BY <1>5, SignalStarts DEF CloseInv
  <2>3. Calm' => Calm
    BY <2>1, <2>2 DEF Calm
  <2>. QED
    BY <2>1, <2>3, PluginsStay
<1>6. ASSUME NEW r \in Request, Arrive(r) \/ Respond(r) PROVE HooksInv'
  <2>1. UNCHANGED <<enabled, boot, next, initialized, plugins, hooked, shutdown, late>>
    BY <1>6 DEF Arrive, Respond
  <2>2. Signals' = Signals
    BY <2>1 DEF Signals
  <2>. QED
    BY <2>1, <2>2, CalmBefore, PluginsStay
<1>7. CASE UNCHANGED lifeVars
  <2>1. UNCHANGED <<enabled, boot, next, initialized, plugins, hooked, shutdown, late>>
    BY <1>7 DEF lifeVars
  <2>2. Signals' = Signals
    BY <2>1 DEF Signals
  <2>. QED
    BY <2>1, <2>2, CalmBefore, PluginsStay
<1>. QED
  BY <1>1, <1>2, <1>3, <1>4, <1>5, <1>6, <1>7 DEF LifeNext

LEMMA LifeStartsHooks ==
  ASSUME LifeInit, enabled \in Seq(Definition), SortIsRight(enabled)
  PROVE  HooksInv
<1>1. Len(enabled) \in Nat
  OBVIOUS
<1>2. plugins \in Seq(STRING) /\ ToSet(plugins) = {} /\ Len(plugins) = 0 /\ hooked \in Seq(STRING)
  BY EmptyFits DEF LifeInit
<1>. QED
  BY <1>1, <1>2 DEF LifeInit, HooksInv, PluginTypes

LEMMA LifeInvIsEnough ==
  ASSUME CloseInv, HooksInv
  PROVE  LifeTypeOK /\ BootHooksInOrder
<1>1. \A s \in Signal : shutdown[s] \in {Idle} \cup Running
  BY DEF CloseInv, LifeTypes
<1>2. \A s \in Signal :
        shutdown[s].pc \in {"none", "hooks", "dispose", "asyncDispose", "close", "closing", "done", "rejected"}
  BY <1>1 DEF Idle, Running
<1>3. LifeTypeOK
  BY <1>2 DEF CloseInv, LifeTypes, HooksInv, PluginTypes, LifeTypeOK
<1>4. BootHooksInOrder
  <2>. SUFFICES ASSUME server = "listening", Calm PROVE HookOrder(hooked, enabled)
    BY DEF BootHooksInOrder, HookOrder, Calm
  <2>1. boot = "serving"
    BY DEF CloseInv
  <2>. QED
    BY <2>1 DEF HooksInv
<1>. QED
  BY <1>3, <1>4

-----------------------------------------------------------------------------
(* The message bus *)

\* The sets of the bus: sequences of handlers without repetition.
SetsAreSound ==
  \A n \in DOMAIN handlers : \A v \in DOMAIN handlers[n] :
    handlers[n][v] \in Seq(Handler) /\ IsInjective(handlers[n][v])

PublicationTypes ==
  publication \in [Publication ->
    [pc : {"none", "unhandled", "calling", "waiting", "handled"}, event : BusEvents \cup {"none"},
     called : Seq(Handler), got : Seq(Handler), running : SUBSET Handler, failed : BOOLEAN]]

\* What a publication has called is the beginning of its copy of the set.
CallsInTurn(p) ==
  /\ IsInjective(p.called) /\ Len(p.got) <= Len(p.called)
  /\ \A i \in 1 .. Len(p.got) : p.got[i] = p.called[i]
  /\ p.pc \in {"none", "unhandled"} => p.got = <<>> /\ p.running = {}
  /\ p.pc = "waiting" => Len(p.got) = Len(p.called)
  /\ p.pc = "handled" /\ ~p.failed => Len(p.got) = Len(p.called) /\ p.running = {}

BusInv ==
  /\ SetsAreSound /\ PublicationTypes
  /\ \A c \in Publication : CallsInTurn(publication[c])

LEMMA EmptyIsInjective == ASSUME NEW s, s = <<>> PROVE IsInjective(s)
BY DEF IsInjective

LEMMA AppendedIsInjective ==
  ASSUME NEW S, NEW s \in Seq(S), NEW x \in S
  PROVE  /\ Append(s, x) \in Seq(S)
         /\ IsInjective(s) /\ ~Contains(s, x) => IsInjective(Append(s, x))
<1>1. PICK t : t = Append(s, x)
  OBVIOUS
<1>2. /\ t \in Seq(S) /\ Len(t) = Len(s) + 1 /\ Len(s) \in Nat /\ t[Len(s) + 1] = x
      /\ DOMAIN t = 1 .. Len(s) + 1 /\ DOMAIN s = 1 .. Len(s)
      /\ \A i \in 1 .. Len(s) : t[i] = s[i]
  BY <1>1
<1>3. ASSUME IsInjective(s), ~Contains(s, x) PROVE IsInjective(t)
  <2>1. \A i \in 1 .. Len(s) : s[i] # x
    BY <1>3 DEF Contains
  <2>2. ASSUME NEW i \in DOMAIN t, NEW j \in DOMAIN t, t[i] = t[j] PROVE i = j
    <3>1. i = Len(s) + 1 \/ i \in 1 .. Len(s)
      BY <1>2
    <3>2. j = Len(s) + 1 \/ j \in 1 .. Len(s)
      BY <1>2
    <3>. QED
      BY <1>2, <1>3, <2>1, <2>2, <3>1, <3>2 DEF IsInjective
  <2>. QED
    BY <2>2 DEF IsInjective
<1>. QED
  BY <1>1, <1>2, <1>3

\* The elements behind the removed one move up.
LEMMA RemovedAre ==
  ASSUME NEW S, NEW s \in Seq(S), NEW i \in DOMAIN s
  PROVE  /\ RemoveAt(s, i) \in Seq(S) /\ Len(RemoveAt(s, i)) = Len(s) - 1
         /\ \A k \in 1 .. Len(s) - 1 : RemoveAt(s, i)[k] = IF k < i THEN s[k] ELSE s[k + 1]
<1>1. PICK t : t = RemoveAt(s, i)
  OBVIOUS
<1>2. PICK a, b : a = SubSeq(s, 1, i - 1) /\ b = SubSeq(s, i + 1, Len(s))
  OBVIOUS
<1>3. i \in 1 .. Len(s) /\ Len(s) \in Nat /\ t = a \o b
  BY <1>1, <1>2 DEF RemoveAt
<1>4. a \in Seq(S) /\ Len(a) = i - 1 /\ \A k \in 1 .. i - 1 : a[k] = s[k]
  BY <1>2, <1>3
<1>5. b \in Seq(S) /\ Len(b) = Len(s) - i /\ \A k \in 1 .. Len(s) - i : b[k] = s[i + k]
  BY <1>2, <1>3
<1>6. t \in Seq(S) /\ Len(t) = Len(s) - 1
  BY <1>3, <1>4, <1>5
<1>7. ASSUME NEW k \in 1 .. Len(s) - 1
      PROVE  t[k] = IF k < i THEN s[k] ELSE s[k + 1]
  <2>1. CASE k < i
    BY <1>3, <1>4, <1>5, <2>1
  <2>2. CASE k >= i
    <3>1. t[k] = b[k - (i - 1)]
      BY <1>3, <1>4, <1>5, <2>2
    <3>2. b[k - (i - 1)] = s[k + 1]
      BY <1>3, <1>5, <2>2
    <3>. QED
      BY <1>3, <2>2, <3>1, <3>2
  <2>3. k < i \/ k >= i
    BY <1>3
  <2>. QED
    BY <2>1, <2>2, <2>3
<1>. QED
  BY <1>1, <1>6, <1>7

LEMMA RemovedIsInjective ==
  ASSUME NEW S, NEW s \in Seq(S), NEW i \in DOMAIN s
  PROVE  RemoveAt(s, i) \in Seq(S) /\ (IsInjective(s) => IsInjective(RemoveAt(s, i)))
<1>1. PICK t : t = RemoveAt(s, i)
  OBVIOUS
<1>3. i \in 1 .. Len(s) /\ Len(s) \in Nat
  OBVIOUS
<1>6. t \in Seq(S) /\ Len(t) = Len(s) - 1
  BY <1>1, RemovedAre
<1>7. \A k \in 1 .. Len(s) - 1 : t[k] = IF k < i THEN s[k] ELSE s[k + 1]
  BY <1>1, RemovedAre
<1>8. ASSUME IsInjective(s) PROVE IsInjective(t)
  <2>1. DOMAIN t = 1 .. Len(s) - 1 /\ DOMAIN s = 1 .. Len(s)
    BY <1>6
  <2>2. ASSUME NEW k \in 1 .. Len(s) - 1, NEW l \in 1 .. Len(s) - 1, t[k] = t[l] PROVE k = l
    <3>1. PICK m, n : m = (IF k < i THEN k ELSE k + 1) /\ n = (IF l < i THEN l ELSE l + 1)
      OBVIOUS
    <3>2. t[k] = s[m] /\ m \in 1 .. Len(s)
      <4>1. t[k] = IF k < i THEN s[k] ELSE s[k + 1]
        BY <1>7
      <4>2. CASE k < i
        BY <1>3, <3>1, <4>1, <4>2
      <4>3. CASE ~(k < i)
        BY <1>3, <3>1, <4>1, <4>3
      <4>. QED
        BY <4>2, <4>3
    <3>3. t[l] = s[n] /\ n \in 1 .. Len(s)
      <4>1. t[l] = IF l < i THEN s[l] ELSE s[l + 1]
        BY <1>7
      <4>2. CASE l < i
        BY <1>3, <3>1, <4>1, <4>2
      <4>3. CASE ~(l < i)
        BY <1>3, <3>1, <4>1, <4>3
      <4>. QED
        BY <4>2, <4>3
    <3>4. m = n => k = l
      BY <1>3, <3>1
    <3>. QED
      BY <1>8, <2>1, <2>2, <3>2, <3>3, <3>4 DEF IsInjective
  <2>. QED
    BY <2>1, <2>2 DEF IsInjective
<1>. QED
  BY <1>1, <1>6, <1>8

\* The set of an event holds each handler once.
LEMMA HandlersAreASet ==
  ASSUME SetsAreSound, NEW n, NEW v
  PROVE  Handlers(n, v) \in Seq(Handler) /\ IsInjective(Handlers(n, v))
<1>1. PICK s : s = <<>>
  OBVIOUS
<1>2. s \in Seq(Handler)
  BY <1>1
<1>3. IsInjective(s)
  BY <1>1, EmptyIsInjective
<1>. QED
  BY <1>1, <1>2, <1>3 DEF Handlers, SetsAreSound

\* A set that replaces another under its name and version, or a new one.
LEMMA WithASet ==
  ASSUME SetsAreSound, NEW n, NEW v, NEW s \in Seq(Handler), IsInjective(s),
         NEW versions, versions = (IF n \in DOMAIN handlers THEN handlers[n] ELSE <<>>),
         handlers' = With(handlers, n, With(versions, v, s))
  PROVE  SetsAreSound'
<1>1. PICK w : w = With(versions, v, s)
  OBVIOUS
<1>2. DOMAIN w = DOMAIN versions \cup {v} /\ \A y \in DOMAIN w : w[y] = IF y = v THEN s ELSE versions[y]
  BY <1>1 DEF With
<1>3. /\ DOMAIN handlers' = DOMAIN handlers \cup {n}
      /\ \A y \in DOMAIN handlers' : handlers'[y] = IF y = n THEN w ELSE handlers[y]
  BY <1>1 DEF With
<1>4. \A y \in DOMAIN versions : versions[y] \in Seq(Handler) /\ IsInjective(versions[y])
  <2>1. CASE n \in DOMAIN handlers
    BY <2>1 DEF SetsAreSound
  <2>2. CASE n \notin DOMAIN handlers
    BY <2>2
  <2>. QED
    BY <2>1, <2>2
<1>5. \A y \in DOMAIN w : w[y] \in Seq(Handler) /\ IsInjective(w[y])
  BY <1>2, <1>4
<1>. QED
  BY <1>3, <1>5 DEF SetsAreSound

LEMMA ChangeKeeps ==
  ASSUME SetsAreSound, NEW h \in Handler, Change(h)
  PROVE  SetsAreSound'
<1>. DEFINE n == EventName(h)
            v == EventVersion(h)
<1>1. PICK old : old = Handlers(n, v) /\ old \in Seq(Handler) /\ IsInjective(old)
  BY HandlersAreASet
<1>2. ASSUME handlers' = Put(h) PROVE SetsAreSound'
  <2>1. PICK s : s = IF Contains(old, h) THEN old ELSE Append(old, h)
    OBVIOUS
  <2>2. s \in Seq(Handler) /\ IsInjective(s)
    BY <1>1, <2>1, AppendedIsInjective
  <2>3. PICK versions : versions = IF n \in DOMAIN handlers THEN handlers[n] ELSE <<>>
    OBVIOUS
  <2>4. handlers' = With(handlers, n, With(versions, v, s))
    BY <1>1, <1>2, <2>1, <2>3 DEF Put
  <2>. QED
    BY <2>2, <2>3, <2>4, WithASet
<1>3. ASSUME handlers' = Taken(h) PROVE SetsAreSound'
  <2>. DEFINE at == CHOOSE i \in DOMAIN old : old[i] = h
  <2>0. PICK shorter : shorter = RemoveAt(old, at)
    OBVIOUS
  <2>1. PICK rest : rest = IF Contains(old, h) THEN shorter ELSE old
    OBVIOUS
  <2>2. rest \in Seq(Handler) /\ IsInjective(rest)
    <3>1. CASE Contains(old, h)
      <4>1. PICK i \in DOMAIN old : i = CHOOSE k \in DOMAIN old : old[k] = h
        <5>1. \E k \in DOMAIN old : old[k] = h
          BY <1>1, <3>1 DEF Contains
        <5>. QED
          BY <5>1
      <4>. QED
        BY <1>1, <2>0, <2>1, <3>1, <4>1, RemovedIsInjective
    <3>2. CASE ~Contains(old, h)
      BY <1>1, <2>1, <3>2
    <3>. QED
      BY <3>1, <3>2
  <2>3. handlers' = IF old = <<>> THEN handlers
                    ELSE IF rest = <<>> THEN Removed(n, v)
                    ELSE With(handlers, n, With(handlers[n], v, rest))
    BY <1>1, <1>3, <2>0, <2>1 DEF Taken
  <2>4. CASE old = <<>>
    BY <2>3, <2>4 DEF SetsAreSound
  <2>5. CASE old # <<>> /\ rest = <<>>
    <3>1. handlers' = Removed(n, v)
      BY <2>3, <2>5
    <3>2. n \in DOMAIN handlers
      BY <1>1, <2>5 DEF Handlers
    <3>3. PICK w : w = Without(handlers[n], v)
      OBVIOUS
    <3>4. \A y \in DOMAIN w : w[y] \in Seq(Handler) /\ IsInjective(w[y])
      BY <3>2, <3>3 DEF Without, SetsAreSound
    <3>5. handlers' = Without(handlers, n) \/ handlers' = With(handlers, n, w)
      BY <3>1, <3>3 DEF Removed
    <3>6. CASE handlers' = Without(handlers, n)
      BY <3>6 DEF Without, SetsAreSound
    <3>7. CASE handlers' = With(handlers, n, w)
      BY <3>4, <3>7 DEF With, SetsAreSound
    <3>. QED
      BY <3>5, <3>6, <3>7
  <2>6. CASE old # <<>> /\ rest # <<>>
    <3>1. n \in DOMAIN handlers
      BY <1>1, <2>6 DEF Handlers
    <3>2. PICK versions : versions = handlers[n]
      OBVIOUS
    <3>3. handlers' = With(handlers, n, With(versions, v, rest))
      BY <2>3, <2>6, <3>2
    <3>. QED
      BY <2>2, <3>1, <3>2, <3>3, WithASet
  <2>. QED
    BY <2>4, <2>5, <2>6
<1>. QED
  BY <1>2, <1>3 DEF Change

\* A publication starts with a copy of the set.
LEMMA BeginKeeps ==
  ASSUME BusInv, NEW c \in Publication, NEW event \in BusEvents, Begin(c, event)
  PROVE  PublicationTypes' /\ \A d \in Publication : CallsInTurn(publication[d])'
<1>1. PICK called : /\ called = Handlers(event.name, event.version)
                    /\ called \in Seq(Handler) /\ IsInjective(called)
  BY HandlersAreASet DEF BusInv
<1>2. PICK p : p = publication[c]
  OBVIOUS
<1>3. p.pc = "none" /\ CallsInTurn(p) /\ PublicationTypes
  BY <1>2 DEF Begin, BusInv
<1>4. p.got = <<>> /\ p.running = {}
  BY <1>3 DEF CallsInTurn
<1>6. p \in [pc : {"none", "unhandled", "calling", "waiting", "handled"}, event : BusEvents \cup {"none"},
             called : Seq(Handler), got : Seq(Handler), running : SUBSET Handler, failed : BOOLEAN]
  BY <1>2, <1>3 DEF PublicationTypes
<1>5. PICK q : /\ publication' = [publication EXCEPT ![c] = q]
               /\ q \in [pc : {"none", "unhandled", "calling", "waiting", "handled"}, event : BusEvents \cup {"none"},
                         called : Seq(Handler), got : Seq(Handler), running : SUBSET Handler, failed : BOOLEAN]
               /\ q.pc \in {"unhandled", "calling"} /\ q.got = p.got /\ q.running = p.running
               /\ q.called = p.called \/ q.called = called
  <2>1. \/ publication' = [publication EXCEPT ![c].pc = "unhandled", ![c].event = event]
        \/ publication' = [publication EXCEPT ![c].pc = "calling", ![c].event = event, ![c].called = called]
    BY <1>1 DEF Begin
  <2>2. PICK q1, q2 : /\ q1 = [p EXCEPT !.pc = "unhandled", !.event = event]
                      /\ q2 = [p EXCEPT !.pc = "calling", !.event = event, !.called = called]
    OBVIOUS
  <2>3. CASE publication' = [publication EXCEPT ![c].pc = "unhandled", ![c].event = event]
    <3>1. publication' = [publication EXCEPT ![c] = q1]
      BY <1>2, <1>3, <2>2, <2>3 DEF PublicationTypes
    <3>2. q1 \in [pc : {"none", "unhandled", "calling", "waiting", "handled"}, event : BusEvents \cup {"none"},
                  called : Seq(Handler), got : Seq(Handler), running : SUBSET Handler, failed : BOOLEAN]
      BY <1>6, <2>2
    <3>3. q1.pc = "unhandled" /\ q1.got = p.got /\ q1.running = p.running /\ q1.called = p.called
      BY <1>6, <2>2
    <3>. QED
      BY <3>1, <3>2, <3>3
  <2>4. CASE publication' = [publication EXCEPT ![c].pc = "calling", ![c].event = event, ![c].called = called]
    <3>1. publication' = [publication EXCEPT ![c] = q2]
      BY <1>2, <1>3, <2>2, <2>4 DEF PublicationTypes
    <3>2. q2 \in [pc : {"none", "unhandled", "calling", "waiting", "handled"}, event : BusEvents \cup {"none"},
                  called : Seq(Handler), got : Seq(Handler), running : SUBSET Handler, failed : BOOLEAN]
      BY <1>1, <1>6, <2>2
    <3>3. q2.pc = "calling" /\ q2.got = p.got /\ q2.running = p.running /\ q2.called = called
      BY <1>6, <2>2
    <3>. QED
      BY <3>1, <3>2, <3>3
  <2>. QED
    BY <2>1, <2>3, <2>4
<1>7. PublicationTypes'
  BY <1>3, <1>5 DEF PublicationTypes
<1>8. CallsInTurn(q)
  BY <1>1, <1>3, <1>4, <1>5, <1>6 DEF CallsInTurn
<1>9. \A d \in Publication : publication'[d] = IF d = c THEN q ELSE publication[d]
  BY <1>3, <1>5 DEF PublicationTypes
<1>. QED
  BY <1>7, <1>8, <1>9 DEF BusInv

\* A publication that moves on, with the others where they are.
LEMMA OneMoves ==
  ASSUME BusInv, NEW c \in Publication, NEW q, publication' = [publication EXCEPT ![c] = q],
         handlers' = handlers, CallsInTurn(q),
         q \in [pc : {"none", "unhandled", "calling", "waiting", "handled"}, event : BusEvents \cup {"none"},
                called : Seq(Handler), got : Seq(Handler), running : SUBSET Handler, failed : BOOLEAN]
  PROVE  BusInv'
<1>1. PublicationTypes'
  BY DEF BusInv, PublicationTypes
<1>2. \A d \in Publication : publication'[d] = IF d = c THEN q ELSE publication[d]
  BY DEF BusInv, PublicationTypes
<1>. QED
  BY <1>1, <1>2 DEF BusInv, SetsAreSound

LEMMA BusNextKeeps == BusInv /\ [BusNext]_busVars => BusInv'
<1>. SUFFICES ASSUME BusInv, [BusNext]_busVars PROVE BusInv'
  OBVIOUS
<1>. DEFINE Pubs == [pc : {"none", "unhandled", "calling", "waiting", "handled"}, event : BusEvents \cup {"none"},
                     called : Seq(Handler), got : Seq(Handler), running : SUBSET Handler, failed : BOOLEAN]
<1>1. ASSUME NEW h \in Handler, Change(h), UNCHANGED publication PROVE BusInv'
  <2>1. SetsAreSound'
    BY <1>1, ChangeKeeps DEF BusInv
  <2>. QED
    BY <1>1, <2>1 DEF BusInv, PublicationTypes
<1>2. ASSUME NEW c \in Publication, NEW e \in BusEvents, Begin(c, e), UNCHANGED handlers PROVE BusInv'
  <2>1. PublicationTypes' /\ \A d \in Publication : CallsInTurn(publication[d])'
    BY <1>2, BeginKeeps
  <2>. QED
    BY <1>2, <2>1 DEF BusInv, SetsAreSound
<1>3. ASSUME NEW c \in Publication, Call(c) PROVE BusInv'
  <2>1. PICK p, h : p = publication[c] /\ h = Callee(c, Len(p.got) + 1)
    OBVIOUS
  <2>2. p \in Pubs /\ CallsInTurn(p)
    BY <2>1 DEF BusInv, PublicationTypes
  <2>3. Len(p.got) < Len(p.called) /\ p.pc = "calling" /\ handlers' = handlers
    BY <1>3, <2>1 DEF Call
  <2>4. h = p.called[Len(p.got) + 1] /\ Len(p.got) + 1 \in 1 .. Len(p.called) /\ Len(p.got) \in Nat
        /\ p.got \in Seq(Handler) /\ p.called \in Seq(Handler) /\ h \in Handler
    BY <2>1, <2>2, <2>3 DEF Callee
  <2>5. PICK g : g = Append(p.got, h)
    OBVIOUS
  <2>6. /\ g \in Seq(Handler) /\ Len(g) = Len(p.got) + 1
        /\ \A i \in 1 .. Len(g) : g[i] = p.called[i]
    <3>1. g \in Seq(Handler) /\ Len(g) = Len(p.got) + 1 /\ g[Len(p.got) + 1] = h
          /\ \A i \in 1 .. Len(p.got) : g[i] = p.got[i]
      BY <2>4, <2>5
    <3>2. ASSUME NEW i \in 1 .. Len(g) PROVE g[i] = p.called[i]
      <4>1. CASE i = Len(p.got) + 1
        BY <2>4, <3>1, <4>1
      <4>2. CASE i \in 1 .. Len(p.got)
        BY <2>2, <3>1, <4>2 DEF CallsInTurn
      <4>. QED
        BY <2>4, <3>1, <4>1, <4>2
    <3>. QED
      BY <3>1, <3>2
  <2>7. PICK q : /\ publication' = [publication EXCEPT ![c] = q] /\ q \in Pubs
                 /\ q.got = g /\ q.called = p.called
                 /\ q.pc = "calling" \/ (q.pc = "handled" /\ q.failed = TRUE)
    <3>1. \/ publication' = [publication EXCEPT ![c].got = Append(@, h), ![c].running = @ \cup {h}]
          \/ publication' = [publication EXCEPT ![c].got = Append(@, h), ![c].pc = "handled", ![c].failed = TRUE]
      BY <1>3, <2>1 DEF Call
    <3>2. PICK q1, q2 : /\ q1 = [p EXCEPT !.got = g, !.running = p.running \cup {h}]
                        /\ q2 = [p EXCEPT !.got = g, !.pc = "handled", !.failed = TRUE]
      OBVIOUS
    <3>3. publication \in [Publication -> Pubs]
      BY DEF BusInv, PublicationTypes
    <3>4. CASE publication' = [publication EXCEPT ![c].got = Append(@, h), ![c].running = @ \cup {h}]
      <4>1. publication' = [publication EXCEPT ![c] = q1]
        BY <2>1, <2>5, <3>2, <3>3, <3>4
      <4>2. q1 \in Pubs
        BY <2>2, <2>4, <2>6, <3>2
      <4>3. q1.got = g /\ q1.called = p.called /\ q1.pc = "calling"
        BY <2>2, <2>3, <3>2
      <4>. QED
        BY <4>1, <4>2, <4>3
    <3>5. CASE publication' = [publication EXCEPT ![c].got = Append(@, h), ![c].pc = "handled", ![c].failed = TRUE]
      <4>1. publication' = [publication EXCEPT ![c] = q2]
        BY <2>1, <2>5, <3>2, <3>3, <3>5
      <4>2. q2 \in Pubs
        BY <2>2, <2>6, <3>2
      <4>3. q2.got = g /\ q2.called = p.called /\ q2.pc = "handled" /\ q2.failed = TRUE
        BY <2>2, <3>2
      <4>. QED
        BY <4>1, <4>2, <4>3
    <3>. QED
      BY <3>1, <3>4, <3>5
  <2>9. CallsInTurn(q)
    BY <2>2, <2>3, <2>4, <2>6, <2>7 DEF CallsInTurn
  <2>. QED
    BY <2>3, <2>7, <2>9, OneMoves
<1>4. ASSUME NEW c \in Publication, Called(c) PROVE BusInv'
  <2>1. PICK p, q : p = publication[c] /\ q = [p EXCEPT !.pc = "waiting"]
    OBVIOUS
  <2>2. p \in Pubs /\ CallsInTurn(p)
    BY <2>1 DEF BusInv, PublicationTypes
  <2>3. Len(p.got) = Len(p.called) /\ publication' = [publication EXCEPT ![c] = q] /\ handlers' = handlers
    BY <1>4, <2>1 DEF Called
  <2>4. q \in Pubs
    BY <2>1, <2>2
  <2>5. CallsInTurn(q)
    BY <2>1, <2>2, <2>3 DEF CallsInTurn
  <2>. QED
    BY <2>3, <2>4, <2>5, OneMoves
<1>5. ASSUME NEW c \in Publication, Settle(c) PROVE BusInv'
  <2>1. PICK h \in publication[c].running, rejects \in BOOLEAN :
          publication' = [publication EXCEPT ![c].running = @ \ {h}, ![c].failed = @ \/ rejects]
    BY <1>5 DEF Settle
  <2>2. PICK p, q : p = publication[c]
                    /\ q = [p EXCEPT !.running = p.running \ {h}, !.failed = p.failed \/ rejects]
    OBVIOUS
  <2>3. p \in Pubs /\ CallsInTurn(p) /\ h \in p.running
    BY <2>1, <2>2 DEF BusInv, PublicationTypes
  <2>0. publication \in [Publication -> Pubs] /\ handlers' = handlers
    BY <1>5 DEF BusInv, PublicationTypes, Settle
  <2>4. publication' = [publication EXCEPT ![c] = q]
    BY <2>0, <2>1, <2>2
  <2>5. q \in Pubs
    BY <2>2, <2>3
  <2>6. CallsInTurn(q)
    BY <2>2, <2>3 DEF CallsInTurn
  <2>. QED
    BY <2>0, <2>4, <2>5, <2>6, OneMoves
<1>6. ASSUME NEW c \in Publication, Answer(c) PROVE BusInv'
  <2>1. PICK p, q : p = publication[c] /\ q = [p EXCEPT !.pc = "handled"]
    OBVIOUS
  <2>2. p \in Pubs /\ CallsInTurn(p)
    BY <2>1 DEF BusInv, PublicationTypes
  <2>3. /\ p.pc = "waiting" /\ (p.failed \/ p.running = {})
        /\ publication' = [publication EXCEPT ![c] = q] /\ handlers' = handlers
    BY <1>6, <2>1 DEF Answer, Awaited
  <2>4. q \in Pubs
    BY <2>1, <2>2
  <2>5. CallsInTurn(q)
    BY <2>1, <2>2, <2>3 DEF CallsInTurn
  <2>. QED
    BY <2>3, <2>4, <2>5, OneMoves
<1>7. ASSUME UNCHANGED busVars PROVE BusInv'
  BY <1>7 DEF busVars, BusInv, SetsAreSound, PublicationTypes
<1>8. ASSUME Outside PROVE BusInv'
  BY <1>1, <1>2, <1>8 DEF Outside
<1>9. ASSUME NEW c \in Publication, Inside(c) PROVE BusInv'
  BY <1>1, <1>2, <1>9 DEF Inside
<1>. QED
  BY <1>3, <1>4, <1>5, <1>6, <1>7, <1>8, <1>9 DEF BusNext

LEMMA BusStarts == BusInit => BusInv
<1>. SUFFICES ASSUME BusInit PROVE BusInv
  OBVIOUS
<1>1. SetsAreSound
  BY DEF BusInit, SetsAreSound
<1>2. PICK p : p = [pc |-> "none", event |-> "none", called |-> <<>>, got |-> <<>>, running |-> {}, failed |-> FALSE]
  OBVIOUS
<1>3. publication = [c \in Publication |-> p]
  BY <1>2 DEF BusInit
<1>4. PublicationTypes
  BY <1>2, <1>3 DEF PublicationTypes
<1>5. IsInjective(p.called)
  BY <1>2, EmptyIsInjective
<1>6. CallsInTurn(p)
  BY <1>2, <1>5 DEF CallsInTurn
<1>. QED
  BY <1>1, <1>3, <1>4, <1>6 DEF BusInv

LEMMA BusInvIsEnough == BusInv => AnsweredWhenDone
<1>. SUFFICES ASSUME BusInv, NEW c \in Publication, NEW p, p = publication[c]
              PROVE  /\ IsInjective(p.got)
                     /\ p.pc = "handled" /\ ~p.failed => p.running = {} /\ p.got = p.called
  BY DEF AnsweredWhenDone
<1>1. p.got \in Seq(Handler) /\ p.called \in Seq(Handler) /\ CallsInTurn(p)
  BY DEF BusInv, PublicationTypes
<1>2. PICK g, a : g = p.got /\ a = p.called /\ g \in Seq(Handler) /\ a \in Seq(Handler)
  BY <1>1
<1>3. /\ IsInjective(a) /\ Len(g) <= Len(a) /\ \A i \in 1 .. Len(g) : g[i] = a[i]
      /\ p.pc = "handled" /\ ~p.failed => Len(g) = Len(a) /\ p.running = {}
  BY <1>1, <1>2 DEF CallsInTurn
<1>4. IsInjective(g)
  <2>1. DOMAIN g = 1 .. Len(g) /\ DOMAIN a = 1 .. Len(a) /\ \A i \in 1 .. Len(g) : i \in 1 .. Len(a)
    BY <1>2, <1>3
  <2>. QED
    BY <1>3, <2>1 DEF IsInjective
<1>5. Len(g) = Len(a) => g = a
  BY <1>2, <1>3
<1>. QED
  BY <1>2, <1>3, <1>4, <1>5

-----------------------------------------------------------------------------
(* Subscriptions *)

LEMMA AppendedContains ==
  ASSUME NEW S, NEW s \in Seq(S), NEW x \in S, NEW k
  PROVE  Contains(Append(s, x), k) <=> Contains(s, k) \/ k = x
<1>1. PICK t : t = Append(s, x)
  OBVIOUS
<1>2. /\ Len(t) = Len(s) + 1 /\ Len(s) \in Nat /\ t[Len(s) + 1] = x
      /\ \A i \in 1 .. Len(s) : t[i] = s[i]
  BY <1>1
<1>3. \A i \in 1 .. Len(t) : i \in 1 .. Len(s) \/ i = Len(s) + 1
  BY <1>2
<1>4. Len(s) + 1 \in 1 .. Len(t) /\ \A i \in 1 .. Len(s) : i \in 1 .. Len(t)
  BY <1>2
<1>5. Contains(t, k) <=> Contains(s, k) \/ k = x
  BY <1>2, <1>3, <1>4 DEF Contains
<1>. QED
  BY <1>1, <1>5

LEMMA RemovedContains ==
  ASSUME NEW S, NEW s \in Seq(S), IsInjective(s), NEW i \in DOMAIN s, NEW k
  PROVE  Contains(RemoveAt(s, i), k) <=> Contains(s, k) /\ k # s[i]
<1>1. PICK t : t = RemoveAt(s, i)
  OBVIOUS
<1>2. i \in 1 .. Len(s) /\ Len(s) \in Nat /\ DOMAIN s = 1 .. Len(s)
  OBVIOUS
<1>3. Len(t) = Len(s) - 1 /\ \A m \in 1 .. Len(s) - 1 : t[m] = IF m < i THEN s[m] ELSE s[m + 1]
  BY <1>1, RemovedAre
<1>4. ASSUME Contains(t, k) PROVE Contains(s, k) /\ k # s[i]
  <2>1. PICK m \in 1 .. Len(s) - 1 : t[m] = k
    BY <1>3, <1>4 DEF Contains
  <2>2. PICK n \in 1 .. Len(s) : n # i /\ s[n] = k
    <3>1. CASE m < i
      <4>1. m \in 1 .. Len(s) /\ m # i
        BY <1>2, <3>1
      <4>. QED
        BY <1>3, <2>1, <3>1, <4>1
    <3>2. CASE ~(m < i)
      <4>1. m + 1 \in 1 .. Len(s) /\ m + 1 # i
        BY <1>2, <3>2
      <4>. QED
        BY <1>3, <2>1, <3>2, <4>1
    <3>. QED
      BY <3>1, <3>2
  <2>3. k # s[i]
    BY <1>2, <2>2 DEF IsInjective
  <2>. QED
    BY <2>2, <2>3 DEF Contains
<1>5. ASSUME Contains(s, k), k # s[i] PROVE Contains(t, k)
  <2>1. PICK n \in 1 .. Len(s) : s[n] = k /\ n # i
    BY <1>5 DEF Contains
  <2>2. PICK m \in 1 .. Len(s) - 1 : t[m] = k
    <3>1. CASE n < i
      <4>1. n \in 1 .. Len(s) - 1
        BY <1>2, <3>1
      <4>. QED
        BY <1>3, <2>1, <3>1, <4>1
    <3>2. CASE ~(n < i)
      <4>1. n - 1 \in 1 .. Len(s) - 1 /\ ~(n - 1 < i) /\ (n - 1) + 1 = n
        BY <1>2, <2>1, <3>2
      <4>. QED
        BY <1>3, <2>1, <4>1
    <3>. QED
      BY <3>1, <3>2
  <2>. QED
    BY <1>3, <2>2 DEF Contains
<1>. QED
  BY <1>1, <1>4, <1>5

\* The set under one name and version is another, the others stay.
Replaced(n, v, s) ==
  \A m, w : Handlers(m, w)' = IF m = n /\ w = v THEN s ELSE Handlers(m, w)

NoneEmpty ==
  \A n \in DOMAIN handlers :
    DOMAIN handlers[n] # {} /\ \A v \in DOMAIN handlers[n] : handlers[n][v] # <<>>

LEMMA WithReplaces ==
  ASSUME NoneEmpty, NEW n, NEW v, NEW s, s # <<>>,
         NEW versions, versions = (IF n \in DOMAIN handlers THEN handlers[n] ELSE <<>>),
         handlers' = With(handlers, n, With(versions, v, s))
  PROVE  Replaced(n, v, s) /\ NoneEmpty'
<1>1. PICK f : f = With(versions, v, s)
  OBVIOUS
<1>2. DOMAIN f = DOMAIN versions \cup {v} /\ \A y \in DOMAIN f : f[y] = IF y = v THEN s ELSE versions[y]
  BY <1>1 DEF With
<1>3. /\ DOMAIN handlers' = DOMAIN handlers \cup {n}
      /\ \A y \in DOMAIN handlers' : handlers'[y] = IF y = n THEN f ELSE handlers[y]
  BY <1>1 DEF With
<1>4. n \notin DOMAIN handlers => DOMAIN versions = {}
  OBVIOUS
<1>5. ASSUME NEW m, NEW w
      PROVE  Handlers(m, w)' = IF m = n /\ w = v THEN s ELSE Handlers(m, w)
  <2>1. CASE m # n
    BY <1>3, <2>1 DEF Handlers
  <2>2. CASE m = n /\ n \in DOMAIN handlers
    BY <1>2, <1>3, <2>2 DEF Handlers
  <2>3. CASE m = n /\ n \notin DOMAIN handlers
    BY <1>2, <1>3, <1>4, <2>3 DEF Handlers
  <2>. QED
    BY <2>1, <2>2, <2>3
<1>6. NoneEmpty'
  <2>1. \A y \in DOMAIN versions : versions[y] # <<>>
    BY <1>4 DEF NoneEmpty
  <2>2. DOMAIN f # {} /\ \A y \in DOMAIN f : f[y] # <<>>
    BY <1>2, <2>1
  <2>. QED
    BY <1>3, <2>2 DEF NoneEmpty
<1>. QED
  BY <1>5, <1>6 DEF Replaced

LEMMA RemovedReplaces ==
  ASSUME NoneEmpty, NEW n \in DOMAIN handlers, NEW v, handlers' = Removed(n, v)
  PROVE  Replaced(n, v, <<>>) /\ NoneEmpty'
<1>1. PICK f : f = Without(handlers[n], v)
  OBVIOUS
<1>2. DOMAIN f = DOMAIN handlers[n] \ {v} /\ \A y \in DOMAIN f : f[y] = handlers[n][y]
  BY <1>1 DEF Without
<1>3. handlers' = IF DOMAIN f = {} THEN Without(handlers, n) ELSE With(handlers, n, f)
  BY <1>1 DEF Removed
<1>4. CASE DOMAIN f = {}
  <2>1. DOMAIN handlers' = DOMAIN handlers \ {n} /\ \A y \in DOMAIN handlers' : handlers'[y] = handlers[y]
    BY <1>3, <1>4 DEF Without
  <2>2. \A w : w \in DOMAIN handlers[n] => w = v
    BY <1>2, <1>4
  <2>3. Replaced(n, v, <<>>)
    BY <2>1, <2>2 DEF Replaced, Handlers
  <2>. QED
    BY <2>1, <2>3 DEF NoneEmpty
<1>5. CASE DOMAIN f # {}
  <2>1. /\ DOMAIN handlers' = DOMAIN handlers
        /\ \A y \in DOMAIN handlers' : handlers'[y] = IF y = n THEN f ELSE handlers[y]
    BY <1>3, <1>5 DEF With
  <2>2. Replaced(n, v, <<>>)
    BY <1>2, <2>1 DEF Replaced, Handlers
  <2>. QED
    BY <1>2, <1>5, <2>1, <2>2 DEF NoneEmpty
<1>. QED
  BY <1>4, <1>5

\* A handler is in its set as long as it is wanted there.
WantedOnly ==
  \A h \in Handler : Contains(Handlers(EventName(h), EventVersion(h)), h) <=> h \in wanted

LEMMA ChangeReplaces ==
  ASSUME SetsAreSound, NoneEmpty, WantedOnly, NEW h \in Handler, Change(h)
  PROVE  NoneEmpty' /\ WantedOnly'
<1>. DEFINE n == EventName(h)
            v == EventVersion(h)
<1>1. PICK old : old = Handlers(n, v) /\ old \in Seq(Handler) /\ IsInjective(old)
  BY HandlersAreASet
<1>2. ASSUME NEW s, Replaced(n, v, s),
             \/ wanted' = wanted \cup {h} /\ \A k : Contains(s, k) <=> Contains(old, k) \/ k = h
             \/ wanted' = wanted \ {h} /\ \A k : Contains(s, k) <=> Contains(old, k) /\ k # h
      PROVE  WantedOnly'
  <2>. SUFFICES ASSUME NEW k \in Handler
                PROVE  Contains(Handlers(EventName(k), EventVersion(k)), k)' <=> k \in wanted'
    BY DEF WantedOnly
  <2>1. Contains(Handlers(EventName(k), EventVersion(k)), k) <=> k \in wanted
    BY DEF WantedOnly
  <2>2. PICK new : new = Handlers(EventName(k), EventVersion(k))'
    OBVIOUS
  <2>3. new = IF EventName(k) = n /\ EventVersion(k) = v THEN s ELSE Handlers(EventName(k), EventVersion(k))
    BY <1>2, <2>2 DEF Replaced
  <2>4. CASE EventName(k) = n /\ EventVersion(k) = v
    <3>1. Contains(old, k) <=> k \in wanted
      BY <1>1, <2>1, <2>4
    <3>2. Contains(new, k) <=> k \in wanted'
      BY <1>2, <2>3, <2>4, <3>1
    <3>. QED
      BY <2>2, <3>2
  <2>5. CASE ~(EventName(k) = n /\ EventVersion(k) = v)
    <3>1. k # h
      BY <2>5
    <3>2. Contains(new, k) <=> k \in wanted'
      BY <1>2, <2>1, <2>3, <2>5, <3>1
    <3>. QED
      BY <2>2, <3>2
  <2>. QED
    BY <2>4, <2>5
<1>3. ASSUME handlers' = Put(h), wanted' = wanted \cup {h} PROVE NoneEmpty' /\ WantedOnly'
  <2>1. PICK s : s = IF Contains(old, h) THEN old ELSE Append(old, h)
    OBVIOUS
  <2>2. PICK versions : versions = IF n \in DOMAIN handlers THEN handlers[n] ELSE <<>>
    OBVIOUS
  <2>3. handlers' = With(handlers, n, With(versions, v, s))
    BY <1>1, <1>3, <2>1, <2>2 DEF Put
  <2>4. \A k : Contains(s, k) <=> Contains(old, k) \/ k = h
    <3>1. \A k : Contains(Append(old, h), k) <=> Contains(old, k) \/ k = h
      BY <1>1, AppendedContains
    <3>. QED
      BY <2>1, <3>1
  <2>5. s # <<>>
    <3>1. Contains(s, h)
      BY <2>4
    <3>. QED
      BY <3>1 DEF Contains
  <2>6. Replaced(n, v, s) /\ NoneEmpty'
    BY <2>2, <2>3, <2>5, WithReplaces
  <2>. QED
    BY <1>2, <1>3, <2>4, <2>6
<1>4. ASSUME handlers' = Taken(h), wanted' = wanted \ {h} PROVE NoneEmpty' /\ WantedOnly'
  <2>. DEFINE at == CHOOSE i \in DOMAIN old : old[i] = h
  <2>0. PICK shorter : shorter = RemoveAt(old, at)
    OBVIOUS
  <2>1. PICK rest : rest = IF Contains(old, h) THEN shorter ELSE old
    OBVIOUS
  <2>2. \A k : Contains(rest, k) <=> Contains(old, k) /\ k # h
    <3>1. CASE Contains(old, h)
      <4>1. PICK i \in DOMAIN old : i = CHOOSE k \in DOMAIN old : old[k] = h
        <5>1. \E k \in DOMAIN old : old[k] = h
          BY <1>1, <3>1 DEF Contains
        <5>. QED
          BY <5>1
      <4>2. old[i] = h
        <5>1. \E k \in DOMAIN old : old[k] = h
          BY <1>1, <3>1 DEF Contains
        <5>. QED
          BY <4>1, <5>1
      <4>3. rest = RemoveAt(old, i)
        BY <2>0, <2>1, <3>1, <4>1
      <4>. QED
        BY <1>1, <4>2, <4>3, RemovedContains
    <3>2. CASE ~Contains(old, h)
      <4>1. \A k : Contains(old, k) => k # h
        BY <3>2
      <4>. QED
        BY <2>1, <3>2, <4>1
    <3>. QED
      BY <3>1, <3>2
  <2>3. handlers' = IF old = <<>> THEN handlers
                    ELSE IF rest = <<>> THEN Removed(n, v)
                    ELSE With(handlers, n, With(handlers[n], v, rest))
    BY <1>1, <1>4, <2>0, <2>1 DEF Taken
  <2>4. CASE old = <<>>
    <3>1. handlers' = handlers
      BY <2>3, <2>4
    <3>2. NoneEmpty'
      BY <3>1 DEF NoneEmpty
    <3>3. Replaced(n, v, old)
      BY <1>1, <3>1 DEF Replaced, Handlers
    <3>4. rest = old
      <4>1. ~Contains(old, h)
        BY <2>4 DEF Contains
      <4>. QED
        BY <2>1, <4>1
    <3>. QED
      BY <1>2, <1>4, <2>2, <3>2, <3>3, <3>4
  <2>5. CASE old # <<>> /\ rest = <<>>
    <3>1. handlers' = Removed(n, v)
      BY <2>3, <2>5
    <3>2. n \in DOMAIN handlers
      BY <1>1, <2>5 DEF Handlers
    <3>3. Replaced(n, v, rest) /\ NoneEmpty'
      BY <2>5, <3>1, <3>2, RemovedReplaces
    <3>. QED
      BY <1>2, <1>4, <2>2, <3>3
  <2>6. CASE old # <<>> /\ rest # <<>>
    <3>1. n \in DOMAIN handlers
      BY <1>1, <2>6 DEF Handlers
    <3>2. PICK versions : versions = handlers[n]
      OBVIOUS
    <3>3. handlers' = With(handlers, n, With(versions, v, rest))
      BY <2>3, <2>6, <3>2
    <3>4. Replaced(n, v, rest) /\ NoneEmpty'
      BY <2>6, <3>1, <3>2, <3>3, WithReplaces
    <3>. QED
      BY <1>2, <1>4, <2>2, <3>4
  <2>. QED
    BY <2>4, <2>5, <2>6
<1>. QED
  BY <1>3, <1>4 DEF Change

SubsInv == NoneEmpty /\ WantedOnly /\ changes \in 0 .. MaxChanges

LEMMA SubsStart == BusInit => SubsInv
<1>. SUFFICES ASSUME BusInit PROVE SubsInv
  OBVIOUS
<1>1. handlers = <<>> /\ DOMAIN handlers = {} /\ wanted = {} /\ changes = 0
  BY DEF BusInit
<1>2. \A h \in Handler : ~Contains(Handlers(EventName(h), EventVersion(h)), h)
  <2>1. \A n, v : Handlers(n, v) = <<>>
    BY <1>1 DEF Handlers
  <2>2. \A h : ~Contains(<<>>, h)
    BY DEF Contains
  <2>. QED
    BY <2>1, <2>2
<1>. QED
  BY <1>1, <1>2, BusAssumption DEF SubsInv, NoneEmpty, WantedOnly

LEMMA SubscriptionsStay ==
  ASSUME SubsInv, UNCHANGED <<handlers, wanted, changes>>
  PROVE  SubsInv'
<1>1. \A n, v : Handlers(n, v)' = Handlers(n, v)
  BY DEF Handlers
<1>2. WantedOnly'
  BY <1>1 DEF SubsInv, WantedOnly
<1>. QED
  BY <1>2 DEF SubsInv, NoneEmpty

LEMMA SubsKeep == BusInv /\ SubsInv /\ [BusNext]_busVars => SubsInv'
<1>. SUFFICES ASSUME BusInv, SubsInv, [BusNext]_busVars PROVE SubsInv'
  OBVIOUS
<1>1. ASSUME NEW h \in Handler, Change(h) PROVE SubsInv'
  <2>1. NoneEmpty' /\ WantedOnly'
    BY <1>1, ChangeReplaces DEF BusInv, SubsInv
  <2>2. changes' \in 0 .. MaxChanges
    BY <1>1, BusAssumption DEF Change, SubsInv
  <2>. QED
    BY <2>1, <2>2 DEF SubsInv
<1>2. CASE UNCHANGED <<handlers, wanted, changes>>
  BY <1>2, SubscriptionsStay
<1>3. CASE Outside
  BY <1>1, <1>2, <1>3 DEF Outside
<1>4. ASSUME NEW c \in Publication, Inside(c) PROVE SubsInv'
  BY <1>1, <1>2, <1>4 DEF Inside
<1>5. ASSUME NEW c \in Publication, Call(c) \/ Called(c) \/ Settle(c) \/ Answer(c) PROVE SubsInv'
  BY <1>2, <1>5 DEF Call, Called, Settle, Answer
<1>6. CASE UNCHANGED busVars
  BY <1>2, <1>6 DEF busVars
<1>. QED
  BY <1>3, <1>4, <1>5, <1>6 DEF BusNext

\* In a set without repetition a handler is at one place or at none.
LEMMA CountedOnce ==
  ASSUME NEW s \in Seq(Handler), IsInjective(s), NEW h
  PROVE  Cardinality({i \in DOMAIN s : s[i] = h}) = IF Contains(s, h) THEN 1 ELSE 0
<1>1. PICK places : places = {i \in DOMAIN s : s[i] = h}
  OBVIOUS
<1>2. CASE Contains(s, h)
  <2>1. PICK i \in DOMAIN s : s[i] = h
    BY <1>2 DEF Contains
  <2>2. \A j \in DOMAIN s : s[j] = h => j = i
    BY <2>1 DEF IsInjective
  <2>3. places = {i}
    BY <1>1, <2>1, <2>2
  <2>4. Cardinality({i}) = 1
    BY FS_Singleton
  <2>. QED
    BY <1>1, <1>2, <2>3, <2>4
<1>3. CASE ~Contains(s, h)
  <2>1. places = {}
    BY <1>1, <1>3 DEF Contains
  <2>2. Cardinality({}) = 0
    BY FS_EmptySet
  <2>. QED
    BY <1>1, <1>3, <2>1, <2>2
<1>. QED
  BY <1>2, <1>3

LEMMA SubsInvIsEnough ==
  ASSUME BusInv, SubsInv
  PROVE  SubscribedAsAsked /\ BusTypeOK
<1>1. ASSUME NEW h \in Handler
      PROVE  Cardinality({i \in DOMAIN Handlers(EventName(h), EventVersion(h)) :
                            Handlers(EventName(h), EventVersion(h))[i] = h}) = IF h \in wanted THEN 1 ELSE 0
  <2>1. PICK s : /\ s = Handlers(EventName(h), EventVersion(h))
                 /\ s \in Seq(Handler) /\ IsInjective(s)
    BY HandlersAreASet DEF BusInv
  <2>2. Contains(s, h) <=> h \in wanted
    BY <2>1 DEF SubsInv, WantedOnly
  <2>3. Cardinality({i \in DOMAIN s : s[i] = h}) = IF Contains(s, h) THEN 1 ELSE 0
    BY <2>1, CountedOnce
  <2>. QED
    BY <2>1, <2>2, <2>3
<1>2. \A c \in Publication : publication[c].pc \in {"none", "unhandled", "calling", "waiting", "handled"}
  BY DEF BusInv, PublicationTypes
<1>. QED
  BY <1>1, <1>2 DEF SubscribedAsAsked, BusTypeOK, SubsInv, NoneEmpty

-----------------------------------------------------------------------------
(* A request on its way *)

\* Errors come from the stages behind the one that makes the scope; the user of the
\* token is known when the controller is reached.
PipeInv ==
  /\ stage \in 1 .. 8 /\ token \in {"none", "valid", "invalid", "text"}
  /\ stage > 3 => scope = "context.user"
  /\ stage <= 3 => scope = "none"
  /\ thrown # NoError => stage > 3
  /\ status # "none" => thrown # NoError \/ status = "200"
  /\ status \in {"none", "200"} \cup Numbers
  /\ user = IF stage <= 2 THEN "none" ELSE IF stage <= 5 THEN "anonymous"
            ELSE CASE token = "valid" -> "subject" [] token = "none" -> "anonymous" [] OTHER -> "undefined"
  /\ ControllerSeesUser /\ ErrorsAreViewed

\* Every stage has its place.
LEMMA StagesAre ==
  /\ Len(Stages) = 8
  /\ \A n \in 1 .. 8 :
       /\ Stages[n] = "errorHandler" => n = 1
       /\ Stages[n] = "anonymous" => n = 2
       /\ Stages[n] = "containerScope" => n = 3
       /\ Stages[n] = "application" => n = 4
       /\ Stages[n] = "authenticate" => n = 5
       /\ Stages[n] = "before" => n = 6
       /\ Stages[n] = "validate" => n = 7
       /\ Stages[n] = "controller" => n = 8
BY DEF Stages

\* The view has a status with a phrase for every error.
LEMMA ViewsHavePhrases ==
  ASSUME NEW e
  PROVE  /\ HasView(e) => StatusOf(e) \in Phrases
         /\ e.status \in Phrases => HasView(e) /\ StatusOf(e) = e.status
         /\ e.status = "absent" /\ e.statusCode \in Phrases => HasView(e) /\ StatusOf(e) = e.statusCode
         /\ e.status \in DOMAIN NodeErrors => HasView(e) /\ StatusOf(e) = NodeErrors[e.status]
BY PipeAssumption DEF HasView, StatusOf, Given

LEMMA PipeNextKeeps == PipeInv /\ [PipeNext]_pipeVars => PipeInv'
<1>. SUFFICES ASSUME PipeInv, [PipeNext]_pipeVars PROVE PipeInv'
  OBVIOUS
<1>. USE StagesAre
<1>1. ASSUME ErrorHandler PROVE PipeInv'
  <2>1. stage = 1
    BY <1>1 DEF ErrorHandler, At, PipeInv
  <2>. QED
    BY <1>1, <2>1 DEF ErrorHandler, At, NextStage, Input, PipeInv, ControllerSeesUser, ErrorsAreViewed
<1>2. ASSUME AuthenticateAnonymous PROVE PipeInv'
  <2>1. stage = 2
    BY <1>2 DEF AuthenticateAnonymous, At, PipeInv
  <2>. QED
    BY <1>2, <2>1 DEF AuthenticateAnonymous, At, NextStage, Input, PipeInv, ControllerSeesUser, ErrorsAreViewed
<1>3. ASSUME ContainerScope PROVE PipeInv'
  <2>1. stage = 3
    BY <1>3 DEF ContainerScope, At, PipeInv
  <2>. QED
    BY <1>3, <2>1
    DEF ContainerScope, AuthUser, At, NextStage, Input, PipeInv, ControllerSeesUser, ErrorsAreViewed
<1>4. ASSUME NEW s \in {"application", "before"}, Middleware(s) PROVE PipeInv'
  <2>1. stage = 4 \/ stage = 6
    BY <1>4 DEF Middleware, At, PipeInv
  <2>. QED
    BY <1>4, <2>1 DEF Middleware, Throw, At, NextStage, Input, PipeInv, ControllerSeesUser, ErrorsAreViewed
<1>5. ASSUME Authenticate PROVE PipeInv'
  <2>1. stage = 5
    BY <1>5 DEF Authenticate, At, PipeInv
  <2>. QED
    BY <1>5, <2>1 DEF Authenticate, Throw, At, NextStage, Input, PipeInv, ControllerSeesUser, ErrorsAreViewed
<1>6. ASSUME Validate PROVE PipeInv'
  <2>1. stage = 7
    BY <1>6 DEF Validate, At, PipeInv
  <2>. QED
    BY <1>6, <2>1 DEF Validate, Throw, At, NextStage, Input, PipeInv, ControllerSeesUser, ErrorsAreViewed
<1>7. ASSUME Controller PROVE PipeInv'
  <2>1. stage = 8
    BY <1>7 DEF Controller, At, PipeInv
  <2>. QED
    BY <1>7, <2>1 DEF Controller, Resolved, Throw, At, Input, PipeInv, ControllerSeesUser, ErrorsAreViewed
<1>8. ASSUME Caught PROVE PipeInv'
  <2>1. scope # "none" /\ thrown # NoError /\ thrown' = thrown /\ scope' = scope
    BY <1>8 DEF Caught, PipeInv
  <2>2. status' = IF HasView(thrown) THEN StatusOf(thrown) ELSE "500"
    BY <1>8, <2>1 DEF Caught
  <2>3. ErrorsAreViewed'
    BY <2>1, <2>2, ViewsHavePhrases, PipeAssumption DEF ErrorsAreViewed
  <2>4. status' \in Numbers
    BY <2>2, ViewsHavePhrases, PipeAssumption
  <2>. QED
    BY <1>8, <2>1, <2>3, <2>4 DEF Caught, Input, PipeInv, ControllerSeesUser
<1>9. ASSUME UNCHANGED pipeVars PROVE PipeInv'
  BY <1>9 DEF pipeVars, PipeInv, ControllerSeesUser, ErrorsAreViewed
<1>. QED
  BY <1>1, <1>2, <1>3, <1>4, <1>5, <1>6, <1>7, <1>8, <1>9 DEF PipeNext

LEMMA PipeInitHolds == PipeInit => PipeInv
BY DEF PipeInit, PipeInv, ControllerSeesUser, ErrorsAreViewed

LEMMA PipeInvIsEnough == PipeInv => PipeTypeOK
<1>. SUFFICES ASSUME PipeInv PROVE PipeTypeOK
  OBVIOUS
<1>1. stage \in 1 .. Len(Stages)
  BY StagesAre DEF PipeInv
<1>. QED
  BY <1>1 DEF PipeInv, PipeTypeOK

-----------------------------------------------------------------------------
(* All parts *)

\* The life cycle where it began.
LifeRests ==
  /\ server = "none" /\ boot = "buildContainer" /\ initialized = 0 /\ plugins = <<>> /\ hooked = <<>>
  /\ enabled \in Seq(Definition)

PartsInv ==
  /\ CloseInv /\ BusInv /\ SubsInv /\ PipeInv
  /\ part # "life" => LifeRests

LEMMA PartsStart == Init => PartsInv
<1>. SUFFICES ASSUME Init PROVE PartsInv
  OBVIOUS
<1>1. CloseInv /\ BusInv /\ SubsInv /\ PipeInv
  BY LifeStartsClosed, BusStarts, SubsStart, PipeInitHolds DEF Init
<1>2. part # "life" => enabled \in Seq(Definition)
  <2>1. <<>> \in Seq(Definition)
    OBVIOUS
  <2>2. OrderDefinitions \subseteq Seq(Definition)
    BY DefinitionsAssumption DEF Definition
  <2>. QED
    BY <2>1, <2>2 DEF Init
<1>. QED
  BY <1>1, <1>2 DEF Init, LifeInit, LifeRests, PartsInv

\* Each step is one of a part and leaves the others where they are.
LEMMA OnePartMoves ==
  ASSUME [Next]_vars
  PROVE  /\ [LifeNext]_lifeVars /\ [BusNext]_busVars /\ [PipeNext]_pipeVars
         /\ part' = part /\ (part # "life" => UNCHANGED lifeVars)
BY DEF Next, vars

LEMMA PartsKeep == PartsInv /\ [Next]_vars => PartsInv'
<1>. SUFFICES ASSUME PartsInv, [Next]_vars PROVE PartsInv'
  OBVIOUS
<1>1. CloseInv' /\ BusInv' /\ SubsInv' /\ PipeInv'
  BY OnePartMoves, LifeCloses, BusNextKeeps, SubsKeep, PipeNextKeeps DEF PartsInv
<1>2. part' # "life" => LifeRests'
  <2>1. part' = part /\ (part # "life" => UNCHANGED lifeVars)
    BY OnePartMoves
  <2>. QED
    BY <2>1 DEF PartsInv, LifeRests, lifeVars
<1>. QED
  BY <1>1, <1>2 DEF PartsInv

\* Of the plugins a service is booted with Sort gives an order exactly when there is one.
SortWorks == \A definitions \in LifeDefinitions : SortIsRight(definitions)

LEMMA HooksStart ==
  ASSUME SortWorks, Init, part = "life"
  PROVE  HooksInv
<1>1. enabled \in LifeDefinitions /\ LifeInit
  BY DEF Init
<1>2. LifeDefinitions \subseteq Seq(Definition)
  BY DefinitionsAssumption DEF Definition
<1>. QED
  BY <1>1, <1>2, LifeStartsHooks DEF SortWorks

LEMMA HooksKeep ==
  PartsInv /\ (part = "life" => HooksInv) /\ [Next]_vars => (part' = "life" => HooksInv')
BY OnePartMoves, LifeHooks DEF PartsInv

LEMMA RestIsTyped ==
  ASSUME CloseInv, LifeRests
  PROVE  LifeTypeOK /\ BootHooksInOrder
<1>1. \A s \in Signal : shutdown[s] \in {Idle} \cup Running
  BY DEF CloseInv, LifeTypes
<1>2. \A s \in Signal :
        shutdown[s].pc \in {"none", "hooks", "dispose", "asyncDispose", "close", "closing", "done", "rejected"}
  BY <1>1 DEF Idle, Running
<1>3. initialized \in 0 .. Len(enabled) /\ ToSet(plugins) \subseteq Names(enabled) /\ Len(plugins) <= Len(enabled)
  <2>1. Len(enabled) \in Nat
    BY DEF LifeRests
  <2>. QED
    BY <2>1, EmptyFits DEF LifeRests
<1>. QED
  BY <1>2, <1>3 DEF CloseInv, LifeTypes, LifeTypeOK, LifeRests, BootHooksInOrder

\* publishEvent calls no handler twice, also when handlers subscribe, unsubscribe
\* or publish while it goes on, and is answered when every handler that was
\* subscribed when it began is done, unless one failed
\* (LocalMessageBus.publishEvent).
THEOREM PublicationsAreAnswered == Spec => []AnsweredWhenDone
<1>1. PartsInv => AnsweredWhenDone
  BY BusInvIsEnough DEF PartsInv
<1>. QED
  BY <1>1, PartsStart, PartsKeep, PTL DEF Spec

\* The bus holds a handler, once, if and only if it was subscribed and not unsubscribed
\* since, also when it changes in the middle of a publication and whatever versions come
\* and go under the same name (LocalMessageBus.subscribeToEvent, unsubscribeFromEvent).
THEOREM HandlersStaySubscribed == Spec => []SubscribedAsAsked
<1>1. PartsInv => SubscribedAsAsked
  BY SubsInvIsEnough DEF PartsInv
<1>. QED
  BY <1>1, PartsStart, PartsKeep, PTL DEF Spec

\* An error arrives with its own status when there is a phrase for it, with that of a
\* failed connection when it carries a code of node, and never before the scope that its
\* view is built in (errorHandler.ts, errorView.ts).
THEOREM ErrorsArriveViewed == Spec => []ErrorsAreViewed
<1>1. PartsInv => ErrorsAreViewed
  BY DEF PartsInv, PipeInv
<1>. QED
  BY <1>1, PartsStart, PartsKeep, PTL DEF Spec

\* The controller gets the user of the token, although the scope is made before the
\* token is looked at (containerScope.ts, authenticate.ts, dispatchRequest).
THEOREM UsersReachControllers == Spec => []ControllerSeesUser
<1>1. PartsInv => ControllerSeesUser
  BY DEF PartsInv, PipeInv
<1>. QED
  BY <1>1, PartsStart, PartsKeep, PTL DEF Spec

\* One signal to a service that listens, whose plugins and services do not fail, cuts
\* nobody off: those who are connected are waited for, whatever requests come while it
\* shuts down (kernel.ts, serve and shutdown).
THEOREM OpenRequestsAreAnswered == Spec => []RequestsAreAnswered
<1>1. PartsInv => RequestsAreAnswered
  BY DEF PartsInv, CloseInv
<1>. QED
  BY <1>1, PartsStart, PartsKeep, PTL DEF Spec

\* Given that Sort is right about the plugins a service is booted with, a service that
\* listens, and was not told to stop before, has called the boot hook of every plugin,
\* once and of dependents before those they depend on (PluginManager.invoke).
THEOREM BootHooksFollowSort == SortWorks => (Spec => []BootHooksInOrder)
<1>. SUFFICES ASSUME SortWorks PROVE Spec => []BootHooksInOrder
  OBVIOUS
<1>. DEFINE Inv == PartsInv /\ (part = "life" => HooksInv)
<1>1. Init => Inv
  BY PartsStart, HooksStart
<1>2. Inv /\ [Next]_vars => Inv'
  BY PartsKeep, HooksKeep
<1>3. Inv => BootHooksInOrder
  BY LifeInvIsEnough, RestIsTyped DEF PartsInv
<1>. QED
  BY <1>1, <1>2, <1>3, PTL DEF Spec

\* Under the same hypothesis the kernel's state is well typed: the map of plugins holds
\* enabled ones only, also when a shutdown clears it during the boot, the bus keeps no
\* empty set, a request no status that is none; and subscriptions and users are right.
THEOREM KernelStaysSound == SortWorks => (Spec => []KernelOK)
<1>. SUFFICES ASSUME SortWorks PROVE Spec => []KernelOK
  OBVIOUS
<1>. DEFINE Inv == PartsInv /\ (part = "life" => HooksInv)
<1>1. Init => Inv
  BY PartsStart, HooksStart
<1>2. Inv /\ [Next]_vars => Inv'
  BY PartsKeep, HooksKeep
<1>3. Inv => KernelOK
  <2>. SUFFICES ASSUME Inv PROVE KernelOK
    OBVIOUS
  <2>1. LifeTypeOK
    BY LifeInvIsEnough, RestIsTyped DEF PartsInv
  <2>2. BusTypeOK /\ SubscribedAsAsked
    BY SubsInvIsEnough DEF PartsInv
  <2>3. PipeTypeOK /\ ControllerSeesUser
    BY PipeInvIsEnough DEF PartsInv, PipeInv
  <2>. QED
    BY <2>1, <2>2, <2>3 DEF KernelOK, TypeOK
<1>. QED
  BY <1>1, <1>2, <1>3, PTL DEF Spec

=============================================================================
