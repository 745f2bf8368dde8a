----------------------------- MODULE Upkeep_proofs -----------------------------
(***************************************************************************)
(* Machine-checked proofs about the tables of the drivers and about the    *)
(* heartbeat, for any number of processes, calls and rows.                 *)
(***************************************************************************)
EXTENDS MC_StoreUpkeep, FiniteSetTheorems, WellFoundedInduction, TLAPS

-----------------------------------------------------------------------------
(* The heartbeat *)

\* A grace timer belongs to a ping that is not answered; a client is closed for a cause.
BeatInv ==
  /\ BeatTypeOK /\ engine \in {"mongodb", "redis"}
  /\ HealthyStaysOpen
  /\ grace => awaiting
  /\ closing => cause

LEMMA BeatInitHolds == BeatInit => BeatInv
<1>. SUFFICES ASSUME BeatInit PROVE BeatInv
  OBVIOUS
<1>1. troubles \in 0 .. MaxTroubles
  BY BeatAssumption DEF BeatInit
<1>. QED
  BY <1>1, Zenon DEF BeatInit, BeatInv, BeatTypeOK, HealthyStaysOpen

LEMMA BeatNextKeeps == BeatInv /\ [BeatNext]_beatVars => BeatInv'
<1>. SUFFICES ASSUME BeatInv, [BeatNext]_beatVars PROVE BeatInv'
  OBVIOUS
<1>. USE BeatAssumption DEF BeatInv, BeatTypeOK, HealthyStaysOpen, Timers
<1>1. ASSUME Open PROVE BeatInv'
  BY <1>1 DEF Open
<1>2. ASSUME Mongodb_connected PROVE BeatInv'
  BY <1>2 DEF Mongodb_connected
<1>3. ASSUME Mongodb_finish PROVE BeatInv'
  BY <1>3 DEF Mongodb_finish, StartHeartbeat
<1>4. ASSUME Redis_connected PROVE BeatInv'
  BY <1>4 DEF Redis_connected, StartHeartbeat
<1>5. ASSUME Redis_error PROVE BeatInv'
  BY <1>5 DEF Redis_error
<1>6. ASSUME Quit PROVE BeatInv'
  BY <1>6 DEF Quit, Disconnect, Mongodb_disconnect, Redis_disconnect, StopHeartbeat
<1>7. ASSUME Mongodb_closed PROVE BeatInv'
  BY <1>7 DEF Mongodb_closed, Close, StopHeartbeat
<1>8. ASSUME Dropped PROVE BeatInv'
  BY <1>8 DEF Dropped, Close, Redis_disconnect, StopHeartbeat
<1>9. ASSUME Tick PROVE BeatInv'
  BY <1>9 DEF Tick
<1>10. ASSUME PingOk PROVE BeatInv'
  BY <1>10 DEF PingOk, PingAnswered
<1>11. ASSUME PingError PROVE BeatInv'
  <2>1. troubles' \in 0 .. MaxTroubles
    BY <1>11 DEF PingError
  <2>2. /\ cause' = TRUE /\ grace' = FALSE /\ awaiting' = FALSE /\ interval' = FALSE
        /\ UNCHANGED <<engine, heartbeat, indexing, answered>>
        /\ \/ closing' = TRUE /\ UNCHANGED <<link, told>>
           \/ link' = "closed" /\ told' = "disconnect" /\ UNCHANGED closing
    BY <1>11 DEF PingError, Disconnect, Mongodb_disconnect, Redis_disconnect, StopHeartbeat
  <2>. QED
    BY <2>1, <2>2, Zenon
<1>12. ASSUME GraceExpires PROVE BeatInv'
  <2>1. troubles' \in 0 .. MaxTroubles
    BY <1>12 DEF GraceExpires
  <2>2. grace /\ cause' = (cause \/ awaiting) /\ grace' = FALSE
        /\ UNCHANGED <<engine, heartbeat, indexing, answered, awaiting>>
    BY <1>12 DEF GraceExpires
  <2>3. cause' = TRUE
    BY <2>2, Zenon
  <2>4. \/ interval' = FALSE /\ closing' = TRUE /\ UNCHANGED <<link, told>>
        \/ interval' = FALSE /\ link' = "closed" /\ told' = "disconnect" /\ UNCHANGED closing
        \/ UNCHANGED <<link, told, interval, closing>>
    BY <1>12 DEF GraceExpires, Disconnect, Mongodb_disconnect, Redis_disconnect, StopHeartbeat
  <2>. QED
    BY <2>1, <2>2, <2>3, <2>4, Zenon
<1>13. ASSUME UNCHANGED beatVars PROVE BeatInv'
  BY <1>13 DEF beatVars
<1>. QED
  BY <1>1, <1>2, <1>3, <1>4, <1>5, <1>6, <1>7, <1>8, <1>9, <1>10, <1>11, <1>12, <1>13 DEF BeatNext, Handlers

-----------------------------------------------------------------------------
(* Types of the tables *)

Simple == [pc : Over \cup {"exists", "create", "active", "createIfNotExists", "listed", "delete", "deleted"}]
Reading == [pc : {"queued", "scan", "scanned"}, cursor : Int, before : SUBSET Row, lost : SUBSET Row]
Writing == [pc : {"write"}, cursor : Int, before : SUBSET Row, lost : SUBSET Row,
            batch : SUBSET (Table \X Row), more : BOOLEAN]
FirstPage == [pc : {"scanned", "failed"}, before : SUBSET Row, lost : SUBSET Row]
TaskType == Simple \cup Reading \cup Writing \cup FirstPage

TablesTypes ==
  /\ TablesTypeOK
  /\ provider \in {"dynamodb", "azuretable"} /\ fresh \subseteq Row
  /\ task \in [Process -> [Table -> TaskType]]
  /\ removals \in BOOLEAN /\ alone \subseteq Process

\* One task goes on, the others stay where they are.
Moves(p, t, next) ==
  /\ next \in TaskType
  /\ \A q \in Process, u \in Table : task'[q][u] = IF q = p /\ u = t THEN next ELSE task[q][u]

LEMMA ToMoves ==
  ASSUME task \in [Process -> [Table -> TaskType]], NEW p \in Process, NEW t \in Table,
         NEW next \in TaskType, To(p, t, next)
  PROVE  Moves(p, t, next) /\ task' \in [Process -> [Table -> TaskType]]
BY DEF To, Moves

LEMMA AllMove ==
  ASSUME task \in [Process -> [Table -> TaskType]], NEW p \in Process,
         NEW f \in [Table -> TaskType], task' = [task EXCEPT ![p] = f]
  PROVE  /\ task' \in [Process -> [Table -> TaskType]]
         /\ \A q \in Process, u \in Table : task'[q][u] = IF q = p THEN f[u] ELSE task[q][u]
OBVIOUS

LEMMA SimpleTasks ==
  ASSUME NEW pc \in Over \cup {"exists", "create", "active", "createIfNotExists", "listed", "delete", "deleted"}
  PROVE  [pc |-> pc] \in TaskType /\ [pc |-> pc].pc = pc
BY DEF TaskType, Simple

\* What a task of clear knows.
LEMMA TaskForms ==
  ASSUME NEW w \in TaskType
  PROVE  /\ w.pc \in Over \cup {"exists", "create", "active", "createIfNotExists", "listed", "delete",
                                "deleted", "queued", "scan", "write", "scanned"}
         /\ w.pc \in {"queued", "scan"} => w \in Reading
         /\ w.pc = "write" => w \in Writing
         /\ w.pc \in {"queued", "scan", "write", "scanned"} => w.before \subseteq Row /\ w.lost \subseteq Row
<1>1. CASE w \in Simple
  BY <1>1 DEF Simple, Over
<1>2. CASE w \in Reading
  BY <1>2 DEF Reading, Over
<1>3. CASE w \in Writing
  BY <1>3 DEF Writing, Over
<1>4. CASE w \in FirstPage
  BY <1>4 DEF FirstPage, Over
<1>. QED
  BY <1>1, <1>2, <1>3, <1>4 DEF TaskType

-----------------------------------------------------------------------------
(* Pages *)

\* A finite set of numbers has a least and a greatest element: else there would be a
\* smallest set without.
LEMMA Extremes ==
  ASSUME NEW S \in SUBSET Int, IsFiniteSet(S), S # {}
  PROVE  /\ \E m \in S : \A x \in S : m <= x
         /\ \E m \in S : \A x \in S : m >= x
<1>. DEFINE Has(U) == (\E m \in U : \A x \in U : m <= x) /\ (\E m \in U : \A x \in U : m >= x)
            Bad == {U \in FiniteSubsetsOf(S) : U # {} /\ ~Has(U)}
<1>1. CASE Bad = {}
  <2>1. S \in FiniteSubsetsOf(S)
    BY DEF FiniteSubsetsOf
  <2>. QED
    BY <1>1, <2>1
<1>2. CASE Bad # {}
  <2>1. PICK U \in Bad : \A V \in Bad : <<V, U>> \notin StrictSubsetOrdering(S)
    <3>1. PICK F, B, R : F = FiniteSubsetsOf(S) /\ B = Bad /\ R = StrictSubsetOrdering(S)
      OBVIOUS
    <3>2. B \subseteq F /\ B # {} /\ IsWellFoundedOn(R, F)
      BY <1>2, <3>1, FS_StrictSubsetOrderingWellFounded
    <3>3. \E U \in B : \A V \in B : ~(<<V, U>> \in R)
      BY <3>2, WFMin
    <3>. QED
      BY <3>1, <3>3
  <2>2. U \subseteq S /\ IsFiniteSet(U) /\ U # {} /\ ~Has(U)
    BY <2>1 DEF FiniteSubsetsOf
  <2>3. PICK x \in U : TRUE
    BY <2>2
  <2>4. PICK V : V = U \ {x}
    OBVIOUS
  <2>5. V \subseteq U /\ V # U /\ V \subseteq S /\ IsFiniteSet(V)
    BY <2>2, <2>3, <2>4, FS_Subset
  <2>6. V \in FiniteSubsetsOf(S) /\ <<V, U>> \in StrictSubsetOrdering(S)
    BY <2>2, <2>5 DEF FiniteSubsetsOf, StrictSubsetOrdering
  <2>7. V = {} \/ Has(V)
    BY <2>1, <2>6
  <2>8. x \in Int /\ U = V \cup {x} /\ V \subseteq Int
    BY <2>2, <2>3, <2>4
  <2>9. CASE V = {}
    <3>1. U = {x} /\ x <= x /\ x >= x
      BY <2>8, <2>9
    <3>. QED
      BY <2>2, <3>1
  <2>10. CASE Has(V)
    <3>1. PICK low \in V, high \in V : (\A y \in V : low <= y) /\ (\A y \in V : high >= y)
      BY <2>10
    <3>2. \E m \in U : \A y \in U : m <= y
      <4>1. CASE low <= x
        BY <2>8, <3>1, <4>1
      <4>2. CASE ~(low <= x)
        <5>1. \A y \in V : x <= y
          BY <2>8, <3>1, <4>2
        <5>. QED
          BY <2>3, <2>8, <5>1
      <4>. QED
        BY <4>1, <4>2
    <3>3. \E m \in U : \A y \in U : m >= y
      <4>1. CASE high >= x
        BY <2>8, <3>1, <4>1
      <4>2. CASE ~(high >= x)
        <5>1. \A y \in V : x >= y
          BY <2>8, <3>1, <4>2
        <5>. QED
          BY <2>3, <2>8, <5>1
      <4>. QED
        BY <4>1, <4>2
    <3>. QED
      BY <2>2, <3>2, <3>3
  <2>. QED
    BY <2>7, <2>9, <2>10
<1>. QED
  BY <1>1, <1>2

\* A page is empty only if nothing is behind the cursor; it holds everything between the
\* cursor and its last row.
LEMMA PageIsNext ==
  ASSUME NEW t \in Table, rows[t] \subseteq Row, NEW c \in Int, NEW page, page = Page(t, c)
  PROVE  /\ page \subseteq rows[t]
         /\ page = {} => \A r \in rows[t] : r <= c
         /\ page # {} => /\ Max(page) \in page
                         /\ \A r \in rows[t] : r > c => r \in page \/ r > Max(page)
<1>. DEFINE rest == {r \in rows[t] : r > c}
            Below(r) == {s \in rest : s < r}
<1>1. page = {r \in rest : Cardinality(Below(r)) < PageRows}
  BY DEF Page
<1>2. Row \subseteq Nat /\ IsFiniteSet(Row) /\ PageRows \in Nat /\ PageRows > 0
  BY TablesAssumption
<1>9. ASSUME NEW r \in rows[t] PROVE r \in Int
  <2>1. r \in Row
    OBVIOUS
  <2>2. r \in Nat
    BY <1>2, <2>1
  <2>. QED
    BY <2>2
<1>3. rest \subseteq Row /\ rest \subseteq Int /\ page \subseteq Row /\ page \subseteq Int
  <2>1. rest \subseteq rows[t] /\ page \subseteq rest
    BY <1>1
  <2>. QED
    BY <1>9, <2>1
<1>4. IsFiniteSet(rest) /\ IsFiniteSet(page)
  BY <1>2, <1>3, FS_Subset
<1>5. ASSUME page = {} PROVE rest = {}
  <2>. SUFFICES ASSUME rest # {} PROVE FALSE
    OBVIOUS
  <2>1. PICK m \in rest : \A x \in rest : m <= x
    <3>. HIDE DEF rest
    <3>. QED
      BY <1>3, <1>4, Extremes
  <2>2. Below(m) = {}
    BY <1>3, <2>1
  <2>3. Cardinality(Below(m)) = 0
    BY <2>2, FS_EmptySet
  <2>. QED
    BY <1>1, <1>2, <1>5, <2>1, <2>3
<1>6. ASSUME page # {}
      PROVE  Max(page) \in page /\ \A r \in rest : r \in page \/ r > Max(page)
  <2>1. \E m \in page : \A x \in page : m >= x
    BY <1>3, <1>4, <1>6, Extremes
  <2>2. PICK m : m = Max(page)
    OBVIOUS
  <2>3. m \in page /\ \A x \in page : m >= x
    BY <2>1, <2>2 DEF Max
  <2>4. ASSUME NEW r \in rest, ~(r > m) PROVE r \in page
    <3>1. PICK mine, its : mine = Below(r) /\ its = Below(m)
      OBVIOUS
    <3>2. mine \subseteq its /\ its \subseteq rest
      BY <1>3, <2>3, <2>4, <3>1
    <3>3. IsFiniteSet(its)
      BY <1>4, <3>2, FS_Subset
    <3>4. IsFiniteSet(mine) /\ Cardinality(mine) <= Cardinality(its)
      BY <3>2, <3>3, FS_Subset
    <3>5. Cardinality(mine) \in Nat /\ Cardinality(its) \in Nat
      BY <3>3, <3>4, FS_CardinalityType
    <3>6. Cardinality(its) < PageRows
      BY <1>1, <2>3, <3>1
    <3>7. Cardinality(mine) < PageRows
      BY <1>2, <3>4, <3>5, <3>6
    <3>. QED
      BY <1>1, <2>4, <3>1, <3>7
  <2>. QED
    BY <2>2, <2>3, <2>4
<1>7. page \subseteq rows[t]
  BY <1>1
<1>8. \A r \in rows[t] : r > c <=> r \in rest
  OBVIOUS
<1>. QED
  BY <1>5, <1>6, <1>7, <1>8, <1>9

-----------------------------------------------------------------------------
(* The inductive invariant of the tables *)

\* What a process was called for tells what its tasks can be.
TasksFit ==
  \A p \in Process, t \in Table :
    /\ op[p] = "connecting" =>
         task[p][t].pc \in {"exists", "create", "active", "createIfNotExists", "done", "failed"}
    /\ op[p] = "removing" => task[p][t].pc \in {"done", "listed", "delete", "deleted", "failed"}
    /\ op[p] = "clearing" => task[p][t].pc \in {"queued", "scan", "write", "scanned", "failed"}
    /\ op[p] = "cleared" => task[p][t].pc = "scanned"

\* As long as nobody removes tables, one that is active stays so: it is when a task of
\* connect is done, and all are for those who are connected.
TablesStay ==
  ~removals =>
    /\ \A t \in Table : status[t] # "deleting"
    /\ \A p \in Process, t \in Table :
         /\ task[p][t].pc \notin {"listed", "delete", "deleted"}
         /\ op[p] = "connecting" /\ task[p][t].pc = "done" => status[t] = "active"
         /\ op[p] \in {"connected", "clearing", "cleared"} => status[t] = "active"

\* While a removal counts as alone nobody is about to create a table, so that one whose
\* task is done stays away.
TablesGo ==
  \A p \in alone :
    /\ \A q \in Process, t \in Table : task[q][t].pc \notin Creating
    /\ \A t \in Table :
         \/ op[p] = "removing" /\ task[p][t].pc = "done"
         \/ op[p] = "removed"
         => status[t] = "none"

\* The rows that were there when clear was called and still are: behind the cursor, in
\* the batch of this page, or lost.
StillThere(p, t) ==
  LET w    == task[p][t]
      left == rows[t] \cap w.before
  IN  /\ w.pc \in {"queued", "scan", "write", "scanned"} => w.before \cap fresh = {}
      /\ w.pc \in {"queued", "scan"} => \A r \in left : r > w.cursor \/ r \in w.lost
      /\ w.pc = "write" =>
           /\ t \in Targets(t) /\ \A i \in w.batch : i[1] \in Targets(t)
           /\ \A r \in left :
                \/ <<t, r>> \in w.batch
                \/ r > w.cursor /\ (w.more \/ provider = "azuretable")
                \/ r \in w.lost
      /\ w.pc = "scanned" => left \subseteq w.lost
      /\ w.pc \in {"queued", "scan", "write", "scanned"} /\ provider = "dynamodb" /\ t # "snapshots" =>
           w.lost = {}
      /\ w.pc \in {"queued", "scan", "write"} /\ provider = "azuretable" => w.lost = {}

RowsGo == \A p \in Process, t \in Table : StillThere(p, t)

TablesInv == TablesTypes /\ TasksFit /\ TablesStay /\ TablesGo /\ RowsGo

\* What a step of one task does.
Effect(p, t, next) ==
  LET pc == task[p][t].pc
  IN  /\ Moves(p, t, next)
      /\ task' \in [Process -> [Table -> TaskType]]
      /\ status' \in [Table -> {"none", "creating", "active", "deleting"}]
      /\ throttled' \in 0 .. MaxThrottles
      /\ rows' \in [Table -> SUBSET Row] /\ \A u \in Table : rows'[u] \subseteq rows[u]
      /\ UNCHANGED <<provider, fresh, op, removals, alone, calls>>
      /\ \/ /\ pc \in {"exists", "create", "active", "createIfNotExists"}
            /\ next.pc \in {"create", "active", "done", "failed"}
         \/ pc \in {"listed", "delete", "deleted"} /\ next.pc \in {"delete", "deleted", "done", "failed"}
         \/ pc \in {"queued", "scan", "write"} /\ next.pc \in {"scan", "write", "scanned", "failed"}
      /\ next.pc \in Creating => pc \in Creating
      /\ \A u \in Table :
           /\ status[u] = "active" /\ pc # "delete" => status'[u] = "active"
           /\ status'[u] = "deleting" => status[u] = "deleting" \/ pc = "delete"
           /\ status[u] = "none" /\ pc \notin Creating => status'[u] = "none"
      /\ next.pc = "done" =>
           \/ pc \in {"exists", "active", "createIfNotExists"} /\ status'[t] = "active"
           \/ pc = "deleted" /\ status'[t] = "none"

LEMMA EffectTypes ==
  ASSUME TablesTypes, NEW p \in Process, NEW t \in Table, NEW next, Effect(p, t, next)
  PROVE  TablesTypes'
<1>1. \A q \in Process, u \in Table : task'[q][u] \in TaskType
  BY DEF Effect
<1>2. \A q \in Process, u \in Table :
        task'[q][u].pc \in Over \cup {"exists", "create", "active", "createIfNotExists", "listed",
                                     "delete", "deleted", "queued", "scan", "write", "scanned"}
  BY <1>1, TaskForms
<1>3. rows' \in [Table -> SUBSET (Row \ fresh)]
  <2>1. \A u \in Table : rows'[u] \subseteq rows[u] /\ rows[u] \subseteq Row \ fresh
    BY DEF Effect, TablesTypes, TablesTypeOK
  <2>2. \A u \in Table : rows'[u] \subseteq Row \ fresh
    BY <2>1
  <2>. QED
    BY <2>2 DEF Effect
<1>4. /\ status' \in [Table -> {"none", "creating", "active", "deleting"}]
      /\ throttled' \in 0 .. MaxThrottles /\ task' \in [Process -> [Table -> TaskType]]
      /\ UNCHANGED <<provider, fresh, op, removals, alone, calls>>
  BY DEF Effect
<1>. QED
  BY <1>2, <1>3, <1>4 DEF TablesTypes, TablesTypeOK

LEMMA EffectKeeps ==
  ASSUME TasksFit, TablesStay, TablesGo, alone \subseteq Process,
         NEW p \in Process, NEW t \in Table, NEW next, Effect(p, t, next)
  PROVE  TasksFit' /\ TablesStay' /\ TablesGo'
<1>. DEFINE pc == task[p][t].pc
<1>1. /\ UNCHANGED <<provider, fresh, op, removals, alone, calls>>
      /\ \A q \in Process, u \in Table : task'[q][u] = IF q = p /\ u = t THEN next ELSE task[q][u]
  BY DEF Effect, Moves
<1>2. /\ \/ /\ pc \in {"exists", "create", "active", "createIfNotExists"}
            /\ next.pc \in {"create", "active", "done", "failed"}
         \/ pc \in {"listed", "delete", "deleted"} /\ next.pc \in {"delete", "deleted", "done", "failed"}
         \/ pc \in {"queued", "scan", "write"} /\ next.pc \in {"scan", "write", "scanned", "failed"}
      /\ next.pc \in Creating => pc \in Creating
      /\ next.pc = "done" =>
           \/ pc \in {"exists", "active", "createIfNotExists"} /\ status'[t] = "active"
           \/ pc = "deleted" /\ status'[t] = "none"
  BY DEF Effect
<1>3. \A u \in Table :
        /\ status[u] = "active" /\ pc # "delete" => status'[u] = "active"
        /\ status'[u] = "deleting" => status[u] = "deleting" \/ pc = "delete"
        /\ status[u] = "none" /\ pc \notin Creating => status'[u] = "none"
  BY DEF Effect
<1>4. TasksFit'
  BY <1>1, <1>2 DEF TasksFit
<1>5. TablesStay'
  <2>. SUFFICES ASSUME ~removals PROVE TablesStay'
    BY <1>1 DEF TablesStay
  <2>1. pc \notin {"listed", "delete", "deleted"}
    BY DEF TablesStay
  <2>2. ASSUME NEW q \in Process, NEW u \in Table
        PROVE  /\ task'[q][u].pc \notin {"listed", "delete", "deleted"}
               /\ op[q] = "connecting" /\ task'[q][u].pc = "done" => status'[u] = "active"
               /\ op[q] \in {"connected", "clearing", "cleared"} => status'[u] = "active"
    <3>1. CASE q = p /\ u = t
      BY <1>1, <1>2, <1>3, <2>1, <3>1 DEF TablesStay
    <3>2. CASE ~(q = p /\ u = t)
      BY <1>1, <1>3, <2>1, <3>2 DEF TablesStay
    <3>. QED
      BY <3>1, <3>2
  <2>. QED
    BY <1>1, <1>3, <2>1, <2>2 DEF TablesStay
<1>6. TablesGo'
  <2>. SUFFICES ASSUME NEW a \in alone
                PROVE  /\ \A q \in Process, u \in Table : task'[q][u].pc \notin Creating
                       /\ \A u \in Table :
                            \/ op[a] = "removing" /\ task'[a][u].pc = "done"
                            \/ op[a] = "removed"
                            => status'[u] = "none"
    BY <1>1 DEF TablesGo
  <2>1. \A q \in Process, u \in Table : task[q][u].pc \notin Creating
    BY DEF TablesGo
  <2>2. pc \notin Creating
    BY <2>1
  <2>3. \A q \in Process, u \in Table : task'[q][u].pc \notin Creating
    BY <1>1, <1>2, <2>1, <2>2
  <2>4. ASSUME NEW u \in Table, op[a] = "removed" PROVE status'[u] = "none"
    BY <1>3, <2>2, <2>4 DEF TablesGo
  <2>5. ASSUME NEW u \in Table, op[a] = "removing", task'[a][u].pc = "done" PROVE status'[u] = "none"
    <3>1. CASE a = p /\ u = t
      <4>1. op[p] = "removing" /\ next.pc = "done"
        BY <1>1, <2>5, <3>1
      <4>2. pc \in {"done", "listed", "delete", "deleted", "failed"}
        BY <4>1 DEF TasksFit
      <4>3. pc = "deleted" /\ status'[t] = "none"
        BY <1>2, <4>1, <4>2
      <4>. QED
        BY <3>1, <4>3
    <3>2. CASE ~(a = p /\ u = t)
      BY <1>1, <1>3, <2>2, <2>5, <3>2 DEF TablesGo
    <3>. QED
      BY <3>1, <3>2
  <2>. QED
    BY <2>3, <2>4, <2>5
<1>. QED
  BY <1>4, <1>5, <1>6

\* Tasks that stay where they are find no row again that was gone.
LEMMA RowsStayGone ==
  ASSUME NEW p \in Process, NEW t \in Table, StillThere(p, t), task'[p][t] = task[p][t],
         provider' = provider, fresh' \subseteq fresh, rows'[t] \subseteq rows[t] \cup (fresh \ fresh')
  PROVE  StillThere(p, t)'
<1>. DEFINE w == task[p][t]
<1>1. \A r \in rows'[t] \cap w.before : w.before \cap fresh = {} => r \in rows[t] \cap w.before
  OBVIOUS
<1>2. w.pc \in {"queued", "scan", "write", "scanned"} => w.before \cap fresh' = {}
  BY DEF StillThere
<1>3. w.pc \in {"queued", "scan"} => \A r \in rows'[t] \cap w.before : r > w.cursor \/ r \in w.lost
  BY <1>1 DEF StillThere
<1>4. w.pc = "write" =>
        /\ t \in Targets(t)' /\ \A i \in w.batch : i[1] \in Targets(t)'
        /\ \A r \in rows'[t] \cap w.before :
             \/ <<t, r>> \in w.batch
             \/ r > w.cursor /\ (w.more \/ provider = "azuretable")
             \/ r \in w.lost
  BY <1>1 DEF StillThere, Targets
<1>5. w.pc = "scanned" => rows'[t] \cap w.before \subseteq w.lost
  BY <1>1 DEF StillThere
<1>6. /\ w.pc \in {"queued", "scan", "write", "scanned"} /\ provider = "dynamodb" /\ t # "snapshots" =>
           w.lost = {}
      /\ w.pc \in {"queued", "scan", "write"} /\ provider = "azuretable" => w.lost = {}
  BY DEF StillThere
<1>. QED
  BY <1>2, <1>3, <1>4, <1>5, <1>6 DEF StillThere

-----------------------------------------------------------------------------
(* Steps of tasks *)

LEMMA ExistsWorks ==
  ASSUME TablesTypes, NEW p \in Process, NEW t \in Table, Exists(p, t)
  PROVE  \E next : Effect(p, t, next) /\ next.pc \in {"create", "done", "active"}
<1>1. PICK x : x = IF status[t] = "none" THEN "create" ELSE IF status[t] = "active" THEN "done" ELSE "active"
  OBVIOUS
<1>2. PICK next : next = [pc |-> x]
  OBVIOUS
<1>3. task[p][t].pc = "exists" /\ To(p, t, next) /\ UNCHANGED Database /\ UNCHANGED Calls
  BY <1>1, <1>2 DEF Exists
<1>4. next \in TaskType /\ next.pc = x
  BY <1>1, <1>2, SimpleTasks DEF Over
<1>5. Moves(p, t, next) /\ task' \in [Process -> [Table -> TaskType]]
  BY <1>3, <1>4, ToMoves DEF TablesTypes
<1>6. rows \in [Table -> SUBSET Row]
  BY DEF TablesTypes, TablesTypeOK
<1>. QED
  BY <1>1, <1>3, <1>4, <1>5, <1>6 DEF Effect, Database, Calls, TablesTypes, TablesTypeOK, Creating

LEMMA CreateWorks ==
  ASSUME TablesTypes, NEW p \in Process, NEW t \in Table, Create(p, t)
  PROVE  \E next : Effect(p, t, next) /\ next.pc \in {"failed", "active"}
<1>1. PICK x : x = IF status[t] = "deleting" THEN "failed" ELSE "active"
  OBVIOUS
<1>2. PICK next : next = [pc |-> x]
  OBVIOUS
<1>3. /\ task[p][t].pc = "create" /\ To(p, t, next)
      /\ status' = IF status[t] = "none" THEN [status EXCEPT ![t] = "creating"] ELSE status
      /\ UNCHANGED <<rows, throttled>> /\ UNCHANGED Calls
  BY <1>1, <1>2 DEF Create
<1>4. next \in TaskType /\ next.pc = x
  BY <1>1, <1>2, SimpleTasks DEF Over
<1>5. Moves(p, t, next) /\ task' \in [Process -> [Table -> TaskType]]
  BY <1>3, <1>4, ToMoves DEF TablesTypes
<1>6. rows \in [Table -> SUBSET Row] /\ status \in [Table -> {"none", "creating", "active", "deleting"}]
  BY DEF TablesTypes, TablesTypeOK
<1>. QED
  BY <1>1, <1>3, <1>4, <1>5, <1>6 DEF Effect, Calls, TablesTypes, TablesTypeOK, Creating

LEMMA ActiveWorks ==
  ASSUME TablesTypes, NEW p \in Process, NEW t \in Table, Active(p, t)
  PROVE  \E next : Effect(p, t, next) /\ next.pc \in {"done", "failed", "active"}
<1>1. PICK x : x = Polled(status[t])
  OBVIOUS
<1>2. PICK next : next = [pc |-> x]
  OBVIOUS
<1>3. task[p][t].pc = "active" /\ To(p, t, next) /\ UNCHANGED Database /\ UNCHANGED Calls
  BY <1>1, <1>2 DEF Active
<1>4. x \in {"done", "failed", "active"} /\ (x = "done" => status[t] = "active")
  BY <1>1 DEF Polled
<1>5. next \in TaskType /\ next.pc = x
  BY <1>2, <1>4, SimpleTasks DEF Over
<1>6. Moves(p, t, next) /\ task' \in [Process -> [Table -> TaskType]]
  BY <1>3, <1>5, ToMoves DEF TablesTypes
<1>7. rows \in [Table -> SUBSET Row]
  BY DEF TablesTypes, TablesTypeOK
<1>. QED
  BY <1>3, <1>4, <1>5, <1>6, <1>7 DEF Effect, Database, Calls, TablesTypes, TablesTypeOK, Creating

LEMMA CreateIfNotExistsWorks ==
  ASSUME TablesTypes, NEW p \in Process, NEW t \in Table, CreateIfNotExists(p, t)
  PROVE  \E next : Effect(p, t, next) /\ next.pc = "done"
<1>2. PICK next : next = [pc |-> "done"]
  OBVIOUS
<1>3. /\ task[p][t].pc = "createIfNotExists" /\ To(p, t, next)
      /\ status' = [status EXCEPT ![t] = "active"]
      /\ UNCHANGED <<rows, throttled>> /\ UNCHANGED Calls
  BY <1>2 DEF CreateIfNotExists
<1>4. next \in TaskType /\ next.pc = "done"
  BY <1>2, SimpleTasks DEF Over
<1>5. Moves(p, t, next) /\ task' \in [Process -> [Table -> TaskType]]
  BY <1>3, <1>4, ToMoves DEF TablesTypes
<1>6. rows \in [Table -> SUBSET Row] /\ status \in [Table -> {"none", "creating", "active", "deleting"}]
  BY DEF TablesTypes, TablesTypeOK
<1>. QED
  BY <1>3, <1>4, <1>5, <1>6 DEF Effect, Calls, TablesTypes, TablesTypeOK, Creating

LEMMA DescribedWorks ==
  ASSUME TablesTypes, NEW p \in Process, NEW t \in Table, Described(p, t), status[t] # "none"
  PROVE  \E next : Effect(p, t, next) /\ next.pc = "delete"
<1>2. PICK next : next = [pc |-> "delete"]
  OBVIOUS
<1>3. task[p][t].pc = "listed" /\ To(p, t, next) /\ UNCHANGED Database /\ UNCHANGED Calls
  BY <1>2 DEF Described, Calls
<1>4. next \in TaskType /\ next.pc = "delete"
  BY <1>2, SimpleTasks DEF Over
<1>5. Moves(p, t, next) /\ task' \in [Process -> [Table -> TaskType]]
  BY <1>3, <1>4, ToMoves DEF TablesTypes
<1>6. rows \in [Table -> SUBSET Row]
  BY DEF TablesTypes, TablesTypeOK
<1>. QED
  BY <1>3, <1>4, <1>5, <1>6 DEF Effect, Database, Calls, TablesTypes, TablesTypeOK, Creating

LEMMA DeleteWorks ==
  ASSUME TablesTypes, NEW p \in Process, NEW t \in Table, Delete(p, t)
  PROVE  \E next : Effect(p, t, next) /\ next.pc \in {"deleted", "failed"}
<1>1. PICK x : x = IF status[t] = "active" THEN "deleted" ELSE "failed"
  OBVIOUS
<1>2. PICK next : next = [pc |-> x]
  OBVIOUS
<1>3. /\ task[p][t].pc = "delete" /\ To(p, t, next)
      /\ status' = IF status[t] = "active" THEN [status EXCEPT ![t] = "deleting"] ELSE status
      /\ UNCHANGED <<rows, throttled>> /\ UNCHANGED Calls
  BY <1>1, <1>2 DEF Delete, AfterDelete
<1>4. next \in TaskType /\ next.pc = x
  BY <1>1, <1>2, SimpleTasks DEF Over
<1>5. Moves(p, t, next) /\ task' \in [Process -> [Table -> TaskType]]
  BY <1>3, <1>4, ToMoves DEF TablesTypes
<1>6. rows \in [Table -> SUBSET Row] /\ status \in [Table -> {"none", "creating", "active", "deleting"}]
  BY DEF TablesTypes, TablesTypeOK
<1>. QED
  BY <1>1, <1>3, <1>4, <1>5, <1>6 DEF Effect, Calls, TablesTypes, TablesTypeOK, Creating

LEMMA DeletedWorks ==
  ASSUME TablesTypes, NEW p \in Process, NEW t \in Table, Deleted(p, t)
  PROVE  \E next : Effect(p, t, next) /\ next.pc = "done"
<1>2. PICK next : next = [pc |-> "done"]
  OBVIOUS
<1>3. /\ task[p][t].pc = "deleted" /\ status[t] = "none" /\ To(p, t, next)
      /\ UNCHANGED Database /\ UNCHANGED Calls
  BY <1>2 DEF Deleted
<1>4. next \in TaskType /\ next.pc = "done"
  BY <1>2, SimpleTasks DEF Over
<1>5. Moves(p, t, next) /\ task' \in [Process -> [Table -> TaskType]]
  BY <1>3, <1>4, ToMoves DEF TablesTypes
<1>6. rows \in [Table -> SUBSET Row]
  BY DEF TablesTypes, TablesTypeOK
<1>. QED
  BY <1>3, <1>4, <1>5, <1>6 DEF Effect, Database, Calls, TablesTypes, TablesTypeOK, Creating

\* The steps of connect and removeTables.
LEMMA OthersWork ==
  ASSUME TablesInv, NEW p \in Process, NEW t \in Table, NEW next, Effect(p, t, next),
         next.pc \notin {"queued", "scan", "write", "scanned"}
  PROVE  TablesInv'
<1>1. TablesTypes'
  BY EffectTypes DEF TablesInv
<1>2. TasksFit' /\ TablesStay' /\ TablesGo'
  BY EffectKeeps DEF TablesInv, TablesTypes
<1>3. ASSUME NEW q \in Process, NEW u \in Table PROVE StillThere(q, u)'
  <2>1. CASE q = p /\ u = t
    <3>1. task'[p][t] = next
      BY DEF Effect, Moves
    <3>. QED
      BY <2>1, <3>1 DEF StillThere
  <2>2. CASE ~(q = p /\ u = t)
    <3>1. /\ task'[q][u] = task[q][u] /\ provider' = provider /\ fresh' = fresh
          /\ rows'[u] \subseteq rows[u]
      BY <2>2 DEF Effect, Moves
    <3>2. StillThere(q, u)
      BY DEF TablesInv, RowsGo
    <3>. QED
      BY <3>1, <3>2, RowsStayGone
  <2>. QED
    BY <2>1, <2>2
<1>. QED
  BY <1>1, <1>2, <1>3 DEF TablesInv, RowsGo

-----------------------------------------------------------------------------
(* Steps of clear *)

\* A step of clear leaves the invariant if its own task does.
LEMMA ClearWorks ==
  ASSUME TablesInv, NEW p \in Process, NEW t \in Table, NEW next, Effect(p, t, next), StillThere(p, t)'
  PROVE  TablesInv'
<1>1. TablesTypes'
  BY EffectTypes DEF TablesInv
<1>2. TasksFit' /\ TablesStay' /\ TablesGo'
  BY EffectKeeps DEF TablesInv, TablesTypes
<1>3. ASSUME NEW q \in Process, NEW u \in Table, ~(q = p /\ u = t) PROVE StillThere(q, u)'
  <2>1. /\ task'[q][u] = task[q][u] /\ provider' = provider /\ fresh' = fresh
        /\ rows'[u] \subseteq rows[u]
    BY <1>3 DEF Effect, Moves
  <2>2. StillThere(q, u)
    BY DEF TablesInv, RowsGo
  <2>. QED
    BY <2>1, <2>2, RowsStayGone
<1>. QED
  BY <1>1, <1>2, <1>3 DEF TablesInv, RowsGo

LEMMA ScanKeeps ==
  ASSUME TablesInv, NEW p \in Process, NEW t \in Table, Scan(p, t)
  PROVE  TablesInv'
<1>1. PICK w : w = task[p][t]
  OBVIOUS
<1>2. PICK page : page = Page(t, w.cursor)
  OBVIOUS
<1>3. PICK more : more = (\E r \in rows[t] : r > Max(page))
  OBVIOUS
<1>4. PICK next : next = IF status[t] # "active" THEN [pc |-> "failed"]
                         ELSE IF page = {} THEN [w EXCEPT !.pc = "scanned"]
                         ELSE [pc |-> "write", before |-> w.before, lost |-> w.lost, cursor |-> Max(page),
                               batch |-> Targets(t) \X page, more |-> more]
  OBVIOUS
<1>5. w.pc = "scan" /\ To(p, t, next) /\ UNCHANGED Database /\ UNCHANGED Calls
  BY <1>1, <1>2, <1>3, <1>4 DEF Scan
<1>6. TablesTypes /\ w \in TaskType /\ rows[t] \subseteq Row /\ rows \in [Table -> SUBSET Row]
  BY <1>1 DEF TablesInv, TablesTypes, TablesTypeOK
<1>7. w \in Reading
  BY <1>5, <1>6, TaskForms
<1>8. /\ w.cursor \in Int /\ w.before \subseteq Row /\ w.lost \subseteq Row
      /\ Row \subseteq Nat
  BY <1>7, TablesAssumption DEF Reading
<1>9. /\ page \subseteq rows[t]
      /\ page = {} => \A r \in rows[t] : r <= w.cursor
      /\ page # {} => /\ Max(page) \in page
                      /\ \A r \in rows[t] : r > w.cursor => r \in page \/ r > Max(page)
  BY <1>2, <1>6, <1>8, PageIsNext
<1>10. t \in Targets(t) /\ Targets(t) \subseteq Table
  BY DEF Targets, Table
<1>11. StillThere(p, t)
  BY DEF TablesInv, RowsGo
<1>12. PICK left : left = rows[t] \cap w.before
  OBVIOUS
<1>13. /\ w.before \cap fresh = {} /\ \A r \in left : r > w.cursor \/ r \in w.lost
       /\ provider = "dynamodb" /\ t # "snapshots" => w.lost = {}
       /\ provider = "azuretable" => w.lost = {}
  BY <1>1, <1>5, <1>11, <1>12 DEF StillThere
<1>14. \A r \in left : r \in rows[t] /\ r \in Int
  <2>. SUFFICES ASSUME NEW r \in left PROVE r \in rows[t] /\ r \in Int
    OBVIOUS
  <2>1. r \in rows[t] /\ r \in Row
    BY <1>6, <1>12
  <2>. QED
    BY <1>8, <2>1
<1>15. /\ next \in TaskType
       /\ next.pc \in {"failed", "scanned", "write"}
       /\ task'[p][t] = next /\ UNCHANGED <<rows, fresh, provider>> => StillThere(p, t)'
  <2>1. CASE status[t] # "active"
    <3>1. next = [pc |-> "failed"]
      BY <1>4, <2>1
    <3>2. next \in TaskType /\ next.pc = "failed"
      BY <3>1, SimpleTasks DEF Over
    <3>. QED
      BY <3>2 DEF StillThere
  <2>2. CASE status[t] = "active" /\ page = {}
    <3>1. next = [w EXCEPT !.pc = "scanned"]
      BY <1>4, <2>2
    <3>2. /\ next \in Reading /\ next.pc = "scanned"
          /\ next.before = w.before /\ next.lost = w.lost
      BY <1>7, <3>1 DEF Reading
    <3>3. left \subseteq w.lost
      BY <1>8, <1>9, <1>13, <1>14, <2>2
    <3>4. next \in TaskType
      BY <3>2 DEF TaskType
    <3>5. ASSUME task'[p][t] = next, UNCHANGED <<rows, fresh, provider>> PROVE StillThere(p, t)'
      BY <1>12, <1>13, <3>2, <3>3, <3>5 DEF StillThere
    <3>. QED
      BY <3>2, <3>4, <3>5
  <2>3. CASE status[t] = "active" /\ page # {}
    <3>1. next = [pc |-> "write", before |-> w.before, lost |-> w.lost, cursor |-> Max(page),
                  batch |-> Targets(t) \X page, more |-> more]
      BY <1>4, <2>3
    <3>2. PICK m : m = Max(page)
      OBVIOUS
    <3>3. m \in page /\ m \in Int /\ page \subseteq Row /\ more \in BOOLEAN
      <4>1. m \in page /\ page \subseteq Row
        BY <1>6, <1>9, <2>3, <3>2
      <4>2. m \in Int
        BY <1>8, <4>1
      <4>3. more \in BOOLEAN
        BY <1>3, Zenon
      <4>. QED
        BY <4>1, <4>2, <4>3
    <3>4. Targets(t) \X page \in SUBSET (Table \X Row)
      BY <1>10, <3>3
    <3>5. /\ next.pc = "write" /\ next.before = w.before /\ next.lost = w.lost /\ next.cursor = m
          /\ next.batch = Targets(t) \X page /\ next.more = more
      BY <3>1, <3>2
    <3>6. next \in Writing
      BY <1>8, <3>1, <3>2, <3>3, <3>4 DEF Writing
    <3>7. next \in TaskType
      BY <3>6 DEF TaskType
    <3>8. ASSUME NEW r \in left
          PROVE  <<t, r>> \in next.batch \/ (r > m /\ more) \/ r \in w.lost
      <4>1. r \in w.lost \/ r > w.cursor
        BY <1>13
      <4>2. r \in w.lost \/ r \in page \/ r > m
        BY <1>9, <1>14, <2>3, <3>2, <4>1
      <4>3. r > m => more
        BY <1>3, <1>14, <3>2
      <4>. QED
        BY <1>10, <3>5, <4>2, <4>3
    <3>9. \A i \in next.batch : i[1] \in Targets(t)
      BY <3>5
    <3>10. ASSUME task'[p][t] = next, UNCHANGED <<rows, fresh, provider>> PROVE StillThere(p, t)'
      <4>1. Targets(t)' = Targets(t)
        BY <3>10 DEF Targets
      <4>. QED
        BY <1>10, <1>12, <1>13, <3>5, <3>8, <3>9, <3>10, <4>1 DEF StillThere
    <3>. QED
      BY <3>5, <3>7, <3>10
  <2>. QED
    BY <2>1, <2>2, <2>3
<1>16. Moves(p, t, next) /\ task' \in [Process -> [Table -> TaskType]]
  BY <1>5, <1>6, <1>15, ToMoves DEF TablesTypes
<1>17. Effect(p, t, next)
  BY <1>1, <1>5, <1>6, <1>15, <1>16 DEF Effect, Database, Calls, TablesTypes, TablesTypeOK, Creating
<1>18. task'[p][t] = next /\ UNCHANGED <<rows, fresh, provider>>
  BY <1>5, <1>16 DEF Moves, Database, Calls
<1>. QED
  BY <1>15, <1>17, <1>18, ClearWorks

LEMMA QueuedKeeps ==
  ASSUME TablesInv, NEW p \in Process, Queued(p)
  PROVE  TablesInv'
<1>1. PICK w, t : w = task[p][t] /\ t = "events"
  OBVIOUS
<1>2. PICK next : next = IF task[p]["undispatched"].pc = "failed" THEN [pc |-> "failed"] ELSE [w EXCEPT !.pc = "scan"]
  OBVIOUS
<1>3. w.pc = "queued" /\ To(p, t, next) /\ UNCHANGED Database /\ UNCHANGED Calls /\ t \in Table
  BY <1>1, <1>2 DEF Queued, Table
<1>4. TablesTypes /\ w \in TaskType /\ rows \in [Table -> SUBSET Row]
  BY <1>1, <1>3 DEF TablesInv, TablesTypes, TablesTypeOK
<1>5. w \in Reading
  BY <1>3, <1>4, TaskForms
<1>6. StillThere(p, t)
  BY <1>3 DEF TablesInv, RowsGo
<1>7. \/ next = [pc |-> "failed"]
      \/ next = [w EXCEPT !.pc = "scan"]
  BY <1>2
<1>8. \/ next = [pc |-> "failed"] /\ next.pc = "failed"
      \/ /\ next \in Reading /\ next.pc = "scan" /\ next.cursor = w.cursor
         /\ next.before = w.before /\ next.lost = w.lost
  BY <1>5, <1>7 DEF Reading
<1>9. next \in TaskType /\ next.pc \in {"failed", "scan"}
  BY <1>8, SimpleTasks DEF TaskType, Over
<1>10. Moves(p, t, next) /\ task' \in [Process -> [Table -> TaskType]]
  BY <1>3, <1>4, <1>9, ToMoves DEF TablesTypes
<1>11. Effect(p, t, next)
  BY <1>1, <1>3, <1>4, <1>9, <1>10 DEF Effect, Database, Calls, TablesTypes, TablesTypeOK, Creating
<1>12. task'[p][t] = next /\ UNCHANGED <<rows, fresh, provider>>
  BY <1>3, <1>10 DEF Moves, Database, Calls
<1>13. StillThere(p, t)'
  <2>1. PICK left : left = rows[t] \cap w.before
    OBVIOUS
  <2>2. /\ w.before \cap fresh = {} /\ \A r \in left : r > w.cursor \/ r \in w.lost
        /\ provider = "dynamodb" /\ t # "snapshots" => w.lost = {}
        /\ provider = "azuretable" => w.lost = {}
    BY <1>1, <1>3, <1>6, <2>1 DEF StillThere
  <2>3. CASE next.pc = "failed"
    BY <1>12, <2>3 DEF StillThere
  <2>4. CASE next.pc = "scan"
    BY <1>8, <1>12, <2>1, <2>2, <2>4 DEF StillThere
  <2>. QED
    BY <1>9, <2>3, <2>4
<1>. QED
  BY <1>3, <1>11, <1>13, ClearWorks

LEMMA WriteKeeps ==
  ASSUME TablesInv, NEW p \in Process, NEW t \in Table, Write(p, t)
  PROVE  TablesInv'
<1>1. PICK w : w = task[p][t]
  OBVIOUS
<1>2. w.pc = "write" /\ UNCHANGED status /\ UNCHANGED Calls
  BY <1>1 DEF Write
<1>3. PICK kept : /\ kept \in IF throttled < MaxThrottles /\ provider = "dynamodb" THEN SUBSET w.batch ELSE {{}}
                  /\ rows' = [u \in Table |-> rows[u] \ {i[2] : i \in {j \in w.batch \ kept : j[1] = u}}]
                  /\ throttled' = IF kept = {} THEN throttled ELSE throttled + 1
                  /\ To(p, t,
                        IF \E u \in {i[1] : i \in w.batch} : status[u] # "active" THEN [pc |-> "failed"]
                        ELSE IF provider = "azuretable"
                        THEN [pc |-> IF \E i \in w.batch : i[2] \notin rows[i[1]] THEN "failed" ELSE "scanned",
                              before |-> w.before, lost |-> {r \in rows[t] : r > w.cursor}]
                        ELSE IF Unprocessed(t, kept) # {} THEN [w EXCEPT !.batch = Unprocessed(t, kept)]
                        ELSE [pc |-> IF w.more THEN "scan" ELSE "scanned", cursor |-> w.cursor,
                              before |-> w.before, lost |-> w.lost \cup {i[2] : i \in kept \ Unprocessed(t, kept)}])
  BY <1>1 DEF Write
<1>4. PICK again, gone : /\ again = Unprocessed(t, kept)
                         /\ gone = (\E i \in w.batch : i[2] \notin rows[i[1]])
  OBVIOUS
<1>5. PICK next : next = IF \E u \in {i[1] : i \in w.batch} : status[u] # "active" THEN [pc |-> "failed"]
                         ELSE IF provider = "azuretable"
                         THEN [pc |-> IF gone THEN "failed" ELSE "scanned",
                               before |-> w.before, lost |-> {r \in rows[t] : r > w.cursor}]
                         ELSE IF again # {} THEN [w EXCEPT !.batch = again]
                         ELSE [pc |-> IF w.more THEN "scan" ELSE "scanned", cursor |-> w.cursor,
                               before |-> w.before, lost |-> w.lost \cup {i[2] : i \in kept \ again}]
  OBVIOUS
<1>6. To(p, t, next)
  BY <1>3, <1>4, <1>5
<1>7. TablesTypes /\ w \in TaskType /\ rows \in [Table -> SUBSET Row] /\ rows[t] \subseteq Row
  BY <1>1 DEF TablesInv, TablesTypes, TablesTypeOK
<1>8. w \in Writing
  BY <1>2, <1>7, TaskForms
<1>9. /\ w.cursor \in Int /\ w.before \subseteq Row /\ w.lost \subseteq Row /\ w.more \in BOOLEAN
      /\ w.batch \subseteq Table \X Row
  BY <1>8 DEF Writing
<1>10. kept \subseteq w.batch /\ (provider = "azuretable" => kept = {})
  BY <1>3, <1>7 DEF TablesTypes
<1>11. again \subseteq kept /\ (t # "snapshots" => again = kept)
  BY <1>4 DEF Unprocessed
<1>12. throttled' \in 0 .. MaxThrottles
  BY <1>3, <1>7, TablesAssumption DEF TablesTypes, TablesTypeOK
<1>13. /\ rows' \in [Table -> SUBSET Row]
       /\ \A u \in Table : rows'[u] \subseteq rows[u]
       /\ \A r \in rows'[t] : <<t, r>> \in w.batch => <<t, r>> \in kept
  <2>1. \A u \in Table : rows'[u] = rows[u] \ {i[2] : i \in {j \in w.batch \ kept : j[1] = u}}
    BY <1>3
  <2>2. \A u \in Table : rows'[u] \subseteq rows[u]
    BY <2>1
  <2>3. rows' \in [Table -> SUBSET Row]
    BY <1>3, <1>7
  <2>4. ASSUME NEW r \in rows'[t], <<t, r>> \in w.batch, <<t, r>> \notin kept PROVE FALSE
    <3>1. r \notin {i[2] : i \in {j \in w.batch \ kept : j[1] = t}}
      BY <2>1, <2>4
    <3>2. <<t, r>> \in {j \in w.batch \ kept : j[1] = t} /\ <<t, r>>[2] = r
      BY <2>4
    <3>. QED
      BY <3>1, <3>2
  <2>. QED
    BY <2>2, <2>3, <2>4
<1>14. StillThere(p, t)
  BY DEF TablesInv, RowsGo
<1>15. PICK left : left = rows'[t] \cap w.before
  OBVIOUS
<1>16. /\ w.before \cap fresh = {} /\ t \in Targets(t) /\ \A i \in w.batch : i[1] \in Targets(t)
       /\ provider = "dynamodb" /\ t # "snapshots" => w.lost = {}
       /\ provider = "azuretable" => w.lost = {}
  BY <1>1, <1>2, <1>14 DEF StillThere
<1>17. ASSUME NEW r \in left
       PROVE  /\ r \in rows[t] /\ r \in Int
              /\ \/ <<t, r>> \in kept
                 \/ r > w.cursor /\ (w.more \/ provider = "azuretable")
                 \/ r \in w.lost
  <2>1. r \in rows[t] \cap w.before /\ r \in rows'[t] /\ r \in Row
    BY <1>9, <1>13, <1>15
  <2>2. r \in Int
    BY <2>1, TablesAssumption
  <2>3. \/ <<t, r>> \in w.batch
        \/ r > w.cursor /\ (w.more \/ provider = "azuretable")
        \/ r \in w.lost
    BY <1>1, <1>2, <1>14, <2>1 DEF StillThere
  <2>. QED
    BY <1>13, <2>1, <2>2, <2>3
<1>18. UNCHANGED <<provider, fresh, op, removals, alone, calls>>
  BY <1>2 DEF Calls
<1>19. /\ next \in TaskType
       /\ next.pc \in {"failed", "scan", "write", "scanned"}
       /\ task'[p][t] = next => StillThere(p, t)'
  <2>1. CASE next = [pc |-> "failed"]
    <3>1. next \in TaskType /\ next.pc = "failed"
      BY <2>1, SimpleTasks DEF Over
    <3>. QED
      BY <3>1 DEF StillThere
  <2>2. CASE /\ provider = "azuretable"
             /\ next = [pc |-> IF gone THEN "failed" ELSE "scanned",
                        before |-> w.before, lost |-> {r \in rows[t] : r > w.cursor}]
    <3>1. PICK x, l : x = (IF gone THEN "failed" ELSE "scanned") /\ l = {r \in rows[t] : r > w.cursor}
      OBVIOUS
    <3>2. next = [pc |-> x, before |-> w.before, lost |-> l] /\ l \subseteq Row
      BY <1>7, <2>2, <3>1
    <3>3. x \in {"failed", "scanned"} /\ next.pc = x /\ next.before = w.before /\ next.lost = l
      BY <3>1, <3>2
    <3>4. next \in TaskType
      BY <1>9, <3>1, <3>2, <3>3 DEF TaskType, FirstPage
    <3>5. \A r \in left : r \in l
      BY <1>10, <1>16, <1>17, <2>2, <3>1
    <3>6. ASSUME task'[p][t] = next PROVE StillThere(p, t)'
      BY <1>15, <1>16, <1>18, <2>2, <3>3, <3>5, <3>6 DEF StillThere
    <3>. QED
      BY <3>3, <3>4, <3>6
  <2>3. CASE again # {} /\ provider # "azuretable" /\ next = [w EXCEPT !.batch = again]
    <3>1. /\ next \in Writing /\ next.pc = "write" /\ next.cursor = w.cursor /\ next.before = w.before
          /\ next.lost = w.lost /\ next.more = w.more /\ next.batch = again
      BY <1>2, <1>8, <1>9, <1>10, <1>11, <2>3 DEF Writing
    <3>2. next \in TaskType
      BY <3>1 DEF TaskType
    <3>3. \A r \in left : \/ <<t, r>> \in again
                          \/ r > w.cursor /\ (w.more \/ provider = "azuretable")
                          \/ r \in w.lost
      <4>1. t # "snapshots"
        BY <1>4, <2>3 DEF Unprocessed
      <4>. QED
        BY <1>11, <1>17, <4>1
    <3>4. \A i \in again : i[1] \in Targets(t)
      BY <1>10, <1>11, <1>16
    <3>5. ASSUME task'[p][t] = next PROVE StillThere(p, t)'
      <4>1. Targets(t)' = Targets(t)
        BY <1>18 DEF Targets
      <4>. QED
        BY <1>15, <1>16, <1>18, <3>1, <3>3, <3>4, <3>5, <4>1 DEF StillThere
    <3>. QED
      BY <3>1, <3>2, <3>5
  <2>4. CASE /\ again = {} /\ provider # "azuretable"
             /\ next = [pc |-> IF w.more THEN "scan" ELSE "scanned", cursor |-> w.cursor,
                        before |-> w.before, lost |-> w.lost \cup {i[2] : i \in kept \ again}]
    <3>1. PICK x, l : x = (IF w.more THEN "scan" ELSE "scanned") /\ l = w.lost \cup {i[2] : i \in kept}
      OBVIOUS
    <3>2. next = [pc |-> x, cursor |-> w.cursor, before |-> w.before, lost |-> l]
      BY <2>4, <3>1
    <3>3. l \subseteq Row /\ x \in {"scan", "scanned"}
      <4>1. \A i \in kept : i[2] \in Row
        BY <1>9, <1>10
      <4>. QED
        BY <1>9, <3>1, <4>1
    <3>4. /\ next \in Reading /\ next.pc = x /\ next.cursor = w.cursor /\ next.before = w.before
          /\ next.lost = l
      BY <1>9, <3>2, <3>3 DEF Reading
    <3>5. next \in TaskType
      BY <3>4 DEF TaskType
    <3>6. ASSUME NEW r \in left PROVE r \in l \/ (r > w.cursor /\ x = "scan")
      <4>1. <<t, r>> \in kept => r \in l
        <5>1. <<t, r>> \in kept => <<t, r>>[2] \in {i[2] : i \in kept}
          OBVIOUS
        <5>. QED
          BY <3>1, <5>1
      <4>2. \/ <<t, r>> \in kept
            \/ r > w.cursor /\ (w.more \/ provider = "azuretable")
            \/ r \in w.lost
        BY <1>17
      <4>3. w.more => x = "scan"
        BY <3>1
      <4>4. r \in w.lost => r \in l
        BY <3>1
      <4>. QED
        BY <2>4, <4>1, <4>2, <4>3, <4>4
    <3>7. provider = "dynamodb" /\ t # "snapshots" => l = {}
      BY <1>11, <1>16, <2>4, <3>1
    <3>8. ASSUME task'[p][t] = next PROVE StillThere(p, t)'
      BY <1>15, <1>16, <1>18, <2>4, <3>3, <3>4, <3>6, <3>7, <3>8 DEF StillThere
    <3>. QED
      BY <3>3, <3>4, <3>5, <3>8
  <2>. QED
    BY <1>5, <2>1, <2>2, <2>3, <2>4
<1>20. Moves(p, t, next) /\ task' \in [Process -> [Table -> TaskType]]
  BY <1>6, <1>7, <1>19, ToMoves DEF TablesTypes
<1>21. Effect(p, t, next)
  BY <1>1, <1>2, <1>7, <1>12, <1>13, <1>18, <1>19, <1>20 DEF Effect, TablesTypes, TablesTypeOK, Creating
<1>22. task'[p][t] = next
  BY <1>20 DEF Moves
<1>. QED
  BY <1>19, <1>21, <1>22, ClearWorks

-----------------------------------------------------------------------------
(* Calls *)

\* The tasks of a process begin anew, in a database that stays as it is.
BeginsAnew(p, f, x) ==
  /\ f \in [Table -> TaskType]
  /\ \A u \in Table : f[u].pc \in {"queued", "scan", "write", "scanned"} =>
       /\ f[u].pc \in {"queued", "scan"} /\ f[u].cursor = -1 /\ f[u].before = rows[u] /\ f[u].lost = {}
  /\ op' = [op EXCEPT ![p] = x] /\ task' = [task EXCEPT ![p] = f]
  /\ UNCHANGED <<provider, fresh, status, rows, throttled>>

Ops == {"new", "connecting", "connected", "removing", "removed", "clearing", "cleared", "failed", "thrown"}

LEMMA AnewKeeps ==
  ASSUME TablesInv, NEW p \in Process, NEW f, NEW x \in Ops, BeginsAnew(p, f, x),
         removals' \in BOOLEAN, alone' \subseteq Process, calls' \in 0 .. MaxCalls
  PROVE  /\ TablesTypes' /\ RowsGo'
         /\ \A q \in Process : op'[q] = IF q = p THEN x ELSE op[q]
         /\ \A q \in Process, u \in Table : task'[q][u] = IF q = p THEN f[u] ELSE task[q][u]
<1>1. /\ task' \in [Process -> [Table -> TaskType]]
      /\ \A q \in Process, u \in Table : task'[q][u] = IF q = p THEN f[u] ELSE task[q][u]
  BY AllMove DEF BeginsAnew, TablesInv, TablesTypes
<1>2. op' \in [Process -> Ops] /\ \A q \in Process : op'[q] = IF q = p THEN x ELSE op[q]
  BY DEF BeginsAnew, TablesInv, TablesTypes, TablesTypeOK, Ops
<1>3. \A q \in Process, u \in Table : task'[q][u] \in TaskType
  BY <1>1
<1>4. \A q \in Process, u \in Table :
        task'[q][u].pc \in Over \cup {"exists", "create", "active", "createIfNotExists", "listed",
                                     "delete", "deleted", "queued", "scan", "write", "scanned"}
  BY <1>3, TaskForms
<1>5. TablesTypes'
  BY <1>1, <1>2, <1>4 DEF BeginsAnew, TablesInv, TablesTypes, TablesTypeOK, Ops
<1>6. ASSUME NEW q \in Process, NEW u \in Table PROVE StillThere(q, u)'
  <2>1. CASE q # p
    <3>1. task'[q][u] = task[q][u]
      BY <1>1, <2>1
    <3>2. StillThere(q, u)
      BY DEF TablesInv, RowsGo
    <3>3. provider' = provider /\ fresh' \subseteq fresh /\ rows'[u] \subseteq rows[u]
      BY DEF BeginsAnew
    <3>. QED
      BY <3>1, <3>2, <3>3, RowsStayGone
  <2>2. CASE q = p /\ f[u].pc \in {"queued", "scan", "write", "scanned"}
    <3>1. task'[q][u] = f[u] /\ UNCHANGED <<provider, fresh, rows>>
      BY <1>1, <2>2 DEF BeginsAnew
    <3>2. /\ f[u].pc \in {"queued", "scan"} /\ f[u].cursor = -1 /\ f[u].before = rows[u] /\ f[u].lost = {}
      BY <2>2 DEF BeginsAnew
    <3>3. rows[u] \subseteq Row \ fresh
      BY DEF TablesInv, TablesTypes, TablesTypeOK
    <3>4. \A r \in rows[u] : r > -1
      <4>1. \A r \in rows[u] : r \in Nat
        BY <3>3, TablesAssumption
      <4>. QED
        BY <4>1
    <3>. QED
      BY <3>1, <3>2, <3>3, <3>4 DEF StillThere
  <2>3. CASE q = p /\ f[u].pc \notin {"queued", "scan", "write", "scanned"}
    <3>1. task'[q][u] = f[u]
      BY <1>1, <2>3
    <3>. QED
      BY <2>3, <3>1 DEF StillThere
  <2>. QED
    BY <2>1, <2>2, <2>3
<1>. QED
  BY <1>1, <1>2, <1>5, <1>6 DEF RowsGo

LEMMA AllAreSimple ==
  ASSUME NEW x \in Over \cup {"exists", "create", "active", "createIfNotExists", "listed", "delete", "deleted"}
  PROVE  All(x) \in [Table -> TaskType] /\ \A u \in Table : All(x)[u].pc = x
BY SimpleTasks DEF All

LEMMA ConnectKeeps ==
  ASSUME TablesInv, NEW p \in Process, Connect(p)
  PROVE  TablesInv'
<1>1. PICK x : x = IF provider = "dynamodb" THEN "exists" ELSE "createIfNotExists"
  OBVIOUS
<1>2. PICK f : f = All(x)
  OBVIOUS
<1>3. f \in [Table -> TaskType] /\ \A u \in Table : f[u].pc \in {"exists", "createIfNotExists"}
  BY <1>1, <1>2, AllAreSimple DEF Over
<1>4. /\ BeginsAnew(p, f, "connecting")
      /\ removals' = removals /\ alone' = {} /\ status' = status
  BY <1>1, <1>2, <1>3 DEF Connect, Database, BeginsAnew
<1>5. calls' \in 0 .. MaxCalls /\ removals' \in BOOLEAN /\ alone' \subseteq Process
  BY <1>4, TablesAssumption DEF Connect, TablesInv, TablesTypes, TablesTypeOK
<1>6. /\ TablesTypes' /\ RowsGo'
      /\ \A q \in Process : op'[q] = IF q = p THEN "connecting" ELSE op[q]
      /\ \A q \in Process, u \in Table : task'[q][u] = IF q = p THEN f[u] ELSE task[q][u]
  BY <1>4, <1>5, AnewKeeps DEF Ops
<1>7. TasksFit' /\ TablesStay'
  BY <1>3, <1>4, <1>6 DEF TablesInv, TasksFit, TablesStay
<1>8. TablesGo'
  BY <1>4 DEF TablesGo
<1>. QED
  BY <1>6, <1>7, <1>8 DEF TablesInv

LEMMA RemoveTablesKeeps ==
  ASSUME TablesInv, NEW p \in Process, RemoveTables(p)
  PROVE  TablesInv'
<1>1. PICK f : f = [t \in Table |-> [pc |-> IF status[t] = "none" THEN "done" ELSE "listed"]]
  OBVIOUS
<1>2. /\ f \in [Table -> TaskType]
      /\ \A u \in Table : f[u].pc = IF status[u] = "none" THEN "done" ELSE "listed"
  BY <1>1, SimpleTasks DEF Over
<1>3. /\ BeginsAnew(p, f, "removing")
      /\ removals' = TRUE /\ status' = status
      /\ alone' = IF \E q \in Process, t \in Table : task[q][t].pc \in Creating THEN alone ELSE alone \cup {p}
  BY <1>1, <1>2 DEF RemoveTables, Database, BeginsAnew
<1>4. calls' \in 0 .. MaxCalls /\ removals' \in BOOLEAN /\ alone' \subseteq Process
  BY <1>3, TablesAssumption DEF RemoveTables, TablesInv, TablesTypes, TablesTypeOK
<1>5. /\ TablesTypes' /\ RowsGo'
      /\ \A q \in Process : op'[q] = IF q = p THEN "removing" ELSE op[q]
      /\ \A q \in Process, u \in Table : task'[q][u] = IF q = p THEN f[u] ELSE task[q][u]
  BY <1>3, <1>4, AnewKeeps DEF Ops
<1>6. TasksFit' /\ TablesStay'
  BY <1>2, <1>3, <1>5 DEF TablesInv, TasksFit, TablesStay
<1>7. TablesGo'
  <2>. SUFFICES ASSUME NEW a \in alone'
                PROVE  /\ \A q \in Process, u \in Table : task'[q][u].pc \notin Creating
                       /\ \A u \in Table :
                            \/ op'[a] = "removing" /\ task'[a][u].pc = "done"
                            \/ op'[a] = "removed"
                            => status'[u] = "none"
    BY DEF TablesGo
  <2>1. a \in Process
    BY <1>4
  <2>2. \A q \in Process, u \in Table : task[q][u].pc \notin Creating
    BY <1>3 DEF TablesInv, TablesGo
  <2>3. \A q \in Process, u \in Table : task'[q][u].pc \notin Creating
    BY <1>2, <1>5, <2>2 DEF Creating
  <2>4. CASE a = p
    BY <1>2, <1>3, <1>5, <2>3, <2>4
  <2>5. CASE a # p
    <3>1. a \in alone
      BY <1>3, <2>5
    <3>. QED
      BY <1>3, <1>5, <2>1, <2>3, <2>5, <3>1 DEF TablesInv, TablesGo
  <2>. QED
    BY <2>4, <2>5
<1>. QED
  BY <1>5, <1>6, <1>7 DEF TablesInv

LEMMA ClearKeeps ==
  ASSUME TablesInv, NEW p \in Process, Clear(p)
  PROVE  TablesInv'
<1>1. PICK f : f = [t \in Table |-> [pc |-> IF t = "events" /\ provider = "dynamodb" THEN "queued" ELSE "scan",
                                     cursor |-> -1, before |-> rows[t], lost |-> {}]]
  OBVIOUS
<1>2. \A u \in Table : rows[u] \subseteq Row
  BY DEF TablesInv, TablesTypes, TablesTypeOK
<1>3. ASSUME NEW u \in Table
      PROVE  /\ f[u] \in Reading /\ f[u].pc \in {"queued", "scan"}
             /\ f[u].cursor = -1 /\ f[u].before = rows[u] /\ f[u].lost = {}
  <2>1. PICK x : x = IF u = "events" /\ provider = "dynamodb" THEN "queued" ELSE "scan"
    OBVIOUS
  <2>2. f[u] = [pc |-> x, cursor |-> -1, before |-> rows[u], lost |-> {}]
    BY <1>1, <2>1
  <2>3. x \in {"queued", "scan"}
    BY <2>1
  <2>. QED
    BY <1>2, <2>2, <2>3 DEF Reading
<1>4. f \in [Table -> TaskType]
  BY <1>1, <1>3 DEF TaskType
<1>5. /\ BeginsAnew(p, f, "clearing")
      /\ removals' = removals /\ alone' = alone /\ status' = status
      /\ \A u \in Table : status[u] = "active"
  BY <1>1, <1>3, <1>4 DEF Clear, Database, BeginsAnew
<1>6. calls' \in 0 .. MaxCalls /\ removals' \in BOOLEAN /\ alone' \subseteq Process
  BY <1>5, TablesAssumption DEF Clear, TablesInv, TablesTypes, TablesTypeOK
<1>7. /\ TablesTypes' /\ RowsGo'
      /\ \A q \in Process : op'[q] = IF q = p THEN "clearing" ELSE op[q]
      /\ \A q \in Process, u \in Table : task'[q][u] = IF q = p THEN f[u] ELSE task[q][u]
  BY <1>5, <1>6, AnewKeeps DEF Ops
<1>8. TasksFit' /\ TablesStay'
  BY <1>3, <1>5, <1>7 DEF TablesInv, TasksFit, TablesStay
<1>9. TablesGo'
  <2>1. alone \subseteq Process
    BY DEF TablesInv, TablesTypes
  <2>. QED
    BY <1>3, <1>5, <1>7, <2>1 DEF TablesInv, TablesGo, Creating
<1>. QED
  BY <1>7, <1>8, <1>9 DEF TablesInv

LEMMA ProceedKeeps ==
  ASSUME TablesInv, NEW p \in Process, Proceed(p)
  PROVE  TablesInv'
<1>1. PICK f : f = All("rest")
  OBVIOUS
<1>2. f \in [Table -> TaskType] /\ \A u \in Table : f[u].pc = "rest"
  BY <1>1, AllAreSimple DEF Over
<1>3. BeginsAnew(p, f, "connected") /\ op[p] = "cleared" /\ UNCHANGED <<removals, alone, calls, status>>
  BY <1>1, <1>2 DEF Proceed, Database, BeginsAnew
<1>4. calls' \in 0 .. MaxCalls /\ removals' \in BOOLEAN /\ alone' \subseteq Process
  BY <1>3 DEF TablesInv, TablesTypes, TablesTypeOK
<1>5. /\ TablesTypes' /\ RowsGo'
      /\ \A q \in Process : op'[q] = IF q = p THEN "connected" ELSE op[q]
      /\ \A q \in Process, u \in Table : task'[q][u] = IF q = p THEN f[u] ELSE task[q][u]
  BY <1>3, <1>4, AnewKeeps DEF Ops
<1>6. TasksFit' /\ TablesStay'
  BY <1>2, <1>3, <1>5 DEF TablesInv, TasksFit, TablesStay
<1>7. TablesGo'
  <2>1. alone \subseteq Process
    BY DEF TablesInv, TablesTypes
  <2>. QED
    BY <1>2, <1>3, <1>5, <2>1 DEF TablesInv, TablesGo, Creating
<1>. QED
  BY <1>5, <1>6, <1>7 DEF TablesInv

\* A table that is listed and gone when it is described ends the call with an exception.
LEMMA ThrownKeeps ==
  ASSUME TablesInv, NEW p \in Process, NEW t \in Table, Described(p, t), status[t] = "none"
  PROVE  TablesInv'
<1>1. PICK f : f = All("failed")
  OBVIOUS
<1>2. f \in [Table -> TaskType] /\ \A u \in Table : f[u].pc = "failed"
  BY <1>1, AllAreSimple DEF Over
<1>3. BeginsAnew(p, f, "thrown") /\ UNCHANGED <<removals, alone, calls, status>>
  BY <1>1, <1>2 DEF Described, Database, BeginsAnew
<1>4. calls' \in 0 .. MaxCalls /\ removals' \in BOOLEAN /\ alone' \subseteq Process
  BY <1>3 DEF TablesInv, TablesTypes, TablesTypeOK
<1>5. /\ TablesTypes' /\ RowsGo'
      /\ \A q \in Process : op'[q] = IF q = p THEN "thrown" ELSE op[q]
      /\ \A q \in Process, u \in Table : task'[q][u] = IF q = p THEN f[u] ELSE task[q][u]
  BY <1>3, <1>4, AnewKeeps DEF Ops
<1>6. TasksFit' /\ TablesStay'
  BY <1>2, <1>3, <1>5 DEF TablesInv, TasksFit, TablesStay
<1>7. TablesGo'
  <2>1. alone \subseteq Process
    BY DEF TablesInv, TablesTypes
  <2>. QED
    BY <1>2, <1>3, <1>5, <2>1 DEF TablesInv, TablesGo, Creating
<1>. QED
  BY <1>5, <1>6, <1>7 DEF TablesInv

\* What was done with the tables when a call is answered.
LEMMA AnswerKeeps ==
  ASSUME TablesInv, NEW p \in Process, Answer(p)
  PROVE  TablesInv'
<1>1. UNCHANGED <<provider, fresh, task, removals, alone, calls, status, rows, throttled>>
  BY DEF Answer, Database
<1>2. /\ op[p] \in {"connecting", "removing", "clearing"}
      /\ op \in [Process -> Ops]
  BY DEF Answer, TablesInv, TablesTypes, TablesTypeOK, Ops
<1>3. \E x \in Ops :
        /\ op' = [op EXCEPT ![p] = x]
        /\ x \in {"failed", "connected", "removed", "cleared"}
        /\ x = "connected" => op[p] = "connecting" /\ \A t \in Table : task[p][t].pc = "done"
        /\ x = "removed" => op[p] = "removing" /\ \A t \in Table : task[p][t].pc = "done"
        /\ x = "cleared" => op[p] = "clearing" /\ \A t \in Table : task[p][t].pc = "scanned"
  <2>1. CASE op' = [op EXCEPT ![p] = "failed"]
    BY <2>1 DEF Ops
  <2>2. CASE op' # [op EXCEPT ![p] = "failed"]
    <3>1. \A t \in Table : task[p][t].pc \in {"done", "scanned"}
      BY <2>2 DEF Answer
    <3>2. op' = [op EXCEPT ![p] = CASE @ = "connecting" -> "connected"
                                    [] @ = "removing"   -> "removed"
                                    [] @ = "clearing"   -> "cleared"]
      BY <2>2 DEF Answer
    <3>3. CASE op[p] = "connecting"
      <4>1. op' = [op EXCEPT ![p] = "connected"]
        BY <1>2, <3>2, <3>3
      <4>2. \A t \in Table : task[p][t].pc = "done"
        BY <3>1, <3>3 DEF TablesInv, TasksFit
      <4>. QED
        BY <3>3, <4>1, <4>2 DEF Ops
    <3>4. CASE op[p] = "removing"
      <4>1. op' = [op EXCEPT ![p] = "removed"]
        BY <1>2, <3>2, <3>4
      <4>2. \A t \in Table : task[p][t].pc = "done"
        BY <3>1, <3>4 DEF TablesInv, TasksFit
      <4>. QED
        BY <3>4, <4>1, <4>2 DEF Ops
    <3>5. CASE op[p] = "clearing"
      <4>1. op' = [op EXCEPT ![p] = "cleared"]
        BY <1>2, <3>2, <3>5
      <4>2. \A t \in Table : task[p][t].pc = "scanned"
        BY <3>1, <3>5 DEF TablesInv, TasksFit
      <4>. QED
        BY <3>5, <4>1, <4>2 DEF Ops
    <3>. QED
      BY <1>2, <3>3, <3>4, <3>5
  <2>. QED
    BY <2>1, <2>2
<1>4. PICK x \in Ops :
        /\ op' = [op EXCEPT ![p] = x]
        /\ x \in {"failed", "connected", "removed", "cleared"}
        /\ x = "connected" => op[p] = "connecting" /\ \A t \in Table : task[p][t].pc = "done"
        /\ x = "removed" => op[p] = "removing" /\ \A t \in Table : task[p][t].pc = "done"
        /\ x = "cleared" => op[p] = "clearing" /\ \A t \in Table : task[p][t].pc = "scanned"
  BY <1>3
<1>5. op' \in [Process -> Ops] /\ \A q \in Process : op'[q] = IF q = p THEN x ELSE op[q]
  BY <1>2, <1>4
<1>6. TablesTypes'
  BY <1>1, <1>5 DEF TablesInv, TablesTypes, TablesTypeOK, Ops
<1>7. TasksFit'
  BY <1>1, <1>4, <1>5 DEF TablesInv, TasksFit
<1>8. TablesStay'
  BY <1>1, <1>4, <1>5 DEF TablesInv, TablesStay
<1>9. TablesGo'
  <2>1. alone \subseteq Process
    BY DEF TablesInv, TablesTypes
  <2>. QED
    BY <1>1, <1>4, <1>5, <2>1 DEF TablesInv, TablesGo
<1>10. RowsGo'
  BY <1>1, RowsStayGone DEF TablesInv, RowsGo
<1>. QED
  BY <1>6, <1>7, <1>8, <1>9, <1>10 DEF TablesInv

-----------------------------------------------------------------------------
(* The database and other writers *)

LEMMA SettleKeeps ==
  ASSUME TablesInv, NEW t \in Table, Settle(t)
  PROVE  TablesInv'
<1>1. UNCHANGED <<provider, fresh, op, task, removals, alone, calls, throttled>>
  BY DEF Settle, Calls
<1>2. /\ status \in [Table -> {"none", "creating", "active", "deleting"}]
      /\ rows \in [Table -> SUBSET (Row \ fresh)]
  BY DEF TablesInv, TablesTypes, TablesTypeOK
<1>3. /\ status' \in [Table -> {"none", "creating", "active", "deleting"}]
      /\ rows' \in [Table -> SUBSET (Row \ fresh)]
      /\ \A u \in Table :
           /\ rows'[u] \subseteq rows[u]
           /\ status[u] = "active" => status'[u] = "active"
           /\ status[u] = "none" => status'[u] = "none"
           /\ status'[u] = "deleting" => status[u] = "deleting"
  <2>1. CASE status[t] = "creating"
    BY <1>2, <2>1 DEF Settle
  <2>2. CASE status[t] = "deleting"
    BY <1>2, <2>2 DEF Settle
  <2>. QED
    BY <2>1, <2>2 DEF Settle
<1>4. TablesTypes'
  BY <1>1, <1>3 DEF TablesInv, TablesTypes, TablesTypeOK
<1>5. TasksFit'
  BY <1>1 DEF TablesInv, TasksFit
<1>6. TablesStay'
  BY <1>1, <1>3 DEF TablesInv, TablesStay
<1>7. TablesGo'
  BY <1>1, <1>3 DEF TablesInv, TablesGo
<1>8. ASSUME NEW q \in Process, NEW u \in Table PROVE StillThere(q, u)'
  <2>1. StillThere(q, u)
    BY DEF TablesInv, RowsGo
  <2>2. task'[q][u] = task[q][u] /\ provider' = provider /\ fresh' = fresh /\ rows'[u] \subseteq rows[u]
    BY <1>1, <1>3
  <2>. QED
    BY <2>1, <2>2, RowsStayGone
<1>. QED
  BY <1>4, <1>5, <1>6, <1>7, <1>8 DEF TablesInv, RowsGo

LEMMA PutKeeps ==
  ASSUME TablesInv, NEW r \in Row, Put(r)
  PROVE  TablesInv'
<1>1. UNCHANGED <<provider, status, op, task, removals, alone, calls, throttled>>
  BY DEF Put
<1>2. r \in fresh /\ fresh' = fresh \ {r}
  BY DEF Put
<1>3. PICK ts : rows' = [t \in Table |-> IF t \in ts THEN rows[t] \cup {r} ELSE rows[t]]
  BY DEF Put
<1>4. fresh \subseteq Row /\ rows \in [Table -> SUBSET (Row \ fresh)]
  BY DEF TablesInv, TablesTypes, TablesTypeOK
<1>5. ASSUME NEW u \in Table
      PROVE  rows'[u] \subseteq Row \ fresh' /\ rows'[u] \subseteq rows[u] \cup (fresh \ fresh')
  BY <1>2, <1>3, <1>4
<1>6. rows' \in [Table -> SUBSET (Row \ fresh')]
  BY <1>3, <1>5
<1>7. TablesTypes'
  BY <1>1, <1>2, <1>4, <1>6 DEF TablesInv, TablesTypes, TablesTypeOK
<1>8. TasksFit' /\ TablesStay' /\ TablesGo'
  BY <1>1 DEF TablesInv, TasksFit, TablesStay, TablesGo
<1>9. ASSUME NEW q \in Process, NEW u \in Table PROVE StillThere(q, u)'
  <2>1. StillThere(q, u)
    BY DEF TablesInv, RowsGo
  <2>2. /\ task'[q][u] = task[q][u] /\ provider' = provider /\ fresh' \subseteq fresh
        /\ rows'[u] \subseteq rows[u] \cup (fresh \ fresh')
    BY <1>1, <1>2, <1>5
  <2>. QED
    BY <2>1, <2>2, RowsStayGone
<1>. QED
  BY <1>7, <1>8, <1>9 DEF TablesInv, RowsGo

LEMMA TablesStutter == TablesInv /\ UNCHANGED tablesVars => TablesInv'
<1>. SUFFICES ASSUME TablesInv, UNCHANGED tablesVars PROVE TablesInv'
  OBVIOUS
<1>1. TablesTypes'
  BY DEF tablesVars, TablesInv, TablesTypes, TablesTypeOK
<1>2. TasksFit' /\ TablesStay' /\ TablesGo'
  BY DEF tablesVars, TablesInv, TasksFit, TablesStay, TablesGo
<1>3. RowsGo'
  BY RowsStayGone DEF tablesVars, TablesInv, RowsGo
<1>. QED
  BY <1>1, <1>2, <1>3 DEF TablesInv

-----------------------------------------------------------------------------
(* Every step *)

LEMMA WorkKeeps ==
  ASSUME TablesInv, NEW p \in Process, Work(p)
  PROVE  TablesInv'
<1>1. TablesTypes
  BY DEF TablesInv
<1>2. CASE Queued(p)
  BY <1>2, QueuedKeeps
<1>3. CASE Answer(p)
  BY <1>3, AnswerKeeps
<1>4. ASSUME NEW t \in Table, NEW next, Effect(p, t, next),
             next.pc \in {"create", "done", "active", "failed", "delete", "deleted"}
      PROVE  TablesInv'
  BY <1>4, OthersWork
<1>5. ASSUME NEW t \in Table, Exists(p, t) PROVE TablesInv'
  BY <1>1, <1>4, <1>5, ExistsWorks
<1>6. ASSUME NEW t \in Table, Create(p, t) PROVE TablesInv'
  BY <1>1, <1>4, <1>6, CreateWorks
<1>7. ASSUME NEW t \in Table, Active(p, t) PROVE TablesInv'
  BY <1>1, <1>4, <1>7, ActiveWorks
<1>8. ASSUME NEW t \in Table, CreateIfNotExists(p, t) PROVE TablesInv'
  BY <1>1, <1>4, <1>8, CreateIfNotExistsWorks
<1>9. ASSUME NEW t \in Table, Described(p, t) PROVE TablesInv'
  <2>1. CASE status[t] = "none"
    BY <1>9, <2>1, ThrownKeeps
  <2>2. CASE status[t] # "none"
    BY <1>1, <1>4, <1>9, <2>2, DescribedWorks
  <2>. QED
    BY <2>1, <2>2
<1>10. ASSUME NEW t \in Table, Delete(p, t) PROVE TablesInv'
  BY <1>1, <1>4, <1>10, DeleteWorks
<1>11. ASSUME NEW t \in Table, Deleted(p, t) PROVE TablesInv'
  BY <1>1, <1>4, <1>11, DeletedWorks
<1>12. ASSUME NEW t \in Table, Scan(p, t) PROVE TablesInv'
  BY <1>12, ScanKeeps
<1>13. ASSUME NEW t \in Table, Write(p, t) PROVE TablesInv'
  BY <1>13, WriteKeeps
<1>. QED
  BY <1>2, <1>3, <1>5, <1>6, <1>7, <1>8, <1>9, <1>10, <1>11, <1>12, <1>13 DEF Work

LEMMA TablesNextKeeps == TablesInv /\ [TablesNext]_tablesVars => TablesInv'
<1>. SUFFICES ASSUME TablesInv, [TablesNext]_tablesVars PROVE TablesInv'
  OBVIOUS
<1>1. ASSUME NEW p \in Process, Connect(p) PROVE TablesInv'
  BY <1>1, ConnectKeeps
<1>2. ASSUME NEW p \in Process, RemoveTables(p) PROVE TablesInv'
  BY <1>2, RemoveTablesKeeps
<1>3. ASSUME NEW p \in Process, Clear(p) PROVE TablesInv'
  BY <1>3, ClearKeeps
<1>4. ASSUME NEW p \in Process, Proceed(p) PROVE TablesInv'
  BY <1>4, ProceedKeeps
<1>5. ASSUME NEW p \in Process, Work(p) PROVE TablesInv'
  BY <1>5, WorkKeeps
<1>6. ASSUME NEW t \in Table, Settle(t) PROVE TablesInv'
  BY <1>6, SettleKeeps
<1>7. ASSUME NEW r \in Row, Put(r) PROVE TablesInv'
  BY <1>7, PutKeeps
<1>8. ASSUME UNCHANGED tablesVars PROVE TablesInv'
  BY <1>8, TablesStutter
<1>. QED
  BY <1>1, <1>2, <1>3, <1>4, <1>5, <1>6, <1>7, <1>8 DEF TablesNext

LEMMA TablesInitHolds == TablesInit => TablesInv
<1>. SUFFICES ASSUME TablesInit PROVE TablesInv
  OBVIOUS
<1>1. All("rest") \in [Table -> TaskType] /\ \A u \in Table : All("rest")[u].pc = "rest"
  BY AllAreSimple DEF Over
<1>2. \A p \in Process, t \in Table : task[p][t].pc = "rest"
  BY <1>1 DEF TablesInit
<1>3. task \in [Process -> [Table -> TaskType]]
  BY <1>1 DEF TablesInit
<1>4. TablesTypeOK
  BY <1>2, TablesAssumption DEF TablesInit, TablesTypeOK, Over
<1>5. TablesTypes
  BY <1>3, <1>4 DEF TablesInit, TablesTypes
<1>6. TasksFit /\ TablesStay /\ TablesGo
  BY <1>2 DEF TablesInit, TasksFit, TablesStay, TablesGo
<1>7. RowsGo
  BY <1>2 DEF RowsGo, StillThere
<1>. QED
  BY <1>5, <1>6, <1>7 DEF TablesInv

LEMMA TablesInvIsEnough == TablesInv => UpkeepIsDone
<1>. SUFFICES ASSUME TablesInv PROVE UpkeepIsDone
  OBVIOUS
<1>1. ConnectedHasTables
  BY DEF TablesInv, TablesStay, ConnectedHasTables
<1>2. RemovedIsGone
  BY DEF TablesInv, TablesGo, RemovedIsGone
<1>3. ClearedIsEmpty
  <2>. SUFFICES ASSUME NEW p \in Process, op[p] = "cleared", NEW t \in Table
                PROVE  rows[t] \cap task[p][t].before \subseteq
                         IF provider = "azuretable" \/ t = "snapshots" THEN task[p][t].lost ELSE {}
    BY DEF ClearedIsEmpty
  <2>1. task[p][t].pc = "scanned" /\ StillThere(p, t)
    BY DEF TablesInv, TasksFit, RowsGo
  <2>2. provider \in {"dynamodb", "azuretable"}
    BY DEF TablesInv, TablesTypes
  <2>. QED
    BY <2>1, <2>2 DEF StillThere
<1>. QED
  BY <1>1, <1>2, <1>3 DEF UpkeepIsDone

-----------------------------------------------------------------------------
(* The theorems: each part moves alone. *)

LEMMA PartsKeep == TablesInv /\ BeatInv /\ [Next]_vars => (TablesInv /\ BeatInv)'
<1>. SUFFICES ASSUME TablesInv, BeatInv, [Next]_vars PROVE TablesInv' /\ BeatInv'
  OBVIOUS
<1>1. CASE OfTables(TablesNext /\ Apart)
  BY <1>1, TablesNextKeeps, BeatNextKeeps DEF OfTables
<1>2. CASE OfHeartbeat(BeatNext)
  BY <1>2, TablesNextKeeps, BeatNextKeeps DEF OfHeartbeat
<1>3. CASE UNCHANGED vars
  BY <1>3, TablesNextKeeps, BeatNextKeeps DEF vars
<1>. QED
  BY <1>1, <1>2, <1>3 DEF Next

\* The heartbeat of mongodb and redis closes no connection whose pings are answered in
\* time, and both parts keep their types (startHeartbeat, disconnect, close).
THEOREM HealthyConnectionsStay == Spec => []UpkeepOK
<1>1. Init => TablesInv /\ BeatInv
  BY TablesInitHolds, BeatInitHolds DEF Init
<1>2. TablesInv /\ BeatInv => UpkeepOK
  BY DEF TablesInv, TablesTypes, BeatInv, UpkeepOK, TypeOK
<1>. QED
  BY <1>1, <1>2, PartsKeep, PTL DEF Spec

\* Connect answers when all tables can be used, removeTables when they are gone, and
\* clear when what was stored before is gone, except for the rows that azuretable and
\* an unprocessed batch of snapshots leave; for any number of processes, rows and pages.
THEOREM UpkeepKeepsItsWord == Spec => []UpkeepIsDone
<1>1. Init => TablesInv /\ BeatInv
  BY TablesInitHolds, BeatInitHolds DEF Init
<1>2. TablesInv /\ BeatInv => UpkeepIsDone
  BY TablesInvIsEnough
<1>. QED
  BY <1>1, <1>2, PartsKeep, PTL DEF Spec
=============================================================================
