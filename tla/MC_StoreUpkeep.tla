---------------------------- MODULE MC_StoreUpkeep ----------------------------
(***************************************************************************)
(* The tables and the heartbeat share nothing: each behaviour is about one *)
(* of them, the other does not move.                                       *)
(***************************************************************************)
EXTENDS StoreTables, StoreHeartbeat

VARIABLE part

vars == <<part, tablesVars, beatVars>>

Init ==
  /\ TablesInit /\ BeatInit
  /\ \/ part = "tables" /\ engine = "mongodb" /\ ~heartbeat
     \/ part = "heartbeat" /\ provider = "dynamodb"

OfTables(A) == part = "tables" /\ A /\ UNCHANGED <<part, beatVars>>
OfHeartbeat(A) == part = "heartbeat" /\ A /\ UNCHANGED <<part, tablesVars>>

\* On tables that are active connect only reads: it is left out while a process
\* clears.  Rows matter to clear alone: they are stored while nobody connects or
\* removes.  The last call is for a removal beside another one.
Apart ==
  /\ (\E p \in Process : op'[p] = "clearing") => \A p \in Process : op'[p] # "connecting"
  /\ fresh' # fresh => \A p \in Process : op[p] \notin {"connecting", "removing"}
  /\ calls' = MaxCalls /\ calls < MaxCalls =>
       fresh = Row /\ \A p \in Process : op'[p] \in {"removing", "removed", "failed"}

Next == OfTables(TablesNext /\ Apart) \/ OfHeartbeat(BeatNext)

Spec ==
  /\ Init /\ [][Next]_vars
  /\ \A p \in Process : WF_vars(OfTables(Work(p)))
  /\ \A t \in Table : WF_vars(OfTables(Settle(t)))
  /\ WF_vars(OfHeartbeat(Handlers))

\* Type correctness of both parts.
TypeOK == TablesTypeOK /\ BeatTypeOK

\* The invariant of the parts: their types, and no connection closed that answered in
\* time.
UpkeepOK == TypeOK /\ HealthyStaysOpen
=============================================================================
