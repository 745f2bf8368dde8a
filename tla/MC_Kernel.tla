------------------------------ MODULE MC_Kernel ------------------------------
(***************************************************************************)
(* The life cycle, the order of the plugins, the message bus and a request *)
(* on its way share nothing: each behaviour is about one of them, the      *)
(* others do not move.                                                     *)
(***************************************************************************)
EXTENDS KernelLifecycle, MessageBus, RequestPipeline

CONSTANTS
  LifeDefinitions,  \* the lists of plugins services are booted with
  OrderDefinitions  \* the lists of plugins that are only sorted

ASSUME DefinitionsAssumption ==
  LifeDefinitions \cup OrderDefinitions \subseteq Seq([name : STRING, dependsOn : Seq(STRING)])

VARIABLE part

vars == <<part, lifeVars, busVars, pipeVars>>

Plugin(n, d) == [name |-> n, dependsOn |-> d]

\* For the life cycle: no plugins, a chain in either order, a missing one, one twice.
FewDefinitions ==
  {<<>>, <<Plugin("a", <<>>), Plugin("b", <<"a">>)>>, <<Plugin("a", <<"b">>), Plugin("b", <<>>)>>,
   <<Plugin("a", <<"missing">>)>>, <<Plugin("a", <<>>), Plugin("a", <<>>)>>}

\* For the order: up to three plugins with up to two dependencies each.
Dependencies == UNION {[1 .. n -> {"a", "b", "c", "missing"}] : n \in 0 .. 2}
AllDefinitions == UNION {[1 .. n -> [name : {"a", "b", "c"}, dependsOn : Dependencies]] : n \in 0 .. 3}

\* h1 and h2 listen to one version of an event, h3 to another.
MCEventName(h) == "event"
MCEventVersion(h) == IF h = "h3" THEN 2 ELSE 1
MCBusEvents == {[name |-> "event", version |-> 1], [name |-> "event", version |-> 2]}

\* A status with a phrase, one without, a code of node, a text, and a statusCode.
MCThrown ==
  {[status |-> s, statusCode |-> "absent"] : s \in {"404", "499", "ECONNREFUSED", "text", "absent"}}
    \cup {[status |-> "absent", statusCode |-> s] : s \in {"404", "ETIMEDOUT"}}
MCPhrases == {"200", "400", "404", "500", "503", "504"}
MCNumbers == MCPhrases \cup {"499"}
MCNodeErrors == [c \in {"ECONNREFUSED", "ETIMEDOUT"} |-> IF c = "ETIMEDOUT" THEN "504" ELSE "503"]

Init ==
  /\ \/ part = "order" /\ enabled \in OrderDefinitions
     \/ part = "life" /\ enabled \in LifeDefinitions
     \/ part \in {"bus", "request"} /\ enabled = <<>>
  /\ \/ part # "request" /\ token = "none" /\ valid = TRUE /\ failing = [stage |-> "none", error |-> TextError]
     \/ part = "request"
  /\ LifeInit /\ BusInit /\ PipeInit

Next ==
  \/ part = "life" /\ LifeNext /\ UNCHANGED <<part, busVars, pipeVars>>
  \/ part = "bus" /\ BusNext /\ UNCHANGED <<part, lifeVars, pipeVars>>
  \/ part = "request" /\ PipeNext /\ UNCHANGED <<part, lifeVars, busVars>>

OfLife(A) == part = "life" /\ A /\ UNCHANGED <<part, busVars, pipeVars>>

Spec ==
  /\ Init /\ [][Next]_vars
  /\ WF_vars(OfLife(Booting))
  /\ \A s \in Signal : WF_vars(OfLife(Stopping(s)))
  /\ \A r \in Request : WF_vars(OfLife(Respond(r)))

\* Type correctness of all parts.
TypeOK == LifeTypeOK /\ BusTypeOK /\ PipeTypeOK

\* The invariant of the parts: their types, subscriptions as they were asked for, and
\* the user of the token in the controller.
KernelOK == TypeOK /\ SubscribedAsAsked /\ ControllerSeesUser

\* The sort gives an order exactly when there is one.
SortGivesOrder == SortIsRight(enabled)
=============================================================================
