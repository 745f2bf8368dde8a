------------------------------ MODULE MC_Clients ------------------------------
(***************************************************************************)
(* The HTTP client, the dialog over a broker, the entity store and the     *)
(* render cache share nothing: each behaviour is about one of them.        *)
(***************************************************************************)
EXTENDS HttpRequest, Dialog, EntityStore, RenderCache

VARIABLE part

vars == <<part, httpVars, dialogVars, entityVars, renderVars>>

\* Two equal jobs; a third of another syntax whose template begins with the variables
\* of these, so that it has their hash; the last one stands alone.
MCVariables(j) == IF j = "html" THEN <<>> ELSE <<"a=1">>
MCTemplate(j) ==
  CASE j = "html" -> <<"a=1", "# Hi">>
    [] j = "alone" -> <<"# Ho">>
    [] OTHER -> <<"# Hi">>
MCSuitable(j) == IF j = "html" THEN <<"markdown">> ELSE <<"handlebars", "markdown">>

Init ==
  /\ part \in {"http", "dialog", "entity", "render"}
  /\ HttpInit /\ DialogInit /\ EntityInit /\ RenderInit
  /\ part # "http" => given = [before |-> FALSE, after |-> FALSE, stream |-> FALSE, validUrl |-> FALSE]
  /\ part # "entity" => kind = "state"
  /\ part # "render" => storage = "lru"

OfHttp(A) == part = "http" /\ A /\ UNCHANGED <<part, dialogVars, entityVars, renderVars>>
OfDialog(A) == part = "dialog" /\ A /\ UNCHANGED <<part, httpVars, entityVars, renderVars>>
OfEntity(A) == part = "entity" /\ A /\ UNCHANGED <<part, httpVars, dialogVars, renderVars>>
OfRender(A) == part = "render" /\ A /\ UNCHANGED <<part, httpVars, dialogVars, entityVars>>

Next == OfHttp(HttpNext) \/ OfDialog(DialogNext) \/ OfEntity(EntityNext) \/ OfRender(RenderStep)

\* Hooks end and bodies arrive or break off, the headers of a response need not;
\* timers fire; the broker opens the receiver and promises nothing else.
Spec ==
  /\ Init /\ [][Next]_vars
  /\ WF_vars(OfHttp(HttpRuns)) /\ WF_vars(OfHttp(TimerFires))
  /\ WF_vars(OfDialog(ReceiverOpens))
  /\ \A a \in Ask : WF_vars(OfDialog(Sends(a))) /\ WF_vars(OfDialog(Expire(a)))

\* The invariant of the HTTP client: its types, errors that tell what went wrong, and
\* no timer that outlives its fetch.
HttpOK == HttpTypeOK /\ RejectionsAreTyped /\ NoTimerLeft

\* A server that never answers, and replies that are lost or late, keep nobody
\* waiting: every request and every send is settled.
CallersAreAnswered ==
  <>[](/\ part = "http" => stage = "settled"
       /\ \A a \in asked : promise[a] # "pending")
=============================================================================
