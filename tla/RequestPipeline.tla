---------------------------- MODULE RequestPipeline ----------------------------
(***************************************************************************)
(* A request on its way through the middleware of the kernel and of a      *)
(* route: each stage passes it on, answers it or throws, and what is       *)
(* thrown comes back to the error handler, which answers with a view of    *)
(* the error that is built in the scope of the request.                    *)
(*                                                                         *)
(* An error is a record of its status and statusCode: a number, a code of  *)
(* node, some other text, or "absent"; all of them written as texts.       *)
(***************************************************************************)
EXTENDS Naturals, Sequences

CONSTANTS
  Thrown,      \* errors the application throws
  Phrases,     \* the statuses getReasonPhrase knows
  NodeErrors,  \* codes of node the view knows, as a function to statuses
  Numbers      \* the values of a status that are numbers

\* Codes of node and texts are no numbers; the view has a phrase for what it maps.
ASSUME PipeAssumption ==
  /\ {"400", "500"} \subseteq Phrases /\ Phrases \subseteq Numbers
  /\ DOMAIN NodeErrors \cap Numbers = {} /\ "absent" \notin DOMAIN NodeErrors \cup Numbers
  /\ \A code \in DOMAIN NodeErrors : NodeErrors[code] \in Phrases

VARIABLES
  token,       \* the Authorization header: "none", "valid", "invalid" or "text"
  valid,       \* the payload meets the schema of the route
  failing,     \* the stage that throws, with its error; stage "none" if none does
  stage,       \* index of the stage that has the request
  user,        \* context.user
  scope,       \* context.scope: what authUser resolves to in it, or "none"
  seen,        \* history: authUser in the controller
  thrown,      \* the error on its way back
  status       \* status of the answer, "none" while there is none

pipeVars == <<token, valid, failing, stage, user, scope, seen, thrown, status>>

Input == <<token, valid, failing>>
NoError == [status |-> "none"]

Stages_authenticateFirst ==
  <<"errorHandler", "anonymous", "authenticate", "containerScope", "application", "before", "validate",
    "controller">>

\* addMiddlewares, then the middleware of the application with authenticate as its
\* last, then those of the route.
Stages ==
  <<"errorHandler", "anonymous", "containerScope", "application", "authenticate", "before", "validate",
    "controller">>

\* authUser is a function of the context: transient, so it is called at each look-up.
AuthUser(usr) == "context.user"

Resolved(usr) == IF scope = "context.user" THEN usr ELSE scope

-----------------------------------------------------------------------------
(* ErrorView *)

Given(e) == IF e.status # "absent" THEN e.status ELSE e.statusCode

\* status wins over statusCode; codes of node are mapped; what is no number is 500.
StatusOf(e) ==
  IF Given(e) \in DOMAIN NodeErrors THEN NodeErrors[Given(e)]
  ELSE IF Given(e) \in Numbers THEN Given(e) ELSE "500"

\* The body of the view has the phrase of the status, without one the view throws.
HasView(e) == StatusOf(e) \in Phrases

-----------------------------------------------------------------------------
At(s) == status = "none" /\ thrown = NoError /\ stage <= Len(Stages) /\ Stages[stage] = s
Throw(e) == thrown' = e
NextStage == stage' = stage + 1
Fails(s) == failing.stage = s
TextError == [status |-> "absent", statusCode |-> "absent"]

ErrorHandler ==
  /\ At("errorHandler") /\ NextStage
  /\ UNCHANGED <<user, scope, seen, thrown, status>> /\ UNCHANGED Input

AuthenticateAnonymous ==
  /\ At("anonymous") /\ NextStage
  /\ user' = IF user = "none" THEN "anonymous" ELSE user
  /\ UNCHANGED <<scope, seen, thrown, status>> /\ UNCHANGED Input

ContainerScope ==
  /\ At("containerScope") /\ NextStage
  /\ scope' = AuthUser(user)
  /\ UNCHANGED <<user, seen, thrown, status>> /\ UNCHANGED Input

\* A middleware of the application or before the handler of the route.
Middleware(s) ==
  /\ s \in {"application", "before"} /\ At(s)
  /\ IF Fails(s) THEN Throw(failing.error) /\ UNCHANGED stage ELSE NextStage /\ UNCHANGED thrown
  /\ UNCHANGED <<user, scope, seen, status>> /\ UNCHANGED Input

\* verifyToken throws for a bad token and answers undefined for a payload of text;
\* without a scope there is no authenticator.
Authenticate ==
  /\ At("authenticate")
  /\ IF token = "invalid" \/ (token # "none" /\ scope = "none")
     THEN Throw(TextError) /\ UNCHANGED <<stage, user>>
     ELSE /\ NextStage /\ UNCHANGED thrown
          /\ user' = CASE token = "none" -> user [] token = "valid" -> "subject" [] OTHER -> "undefined"
  /\ UNCHANGED <<scope, seen, status>> /\ UNCHANGED Input

\* ValidationError
Validate ==
  /\ At("validate")
  /\ IF valid THEN NextStage /\ UNCHANGED thrown
     ELSE Throw([status |-> "400", statusCode |-> "absent"]) /\ UNCHANGED stage
  /\ UNCHANGED <<user, scope, seen, status>> /\ UNCHANGED Input

\* dispatchRequest builds the controller in the scope and calls it.
Controller ==
  /\ At("controller")
  /\ seen' = Resolved(user)
  /\ IF Fails("controller") THEN Throw(failing.error) /\ UNCHANGED status
     ELSE status' = "200" /\ UNCHANGED thrown
  /\ UNCHANGED <<stage, user, scope>> /\ UNCHANGED Input

\* The catch of the error handler; when it fails itself koa answers with 500.
Caught ==
  /\ status = "none" /\ thrown # NoError
  /\ status' = IF scope # "none" /\ HasView(thrown) THEN StatusOf(thrown) ELSE "500"
  /\ UNCHANGED <<stage, user, scope, seen, thrown>> /\ UNCHANGED Input

PipeInit ==
  /\ token \in {"none", "valid", "invalid", "text"} /\ valid \in BOOLEAN
  /\ failing \in [stage : {"none", "application", "before", "controller"}, error : Thrown]
  /\ stage = 1
  /\ user = "none" /\ scope = "none" /\ seen = "none"
  /\ thrown = NoError /\ status = "none"

PipeNext ==
  \/ ErrorHandler \/ AuthenticateAnonymous \/ ContainerScope \/ Authenticate \/ Validate \/ Controller
  \/ Caught \/ \E s \in {"application", "before"} : Middleware(s)

-----------------------------------------------------------------------------
(* Properties *)

\* Type correctness of the pipeline.
PipeTypeOK ==
  /\ stage \in 1 .. Len(Stages)
  /\ user \in {"none", "anonymous", "subject", "undefined"}
  /\ status \in {"none", "200"} \cup Numbers

\* What a client is told of an error: its own status when there is a phrase for it,
\* that of a failed connection when it carries a code of node, else 500.  Above all,
\* an error never arrives before the scope that its view is built in.
ErrorsAreViewed ==
  thrown # NoError /\ status # "none" =>
    /\ scope # "none"
    /\ thrown.status \in Phrases => status = thrown.status
    /\ thrown.status = "absent" /\ thrown.statusCode \in Phrases => status = thrown.statusCode
    /\ thrown.status \in DOMAIN NodeErrors => status = NodeErrors[thrown.status]
    /\ status \in Phrases

\* The controller gets the user of the token as authUser, although the scope is made
\* before the token is looked at.
ControllerSeesUser ==
  seen # "none" =>
    seen = CASE token = "valid" -> "subject" [] token = "none" -> "anonymous" [] OTHER -> "undefined"
=============================================================================
