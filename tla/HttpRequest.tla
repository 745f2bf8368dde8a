----------------------------- MODULE HttpRequest -----------------------------
(***************************************************************************)
(* One call of HttpClient.request: a timer that aborts the fetch, hooks    *)
(* before and after it, and a body that is read when the timer is gone.    *)
(* What the server sends, and when, and what the hooks do is open.         *)
(***************************************************************************)
EXTENDS Naturals

VARIABLES
  given,      \* whether there is a beforeHook, an afterHook, stream, a valid url
  stage,      \* what request awaits
  timer,
  response,   \* ok, and whether its content type is application/json
  answer,     \* what the promise was settled with: a value or the class of an error
  endedIn     \* history: the stage the promise was settled in

httpVars == <<given, stage, timer, response, answer, endedIn>>

NoAnswer == "none"
ErrorClasses == {"ResponseError", "RequestTimeoutError", "NetworkError", "MalformedResponseError",
                 "InvalidURLError", "LifecycleHookError"}

HttpSettle(a) == stage' = "settled" /\ answer' = a /\ endedIn' = stage

ClearTimeout_forgotten == timer' = timer
\* finally, around the fetch, the after hook and the start of handleResponse.
ClearTimeout == timer' = IF timer = "armed" THEN "cleared" ELSE timer

-----------------------------------------------------------------------------
\* The timer runs before the url is looked at, and before the hook.
RequestBegins ==
  /\ stage = "new"
  /\ timer' = "armed"
  /\ IF ~given.validUrl THEN HttpSettle("InvalidURLError")
     ELSE stage' = (IF given.before THEN "before" ELSE "fetch") /\ UNCHANGED <<answer, endedIn>>
  /\ UNCHANGED <<given, response>>

\* A hook that throws does so outside the try: the timer stays.
RunBeforeHook ==
  /\ stage = "before"
  /\ \/ stage' = "fetch" /\ UNCHANGED <<answer, endedIn>>
     \/ HttpSettle("LifecycleHookError")
  /\ UNCHANGED <<given, timer, response>>

TimerFires ==
  /\ timer = "armed"
  /\ timer' = "fired"
  /\ UNCHANGED <<given, stage, response, answer, endedIn>>

ConvertError(name) == IF name = "AbortError" THEN "RequestTimeoutError" ELSE "NetworkError"

\* Headers arrive while the signal is not aborted.
FetchAnswers ==
  /\ stage = "fetch" /\ timer # "fired"
  /\ \E ok, json \in BOOLEAN : response' = [ok |-> ok, json |-> json]
  /\ IF given.after THEN stage' = "after" /\ UNCHANGED timer ELSE stage' = "body" /\ ClearTimeout
  /\ UNCHANGED <<given, answer, endedIn>>

\* A fetch rejects by itself, or with an AbortError, at once when it begins aborted.
FetchRejects ==
  /\ stage = "fetch"
  /\ \E name \in IF timer = "fired" THEN {"AbortError"} ELSE {"TypeError"} :
       HttpSettle(ConvertError(name))
  /\ ClearTimeout
  /\ UNCHANGED <<given, response>>

\* The signal interrupts no hook.
RunAfterHook ==
  /\ stage = "after"
  /\ \/ stage' = "body" /\ UNCHANGED <<answer, endedIn>>
     \/ HttpSettle("LifecycleHookError")
  /\ ClearTimeout
  /\ UNCHANGED <<given, response>>

\* tryParseJSON: the body of an error, whose text nobody guards.
ErrorBody(arrives) == IF response.json \/ arrives THEN "ResponseError" ELSE "raw"

\* parseJSONOrThrow; a stream is handed on as it is.
Body(arrives, parses) ==
  IF given.stream \/ (arrives /\ (response.json => parses)) THEN "value" ELSE "MalformedResponseError"

\* handleResponse, whose promise is returned and not awaited: no catch and no timer.
HandleResponse ==
  /\ stage = "body"
  /\ \E arrives, parses \in BOOLEAN :
       HttpSettle(IF response.ok THEN Body(arrives, parses) ELSE ErrorBody(arrives))
  /\ UNCHANGED <<given, timer, response>>

HttpInit ==
  /\ given \in [before : BOOLEAN, after : BOOLEAN, stream : BOOLEAN, validUrl : BOOLEAN]
  /\ stage = "new" /\ timer = "none" /\ answer = NoAnswer /\ endedIn = "none"
  /\ response = [ok |-> FALSE, json |-> FALSE]

HttpRuns ==
  \/ RequestBegins \/ RunBeforeHook \/ RunAfterHook \/ HandleResponse
  \/ timer = "fired" /\ FetchRejects

HttpNext ==
  RequestBegins \/ RunBeforeHook \/ TimerFires \/ FetchAnswers \/ FetchRejects \/ RunAfterHook \/ HandleResponse

-----------------------------------------------------------------------------
(* Properties *)

\* Type correctness of the request.
HttpTypeOK ==
  /\ stage \in {"new", "before", "fetch", "after", "body", "settled"}
  /\ timer \in {"none", "armed", "fired", "cleared"}
  /\ answer \in {NoAnswer, "value", "raw"} \cup ErrorClasses

\* A caller can tell from the class of the error what went wrong and when: in the
\* fetch the timer and the network, in a hook the hook; and an error has a class,
\* except when the text of an error response breaks off.
RejectionsAreTyped ==
  stage = "settled" =>
    /\ endedIn = "fetch" => answer = IF timer = "fired" THEN "RequestTimeoutError" ELSE "NetworkError"
    /\ endedIn \in {"before", "after"} => answer = "LifecycleHookError"
    /\ answer = "raw" => ~response.ok /\ ~response.json
    /\ answer = "RequestTimeoutError" => endedIn = "fetch"

\* A request that got as far as the fetch leaves no timer behind.
NoTimerLeft == endedIn \in {"fetch", "after", "body"} => timer # "armed"
=============================================================================
