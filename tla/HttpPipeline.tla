------------------------------ MODULE HttpPipeline ------------------------------
(*****************************************************************************)
(* A request on its way through HttpPipeline.handleRequest of                *)
(* @dandi/http-pipeline, and through the code that calls it: the route       *)
(* executor of @dandi/mvc, or the Lambda class of @dandi-contrib/aws-lambda. *)
(*                                                                           *)
(* A step of the pipeline is invoked with the providers that the steps       *)
(* before it have made.  Some steps are safe: their errors go to the error   *)
(* handlers, whose result takes the place of the step's own.  Any other      *)
(* error rejects handleRequest; the caller disposes the request's injector   *)
(* and answers with the error, or passes it on to the Lambda runtime.        *)
(*                                                                           *)
(* A body is left out; a response is its status and its headers.             *)
(*****************************************************************************)
EXTENDS Naturals, Sequences

CONSTANTS
    Requests,       \* the requests (on Lambda: the events of one instance)
    Hosts,          \* a subset of {"mvc", "lambda"}: who calls the pipeline
    Preparers,      \* the number of preparers in config.before
    Hooks,          \* the BeforeInvokeHandlers
    Transformers,   \* the sequence of HttpPipelineResultTransformers
    ErrorHandlers,  \* the sequence of HttpPipelineErrorResultHandlers
    Shared,         \* the LambdaHttpResponse that all events get
    None

VARIABLES
    host,       \* the caller of the pipeline
    cors,       \* what CORS makes of a request
    pc,         \* the step a request is at
    progress,   \* how many preparers, then transformers, are done
    hooks,      \* the BeforeInvokeHandlers that have not settled
    recovery,   \* the step whose error is being handled, and how far
    result,     \* the result of the last step
    faults,     \* what has failed so far (history)
    rejected,   \* handleRequest, or what comes before it, has rejected
    response,   \* the headers set on an HttpResponse
    answers     \* what has been answered to a request

input == <<host, cors>>
vars == <<input, pc, progress, hooks, recovery, result, faults, rejected,
          response, answers>>

Names == {Transformers[i] : i \in DOMAIN Transformers}
SafeSteps == {"beforeInvokeHandler", "invokeHandler", "transformResult", "renderResult"}
Steps == SafeSteps \cup {"new", "authorize", "inject", "prepare", "checkCors", "transforming",
                         "terminateResponse", "handleError", "dispose", "done"}

ASSUME HostsAssumption == Hosts \subseteq {"mvc", "lambda"}
ASSUME PreparersAssumption == Preparers \in Nat
ASSUME TransformersAssumption == Transformers \in Seq(STRING) /\ Names \cap Steps = {}
ASSUME SharedAssumption == Shared \notin Requests

(* HttpPipelineModule always registers CorsTransformer and the default error *)
(* handler.                                                                  *)
ASSUME CorsTransformerAssumption == "cors" \in Names
ASSUME ErrorHandlersAssumption ==
    /\ ErrorHandlers \in Seq(STRING)
    /\ \E i \in DOMAIN ErrorHandlers : ErrorHandlers[i] = "default"

(* A header is a name and the request whose result it comes from.            *)
Headers == {"own", "cors"} \X Requests
Statuses == {"unset", "success", "error"}
Results == [status : Statuses, headers : SUBSET Headers, errors : SUBSET (SafeSteps \cup Names)]
Recoveries == [step : SafeSteps, status : Statuses, next : DOMAIN ErrorHandlers]
Answers == [by : {"terminator", "caller"}, status : Statuses, headers : SUBSET Headers]

TypeOK ==
    /\ host \in Hosts
    /\ cors \in [Requests -> {"none", "allowed", "denied"}]
    /\ pc \in [Requests -> Steps]
    /\ progress \in [Requests -> Nat]
    /\ hooks \in [Requests -> SUBSET Hooks]
    /\ recovery \in [Requests -> {None} \cup Recoveries]
    /\ result \in [Requests -> {None} \cup Results]
    /\ faults \in [Requests -> SUBSET (Steps \cup Names)]
    /\ rejected \in [Requests -> BOOLEAN]
    /\ response \in [Requests \cup {Shared} -> SUBSET Headers]
    /\ answers \in [Requests -> Seq(Answers)]

(* On Lambda an event has no headers that HttpRequest.get() would read.      *)
Init ==
    /\ host \in Hosts
    /\ cors \in [Requests -> IF host = "mvc" THEN {"none", "allowed", "denied"} ELSE {"none"}]
    /\ pc = [r \in Requests |-> "new"]
    /\ progress = [r \in Requests |-> 0]
    /\ hooks = [r \in Requests |-> {}]
    /\ recovery = [r \in Requests |-> None]
    /\ result = [r \in Requests |-> None]
    /\ faults = [r \in Requests |-> {}]
    /\ rejected = [r \in Requests |-> FALSE]
    /\ response = [x \in Requests \cup {Shared} |-> {}]
    /\ answers = [r \in Requests |-> <<>>]

-------------------------------------------------------------------------------
Goto(r, step) == pc' = [pc EXCEPT ![r] = step]
Add(set, r, x) == [set EXCEPT ![r] = @ \cup {x}]

(* Handles the error of a safe step: the error handlers run next.            *)
HandleError(r, step) ==
    /\ Goto(r, "handleError")
    /\ recovery' = [recovery EXCEPT ![r] = [step |-> step, status |-> "unset", next |-> 1]]
    /\ faults' = Add(faults, r, step)

(* Nobody in the pipeline handles the error: its caller does, after it has   *)
(* disposed the injector of the request.                                     *)
Reject(r) ==
    /\ Goto(r, "dispose")
    /\ rejected' = [rejected EXCEPT ![r] = TRUE]
    /\ faults' = Add(faults, r, pc[r])
    /\ UNCHANGED <<input, progress, hooks, recovery, result, answers>>

Answer(r, by, status, headers) ==
    answers' = [answers EXCEPT ![r] =
                   Append(@, [by |-> by, status |-> status, headers |-> headers])]

(* execRoute or handleEvent makes the providers and the injector of a        *)
(* request.  Only MVC has authorization conditions.                          *)
Start(r) ==
    /\ pc[r] = "new"
    /\ Goto(r, IF host = "mvc" THEN "authorize" ELSE "inject")
    /\ UNCHANGED <<input, progress, hooks, recovery, result, faults, rejected, response, answers>>

(* The providers cannot be made: there is no injector to be disposed.        *)
StartFails(r) ==
    /\ pc[r] = "new"
    /\ Goto(r, "done")
    /\ rejected' = [rejected EXCEPT ![r] = TRUE]
    /\ faults' = Add(faults, r, "new")
    /\ Answer(r, "caller", "error", {})
    /\ UNCHANGED <<input, progress, hooks, recovery, result, response>>

Authorize(r) ==
    /\ pc[r] = "authorize"
    /\ Goto(r, "inject")
    /\ UNCHANGED <<input, progress, hooks, recovery, result, faults, rejected, response, answers>>

(* The parameters of handleRequest have been injected.                       *)
EnterPipeline(r) ==
    /\ pc[r] = "inject"
    /\ Goto(r, "prepare")
    /\ UNCHANGED <<input, progress, hooks, recovery, result, faults, rejected, response, answers>>

(* One preparer after the other, each with what it depends on: see            *)
(* PipelinePreparers.                                                        *)
Prepare(r) ==
    /\ pc[r] = "prepare"
    /\ progress[r] < Preparers
    /\ progress' = [progress EXCEPT ![r] = @ + 1]
    /\ UNCHANGED <<input, pc, hooks, recovery, result, faults, rejected, response, answers>>

(* Denied, not injectable, or thrown by a preparer: steps that are not safe. *)
StepRejects(r) ==
    /\ \/ pc[r] \in {"authorize", "inject", "checkCors"}
       \/ pc[r] = "prepare" /\ progress[r] < Preparers
    /\ Reject(r)
    /\ UNCHANGED response

-------------------------------------------------------------------------------
(* All hooks are invoked at once.                                            *)
BeforeInvoke(r) ==
    /\ pc[r] = "prepare"
    /\ progress[r] = Preparers
    /\ hooks' = [hooks EXCEPT ![r] = Hooks]
    /\ Goto(r, IF Hooks = {} THEN "checkCors" ELSE "beforeInvokeHandler")
    /\ UNCHANGED <<input, progress, recovery, result, faults, rejected, response, answers>>

(* The hooks themselves cannot be injected.                                  *)
HooksNotInjected(r) ==
    /\ pc[r] = "prepare"
    /\ progress[r] = Preparers
    /\ HandleError(r, "beforeInvokeHandler")
    /\ UNCHANGED <<input, progress, hooks, result, rejected, response, answers>>

(* Mutant: the first hook that is done lets the pipeline go on.              *)
FirstHookDone(r, h) ==
    /\ h \in hooks[r]
    /\ hooks' = [hooks EXCEPT ![r] = @ \ {h}]
    /\ IF pc[r] = "beforeInvokeHandler" THEN Goto(r, "checkCors") ELSE UNCHANGED pc
    /\ UNCHANGED <<input, progress, recovery, result, faults, rejected, response, answers>>

(* Promise.all resolves with the last hook.  A hook may end at any time after*)
(* another one has failed; nobody waits for it then.                         *)
HookDone(r, h) ==
    /\ h \in hooks[r]
    /\ hooks' = [hooks EXCEPT ![r] = @ \ {h}]
    /\ IF pc[r] = "beforeInvokeHandler" /\ hooks[r] = {h}
       THEN Goto(r, "checkCors")
       ELSE UNCHANGED pc
    /\ UNCHANGED <<input, progress, recovery, result, faults, rejected, response, answers>>

(* Mutant: the promise that the pipeline awaits never rejects.               *)
HookFailsUnnoticed(r, h) ==
    /\ h \in hooks[r]
    /\ hooks' = [hooks EXCEPT ![r] = @ \ {h}]
    /\ UNCHANGED <<input, pc, progress, recovery, result, faults, rejected, response, answers>>

(* Promise.all rejects with the first hook that fails.                       *)
HookFails(r, h) ==
    /\ h \in hooks[r]
    /\ hooks' = [hooks EXCEPT ![r] = @ \ {h}]
    /\ IF pc[r] = "beforeInvokeHandler"
       THEN HandleError(r, "beforeInvokeHandler")
       ELSE UNCHANGED <<pc, recovery, faults>>
    /\ UNCHANGED <<input, progress, result, rejected, response, answers>>

(* A request that is denied gets no HttpPipelineHandlerResult.  The void     *)
(* HttpPipelineResult it gets instead is replaced by the one of the next     *)
(* step before anybody asks for it.                                          *)
CheckCors(r) ==
    /\ pc[r] = "checkCors"
    /\ Goto(r, IF cors[r] = "denied" THEN "transformResult" ELSE "invokeHandler")
    /\ UNCHANGED <<input, progress, hooks, recovery, result, faults, rejected, response, answers>>

(* A handler returns data, or an HttpPipelineResult with a status and        *)
(* headers of its own.                                                       *)
HandlerResults(r) ==
    [status : Statuses, headers : {{}, {<<"own", r>>}}, errors : {{}}]

InvokeHandler(r) ==
    /\ pc[r] = "invokeHandler"
    /\ \E res \in HandlerResults(r) : result' = [result EXCEPT ![r] = res]
    /\ Goto(r, "transformResult")
    /\ UNCHANGED <<input, progress, hooks, recovery, faults, rejected, response, answers>>

HandlerFails(r) ==
    /\ pc[r] = "invokeHandler"
    /\ HandleError(r, "invokeHandler")
    /\ UNCHANGED <<input, progress, hooks, result, rejected, response, answers>>

(* The transformers have been constructed and run one after the other.       *)
TransformResult(r) ==
    /\ pc[r] = "transformResult"
    /\ result[r] # None
    /\ progress' = [progress EXCEPT ![r] = 0]
    /\ Goto(r, "transforming")
    /\ UNCHANGED <<input, hooks, recovery, result, faults, rejected, response, answers>>

(* There is no result to be transformed, or a transformer cannot be injected.*)
TransformersNotInjected(r) ==
    /\ pc[r] = "transformResult"
    /\ HandleError(r, "transformResult")
    /\ UNCHANGED <<input, progress, hooks, result, rejected, response, answers>>

Transformed(r) == progress[r] + 1 = Len(Transformers)

(* CorsTransformer adds the CORS headers; others leave status and headers.   *)
Transform(r) ==
    /\ pc[r] = "transforming"
    /\ LET t == Transformers[progress[r] + 1]
       IN IF t = "cors" /\ cors[r] # "none"
          THEN result' = [result EXCEPT ![r].headers = @ \cup {<<"cors", r>>}]
          ELSE UNCHANGED result
    /\ progress' = [progress EXCEPT ![r] = @ + 1]
    /\ IF Transformed(r) THEN Goto(r, "renderResult") ELSE UNCHANGED pc
    /\ UNCHANGED <<input, hooks, recovery, faults, rejected, response, answers>>

(* Mutant: the error of a transformer is the error of the step.              *)
TransformerFailsStep(r) ==
    /\ pc[r] = "transforming"
    /\ Transformers[progress[r] + 1] # "cors"
    /\ LET t == Transformers[progress[r] + 1]
       IN faults' = [faults EXCEPT ![r] = @ \cup {t}]
    /\ Goto(r, "handleError")
    /\ recovery' = [recovery EXCEPT ![r] =
                       [step |-> "transformResult", status |-> "unset", next |-> 1]]
    /\ UNCHANGED <<input, progress, hooks, result, rejected, response, answers>>

(* The error is added to the result, and the next transformer runs.          *)
(* CorsTransformer cannot fail once CorsPreparer has read the same headers.  *)
TransformerFails(r) ==
    /\ pc[r] = "transforming"
    /\ LET t == Transformers[progress[r] + 1]
       IN /\ t # "cors"
          /\ result' = [result EXCEPT ![r].errors = @ \cup {t}]
          /\ faults' = Add(faults, r, t)
    /\ progress' = [progress EXCEPT ![r] = @ + 1]
    /\ IF Transformed(r) THEN Goto(r, "renderResult") ELSE UNCHANGED pc
    /\ UNCHANGED <<input, hooks, recovery, rejected, response, answers>>

(* The renderer makes a result of its own, or render() throws and the stack  *)
(* is the body; the latter has a status even if the result had none.         *)
RenderResult(r) ==
    /\ pc[r] = "renderResult"
    /\ \/ UNCHANGED result
       \/ /\ result[r].status = "unset"
          /\ result' = [result EXCEPT ![r].status = "error"]
    /\ Goto(r, "terminateResponse")
    /\ UNCHANGED <<input, progress, hooks, recovery, faults, rejected, response, answers>>

(* None of the compatible renderers can be injected.                         *)
NoRenderer(r) ==
    /\ pc[r] = "renderResult"
    /\ HandleError(r, "renderResult")
    /\ UNCHANGED <<input, progress, hooks, result, rejected, response, answers>>

-------------------------------------------------------------------------------
(* The step after a safe one whose error has been handled.                   *)
StepAfter == [beforeInvokeHandler |-> "checkCors",
              invokeHandler       |-> "transformResult",
              transformResult     |-> "renderResult",
              renderResult        |-> "terminateResponse"]

(* Mutant: handlers after the first one get the original error result.       *)
StatusOfHandler(handler, status) == IF handler = "default" THEN "error" ELSE "unset"

(* DefaultHttpPipelineErrorHandler sets the status of a RequestError, or     *)
(* 500; other handlers report the error and return the result they got.      *)
StatusAfter(handler, status) == IF handler = "default" THEN "error" ELSE status

IsLastHandler(r) == recovery[r].next = Len(ErrorHandlers)

(* An error handler is done.  What the last one returns is provided as the   *)
(* result of the step, except that nobody uses the result of the hooks.      *)
ErrorHandled(r) ==
    /\ pc[r] = "handleError"
    /\ LET at == recovery[r]
           status == StatusAfter(ErrorHandlers[at.next], at.status)
       IN IF IsLastHandler(r)
          THEN /\ recovery' = [recovery EXCEPT ![r] = None]
               /\ result' = IF at.step = "beforeInvokeHandler"
                            THEN result
                            ELSE [result EXCEPT ![r] =
                                     [status |-> status, headers |-> {}, errors |-> {at.step}]]
               /\ Goto(r, StepAfter[at.step])
          ELSE /\ recovery' = [recovery EXCEPT ![r].next = @ + 1, ![r].status = status]
               /\ UNCHANGED <<pc, result>>
    /\ UNCHANGED <<input, progress, hooks, faults, rejected, response, answers>>

(* An error handler throws: there is nobody to handle that.                  *)
ErrorHandlerFails(r) ==
    /\ pc[r] = "handleError"
    /\ Reject(r)
    /\ UNCHANGED response

-------------------------------------------------------------------------------
(* response.header() replaces a header of the same name.                     *)
WithHeaders(old, new) == {h \in old : \A g \in new : g[1] # h[1]} \cup new

(* The HttpResponse a terminator writes to: MVC provides that of the request.*)
(* LambdaHttpResponse is restricted to a request only as HttpResponse; as    *)
(* itself, which is how LambdaTerminator asks for it, it is a singleton.     *)
ResponseOf(r) == IF host = "lambda" THEN Shared ELSE r

(* terminateResponse sets headers and status, and answers.  On Lambda it     *)
(* returns a copy of the response, which is the answer if nothing fails.     *)
Terminate(r) ==
    /\ pc[r] = "terminateResponse"
    /\ LET headers == WithHeaders(response[ResponseOf(r)], result[r].headers)
           status == IF result[r].status = "unset" THEN "success" ELSE result[r].status
       IN /\ response' = [response EXCEPT ![ResponseOf(r)] = headers]
          /\ result' = [result EXCEPT ![r].status = status, ![r].headers = headers]
          /\ IF host = "mvc"
             THEN Answer(r, "terminator", status, headers)
             ELSE UNCHANGED answers
    /\ Goto(r, "dispose")
    /\ UNCHANGED <<input, progress, hooks, recovery, faults, rejected>>

(* The terminator cannot be injected, or the response refuses a header after *)
(* some others; LambdaHttpResponse takes all of them.                        *)
TerminatorFails(r) ==
    /\ pc[r] = "terminateResponse"
    /\ \E headers \in IF host = "mvc" THEN SUBSET result[r].headers ELSE {{}} :
          response' = [response EXCEPT ![ResponseOf(r)] = WithHeaders(@, headers)]
    /\ Reject(r)

(* Mutant: an error is thrown again after it has been handled.               *)
AnyFaultAnswer(r, fails) == faults[r] # {} \/ fails

(* execRoute answers with the error it has caught, whatever has been sent    *)
(* before.                                                                   *)
CaughtAnswer(r, fails) == rejected[r] \/ fails

(* useAsync disposes the injector of the request; an instance of it may fail.*)
(* On Lambda the answer is what handleEvent resolves to or rejects with.     *)
EndDispose(r) ==
    /\ pc[r] = "dispose"
    /\ \E fails \in BOOLEAN :
          /\ faults' = IF fails THEN Add(faults, r, "dispose") ELSE faults
          /\ rejected' = [rejected EXCEPT ![r] = @ \/ fails]
          /\ IF CaughtAnswer(r, fails)
             THEN Answer(r, "caller", "error", IF host = "mvc" THEN response[r] ELSE {})
             ELSE IF host = "lambda"
                  THEN Answer(r, "terminator", result[r].status, result[r].headers)
                  ELSE UNCHANGED answers
    /\ Goto(r, "done")
    /\ UNCHANGED <<input, progress, hooks, recovery, result, response>>

-------------------------------------------------------------------------------
HookSettles(r) == \E h \in Hooks : HookDone(r, h) \/ HookFails(r, h)

Step(r) ==
    \/ Start(r) \/ StartFails(r) \/ Authorize(r) \/ EnterPipeline(r)
    \/ Prepare(r) \/ StepRejects(r)
    \/ BeforeInvoke(r) \/ HooksNotInjected(r)
    \/ CheckCors(r)
    \/ InvokeHandler(r) \/ HandlerFails(r)
    \/ TransformResult(r) \/ TransformersNotInjected(r) \/ Transform(r) \/ TransformerFails(r)
    \/ RenderResult(r) \/ NoRenderer(r)
    \/ ErrorHandled(r) \/ ErrorHandlerFails(r)
    \/ Terminate(r) \/ TerminatorFails(r)
    \/ EndDispose(r)

Next == \E r \in Requests : Step(r) \/ HookSettles(r)

Spec == Init /\ [][Next]_vars

(* The event loop runs continuations; hooks, handlers and whatever else the  *)
(* application adds settle.                                                  *)
Fairness == \A r \in Requests :
    /\ WF_vars(Step(r))
    /\ \A h \in Hooks : WF_vars(HookDone(r, h) \/ HookFails(r, h))

FairSpec == Spec /\ Fairness

-------------------------------------------------------------------------------
(* A request is answered once, whatever fails on the way and whoever handles *)
(* it; only if an instance of the request fails to dispose itself after the  *)
(* response has been sent, execRoute sends another one.                      *)
AnsweredOnce ==
    \A r \in Requests : Len(answers[r]) <= 1 \/ "dispose" \in faults[r]

(* The request handler runs when the preparers are done and CORS allows it,  *)
(* and not next to a BeforeInvokeHandler, unless one of those has failed: the*)
(* pipeline does not wait for the others then.                               *)
HandlerGuarded ==
    \A r \in Requests : pc[r] = "invokeHandler" =>
        /\ progress[r] = Preparers
        /\ cors[r] # "denied"
        /\ hooks[r] = {} \/ "beforeInvokeHandler" \in faults[r]

(* What the renderer gets: the errors of the handler and of all transformers,*)
(* and never a success if the handler has failed.  An error that keeps the   *)
(* transformers from being injected replaces what the handler returned.      *)
FailuresReported ==
    \A r \in Requests :
        pc[r] = "renderResult" /\ "transformResult" \notin faults[r] =>
            /\ faults[r] \cap (Names \cup {"invokeHandler"}) \subseteq result[r].errors
            /\ "invokeHandler" \in faults[r] => result[r].status = "error"

(* CORS headers survive: a response to an allowed CORS request has them, also*)
(* if the handler or other transformers have failed, unless the transformers *)
(* or a renderer could not be injected.                                      *)
CorsHeadersKept ==
    \A r \in Requests : \A i \in DOMAIN answers[r] :
        /\ answers[r][i].by = "terminator"
        /\ cors[r] = "allowed"
        /\ faults[r] \cap {"transformResult", "renderResult"} = {}
        => <<"cors", r>> \in answers[r][i].headers

(* What the Lambda tests expect of one event, of all of them: the headers of *)
(* the response are those of the event's own result.                         *)
EventHeadersOnly ==
    \A r \in Requests : \A i \in DOMAIN answers[r] :
        \A h \in answers[r][i].headers : h[2] = r

(* Every request is answered in the end, whatever fails.                     *)
EveryRequestAnswered == \A r \in Requests : pc[r] # "new" ~> answers[r] # <<>>
===============================================================================
