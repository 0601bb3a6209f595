--------------------------- MODULE HttpPipelineProofs ---------------------------
(*****************************************************************************)
(* Proofs about HttpPipeline for any requests, hooks, transformers and error *)
(* handlers: its types, one answer to each request, a handler that is guarded*)
(* by what comes before it, and failures that are reported.                  *)
(*****************************************************************************)
EXTENDS HttpPipeline, Integers, TLAPS

(* What a request has at the steps that need it.                             *)
StageInv(r) ==
    /\ pc[r] \in {"transforming", "renderResult", "terminateResponse"} => result[r] \in Results
    /\ pc[r] = "dispose" /\ ~rejected[r] => result[r] \in Results
    /\ pc[r] = "handleError" => recovery[r] \in Recoveries
    /\ pc[r] = "transforming" => progress[r] \in 0 .. Len(Transformers) - 1

TypeInv == TypeOK /\ \A r \in Requests : StageInv(r)

LEMMA NameOf ==
    ASSUME NEW i \in 0 .. Len(Transformers) - 1
    PROVE  Transformers[i + 1] \in Names
BY TransformersAssumption DEF Names

LEMMA NextHandler ==
    ASSUME NEW n \in DOMAIN ErrorHandlers, n # Len(ErrorHandlers)
    PROVE  n + 1 \in DOMAIN ErrorHandlers
BY ErrorHandlersAssumption

LEMMA FirstHandler == 1 \in DOMAIN ErrorHandlers
BY ErrorHandlersAssumption

LEMMA TypeInit == Init => TypeInv
BY HostsAssumption DEF Init, TypeInv, TypeOK, StageInv, Steps

LEMMA HandleErrorTypes ==
    ASSUME TypeInv, NEW r \in Requests, NEW step \in SafeSteps, HandleError(r, step),
           UNCHANGED <<input, result, rejected, response, answers>>,
           progress' \in [Requests -> Nat], hooks' \in [Requests -> SUBSET Hooks],
           \A q \in Requests \ {r} : progress'[q] = progress[q]
    PROVE  TypeInv'
<1> DEFINE new == [step |-> step, status |-> "unset", next |-> 1]
<1>1. new \in Recoveries BY FirstHandler DEF Recoveries, Statuses
<1>2. recovery' = [recovery EXCEPT ![r] = new] BY DEF HandleError
<1>3. pc' = [pc EXCEPT ![r] = "handleError"] BY DEF HandleError, Goto
<1>4. faults' = [faults EXCEPT ![r] = @ \cup {step}] BY DEF HandleError, Add
<1> HIDE DEF new
<1>5. TypeOK'
  BY <1>1, <1>2, <1>3, <1>4 DEF TypeInv, TypeOK, Steps, input
<1>6. \A q \in Requests : StageInv(q)'
  BY <1>1, <1>2, <1>3, <1>4 DEF TypeInv, TypeOK, StageInv
<1> QED BY <1>5, <1>6 DEF TypeInv

LEMMA RejectTypes ==
    ASSUME TypeInv, NEW r \in Requests, Reject(r),
           response' \in [Requests \cup {Shared} -> SUBSET Headers]
    PROVE  TypeInv'
<1>1. faults' = [faults EXCEPT ![r] = @ \cup {pc[r]}] BY DEF Reject, Add
<1>2. pc[r] \in Steps BY DEF TypeInv, TypeOK
<1>3. faults' \in [Requests -> SUBSET (Steps \cup Names)] BY <1>1, <1>2 DEF TypeInv, TypeOK
<1>4. TypeOK' BY <1>3 DEF TypeInv, TypeOK, Reject, Goto, Steps, input
<1>5. \A q \in Requests : StageInv(q)'
  BY DEF TypeInv, TypeOK, StageInv, Reject, Goto, Add
<1> QED BY <1>4, <1>5 DEF TypeInv

LEMMA AnswerTypes ==
    ASSUME TypeOK, NEW r \in Requests, NEW by \in {"terminator", "caller"},
           NEW status \in Statuses, NEW headers \in SUBSET Headers,
           Answer(r, by, status, headers)
    PROVE  answers' \in [Requests -> Seq(Answers)]
<1>1. [by |-> by, status |-> status, headers |-> headers] \in Answers BY DEF Answers
<1>2. answers[r] \in Seq(Answers) BY DEF TypeOK
<1>3. Append(answers[r], [by |-> by, status |-> status, headers |-> headers]) \in Seq(Answers)
  BY <1>1, <1>2
<1> QED BY <1>3 DEF Answer, TypeOK

LEMMA TypeStep == TypeInv /\ [Next]_vars => TypeInv'
<1> SUFFICES ASSUME TypeInv, [Next]_vars PROVE TypeInv'
  OBVIOUS
<1>1. CASE UNCHANGED vars
  <2>1. /\ host' = host /\ cors' = cors /\ pc' = pc /\ progress' = progress /\ hooks' = hooks
        /\ recovery' = recovery /\ result' = result /\ faults' = faults /\ rejected' = rejected
        /\ response' = response /\ answers' = answers
    BY <1>1 DEF vars, input
  <2>2. TypeOK /\ \A r \in Requests : StageInv(r)
    BY DEF TypeInv
  <2>3. TypeOK'
    BY <2>1, <2>2, Zenon DEF TypeOK
  <2>4. ASSUME NEW r \in Requests PROVE StageInv(r)'
    BY <2>1, <2>2, Zenon DEF StageInv
  <2> QED BY <2>3, <2>4 DEF TypeInv
<1>2. ASSUME NEW r \in Requests, Start(r) \/ Authorize(r) \/ EnterPipeline(r) \/ CheckCors(r)
      PROVE  TypeInv'
  <2>1. PICK step \in {"authorize", "inject", "prepare", "transformResult", "invokeHandler"} :
          /\ pc' = [pc EXCEPT ![r] = step]
          /\ UNCHANGED <<input, progress, hooks, recovery, result, faults, rejected, response, answers>>
    BY <1>2, Zenon DEF Start, Authorize, EnterPipeline, CheckCors, Goto
  <2>2. step \in Steps
    BY DEF Steps, SafeSteps
  <2>3. TypeOK'
    BY <2>1, <2>2 DEF TypeInv, TypeOK, input
  <2>4. ASSUME NEW q \in Requests PROVE StageInv(q)'
    <3>1. pc'[q] \in {pc[q], "authorize", "inject", "prepare", "transformResult", "invokeHandler"}
      BY <2>1 DEF TypeInv, TypeOK
    <3>2. StageInv(q)
      BY DEF TypeInv
    <3> QED BY <2>1, <3>1, <3>2 DEF StageInv
  <2> QED BY <2>3, <2>4 DEF TypeInv
<1>3. ASSUME NEW r \in Requests, StartFails(r) PROVE TypeInv'
  <2>1. answers' \in [Requests -> Seq(Answers)]
    BY <1>3, AnswerTypes DEF StartFails, TypeInv, Statuses
  <2> QED BY <1>3, <2>1 DEF StartFails, Goto, Add, input, TypeInv, TypeOK, StageInv, Steps
<1>4. ASSUME NEW r \in Requests, Prepare(r) PROVE TypeInv'
  BY <1>4 DEF Prepare, input, TypeInv, TypeOK, StageInv
<1>5. ASSUME NEW r \in Requests, StepRejects(r) \/ ErrorHandlerFails(r) PROVE TypeInv'
  <2>1. Reject(r) /\ response' \in [Requests \cup {Shared} -> SUBSET Headers]
    BY <1>5 DEF StepRejects, ErrorHandlerFails, TypeInv, TypeOK
  <2> QED BY <2>1, RejectTypes
<1>6. ASSUME NEW r \in Requests, BeforeInvoke(r) PROVE TypeInv'
  BY <1>6 DEF BeforeInvoke, Goto, input, TypeInv, TypeOK, StageInv, Steps, SafeSteps
<1>7. ASSUME NEW r \in Requests,
             \/ HooksNotInjected(r) \/ HandlerFails(r)
             \/ TransformersNotInjected(r) \/ NoRenderer(r)
      PROVE  TypeInv'
  <2>1. PICK step \in SafeSteps : HandleError(r, step)
    BY <1>7 DEF HooksNotInjected, HandlerFails, TransformersNotInjected, NoRenderer, SafeSteps
  <2>2. UNCHANGED <<input, progress, hooks, result, rejected, response, answers>>
    BY <1>7 DEF HooksNotInjected, HandlerFails, TransformersNotInjected, NoRenderer
  <2>3. progress' \in [Requests -> Nat] /\ hooks' \in [Requests -> SUBSET Hooks]
    BY <2>2 DEF TypeInv, TypeOK
  <2> QED BY <2>1, <2>2, <2>3, HandleErrorTypes
<1>8. ASSUME NEW r \in Requests, NEW h \in Hooks, HookDone(r, h) PROVE TypeInv'
  BY <1>8 DEF HookDone, Goto, input, TypeInv, TypeOK, StageInv, Steps, SafeSteps
<1>9. ASSUME NEW r \in Requests, NEW h \in Hooks, HookFails(r, h) PROVE TypeInv'
  <2>1. hooks' \in [Requests -> SUBSET Hooks] BY <1>9 DEF HookFails, TypeInv, TypeOK
  <2>2. CASE pc[r] = "beforeInvokeHandler"
    <3>1. HandleError(r, "beforeInvokeHandler") /\ "beforeInvokeHandler" \in SafeSteps
      BY <1>9, <2>2 DEF HookFails, SafeSteps
    <3>2. UNCHANGED <<input, progress, result, rejected, response, answers>>
      BY <1>9 DEF HookFails
    <3>3. progress' \in [Requests -> Nat] BY <3>2 DEF TypeInv, TypeOK
    <3> QED BY <2>1, <3>1, <3>2, <3>3, HandleErrorTypes
  <2>3. CASE pc[r] # "beforeInvokeHandler"
    BY <1>9, <2>1, <2>3 DEF HookFails, input, TypeInv, TypeOK, StageInv
  <2> QED BY <2>2, <2>3
<1>10. ASSUME NEW r \in Requests, InvokeHandler(r) PROVE TypeInv'
  <2>1. PICK res \in HandlerResults(r) : result' = [result EXCEPT ![r] = res]
    BY <1>10 DEF InvokeHandler
  <2>2. res \in Results BY DEF HandlerResults, Results, Headers, Statuses
  <2> QED BY <1>10, <2>1, <2>2
          DEF InvokeHandler, Goto, input, TypeInv, TypeOK, StageInv, Steps, SafeSteps
<1>11. ASSUME NEW r \in Requests, TransformResult(r) PROVE TypeInv'
  <2>1. Len(Transformers) \in Nat \ {0}
    BY TransformersAssumption, CorsTransformerAssumption DEF Names
  <2>2. TypeOK'
    BY <1>11 DEF TransformResult, Goto, input, TypeInv, TypeOK, Steps, SafeSteps
  <2>3. \A q \in Requests : StageInv(q)'
    BY <1>11, <2>1 DEF TransformResult, Goto, input, TypeInv, TypeOK, StageInv
  <2> QED BY <2>2, <2>3 DEF TypeInv
<1>12. ASSUME NEW r \in Requests, Transform(r) \/ TransformerFails(r) PROVE TypeInv'
  <2> DEFINE t == Transformers[progress[r] + 1]
  <2>1. /\ t \in Names
        /\ result[r] \in Results
        /\ progress[r] \in 0 .. Len(Transformers) - 1
        /\ Len(Transformers) \in Nat
    BY <1>12, NameOf, TransformersAssumption DEF Transform, TransformerFails, TypeInv, StageInv
  <2>2. \E res \in Results :
            /\ result' = [result EXCEPT ![r] = res]
    <3>1. CASE result' = [result EXCEPT ![r].headers = @ \cup {<<"cors", r>>}]
      <4>1. [result[r] EXCEPT !.headers = @ \cup {<<"cors", r>>}] \in Results
        BY <2>1 DEF Results, Headers
      <4> QED BY <3>1, <4>1 DEF TypeInv, TypeOK
    <3>2. CASE result' = [result EXCEPT ![r].errors = @ \cup {t}]
      <4>1. [result[r] EXCEPT !.errors = @ \cup {t}] \in Results
        BY <2>1 DEF Results
      <4> QED BY <3>2, <4>1 DEF TypeInv, TypeOK
    <3>3. CASE result' = result
      BY <3>3, <2>1 DEF TypeInv, TypeOK
    <3> QED BY <1>12, <3>1, <3>2, <3>3 DEF Transform, TransformerFails
  <2>3. faults' \in [Requests -> SUBSET (Steps \cup Names)]
    <3>1. faults' = faults \/ faults' = [faults EXCEPT ![r] = @ \cup {t}]
      BY <1>12 DEF Transform, TransformerFails, Add
    <3> HIDE DEF t
    <3>2. faults \in [Requests -> SUBSET (Steps \cup Names)] BY DEF TypeInv, TypeOK
    <3>3. [faults EXCEPT ![r] = @ \cup {t}] \in [Requests -> SUBSET (Steps \cup Names)]
      BY <2>1, <3>2
    <3> QED BY <3>1, <3>2, <3>3
  <2>4. /\ progress' = [progress EXCEPT ![r] = @ + 1]
        /\ IF progress[r] + 1 = Len(Transformers)
           THEN pc' = [pc EXCEPT ![r] = "renderResult"] ELSE pc' = pc
        /\ pc[r] = "transforming"
        /\ UNCHANGED <<input, hooks, recovery, rejected, response, answers>>
    <3>1. CASE Transform(r)
      BY <3>1, Zenon DEF Transform, Transformed, Goto
    <3>2. CASE TransformerFails(r)
      BY <3>2, Zenon DEF TransformerFails, Transformed, Goto
    <3> QED BY <1>12, <3>1, <3>2
  <2>5. TypeOK'
    <3>1. pc' \in [Requests -> Steps]
      <4>1. pc' = pc \/ pc' = [pc EXCEPT ![r] = "renderResult"]
        BY <2>4
      <4>2. "renderResult" \in Steps /\ pc \in [Requests -> Steps]
        BY DEF TypeInv, TypeOK, Steps, SafeSteps
      <4> QED BY <4>1, <4>2
    <3>2. progress' \in [Requests -> Nat] BY <2>4 DEF TypeInv, TypeOK
    <3>3. result' \in [Requests -> {None} \cup Results] BY <2>2 DEF TypeInv, TypeOK
    <3> QED BY <2>3, <2>4, <3>1, <3>2, <3>3 DEF TypeInv, TypeOK, input
  <2>6. \A q \in Requests : StageInv(q)'
    BY <2>1, <2>2, <2>4 DEF TypeInv, TypeOK, StageInv
  <2> QED BY <2>5, <2>6 DEF TypeInv
<1>13. ASSUME NEW r \in Requests, RenderResult(r) PROVE TypeInv'
  <2>1. result[r] \in Results BY <1>13 DEF RenderResult, TypeInv, StageInv
  <2>2. [result[r] EXCEPT !.status = "error"] \in Results BY <2>1 DEF Results, Statuses
  <2>3. \E res \in Results : result' = [result EXCEPT ![r] = res]
    BY <1>13, <2>1, <2>2 DEF RenderResult, TypeInv, TypeOK
  <2> QED BY <1>13, <2>3 DEF RenderResult, Goto, input, TypeInv, TypeOK, StageInv, Steps
<1>14. ASSUME NEW r \in Requests, ErrorHandled(r) PROVE TypeInv'
  <2> DEFINE at == recovery[r]
             status == StatusAfter(ErrorHandlers[at.next], at.status)
             res == [status |-> status, headers |-> {}, errors |-> {at.step}]
  <2>1. at \in Recoveries /\ pc[r] = "handleError"
    BY <1>14 DEF ErrorHandled, TypeInv, StageInv
  <2>2. at.step \in SafeSteps /\ at.next \in DOMAIN ErrorHandlers /\ at.status \in Statuses
    BY <2>1 DEF Recoveries
  <2>3. status \in Statuses BY <2>2 DEF StatusAfter, Statuses
  <2>4. StepAfter[at.step] \in {"checkCors", "transformResult", "renderResult", "terminateResponse"}
    BY <2>2 DEF StepAfter, SafeSteps
  <2>5. res \in Results BY <2>2, <2>3 DEF Results
  <2>6. UNCHANGED <<input, progress, hooks, faults, rejected, response, answers>>
    BY <1>14 DEF ErrorHandled
  <2>7. CASE IsLastHandler(r)
    <3>1. /\ recovery' = [recovery EXCEPT ![r] = None]
          /\ result' = IF at.step = "beforeInvokeHandler" THEN result
                       ELSE [result EXCEPT ![r] = res]
          /\ pc' = [pc EXCEPT ![r] = StepAfter[at.step]]
      BY <1>14, <2>7 DEF ErrorHandled, Goto
    <3>2. at.step = "beforeInvokeHandler" => StepAfter[at.step] = "checkCors"
      BY DEF StepAfter
    <3> HIDE DEF at, status, res
    <3>3. pc' \in [Requests -> Steps] BY <2>4, <3>1 DEF TypeInv, TypeOK, Steps, SafeSteps
    <3>4. result' \in [Requests -> {None} \cup Results] BY <2>5, <3>1 DEF TypeInv, TypeOK
    <3>5. recovery' \in [Requests -> {None} \cup Recoveries] BY <3>1 DEF TypeInv, TypeOK
    <3>6. TypeOK' BY <2>6, <3>3, <3>4, <3>5 DEF TypeInv, TypeOK, input
    <3>7. \A q \in Requests : StageInv(q)'
      BY <2>4, <2>5, <2>6, <3>1, <3>2 DEF TypeInv, TypeOK, StageInv
    <3> QED BY <3>6, <3>7 DEF TypeInv
  <2>8. CASE ~IsLastHandler(r)
    <3> DEFINE new == [at EXCEPT !.next = @ + 1, !.status = status]
    <3>1. recovery' = [recovery EXCEPT ![r] = new] /\ UNCHANGED <<pc, result>>
      BY <1>14, <2>8 DEF ErrorHandled
    <3>2. at.next + 1 \in DOMAIN ErrorHandlers
      BY <2>2, <2>8, NextHandler DEF IsLastHandler
    <3>3. new \in Recoveries BY <2>1, <2>3, <3>2 DEF Recoveries
    <3> HIDE DEF new, at, status, res
    <3> QED BY <2>6, <3>1, <3>3 DEF TypeInv, TypeOK, StageInv, input
  <2> QED BY <2>7, <2>8
<1>15. ASSUME NEW r \in Requests, Terminate(r) PROVE TypeInv'
  <2> DEFINE headers == WithHeaders(response[ResponseOf(r)], result[r].headers)
             status == IF result[r].status = "unset" THEN "success" ELSE result[r].status
             res == [result[r] EXCEPT !.status = status, !.headers = headers]
  <2>1. result[r] \in Results BY <1>15 DEF Terminate, TypeInv, StageInv
  <2>2. ResponseOf(r) \in Requests \cup {Shared} BY DEF ResponseOf
  <2>3. status \in Statuses BY <2>1 DEF Results, Statuses
  <2>4. headers \in SUBSET Headers
    <3>1. response[ResponseOf(r)] \in SUBSET Headers /\ result[r].headers \in SUBSET Headers
      BY <2>1, <2>2 DEF TypeInv, TypeOK, Results
    <3> QED BY <3>1 DEF WithHeaders
  <2>5. res \in Results BY <2>1, <2>3, <2>4 DEF Results
  <2>6. /\ response' = [response EXCEPT ![ResponseOf(r)] = headers]
        /\ result' = [result EXCEPT ![r] = res]
        /\ pc' = [pc EXCEPT ![r] = "dispose"]
        /\ UNCHANGED <<input, progress, hooks, recovery, faults, rejected>>
    BY <1>15 DEF Terminate, Goto
  <2>7. answers' \in [Requests -> Seq(Answers)]
    <3>1. CASE Answer(r, "terminator", status, headers)
      <4> HIDE DEF status, headers
      <4> QED BY <2>3, <2>4, <3>1, AnswerTypes DEF TypeInv
    <3>2. CASE UNCHANGED answers BY <3>2 DEF TypeInv, TypeOK
    <3> QED BY <1>15, <3>1, <3>2 DEF Terminate
  <2> HIDE DEF headers, status, res
  <2> QED BY <2>2, <2>4, <2>5, <2>6, <2>7 DEF TypeInv, TypeOK, StageInv, input, Steps
<1>16. ASSUME NEW r \in Requests, TerminatorFails(r) PROVE TypeInv'
  <2>1. result[r] \in Results BY <1>16 DEF TerminatorFails, TypeInv, StageInv
  <2>2. ResponseOf(r) \in Requests \cup {Shared} BY DEF ResponseOf
  <2>3. PICK headers \in IF host = "mvc" THEN SUBSET result[r].headers ELSE {{}} :
               response' = [response EXCEPT ![ResponseOf(r)] = WithHeaders(@, headers)]
    BY <1>16 DEF TerminatorFails
  <2>4. WithHeaders(response[ResponseOf(r)], headers) \in SUBSET Headers
    <3>1. response[ResponseOf(r)] \in SUBSET Headers /\ result[r].headers \in SUBSET Headers
      BY <2>1, <2>2 DEF TypeInv, TypeOK, Results
    <3> QED BY <2>3, <3>1 DEF WithHeaders
  <2>5. response' \in [Requests \cup {Shared} -> SUBSET Headers]
    BY <2>2, <2>3, <2>4 DEF TypeInv, TypeOK
  <2> QED BY <1>16, <2>5, RejectTypes DEF TerminatorFails
<1>17. ASSUME NEW r \in Requests, EndDispose(r) PROVE TypeInv'
  <2>1. PICK fails \in BOOLEAN :
          /\ faults' = IF fails THEN Add(faults, r, "dispose") ELSE faults
          /\ rejected' = [rejected EXCEPT ![r] = @ \/ fails]
          /\ IF CaughtAnswer(r, fails)
             THEN Answer(r, "caller", "error", IF host = "mvc" THEN response[r] ELSE {})
             ELSE IF host = "lambda"
                  THEN Answer(r, "terminator", result[r].status, result[r].headers)
                  ELSE UNCHANGED answers
    BY <1>17 DEF EndDispose
  <2>2. /\ pc[r] = "dispose"
        /\ pc' = [pc EXCEPT ![r] = "done"]
        /\ UNCHANGED <<input, progress, hooks, recovery, result, response>>
    BY <1>17 DEF EndDispose, Goto
  <2>3. answers' \in [Requests -> Seq(Answers)]
    <3>1. CASE CaughtAnswer(r, fails)
      <4>1. (IF host = "mvc" THEN response[r] ELSE {}) \in SUBSET Headers
        BY DEF TypeInv, TypeOK
      <4> QED BY <2>1, <3>1, <4>1, AnswerTypes DEF TypeInv, Statuses
    <3>2. CASE ~CaughtAnswer(r, fails)
      <4>1. result[r] \in Results
        BY <2>2, <3>2 DEF CaughtAnswer, TypeInv, StageInv
      <4>2. result[r].status \in Statuses /\ result[r].headers \in SUBSET Headers
        BY <4>1 DEF Results
      <4>3. CASE host = "lambda" BY <2>1, <3>2, <4>2, <4>3, AnswerTypes DEF TypeInv
      <4>4. CASE host # "lambda" BY <2>1, <3>2, <4>4 DEF TypeInv, TypeOK
      <4> QED BY <4>3, <4>4
    <3> QED BY <3>1, <3>2
  <2>4. faults' \in [Requests -> SUBSET (Steps \cup Names)]
    BY <2>1 DEF Add, TypeInv, TypeOK, Steps
  <2>5. rejected' \in [Requests -> BOOLEAN]
    BY <2>1 DEF TypeInv, TypeOK
  <2>6. pc' \in [Requests -> Steps] BY <2>2 DEF TypeInv, TypeOK, Steps
  <2>7. TypeOK' BY <2>2, <2>3, <2>4, <2>5, <2>6 DEF TypeInv, TypeOK, input
  <2>8. \A q \in Requests : StageInv(q)' BY <2>1, <2>2 DEF TypeInv, TypeOK, StageInv
  <2> QED BY <2>7, <2>8 DEF TypeInv
<1> QED BY <1>1, <1>2, <1>3, <1>4, <1>5, <1>6, <1>7, <1>8, <1>9, <1>10, <1>11, <1>12,
           <1>13, <1>14, <1>15, <1>16, <1>17 DEF Next, Step, HookSettles

(* The types of HttpPipeline; every step of handleRequest has what it needs. *)
THEOREM TypeCorrect == Spec => []TypeOK
<1>1. TypeInv => TypeOK BY DEF TypeInv
<1> QED BY <1>1, TypeInit, TypeStep, PTL DEF Spec
-------------------------------------------------------------------------------
(* Until handleRequest has ended nothing is answered, and after it at most   *)
(* once: by the terminator, or by the caller after it has rejected.          *)
AnswerInv(r) ==
    /\ pc[r] \notin {"dispose", "done"} => answers[r] = <<>> /\ ~rejected[r]
    /\ pc[r] = "dispose" => /\ Len(answers[r]) <= 1
                            /\ rejected[r] \/ host = "lambda" => answers[r] = <<>>
    /\ pc[r] = "done" => Len(answers[r]) <= 1 \/ "dispose" \in faults[r]

(* A step within handleRequest, or of a hook: nothing is answered.           *)
Quiet(r) ==
    /\ \E step \in Steps \ {"dispose", "done"} : pc' = [pc EXCEPT ![r] = step]
    /\ UNCHANGED <<input, answers, rejected>>
    /\ \A q \in Requests \ {r} : faults'[q] = faults[q]
    /\ pc[r] \notin {"dispose", "done"}

LEMMA QuietAnswers ==
    ASSUME TypeOK, NEW r \in Requests, Quiet(r), \A q \in Requests : AnswerInv(q)
    PROVE  \A q \in Requests : AnswerInv(q)'
BY DEF Quiet, AnswerInv, TypeOK, input

LEMMA AnswerStep ==
    ASSUME TypeInv, \A q \in Requests : AnswerInv(q), [Next]_vars
    PROVE  \A q \in Requests : AnswerInv(q)'
<1>1. CASE UNCHANGED vars BY <1>1 DEF vars, input, AnswerInv
<1>2. ASSUME NEW r \in Requests,
             \/ Start(r) \/ Authorize(r) \/ EnterPipeline(r) \/ Prepare(r) \/ BeforeInvoke(r)
             \/ CheckCors(r) \/ InvokeHandler(r) \/ TransformResult(r) \/ RenderResult(r)
      PROVE  Quiet(r)
  BY <1>2 DEF Start, Authorize, EnterPipeline, Prepare, BeforeInvoke, CheckCors, InvokeHandler,
              TransformResult, RenderResult, Goto, Quiet, Steps, SafeSteps, TypeInv, TypeOK
<1>3. ASSUME NEW r \in Requests,
             \/ HooksNotInjected(r) \/ HandlerFails(r) \/ TransformersNotInjected(r)
             \/ NoRenderer(r)
      PROVE  Quiet(r)
  BY <1>3 DEF HooksNotInjected, HandlerFails, TransformersNotInjected, NoRenderer, HandleError,
              Add, Goto, Quiet, Steps, SafeSteps, TypeInv, TypeOK
<1>4. ASSUME NEW r \in Requests, Transform(r) \/ TransformerFails(r) PROVE Quiet(r)
  BY <1>4 DEF Transform, TransformerFails, Add, Goto, Quiet, Steps, SafeSteps, TypeInv, TypeOK
<1>5. ASSUME NEW r \in Requests, ErrorHandled(r) PROVE Quiet(r)
  <2>1. pc[r] = "handleError" /\ recovery[r].step \in SafeSteps
    BY <1>5 DEF ErrorHandled, TypeInv, StageInv, Recoveries
  <2>2. StepAfter[recovery[r].step] \in Steps \ {"dispose", "done"}
    BY <2>1 DEF StepAfter, SafeSteps, Steps
  <2> QED BY <1>5, <2>1, <2>2 DEF ErrorHandled, Goto, Quiet, Steps, SafeSteps, TypeInv, TypeOK
<1>6. ASSUME NEW r \in Requests, HookSettles(r) PROVE \A q \in Requests : AnswerInv(q)'
  <2>1. PICK h \in Hooks : HookDone(r, h) \/ HookFails(r, h) BY <1>6 DEF HookSettles
  <2>2. CASE pc[r] = "beforeInvokeHandler"
    <3>1. Quiet(r)
      BY <2>1, <2>2 DEF HookDone, HookFails, HandleError, Goto, Add, Quiet, Steps, SafeSteps,
                        TypeInv, TypeOK
    <3> QED BY <3>1, QuietAnswers DEF TypeInv
  <2>3. CASE pc[r] # "beforeInvokeHandler"
    BY <2>1, <2>3 DEF HookDone, HookFails, AnswerInv, input
  <2> QED BY <2>2, <2>3
<1>7. ASSUME NEW r \in Requests, StartFails(r) PROVE \A q \in Requests : AnswerInv(q)'
  BY <1>7 DEF StartFails, Goto, Add, Answer, AnswerInv, TypeInv, TypeOK, input
<1>8. ASSUME NEW r \in Requests, StepRejects(r) \/ ErrorHandlerFails(r) \/ TerminatorFails(r)
      PROVE  \A q \in Requests : AnswerInv(q)'
  <2>1. Reject(r) /\ pc[r] \notin {"dispose", "done"}
    BY <1>8 DEF StepRejects, ErrorHandlerFails, TerminatorFails
  <2>2. answers[r] = <<>> BY <2>1 DEF AnswerInv
  <2>3. pc' = [pc EXCEPT ![r] = "dispose"] /\ UNCHANGED <<input, answers>>
    BY <2>1 DEF Reject, Goto
  <2>4. \A q \in Requests \ {r} : rejected'[q] = rejected[q] /\ faults'[q] = faults[q]
    BY <2>1 DEF Reject, Add, TypeInv, TypeOK
  <2>5. Len(<<>>) <= 1 OBVIOUS
  <2> QED BY <2>2, <2>3, <2>4, <2>5 DEF AnswerInv, TypeInv, TypeOK, input
<1>9. ASSUME NEW r \in Requests, Terminate(r) PROVE \A q \in Requests : AnswerInv(q)'
  <2>1. answers[r] = <<>> /\ ~rejected[r] BY <1>9 DEF Terminate, AnswerInv
  <2>2. \A q \in Requests \ {r} : answers'[q] = answers[q]
    BY <1>9 DEF Terminate, Answer, TypeInv, TypeOK
  <2>3. Len(answers'[r]) <= 1 /\ (host = "lambda" => answers'[r] = <<>>)
    <3>1. CASE host = "mvc"
      <4>1. PICK a : answers' = [answers EXCEPT ![r] = Append(@, a)]
        BY <1>9, <3>1 DEF Terminate, Answer
      <4>2. answers'[r] = Append(<<>>, a) BY <2>1, <4>1 DEF TypeInv, TypeOK
      <4>3. Len(Append(<<>>, a)) = 1 OBVIOUS
      <4> QED BY <3>1, <4>2, <4>3
    <3>2. CASE host # "mvc"
      <4>1. answers'[r] = <<>> BY <1>9, <2>1, <3>2 DEF Terminate
      <4>2. Len(<<>>) <= 1 OBVIOUS
      <4> QED BY <4>1, <4>2
    <3> QED BY <3>1, <3>2
  <2>4. pc' = [pc EXCEPT ![r] = "dispose"] /\ UNCHANGED <<input, faults, rejected>>
    BY <1>9 DEF Terminate, Goto
  <2> QED BY <2>1, <2>2, <2>3, <2>4 DEF AnswerInv, TypeInv, TypeOK, input
<1>10. ASSUME NEW r \in Requests, EndDispose(r) PROVE \A q \in Requests : AnswerInv(q)'
  <2>1. PICK fails \in BOOLEAN :
          /\ faults' = IF fails THEN Add(faults, r, "dispose") ELSE faults
          /\ IF CaughtAnswer(r, fails)
             THEN Answer(r, "caller", "error", IF host = "mvc" THEN response[r] ELSE {})
             ELSE IF host = "lambda"
                  THEN Answer(r, "terminator", result[r].status, result[r].headers)
                  ELSE UNCHANGED answers
    BY <1>10 DEF EndDispose
  <2>2. pc[r] = "dispose" /\ pc' = [pc EXCEPT ![r] = "done"] /\ UNCHANGED input
        /\ \A q \in Requests \ {r} : rejected'[q] = rejected[q]
    BY <1>10 DEF EndDispose, Goto, TypeInv, TypeOK
  <2>3. \A q \in Requests \ {r} : answers'[q] = answers[q] /\ faults'[q] = faults[q]
    BY <2>1 DEF Answer, Add, TypeInv, TypeOK
  <2>4. fails => "dispose" \in faults'[r] BY <2>1 DEF Add, TypeInv, TypeOK
  <2>5. ~fails => Len(answers'[r]) <= 1
    BY <2>1, <2>2 DEF CaughtAnswer, Answer, AnswerInv, TypeInv, TypeOK
  <2> QED BY <2>2, <2>3, <2>4, <2>5 DEF AnswerInv, TypeInv, TypeOK, input
<1> QED BY <1>1, <1>2, <1>3, <1>4, <1>5, <1>6, <1>7, <1>8, <1>9, <1>10, QuietAnswers
        DEF Next, Step, TypeInv

(* No request is answered twice, whatever fails and whoever handles it,      *)
(* unless an instance of it fails to dispose itself.                         *)
THEOREM AnsweredOnceAlways == Spec => []AnsweredOnce
<1>1. Init => \A r \in Requests : AnswerInv(r) BY DEF Init, AnswerInv
<1>2. TypeInv /\ (\A r \in Requests : AnswerInv(r)) /\ [Next]_vars
      => (\A r \in Requests : AnswerInv(r))'
  BY AnswerStep
<1>3. TypeInv /\ (\A r \in Requests : AnswerInv(r)) => AnsweredOnce
  <2> SUFFICES ASSUME TypeInv, NEW r \in Requests, AnswerInv(r)
               PROVE  Len(answers[r]) <= 1 \/ "dispose" \in faults[r]
    BY DEF AnsweredOnce
  <2>1. Len(<<>>) <= 1 OBVIOUS
  <2> QED BY <2>1 DEF AnswerInv
<1> QED BY <1>1, <1>2, <1>3, TypeInit, TypeStep, PTL DEF Spec
-------------------------------------------------------------------------------
(* A step of one request leaves the others alone.                            *)
Others(r) == \A q \in Requests \ {r} :
    /\ pc'[q] = pc[q] /\ progress'[q] = progress[q] /\ hooks'[q] = hooks[q]
    /\ recovery'[q] = recovery[q] /\ result'[q] = result[q] /\ faults'[q] = faults[q]

LEMMA OthersUnchanged ==
    ASSUME TypeOK, NEW r \in Requests, Step(r) \/ HookSettles(r)
    PROVE  Others(r) /\ UNCHANGED input
<1> USE DEF Others, Goto, TypeOK
<1>1. CASE Start(r) \/ StartFails(r) \/ Authorize(r) \/ EnterPipeline(r) \/ Prepare(r)
           \/ BeforeInvoke(r) \/ CheckCors(r) \/ InvokeHandler(r)
  BY <1>1 DEF Start, StartFails, Add, Authorize, EnterPipeline, Prepare, BeforeInvoke, CheckCors,
              InvokeHandler
<1>2. CASE StepRejects(r) \/ ErrorHandlerFails(r) \/ TerminatorFails(r)
  BY <1>2 DEF StepRejects, ErrorHandlerFails, TerminatorFails, Reject, Add
<1>3. CASE HooksNotInjected(r) \/ HandlerFails(r) \/ TransformersNotInjected(r) \/ NoRenderer(r)
  BY <1>3 DEF HooksNotInjected, HandlerFails, TransformersNotInjected, NoRenderer, HandleError, Add
<1>4. CASE TransformResult(r) \/ Transform(r) \/ TransformerFails(r) \/ RenderResult(r)
  BY <1>4 DEF TransformResult, Transform, TransformerFails, RenderResult, Add
<1>5. CASE ErrorHandled(r) BY <1>5 DEF ErrorHandled
<1>6. CASE Terminate(r) \/ EndDispose(r) BY <1>6 DEF Terminate, EndDispose, Add
<1>7. CASE HookSettles(r) BY <1>7 DEF HookSettles, HookDone, HookFails, HandleError, Add
<1> QED BY <1>1, <1>2, <1>3, <1>4, <1>5, <1>6, <1>7 DEF Step

(* When the hooks run, the preparers are done; when the pipeline goes on, so *)
(* are the hooks, or one of them has failed.                                 *)
GuardInv(r) ==
    /\ pc[r] \in {"new", "authorize", "inject", "prepare"} => hooks[r] = {}
    /\ pc[r] \in {"beforeInvokeHandler", "checkCors", "invokeHandler"} => progress[r] = Preparers
    /\ pc[r] \in {"checkCors", "invokeHandler"} =>
          hooks[r] = {} \/ "beforeInvokeHandler" \in faults[r]
    /\ pc[r] = "handleError" /\ recovery[r].step = "beforeInvokeHandler" =>
          progress[r] = Preparers /\ "beforeInvokeHandler" \in faults[r]
    /\ pc[r] = "invokeHandler" => cors[r] # "denied"

(* Steps that lead to a step about which GuardInv says nothing.              *)
LEMMA Unguarded ==
    ASSUME NEW r \in Requests,
           pc'[r] \in {"transformResult", "transforming", "renderResult", "terminateResponse",
                       "dispose", "done"}
    PROVE  GuardInv(r)'
BY DEF GuardInv

LEMMA GuardStep ==
    ASSUME TypeInv, NEW r \in Requests, GuardInv(r), Step(r) \/ HookSettles(r)
    PROVE  GuardInv(r)'
<1> USE DEF Goto, TypeInv, TypeOK
<1>1. CASE Start(r) \/ Authorize(r) \/ EnterPipeline(r) \/ Prepare(r) \/ BeforeInvoke(r)
           \/ CheckCors(r)
  BY <1>1 DEF Start, Authorize, EnterPipeline, Prepare, BeforeInvoke, CheckCors, GuardInv, input
<1>2. CASE \/ StartFails(r) \/ InvokeHandler(r) \/ TransformResult(r) \/ RenderResult(r)
           \/ Transform(r) \/ TransformerFails(r) \/ Terminate(r) \/ EndDispose(r)
  BY <1>2, Unguarded DEF StartFails, InvokeHandler, TransformResult, RenderResult, Transform,
                         TransformerFails, Terminate, EndDispose
<1>3. CASE StepRejects(r) \/ ErrorHandlerFails(r) \/ TerminatorFails(r)
  BY <1>3, Unguarded DEF StepRejects, ErrorHandlerFails, TerminatorFails, Reject
<1>4. CASE HooksNotInjected(r) \/ HandlerFails(r) \/ TransformersNotInjected(r) \/ NoRenderer(r)
  BY <1>4 DEF HooksNotInjected, HandlerFails, TransformersNotInjected, NoRenderer, HandleError,
              Add, GuardInv
<1>5. CASE HookSettles(r)
  <2>1. PICK h \in Hooks : HookDone(r, h) \/ HookFails(r, h) BY <1>5 DEF HookSettles
  <2>2. CASE HookDone(r, h) BY <2>2 DEF HookDone, GuardInv, input
  <2>3. CASE HookFails(r, h) BY <2>3 DEF HookFails, HandleError, Add, GuardInv, input
  <2> QED BY <2>1, <2>2, <2>3
<1>6. CASE ErrorHandled(r)
  <2>1. pc[r] = "handleError" /\ recovery[r] \in Recoveries
    BY <1>6 DEF ErrorHandled, StageInv
  <2>2. recovery[r].step \in SafeSteps BY <2>1 DEF Recoveries
  <2>3. CASE IsLastHandler(r)
    <3>1. pc'[r] = StepAfter[recovery[r].step] BY <1>6, <2>3 DEF ErrorHandled
    <3>2. CASE recovery[r].step = "beforeInvokeHandler"
      <4>1. pc'[r] = "checkCors" BY <3>1, <3>2 DEF StepAfter
      <4> QED BY <1>6, <2>1, <3>2, <4>1 DEF ErrorHandled, GuardInv
    <3>3. CASE recovery[r].step # "beforeInvokeHandler"
      BY <2>2, <3>1, <3>3, Unguarded DEF StepAfter, SafeSteps
    <3> QED BY <3>2, <3>3
  <2>4. CASE ~IsLastHandler(r)
    <3>1. UNCHANGED <<pc, progress, faults>> /\ recovery'[r].step = recovery[r].step
      BY <1>6, <2>1, <2>4 DEF ErrorHandled, Recoveries
    <3> QED BY <2>1, <3>1 DEF GuardInv
  <2> QED BY <2>3, <2>4
<1> QED BY <1>1, <1>2, <1>3, <1>4, <1>5, <1>6 DEF Step

(* The request handler runs only after preparers, hooks and CORS.            *)
THEOREM HandlerGuardedAlways == Spec => []HandlerGuarded
<1> DEFINE Inv == \A r \in Requests : GuardInv(r)
<1>1. Init => Inv BY DEF Init, GuardInv
<1>2. TypeInv /\ Inv /\ [Next]_vars => Inv'
  <2> SUFFICES ASSUME TypeInv, Inv, [Next]_vars PROVE Inv'
    OBVIOUS
  <2>1. CASE UNCHANGED vars BY <2>1 DEF vars, input, GuardInv
  <2>2. ASSUME NEW r \in Requests, Step(r) \/ HookSettles(r) PROVE Inv'
    <3>1. GuardInv(r)' BY <2>2, GuardStep
    <3>2. Others(r) /\ UNCHANGED input BY <2>2, OthersUnchanged DEF TypeInv
    <3>3. \A q \in Requests \ {r} : GuardInv(q)' BY <3>2 DEF Others, GuardInv, input
    <3> QED BY <3>1, <3>3
  <2> QED BY <2>1, <2>2 DEF Next
<1>3. Inv => HandlerGuarded BY DEF GuardInv, HandlerGuarded
<1> QED BY <1>1, <1>2, <1>3, TypeInit, TypeStep, PTL DEF Spec
-------------------------------------------------------------------------------
(* What the handler and the transformers have failed to do, is in the result.*)
Reported(r) ==
    /\ faults[r] \cap (Names \cup {"invokeHandler"}) \subseteq result[r].errors
    /\ "invokeHandler" \in faults[r] => result[r].status = "error"

(* From the error of a step on, until the next step has the handled result.  *)
RecoveryInv(r) ==
    pc[r] = "handleError" =>
        /\ recovery[r].step \in faults[r]
        /\ recovery[r].step \in {"beforeInvokeHandler", "invokeHandler"} =>
              faults[r] \cap (Names \cup {"transformResult"}) = {}
        /\ recovery[r].step = "beforeInvokeHandler" => "invokeHandler" \notin faults[r]
        /\ \A i \in 1 .. recovery[r].next - 1 :
              ErrorHandlers[i] = "default" => recovery[r].status = "error"

FailureInv(r) ==
    /\ pc[r] \in {"new", "authorize", "inject", "prepare", "beforeInvokeHandler", "checkCors",
                  "invokeHandler"} =>
          faults[r] \cap (Names \cup {"invokeHandler", "transformResult"}) = {}
    /\ pc[r] = "transformResult" =>
          faults[r] \cap (Names \cup {"transformResult"}) = {} /\ Reported(r)
    /\ pc[r] = "transforming" => Reported(r)
    /\ pc[r] = "renderResult" /\ "transformResult" \notin faults[r] => Reported(r)
    /\ RecoveryInv(r)

(* An error has a status when the last handler is done with it.              *)
LEMMA StatusSet ==
    ASSUME TypeInv, NEW r \in Requests, pc[r] = "handleError", RecoveryInv(r), IsLastHandler(r)
    PROVE  StatusAfter(ErrorHandlers[recovery[r].next], recovery[r].status) = "error"
<1>1. PICK i \in DOMAIN ErrorHandlers : ErrorHandlers[i] = "default"
  BY ErrorHandlersAssumption
<1>2. recovery[r].next = Len(ErrorHandlers) /\ DOMAIN ErrorHandlers = 1 .. Len(ErrorHandlers)
        /\ Len(ErrorHandlers) \in Nat
  BY ErrorHandlersAssumption DEF IsLastHandler
<1>3. CASE i = recovery[r].next BY <1>1, <1>3 DEF StatusAfter
<1>4. CASE i # recovery[r].next
  <2>1. i \in 1 .. recovery[r].next - 1 BY <1>2, <1>4
  <2> QED BY <1>1, <2>1 DEF RecoveryInv, StatusAfter
<1> QED BY <1>3, <1>4

(* The error of a step is the first of the recovery.                         *)
LEMMA RecoveryStarts ==
    ASSUME TypeInv, NEW r \in Requests, FailureInv(r), NEW step \in SafeSteps, pc[r] = step,
           HandleError(r, step)
    PROVE  FailureInv(r)'
<1>1. /\ pc'[r] = "handleError"
      /\ recovery'[r] = [step |-> step, status |-> "unset", next |-> 1]
      /\ faults'[r] = faults[r] \cup {step}
  BY DEF HandleError, Goto, Add, TypeInv, TypeOK
<1>2. Names \cap Steps = {} /\ SafeSteps \subseteq Steps
  BY TransformersAssumption DEF Steps
<1>3. 1 .. recovery'[r].next - 1 = {} BY <1>1
<1>4. /\ recovery'[r].step = step
      /\ pc[r] = step
  BY <1>1
<1>5. RecoveryInv(r)'
  BY <1>1, <1>2, <1>3, <1>4 DEF RecoveryInv, FailureInv, SafeSteps
<1> QED BY <1>1, <1>5 DEF FailureInv

LEMMA FailureStep ==
    ASSUME TypeInv, NEW r \in Requests, FailureInv(r), Step(r) \/ HookSettles(r)
    PROVE  FailureInv(r)'
<1> USE DEF Goto, TypeInv, TypeOK
<1>1. CASE Start(r) \/ Authorize(r) \/ EnterPipeline(r) \/ Prepare(r) \/ BeforeInvoke(r)
  BY <1>1 DEF Start, Authorize, EnterPipeline, Prepare, BeforeInvoke, FailureInv, RecoveryInv
<1>2. CASE CheckCors(r)
  BY <1>2 DEF CheckCors, FailureInv, RecoveryInv, Reported
<1>3. CASE \/ StartFails(r) \/ RenderResult(r) \/ Terminate(r) \/ EndDispose(r)
           \/ StepRejects(r) \/ ErrorHandlerFails(r) \/ TerminatorFails(r)
  <2>1. pc'[r] \in {"terminateResponse", "dispose", "done"}
    BY <1>3 DEF StartFails, RenderResult, Terminate, EndDispose, StepRejects, ErrorHandlerFails,
                TerminatorFails, Reject
  <2> QED BY <2>1 DEF FailureInv, RecoveryInv
<1>4. CASE InvokeHandler(r)
  BY <1>4 DEF InvokeHandler, FailureInv, RecoveryInv, Reported
<1>5. CASE HandlerFails(r) \/ TransformersNotInjected(r) \/ NoRenderer(r)
  BY <1>5, RecoveryStarts DEF HandlerFails, TransformersNotInjected, NoRenderer, SafeSteps
<1>6. CASE HooksNotInjected(r)
  <2>1. /\ pc'[r] = "handleError"
        /\ recovery'[r] = [step |-> "beforeInvokeHandler", status |-> "unset", next |-> 1]
        /\ faults'[r] = faults[r] \cup {"beforeInvokeHandler"}
        /\ pc[r] = "prepare"
    BY <1>6 DEF HooksNotInjected, HandleError, Add
  <2>2. 1 .. recovery'[r].next - 1 = {} /\ recovery'[r].step = "beforeInvokeHandler"
    BY <2>1
  <2>3. "beforeInvokeHandler" \notin Names BY TransformersAssumption DEF Steps, SafeSteps
  <2> QED BY <2>1, <2>2, <2>3 DEF FailureInv, RecoveryInv
<1>7. CASE TransformResult(r)
  BY <1>7 DEF TransformResult, FailureInv, RecoveryInv, Reported
<1>8. CASE Transform(r) \/ TransformerFails(r)
  <2>1. /\ pc[r] = "transforming" /\ pc'[r] \in {"transforming", "renderResult"}
        /\ result[r] \in Results
        /\ Transformers[progress[r] + 1] \in Names
    BY <1>8, NameOf DEF Transform, TransformerFails, StageInv
  <2>2. Reported(r) BY <2>1 DEF FailureInv
  <2>3. CASE Transform(r)
    <3>1. result'[r].errors = result[r].errors /\ result'[r].status = result[r].status
      BY <2>1, <2>3 DEF Transform, Results
    <3> QED BY <2>1, <2>2, <2>3, <3>1 DEF Transform, Reported, FailureInv, RecoveryInv
  <2>4. CASE TransformerFails(r)
    <3> DEFINE t == Transformers[progress[r] + 1]
    <3>1. result'[r].errors = result[r].errors \cup {t} /\ result'[r].status = result[r].status
      BY <2>1, <2>4 DEF TransformerFails, Results
    <3>2. faults'[r] = faults[r] \cup {t} BY <2>4 DEF TransformerFails, Add
    <3>3. t # "invokeHandler" BY <2>1, TransformersAssumption DEF Steps, SafeSteps
    <3> HIDE DEF t
    <3> QED BY <2>1, <2>2, <3>1, <3>2, <3>3 DEF Reported, FailureInv, RecoveryInv
  <2> QED BY <1>8, <2>3, <2>4
<1>9. CASE ErrorHandled(r)
  <2> DEFINE at == recovery[r]
             status == StatusAfter(ErrorHandlers[at.next], at.status)
  <2>1. pc[r] = "handleError" /\ at \in Recoveries /\ UNCHANGED faults
    BY <1>9 DEF ErrorHandled, StageInv
  <2>2. at.step \in SafeSteps BY <2>1 DEF Recoveries
  <2>3. CASE IsLastHandler(r)
    <3>1. status = "error" BY <2>1, <2>3, StatusSet DEF FailureInv
    <3>2. /\ pc'[r] = StepAfter[at.step]
          /\ at.step # "beforeInvokeHandler" =>
               result'[r] = [status |-> "error", headers |-> {}, errors |-> {at.step}]
      <4>1. /\ pc'[r] = StepAfter[at.step]
            /\ at.step # "beforeInvokeHandler" =>
                 result'[r] = [status |-> status, headers |-> {}, errors |-> {at.step}]
        BY <1>9, <2>3 DEF ErrorHandled
      <4> HIDE DEF status
      <4> QED BY <3>1, <4>1
    <3>3. CASE at.step = "beforeInvokeHandler"
      <4>1. pc'[r] = "checkCors" BY <3>2, <3>3 DEF StepAfter
      <4> QED BY <2>1, <3>3, <4>1 DEF FailureInv, RecoveryInv
    <3>4. CASE at.step = "invokeHandler"
      <4>1. pc'[r] = "transformResult" BY <3>2, <3>4 DEF StepAfter
      <4>2. result'[r].status = "error" /\ result'[r].errors = {"invokeHandler"}
        BY <3>2, <3>4
      <4> QED BY <2>1, <3>4, <4>1, <4>2 DEF FailureInv, RecoveryInv, Reported
    <3>5. CASE at.step = "transformResult"
      <4>1. pc'[r] = "renderResult" BY <3>2, <3>5 DEF StepAfter
      <4> QED BY <2>1, <3>5, <4>1 DEF FailureInv, RecoveryInv
    <3>6. CASE at.step = "renderResult"
      <4>1. pc'[r] = "terminateResponse" BY <3>2, <3>6 DEF StepAfter
      <4> QED BY <4>1 DEF FailureInv, RecoveryInv
    <3> QED BY <2>2, <3>3, <3>4, <3>5, <3>6 DEF SafeSteps
  <2>4. CASE ~IsLastHandler(r)
    <3>1. recovery'[r] = [at EXCEPT !.next = @ + 1, !.status = status] /\ UNCHANGED pc
      BY <1>9, <2>4 DEF ErrorHandled
    <3>2. /\ recovery'[r].step = at.step
          /\ recovery'[r].next = at.next + 1
          /\ recovery'[r].status = status
      BY <2>1, <3>1 DEF Recoveries
    <3>3. at.next \in Nat BY <2>1, ErrorHandlersAssumption DEF Recoveries
    <3>4. ASSUME NEW i \in 1 .. at.next, ErrorHandlers[i] = "default"
          PROVE  status = "error"
      <4>1. CASE i = at.next BY <3>4, <4>1 DEF StatusAfter
      <4>2. CASE i # at.next
        <5>1. i \in 1 .. at.next - 1 BY <3>3, <4>2
        <5> QED BY <2>1, <3>4, <5>1 DEF FailureInv, RecoveryInv, StatusAfter
      <4> QED BY <4>1, <4>2
    <3> HIDE DEF status
    <3>5. \A i \in 1 .. recovery'[r].next - 1 :
             ErrorHandlers[i] = "default" => recovery'[r].status = "error"
      <4>1. recovery'[r].next - 1 = at.next BY <3>2, <3>3
      <4>2. recovery'[r].status = status BY <3>2
      <4> SUFFICES ASSUME NEW i \in 1 .. recovery'[r].next - 1, ErrorHandlers[i] = "default"
                   PROVE  recovery'[r].status = "error"
        OBVIOUS
      <4>3. i \in 1 .. at.next BY <4>1
      <4> QED BY <3>4, <4>2, <4>3
    <3>6. RecoveryInv(r)'
      <4>1. /\ at.step \in faults'[r]
            /\ at.step \in {"beforeInvokeHandler", "invokeHandler"} =>
                  faults'[r] \cap (Names \cup {"transformResult"}) = {}
            /\ at.step = "beforeInvokeHandler" => "invokeHandler" \notin faults'[r]
        BY <2>1 DEF FailureInv, RecoveryInv
      <4>2. /\ recovery'[r].step \in faults'[r]
            /\ recovery'[r].step \in {"beforeInvokeHandler", "invokeHandler"} =>
                  faults'[r] \cap (Names \cup {"transformResult"}) = {}
            /\ recovery'[r].step = "beforeInvokeHandler" => "invokeHandler" \notin faults'[r]
        <5> HIDE DEF at
        <5> QED BY <3>2, <4>1
      <4> QED BY <3>5, <4>2, Zenon DEF RecoveryInv
    <3> QED BY <2>1, <3>1, <3>6 DEF FailureInv
  <2> QED BY <2>3, <2>4
<1>10. CASE HookSettles(r)
  <2>1. PICK h \in Hooks : HookDone(r, h) \/ HookFails(r, h) BY <1>10 DEF HookSettles
  <2>2. CASE HookDone(r, h) BY <2>2 DEF HookDone, FailureInv, RecoveryInv, Reported
  <2>3. CASE HookFails(r, h)
    <3>1. CASE pc[r] = "beforeInvokeHandler"
      BY <2>3, <3>1, RecoveryStarts DEF HookFails, SafeSteps
    <3>2. CASE pc[r] # "beforeInvokeHandler"
      BY <2>3, <3>2 DEF HookFails, FailureInv, RecoveryInv, Reported
    <3> QED BY <3>1, <3>2
  <2> QED BY <2>1, <2>2, <2>3
<1> QED BY <1>1, <1>2, <1>3, <1>4, <1>5, <1>6, <1>7, <1>8, <1>9, <1>10 DEF Step

(* Whatever order transformers and error handlers have, a failure of the     *)
(* handler or a transformer reaches the renderer.                            *)
THEOREM FailuresReportedAlways == Spec => []FailuresReported
<1> DEFINE Inv == \A r \in Requests : FailureInv(r)
<1>1. Init => Inv BY DEF Init, FailureInv, RecoveryInv
<1>2. TypeInv /\ Inv /\ [Next]_vars => Inv'
  <2> SUFFICES ASSUME TypeInv, Inv, [Next]_vars PROVE Inv'
    OBVIOUS
  <2>1. CASE UNCHANGED vars BY <2>1 DEF vars, FailureInv, RecoveryInv, Reported
  <2>2. ASSUME NEW r \in Requests, Step(r) \/ HookSettles(r) PROVE Inv'
    <3>1. FailureInv(r)' BY <2>2, FailureStep
    <3>2. Others(r) BY <2>2, OthersUnchanged DEF TypeInv
    <3>3. \A q \in Requests \ {r} : FailureInv(q)'
      BY <3>2 DEF Others, FailureInv, RecoveryInv, Reported
    <3> QED BY <3>1, <3>3
  <2> QED BY <2>1, <2>2 DEF Next
<1>3. Inv => FailuresReported BY DEF FailureInv, Reported, FailuresReported
<1> QED BY <1>1, <1>2, <1>3, TypeInit, TypeStep, PTL DEF Spec
-------------------------------------------------------------------------------
(* A request of an allowed origin with which no step has failed that the     *)
(* headers depend on, and a result that has them.                            *)
Allowed(r) == cors[r] = "allowed" /\ faults[r] \cap {"transformResult", "renderResult"} = {}
Carries(r) == <<"cors", r>> \in result[r].headers

(* From CorsTransformer on the result has the headers, up to the terminator; *)
(* a step that would lose them remains in the faults of the request.         *)
CorsInv(r) ==
    /\ pc[r] = "handleError" => recovery[r].step \in faults[r]
    /\ Allowed(r) =>
        /\ pc[r] = "transforming" /\ (\E i \in 1 .. progress[r] : Transformers[i] = "cors")
               => Carries(r)
        /\ pc[r] \in {"renderResult", "terminateResponse"} => Carries(r)
        /\ pc[r] = "dispose" /\ ~rejected[r] => Carries(r)

(* An answer of the terminator has the headers.                              *)
CorsAnswers(r) ==
    Allowed(r) => \A i \in DOMAIN answers[r] :
        answers[r][i].by = "terminator" => <<"cors", r>> \in answers[r][i].headers

LEMMA CorsTransformerRuns ==
    ASSUME NEW n \in 0 .. Len(Transformers) - 1, n + 1 = Len(Transformers)
    PROVE  \E i \in 1 .. n + 1 : Transformers[i] = "cors"
BY TransformersAssumption, CorsTransformerAssumption DEF Names

LEMMA CorsStep ==
    ASSUME TypeInv, NEW r \in Requests, CorsInv(r), Step(r) \/ HookSettles(r)
    PROVE  CorsInv(r)'
<1> USE DEF Goto, TypeInv, TypeOK
<1>1. CASE \/ Start(r) \/ Authorize(r) \/ EnterPipeline(r) \/ Prepare(r) \/ BeforeInvoke(r)
           \/ CheckCors(r) \/ InvokeHandler(r)
  BY <1>1 DEF Start, Authorize, EnterPipeline, Prepare, BeforeInvoke, CheckCors, InvokeHandler,
              CorsInv
<1>2. CASE StepRejects(r) \/ ErrorHandlerFails(r) \/ TerminatorFails(r)
  BY <1>2 DEF StepRejects, ErrorHandlerFails, TerminatorFails, Reject, CorsInv
<1>3. CASE StartFails(r) \/ EndDispose(r)
  BY <1>3 DEF StartFails, EndDispose, CorsInv
<1>4. CASE HooksNotInjected(r) \/ HandlerFails(r) \/ TransformersNotInjected(r) \/ NoRenderer(r)
  BY <1>4 DEF HooksNotInjected, HandlerFails, TransformersNotInjected, NoRenderer, HandleError,
              Add, CorsInv
<1>5. CASE HookSettles(r)
  <2>1. PICK h \in Hooks : HookDone(r, h) \/ HookFails(r, h) BY <1>5 DEF HookSettles
  <2>2. CASE HookDone(r, h) BY <2>2 DEF HookDone, CorsInv, Allowed, Carries, input
  <2>3. CASE HookFails(r, h)
    BY <2>3 DEF HookFails, HandleError, Add, CorsInv, Allowed, Carries, input
  <2> QED BY <2>1, <2>2, <2>3
<1>6. CASE TransformResult(r)
  BY <1>6 DEF TransformResult, CorsInv
<1>7. CASE Transform(r) \/ TransformerFails(r)
  <2> DEFINE n == progress[r]
  <2>1. /\ pc[r] = "transforming"
        /\ n \in 0 .. Len(Transformers) - 1 /\ Len(Transformers) \in Nat
        /\ result[r] \in Results
    BY <1>7, TransformersAssumption DEF Transform, TransformerFails, StageInv
  <2>2. /\ progress'[r] = n + 1
        /\ pc'[r] = IF n + 1 = Len(Transformers) THEN "renderResult" ELSE "transforming"
        /\ cors' = cors /\ faults[r] \subseteq faults'[r]
    BY <1>7, <2>1 DEF Transform, TransformerFails, Transformed, Add, input
  <2>3. Allowed(r)' => Allowed(r) BY <2>2 DEF Allowed
  <2>4. result[r].headers \subseteq result'[r].headers
    <3>1. CASE Transform(r) BY <2>1, <3>1 DEF Transform, Results
    <3>2. CASE TransformerFails(r)
      <4>1. PICK t : result' = [result EXCEPT ![r].errors = @ \cup {t}]
        BY <3>2 DEF TransformerFails
      <4> QED BY <2>1, <4>1 DEF Results
    <3> QED BY <1>7, <3>1, <3>2
  <2>5. Allowed(r) /\ Transformers[n + 1] = "cors" => Carries(r)'
    BY <1>7, <2>1 DEF Transform, TransformerFails, Allowed, Carries, Results
  <2>6. ASSUME Allowed(r)', \E i \in 1 .. n + 1 : Transformers[i] = "cors"
        PROVE  Carries(r)'
    <3>1. PICK i \in 1 .. n + 1 : Transformers[i] = "cors" BY <2>6
    <3>2. CASE i = n + 1 BY <2>3, <2>5, <2>6, <3>1, <3>2
    <3>3. CASE i # n + 1
      <4>1. i \in 1 .. n BY <2>1, <3>3
      <4>2. Carries(r) BY <2>1, <2>3, <2>6, <3>1, <4>1 DEF CorsInv
      <4> QED BY <2>4, <4>2 DEF Carries
    <3> QED BY <3>2, <3>3
  <2>7. Allowed(r)' /\ pc'[r] = "renderResult" => Carries(r)'
    BY <2>1, <2>2, <2>6, CorsTransformerRuns
  <2> QED BY <2>2, <2>6, <2>7 DEF CorsInv
<1>8. CASE RenderResult(r)
  <2>1. result[r] \in Results BY <1>8 DEF RenderResult, StageInv
  <2>2. result'[r].headers = result[r].headers BY <1>8, <2>1 DEF RenderResult, Results
  <2>3. pc[r] = "renderResult" /\ pc'[r] = "terminateResponse" /\ UNCHANGED <<cors, faults>>
    BY <1>8 DEF RenderResult, input
  <2> QED BY <2>2, <2>3 DEF CorsInv, Allowed, Carries
<1>9. CASE ErrorHandled(r)
  <2>1. /\ pc[r] = "handleError" /\ recovery[r] \in Recoveries
        /\ UNCHANGED <<cors, faults, rejected>>
    BY <1>9 DEF ErrorHandled, StageInv, input
  <2>2. recovery[r].step \in SafeSteps /\ recovery[r].step \in faults'[r]
    BY <2>1 DEF Recoveries, CorsInv
  <2>3. CASE IsLastHandler(r)
    <3>1. pc'[r] = StepAfter[recovery[r].step] BY <1>9, <2>3 DEF ErrorHandled
    <3>2. CASE recovery[r].step \in {"transformResult", "renderResult"}
      <4>1. ~Allowed(r)' BY <2>2, <3>2 DEF Allowed
      <4>2. pc'[r] # "handleError" BY <3>1, <3>2 DEF StepAfter
      <4> QED BY <4>1, <4>2 DEF CorsInv
    <3>3. CASE recovery[r].step \in {"beforeInvokeHandler", "invokeHandler"}
      <4>1. pc'[r] \in {"checkCors", "transformResult"} BY <3>1, <3>3 DEF StepAfter
      <4> QED BY <4>1 DEF CorsInv
    <3> QED BY <2>2, <3>2, <3>3 DEF SafeSteps
  <2>4. CASE ~IsLastHandler(r)
    <3>1. UNCHANGED pc /\ recovery'[r].step = recovery[r].step
      BY <1>9, <2>1, <2>4 DEF ErrorHandled, Recoveries
    <3> QED BY <2>1, <2>2, <3>1 DEF CorsInv
  <2> QED BY <2>3, <2>4
<1>10. CASE Terminate(r)
  <2>1. result[r] \in Results BY <1>10 DEF Terminate, StageInv
  <2>2. result[r].headers \subseteq result'[r].headers
    <3>1. result'[r].headers = WithHeaders(response[ResponseOf(r)], result[r].headers)
      BY <1>10, <2>1 DEF Terminate, Results
    <3> QED BY <3>1 DEF WithHeaders
  <2>3. pc[r] = "terminateResponse" /\ pc'[r] = "dispose" /\ UNCHANGED <<cors, faults>>
    BY <1>10 DEF Terminate, input
  <2> QED BY <2>2, <2>3 DEF CorsInv, Allowed, Carries
<1> QED BY <1>1, <1>2, <1>3, <1>4, <1>5, <1>6, <1>7, <1>8, <1>9, <1>10 DEF Step

(* A new answer is the last one of the request.                              *)
LEMMA AnswerAppended ==
    ASSUME TypeOK, NEW r \in Requests, NEW by, NEW status, NEW headers,
           Answer(r, by, status, headers), CorsAnswers(r), Allowed(r)' => Allowed(r),
           Allowed(r) /\ by = "terminator" => <<"cors", r>> \in headers
    PROVE  CorsAnswers(r)'
<1> DEFINE a == [by |-> by, status |-> status, headers |-> headers]
           old == answers[r]
<1>1. answers'[r] = Append(old, a) BY DEF Answer, TypeOK
<1>2. old \in Seq(Answers) BY DEF TypeOK
<1>3. a.by = by /\ a.headers = headers OBVIOUS
<1> HIDE DEF a, old
<1>4. /\ DOMAIN Append(old, a) = 1 .. Len(old) + 1
      /\ DOMAIN old = 1 .. Len(old)
      /\ Len(old) \in Nat
      /\ Append(old, a)[Len(old) + 1] = a
      /\ \A i \in 1 .. Len(old) : Append(old, a)[i] = old[i]
  BY <1>2
<1> SUFFICES ASSUME Allowed(r)', NEW i \in DOMAIN answers'[r], answers'[r][i].by = "terminator"
             PROVE  <<"cors", r>> \in answers'[r][i].headers
  BY DEF CorsAnswers
<1>5. CASE i = Len(old) + 1 BY <1>1, <1>3, <1>4, <1>5
<1>6. CASE i # Len(old) + 1
  <2>1. i \in DOMAIN old /\ answers'[r][i] = old[i] BY <1>1, <1>4, <1>6
  <2> QED BY <2>1 DEF CorsAnswers, old
<1> QED BY <1>5, <1>6

(* Faults are never forgotten; answers and rejections of others stay.        *)
LEMMA FaultsKept ==
    ASSUME TypeOK, NEW r \in Requests, Step(r) \/ HookSettles(r)
    PROVE  /\ faults[r] \subseteq faults'[r]
           /\ \A q \in Requests \ {r} : answers'[q] = answers[q] /\ rejected'[q] = rejected[q]
<1> USE DEF TypeOK
<1>1. CASE \/ Start(r) \/ StartFails(r) \/ Authorize(r) \/ EnterPipeline(r) \/ Prepare(r)
           \/ BeforeInvoke(r) \/ CheckCors(r) \/ InvokeHandler(r)
  BY <1>1 DEF Start, StartFails, Add, Answer, Authorize, EnterPipeline, Prepare, BeforeInvoke,
              CheckCors, InvokeHandler
<1>2. CASE StepRejects(r) \/ ErrorHandlerFails(r) \/ TerminatorFails(r)
  BY <1>2 DEF StepRejects, ErrorHandlerFails, TerminatorFails, Reject, Add
<1>3. CASE HooksNotInjected(r) \/ HandlerFails(r) \/ TransformersNotInjected(r) \/ NoRenderer(r)
  BY <1>3 DEF HooksNotInjected, HandlerFails, TransformersNotInjected, NoRenderer, HandleError, Add
<1>4. CASE TransformResult(r) \/ Transform(r) \/ TransformerFails(r) \/ RenderResult(r)
  BY <1>4 DEF TransformResult, Transform, TransformerFails, RenderResult, Add
<1>5. CASE ErrorHandled(r) BY <1>5 DEF ErrorHandled
<1>6. CASE Terminate(r) \/ EndDispose(r) BY <1>6 DEF Terminate, EndDispose, Add, Answer
<1>7. CASE HookSettles(r) BY <1>7 DEF HookSettles, HookDone, HookFails, HandleError, Add
<1> QED BY <1>1, <1>2, <1>3, <1>4, <1>5, <1>6, <1>7 DEF Step

LEMMA CorsAnswersStep ==
    ASSUME TypeInv, NEW r \in Requests, CorsInv(r), CorsAnswers(r), Step(r) \/ HookSettles(r)
    PROVE  CorsAnswers(r)'
<1>1. Allowed(r)' => Allowed(r)
  BY FaultsKept, OthersUnchanged DEF Allowed, TypeInv, input
<1>2. CASE UNCHANGED answers BY <1>1, <1>2 DEF CorsAnswers
<1>3. CASE StartFails(r)
  <2>1. Answer(r, "caller", "error", {}) BY <1>3 DEF StartFails
  <2> QED BY <1>1, <2>1, AnswerAppended DEF TypeInv
<1>4. CASE Terminate(r)
  <2> DEFINE headers == WithHeaders(response[ResponseOf(r)], result[r].headers)
             status == IF result[r].status = "unset" THEN "success" ELSE result[r].status
  <2>1. CASE Answer(r, "terminator", status, headers)
    <3>1. Allowed(r) => <<"cors", r>> \in headers
      BY <1>4 DEF Terminate, CorsInv, Carries, WithHeaders
    <3> HIDE DEF status, headers
    <3> QED BY <1>1, <2>1, <3>1, AnswerAppended DEF TypeInv
  <2> QED BY <1>2, <1>4, <2>1 DEF Terminate
<1>5. CASE EndDispose(r)
  <2>1. PICK fails \in BOOLEAN :
          IF CaughtAnswer(r, fails)
          THEN Answer(r, "caller", "error", IF host = "mvc" THEN response[r] ELSE {})
          ELSE IF host = "lambda"
               THEN Answer(r, "terminator", result[r].status, result[r].headers)
               ELSE UNCHANGED answers
    BY <1>5 DEF EndDispose
  <2>2. CASE CaughtAnswer(r, fails)
    BY <1>1, <2>1, <2>2, AnswerAppended DEF TypeInv
  <2>3. CASE ~CaughtAnswer(r, fails) /\ host = "lambda"
    <3>1. Allowed(r) => <<"cors", r>> \in result[r].headers
      BY <1>5, <2>3 DEF EndDispose, CaughtAnswer, CorsInv, Carries
    <3> QED BY <1>1, <2>1, <2>3, <3>1, AnswerAppended DEF TypeInv
  <2> QED BY <1>2, <2>1, <2>2, <2>3
<1>6. CASE ~(StartFails(r) \/ Terminate(r) \/ EndDispose(r))
  <2>1. UNCHANGED answers
    BY <1>6 DEF Step, HookSettles, Start, Authorize, EnterPipeline, Prepare, StepRejects, Reject,
                BeforeInvoke, HooksNotInjected, CheckCors, InvokeHandler, HandlerFails,
                TransformResult, TransformersNotInjected, Transform, TransformerFails,
                RenderResult, NoRenderer, ErrorHandled, ErrorHandlerFails, TerminatorFails,
                HookDone, HookFails
  <2> QED BY <1>2, <2>1
<1> QED BY <1>3, <1>4, <1>5, <1>6

(* What the terminator answers to an allowed CORS request has the headers,   *)
(* whichever transformers run before and after CorsTransformer and fail.     *)
THEOREM CorsHeadersKeptAlways == Spec => []CorsHeadersKept
<1> DEFINE Inv == \A r \in Requests : CorsInv(r) /\ CorsAnswers(r)
<1>1. Init => Inv
  <2>1. DOMAIN << >> = {} OBVIOUS
  <2> QED BY <2>1 DEF Init, CorsInv, CorsAnswers
<1>2. TypeInv /\ Inv /\ [Next]_vars => Inv'
  <2> SUFFICES ASSUME TypeInv, Inv, [Next]_vars PROVE Inv'
    OBVIOUS
  <2>1. CASE UNCHANGED vars BY <2>1 DEF vars, input, CorsInv, CorsAnswers, Allowed, Carries
  <2>2. ASSUME NEW r \in Requests, Step(r) \/ HookSettles(r) PROVE Inv'
    <3>1. CorsInv(r)' /\ CorsAnswers(r)' BY <2>2, CorsStep, CorsAnswersStep
    <3>2. Others(r) /\ UNCHANGED input BY <2>2, OthersUnchanged DEF TypeInv
    <3>3. \A q \in Requests \ {r} : answers'[q] = answers[q] /\ rejected'[q] = rejected[q]
      BY <2>2, FaultsKept DEF TypeInv
    <3>4. ASSUME NEW q \in Requests \ {r} PROVE CorsInv(q)' /\ CorsAnswers(q)'
      <4>1. Allowed(q)' = Allowed(q) BY <3>2 DEF Others, Allowed, input
      <4>2. CorsInv(q)' BY <3>2, <3>3, <4>1 DEF Others, CorsInv, Carries
      <4>3. CorsAnswers(q)' BY <3>3, <4>1 DEF CorsAnswers
      <4> QED BY <4>2, <4>3
    <3> QED BY <3>1, <3>4
  <2> QED BY <2>1, <2>2 DEF Next
<1>3. Inv => CorsHeadersKept BY DEF CorsAnswers, Allowed, CorsHeadersKept
<1> QED BY <1>1, <1>2, <1>3, TypeInit, TypeStep, PTL DEF Spec
===============================================================================
