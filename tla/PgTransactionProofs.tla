-------------------------- MODULE PgTransactionProofs --------------------------
(*****************************************************************************)
(* Proofs about PgTransaction for any set of calls: its types, and that its  *)
(* state and the transaction of the server agree.  When it is used properly  *)
(* the connection is released without an open transaction and nothing is sent*)
(* on it any more, nothing that was reported done is lost, and what failed is*)
(* not durable; whoever uses it, a query that fails has been rolled back.    *)
(*****************************************************************************)
EXTENDS PgTransaction, Integers, TLAPS

(* While it is committing with nothing in flight, a rollback is on its way.  *)
RollbackQueued == \E i \in DOMAIN queue : queue[i][2] = "rollback"

AtRest ==
    \/ state = "idle" /\ conn = "none"
    \/ state = "ready" /\ conn # "none"
    \/ state = "committing" /\ RollbackQueued

(* The statement in flight, the state and the transaction of the server.     *)
Agreement ==
    ~faulted /\ ~remapped =>
        /\ stage = "none" => AtRest
        /\ stage = "begin" => state = "beginning"
        /\ stage = "query" => state = "ready"
        /\ stage = "commit" => state = "committing"
        /\ stage = "rollback" => state = "rollingBack"

(* A query in flight is in a transaction, also while the client is disposed. *)
QueryInside == stage = "query" => conn # "none" \/ faulted

ReleasedFirst == remapped \/ (\E d \in Disposers : disposer[d] = "closing") => released

NothingInFlight == queue = <<>> => stage = "none"

AgreementInv ==
    /\ Agreement
    /\ QueryInside
    /\ ReleasedFirst
    /\ NothingInFlight
    /\ NothingLoose
-------------------------------------------------------------------------------
(* Types, in three parts: the state, the rest of the client, the server.     *)
ClientTypes ==
    /\ queue \in Seq(Tasks)
    /\ stage \in {"none", "begin", "query", "commit", "rollback"}
    /\ kind \in [Calls -> Kinds \cup {"none"}]
    /\ call \in [Calls -> {"new", "pending", "done", "failed"}]
    /\ fn \in {"running", "returned", "threw"}
    /\ tidy \in BOOLEAN
    /\ disposer \in [Disposers -> {"none", "committing", "closing", "done", "failed"}]
    /\ failure \subseteq Disposers
    /\ released \in BOOLEAN /\ remapped \in BOOLEAN
    /\ ahead \in [Calls -> SUBSET Calls]

ServerTypes ==
    /\ conn \in {"none", "active", "aborted"}
    /\ written \subseteq Calls
    /\ committed \subseteq Calls
    /\ loose \subseteq Calls
    /\ faulted \in BOOLEAN

LEMMA TypeParts == TypeOK <=> state \in States /\ ClientTypes /\ ServerTypes
BY DEF TypeOK, ClientTypes, ServerTypes

(* The first task has an owner, and the rest of the queue is a queue.        *)
LEMMA FirstTask ==
    ASSUME ClientTypes, queue # <<>>
    PROVE  /\ First \in Tasks
           /\ Owner \in Calls \cup Disposers
           /\ <<Owner, "rollback">> \in Tasks
           /\ Tail(queue) \in Seq(Tasks)
           /\ First[2] = "query" => Owner \in Calls
<1>1. queue \in Seq(Tasks) BY DEF ClientTypes
<1>2. Head(queue) \in Tasks /\ Tail(queue) \in Seq(Tasks)
  BY <1>1
<1>3. PICK o \in Calls \cup Disposers, k \in Kinds :
            Head(queue) = <<o, k>> /\ (k = "query" => o \in Calls)
  BY <1>2 DEF Tasks, Kinds
<1> QED BY <1>2, <1>3 DEF First, Owner, Tasks, Kinds

LEMMA EndTaskTypes ==
    ASSUME ClientTypes, queue # <<>>, NEW ok \in BOOLEAN, EndTask(ok)
    PROVE  ClientTypes'
<1>1. Owner \in Calls \cup Disposers /\ Tail(queue) \in Seq(Tasks) BY FirstTask
<1>2. CASE Owner \in Calls
  BY <1>1, <1>2 DEF EndTask, Settle, ClientTypes
<1>3. CASE Owner \in Disposers /\ Owner \notin Calls
  BY <1>1, <1>3 DEF EndTask, Settle, CloseAfterCommit, ClientTypes
<1> QED BY <1>1, <1>2, <1>3

LEMMA RollBackAfterTypes ==
    ASSUME ClientTypes, queue # <<>>, RollBackAfter
    PROVE  ClientTypes'
<1>1. <<Owner, "rollback">> \in Tasks /\ Tail(queue) \in Seq(Tasks) BY FirstTask
<1>2. queue' \in Seq(Tasks) BY <1>1 DEF RollBackAfter
<1>3. ahead' \in [Calls -> SUBSET Calls] BY DEF RollBackAfter, CommitsWaiting, ClientTypes
<1> QED BY <1>2, <1>3 DEF RollBackAfter, ClientTypes

LEMMA SendTypes ==
    ASSUME ClientTypes,
           NEW statement \in {"begin", "query", "commit", "rollback"},
           Send(statement)
    PROVE  ClientTypes'
BY DEF Send, ClientTypes

LEMMA QueryErrorTypes ==
    ASSUME ClientTypes, queue # <<>>, QueryError
    PROVE  ClientTypes' /\ state' = state
BY EndTaskTypes, RollBackAfterTypes DEF QueryError

LEMMA ExecutesTypes ==
    ASSUME ServerTypes, NEW c \in Calls, Executes(c)
    PROVE  ServerTypes'
BY DEF Executes, ServerTypes

LEMMA EndsTypes ==
    ASSUME ServerTypes, NEW durable \in SUBSET Calls, Ends(durable)
    PROVE  ServerTypes'
BY DEF Ends, ServerTypes

LEMMA DisposeTypes ==
    ASSUME ClientTypes, NEW d \in Disposers, Dispose(d),
           UNCHANGED <<stage, kind, call, fn, tidy, failure, remapped, ahead>>
    PROVE  ClientTypes'
<1>1. <<d, "commit">> \in Tasks BY DEF Tasks, Kinds
<1>2. queue' \in Seq(Tasks)
  <2>1. queue \in Seq(Tasks)
    BY DEF ClientTypes
  <2>2. queue' = Append(queue, <<d, "commit">>) \/ queue' = queue
    BY DEF Dispose, ClientTypes
  <2> QED BY <1>1, <2>1, <2>2
<1> QED BY <1>2 DEF Dispose, ClientTypes

(* The statements of a query are in flight for the query of a call.          *)
QueryInFlight == stage \in {"begin", "query"} => queue # <<>> /\ First[2] = "query"

TypeInv == TypeOK /\ QueryInFlight

LEMMA TaskKeepsTypes == TypeInv /\ Task => TypeInv'
<1> SUFFICES ASSUME TypeInv, Task PROVE TypeInv'
  OBVIOUS
<1>1. state \in States /\ ClientTypes /\ ServerTypes BY TypeParts DEF TypeInv
<1> SUFFICES state' \in States /\ ClientTypes' /\ ServerTypes' /\ QueryInFlight'
  BY TypeParts DEF TypeInv, TypeOK, ClientTypes, ServerTypes
<1>2. ASSUME UNCHANGED server PROVE ServerTypes'
  BY <1>1, <1>2 DEF ServerTypes, server
<1>3. ASSUME EndTask(FALSE) PROVE QueryInFlight'
  BY <1>3 DEF EndTask, QueryInFlight
<1>4. CASE QueryRefused
  BY <1>1, <1>2, <1>3, <1>4, EndTaskTypes DEF QueryRefused, Starts
<1>5. CASE QueryBegins
  <2>1. ClientTypes' BY <1>1, <1>5, SendTypes DEF QueryBegins
  <2>2. QueryInFlight' BY <1>5 DEF QueryBegins, Starts, Send, QueryInFlight, First
  <2> QED BY <1>2, <1>5, <2>1, <2>2 DEF QueryBegins, Transition, States
<1>6. CASE QuerySends
  <2>1. ClientTypes' BY <1>1, <1>6, SendTypes DEF QuerySends
  <2>2. QueryInFlight' BY <1>6 DEF QuerySends, Starts, Send, QueryInFlight, First
  <2> QED BY <1>1, <1>2, <1>6, <2>1, <2>2 DEF QuerySends
<1>7. CASE CommitRefused
  BY <1>1, <1>2, <1>3, <1>7, EndTaskTypes DEF CommitRefused, Starts
<1>8. CASE CommitSends
  <2>1. ClientTypes' BY <1>1, <1>8, SendTypes DEF CommitSends
  <2>2. QueryInFlight' BY <1>8 DEF CommitSends, Send, QueryInFlight
  <2> QED BY <1>2, <1>8, <2>1, <2>2 DEF CommitSends, Transition, States
<1>9. CASE RollbackRefused
  BY <1>1, <1>2, <1>3, <1>9, EndTaskTypes DEF RollbackRefused, Starts
<1>10. CASE RollbackSends
  <2>1. ClientTypes' BY <1>1, <1>10, SendTypes DEF RollbackSends
  <2>2. QueryInFlight' BY <1>10 DEF RollbackSends, Send, QueryInFlight
  <2> QED BY <1>2, <1>10, <2>1, <2>2 DEF RollbackSends, Transition, States
<1> QED BY <1>4, <1>5, <1>6, <1>7, <1>8, <1>9, <1>10 DEF Task

LEMMA AnswerKeepsTypes == TypeInv /\ Answer => TypeInv'
<1> SUFFICES ASSUME TypeInv, Answer PROVE TypeInv'
  OBVIOUS
<1>1. state \in States /\ ClientTypes /\ ServerTypes BY TypeParts DEF TypeInv
<1>2. queue # <<>>
  BY DEF Answer, BeginSucceeds, BeginFails, QuerySucceeds, QueryFails, ModelFails,
         CommitSucceeds, CommitFails, RollbackSucceeds, RollbackFails, Answers
<1> SUFFICES state' \in States /\ ClientTypes' /\ ServerTypes' /\ QueryInFlight'
  BY TypeParts DEF TypeInv, TypeOK, ClientTypes, ServerTypes
<1>3. ASSUME NEW ok \in BOOLEAN, EndTask(ok) PROVE ClientTypes' /\ QueryInFlight'
  BY <1>1, <1>2, <1>3, EndTaskTypes DEF EndTask, QueryInFlight
<1>4. ASSUME RollBackAfter PROVE ClientTypes' /\ QueryInFlight'
  BY <1>1, <1>2, <1>4, RollBackAfterTypes DEF RollBackAfter, QueryInFlight
<1>5. ASSUME QueryError PROVE ClientTypes' /\ QueryInFlight' /\ state' = state
  BY <1>3, <1>4, <1>5 DEF QueryError
<1>6. stage = "query" => Owner \in Calls
  BY <1>1, <1>2, FirstTask DEF TypeInv, QueryInFlight
<1>7. StateAfter("commit") \in States /\ StateAfter("rollback") \in States
  BY DEF StateAfter, Allowed, Completion, Transition, States
<1>8. CASE BeginSucceeds
  <2>1. ServerTypes' BY <1>1, <1>8 DEF BeginSucceeds, ServerTypes
  <2>2. CASE remapped BY <1>1, <1>3, <1>8, <2>1, <2>2 DEF BeginSucceeds
  <2>3. CASE ~remapped
    <3>1. ClientTypes' BY <1>1, <1>8, <2>3, SendTypes DEF BeginSucceeds
    <3>2. QueryInFlight'
      BY <1>8, <2>3 DEF BeginSucceeds, Answers, Send, TypeInv, QueryInFlight, First
    <3> QED BY <1>8, <2>1, <2>3, <3>1, <3>2 DEF BeginSucceeds, Completion, States
  <2> QED BY <2>2, <2>3
<1>9. CASE BeginFails
  BY <1>1, <1>3, <1>9 DEF BeginFails, Fault, ServerTypes
<1>10. CASE QuerySucceeds
  BY <1>1, <1>3, <1>6, <1>10, ExecutesTypes DEF QuerySucceeds, Answers
<1>11. CASE QueryFails
  BY <1>1, <1>5, <1>11 DEF QueryFails, ServerTypes
<1>12. CASE ModelFails
  BY <1>1, <1>5, <1>6, <1>12, ExecutesTypes DEF ModelFails, Answers
<1>13. CASE CommitSucceeds
  <2>1. (IF conn = "aborted" THEN {} ELSE written) \in SUBSET Calls
    BY <1>1 DEF ServerTypes
  <2>2. ServerTypes' BY <1>1, <1>13, <2>1, EndsTypes DEF CommitSucceeds
  <2> QED BY <1>1, <1>3, <1>7, <1>13, <2>2 DEF CommitSucceeds
<1>14. CASE CommitFails
  <2>1. ServerTypes' BY <1>1, <1>14, EndsTypes DEF CommitFails, server, ServerTypes
  <2> QED BY <1>1, <1>3, <1>4, <1>14, <2>1 DEF CommitFails
<1>15. CASE RollbackSucceeds
  <2>1. ServerTypes' BY <1>1, <1>15, EndsTypes DEF RollbackSucceeds
  <2> QED BY <1>1, <1>3, <1>7, <1>15, <2>1 DEF RollbackSucceeds
<1>16. CASE RollbackFails
  BY <1>1, <1>3, <1>16 DEF RollbackFails, Fault, ServerTypes
<1> QED BY <1>8, <1>9, <1>10, <1>11, <1>12, <1>13, <1>14, <1>15, <1>16 DEF Answer

Others ==
    \/ \E c \in Calls, k \in Kinds : Call(c, k)
    \/ FnSettles
    \/ UseAsyncEnds
    \/ Shutdown
    \/ \E d \in Disposers : Remap(d)

(* The other steps only lengthen the queue, and leave its first task alone.  *)
LEMMA OthersKeepFirst ==
    ASSUME ClientTypes, Others
    PROVE  /\ UNCHANGED <<state, stage, server>>
           /\ queue # <<>> => queue' # <<>> /\ First' = First
           /\ \A i \in DOMAIN queue : i \in DOMAIN queue' /\ queue'[i] = queue[i]
<1>1. queue \in Seq(Tasks) BY DEF ClientTypes
<1>2. UNCHANGED <<state, stage, server>>
  BY DEF Others, Call, FnSettles, UseAsyncEnds, Shutdown, Remap
<1>3. queue' = queue \/ (\E t \in Tasks : queue' = Append(queue, t))
  <2>1. ASSUME NEW c \in Calls, NEW k \in Kinds, Call(c, k)
        PROVE  queue' = queue \/ (\E t \in Tasks : queue' = Append(queue, t))
    BY <2>1 DEF Call, Tasks
  <2>2. ASSUME NEW d \in Disposers, Dispose(d)
        PROVE  queue' = queue \/ (\E t \in Tasks : queue' = Append(queue, t))
    BY <2>2 DEF Dispose, Tasks
  <2> QED BY <2>1, <2>2 DEF Others, FnSettles, UseAsyncEnds, Shutdown, Remap, Disposers
<1> QED BY <1>1, <1>2, <1>3 DEF First

LEMMA OthersKeepTypes == TypeInv /\ Others => TypeInv'
<1> SUFFICES ASSUME TypeInv, Others PROVE TypeInv'
  OBVIOUS
<1>1. state \in States /\ ClientTypes /\ ServerTypes BY TypeParts DEF TypeInv
<1>2. UNCHANGED <<state, stage, server>> BY <1>1, OthersKeepFirst
<1>3. QueryInFlight'
  BY <1>1, OthersKeepFirst DEF TypeInv, QueryInFlight
<1>4. ClientTypes'
  <2>1. ASSUME NEW c \in Calls, NEW k \in Kinds, Call(c, k) PROVE ClientTypes'
    <3>1. <<c, k>> \in Tasks BY DEF Tasks
    <3>2. queue' = queue \/ queue' = Append(queue, <<c, k>>) BY <2>1, Zenon DEF Call
    <3>3. queue \in Seq(Tasks) BY <1>1 DEF ClientTypes
    <3>4. queue' \in Seq(Tasks) BY <3>1, <3>2, <3>3
    <3> QED BY <1>1, <2>1, <3>4 DEF Call, ClientTypes, Kinds
  <2>2. CASE FnSettles BY <1>1, <2>2 DEF FnSettles, ClientTypes
  <2>3. CASE UseAsyncEnds
    <3>1. CASE remapped BY <1>1, <2>3, <3>1 DEF UseAsyncEnds, ClientTypes
    <3>2. CASE ~remapped BY <1>1, <2>3, <3>2, DisposeTypes DEF UseAsyncEnds, Disposers
    <3> QED BY <3>1, <3>2
  <2>4. CASE Shutdown BY <1>1, <2>4, DisposeTypes DEF Shutdown, Disposers
  <2>5. ASSUME NEW d \in Disposers, Remap(d) PROVE ClientTypes'
    BY <1>1, <2>5 DEF Remap, ClientTypes
  <2> QED BY <2>1, <2>2, <2>3, <2>4, <2>5 DEF Others
<1> QED
  BY <1>1, <1>2, <1>3, <1>4, TypeParts
  DEF TypeInv, TypeOK, ClientTypes, ServerTypes, server

LEMMA TypeInvariant == Spec => []TypeInv
<1>1. Init => TypeInv
  <2> SUFFICES ASSUME Init PROVE TypeInv
    OBVIOUS
  <2>1. <<>> \in Seq(Tasks) OBVIOUS
  <2>2. /\ kind \in [Calls -> Kinds \cup {"none"}]
        /\ call \in [Calls -> {"new", "pending", "done", "failed"}]
        /\ disposer \in [Disposers -> {"none", "committing", "closing", "done", "failed"}]
    BY DEF Init
  <2> QED BY <2>1, <2>2 DEF Init, TypeInv, TypeOK, QueryInFlight, States
<1>2. TypeInv /\ [Next]_vars => TypeInv'
  <2>1. TypeInv /\ Next => TypeInv'
    BY TaskKeepsTypes, AnswerKeepsTypes, OthersKeepTypes DEF Next, Others
  <2>2. TypeInv /\ UNCHANGED vars => TypeInv'
    BY DEF TypeInv, TypeOK, QueryInFlight, First, vars, client, server
  <2> QED BY <2>1, <2>2
<1> QED BY <1>1, <1>2, PTL DEF Spec

(* The type invariant, for any set of calls.                                 *)
THEOREM TypeCorrect == Spec => []TypeOK
<1>1. TypeInv => TypeOK BY DEF TypeInv
<1> QED BY <1>1, TypeInvariant, PTL

-------------------------------------------------------------------------------
(* The agreement of client and server.  Ending a task keeps what is queued   *)
(* behind it, and the rest of the client as it is.                           *)
LEMMA EndTaskFacts ==
    ASSUME ClientTypes, queue # <<>>, NEW ok \in BOOLEAN, EndTask(ok)
    PROVE  /\ stage' = "none" /\ remapped' = remapped
           /\ ReleasedFirst => ReleasedFirst'
           /\ RollbackQueued /\ First[2] # "rollback" => RollbackQueued'
<1>1. stage' = "none" /\ remapped' = remapped /\ queue' = Tail(queue)
  BY DEF EndTask
<1>2. ReleasedFirst => ReleasedFirst'
  BY DEF EndTask, Settle, CloseAfterCommit, ReleasedFirst, ClientTypes
<1>3. ASSUME RollbackQueued, First[2] # "rollback" PROVE RollbackQueued'
  <2>1. queue \in Seq(Tasks) BY DEF ClientTypes
  <2>2. PICK i \in DOMAIN queue : queue[i][2] = "rollback"
    BY <1>3 DEF RollbackQueued
  <2>3. i # 1 BY <1>3, <2>1, <2>2 DEF First
  <2>4. i - 1 \in DOMAIN Tail(queue) /\ Tail(queue)[i - 1] = queue[i]
    BY <2>1, <2>3
  <2> QED BY <1>1, <2>2, <2>4 DEF RollbackQueued
<1> QED BY <1>1, <1>2, <1>3

LEMMA RollBackAfterFacts ==
    ASSUME ClientTypes, queue # <<>>, RollBackAfter
    PROVE  /\ stage' = "none" /\ remapped' = remapped
           /\ ReleasedFirst => ReleasedFirst'
           /\ RollbackQueued'
<1>1. Tail(queue) \in Seq(Tasks) BY FirstTask
<1>2. queue' = Append(Tail(queue), <<Owner, "rollback">>) BY DEF RollBackAfter
<1>3. Len(queue') \in DOMAIN queue' /\ queue'[Len(queue')] = <<Owner, "rollback">>
  BY <1>1, <1>2
<1>4. RollbackQueued' BY <1>3 DEF RollbackQueued
<1> QED BY <1>4 DEF RollBackAfter, ReleasedFirst

LEMMA TaskKeepsAgreement == TypeInv /\ AgreementInv /\ Task => AgreementInv'
<1> SUFFICES ASSUME TypeInv, AgreementInv, Task PROVE AgreementInv'
  OBVIOUS
<1>1. ClientTypes BY TypeParts DEF TypeInv
<1>2. queue # <<>> /\ stage = "none"
  BY DEF Task, QueryRefused, QueryBegins, QuerySends, CommitRefused, CommitSends,
         RollbackRefused, RollbackSends, Starts
<1>3. ASSUME NEW ok \in BOOLEAN, EndTask(ok), UNCHANGED <<state, server>>,
             remapped \/ First[2] # "rollback" \/ "rollback" \notin Allowed(state)
      PROVE  AgreementInv'
  <2>1. /\ stage' = "none" /\ remapped' = remapped /\ ReleasedFirst'
        /\ RollbackQueued /\ First[2] # "rollback" => RollbackQueued'
    BY <1>1, <1>2, <1>3, EndTaskFacts DEF AgreementInv
  <2>2. state = "committing" => "rollback" \in Allowed(state) BY DEF Allowed
  <2>3. Agreement'
    BY <1>2, <1>3, <2>1, <2>2 DEF AgreementInv, Agreement, AtRest, server
  <2> QED
    BY <1>3, <2>1, <2>3
    DEF AgreementInv, QueryInside, NothingInFlight, NothingLoose, server
<1>4. CASE QueryRefused BY <1>3, <1>4 DEF QueryRefused, Starts
<1>5. CASE CommitRefused BY <1>3, <1>5 DEF CommitRefused, Starts
<1>6. CASE RollbackRefused BY <1>3, <1>6 DEF RollbackRefused, Starts
<1>7. ASSUME NEW s, Send(s), UNCHANGED server
      PROVE  ReleasedFirst' /\ NothingInFlight' /\ NothingLoose' /\ stage' = s
             /\ remapped' = remapped
  BY <1>2, <1>7 DEF Send, AgreementInv, ReleasedFirst, NothingInFlight, NothingLoose, server
<1>8. CASE QueryBegins
  BY <1>7, <1>8 DEF QueryBegins, Transition, AgreementInv, Agreement, QueryInside
<1>9. CASE QuerySends
  <2>1. ~faulted => state = "ready" /\ conn # "none"
    BY <1>2, <1>9 DEF QuerySends, AgreementInv, Agreement, AtRest
  <2> QED
    BY <1>7, <1>9, <2>1 DEF QuerySends, AgreementInv, Agreement, QueryInside, server
<1>10. CASE CommitSends
  BY <1>7, <1>10 DEF CommitSends, Transition, AgreementInv, Agreement, QueryInside
<1>11. CASE RollbackSends
  BY <1>7, <1>11 DEF RollbackSends, Transition, AgreementInv, Agreement, QueryInside
<1> QED BY <1>4, <1>5, <1>6, <1>8, <1>9, <1>10, <1>11 DEF Task

LEMMA AnswerKeepsAgreement == TypeInv /\ AgreementInv /\ Answer => AgreementInv'
<1> SUFFICES ASSUME TypeInv, AgreementInv, Answer PROVE AgreementInv'
  OBVIOUS
<1>1. ClientTypes BY TypeParts DEF TypeInv
<1>2. queue # <<>>
  BY DEF Answer, BeginSucceeds, BeginFails, QuerySucceeds, QueryFails, ModelFails,
         CommitSucceeds, CommitFails, RollbackSucceeds, RollbackFails, Answers
<1>3. ASSUME NEW ok \in BOOLEAN, EndTask(ok)
      PROVE  stage' = "none" /\ remapped' = remapped /\ ReleasedFirst'
  BY <1>1, <1>2, <1>3, EndTaskFacts DEF AgreementInv
<1>4. ASSUME RollBackAfter
      PROVE  /\ stage' = "none" /\ remapped' = remapped /\ ReleasedFirst'
             /\ RollbackQueued'
  BY <1>1, <1>2, <1>4, RollBackAfterFacts DEF AgreementInv
<1>5. ASSUME QueryError
      PROVE  stage' = "none" /\ remapped' = remapped /\ ReleasedFirst' /\ state' = state
  BY <1>3, <1>4, <1>5 DEF QueryError
<1>6. SUFFICES ASSUME stage' = "none", remapped' = remapped, ReleasedFirst'
               PROVE  (~faulted' /\ ~remapped => AtRest') /\ NothingLoose'
  <2>1. CASE BeginSucceeds /\ ~remapped
    <3>1. stage' = "query" /\ conn' = "active" /\ UNCHANGED <<queue, remapped, loose, faulted>>
      BY <2>1 DEF BeginSucceeds, Send
    <3>2. ReleasedFirst'
      BY <2>1 DEF BeginSucceeds, Send, AgreementInv, ReleasedFirst
    <3>3. Agreement'
      BY <2>1, <3>1 DEF BeginSucceeds, Completion, Agreement
    <3> QED
      BY <1>2, <3>1, <3>2, <3>3 DEF AgreementInv, QueryInside, NothingInFlight, NothingLoose
  <2>2. CASE ~(BeginSucceeds /\ ~remapped)
    <3>1. stage' = "none" /\ remapped' = remapped /\ ReleasedFirst'
      BY <1>3, <1>4, <1>5, <2>2
      DEF Answer, BeginSucceeds, BeginFails, QuerySucceeds, QueryFails, ModelFails,
          CommitSucceeds, CommitFails, RollbackSucceeds, RollbackFails
    <3> QED
      BY <1>6, <3>1 DEF AgreementInv, Agreement, QueryInside, NothingInFlight
  <2> QED BY <2>1, <2>2
<1>7. NothingLoose BY DEF AgreementInv
<1>8. StateAfter("commit") = "idle" /\ StateAfter("rollback") = "idle"
  BY DEF StateAfter, Allowed, Completion, Transition
<1>9. stage = "query" => conn # "none" \/ faulted
  BY DEF AgreementInv, QueryInside
<1>10. stage = "query" /\ ~faulted /\ ~remapped => state = "ready"
  BY DEF AgreementInv, Agreement
<1>11. CASE BeginSucceeds
  BY <1>6, <1>7, <1>11 DEF BeginSucceeds, NothingLoose, Send
<1>12. CASE BeginFails BY <1>12 DEF BeginFails, Fault, NothingLoose
<1>13. CASE QuerySucceeds
  <2>1. state' = state /\ conn' = conn /\ faulted' = faulted /\ stage = "query"
    BY <1>13 DEF QuerySucceeds, Executes, Answers
  <2>2. conn = "active" => loose' = loose
    BY <1>13 DEF QuerySucceeds, Executes
  <2>3. conn # "aborted" BY <1>13 DEF QuerySucceeds, Executes
  <2>4. conn = "active" \/ faulted BY <1>9, <2>1, <2>3, TypeParts DEF TypeInv, ServerTypes
  <2> QED BY <1>7, <1>9, <1>10, <2>1, <2>2, <2>4 DEF NothingLoose, AtRest
<1>14. CASE QueryFails
  <2>1. state' = state BY <1>5, <1>14 DEF QueryFails
  <2>2. /\ faulted' = faulted /\ loose' = loose /\ stage = "query"
        /\ conn # "none" => conn' # "none"
    BY <1>14 DEF QueryFails, Answers
  <2> QED BY <1>7, <1>9, <1>10, <2>1, <2>2 DEF NothingLoose, AtRest
<1>15. CASE ModelFails
  <2>1. conn' = conn /\ faulted' = faulted /\ stage = "query" /\ state' = state
    BY <1>5, <1>15 DEF ModelFails, Executes, Answers
  <2>2. conn = "active" => loose' = loose
    BY <1>15 DEF ModelFails, Executes
  <2>3. conn # "aborted" BY <1>15 DEF ModelFails, Executes
  <2>4. conn = "active" \/ faulted BY <1>9, <2>1, <2>3, TypeParts DEF TypeInv, ServerTypes
  <2> QED BY <1>7, <1>9, <1>10, <2>1, <2>2, <2>4 DEF NothingLoose, AtRest
<1>16. CASE CommitSucceeds
  <2>1. conn' = "none" /\ loose' = loose /\ faulted' = faulted
    BY <1>16 DEF CommitSucceeds, Ends
  <2>2. ~remapped => state' = "idle" BY <1>8, <1>16 DEF CommitSucceeds
  <2> QED BY <1>7, <2>1, <2>2 DEF NothingLoose, AtRest
<1>17. CASE CommitFails
  <2>1. loose' = loose /\ faulted' = faulted /\ state' = state /\ stage = "commit"
    BY <1>17 DEF CommitFails, Ends, server, Answers
  <2>2. ~faulted /\ ~remapped => state = "committing"
    BY <2>1 DEF AgreementInv, Agreement
  <2>3. ~faulted /\ ~remapped => RollbackQueued'
    BY <1>4, <1>17, <2>2 DEF CommitFails, Allowed
  <2> QED BY <1>7, <2>1, <2>2, <2>3 DEF NothingLoose, AtRest
<1>18. CASE RollbackSucceeds
  <2>1. conn' = "none" /\ loose' = loose /\ faulted' = faulted
    BY <1>18 DEF RollbackSucceeds, Ends
  <2>2. ~remapped => state' = "idle" BY <1>8, <1>18 DEF RollbackSucceeds
  <2> QED BY <1>7, <2>1, <2>2 DEF NothingLoose, AtRest
<1>19. CASE RollbackFails BY <1>19 DEF RollbackFails, Fault, NothingLoose
<1> QED
  BY <1>11, <1>12, <1>13, <1>14, <1>15, <1>16, <1>17, <1>18, <1>19 DEF Answer

LEMMA OthersKeepAgreement == TypeInv /\ AgreementInv /\ Others => AgreementInv'
<1> SUFFICES ASSUME TypeInv, AgreementInv, Others PROVE AgreementInv'
  OBVIOUS
<1>1. ClientTypes BY TypeParts DEF TypeInv
<1>2. UNCHANGED <<state, stage, server>> /\ (queue # <<>> => queue' # <<>>)
  BY <1>1, OthersKeepFirst
<1>3. RollbackQueued => RollbackQueued'
  BY <1>1, OthersKeepFirst DEF RollbackQueued
<1>4. ReleasedFirst' /\ (~remapped' => ~remapped)
  BY <1>1 DEF Others, Call, FnSettles, UseAsyncEnds, Shutdown, Remap, Dispose,
              AgreementInv, ReleasedFirst, ClientTypes
<1>5. Agreement'
  BY <1>2, <1>3, <1>4 DEF AgreementInv, Agreement, AtRest, server
<1> QED
  BY <1>2, <1>4, <1>5
  DEF AgreementInv, QueryInside, NothingInFlight, NothingLoose, server

LEMMA AgreementInvariant == Spec => [](TypeInv /\ AgreementInv)
<1>1. Init => AgreementInv
  BY DEF Init, AgreementInv, Agreement, AtRest, QueryInside, ReleasedFirst,
         NothingInFlight, NothingLoose
<1>2. TypeInv /\ AgreementInv /\ [Next]_vars => AgreementInv'
  <2>1. TypeInv /\ AgreementInv /\ Next => AgreementInv'
    BY TaskKeepsAgreement, AnswerKeepsAgreement, OthersKeepAgreement DEF Next, Others
  <2>2. AgreementInv /\ UNCHANGED vars => AgreementInv'
    BY DEF vars, client, server, AgreementInv, Agreement, AtRest, RollbackQueued,
           QueryInside, ReleasedFirst, NothingInFlight, NothingLoose
  <2> QED BY <2>1, <2>2
<1> QED BY <1>1, <1>2, TypeInvariant, PTL DEF Spec

(* For any set of calls: nothing is written outside a transaction unless a   *)
(* BEGIN or a ROLLBACK statement has failed.                                 *)
THEOREM NothingLooseAlways == Spec => []NothingLoose
<1>1. AgreementInv => NothingLoose BY DEF AgreementInv
<1> QED BY <1>1, AgreementInvariant, PTL

(* For any set of calls: when nothing is in flight, the state of the client  *)
(* says whether the server has an open transaction.                          *)
THEOREM StateMatchesServerAlways == Spec => []StateMatchesServer
<1>1. TypeInv /\ AgreementInv => StateMatchesServer
  <2> SUFFICES ASSUME TypeInv, AgreementInv, queue = <<>>, ~released, ~faulted
               PROVE  state \in {"idle", "ready"} /\ (state = "idle" <=> conn = "none")
    BY DEF StateMatchesServer
  <2>1. AtRest BY DEF AgreementInv, Agreement, ReleasedFirst, NothingInFlight
  <2>2. ~RollbackQueued BY DEF RollbackQueued
  <2> QED BY <2>1, <2>2 DEF AtRest
<1> QED BY <1>1, AgreementInvariant, PTL

-------------------------------------------------------------------------------
(* Under proper use: who waits in the queue has not settled, once and for    *)
(* what it was called; the disposer waits for its commit, or its rollback.   *)
Waiting ==
    /\ \A i \in DOMAIN queue :
          \/ /\ queue[i][1] \in Calls
             /\ call[queue[i][1]] = "pending"
             /\ queue[i][2] \in {kind[queue[i][1]], "rollback"}
          \/ queue[i][1] = "use" /\ disposer["use"] = "committing"
    /\ \A i, j \in DOMAIN queue : queue[i][1] = queue[j][1] => i = j

(* The disposer comes when all calls have settled, and closes last.          *)
InTurn ==
    /\ fn = "running" => disposer["use"] = "none"
    /\ fn # "running" => \A c \in Calls : call[c] # "pending"
    /\ released <=> disposer["use"] \notin {"none", "committing"}
    /\ remapped => released
    /\ released => queue = <<>>

StatementOfTask == stage \in {"commit", "rollback"} => queue # <<>> /\ First[2] = stage

UseInv == StatementOfTask /\ (ProperUse => Waiting /\ InTurn)

(* The commit of dispose() is allowed, and so is its rollback: the state has *)
(* not changed since, as nobody else is left.                                *)
CloseInv ==
    ProperUse /\ ~faulted =>
        /\ stage = "none" => \A i \in DOMAIN queue : queue[i][1] = "use" =>
              state = (IF queue[i][2] = "commit" THEN "ready" ELSE "committing")
        /\ released => conn = "none"

NothingWritten == conn = "none" => written = {}

(* So far nothing has gone wrong that transaction() would have to report.    *)
Fine ==
    /\ ProperUse
    /\ \A c \in Calls : call[c] # "failed" /\ (call[c] # "new" => kind[c] # "rollback")
    /\ \A i \in DOMAIN queue : queue[i][2] # "rollback"
    /\ "use" \notin failure /\ disposer["use"] # "failed"

(* Then all that was reported done is in the transaction, or durable.        *)
KeptInv ==
    /\ ProperUse /\ disposer["use"] = "done" => "use" \notin failure
    /\ Fine =>
        /\ ~faulted /\ conn # "aborted"
        /\ \A c \in Calls :
              kind[c] = "query" /\ call[c] = "done" => c \in written \cup committed

(* What a call has written before it has succeeded is not durable, and gone  *)
(* when it fails.                                                            *)
Unsent(c) == \E i \in DOMAIN queue : queue[i] = <<c, "query">>

NotDurable(c) ==
    /\ call[c] \in {"new", "failed"} => c \notin written \cup committed
    /\ call[c] = "pending" => c \notin committed
    /\ Unsent(c) => c \notin written

NoCommits ==
    ProperUse /\ ~faulted /\ \A c \in Calls : call[c] # "new" => kind[c] # "commit"

UndoneInv == NoCommits => \A c \in Calls : NotDurable(c)

-------------------------------------------------------------------------------
(* Sequences of tasks, by position.                                          *)
LEMMA QueueFacts ==
    ASSUME ClientTypes, queue # <<>>
    PROVE  /\ Len(queue) \in Nat \ {0} /\ DOMAIN queue = 1 .. Len(queue)
           /\ queue[1] = First /\ queue[1][1] = Owner
           /\ DOMAIN Tail(queue) = 1 .. Len(queue) - 1
           /\ \A i \in DOMAIN Tail(queue) : i + 1 \in DOMAIN queue /\ Tail(queue)[i] = queue[i + 1]
BY DEF ClientTypes, First, Owner

LEMMA AppendFacts ==
    ASSUME ClientTypes, NEW t, queue' = Append(queue, t)
    PROVE  /\ DOMAIN queue' = 1 .. Len(queue) + 1 /\ DOMAIN queue = 1 .. Len(queue)
           /\ Len(queue) \in Nat
           /\ queue'[Len(queue) + 1] = t
           /\ \A i \in DOMAIN queue : queue'[i] = queue[i]
BY DEF ClientTypes

LEMMA RequeueFacts ==
    ASSUME ClientTypes, queue # <<>>, RollBackAfter
    PROVE  /\ DOMAIN queue' = DOMAIN queue
           /\ queue'[Len(queue)] = <<Owner, "rollback">>
           /\ \A i \in 1 .. Len(queue) - 1 : i + 1 \in DOMAIN queue /\ queue'[i] = queue[i + 1]
<1>1. queue \in Seq(Tasks) /\ Tail(queue) \in Seq(Tasks) BY FirstTask DEF ClientTypes
<1>2. queue' = Append(Tail(queue), <<Owner, "rollback">>) BY DEF RollBackAfter
<1>3. Len(Tail(queue)) = Len(queue) - 1 /\ Len(queue) \in Nat \ {0}
      /\ \A i \in 1 .. Len(queue) - 1 : Tail(queue)[i] = queue[i + 1]
  BY <1>1
<1> QED BY <1>1, <1>2, <1>3

(* A step that sends a statement, or takes one from the server, leaves only  *)
(* its own traces in the client.                                             *)
LEMMA TaskShape ==
    ASSUME Task \/ Answer
    PROVE  /\ queue # <<>>
           /\ \/ \E ok \in BOOLEAN : EndTask(ok)
              \/ RollBackAfter
              \/ Send("begin") \/ Send("query")
              \/ Send("commit") /\ First[2] = "commit"
              \/ Send("rollback") /\ First[2] = "rollback"
<1>1. CASE Task
  BY <1>1
  DEF Task, QueryRefused, QueryBegins, QuerySends, CommitRefused, CommitSends, RollbackRefused,
      RollbackSends, Starts
<1>2. CASE Answer
  BY <1>2
  DEF Answer, BeginSucceeds, BeginFails, QuerySucceeds, QueryFails, ModelFails, CommitSucceeds,
      CommitFails, RollbackSucceeds, RollbackFails, QueryError, Answers
<1> QED BY <1>1, <1>2

(* Once improper, a use remains improper; a fault is not forgotten.          *)
LEMMA ProperBefore ==
    ASSUME ClientTypes, [Next]_vars
    PROVE  (ProperUse' => ProperUse) /\ (faulted => faulted')
<1>1. CASE UNCHANGED vars BY <1>1 DEF vars, client, server, ProperUse
<1>2. CASE Task \/ Answer
  <2>1. ASSUME NEW ok, EndTask(ok) PROVE ProperUse' => ProperUse
    BY <2>1 DEF EndTask, Settle, CloseAfterCommit, ProperUse, ClientTypes, Disposers
  <2>2. ASSUME NEW s, Send(s) PROVE ProperUse' => ProperUse
    BY <2>2 DEF Send, ProperUse
  <2>3. RollBackAfter => (ProperUse' => ProperUse) BY DEF RollBackAfter, ProperUse
  <2>4. Task => faulted' = faulted
    BY DEF Task, QueryRefused, QueryBegins, QuerySends, CommitRefused, CommitSends,
           RollbackRefused, RollbackSends, server
  <2>5. Answer => (faulted => faulted')
    BY DEF Answer, BeginSucceeds, BeginFails, QuerySucceeds, QueryFails, ModelFails,
           CommitSucceeds, CommitFails, RollbackSucceeds, RollbackFails, Executes, Ends, Fault,
           server
  <2>6. ProperUse' => ProperUse BY <1>2, <2>1, <2>2, <2>3, TaskShape
  <2> QED BY <1>2, <2>4, <2>5, <2>6
<1>3. CASE Others
  BY <1>3 DEF Others, Call, FnSettles, UseAsyncEnds, Shutdown, Remap, Dispose, server, ProperUse,
              ClientTypes, Disposers
<1> QED BY <1>1, <1>2, <1>3 DEF Next, Others

(* What is known when a task runs: the client is still in use, and either it *)
(* is the task of a call, or the disposer is the last in the queue.          *)
Serving ==
    /\ queue # <<>> /\ ~released /\ ~remapped
    /\ \/ Owner \in Calls /\ (\A i \in DOMAIN queue : queue[i][1] \in Calls)
       \/ Owner = "use" /\ Owner \notin Calls /\ Len(queue) = 1
          /\ disposer["use"] = "committing"

LEMMA ServingQueue ==
    ASSUME TypeInv, UseInv, ProperUse, queue # <<>>
    PROVE  Serving
<1>1. ClientTypes BY TypeParts DEF TypeInv
<1>2. ~released /\ ~remapped BY DEF UseInv, InTurn
<1>3. Waiting /\ InTurn BY DEF UseInv
<1>4. CASE disposer["use"] = "committing"
  <2>1. \A c \in Calls : call[c] # "pending" BY <1>3, <1>4 DEF InTurn
  <2>2. \A i \in DOMAIN queue : queue[i][1] = "use" BY <1>3, <2>1 DEF Waiting
  <2>3. \A i, j \in DOMAIN queue : i = j BY <1>3, <2>2 DEF Waiting
  <2>4. Len(queue) = 1 BY <1>1, <2>3, QueueFacts
  <2> QED BY <1>1, <1>2, <1>4, <2>2, <2>4, QueueFacts, CallsAssumption DEF Serving, Disposers
<1>5. CASE disposer["use"] # "committing"
  <2>1. \A i \in DOMAIN queue : queue[i][1] \in Calls BY <1>3, <1>5 DEF Waiting
  <2> QED BY <1>1, <1>2, <2>1, QueueFacts DEF Serving
<1> QED BY <1>4, <1>5

(* The end of a task.                                                        *)
LEMMA EndOfTask ==
    ASSUME TypeInv, UseInv, ProperUse, queue # <<>>, NEW ok \in BOOLEAN, EndTask(ok)
    PROVE  /\ Waiting' /\ InTurn'
           /\ Owner \in Calls => /\ call' = [call EXCEPT ![Owner] = IF ok THEN "done" ELSE "failed"]
                                 /\ UNCHANGED <<disposer, failure, released>>
           /\ Owner \notin Calls => /\ queue' = <<>> /\ released' /\ UNCHANGED call
                                    /\ disposer' = [disposer EXCEPT !["use"] = "closing"]
                                    /\ failure' = IF ok THEN failure ELSE failure \cup {"use"}
<1>1. ClientTypes BY TypeParts DEF TypeInv
<1>2. Serving /\ Waiting /\ InTurn BY ServingQueue DEF UseInv
<1>3. queue' = Tail(queue) /\ stage' = "none" /\ UNCHANGED <<kind, fn, tidy, remapped>>
  BY DEF EndTask
<1>4. ASSUME Owner \in Calls
      PROVE  /\ call' = [call EXCEPT ![Owner] = IF ok THEN "done" ELSE "failed"]
             /\ UNCHANGED <<disposer, failure, released>>
  BY <1>4 DEF EndTask, Settle
<1>5. ASSUME Owner \notin Calls
      PROVE  /\ queue' = <<>> /\ released' /\ UNCHANGED call
             /\ disposer' = [disposer EXCEPT !["use"] = "closing"]
             /\ failure' = IF ok THEN failure ELSE failure \cup {"use"}
  <2>1. Owner = "use" /\ Len(queue) = 1 /\ ~remapped BY <1>2, <1>5 DEF Serving
  <2>2. queue' = <<>> BY <1>1, <1>3, <2>1 DEF ClientTypes
  <2> QED BY <1>5, <2>1, <2>2 DEF EndTask, Settle, CloseAfterCommit
<1>6. CASE Owner \in Calls
  <2>1. \A i \in DOMAIN queue' : i + 1 \in DOMAIN queue /\ queue'[i] = queue[i + 1]
    BY <1>1, <1>2, <1>3, QueueFacts DEF Serving
  <2>2. \A i \in DOMAIN queue' : queue'[i][1] \in Calls /\ queue'[i][1] # Owner
    <3> SUFFICES ASSUME NEW i \in DOMAIN queue'
                 PROVE  queue'[i][1] \in Calls /\ queue'[i][1] # Owner
      OBVIOUS
    <3>1. i + 1 \in DOMAIN queue /\ i + 1 # 1 /\ 1 \in DOMAIN queue /\ queue[1][1] = Owner
      BY <1>1, <1>2, <1>3, <2>1, QueueFacts DEF Serving
    <3> QED BY <1>2, <1>6, <2>1, <3>1 DEF Serving, Waiting
  <2>3. Waiting'
    <3>1. ASSUME NEW i \in DOMAIN queue'
          PROVE  /\ queue'[i][1] \in Calls
                 /\ call'[queue'[i][1]] = "pending"
                 /\ queue'[i][2] \in {kind'[queue'[i][1]], "rollback"}
      <4>1. queue[i + 1][1] \in Calls BY <2>1, <2>2, <3>1
      <4>2. call[queue[i + 1][1]] = "pending"
            /\ queue[i + 1][2] \in {kind[queue[i + 1][1]], "rollback"}
        BY <1>2, <2>1, <4>1, CallsAssumption DEF Waiting, Disposers
      <4> QED BY <1>1, <1>3, <1>4, <1>6, <2>1, <2>2, <3>1, <4>1, <4>2 DEF ClientTypes
    <3>2. ASSUME NEW i \in DOMAIN queue', NEW j \in DOMAIN queue', queue'[i][1] = queue'[j][1]
          PROVE  i = j
      <4>1. i + 1 = j + 1 BY <1>2, <2>1, <3>2 DEF Waiting
      <4>2. i \in Int /\ j \in Int BY <1>1, <1>2, <1>3, QueueFacts DEF Serving
      <4> QED BY <4>1, <4>2
    <3> QED BY <3>1, <3>2 DEF Waiting
  <2>4. InTurn'
    BY <1>1, <1>2, <1>3, <1>4, <1>6 DEF InTurn, Serving, ClientTypes
  <2> QED BY <1>4, <1>6, <2>3, <2>4
<1>7. CASE Owner \notin Calls
  <2>1. Waiting' BY <1>5, <1>7 DEF Waiting
  <2>2. InTurn'
    BY <1>1, <1>2, <1>3, <1>5, <1>7 DEF InTurn, Serving, ClientTypes, Disposers
  <2> QED BY <1>5, <1>7, <2>1, <2>2
<1> QED BY <1>6, <1>7

(* A rollback takes the place of its task at the end of the queue.           *)
LEMMA RollBackWaits ==
    ASSUME TypeInv, UseInv, ProperUse, queue # <<>>, RollBackAfter
    PROVE  Waiting' /\ InTurn'
<1>1. ClientTypes BY TypeParts DEF TypeInv
<1>2. Serving /\ Waiting /\ InTurn BY ServingQueue DEF UseInv
<1>3. UNCHANGED <<kind, call, fn, tidy, disposer, failure, released, remapped>>
  BY DEF RollBackAfter
<1> DEFINE from(i) == IF i = Len(queue) THEN 1 ELSE i + 1
<1>4. ASSUME NEW i \in DOMAIN queue'
      PROVE  /\ from(i) \in DOMAIN queue
             /\ queue'[i][1] = queue[from(i)][1]
             /\ queue'[i][2] \in {queue[from(i)][2], "rollback"}
  <2>1. CASE i = Len(queue)
    BY <1>1, <1>2, <1>4, <2>1, QueueFacts, RequeueFacts DEF Serving
  <2>2. CASE i # Len(queue)
    <3>1. i \in 1 .. Len(queue) - 1
      BY <1>1, <1>2, <1>4, <2>2, QueueFacts, RequeueFacts DEF Serving
    <3> QED BY <1>1, <1>2, <2>2, <3>1, RequeueFacts DEF Serving
  <2> QED BY <2>1, <2>2
<1>5. ASSUME NEW i \in DOMAIN queue', NEW j \in DOMAIN queue', from(i) = from(j)
      PROVE  i = j
  BY <1>1, <1>2, <1>5, QueueFacts, RequeueFacts DEF Serving
<1> HIDE DEF from
<1>6. Waiting' BY <1>2, <1>3, <1>4, <1>5 DEF Waiting
<1>7. queue' # <<>> BY <1>1, <1>2, QueueFacts, RequeueFacts DEF Serving
<1>8. InTurn' BY <1>2, <1>3, <1>7 DEF InTurn, Serving
<1> QED BY <1>6, <1>8

LEMMA UseStep == TypeInv /\ UseInv /\ Next => UseInv'
<1> SUFFICES ASSUME TypeInv, UseInv, Next PROVE UseInv'
  OBVIOUS
<1>1. ClientTypes BY TypeParts DEF TypeInv
<1>2. ProperUse' => ProperUse BY <1>1, ProperBefore
<1>3. ASSUME Task \/ Answer PROVE UseInv'
  <2>1. queue # <<>> BY <1>3, TaskShape
  <2>2. ASSUME NEW ok \in BOOLEAN, EndTask(ok) PROVE UseInv'
    <3>1. StatementOfTask' BY <2>2 DEF EndTask, StatementOfTask
    <3> QED BY <1>2, <2>1, <2>2, <3>1, EndOfTask DEF UseInv
  <2>3. CASE RollBackAfter
    <3>1. StatementOfTask' BY <2>3 DEF RollBackAfter, StatementOfTask
    <3> QED BY <1>2, <2>1, <2>3, <3>1, RollBackWaits DEF UseInv
  <2>4. ASSUME NEW s \in {"begin", "query", "commit", "rollback"}, Send(s),
               s \in {"commit", "rollback"} => First[2] = s
        PROVE  UseInv'
    <3>1. StatementOfTask' BY <2>1, <2>4 DEF Send, StatementOfTask, First
    <3>2. Waiting /\ InTurn => Waiting' /\ InTurn' BY <2>4 DEF Send, Waiting, InTurn
    <3> QED BY <1>2, <3>1, <3>2 DEF UseInv
  <2> QED BY <1>3, <2>2, <2>3, <2>4, TaskShape
<1>4. ASSUME Others PROVE UseInv'
  <2>1. StatementOfTask'
    BY <1>1, <1>4, OthersKeepFirst DEF UseInv, StatementOfTask
  <2> SUFFICES ASSUME ProperUse' PROVE Waiting' /\ InTurn'
    BY <2>1 DEF UseInv
  <2>2. ProperUse /\ tidy /\ Waiting /\ InTurn BY <1>2 DEF UseInv, ProperUse
  <2>3. ASSUME NEW c \in Calls, NEW k \in Kinds, Call(c, k) PROVE Waiting' /\ InTurn'
    <3>1. /\ call[c] = "new" /\ fn = "running" /\ ~remapped /\ ~released
          /\ disposer["use"] = "none"
      BY <2>2, <2>3 DEF Call, InTurn
    <3>2. /\ queue' = Append(queue, <<c, k>>)
          /\ call' = [call EXCEPT ![c] = "pending"]
          /\ kind' = [kind EXCEPT ![c] = k]
          /\ UNCHANGED <<fn, disposer, released, remapped>>
      BY <2>3, <3>1 DEF Call
    <3>3. \A i \in DOMAIN queue : queue[i][1] \in Calls \ {c} /\ call[queue[i][1]] = "pending"
      BY <2>2, <3>1 DEF Waiting
    <3>4. ASSUME NEW i \in DOMAIN queue'
          PROVE  /\ queue'[i][1] \in Calls
                 /\ call'[queue'[i][1]] = "pending"
                 /\ queue'[i][2] \in {kind'[queue'[i][1]], "rollback"}
      <4>1. CASE i \in DOMAIN queue
        <5>1. queue'[i] = queue[i] BY <1>1, <3>2, <4>1, AppendFacts
        <5>2. queue[i][2] \in {kind[queue[i][1]], "rollback"}
          BY <2>2, <3>1, <4>1 DEF Waiting
        <5> QED BY <1>1, <3>2, <3>3, <4>1, <5>1, <5>2 DEF ClientTypes
      <4>2. CASE i \notin DOMAIN queue
        <5>1. queue'[i] = <<c, k>> BY <1>1, <3>2, <3>4, <4>2, AppendFacts
        <5> QED BY <1>1, <3>2, <5>1 DEF ClientTypes
      <4> QED BY <4>1, <4>2
    <3>5. ASSUME NEW i \in DOMAIN queue', NEW j \in DOMAIN queue', queue'[i][1] = queue'[j][1]
          PROVE  i = j
      BY <1>1, <2>2, <3>2, <3>3, <3>5, AppendFacts DEF Waiting
    <3>6. Waiting' BY <3>4, <3>5 DEF Waiting
    <3> QED BY <2>2, <3>1, <3>2, <3>6 DEF InTurn
  <2>4. CASE FnSettles BY <2>2, <2>4 DEF FnSettles, Waiting, InTurn
  <2>5. CASE UseAsyncEnds
    <3>1. disposer["use"] = "none" /\ fn # "running" /\ ~remapped
      BY <2>2, <2>5 DEF UseAsyncEnds, InTurn
    <3>2. queue = <<>>
      <4> SUFFICES ASSUME queue # <<>> PROVE FALSE
        OBVIOUS
      <4>1. Serving BY <2>2, ServingQueue
      <4>2. 1 \in DOMAIN queue /\ queue[1][1] = Owner BY <1>1, QueueFacts
      <4> QED BY <2>2, <3>1, <4>1, <4>2 DEF Serving, Waiting, InTurn
    <3>3. Dispose("use") /\ UNCHANGED <<kind, call, fn, remapped>>
      BY <2>5, <3>1 DEF UseAsyncEnds
    <3>4. CASE state = "ready"
      <4>1. /\ queue' = Append(queue, <<"use", "commit">>)
            /\ disposer' = [disposer EXCEPT !["use"] = "committing"] /\ UNCHANGED released
        BY <3>3, <3>4 DEF Dispose
      <4>2. DOMAIN queue' = {1} /\ queue'[1] = <<"use", "commit">>
        BY <3>2, <4>1
      <4>3. Waiting' BY <1>1, <4>1, <4>2 DEF Waiting, ClientTypes, Disposers
      <4> QED BY <1>1, <2>2, <3>1, <3>3, <4>1, <4>3 DEF InTurn, ClientTypes, Disposers
    <3>5. CASE state # "ready"
      BY <1>1, <2>2, <3>1, <3>2, <3>3, <3>5 DEF Dispose, Waiting, InTurn, ClientTypes, Disposers
    <3> QED BY <3>4, <3>5
  <2>6. CASE Shutdown
    BY <1>1, <2>6 DEF Shutdown, Dispose, ProperUse, ClientTypes, Disposers
  <2>7. ASSUME NEW d \in Disposers, Remap(d) PROVE Waiting' /\ InTurn'
    <3>1. d = "use" BY <2>2, <2>7 DEF Remap, ProperUse, Disposers
    <3>2. released /\ queue = <<>> BY <2>2, <2>7, <3>1 DEF Remap, InTurn
    <3> QED BY <1>1, <2>2, <2>7, <3>1, <3>2 DEF Remap, Waiting, InTurn, ClientTypes, Disposers
  <2> QED BY <1>4, <2>3, <2>4, <2>5, <2>6, <2>7 DEF Others
<1> QED BY <1>3, <1>4 DEF Next, Others

LEMMA UseInvariant == Spec => [](TypeInv /\ AgreementInv /\ UseInv)
<1>1. Init => UseInv
  BY DEF Init, UseInv, StatementOfTask, Waiting, InTurn, ProperUse, Disposers
<1>2. TypeInv /\ UseInv /\ [Next]_vars => UseInv'
  <2>1. UseInv /\ UNCHANGED vars => UseInv'
    BY DEF vars, client, server, UseInv, StatementOfTask, Waiting, InTurn, ProperUse, First
  <2> QED BY <2>1, UseStep
<1> QED BY <1>1, <1>2, AgreementInvariant, PTL DEF Spec
-------------------------------------------------------------------------------
(* The release of the connection.  After the end of a task nobody waits for  *)
(* the disposer's commit but the disposer, which waits no longer.            *)
LEMMA EndOfTaskCloses ==
    ASSUME TypeInv, UseInv, ProperUse, queue # <<>>, NEW ok \in BOOLEAN, EndTask(ok),
           Owner \notin Calls => conn' = "none"
    PROVE  CloseInv'
<1>1. ClientTypes BY TypeParts DEF TypeInv
<1>2. Serving BY ServingQueue
<1>3. queue' = Tail(queue) BY DEF EndTask
<1>4. CASE Owner \in Calls
  <2>1. released' = released BY <1>4, EndOfTask
  <2>2. \A i \in DOMAIN queue' : queue'[i][1] \in Calls
    BY <1>1, <1>2, <1>3, <1>4, QueueFacts DEF Serving
  <2> QED BY <1>2, <2>1, <2>2, CallsAssumption DEF Serving, CloseInv, Disposers
<1>5. CASE Owner \notin Calls
  <2>1. queue' = <<>> BY <1>5, EndOfTask
  <2> QED BY <1>5, <2>1 DEF CloseInv
<1> QED BY <1>4, <1>5

(* What a disposer's task meets is what dispose() has seen.                  *)
LEMMA DisposerTask ==
    ASSUME TypeInv, AgreementInv, UseInv, CloseInv, ProperUse, ~faulted, queue # <<>>,
           Owner \notin Calls, stage = "none"
    PROVE  /\ First[2] = "commit" => "commit" \in Allowed(state)
           /\ First[2] # "commit" => "rollback" \in Allowed(state)
<1>1. ClientTypes BY TypeParts DEF TypeInv
<1>2. Serving BY ServingQueue
<1>3. queue[1][1] = "use" /\ queue[1] = First /\ 1 \in DOMAIN queue
  BY <1>1, <1>2, QueueFacts DEF Serving
<1>4. state = (IF First[2] = "commit" THEN "ready" ELSE "committing")
  BY <1>3 DEF CloseInv
<1> QED BY <1>4 DEF Allowed

LEMMA CloseTask == TypeInv /\ AgreementInv /\ UseInv /\ CloseInv /\ Task => CloseInv'
<1> SUFFICES ASSUME TypeInv, AgreementInv, UseInv, CloseInv, Task, ProperUse', ~faulted'
             PROVE  CloseInv'
  BY DEF CloseInv
<1>1. ClientTypes BY TypeParts DEF TypeInv
<1>2. queue # <<>> /\ ProperUse /\ ~faulted BY <1>1, TaskShape, ProperBefore DEF Next
<1>3. Serving BY <1>2, ServingQueue
<1>4. CASE QueryBegins \/ QuerySends \/ CommitSends \/ RollbackSends
  BY <1>3, <1>4 DEF QueryBegins, QuerySends, CommitSends, RollbackSends, Send, CloseInv, Serving
<1>5. CASE QueryRefused \/ CommitRefused \/ RollbackRefused
  <2>1. EndTask(FALSE) /\ stage = "none"
    BY <1>5 DEF QueryRefused, CommitRefused, RollbackRefused, Starts
  <2>2. Owner \in Calls
    <3> SUFFICES ASSUME Owner \notin Calls PROVE FALSE
      OBVIOUS
    <3>1. ~QueryRefused BY <1>1, <1>2, FirstTask DEF QueryRefused, Starts
    <3>2. ~CommitRefused
      BY <1>2, <1>3, <2>1, DisposerTask DEF CommitRefused, Starts, Serving
    <3>3. ~RollbackRefused
      BY <1>2, <1>3, <2>1, DisposerTask DEF RollbackRefused, Starts, Serving
    <3> QED BY <1>5, <3>1, <3>2, <3>3
  <2> QED BY <1>2, <2>1, <2>2, EndOfTaskCloses
<1> QED BY <1>4, <1>5 DEF Task

LEMMA CloseAnswer == TypeInv /\ AgreementInv /\ UseInv /\ CloseInv /\ Answer => CloseInv'
<1> SUFFICES ASSUME TypeInv, AgreementInv, UseInv, CloseInv, Answer, ProperUse', ~faulted'
             PROVE  CloseInv'
  BY DEF CloseInv
<1>1. ClientTypes BY TypeParts DEF TypeInv
<1>2. queue # <<>> /\ ProperUse /\ ~faulted BY <1>1, TaskShape, ProperBefore DEF Next
<1>3. Serving BY <1>2, ServingQueue
<1>4. CASE BeginSucceeds
  BY <1>3, <1>4 DEF BeginSucceeds, Send, CloseInv, Serving
<1>5. CASE BeginFails \/ RollbackFails
  BY <1>5 DEF BeginFails, RollbackFails, Fault
<1>6. ASSUME RollBackAfter, Owner \in Calls \/ state' = "committing" PROVE CloseInv'
  <2>1. ~released' /\ DOMAIN queue' = DOMAIN queue
    BY <1>1, <1>2, <1>3, <1>6, RequeueFacts DEF RollBackAfter, Serving
  <2>2. CASE Owner \in Calls
    <3>1. ASSUME NEW i \in DOMAIN queue' PROVE queue'[i][1] \in Calls
      <4>1. i \in 1 .. Len(queue) - 1 \/ i = Len(queue) BY <1>1, <1>2, <2>1, <3>1, QueueFacts
      <4> QED BY <1>1, <1>2, <1>3, <1>6, <2>2, <4>1, RequeueFacts DEF Serving
    <3> QED BY <2>1, <3>1, CallsAssumption DEF CloseInv, Disposers
  <2>3. CASE Owner \notin Calls
    <3>1. Len(queue) = 1 BY <1>3, <2>3 DEF Serving
    <3>2. \A i \in DOMAIN queue' : queue'[i] = <<Owner, "rollback">>
      BY <1>1, <1>2, <1>6, <2>1, <3>1, QueueFacts, RequeueFacts
    <3> QED BY <1>6, <2>1, <2>3, <3>2 DEF CloseInv
  <2> QED BY <2>2, <2>3
<1>7. CASE QuerySucceeds \/ QueryFails \/ ModelFails
  <2>1. Owner \in Calls
    BY <1>1, <1>2, <1>7, FirstTask DEF QuerySucceeds, QueryFails, ModelFails, Answers, TypeInv,
                                       QueryInFlight
  <2>2. EndTask(TRUE) \/ RollBackAfter
    BY <1>3, <1>7 DEF QuerySucceeds, QueryFails, ModelFails, QueryError, Serving
  <2> QED BY <1>2, <1>6, <2>1, <2>2, EndOfTaskCloses
<1>8. CASE CommitSucceeds \/ RollbackSucceeds
  <2>1. conn' = "none" BY <1>8 DEF CommitSucceeds, RollbackSucceeds, Ends
  <2>2. \E ok \in BOOLEAN : EndTask(ok) BY <1>8 DEF CommitSucceeds, RollbackSucceeds
  <2> QED BY <1>2, <2>1, <2>2, EndOfTaskCloses
<1>9. CASE CommitFails
  <2>1. state = "committing"
    BY <1>2, <1>3, <1>9 DEF CommitFails, Answers, AgreementInv, Agreement, Serving
  <2>2. RollBackAfter /\ state' = "committing"
    BY <1>3, <1>9, <2>1 DEF CommitFails, Allowed, Serving
  <2> QED BY <1>6, <2>2
<1> QED BY <1>4, <1>5, <1>7, <1>8, <1>9 DEF Answer

LEMMA CloseOthers == TypeInv /\ AgreementInv /\ UseInv /\ CloseInv /\ Others => CloseInv'
<1> SUFFICES ASSUME TypeInv, AgreementInv, UseInv, CloseInv, Others, ProperUse', ~faulted'
             PROVE  CloseInv'
  BY DEF CloseInv
<1>1. ClientTypes BY TypeParts DEF TypeInv
<1>2. ProperUse /\ tidy /\ ~faulted /\ InTurn
  BY <1>1, ProperBefore DEF Next, Others, UseInv, ProperUse
<1>3. UNCHANGED <<state, stage, conn>> BY <1>1, OthersKeepFirst DEF server
<1>4. ASSUME NEW c \in Calls, NEW k \in Kinds, Call(c, k) PROVE CloseInv'
  <2>1. queue' = Append(queue, <<c, k>>) /\ ~released'
    BY <1>2, <1>4 DEF Call, InTurn
  <2>2. \A i \in DOMAIN queue' :
           \/ i \in DOMAIN queue /\ queue'[i] = queue[i]
           \/ queue'[i] = <<c, k>>
    BY <1>1, <2>1, AppendFacts
  <2> QED BY <1>2, <1>3, <2>1, <2>2, CallsAssumption DEF CloseInv, Disposers
<1>5. CASE FnSettles \/ \E d \in Disposers : Remap(d)
  BY <1>2, <1>3, <1>5 DEF FnSettles, Remap, CloseInv
<1>6. CASE UseAsyncEnds
  <2>1. disposer["use"] = "none" /\ fn # "running" /\ ~remapped /\ ~released
    BY <1>2, <1>6 DEF UseAsyncEnds, InTurn
  <2>2. queue = <<>>
    <3> SUFFICES ASSUME queue # <<>> PROVE FALSE
      OBVIOUS
    <3>1. Serving BY <1>2, ServingQueue
    <3>2. 1 \in DOMAIN queue /\ queue[1][1] = Owner BY <1>1, QueueFacts
    <3> QED BY <1>2, <2>1, <3>1, <3>2 DEF Serving, UseInv, Waiting, InTurn
  <2>3. Dispose("use") BY <1>6, <2>1 DEF UseAsyncEnds
  <2>4. AtRest /\ ~RollbackQueued
    BY <1>2, <2>1, <2>2 DEF AgreementInv, Agreement, NothingInFlight, RollbackQueued
  <2>5. CASE state = "ready"
    <3>1. queue' = Append(queue, <<"use", "commit">>) /\ ~released'
      BY <2>1, <2>3, <2>5 DEF Dispose
    <3>2. DOMAIN queue' = {1} /\ queue'[1] = <<"use", "commit">> BY <2>2, <3>1
    <3> QED BY <1>3, <2>5, <3>1, <3>2 DEF CloseInv
  <2>6. CASE state # "ready"
    <3>1. conn = "none" /\ queue' = <<>> BY <2>2, <2>3, <2>4, <2>6 DEF AtRest, Dispose
    <3> QED BY <1>3, <3>1 DEF CloseInv
  <2> QED BY <2>5, <2>6
<1>7. CASE Shutdown
  BY <1>1, <1>7 DEF Shutdown, Dispose, ProperUse, ClientTypes, Disposers
<1> QED BY <1>4, <1>5, <1>6, <1>7 DEF Others

LEMMA CloseInvariant == Spec => [](TypeInv /\ AgreementInv /\ UseInv /\ CloseInv)
<1>1. Init => CloseInv BY DEF Init, CloseInv
<1>2. TypeInv /\ AgreementInv /\ UseInv /\ CloseInv /\ [Next]_vars => CloseInv'
  <2>1. CloseInv /\ UNCHANGED vars => CloseInv'
    BY DEF vars, client, server, CloseInv, ProperUse
  <2> QED BY <2>1, CloseTask, CloseAnswer, CloseOthers DEF Next, Others
<1> QED BY <1>1, <1>2, UseInvariant, PTL DEF Spec

(* For any set of calls: a connection goes back to the pool without an open  *)
(* transaction, unless calls are left behind or the application shuts down   *)
(* meanwhile, or a BEGIN or ROLLBACK statement has failed.                   *)
THEOREM CleanReleaseAlways == Spec => []CleanRelease
<1>1. CloseInv => CleanRelease BY DEF CloseInv, CleanRelease
<1> QED BY <1>1, CloseInvariant, PTL

-------------------------------------------------------------------------------
(* What a call has written.                                                  *)
LEMMA NothingWrittenInvariant == Spec => []NothingWritten
<1>1. Init => NothingWritten BY DEF Init, NothingWritten
<1>2. NothingWritten /\ [Next]_vars => NothingWritten'
  <2> USE DEF NothingWritten
  <2>1. CASE UNCHANGED vars BY <2>1 DEF vars, server
  <2>2. CASE Task
    BY <2>2 DEF Task, QueryRefused, QueryBegins, QuerySends, CommitRefused, CommitSends,
                RollbackRefused, RollbackSends, server
  <2>3. CASE BeginSucceeds \/ BeginFails \/ QueryFails \/ RollbackFails
    BY <2>3 DEF BeginSucceeds, BeginFails, QueryFails, RollbackFails, Fault
  <2>4. CASE QuerySucceeds \/ ModelFails
    BY <2>4 DEF QuerySucceeds, ModelFails, Executes
  <2>5. CASE CommitSucceeds \/ CommitFails \/ RollbackSucceeds
    BY <2>5 DEF CommitSucceeds, CommitFails, RollbackSucceeds, Ends, server
  <2>6. CASE Others
    BY <2>6 DEF Others, Call, FnSettles, UseAsyncEnds, Shutdown, Remap, server
  <2> QED BY <2>1, <2>2, <2>3, <2>4, <2>5, <2>6 DEF Next, Answer, Others
<1> QED BY <1>1, <1>2, PTL DEF Spec

(* The kind of a task under proper use.                                      *)
LEMMA TaskOfCall ==
    ASSUME TypeInv, UseInv, ProperUse, queue # <<>>
    PROVE  /\ Owner \in Calls => call[Owner] = "pending" /\ First[2] \in {kind[Owner], "rollback"}
           /\ First = <<Owner, First[2]>>
           /\ stage \in {"begin", "query"} => First[2] = "query" /\ Owner \in Calls
           /\ stage \in {"commit", "rollback"} => First[2] = stage
<1>1. ClientTypes BY TypeParts DEF TypeInv
<1>2. queue[1] = First /\ 1 \in DOMAIN queue /\ queue[1][1] = Owner BY <1>1, QueueFacts
<1>3. First = <<Owner, First[2]>> BY <1>1, FirstTask DEF Tasks, Owner
<1>4. Owner \in Calls => call[Owner] = "pending" /\ First[2] \in {kind[Owner], "rollback"}
  BY <1>2, CallsAssumption DEF UseInv, Waiting, Disposers
<1> QED BY <1>1, <1>3, <1>4, FirstTask DEF TypeInv, QueryInFlight, UseInv, StatementOfTask

(* What fails is not forgotten.                                              *)
LEMMA FailureNotFine ==
    ASSUME TypeInv, UseInv, ProperUse, queue # <<>>, EndTask(FALSE) \/ RollBackAfter
    PROVE  ~Fine'
<1>1. ClientTypes BY TypeParts DEF TypeInv
<1>2. CASE EndTask(FALSE)
  <2>1. CASE Owner \in Calls
    <3>1. call' = [call EXCEPT ![Owner] = "failed"] BY <1>2, <2>1, EndOfTask
    <3> QED BY <1>1, <2>1, <3>1 DEF Fine, ClientTypes
  <2>2. CASE Owner \notin Calls
    <3>1. failure' = failure \cup {"use"} BY <1>2, <2>2, EndOfTask
    <3> QED BY <3>1 DEF Fine
  <2> QED BY <2>1, <2>2
<1>3. CASE RollBackAfter
  <2>1. queue'[Len(queue)] = <<Owner, "rollback">> /\ Len(queue) \in DOMAIN queue'
    BY <1>1, <1>3, QueueFacts, RequeueFacts
  <2> QED BY <2>1 DEF Fine
<1> QED BY <1>2, <1>3

LEMMA FineBefore ==
    ASSUME TypeInv, AgreementInv, UseInv, Next, Fine'
    PROVE  Fine
<1>1. ClientTypes BY TypeParts DEF TypeInv
<1>2. ProperUse BY <1>1, ProperBefore DEF Fine
<1>3. CASE Task \/ Answer
  <2>1. queue # <<>> BY <1>3, TaskShape
  <2>2. ~EndTask(FALSE) /\ ~RollBackAfter BY <1>2, <2>1, FailureNotFine
  <2>3. CASE UNCHANGED <<queue, kind, call, tidy, disposer, failure>>
    BY <2>3 DEF Fine, ProperUse
  <2>4. CASE EndTask(TRUE)
    <3>1. /\ Owner \in Calls => /\ call' = [call EXCEPT ![Owner] = "done"]
                                /\ UNCHANGED <<disposer, failure>>
          /\ Owner \notin Calls => /\ queue' = <<>> /\ UNCHANGED <<call, failure>>
                                   /\ disposer' = [disposer EXCEPT !["use"] = "closing"]
      BY <1>2, <2>1, <2>4, EndOfTask
    <3>2. Serving BY <1>2, <2>1, ServingQueue
    <3>3. UNCHANGED <<kind, tidy>> /\ queue' = Tail(queue) BY <2>4 DEF EndTask
    <3>4. \A c \in Calls : call[c] # "failed" /\ (call[c] # "new" => kind[c] # "rollback")
      BY <1>1, <1>2, <2>1, <3>1, <3>3, TaskOfCall DEF Fine, ClientTypes
    <3>5. "use" \notin failure /\ disposer["use"] # "failed"
      BY <3>1, <3>2 DEF Fine, Serving
    <3>6. First[2] # "rollback"
      <4>1. RollbackSucceeds => Owner \in Calls /\ kind[Owner] = "rollback"
        BY <2>2, <3>2 DEF RollbackSucceeds, Serving
      <4>2. ~RollbackSucceeds BY <1>1, <1>2, <2>1, <3>4, <4>1, TaskOfCall
      <4>3. ~RollbackRefused /\ ~RollbackFails
        BY <2>2 DEF RollbackRefused, RollbackFails
      <4>4. stage # "none" \/ First[2] # "rollback"
        BY <1>3, <4>2, <4>3, <2>2, <2>4
        DEF Task, QueryRefused, QueryBegins, QuerySends, CommitRefused, CommitSends,
            RollbackSends, Starts, Send, EndTask, Answer, BeginSucceeds, BeginFails,
            QuerySucceeds, QueryFails, ModelFails, CommitSucceeds, CommitFails, Answers
      <4>5. stage # "rollback"
        BY <1>3, <4>2, <4>3, <2>4
        DEF Task, QueryRefused, QueryBegins, QuerySends, CommitRefused, CommitSends,
            RollbackSends, Starts, Answer, BeginSucceeds, BeginFails,
            QuerySucceeds, QueryFails, ModelFails, CommitSucceeds, CommitFails, Answers
      <4> QED BY <1>1, <1>2, <2>1, <4>4, <4>5, TaskOfCall DEF ClientTypes
    <3>7. \A i \in DOMAIN queue : queue[i][2] # "rollback"
      <4> SUFFICES ASSUME NEW i \in DOMAIN queue PROVE queue[i][2] # "rollback"
        OBVIOUS
      <4>1. CASE i = 1 BY <1>1, <2>1, <3>6, <4>1, QueueFacts
      <4>2. CASE i # 1
        <5>1. i - 1 \in DOMAIN Tail(queue) /\ i - 1 + 1 = i BY <1>1, <2>1, <4>2, QueueFacts
        <5>2. Tail(queue)[i - 1] = queue[i] BY <1>1, <2>1, <5>1, QueueFacts
        <5> QED BY <3>3, <5>1, <5>2 DEF Fine
      <4> QED BY <4>1, <4>2
    <3> QED BY <1>2, <3>4, <3>5, <3>7 DEF Fine
  <2> QED BY <1>3, <2>2, <2>3, <2>4, TaskShape DEF Send
<1>4. CASE Others
  <2>1. \A i \in DOMAIN queue : i \in DOMAIN queue' /\ queue'[i] = queue[i]
    BY <1>1, <1>4, OthersKeepFirst
  <2>2. /\ \A c \in Calls : call[c] # "failed" /\ (call[c] # "new" => kind[c] # "rollback")
        /\ "use" \notin failure
    BY <1>1, <1>4 DEF Others, Call, FnSettles, UseAsyncEnds, Shutdown, Remap, Fine, ClientTypes
  <2>3. disposer["use"] # "failed"
    BY <1>1, <1>4 DEF Others, Call, FnSettles, UseAsyncEnds, Shutdown, Remap, Dispose, Fine,
                      ClientTypes, Disposers
  <2> QED BY <1>2, <2>1, <2>2, <2>3 DEF Fine
<1> QED BY <1>3, <1>4 DEF Next, Others

LEMMA KeptStep == TypeInv /\ AgreementInv /\ UseInv /\ KeptInv /\ Next => KeptInv'
<1> SUFFICES ASSUME TypeInv, AgreementInv, UseInv, KeptInv, Next PROVE KeptInv'
  OBVIOUS
<1>1. ClientTypes BY TypeParts DEF TypeInv
<1>2. ProperUse' => ProperUse BY <1>1, ProperBefore
<1>3. ASSUME ProperUse', disposer'["use"] = "done" PROVE "use" \notin failure'
  <2>1. ProperUse /\ InTurn BY <1>2, <1>3 DEF UseInv
  <2>2. CASE Task \/ Answer
    <3>1. Serving /\ queue # <<>> BY <2>1, <2>2, TaskShape, ServingQueue
    <3>2. ASSUME NEW ok \in BOOLEAN, EndTask(ok) PROVE FALSE
      BY <1>1, <1>3, <2>1, <3>1, <3>2, EndOfTask DEF InTurn, Serving, ClientTypes, Disposers
    <3>3. UNCHANGED <<disposer, failure>>
      BY <2>2, <3>2, TaskShape DEF RollBackAfter, Send
    <3> QED BY <1>3, <2>1, <3>3 DEF KeptInv
  <2>3. CASE Others
    <3>1. failure' = failure BY <2>3 DEF Others, Call, FnSettles, UseAsyncEnds, Shutdown, Remap
    <3>2. CASE UNCHANGED disposer BY <1>3, <2>1, <3>1, <3>2 DEF KeptInv
    <3>3. CASE UseAsyncEnds
      BY <1>1, <1>3, <2>1, <3>3 DEF UseAsyncEnds, Dispose, InTurn, ClientTypes, Disposers
    <3>4. CASE Shutdown
      BY <1>1, <1>3, <3>4 DEF Shutdown, Dispose, ProperUse, ClientTypes, Disposers
    <3>5. ASSUME NEW d \in Disposers, Remap(d) PROVE "use" \notin failure'
      BY <1>1, <1>3, <2>1, <3>5 DEF Remap, ProperUse, ClientTypes, Disposers
    <3> QED BY <2>3, <3>2, <3>3, <3>4, <3>5 DEF Others, Call, FnSettles
  <2> QED BY <2>2, <2>3 DEF Next, Others
<1> SUFFICES ASSUME Fine'
             PROVE  /\ ~faulted' /\ conn' # "aborted"
                    /\ \A c \in Calls : kind'[c] = "query" /\ call'[c] = "done"
                                           => c \in written' \cup committed'
  BY <1>3 DEF KeptInv
<1>4. Fine /\ ProperUse BY FineBefore DEF Fine
<1>5. /\ ~faulted /\ conn # "aborted"
      /\ \A c \in Calls : kind[c] = "query" /\ call[c] = "done" => c \in written \cup committed
  BY <1>4 DEF KeptInv
<1>6. CASE Task \/ Answer
  <2>1. queue # <<>> BY <1>6, TaskShape
  <2>2. Serving BY <1>4, <2>1, ServingQueue
  <2>3. ~EndTask(FALSE) /\ ~RollBackAfter BY <1>4, <2>1, FailureNotFine
  <2>4. First[2] # "rollback"
    BY <1>1, <1>4, <2>1, QueueFacts DEF Fine
  <2>5. stage # "rollback" BY <1>4, <2>1, <2>4, TaskOfCall
  <2>6. CASE QueryBegins \/ QuerySends \/ CommitSends \/ RollbackSends
    BY <1>5, <2>6 DEF QueryBegins, QuerySends, CommitSends, RollbackSends, Send, server
  <2>7. CASE BeginSucceeds
    BY <1>5, <2>2, <2>7 DEF BeginSucceeds, Send, Serving
  <2>8. CASE QuerySucceeds
    <3>1. /\ conn' = conn /\ faulted' = faulted
          /\ Owner \in written' \cup committed'
          /\ written \subseteq written' /\ committed \subseteq committed'
      BY <2>8 DEF QuerySucceeds, Executes
    <3>2. Owner \in Calls BY <1>4, <2>1, <2>8, TaskOfCall DEF QuerySucceeds, Answers
    <3>3. call' = [call EXCEPT ![Owner] = "done"] /\ kind' = kind
      BY <1>4, <2>1, <2>8, <3>2, EndOfTask DEF QuerySucceeds, EndTask
    <3> QED BY <1>1, <1>5, <3>1, <3>3 DEF ClientTypes
  <2>9. CASE CommitSucceeds
    <3>1. EndTask(TRUE) /\ conn' = "none" /\ faulted' = faulted
          /\ committed' = committed \cup written
      BY <1>5, <2>2, <2>9 DEF CommitSucceeds, Ends, Serving
    <3>2. kind' = kind BY <3>1 DEF EndTask
    <3>3. Owner \in Calls => kind[Owner] = "commit"
      BY <1>4, <2>1, <2>4, <2>9, TaskOfCall DEF CommitSucceeds, Answers
    <3>4. \A c \in Calls : kind[c] = "query" => call'[c] = call[c]
      BY <1>1, <1>4, <2>1, <3>1, <3>3, EndOfTask DEF ClientTypes
    <3> QED BY <1>5, <3>1, <3>2, <3>4
  <2>10. ~QueryRefused /\ ~CommitRefused /\ ~RollbackRefused /\ ~BeginFails
    BY <2>3 DEF QueryRefused, CommitRefused, RollbackRefused, BeginFails
  <2>11. ~QueryFails /\ ~ModelFails /\ ~CommitFails /\ ~RollbackSucceeds /\ ~RollbackFails
    BY <2>3, <2>5 DEF QueryFails, ModelFails, QueryError, CommitFails, RollbackSucceeds,
                      RollbackFails, Answers
  <2> QED BY <1>6, <2>6, <2>7, <2>8, <2>9, <2>10, <2>11 DEF Task, Answer
<1>7. CASE Others
  <2>1. UNCHANGED server BY <1>1, <1>7, OthersKeepFirst
  <2>2. \A c \in Calls : call'[c] = "done" => call[c] = "done" /\ kind'[c] = kind[c]
    BY <1>1, <1>7 DEF Others, Call, FnSettles, UseAsyncEnds, Shutdown, Remap, ClientTypes
  <2> QED BY <1>5, <2>1, <2>2 DEF server
<1> QED BY <1>6, <1>7 DEF Next, Others

(* For any set of calls: when transaction() has succeeded and no call has    *)
(* failed, every query that was reported done is durable.                    *)
THEOREM NoLostWriteAlways == Spec => []NoLostWrite
<1> DEFINE Inv == TypeInv /\ AgreementInv /\ UseInv /\ CloseInv
<1>1. Init => KeptInv BY DEF Init, KeptInv, Fine
<1>2. Inv /\ KeptInv /\ [Next]_vars => KeptInv'
  <2>1. KeptInv /\ UNCHANGED vars => KeptInv'
    BY DEF vars, client, server, KeptInv, Fine, ProperUse
  <2> QED BY <2>1, KeptStep
<1>3. Inv /\ NothingWritten /\ KeptInv => NoLostWrite
  <2> SUFFICES ASSUME TypeInv, UseInv, CloseInv, NothingWritten, KeptInv, ProperUse,
                      disposer["use"] = "done",
                      \A c \in Calls : call[c] \in {"new", "done"} /\ kind[c] # "rollback"
               PROVE  {c \in Calls : kind[c] = "query" /\ call[c] = "done"} \subseteq committed
    BY DEF NoLostWrite
  <2>1. released /\ queue = <<>> BY DEF UseInv, InTurn
  <2>2. Fine BY <2>1 DEF Fine, KeptInv
  <2>3. written = {} BY <2>1, <2>2 DEF KeptInv, CloseInv, NothingWritten
  <2> QED BY <2>2, <2>3 DEF KeptInv
<1> QED BY <1>1, <1>2, <1>3, CloseInvariant, NothingWrittenInvariant, PTL DEF Spec

-------------------------------------------------------------------------------
(* What a task leaves behind in the queue was there before, but for its own  *)
(* rollback.                                                                 *)
LEMMA UnsentBefore ==
    ASSUME TypeInv, UseInv, ProperUse, queue # <<>>, NEW c \in Calls, Unsent(c)',
           RollBackAfter \/ \E ok \in BOOLEAN : EndTask(ok)
    PROVE  Unsent(c) /\ c # Owner
<1>1. ClientTypes BY TypeParts DEF TypeInv
<1>2. PICK i \in DOMAIN queue' : queue'[i] = <<c, "query">> BY DEF Unsent
<1>3. \E j \in DOMAIN queue : j # 1 /\ queue'[i] = queue[j]
  <2>1. CASE RollBackAfter
    <3>1. i # Len(queue) BY <1>1, <1>2, <2>1, RequeueFacts
    <3>2. i \in 1 .. Len(queue) - 1 BY <1>1, <1>2, <2>1, <3>1, QueueFacts, RequeueFacts
    <3>3. i + 1 \in DOMAIN queue /\ queue'[i] = queue[i + 1] /\ i + 1 # 1
      BY <1>1, <2>1, <3>2, RequeueFacts
    <3> QED BY <3>3
  <2>2. ASSUME NEW ok \in BOOLEAN, EndTask(ok)
        PROVE  \E j \in DOMAIN queue : j # 1 /\ queue'[i] = queue[j]
    <3>1. queue' = Tail(queue) BY <2>2 DEF EndTask
    <3>2. i + 1 \in DOMAIN queue /\ queue'[i] = queue[i + 1] /\ i + 1 # 1
      BY <1>1, <1>2, <3>1, QueueFacts
    <3> QED BY <3>2
  <2> QED BY <2>1, <2>2
<1>4. PICK j \in DOMAIN queue : j # 1 /\ queue[j] = <<c, "query">> BY <1>2, <1>3
<1>5. 1 \in DOMAIN queue /\ queue[1][1] = Owner BY <1>1, QueueFacts
<1>6. c # Owner BY <1>4, <1>5 DEF UseInv, Waiting
<1> QED BY <1>4, <1>6 DEF Unsent

LEMMA UndoneTask ==
    ASSUME TypeInv, AgreementInv, UseInv, NothingWritten, Task \/ Answer,
           ProperUse, ~faulted', NoCommits, UndoneInv, NEW c \in Calls
    PROVE  NotDurable(c)'
<1>1. ClientTypes BY TypeParts DEF TypeInv
<1>2. queue # <<>> BY TaskShape
<1>3. Serving BY <1>2, ServingQueue
<1>4. NotDurable(c) /\ ~faulted BY DEF UndoneInv, NoCommits
<1>5. CASE QueryBegins \/ QuerySends \/ CommitSends \/ RollbackSends
  BY <1>4, <1>5 DEF QueryBegins, QuerySends, CommitSends, RollbackSends, Send, server, NotDurable,
                    Unsent
<1>6. CASE BeginSucceeds
  BY <1>3, <1>4, <1>6 DEF BeginSucceeds, Send, NotDurable, Unsent, Serving
<1>7. ASSUME NEW ok \in BOOLEAN, EndTask(ok),
             \A d \in Calls : d # Owner => (d \in written' => d \in written)
                                           /\ (d \in committed' => d \in committed),
             Owner \in Calls /\ ~ok => Owner \notin written' \cup committed'
      PROVE  NotDurable(c)'
  <2>1. Unsent(c)' => Unsent(c) /\ c # Owner BY <1>2, <1>7, UnsentBefore
  <2>2. CASE c = Owner
    <3>1. call'[c] = IF ok THEN "done" ELSE "failed"
      BY <1>1, <1>2, <1>7, <2>2, EndOfTask DEF ClientTypes
    <3> QED BY <1>7, <2>1, <2>2, <3>1 DEF NotDurable
  <2>3. CASE c # Owner
    <3>1. call'[c] = call[c] BY <1>1, <1>2, <1>7, <2>3, EndOfTask DEF ClientTypes
    <3> QED BY <1>4, <1>7, <2>1, <2>3, <3>1 DEF NotDurable
  <2> QED BY <2>2, <2>3
<1>8. ASSUME RollBackAfter, committed' \subseteq committed,
             \A d \in Calls : d # Owner => (d \in written' => d \in written),
             written' \subseteq written \/ Owner \in Calls
      PROVE  NotDurable(c)'
  <2>1. Unsent(c)' => Unsent(c) /\ c # Owner BY <1>2, <1>8, UnsentBefore
  <2>2. call' = call BY <1>8 DEF RollBackAfter
  <2>3. c = Owner => call[c] = "pending" BY <1>2, TaskOfCall
  <2> QED BY <1>4, <1>8, <2>1, <2>2, <2>3 DEF NotDurable
<1>9. Owner \in Calls => Owner \notin committed /\ First[2] # "commit"
  BY <1>2, TaskOfCall DEF UndoneInv, NoCommits, NotDurable
<1>10. CASE QueryRefused
  <2>1. Unsent(Owner)
    BY <1>1, <1>2, <1>10, QueueFacts, TaskOfCall DEF QueryRefused, Starts, Unsent
  <2>2. Owner \in Calls => Owner \notin written BY <2>1 DEF UndoneInv, NotDurable
  <2> QED BY <1>7, <1>9, <1>10, <2>2 DEF QueryRefused, server
<1>11. CASE CommitRefused
  BY <1>7, <1>9, <1>11 DEF CommitRefused, Starts, server
<1>12. CASE RollbackRefused
  <2>1. state = "idle" \/ state = "ready" \/ state = "committing"
    BY <1>3, <1>4, <1>12 DEF RollbackRefused, Starts, Serving, AgreementInv, Agreement, AtRest
  <2>2. AtRest /\ "rollback" \notin Allowed(state)
    BY <1>3, <1>4, <1>12 DEF RollbackRefused, Starts, Serving, AgreementInv, Agreement
  <2>3. conn = "none" BY <2>1, <2>2 DEF AtRest, Allowed
  <2>4. written = {} BY <2>3 DEF NothingWritten
  <2> QED BY <1>7, <1>9, <1>12, <2>4 DEF RollbackRefused, server
<1>13. CASE BeginFails \/ RollbackFails
  BY <1>13 DEF BeginFails, RollbackFails, Fault
<1>14. CASE QuerySucceeds
  <2>1. conn = "active"
    BY <1>4, <1>14, TypeParts
    DEF QuerySucceeds, Answers, Executes, AgreementInv, QueryInside, TypeInv, ServerTypes
  <2>2. EndTask(TRUE) /\ written' = written \cup {Owner} /\ UNCHANGED committed
    BY <1>14, <2>1 DEF QuerySucceeds, Executes
  <2> QED BY <1>7, <2>2
<1>15. CASE QueryFails
  <2>1. RollBackAfter /\ UNCHANGED <<written, committed>>
    BY <1>3, <1>15 DEF QueryFails, QueryError, Serving
  <2> QED BY <1>8, <2>1
<1>16. CASE ModelFails
  <2>1. conn = "active"
    BY <1>4, <1>16, TypeParts
    DEF ModelFails, Answers, Executes, AgreementInv, QueryInside, TypeInv, ServerTypes
  <2>2. RollBackAfter /\ written' = written \cup {Owner} /\ UNCHANGED committed
    BY <1>3, <1>16, <2>1 DEF ModelFails, QueryError, Executes, Serving
  <2>3. Owner \in Calls BY <1>2, <1>16, TaskOfCall DEF ModelFails, Answers
  <2> QED BY <1>8, <2>2, <2>3
<1>17. CASE CommitSucceeds \/ CommitFails
  <2>1. First[2] = "commit"
    BY <1>2, <1>17, TaskOfCall DEF CommitSucceeds, CommitFails, Answers
  <2>2. Owner \notin Calls BY <1>9, <2>1
  <2>3. disposer["use"] = "committing" BY <1>3, <2>2 DEF Serving
  <2>4. call[c] # "pending" BY <2>3 DEF UseInv, InTurn
  <2>5. CASE CommitSucceeds
    <3>1. EndTask(TRUE) /\ written' = {} /\ committed' \subseteq committed \cup written
      BY <1>3, <2>5 DEF CommitSucceeds, Ends, Serving
    <3>2. queue' = <<>> /\ call' = call BY <1>2, <2>2, <3>1, EndOfTask
    <3>3. ~Unsent(c)' BY <3>2 DEF Unsent
    <3> QED BY <1>4, <2>4, <3>1, <3>2, <3>3 DEF NotDurable
  <2>6. CASE CommitFails
    <3>1. written' \subseteq written /\ committed' = committed
      BY <2>6 DEF CommitFails, Ends, server
    <3>2. RollBackAfter \/ EndTask(FALSE) BY <2>6 DEF CommitFails
    <3> QED BY <1>7, <1>8, <2>2, <3>1, <3>2
  <2> QED BY <1>17, <2>5, <2>6
<1>18. CASE RollbackSucceeds
  <2>1. written' = {} /\ committed' = committed BY <1>18 DEF RollbackSucceeds, Ends
  <2>2. EndTask(Owner \in Calls /\ kind[Owner] = "rollback")
    BY <1>3, <1>18 DEF RollbackSucceeds, Serving
  <2>3. (Owner \in Calls /\ kind[Owner] = "rollback") \in BOOLEAN OBVIOUS
  <2>4. \E ok \in BOOLEAN : EndTask(ok) BY <2>2, <2>3
  <2> QED BY <1>7, <1>9, <2>1, <2>4
<1> QED
  BY <1>5, <1>6, <1>10, <1>11, <1>12, <1>13, <1>14, <1>15, <1>16, <1>17, <1>18 DEF Task, Answer

LEMMA UndoneOthers ==
    ASSUME TypeInv, UseInv, Others, ProperUse, NoCommits, UndoneInv, NEW c \in Calls
    PROVE  NotDurable(c)'
<1>1. ClientTypes BY TypeParts DEF TypeInv
<1>2. NotDurable(c) BY DEF UndoneInv
<1>3. UNCHANGED <<written, committed>> BY <1>1, OthersKeepFirst DEF server
<1>4. ASSUME NEW b \in Calls, NEW k \in Kinds, Call(b, k) PROVE NotDurable(c)'
  <2>1. call[b] = "new" /\ queue' = Append(queue, <<b, k>>)
        /\ call' = [call EXCEPT ![b] = "pending"]
    BY <1>4 DEF Call, ProperUse, UseInv, InTurn
  <2>2. Unsent(c)' => Unsent(c) \/ c = b
    <3> SUFFICES ASSUME NEW i \in DOMAIN queue', queue'[i] = <<c, "query">>
                 PROVE  Unsent(c) \/ c = b
      BY DEF Unsent
    <3>1. CASE i \in DOMAIN queue
      <4>1. queue[i] = <<c, "query">> BY <1>1, <2>1, <3>1, AppendFacts
      <4> QED BY <3>1, <4>1 DEF Unsent
    <3>2. CASE i \notin DOMAIN queue
      <4>1. queue'[i] = <<b, k>> BY <1>1, <2>1, <3>2, AppendFacts
      <4> QED BY <4>1
    <3> QED BY <3>1, <3>2
  <2> QED BY <1>1, <1>2, <1>3, <2>1, <2>2 DEF NotDurable, ClientTypes
<1>5. ASSUME ~\E b \in Calls, k \in Kinds : Call(b, k) PROVE NotDurable(c)'
  <2>1. call' = call BY <1>5 DEF Others, FnSettles, UseAsyncEnds, Shutdown, Remap
  <2>2. queue' = queue \/ (\E d \in Disposers : queue' = Append(queue, <<d, "commit">>))
    BY <1>5 DEF Others, FnSettles, UseAsyncEnds, Shutdown, Remap, Dispose, Disposers
  <2>3. Unsent(c)' => Unsent(c)
    <3>1. CASE queue' = queue BY <3>1 DEF Unsent
    <3>2. ASSUME NEW d \in Disposers, queue' = Append(queue, <<d, "commit">>),
                 NEW i \in DOMAIN queue', queue'[i] = <<c, "query">>
          PROVE  Unsent(c)
      <4>1. i \in DOMAIN queue BY <1>1, <3>2, AppendFacts
      <4>2. queue[i] = <<c, "query">> BY <1>1, <3>2, <4>1, AppendFacts
      <4> QED BY <4>1, <4>2 DEF Unsent
    <3> QED BY <2>2, <3>1, <3>2 DEF Unsent
  <2> QED BY <1>2, <1>3, <2>1, <2>3 DEF NotDurable
<1> QED BY <1>4, <1>5

LEMMA UndoneStep ==
    TypeInv /\ AgreementInv /\ UseInv /\ NothingWritten /\ UndoneInv /\ Next => UndoneInv'
<1> SUFFICES ASSUME TypeInv, AgreementInv, UseInv, NothingWritten, UndoneInv, Next, NoCommits',
                    NEW c \in Calls
             PROVE  NotDurable(c)'
  BY DEF UndoneInv
<1>1. ClientTypes BY TypeParts DEF TypeInv
<1>2. ProperUse /\ ~faulted /\ ~faulted' BY <1>1, ProperBefore DEF NoCommits
<1>3. ASSUME NEW b \in Calls, call[b] # "new" PROVE kind[b] # "commit"
  <2>1. call'[b] # "new" /\ kind'[b] = kind[b]
    <3>1. CASE Task \/ Answer
      <4>1. queue # <<>> BY <3>1, TaskShape
      <4>2. kind' = kind BY <3>1, TaskShape DEF EndTask, RollBackAfter, Send
      <4>3. call'[b] # "new"
        <5>1. ASSUME NEW ok \in BOOLEAN, EndTask(ok) PROVE call'[b] # "new"
          BY <1>1, <1>2, <1>3, <4>1, <5>1, EndOfTask DEF ClientTypes
        <5>2. CASE UNCHANGED call BY <1>3, <5>2
        <5> QED BY <3>1, <5>1, <5>2, TaskShape DEF RollBackAfter, Send
      <4> QED BY <4>2, <4>3
    <3>2. CASE Others
      BY <1>1, <1>3, <3>2 DEF Others, Call, FnSettles, UseAsyncEnds, Shutdown, Remap, ClientTypes
    <3> QED BY <3>1, <3>2 DEF Next, Others
  <2> QED BY <2>1 DEF NoCommits
<1>4. NoCommits BY <1>2, <1>3 DEF NoCommits
<1> QED BY <1>2, <1>4, UndoneTask, UndoneOthers DEF Next, Others

(* For any set of calls: what a failed query wrote never becomes durable,    *)
(* unless transactionFn commits itself.                                      *)
THEOREM FailedQueryNotDurableAlways == Spec => []FailedQueryNotDurable
<1>1. Init => UndoneInv BY DEF Init, UndoneInv, NotDurable, Unsent
<1>2. TypeInv /\ AgreementInv /\ UseInv /\ NothingWritten /\ UndoneInv /\ [Next]_vars
      => UndoneInv'
  <2>1. UndoneInv /\ UNCHANGED vars => UndoneInv'
    BY DEF vars, client, server, UndoneInv, NoCommits, NotDurable, Unsent, ProperUse
  <2> QED BY <2>1, UndoneStep
<1>3. UndoneInv => FailedQueryNotDurable
  BY DEF UndoneInv, NoCommits, NotDurable, FailedQueryNotDurable
<1> QED BY <1>1, <1>2, <1>3, UseInvariant, NothingWrittenInvariant, PTL DEF Spec

(* For any set of calls: under proper use nothing is sent on a connection    *)
(* that has been released.                                                   *)
THEOREM NothingSentAlways == Spec => NothingSentAfterRelease
<1>1. TypeInv /\ UseInv /\ [Next]_vars =>
        [released /\ ProperUse /\ stage = "none" => stage' = "none"]_vars
  <2> SUFFICES ASSUME TypeInv, UseInv, Next, released, ProperUse, stage = "none"
               PROVE  stage' = "none"
    OBVIOUS
  <2>1. queue = <<>> BY DEF UseInv, InTurn
  <2>2. CASE Task \/ Answer BY <2>1, <2>2, TaskShape
  <2>3. CASE Others BY <2>3, OthersKeepFirst, TypeParts DEF TypeInv
  <2> QED BY <2>2, <2>3 DEF Next, Others
<1> QED BY <1>1, UseInvariant, PTL DEF Spec, NothingSentAfterRelease
-------------------------------------------------------------------------------
(* Whoever disposes the client, and whenever: a call waits with one task, and*)
(* has written nothing before its query has been sent; the rollback of a     *)
(* query waits behind the commits of calls that were ahead of it, and behind *)
(* no other.                                                                 *)
CallsWait ==
    /\ \A i \in DOMAIN queue : queue[i][1] \in Calls =>
          call[queue[i][1]] = "pending" /\ queue[i][2] \in {kind[queue[i][1]], "rollback"}
    /\ \A i, j \in DOMAIN queue :
          queue[i][1] \in Calls /\ queue[i][1] = queue[j][1] => i = j

UnsentInv == \A c \in Calls : call[c] = "new" \/ Unsent(c) => c \notin written \cup committed

CallInv == CallsWait /\ UnsentInv

TaskWaits == \A c \in Calls : call[c] = "pending" => \E i \in DOMAIN queue : queue[i][1] = c

OnlyAhead ==
    \A c, d \in Calls, i, j \in DOMAIN queue :
       i < j /\ queue[i] = <<d, "commit">> /\ queue[j] = <<c, "rollback">> /\ kind[c] = "query"
       => d \in ahead[c]


(* A query that has been sent and waits for its rollback is durable only by  *)
(* a commit that was ahead.                                                  *)
DurableAhead ==
    ~released /\ ~faulted =>
        \A c \in Calls :
           kind[c] = "query" /\ call[c] = "pending" /\ ~Unsent(c) /\ c \in committed
           => \E d \in ahead[c] : call[d] = "done"

AheadInv == TaskWaits /\ OnlyAhead /\ DurableAhead

(* The task at each place of the queue after a step has been there before.   *)
LEMMA QueueAfter ==
    ASSUME ClientTypes, queue # <<>>,
           RollBackAfter \/ \E ok \in BOOLEAN : EndTask(ok), NEW i \in DOMAIN queue'
    PROVE  \/ i \in 1 .. Len(queue) - 1 /\ i + 1 \in DOMAIN queue /\ queue'[i] = queue[i + 1]
           \/ RollBackAfter /\ i = Len(queue) /\ queue'[i] = <<Owner, "rollback">>
<1>1. CASE RollBackAfter
  <2>1. i \in 1 .. Len(queue) - 1 \/ i = Len(queue) BY <1>1, QueueFacts, RequeueFacts
  <2> QED BY <1>1, <2>1, RequeueFacts
<1>2. ASSUME NEW ok \in BOOLEAN, EndTask(ok)
      PROVE  i \in 1 .. Len(queue) - 1 /\ i + 1 \in DOMAIN queue /\ queue'[i] = queue[i + 1]
  <2>1. queue' = Tail(queue) BY <1>2 DEF EndTask
  <2> QED BY <2>1, QueueFacts
<1> QED BY <1>1, <1>2

(* Only the owner of the first task settles with it.                         *)
LEMMA SettleFacts ==
    ASSUME ClientTypes, queue # <<>>,
           RollBackAfter \/ \E ok \in BOOLEAN : EndTask(ok)
    PROVE  kind' = kind /\ \A c \in Calls : c # Owner \/ RollBackAfter => call'[c] = call[c]
BY DEF RollBackAfter, EndTask, Settle, CloseAfterCommit, ClientTypes

LEMMA TaskKeepsCalls ==
    ASSUME ClientTypes, CallsWait, queue # <<>>,
           RollBackAfter \/ \E ok \in BOOLEAN : EndTask(ok)
    PROVE  /\ CallsWait'
           /\ \A c \in Calls : Unsent(c)' => Unsent(c) /\ c # Owner
<1>1. /\ 1 \in DOMAIN queue /\ queue[1][1] = Owner /\ queue[1] = First
      /\ DOMAIN queue = 1 .. Len(queue) /\ Len(queue) \in Nat
  BY QueueFacts
<1>2. ASSUME NEW i \in DOMAIN queue', queue'[i][1] \in Calls
      PROVE  /\ call'[queue'[i][1]] = "pending"
             /\ queue'[i][2] \in {kind'[queue'[i][1]], "rollback"}
  <2>1. CASE i \in 1 .. Len(queue) - 1 /\ i + 1 \in DOMAIN queue /\ queue'[i] = queue[i + 1]
    <3>1. queue[i + 1][1] # Owner BY <1>1, <1>2, <2>1 DEF CallsWait
    <3> QED BY <1>2, <2>1, <3>1, SettleFacts DEF CallsWait
  <2>2. CASE RollBackAfter /\ i = Len(queue) /\ queue'[i] = <<Owner, "rollback">>
    BY <1>1, <1>2, <2>2, SettleFacts DEF CallsWait
  <2> QED BY <2>1, <2>2, QueueAfter
<1>3. ASSUME NEW i \in DOMAIN queue', NEW j \in DOMAIN queue', queue'[i][1] \in Calls,
             queue'[i][1] = queue'[j][1]
      PROVE  i = j
  <2> DEFINE Moved(n) == n \in 1 .. Len(queue) - 1 /\ n + 1 \in DOMAIN queue
                         /\ queue'[n] = queue[n + 1]
             Added(n) == n = Len(queue) /\ queue'[n] = <<Owner, "rollback">>
  <2>1. (Moved(i) \/ Added(i)) /\ (Moved(j) \/ Added(j)) BY QueueAfter
  <2>2. CASE Moved(i) /\ Moved(j)
    <3>1. i + 1 = j + 1 BY <1>3, <2>2 DEF CallsWait
    <3> QED BY <2>2, <3>1
  <2>3. CASE Moved(i) /\ Added(j) BY <1>1, <1>3, <2>3 DEF CallsWait
  <2>4. CASE Added(i) /\ Moved(j) BY <1>1, <1>3, <2>4 DEF CallsWait
  <2>5. CASE Added(i) /\ Added(j) BY <2>5
  <2> QED BY <2>1, <2>2, <2>3, <2>4, <2>5
<1>4. ASSUME NEW c \in Calls, NEW i \in DOMAIN queue', queue'[i] = <<c, "query">>
      PROVE  Unsent(c) /\ c # Owner
  <2>1. i \in 1 .. Len(queue) - 1 /\ i + 1 \in DOMAIN queue /\ queue'[i] = queue[i + 1]
    BY <1>4, QueueAfter
  <2>2. queue[i + 1][1] = c BY <1>4, <2>1
  <2> QED BY <1>1, <1>4, <2>1, <2>2 DEF CallsWait, Unsent
<1> QED BY <1>2, <1>3, <1>4 DEF CallsWait, Unsent

LEMMA CallStep == TypeInv /\ CallInv /\ Next => CallInv'
<1> SUFFICES ASSUME TypeInv, CallInv, Next PROVE CallInv'
  OBVIOUS
<1>1. ClientTypes BY TypeParts DEF TypeInv
<1>2. CallsWait /\ UnsentInv BY DEF CallInv
<1>3. CASE Task \/ Answer
  <2>1. queue # <<>> BY <1>3, TaskShape
  <2>2. \A c \in Calls : c \in written' \cup committed'
                           => c \in written \cup committed \/ (c = Owner /\ stage = "query")
    <3>1. Task => UNCHANGED <<written, committed>>
      BY DEF Task, QueryRefused, QueryBegins, QuerySends, CommitRefused, CommitSends,
             RollbackRefused, RollbackSends, server
    <3>2. QuerySucceeds \/ ModelFails =>
            /\ stage = "query"
            /\ written' = written \cup {Owner} \/ written' = written
            /\ committed' = committed \cup {Owner} \/ committed' = committed
      BY DEF QuerySucceeds, ModelFails, Executes, Answers
    <3>3. BeginSucceeds \/ BeginFails \/ QueryFails \/ RollbackFails
            => UNCHANGED <<written, committed>>
      BY DEF BeginSucceeds, BeginFails, QueryFails, RollbackFails, Fault
    <3>4. CommitSucceeds \/ CommitFails \/ RollbackSucceeds
            => /\ written' = {} \/ written' = written
               /\ committed' = committed \/ committed' = committed \cup written
      BY DEF CommitSucceeds, CommitFails, RollbackSucceeds, Ends, server
    <3>5. \/ /\ written' = written \/ written' = {}
             /\ committed' = committed \/ committed' = committed \cup written
          \/ /\ stage = "query"
             /\ written' = written \cup {Owner} \/ written' = written
             /\ committed' = committed \cup {Owner} \/ committed' = committed
      BY <1>3, <3>1, <3>2, <3>3, <3>4 DEF Answer
    <3> QED BY <3>5
  <2>3. CASE RollBackAfter \/ \E ok \in BOOLEAN : EndTask(ok)
    <3>1. CallsWait' /\ \A c \in Calls : Unsent(c)' => Unsent(c) /\ c # Owner
      BY <1>1, <1>2, <2>1, <2>3, TaskKeepsCalls
    <3>2. Owner \in Calls => call[Owner] = "pending"
      BY <1>1, <1>2, <2>1, QueueFacts DEF CallsWait
    <3>3. \A c \in Calls : call'[c] = "new" => call[c] = "new" /\ c # Owner
      <4>1. \A c \in Calls : c # Owner => call'[c] = call[c] BY <1>1, <2>1, <2>3, SettleFacts
      <4>2. Owner \in Calls => call'[Owner] # "new"
        BY <1>1, <2>3, <3>2 DEF RollBackAfter, EndTask, Settle, ClientTypes
      <4> QED BY <4>1, <4>2
    <3> QED BY <1>2, <2>2, <3>1, <3>3 DEF CallInv, UnsentInv
  <2>4. CASE stage' # "none"
    <3>1. UNCHANGED <<queue, kind, call>> /\ UNCHANGED <<written, committed>>
      BY <1>3, <2>4 DEF Task, QueryRefused, QueryBegins, QuerySends, CommitRefused, CommitSends,
                RollbackRefused, RollbackSends, Answer, BeginSucceeds, BeginFails, QuerySucceeds,
                QueryFails, ModelFails, CommitSucceeds, CommitFails, RollbackSucceeds,
                RollbackFails, QueryError, EndTask, RollBackAfter, Send, server
    <3> QED BY <1>2, <3>1 DEF CallInv, CallsWait, UnsentInv, Unsent
  <2> QED BY <1>3, <2>3, <2>4, TaskShape DEF Send
<1>4. ASSUME NEW b \in Calls, NEW k \in Kinds, Call(b, k) PROVE CallInv'
  <2>1. call[b] = "new" /\ kind' = [kind EXCEPT ![b] = k]
        /\ UNCHANGED <<written, committed>>
    BY <1>4 DEF Call, server
  <2>2. \A i \in DOMAIN queue : queue[i][1] # b BY <1>2, <1>4, <2>1 DEF CallsWait
  <2>3. CASE remapped
    <3>1. call' = [call EXCEPT ![b] = "failed"] /\ queue' = queue BY <1>4, <2>3 DEF Call
    <3> QED BY <1>1, <1>2, <2>1, <2>2, <3>1 DEF CallInv, CallsWait, UnsentInv, Unsent, ClientTypes
  <2>4. CASE ~remapped
    <3>1. call' = [call EXCEPT ![b] = "pending"] /\ queue' = Append(queue, <<b, k>>)
      BY <1>4, <2>4 DEF Call
    <3>2. ASSUME NEW i \in DOMAIN queue'
          PROVE  \/ i \in DOMAIN queue /\ queue'[i] = queue[i] /\ queue[i][1] # b
                 \/ i = Len(queue) + 1 /\ queue'[i] = <<b, k>>
      BY <1>1, <2>2, <3>1, <3>2, AppendFacts
    <3>3. CallsWait'
      <4>1. ASSUME NEW i \in DOMAIN queue', queue'[i][1] \in Calls
            PROVE  /\ call'[queue'[i][1]] = "pending"
                   /\ queue'[i][2] \in {kind'[queue'[i][1]], "rollback"}
        BY <1>1, <1>2, <2>1, <3>1, <3>2, <4>1 DEF CallsWait, ClientTypes
      <4>2. ASSUME NEW i \in DOMAIN queue', NEW j \in DOMAIN queue', queue'[i][1] \in Calls,
                   queue'[i][1] = queue'[j][1]
            PROVE  i = j
        BY <1>2, <3>2, <4>2 DEF CallsWait
      <4> QED BY <4>1, <4>2 DEF CallsWait
    <3>4. ASSUME NEW c \in Calls, Unsent(c)' PROVE Unsent(c) \/ c = b
      BY <3>2, <3>4 DEF Unsent
    <3> QED BY <1>1, <1>2, <2>1, <3>1, <3>3, <3>4 DEF CallInv, UnsentInv, ClientTypes
  <2> QED BY <2>3, <2>4
<1>5. ASSUME Others, ~\E b \in Calls, k \in Kinds : Call(b, k) PROVE CallInv'
  <2>1. UNCHANGED <<call, kind, written, committed>>
    BY <1>5 DEF Others, FnSettles, UseAsyncEnds, Shutdown, Remap, server
  <2>2. queue' = queue \/ (\E d \in Disposers : queue' = Append(queue, <<d, "commit">>))
    BY <1>5 DEF Others, FnSettles, UseAsyncEnds, Shutdown, Remap, Dispose, Disposers
  <2>3. CASE queue' = queue
    BY <1>2, <2>1, <2>3 DEF CallInv, CallsWait, UnsentInv, Unsent
  <2>4. ASSUME NEW d \in Disposers, queue' = Append(queue, <<d, "commit">>) PROVE CallInv'
    <3>1. ASSUME NEW i \in DOMAIN queue'
          PROVE  \/ i \in DOMAIN queue /\ queue'[i] = queue[i]
                 \/ queue'[i] = <<d, "commit">> /\ queue'[i][1] \notin Calls
      BY <1>1, <2>4, <3>1, AppendFacts, CallsAssumption
    <3>2. CallsWait' BY <1>2, <2>1, <3>1 DEF CallsWait
    <3>3. ASSUME NEW c \in Calls, Unsent(c)' PROVE Unsent(c)
      BY <3>1, <3>3 DEF Unsent
    <3> QED BY <1>2, <2>1, <3>2, <3>3 DEF CallInv, UnsentInv
  <2> QED BY <2>2, <2>3, <2>4
<1> QED BY <1>3, <1>4, <1>5 DEF Next, Others

LEMMA CallInvariant == Spec => []CallInv
<1>1. Init => CallInv BY DEF Init, CallInv, CallsWait, UnsentInv, Unsent
<1>2. TypeInv /\ CallInv /\ [Next]_vars => CallInv'
  <2>1. CallInv /\ UNCHANGED vars => CallInv'
    BY DEF vars, client, server, CallInv, CallsWait, UnsentInv, Unsent
  <2> QED BY <2>1, CallStep
<1> QED BY <1>1, <1>2, TypeInvariant, PTL DEF Spec

(* The end of a task takes its owner's call out of the queue with it.        *)
LEMMA EndKeepsAhead ==
    ASSUME TypeInv, AgreementInv, UseInv, CallInv, AheadInv, Task \/ Answer,
           NEW ok \in BOOLEAN, EndTask(ok)
    PROVE  AheadInv'
<1>1. ClientTypes BY TypeParts DEF TypeInv
<1>2. queue # <<>> BY TaskShape
<1>3. /\ 1 \in DOMAIN queue /\ queue[1][1] = Owner /\ queue[1] = First
      /\ DOMAIN queue = 1 .. Len(queue) /\ Len(queue) \in Nat
  BY <1>1, <1>2, QueueFacts
<1>4. queue' = Tail(queue) /\ UNCHANGED <<kind, remapped, ahead>> BY DEF EndTask
<1>5. \A i \in DOMAIN queue' : i \in Nat /\ i + 1 \in DOMAIN queue /\ queue'[i] = queue[i + 1]
  BY <1>1, <1>2, <1>4, QueueFacts
<1>6. \A i \in DOMAIN queue : i # 1 => i - 1 \in DOMAIN queue' /\ queue'[i - 1] = queue[i]
  BY <1>1, <1>2, <1>3, <1>4, QueueFacts
<1>7. \A c \in Calls : c # Owner => call'[c] = call[c]
  BY <1>1, <1>2, SettleFacts
<1>8. Owner \in Calls => call[Owner] = "pending" /\ call'[Owner] = IF ok THEN "done" ELSE "failed"
  BY <1>1, <1>3 DEF CallInv, CallsWait, EndTask, Settle, ClientTypes
<1>9. \A c \in Calls : call'[c] = "pending" => c # Owner /\ call[c] = "pending"
  BY <1>7, <1>8
<1>10. TaskWaits'
  <2> SUFFICES ASSUME NEW c \in Calls, call'[c] = "pending"
               PROVE  \E i \in DOMAIN queue' : queue'[i][1] = c
    BY DEF TaskWaits
  <2>1. PICK i \in DOMAIN queue : queue[i][1] = c BY <1>9 DEF AheadInv, TaskWaits
  <2>2. i # 1 BY <1>3, <1>9, <2>1
  <2> QED BY <1>6, <2>1, <2>2
<1>11. OnlyAhead'
  <2> SUFFICES ASSUME NEW c \in Calls, NEW d \in Calls, NEW i \in DOMAIN queue',
                      NEW j \in DOMAIN queue', i < j, queue'[i] = <<d, "commit">>,
                      queue'[j] = <<c, "rollback">>, kind[c] = "query"
               PROVE  d \in ahead[c]
    BY <1>4 DEF OnlyAhead
  <2>1. i + 1 < j + 1 /\ queue[i + 1] = <<d, "commit">> /\ queue[j + 1] = <<c, "rollback">>
    BY <1>5
  <2> QED BY <1>5, <2>1 DEF AheadInv, OnlyAhead
<1>12. DurableAhead'
  <2> SUFFICES ASSUME ~released', ~faulted', NEW c \in Calls, kind[c] = "query",
                      call'[c] = "pending", ~Unsent(c)', c \in committed'
               PROVE  \E d \in ahead[c] : call'[d] = "done"
    BY <1>4 DEF DurableAhead
  <2>1. ~released /\ ~faulted /\ ~remapped
    <3>1. ~faulted BY <1>1, ProperBefore DEF Next
    <3>2. ~released BY DEF EndTask, Settle, CloseAfterCommit
    <3> QED BY <3>1, <3>2 DEF AgreementInv, ReleasedFirst
  <2>2. c # Owner /\ call[c] = "pending" BY <1>9
  <2>3. PICK n \in DOMAIN queue : queue[n][1] = c BY <2>2 DEF AheadInv, TaskWaits
  <2>4. n # 1 BY <1>3, <2>2, <2>3
  <2>5. ~Unsent(c)
    <3> SUFFICES ASSUME NEW i \in DOMAIN queue, queue[i] = <<c, "query">> PROVE FALSE
      BY DEF Unsent
    <3>1. i # 1 BY <1>3, <2>2
    <3> QED BY <1>6, <3>1 DEF Unsent
  <2>6. ahead[c] \subseteq Calls BY <1>1 DEF ClientTypes
  <2>7. CASE c \in committed
    <3>1. PICK d \in ahead[c] : call[d] = "done"
      BY <2>1, <2>2, <2>5, <2>7 DEF AheadInv, DurableAhead
    <3>2. d # Owner BY <1>8, <2>6, <3>1
    <3> QED BY <1>7, <2>6, <3>1, <3>2
  <2>8. CASE c \notin committed
    <3>1. CommitSucceeds /\ c \in written
      BY <2>2, <2>8
      DEF Task, QueryRefused, QueryBegins, QuerySends, CommitRefused, CommitSends,
          RollbackRefused, RollbackSends, Answer, BeginSucceeds, BeginFails, QuerySucceeds,
          QueryFails, ModelFails, CommitSucceeds, CommitFails, RollbackSucceeds, RollbackFails,
          Executes, Ends, Fault, server
    <3>2. First[2] = "commit" BY <3>1 DEF CommitSucceeds, Answers, UseInv, StatementOfTask
    <3>3. EndTask(TRUE) BY <2>1, <3>1 DEF CommitSucceeds
    <3>4. Owner \in Calls
      BY <2>1, <3>3 DEF EndTask, Settle, CloseAfterCommit
    <3>5. queue[1] = <<Owner, "commit">>
      BY <1>1, <1>2, <1>3, <3>2, FirstTask DEF Tasks, Owner
    <3>6. queue[n] = <<c, "rollback">>
      <4>1. queue[n][2] \in {"query", "rollback"} BY <2>3 DEF CallInv, CallsWait
      <4>2. queue[n] = <<c, queue[n][2]>> BY <1>1, <2>3 DEF ClientTypes, Tasks
      <4> QED BY <2>5, <4>1, <4>2 DEF Unsent
    <3>7. 1 < n BY <1>3, <2>4
    <3>8. Owner \in ahead[c] BY <1>3, <3>4, <3>5, <3>6, <3>7 DEF AheadInv, OnlyAhead
    <3>9. call'[Owner] = "done" BY <1>1, <3>3, <3>4 DEF EndTask, Settle, ClientTypes
    <3> QED BY <3>8, <3>9
  <2> QED BY <2>7, <2>8
<1> QED BY <1>10, <1>11, <1>12 DEF AheadInv

(* A rollback that joins the queue takes note of the commits it joins.       *)
LEMMA RequeueKeepsAhead ==
    ASSUME TypeInv, AgreementInv, UseInv, CallInv, AheadInv, Task \/ Answer, RollBackAfter
    PROVE  AheadInv'
<1>1. ClientTypes BY TypeParts DEF TypeInv
<1>2. queue # <<>> BY TaskShape
<1>3. /\ 1 \in DOMAIN queue /\ queue[1][1] = Owner /\ queue[1] = First
      /\ DOMAIN queue = 1 .. Len(queue) /\ Len(queue) \in Nat \ {0}
  BY <1>1, <1>2, QueueFacts
<1>4. /\ DOMAIN queue' = DOMAIN queue
      /\ queue'[Len(queue)] = <<Owner, "rollback">>
      /\ \A i \in 1 .. Len(queue) - 1 : i + 1 \in DOMAIN queue /\ queue'[i] = queue[i + 1]
  BY <1>1, <1>2, RequeueFacts
<1>5. UNCHANGED <<kind, call, released, remapped>>
      /\ ahead' = [ahead EXCEPT ![Owner] = CommitsWaiting]
  BY DEF RollBackAfter
<1>6. /\ Owner \in Calls => ahead'[Owner] = CommitsWaiting
      /\ \A c \in Calls : c # Owner => ahead'[c] = ahead[c]
  BY <1>1, <1>5 DEF ClientTypes
<1>7. \A i \in DOMAIN queue : i # 1 => i - 1 \in DOMAIN queue' /\ queue'[i - 1] = queue[i]
  BY <1>3, <1>4
<1>8. TaskWaits'
  <2> SUFFICES ASSUME NEW c \in Calls, call[c] = "pending"
               PROVE  \E i \in DOMAIN queue' : queue'[i][1] = c
    BY <1>5 DEF TaskWaits
  <2>1. PICK i \in DOMAIN queue : queue[i][1] = c BY DEF AheadInv, TaskWaits
  <2>2. CASE i = 1
    <3>1. Len(queue) \in DOMAIN queue' BY <1>3, <1>4
    <3> QED BY <1>3, <1>4, <2>1, <2>2, <3>1
  <2>3. CASE i # 1 BY <1>7, <2>1, <2>3
  <2> QED BY <2>2, <2>3
<1>9. OnlyAhead'
  <2> SUFFICES ASSUME NEW c \in Calls, NEW d \in Calls, NEW i \in DOMAIN queue',
                      NEW j \in DOMAIN queue', i < j, queue'[i] = <<d, "commit">>,
                      queue'[j] = <<c, "rollback">>, kind[c] = "query"
               PROVE  d \in ahead'[c]
    BY <1>5 DEF OnlyAhead
  <2>1. i \in 1 .. Len(queue) - 1 BY <1>3, <1>4
  <2>2. i + 1 \in DOMAIN queue /\ queue[i + 1] = <<d, "commit">> BY <1>4, <2>1
  <2>3. CASE j = Len(queue)
    <3>1. c = Owner BY <1>4, <2>3
    <3> QED BY <1>6, <2>2, <3>1 DEF CommitsWaiting
  <2>4. CASE j # Len(queue)
    <3>1. j \in 1 .. Len(queue) - 1 BY <1>3, <1>4, <2>4
    <3>2. j + 1 \in DOMAIN queue /\ queue[j + 1] = <<c, "rollback">> /\ i + 1 < j + 1 /\ j + 1 # 1
      BY <1>4, <2>1, <3>1
    <3>3. d \in ahead[c] BY <2>2, <3>2 DEF AheadInv, OnlyAhead
    <3>4. c # Owner BY <1>3, <3>2 DEF CallInv, CallsWait
    <3> QED BY <1>6, <3>3, <3>4
  <2> QED BY <2>3, <2>4
<1>10. DurableAhead'
  <2> SUFFICES ASSUME ~released, ~faulted', NEW c \in Calls, kind[c] = "query",
                      call[c] = "pending", ~Unsent(c)', c \in committed'
               PROVE  \E d \in ahead'[c] : call[d] = "done"
    BY <1>5 DEF DurableAhead
  <2>1. ~faulted /\ ~remapped
    <3>1. ~faulted BY <1>1, ProperBefore DEF Next
    <3> QED BY <3>1 DEF AgreementInv, ReleasedFirst
  <2>2. QueryFails \/ ModelFails \/ CommitFails
    <3>1. ~EndTask(TRUE) /\ ~EndTask(FALSE)
      <4>1. DOMAIN Tail(queue) = 1 .. Len(queue) - 1 BY <1>1, <1>2, QueueFacts
      <4>2. Len(queue) \in DOMAIN queue' BY <1>3, <1>4
      <4>3. queue' # Tail(queue) BY <1>3, <4>1, <4>2
      <4> QED BY <4>3 DEF EndTask
    <3>2. stage' = "none" BY DEF RollBackAfter
    <3>3. ~Task
      BY <3>1, <3>2
      DEF Task, QueryRefused, QueryBegins, QuerySends, CommitRefused, CommitSends,
          RollbackRefused, RollbackSends, Send
    <3>4. ~BeginSucceeds /\ ~BeginFails /\ ~QuerySucceeds /\ ~RollbackFails
      BY <3>1, <3>2 DEF BeginSucceeds, BeginFails, QuerySucceeds, RollbackFails, Send
    <3>5. ~CommitSucceeds BY <3>1 DEF CommitSucceeds
    <3>6. ~RollbackSucceeds
      <4>1. (Owner \in Calls /\ kind[Owner] = "rollback") \in BOOLEAN OBVIOUS
      <4>2. \A ok \in BOOLEAN : ~EndTask(ok) BY <3>1
      <4> QED BY <3>1, <4>1, <4>2 DEF RollbackSucceeds
    <3> QED BY <3>3, <3>4, <3>5, <3>6 DEF Answer
  <2>3. CASE c = Owner
    <3>1. First[2] # "commit" BY <1>3, <2>3 DEF CallInv, CallsWait
    <3>2. stage = "query"
      BY <2>2, <3>1
      DEF QueryFails, ModelFails, CommitFails, Answers, UseInv, StatementOfTask
    <3>3. First[2] = "query" BY <3>2 DEF TypeInv, QueryInFlight
    <3>4. queue[1] = <<c, "query">>
      BY <1>1, <1>2, <1>3, <2>3, <3>3, FirstTask DEF Tasks, Owner
    <3>5. c \notin committed BY <1>3, <3>4 DEF CallInv, UnsentInv, Unsent
    <3>6. conn # "none" BY <2>1, <3>2 DEF AgreementInv, QueryInside
    <3>7. committed' = committed
      <4>1. conn = "active" \/ ~ModelFails
        BY <1>1, <3>6, TypeParts DEF TypeInv, ServerTypes, ModelFails, Executes
      <4> QED BY <2>2, <3>2, <4>1 DEF QueryFails, ModelFails, CommitFails, Answers, Executes
    <3> QED BY <3>5, <3>7
  <2>4. CASE c # Owner
    <3>1. c \in committed
      BY <2>2, <2>4 DEF QueryFails, ModelFails, CommitFails, Executes, Ends, server
    <3>2. ~Unsent(c)
      <4> SUFFICES ASSUME NEW i \in DOMAIN queue, queue[i] = <<c, "query">> PROVE FALSE
        BY DEF Unsent
      <4>1. i # 1 BY <1>3, <2>4
      <4> QED BY <1>7, <4>1 DEF Unsent
    <3> QED BY <1>6, <2>1, <2>4, <3>1, <3>2 DEF AheadInv, DurableAhead
  <2> QED BY <2>3, <2>4
<1> QED BY <1>8, <1>9, <1>10 DEF AheadInv

(* A task that joins the queue comes behind every rollback.                  *)
LEMMA OthersKeepAhead ==
    ASSUME TypeInv, AgreementInv, CallInv, AheadInv, Others
    PROVE  AheadInv'
<1>1. ClientTypes BY TypeParts DEF TypeInv
<1>2. UNCHANGED <<committed, faulted, ahead>> /\ (~released' => ~released)
  BY <1>1, OthersKeepFirst
  DEF server, Others, Call, FnSettles, UseAsyncEnds, Shutdown, Remap, Dispose, ClientTypes
<1>3. \A i \in DOMAIN queue : i \in DOMAIN queue' /\ queue'[i] = queue[i]
  BY <1>1, OthersKeepFirst
<1>4. \A c \in Calls : Unsent(c) => Unsent(c)' BY <1>3 DEF Unsent
<1>5. \A c \in Calls : ahead[c] \subseteq Calls BY <1>1 DEF ClientTypes
<1>6. ASSUME NEW b \in Calls, NEW k \in Kinds, Call(b, k) PROVE AheadInv'
  <2>1. call[b] = "new" /\ kind' = [kind EXCEPT ![b] = k] BY <1>6 DEF Call
  <2>2. \A i \in DOMAIN queue : queue[i][1] # b BY <2>1 DEF CallInv, CallsWait
  <2>3. CASE remapped
    <3>1. call' = [call EXCEPT ![b] = "failed"] /\ queue' = queue BY <1>6, <2>3 DEF Call
    <3>2. TaskWaits' BY <1>1, <3>1 DEF AheadInv, TaskWaits, ClientTypes
    <3>3. OnlyAhead'
      BY <1>1, <1>2, <2>1, <2>2, <3>1 DEF AheadInv, OnlyAhead, ClientTypes
    <3>4. released BY <2>3 DEF AgreementInv, ReleasedFirst
    <3>5. DurableAhead' BY <1>2, <3>4 DEF DurableAhead
    <3> QED BY <3>2, <3>3, <3>5 DEF AheadInv
  <2>4. CASE ~remapped
    <3>1. call' = [call EXCEPT ![b] = "pending"] /\ queue' = Append(queue, <<b, k>>)
      BY <1>6, <2>4 DEF Call
    <3>2. /\ DOMAIN queue' = 1 .. Len(queue) + 1 /\ DOMAIN queue = 1 .. Len(queue)
          /\ Len(queue) \in Nat /\ queue'[Len(queue) + 1] = <<b, k>>
      BY <1>1, <3>1, AppendFacts
    <3>3. TaskWaits'
      <4> SUFFICES ASSUME NEW c \in Calls, call'[c] = "pending"
                   PROVE  \E i \in DOMAIN queue' : queue'[i][1] = c
        BY DEF TaskWaits
      <4>1. CASE c = b
        <5>1. Len(queue) + 1 \in DOMAIN queue' /\ queue'[Len(queue) + 1][1] = b BY <3>2
        <5> QED BY <4>1, <5>1
      <4>2. CASE c # b
        <5>1. call[c] = "pending" BY <1>1, <3>1, <4>2 DEF ClientTypes
        <5>2. PICK i \in DOMAIN queue : queue[i][1] = c BY <5>1 DEF AheadInv, TaskWaits
        <5> QED BY <1>3, <5>2
      <4> QED BY <4>1, <4>2
    <3>4. OnlyAhead'
      <4> SUFFICES ASSUME NEW c \in Calls, NEW d \in Calls, NEW i \in DOMAIN queue',
                          NEW j \in DOMAIN queue', i < j, queue'[i] = <<d, "commit">>,
                          queue'[j] = <<c, "rollback">>, kind'[c] = "query"
                   PROVE  d \in ahead[c]
        BY <1>2 DEF OnlyAhead
      <4>1. j # Len(queue) + 1 BY <1>1, <2>1, <3>2 DEF ClientTypes
      <4>2. i \in DOMAIN queue /\ j \in DOMAIN queue BY <3>2, <4>1
      <4>3. queue[i] = <<d, "commit">> /\ queue[j] = <<c, "rollback">> BY <1>3, <4>2
      <4>4. c # b BY <2>2, <4>2, <4>3
      <4>5. kind[c] = "query" BY <1>1, <2>1, <4>4 DEF ClientTypes
      <4> QED BY <4>2, <4>3, <4>5 DEF AheadInv, OnlyAhead
    <3>5. DurableAhead'
      <4> SUFFICES ASSUME ~released', ~faulted', NEW c \in Calls, kind'[c] = "query",
                          call'[c] = "pending", ~Unsent(c)', c \in committed'
                   PROVE  \E d \in ahead[c] : call'[d] = "done"
        BY <1>2 DEF DurableAhead
      <4>1. c # b
        <5>1. kind'[b] = k BY <1>1, <2>1 DEF ClientTypes
        <5>2. Len(queue) + 1 \in DOMAIN queue' /\ queue'[Len(queue) + 1] = <<b, k>> BY <3>2
        <5> QED BY <5>1, <5>2 DEF Unsent
      <4>2. kind[c] = "query" /\ call[c] = "pending"
        BY <1>1, <2>1, <3>1, <4>1 DEF ClientTypes
      <4>3. PICK d \in ahead[c] : call[d] = "done"
        BY <1>2, <1>4, <4>2 DEF AheadInv, DurableAhead
      <4>4. d # b /\ d \in Calls BY <1>5, <2>1, <4>3
      <4> QED BY <1>1, <3>1, <4>3, <4>4 DEF ClientTypes
    <3> QED BY <3>3, <3>4, <3>5 DEF AheadInv
  <2> QED BY <2>3, <2>4
<1>7. ASSUME ~\E b \in Calls, k \in Kinds : Call(b, k) PROVE AheadInv'
  <2>1. UNCHANGED <<call, kind>>
    BY <1>7 DEF Others, FnSettles, UseAsyncEnds, Shutdown, Remap
  <2>2. TaskWaits' BY <1>3, <2>1 DEF AheadInv, TaskWaits
  <2>3. DurableAhead' BY <1>2, <1>4, <2>1 DEF AheadInv, DurableAhead
  <2>4. queue' = queue \/ (\E d \in Disposers : queue' = Append(queue, <<d, "commit">>))
    BY <1>7 DEF Others, FnSettles, UseAsyncEnds, Shutdown, Remap, Dispose, Disposers
  <2>5. CASE queue' = queue BY <1>2, <2>1, <2>2, <2>3, <2>5 DEF AheadInv, OnlyAhead
  <2>6. ASSUME NEW e \in Disposers, queue' = Append(queue, <<e, "commit">>) PROVE OnlyAhead'
    <3>1. /\ DOMAIN queue' = 1 .. Len(queue) + 1 /\ DOMAIN queue = 1 .. Len(queue)
          /\ Len(queue) \in Nat /\ queue'[Len(queue) + 1] = <<e, "commit">>
      BY <1>1, <2>6, AppendFacts
    <3> SUFFICES ASSUME NEW c \in Calls, NEW d \in Calls, NEW i \in DOMAIN queue',
                        NEW j \in DOMAIN queue', i < j, queue'[i] = <<d, "commit">>,
                        queue'[j] = <<c, "rollback">>, kind[c] = "query"
                 PROVE  d \in ahead[c]
      BY <1>2, <2>1 DEF OnlyAhead
    <3>2. j # Len(queue) + 1 BY <3>1
    <3>3. i \in DOMAIN queue /\ j \in DOMAIN queue BY <3>1, <3>2
    <3>4. queue[i] = <<d, "commit">> /\ queue[j] = <<c, "rollback">> BY <1>3, <3>3
    <3> QED BY <3>3, <3>4 DEF AheadInv, OnlyAhead
  <2> QED BY <2>2, <2>3, <2>4, <2>5, <2>6 DEF AheadInv
<1> QED BY <1>6, <1>7

LEMMA AheadInvariant == Spec => []AheadInv
<1>1. Init => AheadInv BY DEF Init, AheadInv, TaskWaits, OnlyAhead, DurableAhead
<1>2. TypeInv /\ AgreementInv /\ UseInv /\ CallInv /\ AheadInv /\ [Next]_vars => AheadInv'
  <2> SUFFICES ASSUME TypeInv, AgreementInv, UseInv, CallInv, AheadInv, [Next]_vars
               PROVE  AheadInv'
    OBVIOUS
  <2>1. CASE UNCHANGED vars
    BY <2>1 DEF vars, client, server, AheadInv, TaskWaits, OnlyAhead, DurableAhead, Unsent
  <2>2. CASE Task \/ Answer
    <3>1. CASE stage' # "none"
      <4>1. ~(\E ok : EndTask(ok)) /\ ~RollBackAfter BY <3>1 DEF EndTask, RollBackAfter
      <4>2. UNCHANGED <<queue, kind, call, ahead, released>> BY <2>2, <4>1, TaskShape DEF Send
      <4>3. UNCHANGED <<committed, faulted>>
        <5>1. Task => UNCHANGED <<committed, faulted>>
          BY DEF Task, QueryRefused, QueryBegins, QuerySends, CommitRefused, CommitSends,
                 RollbackRefused, RollbackSends, server
        <5>2. Answer => BeginSucceeds
          BY <4>1
          DEF Answer, BeginSucceeds, BeginFails, QuerySucceeds, QueryFails, ModelFails,
              CommitSucceeds, CommitFails, RollbackSucceeds, RollbackFails, QueryError
        <5> QED BY <2>2, <5>1, <5>2 DEF BeginSucceeds
      <4> QED BY <4>2, <4>3 DEF AheadInv, TaskWaits, OnlyAhead, DurableAhead, Unsent
    <3>2. CASE RollBackAfter BY <2>2, <3>2, RequeueKeepsAhead
    <3>3. ASSUME NEW ok \in BOOLEAN, EndTask(ok) PROVE AheadInv' BY <2>2, <3>3, EndKeepsAhead
    <3> QED BY <2>2, <3>1, <3>2, <3>3, TaskShape DEF Send
  <2>3. CASE Others BY <2>3, OthersKeepAhead
  <2> QED BY <2>1, <2>2, <2>3 DEF Next, Others
<1> QED BY <1>1, <1>2, UseInvariant, CallInvariant, PTL DEF Spec

(* For any set of calls, awaited or not: while the connection is held and no *)
(* BEGIN or ROLLBACK has failed, a query that fails reports it when nothing  *)
(* it wrote is in an open transaction and, if it was sent, the transaction   *)
(* is over; and what it wrote is durable only by a commit() that was waiting *)
(* already when it failed.                                                   *)
THEOREM RolledBackAlways == Spec => RolledBackBeforeFailure
<1> DEFINE Over(c) == /\ c \notin written'
                      /\ First = <<c, "rollback">> => conn' = "none"
                      /\ c \in committed' => \E d \in ahead[c] : call[d] = "done"
           RolledBack ==
             \A c \in Calls :
                /\ kind[c] = "query" /\ call[c] = "pending" /\ call'[c] = "failed"
                /\ ~released /\ ~faulted'
                => Over(c)
           Inv == /\ TypeInv /\ AgreementInv /\ UseInv
                  /\ CallInv /\ AheadInv /\ NothingWritten
<1>1. Inv /\ [Next]_vars => [RolledBack]_vars
  <2> SUFFICES ASSUME Inv, Next, NEW c \in Calls, kind[c] = "query", call[c] = "pending",
                      call'[c] = "failed", ~released, ~faulted'
               PROVE  Over(c)
    OBVIOUS
  <2>1. ClientTypes /\ ~remapped BY TypeParts DEF TypeInv, AgreementInv, ReleasedFirst
  <2>2. ~faulted BY <2>1, ProperBefore
  <2>3. Task \/ Answer
    BY <2>1 DEF Next, Call, FnSettles, UseAsyncEnds, Shutdown, Remap, ClientTypes
  <2>4. queue # <<>> BY <2>3, TaskShape
  <2>5. (\E ok \in BOOLEAN : EndTask(ok)) /\ ~RollBackAfter
    <3>1. ~(\E s : Send(s)) /\ ~RollBackAfter BY DEF Send, RollBackAfter
    <3> QED BY <2>3, <3>1, TaskShape
  <2>6. c = Owner BY <2>1, <2>4, <2>5, SettleFacts
  <2>7. ~EndTask(TRUE) BY <2>1, <2>6 DEF EndTask, Settle, ClientTypes
  <2>8. First = <<c, First[2]>> /\ First[2] \in {"query", "rollback"}
    <3>1. queue[1] = First /\ 1 \in DOMAIN queue BY <2>1, <2>4, QueueFacts
    <3>2. First[2] \in {"query", "rollback"}
      BY <2>6, <3>1 DEF CallInv, CallsWait, Owner
    <3> QED BY <2>1, <2>4, <2>6, <3>2, FirstTask DEF Tasks, Owner
  <2>9. First = <<c, "rollback">> /\ c \in committed => \E d \in ahead[c] : call[d] = "done"
    <3> SUFFICES ASSUME First = <<c, "rollback">>, c \in committed
                 PROVE  \E d \in ahead[c] : call[d] = "done"
      OBVIOUS
    <3>1. 1 \in DOMAIN queue /\ queue[1] = <<c, "rollback">> BY <2>1, <2>4, QueueFacts
    <3>2. ~Unsent(c) BY <3>1 DEF Unsent, CallInv, CallsWait
    <3> QED BY <2>2, <3>2 DEF AheadInv, DurableAhead
  <2>10. CASE QueryRefused
    <3>1. Unsent(c) BY <2>1, <2>4, <2>8, <2>10, QueueFacts DEF QueryRefused, Starts, Unsent
    <3>2. c \notin written' /\ c \notin committed'
      BY <2>10, <3>1 DEF QueryRefused, server, CallInv, UnsentInv
    <3> QED BY <2>10, <3>2 DEF QueryRefused, Starts
  <2>11. CASE RollbackRefused
    <3>1. AtRest /\ "rollback" \notin Allowed(state)
      BY <2>1, <2>2, <2>11 DEF RollbackRefused, Starts, AgreementInv, Agreement
    <3>2. conn = "none" BY <3>1 DEF AtRest, Allowed
    <3>3. First = <<c, "rollback">> BY <2>8, <2>11 DEF RollbackRefused, Starts
    <3> QED BY <2>11, <2>9, <3>2, <3>3 DEF RollbackRefused, server, NothingWritten
  <2>12. CASE RollbackSucceeds
    <3>1. First[2] = "rollback"
      BY <2>12 DEF RollbackSucceeds, Answers, UseInv, StatementOfTask
    <3>2. First = <<c, "rollback">> BY <2>8, <3>1
    <3>3. written' = {} /\ conn' = "none" /\ committed' = committed
      BY <2>12 DEF RollbackSucceeds, Ends
    <3> QED BY <2>9, <3>2, <3>3
  <2>13. CASE CommitFails
    BY <2>1, <2>2, <2>5, <2>13
    DEF CommitFails, Answers, AgreementInv, Agreement, Allowed
  <2>14. CASE CommitRefused BY <2>8, <2>14 DEF CommitRefused, Starts
  <2>15. ~QuerySucceeds /\ ~CommitSucceeds BY <2>1, <2>7 DEF QuerySucceeds, CommitSucceeds
  <2>16. ~BeginFails /\ ~RollbackFails BY DEF BeginFails, RollbackFails, Fault
  <2>17. ~QueryFails /\ ~ModelFails BY <2>1, <2>5 DEF QueryFails, ModelFails, QueryError
  <2>18. ~BeginSucceeds /\ ~QueryBegins /\ ~QuerySends /\ ~CommitSends /\ ~RollbackSends
    BY <2>1 DEF BeginSucceeds, QueryBegins, QuerySends, CommitSends, RollbackSends, Send
  <2> QED BY <2>3, <2>10, <2>11, <2>12, <2>13, <2>14, <2>15, <2>16, <2>17, <2>18 DEF Task, Answer
<1> QED
  BY <1>1, UseInvariant, CallInvariant, AheadInvariant, NothingWrittenInvariant, PTL
  DEF Spec, RolledBackBeforeFailure
===============================================================================
