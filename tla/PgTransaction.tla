----------------------------- MODULE PgTransaction -----------------------------
(*****************************************************************************)
(* One transaction of @dandi-contrib/data-pg: PgDbClient.transaction() runs  *)
(* transactionFn with a PgDbTransactionClient, whose calls share one         *)
(* PgDbPoolClient under an AsyncMutex, and disposes it afterwards.           *)
(*                                                                           *)
(* The mutex is used as FifoLock promises: the first task of the queue runs, *)
(* the others wait.  A task is one runLocked() of a call: a query that fails *)
(* and a commit that fails put a rollback task of their own behind the       *)
(* queue, release the lock, and settle when that rollback has settled.       *)
(*                                                                           *)
(* The server is not part of the repository: a statement may succeed or fail,*)
(* a failed query aborts the open transaction, and what is written outside a *)
(* transaction is durable at once.                                           *)
(*****************************************************************************)
EXTENDS Sequences, FiniteSets

CONSTANT Calls      \* the calls transactionFn may make (a bound)

(* Who disposes the transaction: the useAsync of transaction(), and          *)
(* PgDbClient.dispose when the application shuts down meanwhile.             *)
Disposers == {"use", "shutdown"}

ASSUME CallsAssumption == Calls \cap Disposers = {}

Kinds == {"query", "commit", "rollback"}
Tasks == (Calls \X Kinds) \cup (Disposers \X {"commit", "rollback"})

VARIABLES
    state,      \* PgDbTransactionClient.state
    queue,      \* the tasks that have asked for the lock of the pool client
    stage,      \* the statement in flight for the first task, "none" if it has not begun
    kind,       \* what a call does, "none" before it is made
    call,       \* how far a call is
    fn,         \* transactionFn
    tidy,       \* transactionFn settles only when all of its calls have settled
    disposer,   \* how far the dispose() of a disposer is
    failure,    \* the disposers whose dispose() is going to fail
    released,   \* the pool client has been given back to the pool
    remapped,   \* the transaction client has been remapped by remapDisposed
    conn,       \* server: the transaction of the connection
    written,    \* server: the calls whose writes are in the open transaction
    committed,  \* server: the calls whose writes are durable
    loose,      \* server: the calls whose writes became durable outside a transaction
    faulted,    \* a BEGIN or ROLLBACK statement has failed
    ahead       \* history: the commits a call finds waiting when it asks for its rollback

client == <<state, queue, stage, kind, call, fn, tidy, disposer, failure, released, remapped>>
server == <<conn, written, committed, loose, faulted>>
vars == <<client, server, ahead>>

States == {"idle", "beginning", "ready", "committing", "committed", "rollingBack", "rolledBack"}

TypeOK ==
    /\ state \in States
    /\ queue \in Seq(Tasks)
    /\ stage \in {"none", "begin", "query", "commit", "rollback"}
    /\ kind \in [Calls -> Kinds \cup {"none"}]
    /\ call \in [Calls -> {"new", "pending", "done", "failed"}]
    /\ fn \in {"running", "returned", "threw"}
    /\ tidy \in BOOLEAN
    /\ disposer \in [Disposers -> {"none", "committing", "closing", "done", "failed"}]
    /\ failure \subseteq Disposers
    /\ released \in BOOLEAN /\ remapped \in BOOLEAN
    /\ conn \in {"none", "active", "aborted"}
    /\ written \subseteq Calls
    /\ committed \subseteq Calls
    /\ loose \subseteq Calls
    /\ faulted \in BOOLEAN
    /\ ahead \in [Calls -> SUBSET Calls]

Init ==
    /\ state = "idle"
    /\ queue = <<>>
    /\ stage = "none"
    /\ kind = [c \in Calls |-> "none"]
    /\ call = [c \in Calls |-> "new"]
    /\ fn = "running"
    /\ tidy \in BOOLEAN
    /\ disposer = [d \in Disposers |-> "none"]
    /\ failure = {}
    /\ released = FALSE /\ remapped = FALSE
    /\ conn = "none"
    /\ written = {} /\ committed = {} /\ loose = {}
    /\ faulted = FALSE
    /\ ahead = [c \in Calls |-> {}]

-------------------------------------------------------------------------------
(* TRANSITIONS, COMPLETION_TRANSITIONS and ALLOWED_ACTIONS.  The states that *)
(* ALLOWED_ACTIONS leaves out allow nothing: .includes throws a TypeError.   *)
Transition == [begin |-> "beginning", commit |-> "committing", reset |-> "idle",
               rollback |-> "rollingBack"]

Completion == [begin |-> "ready", commit |-> "committed", rollback |-> "rolledBack"]

Allowed(s) ==
    CASE s = "idle"       -> {"begin"}
      [] s = "ready"      -> {"commit", "rollback"}
      [] s = "committing" -> {"rollback"}
      [] s = "committed"  -> {"reset"}
      [] s = "rolledBack" -> {"reset"}
      [] OTHER            -> {}

(* Mutant: an action that completed is not followed by a reset.              *)
StateWithoutReset(action) == Completion[action]

(* The state after `action` completed and validateAndExecuteAction(reset).   *)
StateAfter(action) ==
    IF "reset" \in Allowed(Completion[action]) THEN Transition["reset"] ELSE Completion[action]

-------------------------------------------------------------------------------
(* The end of a task: runLocked releases the lock, and the call (or, for the *)
(* commit of a dispose(), the disposer) settles.                             *)
First == Head(queue)
Owner == First[1]

(* The finally of dispose(): mutex.dispose releases the pool client, unless  *)
(* another dispose() has already remapped the transaction client.            *)
CloseAfterCommit(d, ok) ==
    IF remapped
    THEN /\ disposer' = [disposer EXCEPT ![d] = "failed"]
         /\ UNCHANGED <<failure, released>>
    ELSE /\ disposer' = [disposer EXCEPT ![d] = "closing"]
         /\ failure' = IF ok THEN failure ELSE failure \cup {d}
         /\ released' = TRUE

Settle(o, ok) ==
    IF o \in Calls
    THEN /\ call' = [call EXCEPT ![o] = IF ok THEN "done" ELSE "failed"]
         /\ UNCHANGED <<disposer, failure, released>>
    ELSE CloseAfterCommit(o, ok) /\ UNCHANGED call

EndTask(ok) ==
    /\ queue' = Tail(queue)
    /\ stage' = "none"
    /\ Settle(Owner, ok)
    /\ UNCHANGED <<kind, fn, tidy, remapped, ahead>>

(* The calls of commit() whose tasks wait for the lock.                      *)
CommitsWaiting == {d \in Calls : \E i \in DOMAIN queue : queue[i] = <<d, "commit">>}

(* Mutant: the error handler awaits the rollback with the lock still held.   *)
RollBackHoldingLock ==
    /\ queue' = Append(queue, <<Owner, "rollback">>)
    /\ stage' = "awaiting"
    /\ ahead' = [ahead EXCEPT ![Owner] = CommitsWaiting]
    /\ UNCHANGED <<kind, call, fn, tidy, disposer, failure, released, remapped>>

(* Mutant: the error handler does not await the rollback it starts.          *)
RollBackInBackground ==
    /\ queue' = Append(Tail(queue), <<Owner, "rollback">>)
    /\ stage' = "none"
    /\ Settle(Owner, FALSE)
    /\ ahead' = [ahead EXCEPT ![Owner] = CommitsWaiting]
    /\ UNCHANGED <<kind, fn, tidy, remapped>>

(* A task whose error handler rolls back: the rollback joins the queue, the  *)
(* lock is released, and the owner waits for the rollback.                   *)
RollBackAfter ==
    /\ queue' = Append(Tail(queue), <<Owner, "rollback">>)
    /\ stage' = "none"
    /\ ahead' = [ahead EXCEPT ![Owner] = CommitsWaiting]
    /\ UNCHANGED <<kind, call, fn, tidy, disposer, failure, released, remapped>>

Send(statement) ==
    /\ stage' = statement
    /\ UNCHANGED <<queue, kind, call, fn, tidy, disposer, failure, released, remapped, ahead>>

(* The first task gets the lock.  Its kind is k and nothing is in flight.    *)
Starts(k) == queue # <<>> /\ stage = "none" /\ First[2] = k

Answers(statement) == queue # <<>> /\ stage = statement

-------------------------------------------------------------------------------
(* The server.                                                               *)
Executes(c) ==
    /\ conn # "aborted"
    /\ IF conn = "active"
       THEN written' = written \cup {c} /\ UNCHANGED <<committed, loose>>
       ELSE /\ committed' = committed \cup {c}
            /\ loose' = loose \cup {c}
            /\ UNCHANGED written
    /\ UNCHANGED <<conn, faulted>>

Ends(durable) ==
    /\ conn' = "none"
    /\ written' = {}
    /\ committed' = committed \cup durable
    /\ UNCHANGED <<loose, faulted>>

Fault == faulted' = TRUE /\ UNCHANGED <<conn, written, committed, loose>>

-------------------------------------------------------------------------------
(* transactionQuery: safeBeginTransaction, then the query.                   *)
QueryRefused ==
    /\ Starts("query")
    /\ remapped \/ state \notin {"idle", "ready", "beginning"}
    /\ EndTask(FALSE)
    /\ UNCHANGED <<state, server>>

QueryBegins ==
    /\ Starts("query")
    /\ ~remapped /\ state = "idle"
    /\ state' = Transition["begin"]
    /\ Send("begin")
    /\ UNCHANGED server

(* Mutant: no check of the state before a query.                             *)
QuerySendsInAnyState ==
    /\ Starts("query")
    /\ ~remapped
    /\ Send("query")
    /\ UNCHANGED <<state, server>>

QuerySends ==
    /\ Starts("query")
    /\ ~remapped /\ state \in {"ready", "beginning"}
    /\ Send("query")
    /\ UNCHANGED <<state, server>>

(* A remapped transaction client refuses the assignment of its state.        *)
BeginSucceeds ==
    /\ Answers("begin")
    /\ conn # "aborted"
    /\ conn' = "active"
    /\ IF remapped
       THEN EndTask(FALSE) /\ UNCHANGED state
       ELSE state' = Completion["begin"] /\ Send("query")
    /\ UNCHANGED <<written, committed, loose, faulted>>

(* BEGIN is outside the try block: the state stays "beginning".              *)
BeginFails ==
    /\ Answers("begin")
    /\ EndTask(FALSE)
    /\ Fault
    /\ UNCHANGED state

QuerySucceeds ==
    /\ Answers("query")
    /\ Executes(Owner)
    /\ EndTask(TRUE)
    /\ UNCHANGED state

(* Mutant: transactionQuery rethrows without rolling back.                   *)
QueryErrorRethrown ==
    /\ EndTask(FALSE)
    /\ UNCHANGED state

(* The catch of transactionQuery; a remapped client cannot roll back.        *)
QueryError ==
    /\ IF remapped THEN EndTask(FALSE) ELSE RollBackAfter
    /\ UNCHANGED state

QueryFails ==
    /\ Answers("query")
    /\ conn' = IF conn = "active" THEN "aborted" ELSE conn
    /\ QueryError
    /\ UNCHANGED <<written, committed, loose, faulted>>

(* The query succeeded, but its rows do not make a model (queryModel) or     *)
(* are too many (queryModelSingle).                                          *)
ModelFails ==
    /\ Answers("query")
    /\ Executes(Owner)
    /\ QueryError

-------------------------------------------------------------------------------
(* commit(), called by transactionFn or by dispose().                        *)
CommitRefused ==
    /\ Starts("commit")
    /\ remapped \/ "commit" \notin Allowed(state)
    /\ EndTask(FALSE)
    /\ UNCHANGED <<state, server>>

CommitSends ==
    /\ Starts("commit")
    /\ ~remapped /\ "commit" \in Allowed(state)
    /\ state' = Transition["commit"]
    /\ Send("commit")
    /\ UNCHANGED server

(* An aborted transaction is rolled back by COMMIT, which reports no error.  *)
CommitSucceeds ==
    /\ Answers("commit")
    /\ Ends(IF conn = "aborted" THEN {} ELSE written)
    /\ IF remapped
       THEN EndTask(FALSE) /\ UNCHANGED state
       ELSE EndTask(TRUE) /\ state' = StateAfter("commit")

(* COMMIT fails and rolls back (a deferred constraint), or it never ran.     *)
CommitFails ==
    /\ Answers("commit")
    /\ Ends({}) \/ UNCHANGED server
    /\ IF ~remapped /\ "rollback" \in Allowed(state) THEN RollBackAfter ELSE EndTask(FALSE)
    /\ UNCHANGED state

-------------------------------------------------------------------------------
(* rollback(), called by transactionFn or by an error handler.               *)
RollbackRefused ==
    /\ Starts("rollback")
    /\ remapped \/ "rollback" \notin Allowed(state)
    /\ EndTask(FALSE)
    /\ UNCHANGED <<state, server>>

RollbackSends ==
    /\ Starts("rollback")
    /\ ~remapped /\ "rollback" \in Allowed(state)
    /\ state' = Transition["rollback"]
    /\ Send("rollback")
    /\ UNCHANGED server

(* Mutant: the error of a failed commit is lost after its rollback.          *)
RollbackHidesError ==
    /\ Answers("rollback")
    /\ Ends({})
    /\ IF remapped
       THEN EndTask(FALSE) /\ UNCHANGED state
       ELSE EndTask(TRUE) /\ state' = StateAfter("rollback")

(* Only rollback() itself succeeds with its rollback: the others rethrow.    *)
RollbackSucceeds ==
    /\ Answers("rollback")
    /\ Ends({})
    /\ IF remapped
       THEN EndTask(FALSE) /\ UNCHANGED state
       ELSE /\ EndTask(Owner \in Calls /\ kind[Owner] = "rollback")
            /\ state' = StateAfter("rollback")

(* TransactionRollbackError: the state stays "rollingBack".                  *)
RollbackFails ==
    /\ Answers("rollback")
    /\ EndTask(FALSE)
    /\ Fault
    /\ UNCHANGED state

-------------------------------------------------------------------------------
(* transactionFn makes a call; a remapped client has no mutex any more.  An  *)
(* untidy function leaves callbacks behind that make calls later.            *)
Call(c, k) ==
    /\ call[c] = "new"
    /\ fn = "running" \/ ~tidy
    /\ kind' = [kind EXCEPT ![c] = k]
    /\ IF remapped
       THEN call' = [call EXCEPT ![c] = "failed"] /\ UNCHANGED queue
       ELSE /\ call' = [call EXCEPT ![c] = "pending"]
            /\ queue' = Append(queue, <<c, k>>)
    /\ UNCHANGED <<state, stage, fn, tidy, disposer, failure, released, remapped, server,
                   ahead>>

(* transactionFn returns or throws; PgDbClient forgets the transaction.      *)
FnSettles ==
    /\ fn = "running"
    /\ tidy => \A c \in Calls : call[c] # "pending"
    /\ fn' \in {"returned", "threw"}
    /\ UNCHANGED <<state, queue, stage, kind, call, tidy, disposer, failure, released,
                   remapped, server, ahead>>

(* Mutant: dispose() does not commit.                                        *)
DisposeWithoutCommit(d) ==
    /\ disposer' = [disposer EXCEPT ![d] = "closing"]
    /\ released' = TRUE
    /\ UNCHANGED queue

(* Mutant: dispose() does not await its commit.                              *)
DisposeWithoutAwait(d) ==
    /\ disposer' = [disposer EXCEPT ![d] = "closing"]
    /\ released' = TRUE
    /\ queue' = IF state = "ready" THEN Append(queue, <<d, "commit">>) ELSE queue

(* dispose() of the transaction client up to its first await.                *)
Dispose(d) ==
    IF state = "ready"
    THEN /\ disposer' = [disposer EXCEPT ![d] = "committing"]
         /\ queue' = Append(queue, <<d, "commit">>)
         /\ UNCHANGED released
    ELSE /\ disposer' = [disposer EXCEPT ![d] = "closing"]
         /\ released' = TRUE
         /\ UNCHANGED queue

(* The finally of useAsync: Disposable.dispose skips a remapped client.      *)
UseAsyncEnds ==
    /\ fn # "running"
    /\ disposer["use"] = "none"
    /\ IF remapped
       THEN disposer' = [disposer EXCEPT !["use"] = "done"] /\ UNCHANGED <<queue, released>>
       ELSE Dispose("use")
    /\ UNCHANGED <<state, stage, kind, call, fn, tidy, failure, remapped, server, ahead>>

(* PgDbClient.dispose calls dispose() of the active transactions directly.   *)
Shutdown ==
    /\ fn = "running"
    /\ disposer["shutdown"] = "none"
    /\ Dispose("shutdown")
    /\ UNCHANGED <<state, stage, kind, call, fn, tidy, failure, remapped, server, ahead>>

(* After mutex.dispose: remapDisposed, unless the client is remapped already.*)
Remap(d) ==
    /\ disposer[d] = "closing"
    /\ remapped' = TRUE
    /\ disposer' = [disposer EXCEPT ![d] = IF d \in failure THEN "failed" ELSE "done"]
    /\ UNCHANGED <<state, queue, stage, kind, call, fn, tidy, failure, released, server, ahead>>

-------------------------------------------------------------------------------
Task ==
    \/ QueryRefused \/ QueryBegins \/ QuerySends
    \/ CommitRefused \/ CommitSends
    \/ RollbackRefused \/ RollbackSends

Answer ==
    \/ BeginSucceeds \/ BeginFails
    \/ QuerySucceeds \/ QueryFails \/ ModelFails
    \/ CommitSucceeds \/ CommitFails
    \/ RollbackSucceeds \/ RollbackFails

Next ==
    \/ Task
    \/ Answer
    \/ \E c \in Calls, k \in Kinds : Call(c, k)
    \/ FnSettles
    \/ UseAsyncEnds
    \/ Shutdown
    \/ \E d \in Disposers : Remap(d)

Spec == Init /\ [][Next]_vars

(* Promise continuations run, the server answers every statement, and        *)
(* transactionFn settles once it may.                                        *)
Fairness ==
    /\ WF_vars(Task)
    /\ WF_vars(Answer)
    /\ WF_vars(FnSettles)
    /\ WF_vars(UseAsyncEnds)
    /\ \A d \in Disposers : WF_vars(Remap(d))

FairSpec == Spec /\ Fairness

-------------------------------------------------------------------------------
(* transactionFn awaits what it starts, and the application does not shut    *)
(* down while it runs: the use the documentation of @dandi/data describes.   *)
ProperUse == tidy /\ disposer["shutdown"] = "none"

(* The state of the client and the transaction of the server agree whenever  *)
(* nothing is in flight, as long as no BEGIN and no ROLLBACK has failed.     *)
StateMatchesServer ==
    queue = <<>> /\ ~released /\ ~faulted =>
        /\ state \in {"idle", "ready"}
        /\ state = "idle" <=> conn = "none"

(* Nothing is written outside a transaction unless a BEGIN has failed; then  *)
(* the state is stuck in "beginning", which safeBeginTransaction lets pass.  *)
NothingLoose == loose # {} => faulted

(* The pool gets a connection back without an open transaction, when the     *)
(* transaction is used properly and no BEGIN or ROLLBACK failed.             *)
CleanRelease == released /\ ProperUse /\ ~faulted => conn = "none"

(* When transaction() succeeds, none of its calls failed and it did not roll *)
(* back itself, every query that was reported done is durable.               *)
NoLostWrite ==
    /\ ProperUse
    /\ fn = "returned" /\ disposer["use"] = "done"
    /\ \A c \in Calls : call[c] \in {"new", "done"} /\ kind[c] # "rollback"
    => {c \in Calls : kind[c] = "query" /\ call[c] = "done"} \subseteq committed

(* What a failed query wrote never becomes durable, unless transactionFn     *)
(* calls commit() itself, whose task may run before the query's rollback.    *)
FailedQueryNotDurable ==
    /\ ProperUse /\ ~faulted
    /\ \A c \in Calls : kind[c] # "commit"
    => {c \in Calls : kind[c] = "query" /\ call[c] = "failed"} \cap committed = {}

(* While the client is in use, a query that fails reports it when nothing it *)
(* wrote is in an open transaction; when it was sent, the transaction it     *)
(* failed in, and any begun since, is over.  What it wrote is durable only   *)
(* if a commit() of transactionFn succeeded that was waiting for the lock    *)
(* already when the query failed.                                            *)
RolledBackBeforeFailure ==
    [][\A c \in Calls :
          /\ kind[c] = "query" /\ call[c] = "pending" /\ call'[c] = "failed"
          /\ ~released /\ ~faulted'
          => /\ c \notin written'
             /\ First = <<c, "rollback">> => conn' = "none"
             /\ c \in committed' => \E d \in ahead[c] : call[d] = "done"]_vars

(* No statement is sent on a pool client that has been released, when the    *)
(* transaction is used properly.                                             *)
NothingSentAfterRelease ==
    [][released /\ ProperUse /\ stage = "none" => stage' = "none"]_vars

(* Every call settles: no task waits for a lock that its own call holds; and *)
(* transaction() ends: the client is disposed and the connection released.   *)
TransactionSettles ==
    /\ \A c \in Calls : call[c] = "pending" ~> call[c] \in {"done", "failed"}
    /\ <>(disposer["use"] \in {"done", "failed"} /\ released)

(* The documentation of DbTransactionClient (packages/dandi/data/README.md,  *)
(* lines 90-93): committed during dispose() unless an exception is thrown,   *)
(* in which case it is rolled back.                                          *)
ThrowRollsBack ==
    /\ ProperUse /\ ~faulted
    /\ fn = "threw"
    /\ \A c \in Calls : kind[c] # "commit"
    => committed = {}
===============================================================================
