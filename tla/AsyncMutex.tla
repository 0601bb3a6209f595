------------------------------ MODULE AsyncMutex ------------------------------
(*****************************************************************************)
(* AsyncMutex of @dandi/common: the mutexes of lock objects (MUTEXES), their *)
(* queues of locks, the promises that lock requests wait for, and what       *)
(* disposing a lock, a mutex or the lock object itself does to them.         *)
(*                                                                           *)
(* JavaScript runs one step at a time, so a step here is the code between    *)
(* two awaits.  A request is one call of getLock() or runLocked(fn); what fn *)
(* does is left open: it may release its lock at any time.                   *)
(*****************************************************************************)
EXTENDS Naturals, Sequences

CONSTANTS
    Objects,    \* the lock objects
    Mutexes,    \* the AsyncMutex instances that may be constructed (a bound)
    Requests,   \* the lock requests that may be made (a bound)
    None

ASSUME NoneAssumption == None \notin Objects \cup Mutexes \cup Requests

VARIABLES
    mutexes,    \* MUTEXES: the mutex that AsyncMutex.for(o) returns
    lockObject, \* the lock object of a mutex, None before it is constructed
    locks,      \* the queue of locks of a mutex
    mutexOf,    \* the mutex a request was made on
    prevLock,   \* the lock whose RELEASED promise a request awaits
    status,     \* where a request is
    disposal,   \* how far dispose() of a mutex is
    disposed,   \* the mutexes that carry the DISPOSED mark
    mark        \* the DISPOSING and DISPOSED marks of a lock object

vars == <<mutexes, lockObject, locks, mutexOf, prevLock, status, disposal,
          disposed, mark>>

Status == {"new", "waiting", "held", "released", "abandoned", "rejected"}

TypeOK ==
    /\ mutexes \in [Objects -> Mutexes \cup {None}]
    /\ lockObject \in [Mutexes -> Objects \cup {None}]
    /\ locks \in [Mutexes -> Seq(Requests)]
    /\ mutexOf \in [Requests -> Mutexes \cup {None}]
    /\ prevLock \in [Requests -> Requests \cup {None}]
    /\ status \in [Requests -> Status]
    /\ disposal \in [Mutexes -> {"none", "awaiting", "done"}]
    /\ disposed \in [Mutexes -> BOOLEAN]
    /\ mark \in [Objects -> {"live", "disposing", "disposed"}]

Init ==
    /\ mutexes = [o \in Objects |-> None]
    /\ lockObject = [m \in Mutexes |-> None]
    /\ locks = [m \in Mutexes |-> <<>>]
    /\ mutexOf = [r \in Requests |-> None]
    /\ prevLock = [r \in Requests |-> None]
    /\ status = [r \in Requests |-> "new"]
    /\ disposal = [m \in Mutexes |-> "none"]
    /\ disposed = [m \in Mutexes |-> FALSE]
    /\ mark = [o \in Objects |-> "live"]

-------------------------------------------------------------------------------
(* Mutant: for() does not look in MUTEXES.                                   *)
ForAlwaysNew(o, m) ==
    /\ lockObject[m] = None
    /\ mutexes' = [mutexes EXCEPT ![o] = m]
    /\ lockObject' = [lockObject EXCEPT ![m] = o]
    /\ UNCHANGED <<locks, mutexOf, prevLock, status, disposal, disposed, mark>>

(* AsyncMutex.for(o) when MUTEXES has no entry for o; a call that finds one  *)
(* changes nothing.                                                          *)
For(o, m) ==
    /\ mutexes[o] = None
    /\ lockObject[m] = None
    /\ mutexes' = [mutexes EXCEPT ![o] = m]
    /\ lockObject' = [lockObject EXCEPT ![m] = o]
    /\ UNCHANGED <<locks, mutexOf, prevLock, status, disposal, disposed, mark>>

(* What getLock() does once no lock is in front of it.                       *)
Resolved(m) == IF disposed[m] THEN "rejected" ELSE "held"

LastLock(m) == locks[m][Len(locks[m])]

(* getLock() up to its await.  Whoever has a reference to a mutex may call   *)
(* it, also after MUTEXES has forgotten that mutex.                          *)
GetLock(m, r) ==
    /\ lockObject[m] # None
    /\ status[r] = "new"
    /\ mutexOf' = [mutexOf EXCEPT ![r] = m]
    /\ locks' = [locks EXCEPT ![m] = Append(@, r)]
    /\ IF locks[m] = <<>>
       THEN /\ status' = [status EXCEPT ![r] = Resolved(m)]
            /\ UNCHANGED prevLock
       ELSE /\ status' = [status EXCEPT ![r] = "waiting"]
            /\ prevLock' = [prevLock EXCEPT ![r] = LastLock(m)]
    /\ UNCHANGED <<mutexes, lockObject, disposal, disposed, mark>>

IsReleased(r) == status[r] = "released"

(* getLock() resumes when the RELEASED promise of the previous lock resolves *)
(* (release() resolves it in the same step that shifts the queue).           *)
Grant(r) ==
    /\ status[r] = "waiting"
    /\ IsReleased(prevLock[r])
    /\ status' = [status EXCEPT ![r] = Resolved(mutexOf[r])]
    /\ UNCHANGED <<mutexes, lockObject, locks, mutexOf, prevLock, disposal,
                   disposed, mark>>

(* Mutant: release takes the last lock out of the queue.                     *)
ReleasePops(r) ==
    /\ status[r] = "held"
    /\ LET m == mutexOf[r] IN
       /\ locks[m] # <<>>
       /\ Head(locks[m]) = r
       /\ locks' = [locks EXCEPT ![m] = SubSeq(@, 1, Len(@) - 1)]
    /\ status' = [status EXCEPT ![r] = "released"]
    /\ UNCHANGED <<mutexes, lockObject, mutexOf, prevLock, disposal, disposed,
                   mark>>

(* dispose() of a lock, called by fn or by the finally of useAsync.  Calls   *)
(* after the first do nothing, as `release` is gone.  The code throws        *)
(* 'should not happen!' when the lock is not the first of the queue.         *)
Release(r) ==
    /\ status[r] = "held"
    /\ LET m == mutexOf[r] IN
       /\ locks[m] # <<>>
       /\ Head(locks[m]) = r
       /\ locks' = [locks EXCEPT ![m] = Tail(@)]
    /\ status' = [status EXCEPT ![r] = "released"]
    /\ UNCHANGED <<mutexes, lockObject, mutexOf, prevLock, disposal, disposed,
                   mark>>

(* Disposable.canDispose of a lock: a lock is Object.create(lockObject), so  *)
(* it inherits the marks of its lock object.                                 *)
CanDisposeLock(r) == mark[lockObject[mutexOf[r]]] = "live"

(* The finally of useAsync finds that the lock cannot be disposed: runLocked *)
(* ends, and the lock stays in the queue for good.                           *)
Abandon(r) ==
    /\ status[r] = "held"
    /\ ~CanDisposeLock(r)
    /\ status' = [status EXCEPT ![r] = "abandoned"]
    /\ UNCHANGED <<mutexes, lockObject, locks, mutexOf, prevLock, disposal,
                   disposed, mark>>

-------------------------------------------------------------------------------
(* Mutant: the remap at the end of dispose() takes place; rejected requests  *)
(* then keep their place in the queue.                                       *)
IsNotDisposable(m) == FALSE

(* Disposable.isDisposable(mutex): the class has a dispose method.           *)
IsDisposable(m) == TRUE

(* AsyncMutex.dispose up to its await: the entry of the lock object goes,    *)
(* whichever mutex it names, and the lock object is disposed directly.       *)
DisposeMutex(m) ==
    /\ lockObject[m] # None
    /\ mutexes' = [mutexes EXCEPT ![lockObject[m]] = None]
    /\ disposal' = [disposal EXCEPT ![m] = "awaiting"]
    /\ UNCHANGED <<lockObject, locks, mutexOf, prevLock, status, disposed, mark>>

(* The rest of AsyncMutex.dispose, when dispose() of the lock object is      *)
(* over.  Some classes end it with Disposable.remapDisposed(this).           *)
FinishDispose(m) ==
    /\ disposal[m] = "awaiting"
    /\ disposal' = [disposal EXCEPT ![m] = "done"]
    /\ mark' \in {mark, [mark EXCEPT ![lockObject[m]] = "disposed"]}
    /\ disposed' = [disposed EXCEPT ![m] = @ \/ ~IsDisposable(m)]
    /\ UNCHANGED <<mutexes, lockObject, locks, mutexOf, prevLock, status>>

(* Disposable.dispose(o) by someone else, for instance the injector that     *)
(* created o: it marks o before it calls its dispose method ...              *)
MarkDisposing(o) ==
    /\ mark[o] = "live"
    /\ mark' = [mark EXCEPT ![o] = "disposing"]
    /\ UNCHANGED <<mutexes, lockObject, locks, mutexOf, prevLock, status,
                   disposal, disposed>>

(* ... which may remap it.                                                   *)
RemapObject(o) ==
    /\ mark[o] = "disposing"
    /\ mark' = [mark EXCEPT ![o] = "disposed"]
    /\ UNCHANGED <<mutexes, lockObject, locks, mutexOf, prevLock, status,
                   disposal, disposed>>

-------------------------------------------------------------------------------
Next ==
    \/ \E o \in Objects, m \in Mutexes : For(o, m)
    \/ \E m \in Mutexes, r \in Requests : GetLock(m, r)
    \/ \E r \in Requests : Grant(r) \/ Release(r) \/ Abandon(r)
    \/ \E m \in Mutexes : DisposeMutex(m) \/ FinishDispose(m)
    \/ \E o \in Objects : MarkDisposing(o) \/ RemapObject(o)

Spec == Init /\ [][Next]_vars

(* Promise continuations run, and every fn run under a lock settles.         *)
Fairness ==
    \A r \in Requests : WF_vars(Grant(r)) /\ WF_vars(Release(r) \/ Abandon(r))

FairSpec == Spec /\ Fairness

-------------------------------------------------------------------------------
InLine(r) == status[r] \in {"waiting", "held", "abandoned", "rejected"}

(* The assertion 'should not happen!' of lock.dispose() never fails: whoever *)
(* holds a lock is the first in its queue (async-mutex.ts:59).               *)
HolderIsFirst ==
    \A r \in Requests :
        status[r] = "held" =>
            locks[mutexOf[r]] # <<>> /\ Head(locks[mutexOf[r]]) = r

SomeMutexDisposed(o) == \E m \in Mutexes : lockObject[m] = o /\ disposal[m] # "none"

(* A lock object is used under one lock at a time until a mutex of it is     *)
(* disposed: dispose() forgets the mutex in MUTEXES (line 87) while its      *)
(* locks may be held, and the next for() makes a second mutex.  Disposing    *)
(* the first mutex again even forgets the second one.                        *)
ObjectExclusion ==
    \A r1, r2 \in Requests :
        /\ status[r1] = "held"
        /\ status[r2] = "held"
        /\ lockObject[mutexOf[r1]] = lockObject[mutexOf[r2]]
        => r1 = r2 \/ SomeMutexDisposed(lockObject[mutexOf[r1]])

(* Every queue is a chain: each lock in it waits for the lock before it, and *)
(* the first one holds the lock or waits for one that has been released.     *)
Linked(m, i) ==
    LET r == locks[m][i] IN
    /\ mutexOf[r] = m
    /\ InLine(r)
    /\ i > 1 => status[r] = "waiting" /\ prevLock[r] = locks[m][i - 1]
    /\ i = 1 /\ status[r] = "waiting" => prevLock[r] \in Requests /\ IsReleased(prevLock[r])

Chain(m) == \A i \in 1 .. Len(locks[m]) : Linked(m, i)

(* A request that was made and not released is in the queue of its mutex,    *)
(* once, so no request is ever lost (lines 58-83 of async-mutex.ts).         *)
Queued(r) ==
    InLine(r) =>
        /\ mutexOf[r] \in Mutexes
        /\ \E i \in 1 .. Len(locks[mutexOf[r]]) : locks[mutexOf[r]][i] = r

NoRepeats(m) ==
    \A i, j \in 1 .. Len(locks[m]) : locks[m][i] = locks[m][j] => i = j

(* No mutex ever carries the DISPOSED mark.                                  *)
NeverMarked == \A m \in Mutexes : ~disposed[m]

(* The inductive invariant of the queues: the links between the locks, the   *)
(* statuses and the queue never disagree.                                    *)
QueueInv ==
    /\ \A m \in Mutexes : Chain(m) /\ NoRepeats(m)
    /\ \A r \in Requests : Queued(r)
    /\ \A m \in Mutexes : locks[m] # <<>> => lockObject[m] # None
    /\ NeverMarked

(* AsyncMutex is a first-in-first-out lock, whatever is disposed meanwhile.  *)
holding == [m \in Mutexes |->
               {r \in Requests : mutexOf[r] = m /\ status[r] \in {"held", "abandoned"}}]

Lock == INSTANCE FifoLock
            WITH Locks <- Mutexes, queue <- locks, holding <- holding

ImplementsFifoLock == Lock!Spec

HiddenLocks(r) == mutexOf[r] # None /\ ~CanDisposeLock(r)

(* Every request gets its lock in the end, unless the lock object has been   *)
(* put through Disposable.dispose: its marks then hide the locks from the    *)
(* finally of useAsync (Disposable.canDispose, disposable.ts:68), and those  *)
(* behind the holder wait for ever.                                          *)
EveryRequestServed ==
    \A r \in Requests :
        status[r] = "waiting" ~> (status[r] = "held" \/ HiddenLocks(r))
===============================================================================
