------------------------------- MODULE FifoLock -------------------------------
(*****************************************************************************)
(* What a lock of @dandi/common promises to the code that runs under it: for *)
(* each lock a queue of requests in the order in which they were made, of    *)
(* which only the first one may hold the lock, and which gives up its place  *)
(* only by releasing it.  AsyncMutex implements this module, and the         *)
(* transaction client of data-pg relies on nothing else.                     *)
(*****************************************************************************)
EXTENDS Sequences

CONSTANTS Locks, Requests

VARIABLES
    queue,      \* queue[l]: the requests for l that have not been released
    holding     \* holding[l]: the requests that hold l

vars == <<queue, holding>>

Init ==
    /\ queue = [l \in Locks |-> <<>>]
    /\ holding = [l \in Locks |-> {}]

(* A request takes the last place; it holds a lock nobody asked for at once. *)
Request(l, r) ==
    /\ \A i \in DOMAIN queue[l] : queue[l][i] # r
    /\ queue' = [queue EXCEPT ![l] = Append(@, r)]
    /\ holding' = [holding EXCEPT ![l] = IF queue[l] = <<>> THEN {r} ELSE @]

Acquire(l) ==
    /\ queue[l] # <<>>
    /\ holding[l] = {}
    /\ holding' = [holding EXCEPT ![l] = {Head(queue[l])}]
    /\ UNCHANGED queue

Release(l) ==
    /\ queue[l] # <<>>
    /\ holding[l] = {Head(queue[l])}
    /\ queue' = [queue EXCEPT ![l] = Tail(@)]
    /\ holding' = [holding EXCEPT ![l] = {}]

Next ==
    \E l \in Locks :
        \/ \E r \in Requests : Request(l, r)
        \/ Acquire(l)
        \/ Release(l)

Spec == Init /\ [][Next]_vars
===============================================================================
