----------------------------- MODULE MCAsyncMutex -----------------------------
(* AsyncMutex with the constants of its runs.  Three lock requests are the   *)
(* least for one to overtake another; three mutexes let a mutex of the       *)
(* object be disposed, replaced, and its replacement be forgotten.           *)
EXTENDS AsyncMutex

CONSTANTS o1, m1, m2, m3, r1, r2, r3

MCObjects == {o1}
MCMutexes == {m1, m2, m3}
MCRequests == {r1, r2, r3}
===============================================================================
