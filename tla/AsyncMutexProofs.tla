--------------------------- MODULE AsyncMutexProofs ---------------------------
(*****************************************************************************)
(* Proofs about AsyncMutex for any number of lock objects, mutexes and       *)
(* requests: its types, the queue invariant, the exclusion it gives to a     *)
(* lock object, and that it implements FifoLock.                             *)
(*****************************************************************************)
EXTENDS AsyncMutex, TLAPS

(* Every variable of AsyncMutex keeps its type.                              *)
THEOREM TypeCorrect == Spec => []TypeOK
<1> USE NoneAssumption DEF TypeOK, Status
<1>1. Init => TypeOK
  BY DEF Init
<1>2. TypeOK /\ [Next]_vars => TypeOK'
  <2> SUFFICES ASSUME TypeOK, [Next]_vars PROVE TypeOK'
    OBVIOUS
  <2>1. ASSUME NEW o \in Objects, NEW m \in Mutexes, For(o, m) PROVE TypeOK'
    BY <2>1 DEF For
  <2>2. ASSUME NEW m \in Mutexes, NEW r \in Requests, GetLock(m, r) PROVE TypeOK'
    <3>1. locks[m] # <<>> => LastLock(m) \in Requests
      BY DEF LastLock
    <3>2. locks' \in [Mutexes -> Seq(Requests)]
      BY <2>2 DEF GetLock
    <3>3. mutexOf' \in [Requests -> Mutexes \cup {None}]
      BY <2>2 DEF GetLock
    <3>4. status' \in [Requests -> Status] /\ prevLock' \in [Requests -> Requests \cup {None}]
      <4>1. CASE locks[m] = <<>>
        BY <2>2, <4>1 DEF GetLock, Resolved
      <4>2. CASE locks[m] # <<>>
        <5>1. /\ status' = [status EXCEPT ![r] = "waiting"]
              /\ prevLock' = [prevLock EXCEPT ![r] = LastLock(m)]
          BY <2>2, <4>2, Zenon DEF GetLock
        <5> QED
          BY <3>1, <4>2, <5>1
      <4> QED
        BY <4>1, <4>2
    <3> QED
      BY <2>2, <3>2, <3>3, <3>4 DEF GetLock
  <2>3. ASSUME NEW r \in Requests, Grant(r) PROVE TypeOK'
    BY <2>3 DEF Grant, Resolved
  <2>4. ASSUME NEW r \in Requests, Release(r) PROVE TypeOK'
    <3>1. locks' \in [Mutexes -> Seq(Requests)]
      <4>1. CASE mutexOf[r] \in Mutexes
        BY <2>4, <4>1 DEF Release
      <4>2. CASE mutexOf[r] \notin Mutexes
        BY <2>4, <4>2 DEF Release
      <4> QED
        BY <4>1, <4>2
    <3> QED
      BY <2>4, <3>1 DEF Release
  <2>5. ASSUME NEW r \in Requests, Abandon(r) PROVE TypeOK'
    BY <2>5 DEF Abandon
  <2>6. ASSUME NEW m \in Mutexes, DisposeMutex(m) PROVE TypeOK'
    BY <2>6 DEF DisposeMutex
  <2>7. ASSUME NEW m \in Mutexes, FinishDispose(m) PROVE TypeOK'
    BY <2>7 DEF FinishDispose
  <2>8. ASSUME NEW o \in Objects, MarkDisposing(o) PROVE TypeOK'
    BY <2>8 DEF MarkDisposing
  <2>9. ASSUME NEW o \in Objects, RemapObject(o) PROVE TypeOK'
    BY <2>9 DEF RemapObject
  <2>10. CASE UNCHANGED vars
    BY <2>10 DEF vars
  <2> QED
    BY <2>1, <2>2, <2>3, <2>4, <2>5, <2>6, <2>7, <2>8, <2>9, <2>10 DEF Next
<1> QED
  BY <1>1, <1>2, PTL DEF Spec

-------------------------------------------------------------------------------
(* The place of a request in its queue.                                      *)
LEMMA PlaceInQueue ==
  ASSUME TypeOK, QueueInv, NEW r \in Requests, InLine(r)
  PROVE  /\ mutexOf[r] \in Mutexes
         /\ \E i \in 1 .. Len(locks[mutexOf[r]]) :
               /\ locks[mutexOf[r]][i] = r
               /\ i > 1 => status[r] = "waiting" /\ prevLock[r] = locks[mutexOf[r]][i - 1]
<1>1. Queued(r)
  BY DEF QueueInv
<1>2. PICK i \in 1 .. Len(locks[mutexOf[r]]) : locks[mutexOf[r]][i] = r
  BY <1>1 DEF Queued
<1>3. Chain(mutexOf[r])
  BY <1>1 DEF Queued, QueueInv
<1> QED
  BY <1>1, <1>2, <1>3 DEF Chain, Linked, Queued

(* A holder is the first of its queue.                                       *)
LEMMA HolderFirst ==
  ASSUME TypeOK, QueueInv, NEW r \in Requests, status[r] \in {"held", "abandoned"}
  PROVE  /\ mutexOf[r] \in Mutexes
         /\ locks[mutexOf[r]] # <<>>
         /\ locks[mutexOf[r]][1] = r
         /\ Head(locks[mutexOf[r]]) = r
<1>1. PICK i \in 1 .. Len(locks[mutexOf[r]]) :
        /\ mutexOf[r] \in Mutexes
        /\ locks[mutexOf[r]][i] = r
        /\ i > 1 => status[r] = "waiting"
  BY PlaceInQueue DEF InLine
<1>2. i = 1 /\ locks[mutexOf[r]] \in Seq(Requests)
  BY <1>1 DEF TypeOK
<1> QED
  BY <1>1, <1>2

(* A request whose previous lock has been released is the first of its queue.*)
LEMMA ReleasedPrevFirst ==
  ASSUME TypeOK, QueueInv, NEW r \in Requests,
         status[r] = "waiting", IsReleased(prevLock[r])
  PROVE  /\ mutexOf[r] \in Mutexes
         /\ locks[mutexOf[r]] # <<>>
         /\ locks[mutexOf[r]][1] = r
         /\ Head(locks[mutexOf[r]]) = r
<1>1. PICK i \in 1 .. Len(locks[mutexOf[r]]) :
        /\ mutexOf[r] \in Mutexes
        /\ locks[mutexOf[r]][i] = r
        /\ i > 1 => prevLock[r] = locks[mutexOf[r]][i - 1]
  BY PlaceInQueue DEF InLine
<1>2. locks[mutexOf[r]] \in Seq(Requests)
  BY <1>1 DEF TypeOK
<1>3. ASSUME i > 1 PROVE FALSE
  <2>1. Chain(mutexOf[r]) /\ i - 1 \in 1 .. Len(locks[mutexOf[r]])
    BY <1>1, <1>2, <1>3 DEF QueueInv
  <2>2. InLine(prevLock[r])
    BY <1>1, <1>3, <2>1 DEF Chain, Linked
  <2> QED
    BY <2>2 DEF InLine, IsReleased
<1> QED
  BY <1>1, <1>2, <1>3

(* A request that gets its lock, or keeps it for good, stays in its place.   *)
LEMMA FirstChangesStatus ==
  ASSUME TypeOK, QueueInv, NEW r \in Requests, NEW s \in {"held", "abandoned"},
         mutexOf[r] \in Mutexes, locks[mutexOf[r]] # <<>>, locks[mutexOf[r]][1] = r,
         status[r] \in {"waiting", "held"},
         status' = [status EXCEPT ![r] = s],
         UNCHANGED <<lockObject, locks, mutexOf, prevLock, disposed>>
  PROVE  QueueInv'
<1>1. ASSUME NEW m \in Mutexes PROVE Chain(m)' /\ NoRepeats(m)'
  <2>1. Chain(m) /\ NoRepeats(m) /\ locks[m] \in Seq(Requests)
    BY DEF QueueInv, TypeOK
  <2>2. NoRepeats(m)'
    BY <2>1 DEF NoRepeats
  <2>3. ASSUME NEW i \in 1 .. Len(locks[m]) PROVE Linked(m, i)'
    <3>1. locks[m][i] \in Requests /\ status \in [Requests -> Status]
      BY <2>1 DEF TypeOK
    <3>2. Linked(m, i)
      BY <2>1 DEF Chain
    <3>3. CASE locks[m][i] = r
      <4>1. m = mutexOf[r] /\ i = 1
        BY <2>1, <3>2, <3>3 DEF Linked, NoRepeats
      <4> QED
        BY <3>1, <3>2, <3>3, <4>1 DEF Linked, InLine
    <3>4. CASE locks[m][i] # r
      <4>1. status'[locks[m][i]] = status[locks[m][i]]
        BY <3>1, <3>4
      <4>2. ASSUME NEW p \in Requests, IsReleased(p) PROVE IsReleased(p)'
        BY <3>1, <4>2 DEF IsReleased
      <4> QED
        BY <3>2, <4>1, <4>2 DEF Linked, InLine
    <3> QED
      BY <3>3, <3>4
  <2> QED
    BY <2>2, <2>3 DEF Chain
<1>2. ASSUME NEW x \in Requests PROVE Queued(x)'
  <2>1. InLine(x)' => InLine(x)
    BY DEF InLine, TypeOK
  <2> QED
    BY <2>1 DEF Queued, QueueInv
<1> QED
  BY <1>1, <1>2 DEF QueueInv, NeverMarked

(* getLock() appends a lock that waits for the one before it.                *)
LEMMA GetLockKeepsQueueInv ==
  ASSUME TypeOK, QueueInv, NEW m \in Mutexes, NEW r \in Requests, GetLock(m, r)
  PROVE  QueueInv'
<1>1. /\ lockObject[m] # None
      /\ status[r] = "new"
      /\ mutexOf' = [mutexOf EXCEPT ![r] = m]
      /\ locks' = [locks EXCEPT ![m] = Append(@, r)]
      /\ UNCHANGED <<lockObject, disposed>>
  BY Zenon DEF GetLock
<1>2. /\ status' \in [Requests -> Status]
      /\ \A x \in Requests \ {r} : status'[x] = status[x] /\ prevLock'[x] = prevLock[x]
      /\ locks[m] = <<>> => status'[r] = "held"
      /\ locks[m] # <<>> => status'[r] = "waiting" /\ prevLock'[r] = LastLock(m)
  <2>1. CASE locks[m] = <<>>
    <3>1. status' = [status EXCEPT ![r] = "held"] /\ UNCHANGED prevLock
      BY <2>1, Zenon DEF GetLock, Resolved, QueueInv, NeverMarked
    <3> QED
      BY <2>1, <3>1 DEF TypeOK, Status
  <2>2. CASE locks[m] # <<>>
    <3>1. /\ status' = [status EXCEPT ![r] = "waiting"]
          /\ prevLock' = [prevLock EXCEPT ![r] = LastLock(m)]
      BY <2>2, Zenon DEF GetLock
    <3> QED
      BY <2>2, <3>1 DEF TypeOK, Status
  <2> QED
    BY <2>1, <2>2
<1>3. \A x \in Requests : InLine(x) => x # r /\ InLine(x)' /\ mutexOf'[x] = mutexOf[x]
  BY <1>1, <1>2 DEF InLine, TypeOK
<1>4. \A x \in Requests : IsReleased(x) => IsReleased(x)'
  BY <1>1, <1>2 DEF IsReleased
<1>5. ASSUME NEW n \in Mutexes
      PROVE  /\ Len(locks[n]) \in Nat /\ Len(locks'[n]) \in Nat
             /\ Len(locks'[n]) = IF n = m THEN Len(locks[m]) + 1 ELSE Len(locks[n])
             /\ \A i \in 1 .. Len(locks[n]) : locks'[n][i] = locks[n][i]
             /\ n = m => locks'[n][Len(locks[m]) + 1] = r
  <2>1. locks[n] \in Seq(Requests)
    BY DEF TypeOK
  <2>2. locks'[n] = IF n = m THEN Append(locks[n], r) ELSE locks[n]
    BY <1>1 DEF TypeOK
  <2> QED
    BY <2>1, <2>2
<1>6. ASSUME NEW n \in Mutexes, NEW i \in 1 .. Len(locks[n])
      PROVE  Linked(n, i)' /\ locks[n][i] # r
  <2> PICK x \in Requests : x = locks[n][i]
    BY DEF TypeOK
  <2>1. Linked(n, i)
    BY DEF QueueInv, Chain
  <2>2. InLine(x) /\ mutexOf[x] = n
    BY <2>1 DEF Linked
  <2>3. x # r /\ InLine(x)' /\ mutexOf'[x] = n
    BY <1>3, <2>1, <2>2
  <2>4. status'[x] = status[x] /\ prevLock'[x] = prevLock[x]
    BY <1>2, <2>1, <2>3
  <2>5. locks'[n][i] = x /\ (i > 1 => locks'[n][i - 1] = locks[n][i - 1])
    BY <1>5
  <2> QED
    BY <1>4, <2>1, <2>3, <2>4, <2>5 DEF Linked
<1>7. ASSUME NEW k \in Nat, k = Len(locks[m]) + 1 PROVE Linked(m, k)'
  <2>1. (k > 1 <=> locks[m] # <<>>) /\ mutexOf'[r] = m
    BY <1>1, <1>7 DEF TypeOK
  <2>2. locks'[m][k] = r /\ (k > 1 => locks'[m][k - 1] = LastLock(m))
    BY <1>5, <1>7, <2>1 DEF LastLock
  <2>3. InLine(r)'
    BY <1>2 DEF InLine
  <2>4. status'[r] = "held" \/ (status'[r] = "waiting" /\ prevLock'[r] = LastLock(m) /\ k > 1)
    BY <1>2, <2>1
  <2>5. k = 1 => status'[r] = "held"
    BY <1>2, <2>1
  <2> QED
    BY <1>2, <2>1, <2>2, <2>3, <2>4, <2>5 DEF Linked
<1>8. ASSUME NEW n \in Mutexes PROVE Chain(n)' /\ NoRepeats(n)'
  <2>1. Chain(n)'
    <3>1. ASSUME NEW i \in 1 .. Len(locks'[n]) PROVE Linked(n, i)'
      <4>1. CASE i \in 1 .. Len(locks[n])
        BY <1>6, <4>1
      <4>2. CASE i \notin 1 .. Len(locks[n])
        <5>1. n = m /\ i \in Nat /\ i = Len(locks[m]) + 1
          BY <1>5, <4>2
        <5> QED
          BY <1>7, <5>1
      <4> QED
        BY <4>1, <4>2
    <3> QED
      BY <3>1 DEF Chain
  <2>2. NoRepeats(n)'
    <3>1. NoRepeats(n)
      BY DEF QueueInv
    <3>2. ASSUME NEW i \in 1 .. Len(locks'[n]), NEW j \in 1 .. Len(locks'[n]),
                 locks'[n][i] = locks'[n][j]
          PROVE  i = j
      <4>1. CASE i \in 1 .. Len(locks[n]) /\ j \in 1 .. Len(locks[n])
        BY <1>5, <3>1, <3>2, <4>1 DEF NoRepeats
      <4>2. CASE ~(i \in 1 .. Len(locks[n]) /\ j \in 1 .. Len(locks[n]))
        <5>1. n = m /\ (i = Len(locks[m]) + 1 \/ j = Len(locks[m]) + 1)
          BY <1>5, <4>2
        <5>2. \A l \in 1 .. Len(locks'[n]) :
                locks'[n][l] = r => l = Len(locks[m]) + 1
          <6>1. \A l \in 1 .. Len(locks'[n]) : l \in 1 .. Len(locks[n]) \/ l = Len(locks[m]) + 1
            BY <1>5, <5>1
          <6>2. \A l \in 1 .. Len(locks[n]) : locks[n][l] # r
            BY <1>6
          <6>3. \A l \in 1 .. Len(locks[n]) : locks'[n][l] # r
            BY <1>5, <6>2
          <6> QED
            BY <6>1, <6>3
        <5>3. locks'[n][Len(locks[m]) + 1] = r
          BY <1>5, <5>1
        <5>4. locks'[n][i] = r /\ locks'[n][j] = r
          BY <3>2, <5>1, <5>3
        <5> QED
          BY <5>2, <5>4
      <4> QED
        BY <4>1, <4>2
    <3> QED
      BY <3>2 DEF NoRepeats
  <2> QED
    BY <2>1, <2>2
<1>9. ASSUME NEW x \in Requests PROVE Queued(x)'
  <2>1. CASE x = r
    <3>1. /\ locks[m] \in Seq(Requests)
          /\ locks'[m] = Append(locks[m], r)
          /\ mutexOf'[r] = m
      BY <1>1 DEF TypeOK
    <3>2. Len(locks'[m]) \in 1 .. Len(locks'[m]) /\ locks'[m][Len(locks'[m])] = r
      BY <3>1
    <3> QED
      BY <2>1, <3>1, <3>2 DEF Queued
  <2>2. CASE x # r
    <3> SUFFICES ASSUME InLine(x)'
                 PROVE  /\ mutexOf'[x] \in Mutexes
                        /\ \E i \in 1 .. Len(locks'[mutexOf'[x]]) : locks'[mutexOf'[x]][i] = x
      BY DEF Queued
    <3>1. InLine(x) /\ mutexOf'[x] = mutexOf[x]
      BY <1>1, <1>2, <2>2 DEF InLine, TypeOK
    <3>2. PICK i \in 1 .. Len(locks[mutexOf[x]]) :
            mutexOf[x] \in Mutexes /\ locks[mutexOf[x]][i] = x
      BY <3>1, PlaceInQueue
    <3>3. i \in 1 .. Len(locks'[mutexOf[x]]) /\ locks'[mutexOf[x]][i] = x
      BY <1>1, <3>2 DEF TypeOK
    <3> QED
      BY <3>1, <3>2, <3>3
  <2> QED
    BY <2>1, <2>2
<1>10. \A n \in Mutexes : locks'[n] # <<>> => lockObject'[n] # None
  BY <1>1 DEF QueueInv, TypeOK
<1> QED
  BY <1>1, <1>8, <1>9, <1>10 DEF QueueInv, NeverMarked

(* Releasing a lock makes its successor the first, whose wait is then over.  *)
LEMMA ReleaseKeepsQueueInv ==
  ASSUME TypeOK, QueueInv, NEW r \in Requests, Release(r)
  PROVE  QueueInv'
<1> PICK m \in Mutexes : m = mutexOf[r] /\ locks[m] # <<>> /\ Head(locks[m]) = r /\ locks[m][1] = r
  BY HolderFirst DEF Release
<1>1. /\ status[r] = "held"
      /\ status' = [status EXCEPT ![r] = "released"]
      /\ locks' = [locks EXCEPT ![m] = Tail(@)]
      /\ UNCHANGED <<lockObject, mutexOf, prevLock, disposed>>
  BY DEF Release
<1>2. ASSUME NEW n \in Mutexes
      PROVE  /\ Len(locks[n]) \in Nat /\ Len(locks'[n]) \in Nat
             /\ n # m => locks'[n] = locks[n]
             /\ n = m => /\ Len(locks'[n]) = Len(locks[n]) - 1
                         /\ \A i \in 1 .. Len(locks'[n]) :
                               i + 1 \in 1 .. Len(locks[n]) /\ locks'[n][i] = locks[n][i + 1]
  <2>1. locks[n] \in Seq(Requests)
    BY DEF TypeOK
  <2>2. CASE n = m
    <3>1. locks'[n] = Tail(locks[n]) /\ locks[n] # <<>>
      BY <1>1, <2>2 DEF TypeOK
    <3> QED
      BY <2>1, <2>2, <3>1
  <2>3. CASE n # m
    <3>1. locks'[n] = locks[n]
      BY <1>1, <2>3 DEF TypeOK
    <3> QED
      BY <2>1, <2>3, <3>1
  <2> QED
    BY <2>2, <2>3
<1>3. /\ status'[r] = "released"
      /\ \A x \in Requests \ {r} : status'[x] = status[x]
  BY <1>1 DEF TypeOK
<1>4. IsReleased(r)' /\ \A x \in Requests : IsReleased(x) => IsReleased(x)'
  BY <1>1, <1>3 DEF IsReleased
<1>5. ASSUME NEW n \in Mutexes, NEW i \in 1 .. Len(locks[n]), n # m \/ i # 1
      PROVE  /\ locks[n][i] \in Requests
             /\ locks[n][i] # r
             /\ Linked(n, i)
  <2>1. locks[n][i] \in Requests /\ 1 \in 1 .. Len(locks[m]) /\ Linked(n, i) /\ NoRepeats(n)
    BY <1>2 DEF TypeOK, QueueInv, Chain
  <2>2. locks[n][i] # r
    BY <1>5, <2>1 DEF Linked, NoRepeats
  <2> QED
    BY <2>1, <2>2
<1>6. ASSUME NEW x \in Requests, x # r
      PROVE  /\ status'[x] = status[x] /\ prevLock'[x] = prevLock[x] /\ mutexOf'[x] = mutexOf[x]
             /\ InLine(x) <=> InLine(x)'
  BY <1>1, <1>3, <1>6 DEF InLine
<1>7. ASSUME NEW n \in Mutexes PROVE Chain(n)' /\ NoRepeats(n)'
  <2>1. CASE n # m
    <3>1. locks'[n] = locks[n] /\ NoRepeats(n)
      BY <1>2, <2>1 DEF QueueInv
    <3>2. ASSUME NEW i \in 1 .. Len(locks[n]) PROVE Linked(n, i)'
      <4>1. PICK x \in Requests : x = locks[n][i] /\ x # r
        BY <1>5, <2>1
      <4>2. Linked(n, i)
        BY <1>5, <2>1
      <4> QED
        BY <1>4, <1>6, <3>1, <4>1, <4>2 DEF Linked
    <3> QED
      BY <3>1, <3>2 DEF Chain, NoRepeats
  <2>2. CASE n = m
    <3>1. ASSUME NEW i \in 1 .. Len(locks'[m]) PROVE Linked(m, i)'
      <4>1. i + 1 \in 1 .. Len(locks[m]) /\ locks'[m][i] = locks[m][i + 1]
        BY <1>2, <3>1
      <4>2. PICK x \in Requests : x = locks[m][i + 1] /\ x # r /\ Linked(m, i + 1)
        BY <1>5, <4>1
      <4>3. /\ mutexOf'[x] = m /\ InLine(x)'
            /\ status'[x] = "waiting" /\ prevLock'[x] = locks[m][i]
        BY <1>2, <1>6, <4>1, <4>2 DEF Linked
      <4>4. CASE i = 1
        BY <1>4, <4>1, <4>2, <4>3, <4>4 DEF Linked
      <4>5. CASE i > 1
        <5>1. locks'[m][i - 1] = locks[m][i]
          <6>1. i - 1 \in 1 .. Len(locks'[m]) /\ (i - 1) + 1 = i
            BY <1>2, <3>1, <4>5
          <6> QED
            BY <1>2, <6>1
        <5> QED
          BY <4>1, <4>2, <4>3, <4>5, <5>1 DEF Linked
      <4> QED
        BY <4>4, <4>5
    <3>2. NoRepeats(m)'
      <4> SUFFICES ASSUME NEW i \in 1 .. Len(locks'[m]), NEW j \in 1 .. Len(locks'[m]),
                          locks'[m][i] = locks'[m][j]
                   PROVE  i = j
        BY DEF NoRepeats
      <4>1. /\ i + 1 \in 1 .. Len(locks[m]) /\ j + 1 \in 1 .. Len(locks[m])
            /\ locks[m][i + 1] = locks[m][j + 1]
        BY <1>2
      <4>2. i + 1 = j + 1
        BY <4>1 DEF QueueInv, NoRepeats
      <4> QED
        BY <4>2
    <3> QED
      BY <2>2, <3>1, <3>2 DEF Chain
  <2> QED
    BY <2>1, <2>2
<1>8. ASSUME NEW x \in Requests PROVE Queued(x)'
  <2> SUFFICES ASSUME InLine(x)' PROVE Queued(x)'
    BY DEF Queued
  <2>1. x # r
    BY <1>3 DEF InLine
  <2>2. InLine(x)
    BY <1>6, <2>1
  <2>3. PICK i \in 1 .. Len(locks[mutexOf[x]]) :
          mutexOf[x] \in Mutexes /\ locks[mutexOf[x]][i] = x
    BY <2>2, PlaceInQueue
  <2>4. CASE mutexOf[x] # m
    BY <1>1, <1>2, <2>3, <2>4 DEF Queued
  <2>5. CASE mutexOf[x] = m
    <3>1. i # 1 /\ i - 1 \in 1 .. Len(locks'[m])
      BY <1>2, <2>1, <2>3, <2>5
    <3>2. locks'[m][i - 1] = x
      <4>1. (i - 1) + 1 = i /\ locks[m][i] = x
        BY <2>3, <2>5
      <4>2. locks'[m][i - 1] = locks[m][(i - 1) + 1]
        BY <1>2, <3>1
      <4> QED
        BY <4>1, <4>2
    <3> QED
      BY <1>1, <2>3, <2>5, <3>1, <3>2 DEF Queued
  <2> QED
    BY <2>4, <2>5
<1>9. \A n \in Mutexes : locks'[n] # <<>> => lockObject'[n] # None
  BY <1>1, <1>2 DEF QueueInv
<1> QED
  BY <1>1, <1>7, <1>8, <1>9 DEF QueueInv, NeverMarked

(* A step that leaves the queues, their links and their requests alone.      *)
LEMMA OtherStepsKeepQueueInv ==
  ASSUME QueueInv, UNCHANGED <<locks, mutexOf, prevLock, status, disposed>>,
         \A m \in Mutexes : lockObject[m] # None => lockObject'[m] # None
  PROVE  QueueInv'
BY DEF QueueInv, Chain, Linked, InLine, IsReleased, NoRepeats, Queued, NeverMarked

-------------------------------------------------------------------------------
(* The links between the locks, the statuses of the requests and the queues  *)
(* never disagree: no request is lost, none is in a queue twice, and each    *)
(* waits for the one before it.                                              *)
THEOREM QueueInvariant == Spec => []QueueInv
<1>1. Init => QueueInv
  BY DEF Init, QueueInv, Chain, NoRepeats, Queued, InLine, NeverMarked
<1>2. TypeOK /\ QueueInv /\ [Next]_vars => QueueInv'
  <2> SUFFICES ASSUME TypeOK, QueueInv, [Next]_vars PROVE QueueInv'
    OBVIOUS
  <2>1. ASSUME NEW o \in Objects, NEW m \in Mutexes, For(o, m) PROVE QueueInv'
    <3>1. \A n \in Mutexes : lockObject[n] # None => lockObject'[n] # None
      BY <2>1, NoneAssumption DEF For, TypeOK
    <3> QED
      BY <2>1, <3>1, OtherStepsKeepQueueInv DEF For
  <2>2. ASSUME NEW m \in Mutexes, NEW r \in Requests, GetLock(m, r) PROVE QueueInv'
    BY <2>2, GetLockKeepsQueueInv
  <2>3. ASSUME NEW r \in Requests, Grant(r) PROVE QueueInv'
    <3>1. /\ mutexOf[r] \in Mutexes
          /\ locks[mutexOf[r]] # <<>>
          /\ locks[mutexOf[r]][1] = r
      BY <2>3, ReleasedPrevFirst DEF Grant
    <3>2. status' = [status EXCEPT ![r] = "held"]
      BY <2>3, <3>1 DEF Grant, Resolved, QueueInv, NeverMarked
    <3> QED
      BY <2>3, <3>1, <3>2, FirstChangesStatus DEF Grant
  <2>4. ASSUME NEW r \in Requests, Release(r) PROVE QueueInv'
    BY <2>4, ReleaseKeepsQueueInv
  <2>5. ASSUME NEW r \in Requests, Abandon(r) PROVE QueueInv'
    BY <2>5, HolderFirst, FirstChangesStatus DEF Abandon
  <2>6. ASSUME NEW m \in Mutexes, DisposeMutex(m) PROVE QueueInv'
    BY <2>6, OtherStepsKeepQueueInv DEF DisposeMutex
  <2>7. ASSUME NEW m \in Mutexes, FinishDispose(m) PROVE QueueInv'
    <3>1. UNCHANGED disposed
      BY <2>7 DEF FinishDispose, IsDisposable, TypeOK
    <3> QED
      BY <2>7, <3>1, OtherStepsKeepQueueInv DEF FinishDispose
  <2>8. ASSUME NEW o \in Objects, MarkDisposing(o) PROVE QueueInv'
    BY <2>8, OtherStepsKeepQueueInv DEF MarkDisposing
  <2>9. ASSUME NEW o \in Objects, RemapObject(o) PROVE QueueInv'
    BY <2>9, OtherStepsKeepQueueInv DEF RemapObject
  <2>10. CASE UNCHANGED vars
    BY <2>10, OtherStepsKeepQueueInv DEF vars
  <2> QED
    BY <2>1, <2>2, <2>3, <2>4, <2>5, <2>6, <2>7, <2>8, <2>9, <2>10 DEF Next
<1> QED
  BY <1>1, <1>2, TypeCorrect, PTL DEF Spec

(* The assertion 'should not happen!' in dispose() of a lock never fails.    *)
THEOREM HolderIsFirstAlways == Spec => []HolderIsFirst
<1>1. TypeOK /\ QueueInv => HolderIsFirst
  BY HolderFirst DEF HolderIsFirst
<1> QED
  BY <1>1, TypeCorrect, QueueInvariant, PTL

-------------------------------------------------------------------------------
(* MUTEXES names the only mutex of an object none of whose mutexes was       *)
(* disposed.                                                                 *)
Registered ==
    \A m \in Mutexes :
        lockObject[m] # None /\ ~SomeMutexDisposed(lockObject[m]) =>
            mutexes[lockObject[m]] = m

LEMMA RegisteredInvariant == Spec => []Registered
<1>1. Init => Registered
  BY DEF Init, Registered
<1>2. TypeOK /\ Registered /\ [Next]_vars => Registered'
  <2> SUFFICES ASSUME TypeOK, Registered, [Next]_vars PROVE Registered'
    OBVIOUS
  <2>1. ASSUME NEW o \in Objects, NEW m \in Mutexes, For(o, m) PROVE Registered'
    <3>1. /\ mutexes[o] = None /\ lockObject[m] = None /\ o # None
          /\ mutexes' = [mutexes EXCEPT ![o] = m]
          /\ lockObject' = [lockObject EXCEPT ![m] = o]
          /\ UNCHANGED disposal
      BY <2>1, NoneAssumption DEF For
    <3>2. ASSUME NEW n \in Mutexes, n # m, lockObject[n] # None,
                 ~SomeMutexDisposed(lockObject[n])'
          PROVE  lockObject[n] # o /\ mutexes[lockObject[n]] = n
      <4>1. ~SomeMutexDisposed(lockObject[n])
        BY <3>1, <3>2 DEF SomeMutexDisposed, TypeOK
      <4>2. mutexes[lockObject[n]] = n
        BY <3>2, <4>1 DEF Registered
      <4> QED
        BY <3>1, <4>2, NoneAssumption
    <3>3. ASSUME NEW n \in Mutexes, lockObject'[n] # None,
                 ~SomeMutexDisposed(lockObject[n])'
          PROVE  mutexes'[lockObject'[n]] = n
      <4>1. CASE n = m
        BY <3>1, <4>1 DEF TypeOK
      <4>2. CASE n # m
        <5>1. lockObject'[n] = lockObject[n]
          BY <3>1, <4>2 DEF TypeOK
        <5> QED
          BY <3>1, <3>2, <3>3, <4>2, <5>1 DEF TypeOK
      <4> QED
        BY <4>1, <4>2
    <3> QED
      BY <3>3 DEF Registered
  <2>2. ASSUME NEW m \in Mutexes, DisposeMutex(m) PROVE Registered'
    <3>1. /\ UNCHANGED lockObject
          /\ mutexes' = [mutexes EXCEPT ![lockObject[m]] = None]
          /\ disposal' = [disposal EXCEPT ![m] = "awaiting"]
      BY <2>2 DEF DisposeMutex
    <3>2. ASSUME NEW n \in Mutexes, lockObject[n] # None,
                 ~SomeMutexDisposed(lockObject[n])'
          PROVE  mutexes'[lockObject[n]] = n
      <4>1. /\ lockObject[n] # lockObject[m]
            /\ ~SomeMutexDisposed(lockObject[n])
        BY <3>1, <3>2 DEF SomeMutexDisposed, TypeOK
      <4> QED
        BY <3>1, <3>2, <4>1 DEF Registered, TypeOK
    <3> QED
      BY <3>1, <3>2 DEF Registered
  <2>3. ASSUME NEW m \in Mutexes, FinishDispose(m) PROVE Registered'
    <3>1. UNCHANGED <<mutexes, lockObject>> /\ disposal' = [disposal EXCEPT ![m] = "done"]
          /\ disposal[m] = "awaiting"
      BY <2>3 DEF FinishDispose
    <3> QED
      BY <3>1 DEF Registered, SomeMutexDisposed, TypeOK
  <2>4. CASE UNCHANGED <<mutexes, lockObject, disposal>>
    BY <2>4 DEF Registered, SomeMutexDisposed
  <2> QED
    BY <2>1, <2>2, <2>3, <2>4
       DEF Next, GetLock, Grant, Release, Abandon, MarkDisposing, RemapObject, vars
<1> QED
  BY <1>1, <1>2, TypeCorrect, PTL DEF Spec

(* At most one lock of an object is held until one of its mutexes is         *)
(* disposed, however many callers ask AsyncMutex.for(o).                     *)
THEOREM ObjectExclusionAlways == Spec => []ObjectExclusion
<1>1. TypeOK /\ QueueInv /\ Registered => ObjectExclusion
  <2> SUFFICES ASSUME TypeOK, QueueInv, Registered,
                      NEW r1 \in Requests, NEW r2 \in Requests,
                      status[r1] = "held", status[r2] = "held",
                      lockObject[mutexOf[r1]] = lockObject[mutexOf[r2]],
                      ~SomeMutexDisposed(lockObject[mutexOf[r1]])
               PROVE  r1 = r2
    BY DEF ObjectExclusion
  <2>1. /\ mutexOf[r1] \in Mutexes /\ locks[mutexOf[r1]] # <<>> /\ locks[mutexOf[r1]][1] = r1
        /\ mutexOf[r2] \in Mutexes /\ locks[mutexOf[r2]] # <<>> /\ locks[mutexOf[r2]][1] = r2
    BY HolderFirst
  <2>2. mutexOf[r1] = mutexOf[r2]
    BY <2>1 DEF Registered, QueueInv
  <2> QED
    BY <2>1, <2>2
<1> QED
  BY <1>1, TypeCorrect, QueueInvariant, RegisteredInvariant, PTL

-------------------------------------------------------------------------------
(* AsyncMutex implements the first-in-first-out lock: each of its steps is a *)
(* step of FifoLock or leaves the queues and the holders alone.              *)
THEOREM AsyncMutexImplementsFifoLock == Spec => ImplementsFifoLock
<1> USE DEF holding
<1>1. Init => Lock!Init
  BY DEF Init, Lock!Init
<1>2. TypeOK /\ QueueInv /\ [Next]_vars => [Lock!Next]_(Lock!vars)
  <2> SUFFICES ASSUME TypeOK, QueueInv, [Next]_vars
               PROVE  Lock!Next \/ UNCHANGED Lock!vars
    OBVIOUS
  <2>1. ASSUME NEW m \in Mutexes, NEW r \in Requests, GetLock(m, r)
        PROVE  Lock!Request(m, r)
    <3>1. /\ status[r] = "new"
          /\ mutexOf' = [mutexOf EXCEPT ![r] = m]
          /\ locks' = [locks EXCEPT ![m] = Append(@, r)]
      BY <2>1, Zenon DEF GetLock
    <3>2. status' = [status EXCEPT ![r] = IF locks[m] = <<>> THEN "held" ELSE "waiting"]
      BY <2>1 DEF GetLock, Resolved, QueueInv, NeverMarked
    <3>3. \A i \in DOMAIN locks[m] : locks[m][i] # r
      <4>1. \A i \in 1 .. Len(locks[m]) : InLine(locks[m][i])
        BY DEF QueueInv, Chain, Linked
      <4>2. DOMAIN locks[m] = 1 .. Len(locks[m])
        BY DEF TypeOK
      <4> QED
        BY <3>1, <4>1, <4>2 DEF InLine
    <3>4. locks[m] = <<>> => holding[m] = {}
      BY HolderFirst
    <3>5. ASSUME NEW n \in Mutexes, NEW x \in Requests
          PROVE  x \in holding'[n] <=> IF n = m /\ locks[m] = <<>> THEN x = r ELSE x \in holding[n]
      BY <3>1, <3>2, <3>4 DEF TypeOK
    <3>6. holding' = [holding EXCEPT ![m] = IF locks[m] = <<>> THEN {r} ELSE @]
      <4>1. ASSUME NEW n \in Mutexes
            PROVE  holding'[n] = IF n = m /\ locks[m] = <<>> THEN {r} ELSE holding[n]
        BY <3>5
      <4> QED
        BY <4>1, Zenon
    <3> QED
      BY <3>1, <3>3, <3>6 DEF Lock!Request
  <2>2. ASSUME NEW r \in Requests, Grant(r)
        PROVE  \E m \in Mutexes : Lock!Acquire(m)
    <3> PICK m \in Mutexes : /\ m = mutexOf[r] /\ locks[m] # <<>>
                             /\ locks[m][1] = r /\ Head(locks[m]) = r
      BY <2>2, ReleasedPrevFirst DEF Grant
    <3>1. status[r] = "waiting" /\ status' = [status EXCEPT ![r] = "held"]
      BY <2>2 DEF Grant, Resolved, QueueInv, NeverMarked
    <3>2. UNCHANGED <<mutexOf, locks>>
      BY <2>2 DEF Grant
    <3>3. holding[m] = {}
      BY <3>1, HolderFirst
    <3>4. ASSUME NEW n \in Mutexes, NEW x \in Requests
          PROVE  x \in holding'[n] <=> IF n = m THEN x = r ELSE x \in holding[n]
      BY <3>1, <3>2, <3>3 DEF TypeOK
    <3>5. holding' = [holding EXCEPT ![m] = {Head(locks[m])}]
      <4>1. ASSUME NEW n \in Mutexes
            PROVE  holding'[n] = IF n = m THEN {Head(locks[m])} ELSE holding[n]
        BY <3>4
      <4> QED
        BY <4>1, Zenon
    <3> QED
      BY <3>2, <3>3, <3>5 DEF Lock!Acquire
  <2>3. ASSUME NEW r \in Requests, Release(r)
        PROVE  \E m \in Mutexes : Lock!Release(m)
    <3> PICK m \in Mutexes : /\ m = mutexOf[r] /\ locks[m] # <<>>
                             /\ locks[m][1] = r /\ Head(locks[m]) = r
      BY <2>3, HolderFirst DEF Release
    <3>1. /\ status[r] = "held"
          /\ status' = [status EXCEPT ![r] = "released"]
          /\ locks' = [locks EXCEPT ![m] = Tail(@)]
          /\ UNCHANGED mutexOf
      BY <2>3 DEF Release
    <3>2. ASSUME NEW x \in Requests PROVE x \in holding[m] <=> x = r
      BY <3>1, HolderFirst
    <3>3. holding[m] = {Head(locks[m])}
      BY <3>2
    <3>4. ASSUME NEW n \in Mutexes, NEW x \in Requests
          PROVE  x \in holding'[n] <=> n # m /\ x \in holding[n]
      BY <3>1, <3>2 DEF TypeOK
    <3>5. holding' = [holding EXCEPT ![m] = {}]
      <4>1. ASSUME NEW n \in Mutexes
            PROVE  holding'[n] = IF n = m THEN {} ELSE holding[n]
        BY <3>4
      <4> QED
        BY <4>1, Zenon
    <3> QED
      BY <3>1, <3>3, <3>5 DEF Lock!Release
  <2>4. ASSUME NEW r \in Requests, Abandon(r) PROVE UNCHANGED Lock!vars
    <3>1. /\ status[r] = "held"
          /\ status' = [status EXCEPT ![r] = "abandoned"]
          /\ UNCHANGED <<locks, mutexOf>>
      BY <2>4 DEF Abandon
    <3>2. ASSUME NEW n \in Mutexes, NEW x \in Requests
          PROVE  x \in holding'[n] <=> x \in holding[n]
      BY <3>1 DEF TypeOK
    <3> QED
      BY <3>1, <3>2 DEF Lock!vars
  <2>5. CASE UNCHANGED <<locks, mutexOf, status>>
    BY <2>5 DEF Lock!vars
  <2> QED
    BY <2>1, <2>2, <2>3, <2>4, <2>5
       DEF Next, Lock!Next, For, DisposeMutex, FinishDispose, MarkDisposing, RemapObject, vars
<1> QED
  BY <1>1, <1>2, TypeCorrect, QueueInvariant, PTL DEF Spec, Lock!Spec, ImplementsFifoLock
===============================================================================
