-------------------------- MODULE ApplicationInitProofs --------------------------
(*****************************************************************************)
(* Proofs about ApplicationInit for any calls of run(), any scanners and any *)
(* callbacks: its types, one entry point, run when the application is ready, *)
(* no log entry lost, and every root injector disposed.                      *)
(*****************************************************************************)
EXTENDS ApplicationInit, TLAPS, SequenceTheorems, FiniteSetTheorems

LEMMA TypeInit == Init => TypeOK
<1> SUFFICES ASSUME Init PROVE TypeOK OBVIOUS
<1>1. pc \in [Runs -> Stages] BY DEF Init, Stages
<1>2. <<>> \in Seq(Entries) BY EmptySeq
<1> QED BY <1>1, <1>2 DEF Init, TypeOK

LEMMA RunEntries ==
    ASSUME NEW r \in Runs
    PROVE  /\ <<<<r, "Start">>>> \in Seq(Entries)
           /\ <<<<r, "Start">>, <<r, "PreInit">>>> \in Seq(Entries)
<1> DEFINE a == <<r, "Start">>
           b == <<r, "PreInit">>
<1>1. a \in Entries /\ b \in Entries BY DEF Entries
<1> HIDE DEF a, b
<1>2. <<a>> \in Seq(Entries) /\ <<a, b>> \in Seq(Entries) BY <1>1
<1> QED BY <1>2 DEF a, b

LEMMA LogTypes ==
    ASSUME TypeOK, NEW entries \in Seq(Entries), Log(entries)
    PROVE  /\ queue' \in Seq(Entries) /\ seen' \in Seq(Entries) /\ logged' \in Seq(Entries)
<1>1. /\ logged \o entries \in Seq(Entries) /\ queue \o entries \in Seq(Entries)
      /\ seen \o entries \in Seq(Entries)
  BY ConcatProperties DEF TypeOK
<1> QED BY <1>1 DEF TypeOK, Log, Deliver

LEMMA FlushTypes ==
    ASSUME TypeOK, NEW r \in Runs, InitApplication(r)
    PROVE  /\ queue' \in Seq(Entries) /\ seen' \in Seq(Entries) /\ logged' \in Seq(Entries)
<1> DEFINE e == <<r, "initializing">>
<1>0. e \in Entries BY DEF Entries
<1> HIDE DEF e
<1>1. e \in Entries /\ <<e>> \in Seq(Entries) BY <1>0
<1>2. /\ logged' = Append(logged, e)
      /\ IF hasStream
         THEN Deliver(injector[r], queue \o <<e>>) /\ queue' = <<>>
         ELSE queue' = Append(queue, e) /\ UNCHANGED seen
  BY DEF InitApplication, Flushed, e
<1>3. queue \o <<e>> \in Seq(Entries) BY <1>1, ConcatProperties DEF TypeOK
<1>4. seen \o (queue \o <<e>>) \in Seq(Entries) BY <1>3, ConcatProperties DEF TypeOK
<1>5. Append(logged, e) \in Seq(Entries) /\ Append(queue, e) \in Seq(Entries)
  BY <1>1, AppendProperties DEF TypeOK
<1>6. <<>> \in Seq(Entries) BY EmptySeq
<1>7. seen' \in Seq(Entries) BY <1>2, <1>4 DEF TypeOK, Deliver
<1> QED BY <1>2, <1>5, <1>6, <1>7 DEF TypeOK

LEMMA RunTypes ==
    ASSUME TypeOK, NEW r \in Runs, Run(r)
    PROVE  TypeOK'
<1>1. /\ <<<<r, "Start">>>> \in Seq(Entries)
      /\ <<<<r, "Start">>, <<r, "PreInit">>>> \in Seq(Entries)
  BY RunEntries
<1>2. queue' \in Seq(Entries) /\ seen' \in Seq(Entries) /\ logged' \in Seq(Entries)
  BY <1>1, LogTypes DEF Run
<1>3. raced' \in BOOLEAN BY DEF Run
<1>4. pc' \in [Runs -> Stages] BY DEF Run, TypeOK, Goto, Stages
<1>5. injector' \in [Runs -> Runs \cup {None}] BY DEF Run, TypeOK
<1> QED BY <1>2, <1>3, <1>4, <1>5 DEF Run, TypeOK, hostVars

LEMMA TypeStep == TypeOK /\ [Next]_vars => TypeOK'
<1> SUFFICES ASSUME TypeOK, [Next]_vars PROVE TypeOK' OBVIOUS
<1>1. ASSUME NEW r \in Runs, Run(r) PROVE TypeOK' BY <1>1, RunTypes
<1>2. ASSUME NEW r \in Runs, MakeRoot(r) PROVE TypeOK'
  BY <1>2 DEF TypeOK, MakeRoot, DisposesToo, Goto, Stages, logVars
<1>3. ASSUME NEW r \in Runs, InitRoot(r) PROVE TypeOK'
  BY <1>3 DEF TypeOK, InitRoot, Goto, Stages, logVars
<1>4. ASSUME NEW r \in Runs, ConfigInternal(r) PROVE TypeOK'
  BY <1>4 DEF TypeOK, ConfigInternal, Usable, Goto, Stages, hostVars
<1>5. ASSUME NEW r \in Runs, InitApplication(r) PROVE TypeOK'
  <2>1. queue' \in Seq(Entries) /\ seen' \in Seq(Entries) /\ logged' \in Seq(Entries)
    BY <1>5, FlushTypes
  <2>2. logger' \in Runs \cup {None} BY <1>5 DEF TypeOK, InitApplication, Usable
  <2>3. pc' \in [Runs -> Stages] /\ scanning' \in [Runs -> SUBSET Scanners]
    BY <1>5 DEF TypeOK, InitApplication, Goto, Stages
  <2>4. UNCHANGED <<injector, root, configuring, raced, entered, hostVars, hasStream, subscribed>>
    BY <1>5 DEF InitApplication
  <2> QED BY <2>1, <2>2, <2>3, <2>4 DEF TypeOK, hostVars
<1>6. ASSUME NEW r \in Runs, FlushFails(r) \/ Configured(r) \/ EntryPointEnds(r) \/ StepFails(r)
      PROVE  TypeOK'
  <2>1. CASE Configured(r)
    BY <2>1 DEF TypeOK, Configured, Goto, Stages, logVars, hostVars
  <2>2. CASE EntryPointEnds(r)
    BY <2>2 DEF TypeOK, EntryPointEnds, Goto, Stages, logVars, hostVars
  <2>3. CASE FlushFails(r) \/ StepFails(r)
    BY <2>3 DEF TypeOK, FlushFails, StepFails, Goto, Stages, logVars, hostVars
  <2> QED BY <1>6, <2>1, <2>2, <2>3
<1>7. ASSUME NEW r \in Runs, Scanned(r) PROVE TypeOK'
  BY <1>7 DEF TypeOK, Scanned, ScanDone, Goto, Stages, logVars
<1>8. ASSUME NEW r \in Runs, Bootstrap(r) PROVE TypeOK'
  BY <1>8 DEF TypeOK, Bootstrap, Goto, Stages, logVars, hostVars
<1>9. ASSUME NEW r \in Runs, RootDisposed(r) PROVE TypeOK'
  BY <1>9 DEF TypeOK, RootDisposed, logVars, hostVars
<1>10. ASSUME NEW r \in Runs, NEW s \in Scanners, ScannerEnds(r, s) PROVE TypeOK'
  BY <1>10 DEF TypeOK, ScannerEnds, Usable, logVars
<1>11. ASSUME NEW r \in Runs, NEW s \in Scanners, ScannerFails(r, s) PROVE TypeOK'
  BY <1>11 DEF TypeOK, ScannerFails, Goto, Stages, logVars, hostVars
<1>12. ASSUME NEW r \in Runs, NEW c \in Configs, ConfigSettles(r, c) PROVE TypeOK'
  BY <1>12 DEF TypeOK, ConfigSettles, ConfigEnds, ConfigFails, Goto, Stages, logVars, hostVars
<1>13. ASSUME Dispose PROVE TypeOK'
  BY <1>13 DEF TypeOK, Dispose, logVars
<1>14. ASSUME UNCHANGED vars PROVE TypeOK'
  BY <1>14 DEF TypeOK, vars, hostVars, logVars
<1> QED
  BY <1>1, <1>2, <1>3, <1>4, <1>5, <1>6, <1>7, <1>8, <1>9, <1>10, <1>11, <1>12, <1>13, <1>14
  DEF Next, Step, ScannerSettles

(* The types, for any calls, scanners and callbacks.                         *)
THEOREM TypeCorrect == Spec => []TypeOK
BY TypeInit, TypeStep, PTL DEF Spec

-------------------------------------------------------------------------------
Early == {"makeRoot", "initRoot", "configInternal", "init", "scan", "config", "bootstrap"}

(* Unless calls have overlapped, one run at most is under way, and none that *)
(* has not reached its entry point once another one has.                     *)
OrderInv ==
    /\ \A r \in Runs : pc[r] \in {"config", "bootstrap", "entryPoint"} => started
    /\ entered # {} => started
    /\ ~raced =>
        /\ \A q, r \in Runs : UnderWay(q) /\ UnderWay(r) => q = r
        /\ \A q \in entered, r \in Runs : pc[r] \notin Early
        /\ \A q, r \in entered : q = r

LEMMA OrderInit == Init => OrderInv
<1> SUFFICES ASSUME Init PROVE OrderInv OBVIOUS
<1>1. entered = {} /\ \A r \in Runs : pc[r] = "new" BY DEF Init
<1> QED BY <1>1 DEF OrderInv, UnderWay, Early

LEMMA OrderStep == TypeOK /\ OrderInv /\ [Next]_vars => OrderInv'
<1> SUFFICES ASSUME TypeOK, OrderInv, [Next]_vars PROVE OrderInv' OBVIOUS
<1> USE DEF TypeOK, OrderInv, Early, UnderWay, Goto
<1>1. ASSUME NEW r \in Runs, Run(r) PROVE OrderInv'
  <2>1. UNCHANGED <<started, entered>> /\ pc[r] = "new" BY <1>1 DEF Run, hostVars
  <2>2. raced' = (raced \/ (~started /\ \E q \in Runs : UnderWay(q))) BY <1>1 DEF Run
  <2>3. CASE started
    <3>1. pc' = [pc EXCEPT ![r] = "failed"] BY <1>1, <2>3 DEF Run, RefusesRun
    <3>2. raced' = raced BY <2>2, <2>3
    <3> QED BY <2>1, <2>3, <3>1, <3>2
  <2>4. CASE ~started
    <3>1. \E stage \in {"init", "makeRoot"} : pc' = [pc EXCEPT ![r] = stage]
      BY <1>1, <2>4 DEF Run, RefusesRun
    <3>2. ~raced' => ~raced /\ \A q \in Runs : ~UnderWay(q) BY <2>2, <2>4
    <3>3. entered = {} BY <2>4
    <3> QED BY <2>1, <2>4, <3>1, <3>2, <3>3
  <2> QED BY <2>3, <2>4
<1>2. ASSUME NEW r \in Runs, MakeRoot(r) \/ InitRoot(r) \/ ConfigInternal(r) PROVE OrderInv'
  BY <1>2 DEF MakeRoot, InitRoot, ConfigInternal, hostVars
<1>3. ASSUME NEW r \in Runs, InitApplication(r) PROVE OrderInv'
  BY <1>3 DEF InitApplication, hostVars
<1>4. ASSUME NEW r \in Runs, FlushFails(r) \/ Configured(r) \/ EntryPointEnds(r) \/ StepFails(r)
      PROVE  OrderInv'
  BY <1>4 DEF FlushFails, Configured, EntryPointEnds, StepFails, hostVars
<1>5. ASSUME NEW r \in Runs, Scanned(r) PROVE OrderInv'
  BY <1>5 DEF Scanned, ScanDone
<1>6. ASSUME NEW r \in Runs, Bootstrap(r) PROVE OrderInv'
  BY <1>6 DEF Bootstrap, hostVars
<1>7. ASSUME NEW r \in Runs, RootDisposed(r) PROVE OrderInv'
  BY <1>7 DEF RootDisposed, hostVars
<1>8. ASSUME NEW r \in Runs, NEW s \in Scanners, ScannerSettles(r, s) PROVE OrderInv'
  BY <1>8 DEF ScannerSettles, ScannerEnds, ScannerFails, hostVars
<1>9. ASSUME NEW r \in Runs, NEW c \in Configs, ConfigSettles(r, c) PROVE OrderInv'
  BY <1>9 DEF ConfigSettles, ConfigEnds, ConfigFails, hostVars
<1>10. ASSUME Dispose \/ UNCHANGED vars PROVE OrderInv'
  BY <1>10 DEF Dispose, vars, hostVars
<1> QED BY <1>1, <1>2, <1>3, <1>4, <1>5, <1>6, <1>7, <1>8, <1>9, <1>10 DEF Next, Step

(* The entry point runs once, unless calls of run() overlap.                 *)
THEOREM EntersOnceAlways == Spec => []EntersOnce
<1>1. Init => TypeOK /\ OrderInv BY TypeInit, OrderInit
<1>2. TypeOK /\ OrderInv /\ [Next]_vars => (TypeOK /\ OrderInv)' BY TypeStep, OrderStep
<1>3. OrderInv => EntersOnce
  <2> SUFFICES ASSUME OrderInv, ~raced PROVE Cardinality(entered) <= 1 BY DEF EntersOnce
  <2>1. CASE entered = {} BY <2>1, FS_EmptySet
  <2>2. CASE entered # {}
    <3>1. PICK r : r \in entered BY <2>2
    <3>2. entered = {r} BY <3>1 DEF OrderInv
    <3>3. Cardinality({r}) = 1 BY FS_Singleton
    <3> QED BY <3>2, <3>3
  <2> QED BY <2>1, <2>2
<1> QED BY <1>1, <1>2, <1>3, PTL DEF Spec
-------------------------------------------------------------------------------
(* From the moment a run has initialized the application it works with the   *)
(* injector that is the application's, and that has what scanners have found.*)
ReadyInv ==
    /\ \A r \in Runs : pc[r] \in {"bootstrap", "entryPoint"} => configuring[r] = {}
    /\ ~raced => \A r \in Runs :
        /\ pc[r] \in {"configInternal", "init", "scan", "config", "bootstrap", "entryPoint"} =>
               injector[r] = appInjector
        /\ pc[r] \in {"scan", "config", "bootstrap", "entryPoint"} => injector[r] \in Runs
        /\ pc[r] = "scan" => Scanners \subseteq scanned[injector[r]] \cup scanning[r]
        /\ pc[r] \in {"config", "bootstrap", "entryPoint"} => Scanners \subseteq scanned[injector[r]]

LEMMA ReadyInit == Init => ReadyInv
<1> SUFFICES ASSUME Init PROVE ReadyInv OBVIOUS
<1>1. \A r \in Runs : pc[r] = "new" BY DEF Init
<1> QED BY <1>1 DEF ReadyInv

LEMMA ReadyStep == TypeOK /\ OrderInv /\ ReadyInv /\ [Next]_vars => ReadyInv'
<1> SUFFICES ASSUME TypeOK, OrderInv, ReadyInv, [Next]_vars PROVE ReadyInv' OBVIOUS
<1> USE DEF TypeOK, ReadyInv, Goto
<1>1. ASSUME NEW r \in Runs, Run(r) PROVE ReadyInv'
  <2>1. /\ UNCHANGED <<appInjector, scanned, scanning, configuring>>
        /\ raced \in BOOLEAN /\ ~raced' => ~raced
    BY <1>1 DEF Run, hostVars
  <2>2. CASE started
    <3>1. pc' = [pc EXCEPT ![r] = "failed"] /\ UNCHANGED injector BY <1>1, <2>2 DEF Run, RefusesRun
    <3> QED BY <2>1, <3>1
  <2>3. CASE ~started /\ initialized
    <3>1. pc' = [pc EXCEPT ![r] = "init"] /\ injector' = [injector EXCEPT ![r] = appInjector]
      BY <1>1, <2>3 DEF Run, RefusesRun
    <3> QED BY <2>1, <3>1
  <2>4. CASE ~started /\ ~initialized
    <3>1. pc' = [pc EXCEPT ![r] = "makeRoot"] /\ UNCHANGED injector
      BY <1>1, <2>4 DEF Run, RefusesRun
    <3> QED BY <2>1, <3>1
  <2> QED BY <2>2, <2>3, <2>4
<1>2. ASSUME NEW r \in Runs, MakeRoot(r) \/ FlushFails(r) \/ EntryPointEnds(r) \/ StepFails(r)
      PROVE  ReadyInv'
  <2>1. UNCHANGED <<appInjector, injector, scanned, scanning, configuring, raced>>
    BY <1>2 DEF MakeRoot, FlushFails, EntryPointEnds, StepFails, hostVars
  <2>2. \E stage \in {"initRoot", "failed", "done"} : pc' = [pc EXCEPT ![r] = stage]
    BY <1>2 DEF MakeRoot, FlushFails, EntryPointEnds, StepFails
  <2> QED BY <2>1, <2>2
<1>3. ASSUME NEW r \in Runs, InitRoot(r) PROVE ReadyInv'
  <2>1. ~raced => \A q \in Runs : UnderWay(q) => q = r
    BY <1>3 DEF InitRoot, OrderInv, UnderWay
  <2> QED BY <1>3, <2>1 DEF InitRoot, UnderWay
<1>4. ASSUME NEW r \in Runs, ConfigInternal(r) PROVE ReadyInv'
  BY <1>4 DEF ConfigInternal, hostVars
<1>5. ASSUME NEW r \in Runs, InitApplication(r) PROVE ReadyInv'
  <2>1. injector[r] \in Runs BY <1>5 DEF InitApplication, Usable
  <2>2. /\ UNCHANGED <<appInjector, injector, scanned, configuring, raced>>
        /\ pc' = [pc EXCEPT ![r] = "scan"] /\ scanning' = [scanning EXCEPT ![r] = Scanners]
        /\ pc[r] = "init"
    BY <1>5 DEF InitApplication, hostVars
  <2> QED BY <2>1, <2>2
<1>6. ASSUME NEW r \in Runs, Scanned(r) PROVE ReadyInv'
  <2>1. /\ pc[r] = "scan" /\ scanning[r] = {}
        /\ UNCHANGED <<appInjector, scanned, scanning, raced>>
        /\ injector' = [injector EXCEPT ![r] = appInjector]
    BY <1>6 DEF Scanned, ScanDone
  <2>2. \/ pc' = [pc EXCEPT ![r] = "config"] /\ configuring' = [configuring EXCEPT ![r] = Configs]
        \/ pc' = [pc EXCEPT ![r] = "failed"] /\ UNCHANGED configuring
    BY <1>6 DEF Scanned
  <2> QED BY <2>1, <2>2
<1>7. ASSUME NEW r \in Runs, Configured(r) PROVE ReadyInv'
  BY <1>7 DEF Configured, hostVars
<1>8. ASSUME NEW r \in Runs, Bootstrap(r) PROVE ReadyInv'
  BY <1>8 DEF Bootstrap, hostVars
<1>9. ASSUME NEW r \in Runs, NEW s \in Scanners, ScannerEnds(r, s) PROVE ReadyInv'
  BY <1>9 DEF ScannerEnds, Usable
<1>10. ASSUME NEW r \in Runs, NEW s \in Scanners, ScannerFails(r, s) PROVE ReadyInv'
  BY <1>10 DEF ScannerFails, hostVars
<1>11. ASSUME NEW r \in Runs, NEW c \in Configs, ConfigSettles(r, c) PROVE ReadyInv'
  <2>1. /\ UNCHANGED <<appInjector, injector, scanned, scanning, raced>>
        /\ configuring' = [configuring EXCEPT ![r] = @ \ {c}]
        /\ pc' = pc \/ pc' = [pc EXCEPT ![r] = "failed"]
    BY <1>11 DEF ConfigSettles, ConfigEnds, ConfigFails, hostVars
  <2>2. \A q \in Runs : pc'[q] = pc[q] \/ pc'[q] = "failed" BY <2>1
  <2>3. \A q \in Runs : configuring'[q] \subseteq configuring[q] BY <2>1
  <2> QED BY <2>1, <2>2, <2>3
<1>12. ASSUME Dispose \/ UNCHANGED vars \/ \E r \in Runs : RootDisposed(r) PROVE ReadyInv'
  BY <1>12 DEF Dispose, RootDisposed, vars, hostVars
<1> QED BY <1>1, <1>2, <1>3, <1>4, <1>5, <1>6, <1>7, <1>8, <1>9, <1>10, <1>11, <1>12
        DEF Next, Step, ScannerSettles

(* The application is ready when an entry point runs, unless calls overlap.  *)
THEOREM ReadyToEnterAlways == Spec => []ReadyToEnter
<1>1. Init => TypeOK /\ OrderInv /\ ReadyInv BY TypeInit, OrderInit, ReadyInit
<1>2. TypeOK /\ OrderInv /\ ReadyInv /\ [Next]_vars => (TypeOK /\ OrderInv /\ ReadyInv)'
  BY TypeStep, OrderStep, ReadyStep
<1>3. TypeOK /\ ReadyInv => ReadyToEnter
  <2> SUFFICES ASSUME TypeOK, ReadyInv, ~raced, NEW r \in Runs,
                      pc[r] \in {"bootstrap", "entryPoint"}
               PROVE  scanned[injector[r]] = Scanners /\ configuring[r] = {}
    BY DEF ReadyToEnter
  <2>1. injector[r] \in Runs /\ Scanners \subseteq scanned[injector[r]] /\ configuring[r] = {}
    BY DEF ReadyInv
  <2> QED BY <2>1 DEF TypeOK
<1> QED BY <1>1, <1>2, <1>3, PTL DEF Spec
-------------------------------------------------------------------------------
(* Until the QueueingLogger is replaced all entries are in its queue; after  *)
(* that, if the calls do not overlap, all have been seen, unless nobody has  *)
(* subscribed to the stream of the application.                              *)
LogInv ==
    /\ ~hasStream => logger = None
    /\ logger = None => seen = <<>> /\ queue = logged
    /\ appInjector # None => initialized
    /\ ~raced =>
        /\ logger # None => appInjector # None
        /\ \A r \in Runs : pc[r] \in {"makeRoot", "initRoot"} => ~initialized
        /\ \A r \in Runs : pc[r] = "configInternal" => appInjector = r /\ logger = None
        /\ hasStream /\ appInjector # None /\ appInjector \notin subscribed
               => pc[appInjector] \in {"configInternal", "failed"}
        /\ logger # None =>
               /\ logger = appInjector
               /\ appInjector \in subscribed => queue = <<>> /\ seen = logged

LEMMA LogStep == TypeOK /\ OrderInv /\ ReadyInv /\ LogInv /\ [Next]_vars => LogInv'
<1> SUFFICES ASSUME TypeOK, OrderInv, ReadyInv, LogInv, [Next]_vars PROVE LogInv' OBVIOUS
<1> USE DEF TypeOK, LogInv, Goto
<1>1. ASSUME NEW r \in Runs, Run(r) PROVE LogInv'
  <2>1. /\ UNCHANGED <<appInjector, initialized, hasStream, logger, subscribed>>
        /\ raced \in BOOLEAN /\ ~raced' => ~raced
        /\ pc[r] = "new"
    BY <1>1 DEF Run, hostVars
  <2>2. PICK entries \in Seq(Entries) : Log(entries)
    <3>1. /\ <<<<r, "Start">>>> \in Seq(Entries)
          /\ <<<<r, "Start">>, <<r, "PreInit">>>> \in Seq(Entries)
      BY RunEntries
    <3> QED BY <1>1, <3>1 DEF Run
  <2>3. logger = None => seen' = <<>> /\ queue' = logged' BY <2>2 DEF Log
  <2>4. ~raced /\ logger # None /\ appInjector \in subscribed => queue' = <<>> /\ seen' = logged'
    BY <2>2 DEF Log, Deliver
  <2>5. /\ pc' \in [Runs -> Stages]
        /\ \A q \in Runs \ {r} : pc'[q] = pc[q]
        /\ pc'[r] \in {"failed", "init"} \/ (pc'[r] = "makeRoot" /\ ~initialized)
    BY <1>1, RunTypes DEF Run
  <2>6. appInjector # None => appInjector \in Runs OBVIOUS
  <2> QED BY <2>1, <2>3, <2>4, <2>5, <2>6
<1>2. ASSUME NEW r \in Runs, MakeRoot(r) PROVE LogInv'
  BY <1>2 DEF MakeRoot, logVars
<1>3. ASSUME NEW r \in Runs, InitRoot(r) PROVE LogInv'
  <2>1. ~raced => \A q \in Runs : UnderWay(q) => q = r
    BY <1>3 DEF InitRoot, OrderInv, UnderWay
  <2>2. ~raced => logger = None BY <1>3 DEF InitRoot
  <2> QED BY <1>3, <2>1, <2>2, NoneAssumption DEF InitRoot, UnderWay, logVars
<1>4. ASSUME NEW r \in Runs, ConfigInternal(r) PROVE LogInv'
  BY <1>4 DEF ConfigInternal, ReadyInv, hostVars
<1>5. ASSUME NEW r \in Runs, InitApplication(r) PROVE LogInv'
  <2> DEFINE e == <<r, "initializing">>
  <2>1. e \in Entries BY DEF Entries
  <2> HIDE DEF e
  <2>2. /\ logged' = Append(logged, e) /\ logger = None
        /\ IF hasStream
           THEN Deliver(injector[r], queue \o <<e>>) /\ queue' = <<>> /\ logger' = injector[r]
           ELSE queue' = Append(queue, e) /\ UNCHANGED <<seen, logger>>
    BY <1>5 DEF InitApplication, Flushed, e
  <2>3. /\ UNCHANGED <<appInjector, initialized, hasStream, subscribed, raced>>
        /\ pc[r] = "init" /\ pc' = [pc EXCEPT ![r] = "scan"]
        /\ injector[r] \in Runs
    BY <1>5 DEF InitApplication, Usable, hostVars
  <2>4. seen = <<>> /\ queue = logged BY <2>2
  <2>5. <<>> \o (logged \o <<e>>) = Append(logged, e)
    <3>1. logged \o <<e>> = Append(logged, e) BY <2>1, AppendIsConcat
    <3>2. logged \o <<e>> \in Seq(Entries) BY <2>1, <3>1
    <3> QED BY <3>1, <3>2, ConcatEmptySeq
  <2>6. ~raced => injector[r] = appInjector BY <2>3 DEF ReadyInv
  <2>7. CASE ~hasStream BY <2>2, <2>3, <2>4, <2>7
  <2>8. CASE hasStream
    <3>1. ~raced /\ appInjector \in subscribed => queue' = <<>> /\ seen' = logged'
      BY <2>2, <2>4, <2>5, <2>6, <2>8 DEF Deliver
    <3>2. ~raced => \A q \in Runs : pc[q] = "configInternal" => q = r
      BY <2>3 DEF OrderInv, UnderWay
    <3>3. logger' \in Runs /\ logger' # None BY <2>2, <2>3, <2>8, NoneAssumption
    <3> QED BY <2>2, <2>3, <2>6, <2>8, <3>1, <3>2, <3>3
  <2> QED BY <2>7, <2>8
<1>6. ASSUME NEW r \in Runs, Scanned(r) PROVE LogInv'
  <2>1. UNCHANGED <<appInjector, initialized, raced, logVars>> BY <1>6 DEF Scanned
  <2>2. pc[r] = "scan" /\ \E stage \in {"failed", "config"} : pc' = [pc EXCEPT ![r] = stage]
    BY <1>6 DEF Scanned, ScanDone
  <2> QED BY <2>1, <2>2 DEF logVars
<1>7. ASSUME NEW r \in Runs,
             FlushFails(r) \/ Configured(r) \/ Bootstrap(r) \/ EntryPointEnds(r) \/ StepFails(r)
      PROVE  LogInv'
  <2>1. UNCHANGED <<appInjector, initialized, raced, logVars>>
    BY <1>7 DEF FlushFails, Configured, Bootstrap, EntryPointEnds, StepFails, hostVars
  <2>2. /\ \E stage \in {"failed", "bootstrap", "entryPoint", "done"} : pc' = [pc EXCEPT ![r] = stage]
        /\ pc[r] = "configInternal" => pc'[r] = "failed"
    BY <1>7 DEF FlushFails, Configured, Bootstrap, EntryPointEnds, StepFails
  <2>3. CASE pc[r] = "failed"
    BY <1>7, <2>3 DEF FlushFails, Configured, Bootstrap, EntryPointEnds, StepFails
  <2>4. CASE pc[r] # "failed" BY <2>1, <2>2, <2>4 DEF logVars
  <2> QED BY <2>3, <2>4
<1>8. ASSUME NEW r \in Runs, NEW s \in Scanners, ScannerSettles(r, s) PROVE LogInv'
  <2>1. UNCHANGED <<appInjector, initialized, raced, logVars>>
    BY <1>8 DEF ScannerSettles, ScannerEnds, ScannerFails, hostVars
  <2>2. pc' = pc \/ pc' = [pc EXCEPT ![r] = "failed"]
    BY <1>8 DEF ScannerSettles, ScannerEnds, ScannerFails
  <2> QED BY <2>1, <2>2 DEF logVars
<1>9. ASSUME NEW r \in Runs, NEW c \in Configs, ConfigSettles(r, c) PROVE LogInv'
  <2>1. UNCHANGED <<appInjector, initialized, raced, logVars>>
    BY <1>9 DEF ConfigSettles, ConfigEnds, ConfigFails, hostVars
  <2>2. pc' = pc \/ pc' = [pc EXCEPT ![r] = "failed"]
    BY <1>9 DEF ConfigSettles, ConfigEnds, ConfigFails
  <2> QED BY <2>1, <2>2 DEF logVars
<1>10. ASSUME Dispose \/ UNCHANGED vars \/ \E r \in Runs : RootDisposed(r) PROVE LogInv'
  BY <1>10 DEF Dispose, RootDisposed, vars, hostVars, logVars
<1> QED BY <1>1, <1>2, <1>3, <1>4, <1>5, <1>6, <1>7, <1>8, <1>9, <1>10 DEF Next, Step

(* No log entry of the host is lost, repeated or overtaken, but for the      *)
(* exceptions that LogsSeen names.                                           *)
THEOREM LogsSeenAlways == Spec => []LogsSeen
<1>1. Init => TypeOK /\ OrderInv /\ ReadyInv /\ LogInv
  <2>1. ASSUME Init PROVE LogInv
    <3>1. \A r \in Runs : pc[r] = "new" BY <2>1 DEF Init
    <3> QED BY <2>1, <3>1 DEF Init, LogInv
  <2> QED BY <2>1, TypeInit, OrderInit, ReadyInit
<1>2. TypeOK /\ OrderInv /\ ReadyInv /\ LogInv /\ [Next]_vars
      => (TypeOK /\ OrderInv /\ ReadyInv /\ LogInv)'
  BY TypeStep, OrderStep, ReadyStep, LogStep
<1>3. TypeOK /\ OrderInv /\ LogInv => LogsSeen
  <2> SUFFICES ASSUME TypeOK, LogInv, ~raced,
                      ~(appInjector # None /\ pc[appInjector] = "failed"
                            /\ appInjector \notin subscribed)
               PROVE  seen \o queue = logged /\ (logger # None => queue = <<>>)
    BY DEF LogsSeen
  <2>1. CASE logger = None
    <3>1. seen = <<>> /\ queue = logged BY <2>1 DEF LogInv
    <3> QED BY <2>1, <3>1, ConcatEmptySeq DEF TypeOK
  <2>2. CASE logger # None
    <3>1. appInjector \in Runs /\ hasStream BY <2>2 DEF LogInv, TypeOK
    <3>2. pc[appInjector] # "configInternal" BY <2>2, <3>1 DEF LogInv
    <3>3. appInjector \in subscribed BY <3>1, <3>2, NoneAssumption DEF LogInv
    <3>4. queue = <<>> /\ seen = logged BY <2>2, <3>3 DEF LogInv
    <3> QED BY <3>4, ConcatEmptySeq DEF TypeOK
  <2> QED BY <2>1, <2>2
<1> QED BY <1>1, <1>2, <1>3, PTL DEF Spec

-------------------------------------------------------------------------------
(* dispose() of the host disposes every root injector that has been made,    *)
(* since each is registered with the host as soon as there is one.           *)
RootInv == \A r \in Runs : root[r] # "none" => r \in disposes

LEMMA RootStep == TypeOK /\ RootInv /\ [Next]_vars => RootInv'
<1> SUFFICES ASSUME TypeOK, RootInv, [Next]_vars PROVE RootInv' OBVIOUS
<1> USE DEF TypeOK, RootInv
<1>1. ASSUME NEW r \in Runs, MakeRoot(r) PROVE RootInv' BY <1>1 DEF MakeRoot, DisposesToo
<1>2. ASSUME NEW r \in Runs, RootDisposed(r) PROVE RootInv' BY <1>2 DEF RootDisposed, hostVars
<1>3. ASSUME Dispose PROVE RootInv' BY <1>3 DEF Dispose
<1>4. ASSUME NEW r \in Runs,
             \/ Run(r) \/ InitRoot(r) \/ ConfigInternal(r) \/ InitApplication(r)
             \/ FlushFails(r) \/ Scanned(r) \/ Configured(r) \/ Bootstrap(r)
             \/ EntryPointEnds(r) \/ StepFails(r)
      PROVE  RootInv'
  <2>1. UNCHANGED <<root, disposes>>
    BY <1>4 DEF Run, InitRoot, ConfigInternal, InitApplication, FlushFails, Scanned, Configured,
                Bootstrap, EntryPointEnds, StepFails, hostVars
  <2> QED BY <2>1
<1>5. ASSUME NEW r \in Runs,
             \/ \E s \in Scanners : ScannerSettles(r, s)
             \/ \E c \in Configs : ConfigSettles(r, c)
      PROVE  RootInv'
  <2>1. UNCHANGED <<root, disposes>>
    BY <1>5 DEF ScannerSettles, ScannerEnds, ScannerFails, ConfigSettles, ConfigEnds, ConfigFails,
                hostVars
  <2> QED BY <2>1
<1>6. ASSUME UNCHANGED vars PROVE RootInv' BY <1>6 DEF vars, hostVars
<1> QED BY <1>1, <1>2, <1>3, <1>4, <1>5, <1>6 DEF Next, Step

(* Disposal reaches the root injectors of failed and of overlapping runs.    *)
THEOREM DisposeReachesAllAlways == Spec => DisposeReachesAll
<1> DEFINE Reaches == disposing' # disposing => \A r \in Runs : root'[r] # "live"
<1>1. Init => TypeOK /\ RootInv BY TypeInit DEF Init, RootInv
<1>2. TypeOK /\ RootInv /\ [Next]_vars => (TypeOK /\ RootInv)' BY TypeStep, RootStep
<1>3. TypeOK /\ RootInv /\ [Next]_vars => [Reaches]_vars
  <2> SUFFICES ASSUME TypeOK, RootInv, Next, disposing' # disposing
               PROVE  \A r \in Runs : root'[r] # "live"
    OBVIOUS
  <2>1. Dispose
    BY DEF Next, Run, Step, MakeRoot, InitRoot, ConfigInternal, InitApplication, FlushFails,
           Scanned, Configured, Bootstrap, EntryPointEnds, StepFails, RootDisposed,
           ScannerSettles, ScannerEnds, ScannerFails, ConfigSettles, ConfigEnds, ConfigFails,
           hostVars
  <2> QED BY <2>1 DEF TypeOK, RootInv, Dispose
<1> QED BY <1>1, <1>2, <1>3, PTL DEF Spec, DisposeReachesAll
===============================================================================
