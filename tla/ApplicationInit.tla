----------------------------- MODULE ApplicationInit -----------------------------
(*****************************************************************************)
(* The start of a DandiApplication: calls of run() (or start(), which calls  *)
(* run()) on one DandiApplicationInit, and the disposal of the application.  *)
(*                                                                           *)
(* A run makes a root injector and an application injector below it          *)
(* (preInit), flushes the queue of log entries and scans for modules (init), *)
(* runs the OnConfig callbacks, and then the entry point.  A root injector,  *)
(* and the application injector below it, is named by the run that made it.  *)
(*                                                                           *)
(* A step is what runs between two awaits.  Whatever is injected or called   *)
(* may fail, and fails if its injector has been disposed.                    *)
(*****************************************************************************)
EXTENDS Naturals, Sequences, FiniteSets

CONSTANTS
    Runs,       \* the calls of run()
    Scanners,   \* the registered Scanners
    Configs,    \* the OnConfig callbacks
    None

ASSUME NoneAssumption == None \notin Runs

VARIABLES
    pc,             \* the step a run is at
    initialized,    \* DandiApplicationInit.initialized
    started,        \* DandiApplicationInit.started
    appInjector,    \* DandiApplicationInit.appInjector
    injector,       \* the injector a run was at when it last read appInjector
    root,           \* the state of a root injector
    disposes,       \* the roots that dispose() of the host disposes
    disposing,      \* the host has been disposed
    scanning,       \* the scanners of a run that have not settled
    scanned,        \* the scanners whose modules a root has registered
    configuring,    \* the OnConfig callbacks of a run that have not settled
    hasStream,      \* a LogStream is provided, as by LoggingModule
    logger,         \* this.logger: None is the QueueingLogger, otherwise the one of
                    \* an application, which writes to its LogStream
    subscribed,     \* the applications whose LogListeners are subscribed
    queue,          \* the entries of the QueueingLogger
    seen,           \* the entries that listeners have got
    logged,         \* the entries that the host has logged (history)
    raced,          \* run() was called while another run was under way and not
                    \* `started` yet (history)
    entered         \* the runs whose entry point has been run (history)

hostVars == <<initialized, started, appInjector, disposes, disposing, scanned>>
logVars == <<hasStream, logger, subscribed, queue, seen, logged>>
vars == <<pc, injector, root, scanning, configuring, raced, entered, hostVars, logVars>>

Stages == {"new", "makeRoot", "initRoot", "configInternal", "init", "scan", "config",
           "bootstrap", "entryPoint", "done", "failed"}
Entries == Runs \X {"Start", "PreInit", "initializing"}

TypeOK ==
    /\ pc \in [Runs -> Stages]
    /\ initialized \in BOOLEAN /\ started \in BOOLEAN
    /\ appInjector \in Runs \cup {None}
    /\ injector \in [Runs -> Runs \cup {None}]
    /\ root \in [Runs -> {"none", "live", "disposing", "disposed"}]
    /\ disposes \subseteq Runs /\ disposing \in BOOLEAN
    /\ scanning \in [Runs -> SUBSET Scanners]
    /\ scanned \in [Runs -> SUBSET Scanners]
    /\ configuring \in [Runs -> SUBSET Configs]
    /\ hasStream \in BOOLEAN
    /\ logger \in Runs \cup {None}
    /\ subscribed \subseteq Runs
    /\ queue \in Seq(Entries) /\ seen \in Seq(Entries) /\ logged \in Seq(Entries)
    /\ raced \in BOOLEAN
    /\ entered \subseteq Runs

Init ==
    /\ pc = [r \in Runs |-> "new"]
    /\ initialized = FALSE /\ started = FALSE
    /\ appInjector = None
    /\ injector = [r \in Runs |-> None]
    /\ root = [r \in Runs |-> "none"]
    /\ disposes = {} /\ disposing = FALSE
    /\ scanning = [r \in Runs |-> {}]
    /\ scanned = [r \in Runs |-> {}]
    /\ configuring = [r \in Runs |-> {}]
    /\ hasStream \in BOOLEAN
    /\ logger = None
    /\ subscribed = {}
    /\ queue = <<>> /\ seen = <<>> /\ logged = <<>>
    /\ raced = FALSE
    /\ entered = {}

-------------------------------------------------------------------------------
Goto(r, stage) == pc' = [pc EXCEPT ![r] = stage]

UnderWay(r) == pc[r] \notin {"new", "done", "failed"}

Usable(i) == i # None /\ root[i] # "disposed"

(* Entries for a stream that nobody has subscribed to are lost.              *)
Deliver(app, entries) == seen' = IF app \in subscribed THEN seen \o entries ELSE seen

(* The host logs to its QueueingLogger, or to the Logger that has replaced it*)
Log(entries) ==
    /\ logged' = logged \o entries
    /\ IF logger = None
       THEN queue' = queue \o entries /\ UNCHANGED seen
       ELSE Deliver(logger, entries) /\ UNCHANGED queue

RefusesRun == started

(* run() up to its first await.  preInit() returns at once if an earlier run *)
(* has initialized the application.                                          *)
Run(r) ==
    /\ pc[r] = "new"
    /\ raced' = (raced \/ (~started /\ \E q \in Runs : UnderWay(q)))
    /\ IF RefusesRun
       THEN Goto(r, "failed") /\ Log(<<<<r, "Start">>>>) /\ UNCHANGED injector
       ELSE IF initialized
            THEN /\ Goto(r, "init")
                 /\ Log(<<<<r, "Start">>>>)
                 /\ injector' = [injector EXCEPT ![r] = appInjector]
            ELSE /\ Goto(r, "makeRoot")
                 /\ Log(<<<<r, "Start">>, <<r, "PreInit">>>>)
                 /\ UNCHANGED injector
    /\ UNCHANGED <<root, scanning, configuring, entered, hostVars, hasStream, logger, subscribed>>

(* Mutant: the host remembers one root injector only.                        *)
DisposesLast(r) == {r}

(* makeDisposable() wraps the dispose() that the host has already.           *)
DisposesToo(r) == disposes \cup {r}

(* getInstance() of the root injector has resolved.  The built-in and the    *)
(* configured providers are registered; that may throw.                      *)
MakeRoot(r) ==
    /\ pc[r] = "makeRoot"
    /\ root' = [root EXCEPT ![r] = "live"]
    /\ disposes' = DisposesToo(r)
    /\ \/ Goto(r, "initRoot")
       \/ Goto(r, "failed")
    /\ UNCHANGED <<injector, scanning, configuring, raced, entered, initialized, started,
                   appInjector, disposing, scanned, logVars>>

(* rootInjector.init() is done: the application injector is made, before the *)
(* OnConfigInternal callbacks run.                                           *)
InitRoot(r) ==
    /\ pc[r] = "initRoot"
    /\ Usable(r)
    /\ appInjector' = r
    /\ initialized' = TRUE
    /\ injector' = [injector EXCEPT ![r] = r]
    /\ Goto(r, "configInternal")
    /\ UNCHANGED <<root, scanning, configuring, raced, entered, started, disposes, disposing,
                   scanned, logVars>>

(* LoggerConfig subscribes the LogListeners to the LogStream.  The rest of   *)
(* run() uses the injector that is the application's now.                    *)
ConfigInternal(r) ==
    /\ pc[r] = "configInternal"
    /\ Usable(injector[r])
    /\ subscribed' = IF hasStream THEN subscribed \cup {injector[r]} ELSE subscribed
    /\ injector' = [injector EXCEPT ![r] = appInjector]
    /\ Goto(r, "init")
    /\ UNCHANGED <<root, scanning, configuring, raced, entered, hostVars, hasStream, logger,
                   queue, seen, logged>>

(* Mutant: only the first entry is taken from the queue.                     *)
FlushedFirst == SubSeq(queue, 1, 1)

Flushed == queue

(* init(): only a QueueingLogger has a flush().  All scanners start; if scan *)
(* cannot be called they all count as failing.                               *)
InitApplication(r) ==
    /\ pc[r] = "init"
    /\ Usable(injector[r])
    /\ ~(hasStream /\ logger # None)
    /\ logged' = Append(logged, <<r, "initializing">>)
    /\ IF hasStream
       THEN /\ Deliver(injector[r], Flushed \o <<<<r, "initializing">>>>)
            /\ queue' = <<>>
            /\ logger' = injector[r]
       ELSE /\ queue' = Append(queue, <<r, "initializing">>)
            /\ UNCHANGED <<seen, logger>>
    /\ scanning' = [scanning EXCEPT ![r] = Scanners]
    /\ Goto(r, "scan")
    /\ UNCHANGED <<injector, root, configuring, raced, entered, hostVars, hasStream, subscribed>>

(* A second init() with a LogStream: this.logger.flush is not a function.    *)
FlushFails(r) ==
    /\ pc[r] = "init"
    /\ hasStream /\ logger # None
    /\ Goto(r, "failed")
    /\ UNCHANGED <<injector, root, scanning, configuring, raced, entered, hostVars, logVars>>

(* A scanner ends: what it has found is registered with the root injector,   *)
(* also if another one has failed and the run with it.                       *)
ScannerEnds(r, s) ==
    /\ s \in scanning[r]
    /\ Usable(injector[r])
    /\ scanned' = [scanned EXCEPT ![injector[r]] = @ \cup {s}]
    /\ scanning' = [scanning EXCEPT ![r] = @ \ {s}]
    /\ UNCHANGED <<pc, injector, root, configuring, raced, entered, initialized, started,
                   appInjector, disposes, disposing, logVars>>

(* Mutant: the failure of a scanner does not reject what init() awaits.      *)
ScannerFailsUnnoticed(r, s) ==
    /\ s \in scanning[r]
    /\ pc[r] # "scan"
    /\ scanning' = [scanning EXCEPT ![r] = @ \ {s}]
    /\ UNCHANGED <<pc, injector, root, configuring, raced, entered, hostVars, logVars>>

(* Promise.all rejects with the first scanner that fails.                    *)
ScannerFails(r, s) ==
    /\ s \in scanning[r]
    /\ scanning' = [scanning EXCEPT ![r] = @ \ {s}]
    /\ IF pc[r] = "scan" THEN Goto(r, "failed") ELSE UNCHANGED pc
    /\ UNCHANGED <<injector, root, configuring, raced, entered, hostVars, logVars>>

(* Mutant: init() does not await the scanners.                               *)
ScanStarted(r) == pc[r] = "scan"

ScanDone(r) == pc[r] = "scan" /\ scanning[r] = {}

(* init() is done: the application is started, the OnConfig callbacks begin. *)
Scanned(r) ==
    /\ ScanDone(r)
    /\ started' = TRUE
    /\ injector' = [injector EXCEPT ![r] = appInjector]
    /\ IF Usable(appInjector)
       THEN configuring' = [configuring EXCEPT ![r] = Configs] /\ Goto(r, "config")
       ELSE Goto(r, "failed") /\ UNCHANGED configuring
    /\ UNCHANGED <<root, scanning, raced, entered, initialized, appInjector, disposes, disposing,
                   scanned, logVars>>

ConfigEnds(r, c) ==
    /\ c \in configuring[r]
    /\ configuring' = [configuring EXCEPT ![r] = @ \ {c}]
    /\ UNCHANGED <<pc, injector, root, scanning, raced, entered, hostVars, logVars>>

ConfigFails(r, c) ==
    /\ c \in configuring[r]
    /\ configuring' = [configuring EXCEPT ![r] = @ \ {c}]
    /\ IF pc[r] = "config" THEN Goto(r, "failed") ELSE UNCHANGED pc
    /\ UNCHANGED <<injector, root, scanning, raced, entered, hostVars, logVars>>

(* All callbacks are done: bootstrap() injects the Bootstrapper.             *)
Configured(r) ==
    /\ pc[r] = "config"
    /\ configuring[r] = {}
    /\ injector' = [injector EXCEPT ![r] = appInjector]
    /\ Goto(r, "bootstrap")
    /\ UNCHANGED <<root, scanning, configuring, raced, entered, hostVars, logVars>>

Bootstrap(r) ==
    /\ pc[r] = "bootstrap"
    /\ Usable(injector[r])
    /\ entered' = entered \cup {r}
    /\ Goto(r, "entryPoint")
    /\ UNCHANGED <<injector, root, scanning, configuring, raced, hostVars, logVars>>

EntryPointEnds(r) ==
    /\ pc[r] = "entryPoint"
    /\ \E end \in {"done", "failed"} : Goto(r, end)
    /\ UNCHANGED <<injector, root, scanning, configuring, raced, entered, hostVars, logVars>>

(* Something cannot be injected or throws, or its injector is disposed.      *)
StepFails(r) ==
    /\ pc[r] \in {"makeRoot", "initRoot", "configInternal", "init", "bootstrap"}
    /\ Goto(r, "failed")
    /\ UNCHANGED <<injector, root, scanning, configuring, raced, entered, hostVars, logVars>>

-------------------------------------------------------------------------------
(* DandiApplication.dispose(): the host has no dispose() before MakeRoot, and*)
(* is not disposed twice.                                                    *)
Dispose ==
    /\ ~disposing
    /\ disposes # {}
    /\ disposing' = TRUE
    /\ root' = [r \in Runs |-> IF r \in disposes /\ root[r] = "live" THEN "disposing" ELSE root[r]]
    /\ UNCHANGED <<pc, injector, scanning, configuring, raced, entered, initialized, started,
                   appInjector, disposes, scanned, logVars>>

RootDisposed(r) ==
    /\ root[r] = "disposing"
    /\ root' = [root EXCEPT ![r] = "disposed"]
    /\ UNCHANGED <<pc, injector, scanning, configuring, raced, entered, hostVars, logVars>>

Step(r) ==
    \/ MakeRoot(r) \/ InitRoot(r) \/ ConfigInternal(r)
    \/ InitApplication(r) \/ FlushFails(r)
    \/ Scanned(r) \/ Configured(r) \/ Bootstrap(r) \/ EntryPointEnds(r)
    \/ StepFails(r)

ScannerSettles(r, s) == ScannerEnds(r, s) \/ ScannerFails(r, s)
ConfigSettles(r, c) == ConfigEnds(r, c) \/ ConfigFails(r, c)

Next ==
    \/ \E r \in Runs :
         \/ Run(r) \/ Step(r) \/ RootDisposed(r)
         \/ \E s \in Scanners : ScannerSettles(r, s)
         \/ \E c \in Configs : ConfigSettles(r, c)
    \/ Dispose

Spec == Init /\ [][Next]_vars

(* The event loop runs continuations; scanners, callbacks and entry points   *)
(* settle.  Nobody has to call run() or dispose().                           *)
Fairness == \A r \in Runs :
    /\ WF_vars(Step(r))
    /\ WF_vars(RootDisposed(r))
    /\ \A s \in Scanners : WF_vars(ScannerSettles(r, s))
    /\ \A c \in Configs : WF_vars(ConfigSettles(r, c))

FairSpec == Spec /\ Fairness

-------------------------------------------------------------------------------
(* run() has an entry point run once, and refuses to be called again; calls  *)
(* that overlap before `started` is set are not refused.                     *)
EntersOnce == Cardinality(entered) <= 1 \/ raced

(* An entry point runs when all scanners have registered what they found and *)
(* all OnConfig callbacks are done, also if earlier runs have failed.        *)
ReadyToEnter ==
    \A r \in Runs : pc[r] \in {"bootstrap", "entryPoint"} /\ ~raced =>
        /\ scanned[injector[r]] = Scanners
        /\ configuring[r] = {}

(* No entry is lost, repeated or overtaken on its way from the queue to the  *)
(* listeners, whose subscription comes before the flush.  Only after a race, *)
(* or if a retry uses an application whose OnConfigInternal callbacks have   *)
(* failed, entries go to a stream that nobody has subscribed to.             *)
LogsSeen ==
    \/ raced
    \/ appInjector # None /\ pc[appInjector] = "failed" /\ appInjector \notin subscribed
    \/ /\ seen \o queue = logged
       /\ logger # None => queue = <<>>

(* Disposing the application disposes every root injector made so far, those *)
(* of runs that have failed or overlapped as well.                           *)
DisposeReachesAll == [][disposing' # disposing => \A r \in Runs : root'[r] # "live"]_vars

(* Every run settles, whatever fails and whenever the application is disposed*)
RunsSettle == \A r \in Runs : pc[r] # "new" ~> pc[r] \in {"done", "failed"}
===============================================================================
