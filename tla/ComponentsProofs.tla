----------------------------- MODULE ComponentsProofs --------------------------
(*****************************************************************************)
(* Proofs about the components which the run of the components checks: for   *)
(* any packages and projects the builder publishes nothing before what it    *)
(* depends on can be seen; caches keep an entry until it is deleted or its   *)
(* time has come; subscribers of dequeueReplay see what was queued, in       *)
(* order and once; an instance is kept by the nearest context that its       *)
(* restriction means, for any tree of contexts; the preparers of a request   *)
(* run in order and find what those they depend on provide; and a composed   *)
(* resource embeds what the request asks for.                                *)
(*****************************************************************************)
EXTENDS PackageBuilder, Caches, DequeueReplay, Scopes, PipelinePreparers, HalComposer,
        SequenceTheorems, FiniteSetTheorems, WellFoundedInduction, TLAPS

-------------------------------------------------------------------------------
(* The builder.  A command that runs is in one of its phases; nothing is     *)
(* under way otherwise.                                                      *)
Running == process.state = "running"

BuildType ==
    /\ process.state \in {"none", "running", "failed", "done", "circular"}
    /\ process.state # "none" =>
          process \in [state : {"running", "failed", "done", "circular"}, command : Commands, at : Nat]
    /\ Running => process.at \in 1 .. Len(PhasesOf(process.command)) /\ tasks \subseteq TasksOf(Phase)
    /\ ~Running => tasks = {}
    /\ registry \in [Packages -> {"absent", "accepted", "visible"}]
    /\ publishedSet \subseteq Packages

(* A phase begins with the files of the one before it, and has those of its  *)
(* own in the end.                                                           *)
Compiled == <<"tsc", Project>>
PreparedInv ==
    /\ Phase = "configure" => ConfigFiles \subseteq tasks \cup prepared
    /\ Phase \in {"compile", "finalize", "publish"} => ConfigFiles \subseteq prepared
    /\ Phase = "compile" => Compiled \in tasks \cup prepared
    /\ Phase \in {"finalize", "publish"} => Compiled \in prepared
    /\ Phase = "finalize" => BuiltFiles \subseteq tasks \cup prepared
    /\ Phase = "publish" => BuiltFiles \subseteq prepared

(* A batch consists of packages whose dependencies have been published by    *)
(* this process; what it is done with, and what was published, can be seen.  *)
BatchInv ==
    /\ cleared # <<>> => Phase = "publish" /\ DOMAIN cleared \subseteq ClearedPackages
    /\ \A p \in DOMAIN cleared : cleared[p] = "done" => registry[p] = "visible"
    /\ \A p \in publishedSet : registry[p] = "visible"

(* Packages are published with what they depend on, in some order.           *)
HasOrder(ps) == \A qs \in SUBSET ps : qs # {} => \E q \in qs : PeersOf[q] \cap qs = {}
PublishedInv == ClosedUnderPeers(publishedSet) /\ HasOrder(publishedSet)

OutcomeInv ==
    /\ publishedSet # {} => process.state # "none" /\ process.command = "publish"
    /\ publishedSet # {} /\ Running => Phase = "publish"
    /\ Phase = "done" /\ process.command = "publish" => publishedSet = Packages
    /\ Phase = "circular" => ClearedPackages = {} /\ publishedSet # Packages

BuildInv == BuildType /\ PreparedInv /\ BatchInv /\ PublishedInv /\ OutcomeInv /\ early = {}

(* What is outside all circles can be published batch by batch, and nothing  *)
(* else.                                                                     *)
LEMMA NothingToPublish ==
    ASSUME PublishedInv, publishedSet \subseteq Packages, ClearedPackages = {}
    PROVE  publishedSet = Publishable
<1>1. publishedSet \subseteq Publishable
  BY DEF PublishedInv, HasOrder, Publishable
<1>2. ASSUME NEW ps \in SUBSET Packages, ClosedUnderPeers(ps), HasOrder(ps)
      PROVE  ps \subseteq publishedSet
  <2> DEFINE qs == ps \ publishedSet
  <2>1. SUFFICES ASSUME qs # {} PROVE FALSE
    OBVIOUS
  <2>2. PICK q \in qs : PeersOf[q] \cap qs = {}
    BY <1>2, <2>1 DEF HasOrder
  <2>3. PeersOf[q] \subseteq publishedSet
    BY <1>2, <2>2 DEF ClosedUnderPeers
  <2> QED BY <2>2, <2>3 DEF ClearedPackages, Remaining
<1>3. Publishable \subseteq publishedSet
  BY <1>2 DEF Publishable, HasOrder
<1> QED BY <1>1, <1>3

(* A batch may follow what has been published.                               *)
LEMMA BatchFollows ==
    ASSUME PublishedInv, NEW B, B \subseteq ClearedPackages
    PROVE  ClosedUnderPeers(publishedSet \cup B) /\ HasOrder(publishedSet \cup B)
<1>1. \A p \in B : PeersOf[p] \subseteq publishedSet /\ p \notin publishedSet
  BY DEF ClearedPackages, Remaining
<1>2. ClosedUnderPeers(publishedSet \cup B)
  BY <1>1 DEF PublishedInv, ClosedUnderPeers
<1>3. ASSUME NEW qs \in SUBSET (publishedSet \cup B), qs # {}
      PROVE  \E q \in qs : PeersOf[q] \cap qs = {}
  <2> DEFINE old == qs \cap publishedSet
  <2>1. CASE old = {}
    BY <1>1, <1>3, <2>1
  <2>2. CASE old # {}
    <3>1. PICK q \in old : PeersOf[q] \cap old = {}
      BY <2>2 DEF PublishedInv, HasOrder
    <3>2. PeersOf[q] \subseteq publishedSet
      BY DEF PublishedInv, ClosedUnderPeers
    <3> QED BY <3>1, <3>2
  <2> QED BY <2>1, <2>2
<1> QED BY <1>2, <1>3 DEF HasOrder

(* What phase comes after which.                                             *)
LEMMA NextPhase ==
    ASSUME NEW command \in Commands, NEW at \in 1 .. Len(PhasesOf(command))
    PROVE  LET phase == PhasesOf(command)[at]
               next == PhasesOf(command)[at + 1]
           IN  /\ Len(PhasesOf(command)) \in Nat /\ Len(PhasesOf(command)) >= 1
               /\ PhasesOf(command)[1] = "discover"
               /\ phase \notin {"none", "running", "failed", "done", "circular"}
               /\ phase = "publish" => command = "publish" /\ at = Len(PhasesOf(command))
               /\ at = Len(PhasesOf(command)) /\ command = "publish" => phase = "publish"
               /\ at # Len(PhasesOf(command)) =>
                     /\ next = "compile" => phase = "configure"
                     /\ next = "finalize" => phase = "compile"
                     /\ next = "publish" => phase = "finalize"
<1>1. CASE command = "update-configs" BY <1>1 DEF PhasesOf
<1>2. CASE command = "build" BY <1>2 DEF PhasesOf
<1>3. CASE command = "publish" BY <1>3 DEF PhasesOf
<1>4. CASE command \in {"unpublish", "outdated", "deprecate", "yarn"} BY <1>4 DEF PhasesOf
<1> QED BY <1>1, <1>2, <1>3, <1>4, CommandsAssumption

LEMMA PhaseWhenRunning ==
    ASSUME BuildType, Running
    PROVE  /\ process \in [state : {"running", "failed", "done", "circular"}, command : Commands, at : Nat]
           /\ process.at \in 1 .. Len(PhasesOf(process.command)) /\ tasks \subseteq TasksOf(Phase)
           /\ Phase = PhasesOf(process.command)[process.at]
           /\ Phase \notin {"none", "running", "failed", "done", "circular"}
<1>1. /\ process \in [state : {"running", "failed", "done", "circular"}, command : Commands, at : Nat]
      /\ process.at \in 1 .. Len(PhasesOf(process.command)) /\ tasks \subseteq TasksOf(Phase)
  BY DEF BuildType, Running
<1>2. Phase = PhasesOf(process.command)[process.at]
  BY DEF Phase, Running
<1> QED BY <1>1, <1>2, NextPhase

LEMMA PhaseWhenNotRunning ==
    ASSUME BuildType, ~Running
    PROVE  Phase = process.state /\ Phase \in {"none", "failed", "done", "circular"} /\ tasks = {}
BY DEF BuildType, Running, Phase

(* A new process knows nothing of what was done before it.                   *)
LEMMA RunStep ==
    ASSUME BuildInv, NEW command \in Commands, Run(command)
    PROVE  BuildInv'
<1>1. /\ process' = [state |-> "running", command |-> command, at |-> 1]
      /\ tasks' = TasksOf("discover") /\ cleared' = <<>> /\ publishedSet' = {}
      /\ UNCHANGED <<project, registry, orphans, early>>
  BY DEF Run
<1>2. Len(PhasesOf(command)) \in Nat /\ Len(PhasesOf(command)) >= 1 /\ PhasesOf(command)[1] = "discover"
  <2>1. Len(PhasesOf(command)) >= 1 /\ Len(PhasesOf(command)) \in Nat
    BY CommandsAssumption DEF PhasesOf
  <2> QED BY <2>1, NextPhase
<1>3. Phase' = "discover" /\ Running'
  BY <1>1, <1>2 DEF Phase, Running
<1>4. BuildType'
  BY <1>1, <1>2, <1>3 DEF BuildInv, BuildType, Running
<1>5. PreparedInv'
  BY <1>3 DEF PreparedInv
<1>6. BatchInv' /\ PublishedInv' /\ OutcomeInv'
  BY <1>1, <1>3 DEF BatchInv, PublishedInv, OutcomeInv, ClosedUnderPeers, HasOrder
<1> QED BY <1>1, <1>4, <1>5, <1>6 DEF BuildInv

LEMMA TaskEndsStep ==
    ASSUME BuildInv, NEW t \in tasks, TaskEnds(t)
    PROVE  BuildInv'
<1>1. BuildType /\ PreparedInv /\ BatchInv /\ PublishedInv /\ OutcomeInv /\ early = {}
  BY DEF BuildInv
<1>2. /\ tasks' = tasks \ {t}
      /\ prepared' = IF Phase \in {"configure", "finalize", "compile"} THEN prepared \cup {t} ELSE prepared
      /\ registry' = IF Phase = "unpublish" THEN [registry EXCEPT ![t[2]] = "absent"] ELSE registry
      /\ UNCHANGED <<project, process, cleared, publishedSet, orphans, processes, early>>
  BY DEF TaskEnds
<1>3. Running
  BY <1>1, PhaseWhenNotRunning
<1>4. tasks \subseteq TasksOf(Phase) /\ Phase \notin {"none", "running", "failed", "done", "circular"}
  BY <1>1, <1>3, PhaseWhenRunning
<1>5. Phase' = Phase /\ (Running <=> Running')
  BY <1>2 DEF Phase, Running
<1>6. Phase = "unpublish" => t[2] \in Packages /\ publishedSet = {} /\ cleared = <<>>
  <2>1. Phase = "unpublish" => t \in {"unpublish"} \X Packages
    BY <1>4 DEF TasksOf
  <2> QED BY <1>1, <1>3, <2>1 DEF OutcomeInv, BatchInv
<1>7. BuildType'
  <2>1. registry' \in [Packages -> {"absent", "accepted", "visible"}]
    BY <1>1, <1>2, <1>6 DEF BuildType
  <2> QED BY <1>1, <1>2, <1>5, <2>1 DEF BuildType, Running
<1>8. PreparedInv'
  BY <1>1, <1>2, <1>5 DEF PreparedInv
<1>9. BatchInv'
  <2>1. CASE Phase = "unpublish"
    BY <1>2, <1>6, <2>1 DEF BatchInv
  <2>2. CASE Phase # "unpublish"
    BY <1>1, <1>2, <1>5, <2>2 DEF BatchInv, ClearedPackages, Remaining, PeersOf
  <2> QED BY <2>1, <2>2
<1>10. PublishedInv' /\ OutcomeInv'
  <2>1. PublishedInv'
    BY <1>1, <1>2 DEF PublishedInv, ClosedUnderPeers, HasOrder, PeersOf
  <2>2. Phase # "circular"
    BY <1>4
  <2>3. OutcomeInv'
    BY <1>1, <1>2, <1>5, <2>2 DEF OutcomeInv
  <2> QED BY <2>1, <2>3
<1> QED BY <1>1, <1>2, <1>7, <1>8, <1>9, <1>10 DEF BuildInv

(* A process that exits leaves the registry, and what it knows, behind.      *)
LEMMA ExitStep ==
    ASSUME BuildInv, Running, process' = [process EXCEPT !.state = "failed"],
           tasks' = {}, cleared' = <<>>,
           UNCHANGED <<project, prepared, publishedSet, registry, early>>
    PROVE  BuildInv'
<1>1. BuildType /\ PreparedInv /\ BatchInv /\ PublishedInv /\ OutcomeInv /\ early = {}
  BY DEF BuildInv
<1>2. process \in [state : {"running", "failed", "done", "circular"}, command : Commands, at : Nat]
  BY <1>1, PhaseWhenRunning
<1>3. /\ process' \in [state : {"running", "failed", "done", "circular"}, command : Commands, at : Nat]
      /\ process'.state = "failed" /\ process'.command = process.command
  BY <1>2
<1>4. Phase' = "failed" /\ ~Running'
  BY <1>3 DEF Phase, Running
<1>5. BuildType'
  BY <1>1, <1>3, <1>4 DEF BuildType, Running
<1>6. PreparedInv' /\ BatchInv'
  BY <1>1, <1>4 DEF PreparedInv, BatchInv
<1>7. PublishedInv' /\ OutcomeInv'
  BY <1>1, <1>3, <1>4 DEF PublishedInv, OutcomeInv, ClosedUnderPeers, HasOrder, PeersOf
<1> QED BY <1>1, <1>5, <1>6, <1>7 DEF BuildInv

LEMMA PhaseDoneStep ==
    ASSUME BuildInv, PhaseDone
    PROVE  BuildInv'
<1>1. BuildType /\ PreparedInv /\ BatchInv /\ PublishedInv /\ OutcomeInv /\ early = {}
  BY DEF BuildInv
<1>2. /\ Running /\ tasks = {} /\ Phase \notin {"publish", "deprecate"}
      /\ tasks' = TasksOf(Phase')
      /\ UNCHANGED <<project, prepared, cleared, publishedSet, registry, orphans, processes, early>>
  BY DEF PhaseDone, Running
<1>3. /\ process \in [state : {"running", "failed", "done", "circular"}, command : Commands, at : Nat]
      /\ process.at \in 1 .. Len(PhasesOf(process.command))
      /\ Phase = PhasesOf(process.command)[process.at]
  BY <1>1, <1>2, PhaseWhenRunning
<1>4. cleared = <<>> /\ publishedSet = {}
  BY <1>1, <1>2 DEF BatchInv, OutcomeInv
<1>5. CASE process.at = Len(PhasesOf(process.command))
  <2>1. process' = [process EXCEPT !.state = "done"]
    BY <1>5 DEF PhaseDone
  <2>2. /\ process' \in [state : {"running", "failed", "done", "circular"}, command : Commands, at : Nat]
        /\ process'.state = "done" /\ process'.command = process.command
    BY <1>3, <2>1
  <2>3. Phase' = "done" /\ ~Running'
    BY <2>2 DEF Phase, Running
  <2>4. process.command # "publish"
    BY <1>2, <1>3, <1>5, NextPhase
  <2>5. TasksOf("done") = {}
    BY DEF TasksOf
  <2>6. BuildType'
    BY <1>1, <1>2, <2>2, <2>3, <2>5 DEF BuildType, Running
  <2>7. PreparedInv' /\ BatchInv' /\ OutcomeInv'
    BY <1>2, <1>4, <2>2, <2>3, <2>4 DEF PreparedInv, BatchInv, OutcomeInv
  <2>8. PublishedInv'
    BY <1>1, <1>2 DEF PublishedInv, ClosedUnderPeers, HasOrder, PeersOf
  <2> QED BY <1>1, <1>2, <2>6, <2>7, <2>8 DEF BuildInv
<1>6. CASE process.at # Len(PhasesOf(process.command))
  <2>1. process' = [process EXCEPT !.at = process.at + 1]
    BY <1>6 DEF PhaseDone
  <2>2. /\ process' \in [state : {"running", "failed", "done", "circular"}, command : Commands, at : Nat]
        /\ process'.state = "running" /\ process'.command = process.command
        /\ process'.at = process.at + 1
    BY <1>2, <1>3, <2>1 DEF Running
  <2>3. Len(PhasesOf(process.command)) \in Nat
    BY <1>3, NextPhase
  <2>4. Phase' = PhasesOf(process.command)[process.at + 1] /\ Running'
    BY <2>2 DEF Phase, Running
  <2>5. process.at + 1 \in 1 .. Len(PhasesOf(process.command))
    BY <1>3, <1>6, <2>3
  <2>6. Phase' \notin {"none", "running", "failed", "done", "circular"}
    BY <1>3, <2>4, <2>5, NextPhase
  <2>7. /\ Phase' = "compile" => Phase = "configure"
        /\ Phase' = "finalize" => Phase = "compile"
        /\ Phase' = "publish" => Phase = "finalize"
    BY <1>3, <1>6, <2>4, NextPhase
  <2>8. BuildType'
    BY <1>1, <1>2, <2>2, <2>4, <2>5 DEF BuildType, Running
  <2>9. PreparedInv'
    <3>1. TasksOf("configure") = ConfigFiles /\ TasksOf("finalize") = BuiltFiles
          /\ TasksOf("compile") = {Compiled}
      BY DEF TasksOf, Compiled
    <3> QED BY <1>1, <1>2, <2>7, <3>1 DEF PreparedInv, Compiled, ConfigFiles, BuiltFiles
  <2>10. BatchInv' /\ OutcomeInv'
    BY <1>2, <1>4, <2>6, <2>4 DEF BatchInv, OutcomeInv
  <2>11. PublishedInv'
    BY <1>1, <1>2 DEF PublishedInv, ClosedUnderPeers, HasOrder, PeersOf
  <2> QED BY <1>1, <1>2, <2>8, <2>9, <2>10, <2>11 DEF BuildInv
<1> QED BY <1>5, <1>6

(* The steps of publish() within a batch.                                    *)
LEMMA BatchStep ==
    ASSUME BuildInv, Phase = "publish",
           UNCHANGED <<project, process, tasks, prepared, publishedSet, early>>,
           registry' \in [Packages -> {"absent", "accepted", "visible"}],
           \A p \in Packages : registry[p] = "visible" => registry'[p] = "visible",
           cleared' # <<>> => DOMAIN cleared' \subseteq ClearedPackages,
           \A p \in DOMAIN cleared' : cleared'[p] = "done" => registry'[p] = "visible"
    PROVE  BuildInv'
<1>1. BuildType /\ PreparedInv /\ BatchInv /\ PublishedInv /\ OutcomeInv /\ early = {}
  BY DEF BuildInv
<1>2. Phase' = Phase /\ (Running <=> Running')
  BY DEF Phase, Running
<1>3. BuildType'
  BY <1>1, <1>2 DEF BuildType, Running
<1>4. PreparedInv'
  BY <1>1, <1>2 DEF PreparedInv
<1>5. ClearedPackages' = ClearedPackages
  BY DEF ClearedPackages, Remaining, PeersOf
<1>6. BatchInv'
  BY <1>1, <1>2, <1>5 DEF BatchInv, BuildType
<1>7. PublishedInv' /\ OutcomeInv'
  BY <1>1, <1>2, <1>5 DEF PublishedInv, OutcomeInv, ClosedUnderPeers, HasOrder, PeersOf
<1> QED BY <1>1, <1>3, <1>4, <1>6, <1>7 DEF BuildInv

LEMMA PublishStep ==
    ASSUME BuildInv, NEW p \in Packages,
           FindVersion(p) \/ SpawnPublish(p) \/ PublishAccepted(p) \/ PublishFails(p)
    PROVE  BuildInv'
<1>1. BuildType /\ BatchInv /\ PublishedInv /\ early = {}
  BY DEF BuildInv
<1>2. Phase = "publish" /\ p \in DOMAIN cleared
  BY DEF FindVersion, SpawnPublish, PublishAccepted, PublishFails, Publishing
<1>3. cleared # <<>> /\ DOMAIN cleared \subseteq ClearedPackages
  BY <1>1, <1>2 DEF BatchInv
<1>4. registry \in [Packages -> {"absent", "accepted", "visible"}]
  BY <1>1 DEF BuildType
<1>5. \A q \in DOMAIN cleared : cleared[q] = "done" => registry[q] = "visible"
  BY <1>1 DEF BatchInv
<1>6. CASE FindVersion(p)
  <2>1. registry[p] = "visible" /\ cleared' = [cleared EXCEPT ![p] = "done"]
        /\ UNCHANGED <<project, process, tasks, prepared, publishedSet, registry, early>>
    BY <1>6 DEF FindVersion
  <2>2. DOMAIN cleared' = DOMAIN cleared /\ \A q \in DOMAIN cleared : cleared'[q] = "done" => registry[q] = "visible"
    BY <1>2, <1>5, <2>1
  <2> QED BY <1>2, <1>3, <1>4, <2>1, <2>2, BatchStep
<1>7. CASE SpawnPublish(p)
  <2>1. /\ cleared' = [cleared EXCEPT ![p] = "publishing"]
        /\ early' = IF \A d \in PeersOf[p] : registry[d] = "visible" THEN early ELSE early \cup {p}
        /\ UNCHANGED <<project, process, tasks, prepared, publishedSet, registry>>
    BY <1>7 DEF SpawnPublish
  <2>2. DOMAIN cleared' = DOMAIN cleared /\ \A q \in DOMAIN cleared : cleared'[q] = "done" => registry[q] = "visible"
    BY <1>2, <1>5, <2>1
  <2>3. \A d \in PeersOf[p] : registry[d] = "visible"
    BY <1>1, <1>2, <1>3 DEF ClearedPackages, BatchInv
  <2>4. early' = early
    BY <2>1, <2>3
  <2> QED BY <1>2, <1>3, <1>4, <2>1, <2>2, <2>4, BatchStep
<1>8. CASE PublishAccepted(p)
  <2>1. /\ cleared' = [cleared EXCEPT ![p] = "polling"] /\ registry[p] = "absent"
        /\ registry' = [registry EXCEPT ![p] = "accepted"]
        /\ UNCHANGED <<project, process, tasks, prepared, publishedSet, early>>
    BY <1>8 DEF PublishAccepted
  <2>2. /\ registry' \in [Packages -> {"absent", "accepted", "visible"}]
        /\ \A q \in Packages : registry[q] = "visible" => registry'[q] = "visible"
    BY <1>4, <2>1
  <2>3. DOMAIN cleared' = DOMAIN cleared /\ \A q \in DOMAIN cleared : cleared'[q] = "done" => registry[q] = "visible"
    BY <1>2, <1>5, <2>1
  <2>4. ClearedPackages \subseteq Packages
    BY DEF ClearedPackages, Remaining
  <2> QED BY <1>2, <1>3, <2>1, <2>2, <2>3, <2>4, BatchStep
<1>9. CASE PublishFails(p)
  <2>1. Running
    BY <1>1, <1>2, PhaseWhenNotRunning
  <2> QED BY <1>9, <2>1, ExitStep DEF PublishFails
<1> QED BY <1>6, <1>7, <1>8, <1>9

LEMMA NextBatchStep ==
    ASSUME BuildInv, NextBatch
    PROVE  BuildInv'
<1>1. /\ cleared' = [p \in ClearedPackages |-> "checking"] /\ Phase = "publish"
      /\ UNCHANGED <<project, process, tasks, prepared, publishedSet, registry, early>>
  BY DEF NextBatch
<1>2. registry \in [Packages -> {"absent", "accepted", "visible"}]
  BY DEF BuildInv, BuildType
<1> QED BY <1>1, <1>2, BatchStep

LEMMA BatchDoneStep ==
    ASSUME BuildInv, BatchDone
    PROVE  BuildInv'
<1>1. BuildType /\ PreparedInv /\ BatchInv /\ PublishedInv /\ OutcomeInv /\ early = {}
  BY DEF BuildInv
<1>2. /\ Running /\ cleared # <<>> /\ \A p \in DOMAIN cleared : cleared[p] = "done"
      /\ publishedSet' = publishedSet \cup DOMAIN cleared /\ cleared' = <<>>
      /\ UNCHANGED <<project, process, tasks, prepared, registry, orphans, processes, early>>
  BY DEF BatchDone, Running
<1>3. Phase = "publish" /\ DOMAIN cleared \subseteq ClearedPackages /\ ClearedPackages \subseteq Packages
  BY <1>1, <1>2 DEF BatchInv, ClearedPackages, Remaining
<1>4. Phase' = Phase /\ (Running <=> Running')
  BY <1>2 DEF Phase, Running
<1>5. process.command = "publish" /\ process.state # "none"
  BY <1>1, <1>2, <1>3, PhaseWhenRunning, NextPhase DEF Running
<1>6. BuildType'
  BY <1>1, <1>2, <1>3, <1>4 DEF BuildType, Running
<1>7. PreparedInv'
  BY <1>1, <1>2, <1>4 DEF PreparedInv
<1>8. BatchInv'
  BY <1>1, <1>2 DEF BatchInv
<1>9. PublishedInv'
  <2>1. ClosedUnderPeers(publishedSet \cup DOMAIN cleared) /\ HasOrder(publishedSet \cup DOMAIN cleared)
    BY <1>1, <1>3, BatchFollows
  <2> QED BY <1>2, <2>1 DEF PublishedInv, ClosedUnderPeers, HasOrder, PeersOf
<1>10. OutcomeInv'
  BY <1>2, <1>3, <1>4, <1>5 DEF OutcomeInv
<1> QED BY <1>1, <1>2, <1>6, <1>7, <1>8, <1>9, <1>10 DEF BuildInv

LEMMA PublishEndsStep ==
    ASSUME BuildInv, PublishEnds
    PROVE  BuildInv'
<1>1. BuildType /\ PreparedInv /\ BatchInv /\ PublishedInv /\ OutcomeInv /\ early = {}
  BY DEF BuildInv
<1>2. /\ Running /\ Phase = "publish" /\ cleared = <<>> /\ ClearedPackages = {}
      /\ UNCHANGED <<project, tasks, prepared, cleared, publishedSet, registry, orphans, processes, early>>
  BY DEF PublishEnds, Running
<1>3. PICK st \in {"done", "circular"} :
        process' = [process EXCEPT !.state = st] /\ (st = "done" <=> Remaining = {})
  BY DEF PublishEnds
<1>4. /\ process \in [state : {"running", "failed", "done", "circular"}, command : Commands, at : Nat]
      /\ tasks \subseteq TasksOf(Phase) /\ process.command = "publish"
  BY <1>1, <1>2, PhaseWhenRunning, NextPhase
<1>5. /\ process' \in [state : {"running", "failed", "done", "circular"}, command : Commands, at : Nat]
      /\ process'.state = st /\ process'.command = "publish"
  BY <1>3, <1>4
<1>6. Phase' = st /\ ~Running'
  BY <1>5 DEF Phase, Running
<1>7. tasks = {}
  BY <1>2, <1>4 DEF TasksOf
<1>8. BuildType'
  BY <1>1, <1>2, <1>5, <1>6, <1>7 DEF BuildType, Running
<1>9. PreparedInv'
  BY <1>6 DEF PreparedInv
<1>10. BatchInv'
  BY <1>1, <1>2 DEF BatchInv
<1>11. PublishedInv'
  BY <1>1, <1>2 DEF PublishedInv, ClosedUnderPeers, HasOrder, PeersOf
<1>12. OutcomeInv'
  <2>1. st = "done" <=> publishedSet = Packages
    BY <1>1, <1>3 DEF Remaining, BuildType
  <2>2. ClearedPackages' = {}
    BY <1>2 DEF ClearedPackages, Remaining, PeersOf
  <2> QED BY <1>2, <1>5, <1>6, <2>1, <2>2 DEF OutcomeInv
<1> QED BY <1>1, <1>2, <1>8, <1>9, <1>10, <1>11, <1>12 DEF BuildInv

(* What npm and the registry do by themselves takes nothing back.            *)
LEMMA RegistryStep ==
    ASSUME BuildInv, NEW p \in Packages, BecomesVisible(p) \/ OrphanEnds(p)
    PROVE  BuildInv'
<1>1. BuildType /\ PreparedInv /\ BatchInv /\ PublishedInv /\ OutcomeInv /\ early = {}
  BY DEF BuildInv
<1>2. UNCHANGED <<project, process, tasks, prepared, cleared, publishedSet, processes, early>>
  BY DEF BecomesVisible, OrphanEnds
<1>3. registry \in [Packages -> {"absent", "accepted", "visible"}]
  BY <1>1 DEF BuildType
<1>4. /\ registry' \in [Packages -> {"absent", "accepted", "visible"}]
      /\ \A q \in Packages : registry[q] = "visible" => registry'[q] = "visible"
  BY <1>3 DEF BecomesVisible, OrphanEnds
<1>5. Phase' = Phase /\ (Running <=> Running')
  BY <1>2 DEF Phase, Running
<1>6. ClearedPackages' = ClearedPackages /\ ClearedPackages \subseteq Packages
  BY <1>2 DEF ClearedPackages, Remaining, PeersOf
<1>7. BuildType' /\ PreparedInv'
  BY <1>1, <1>2, <1>4, <1>5 DEF BuildType, PreparedInv, Running
<1>8. BatchInv'
  <2>1. DOMAIN cleared \subseteq Packages
    BY <1>1, <1>6 DEF BatchInv
  <2> QED BY <1>1, <1>2, <1>4, <1>5, <1>6, <2>1 DEF BatchInv, BuildType
<1>9. PublishedInv' /\ OutcomeInv'
  BY <1>1, <1>2, <1>5, <1>6 DEF PublishedInv, OutcomeInv, ClosedUnderPeers, HasOrder, PeersOf
<1> QED BY <1>1, <1>2, <1>7, <1>8, <1>9 DEF BuildInv

LEMMA InitBuild == BuildInit => BuildInv
<1> SUFFICES ASSUME BuildInit PROVE BuildInv
  OBVIOUS
<1>1. Phase = "none" /\ ~Running /\ process.state = "none"
  BY DEF BuildInit, Phase, Running
<1> QED BY <1>1 DEF BuildInit, BuildInv, BuildType, PreparedInv, BatchInv, PublishedInv, OutcomeInv,
                    ClosedUnderPeers, HasOrder

LEMMA NextBuild == BuildInv /\ [BuildNext]_buildVars => BuildInv'
<1> SUFFICES ASSUME BuildInv, [BuildNext]_buildVars PROVE BuildInv'
  OBVIOUS
<1>1. ASSUME NEW command \in Commands, Run(command) PROVE BuildInv'
  BY <1>1, RunStep
<1>2. ASSUME NEW t \in tasks, TaskEnds(t) PROVE BuildInv'
  BY <1>2, TaskEndsStep
<1>3. ASSUME NEW t \in tasks, TaskFails(t) PROVE BuildInv'
  <2>1. Running
    BY <1>3, PhaseWhenNotRunning DEF BuildInv
  <2> QED BY <1>3, <2>1, ExitStep DEF TaskFails, Exit
<1>4. CASE InvalidPackages \/ DeprecateFails
  BY <1>4, ExitStep DEF InvalidPackages, DeprecateFails, Exit, Running
<1>5. CASE UNCHANGED buildVars
  <2>1. UNCHANGED <<project, process, tasks, prepared, cleared, publishedSet, registry, early>>
    BY <1>5 DEF buildVars
  <2>2. Phase' = Phase /\ (Running <=> Running') /\ ClearedPackages' = ClearedPackages
    BY <2>1 DEF Phase, Running, ClearedPackages, Remaining, PeersOf
  <2> QED BY <2>1, <2>2 DEF BuildInv, BuildType, PreparedInv, BatchInv, PublishedInv, OutcomeInv,
                             ClosedUnderPeers, HasOrder, PeersOf, Running
<1> QED BY <1>1, <1>2, <1>3, <1>4, <1>5, PhaseDoneStep, NextBatchStep, BatchDoneStep, PublishEndsStep,
           PublishStep, RegistryStep DEF BuildNext

(* The invariant of the builder.                                             *)
THEOREM BuildInvariant == BuildSpec => []BuildInv
<1> QED BY InitBuild, NextBuild, PTL DEF BuildSpec

(* Nothing is published while something it depends on cannot be seen, or     *)
(* before it has been configured and built; publish() ends when everything   *)
(* is published, or everything outside the circles of the dependencies.      *)
THEOREM DependenciesFirstAlways == BuildSpec => []DependenciesFirst
<1>1. BuildInv => DependenciesFirst
  <2> SUFFICES ASSUME BuildInv PROVE DependenciesFirst
    OBVIOUS
  <2>1. BuildType /\ PreparedInv /\ BatchInv /\ PublishedInv /\ OutcomeInv /\ early = {}
    BY DEF BuildInv
  <2>2. Phase = "circular" => publishedSet = Publishable /\ Publishable # Packages
    BY <2>1, NothingToPublish DEF OutcomeInv, BuildType
  <2>3. Phase = "publish" => BuiltFiles \cup {<<"tsc", Project>>} \subseteq prepared
    BY <2>1 DEF PreparedInv, Compiled
  <2> QED BY <2>1, <2>2, <2>3 DEF DependenciesFirst, PreparedInv, OutcomeInv, BatchInv
<1> QED BY <1>1, BuildInvariant, PTL

-------------------------------------------------------------------------------
(* The caches.  Two callers have entries of their own if their keys differ.  *)
KeysTellApart == \A c, d \in CallArgs : KeyFor(c) = KeyFor(d) => c = d

CacheType ==
    /\ now \in Nat /\ sets \in Nat
    /\ memory \in [Keys -> Results]
    /\ timeouts \in [Keys -> 0 .. sets]
    /\ timers \subseteq [id : 1 .. sets, key : Keys, due : Nat]
    /\ kept \in [CallArgs -> [value : Results, until : Nat, overflow : BOOLEAN]]
    /\ DOMAIN getCalls = Gets

(* The timers that are pending are those that the keys have.                 *)
TimersInv ==
    /\ \A t \in timers : timeouts[t.key] = t.id
    /\ \A k, l \in Keys : timeouts[k] = timeouts[l] => k = l \/ timeouts[k] = NoTimer
    /\ \A s, t \in timers : s.id = t.id => s = t

(* What is in memory is what its caller has stored; it has a timer if it has *)
(* a duration, which ends it when it is out of date, unless it cannot.       *)
EntryInv(c) ==
    LET k == KeyFor(c)
        e == kept[c] IN
    /\ Alive(e) /\ ~e.overflow => memory[k] = e.value
    /\ memory[k] # NoEntry =>
          /\ memory[k] = e.value
          /\ e.until # Forever => \E t \in timers : t.key = k
    /\ \A t \in timers : t.key = k =>
          e.until # Forever /\ t.due <= e.until /\ (~e.overflow => t.due = e.until)

(* A caller that waits for another cache had nothing that memory would have. *)
GetInv ==
    \A g \in Gets :
        /\ getCalls[g].pc = "asking" => getCalls[g].wanted = NoEntry
        /\ getCalls[g].pc = "done" /\ getCalls[g].wanted # NoEntry => getCalls[g].result = getCalls[g].wanted

CacheInv == CacheType /\ TimersInv /\ (\A c \in CallArgs : EntryInv(c)) /\ GetInv

LEMMA TimersOfOthers ==
    ASSUME CacheType, TimersInv, NEW k \in Keys
    PROVE  TimersWithout(k) = {t \in timers : t.key # k}
<1> SUFFICES ASSUME NEW t \in timers PROVE t.id # timeouts[k] <=> t.key # k
  BY DEF TimersWithout
<1>1. t.key \in Keys /\ t.id \in 1 .. sets /\ timeouts[t.key] = t.id /\ sets \in Nat
  BY DEF CacheType, TimersInv
<1>2. t.id # NoTimer
  BY <1>1 DEF NoTimer
<1> QED BY <1>1, <1>2 DEF TimersInv

(* A caller's key is its own, and that of its timers.                        *)
LEMMA KeyIsKey == ASSUME NEW c \in CallArgs PROVE KeyFor(c) \in Keys
BY DEF Keys

LEMMA KeyOfCaller == ASSUME NEW k \in Keys PROVE \E c \in CallArgs : KeyFor(c) = k
BY DEF Keys

(* set() and delete(): the entry of one caller is replaced, with its timer.  *)
LEMMA SetStep ==
    ASSUME KeysTellApart, CacheInv, NEW c \in CallArgs, NEW v \in StoredValues \cup {FalsyValue},
           NEW d \in Durations \cup {Forever}, SetEntry(c, v, d)
    PROVE  CacheInv'
<1> DEFINE k == KeyFor(c)
           e == [value |-> v, until |-> IF d = Forever THEN Forever ELSE now + d,
                 overflow |-> d # Forever /\ d > MaxDelay]
           timer == [id |-> sets + 1, key |-> k, due |-> DueAfter(d)]
           new == IF d = Forever THEN {} ELSE {timer}
<1>1. CacheType /\ TimersInv /\ GetInv
  BY DEF CacheInv
<1>2. k \in Keys
  BY KeyIsKey
<1>3. /\ sets' = sets + 1 /\ memory' = [memory EXCEPT ![k] = v]
      /\ timeouts' = [timeouts EXCEPT ![k] = IF d = Forever THEN NoTimer ELSE sets + 1]
      /\ timers' = {t \in timers : t.key # k} \cup new
      /\ kept' = [kept EXCEPT ![c] = e]
      /\ now' = now /\ getCalls' = getCalls
  BY <1>1, <1>2, TimersOfOthers DEF SetEntry
<1>4. /\ d \in Nat /\ now \in Nat /\ sets \in Nat /\ (d # Forever => d >= 1) /\ Forever = 0
      /\ MaxDelay \in Nat /\ MaxDelay >= 1
  BY <1>1, DurationAssumption DEF CacheType
<1>5. v \in Results /\ v # NoEntry
  BY EntryAssumption DEF Results
<1>6. e \in [value : Results, until : Nat, overflow : BOOLEAN] /\ e.value = v
      /\ (e.until # Forever <=> d # Forever)
  BY <1>4, <1>5
<1>7. d # Forever =>
        /\ timer \in [id : 1 .. sets + 1, key : Keys, due : Nat]
        /\ timer.due <= e.until /\ (~e.overflow => timer.due = e.until)
  <2> SUFFICES ASSUME d # Forever
               PROVE  /\ timer \in [id : 1 .. sets + 1, key : Keys, due : Nat]
                      /\ timer.due <= e.until /\ (~e.overflow => timer.due = e.until)
    OBVIOUS
  <2>1. e.until = now + d /\ (e.overflow <=> d > MaxDelay)
    OBVIOUS
  <2>2. timer.due = now + (IF d > MaxDelay THEN 1 ELSE d) /\ timer.id = sets + 1 /\ timer.key = k
    BY DEF DueAfter
  <2>3. DueAfter(d) \in Nat /\ sets + 1 \in 1 .. sets + 1
    BY <1>4 DEF DueAfter
  <2>4. timer \in [id : 1 .. sets + 1, key : Keys, due : Nat]
    BY <1>2, <2>3
  <2> QED
    BY <1>4, <2>1, <2>2, <2>4
<1> HIDE DEF k, e, timer
<1>8. CacheType'
  <2>1. memory' \in [Keys -> Results] /\ kept' \in [CallArgs -> [value : Results, until : Nat, overflow : BOOLEAN]]
    BY <1>1, <1>3, <1>5, <1>6 DEF CacheType
  <2>2. timeouts' \in [Keys -> 0 .. sets + 1]
    <3>1. timeouts \in [Keys -> 0 .. sets + 1]
      BY <1>1, <1>4 DEF CacheType
    <3>2. (IF d = Forever THEN NoTimer ELSE sets + 1) \in 0 .. sets + 1
      BY <1>4 DEF NoTimer
    <3> QED BY <1>3, <3>1, <3>2
  <2>3. timers' \subseteq [id : 1 .. sets + 1, key : Keys, due : Nat]
    <3>1. timers \subseteq [id : 1 .. sets + 1, key : Keys, due : Nat]
      <4> SUFFICES ASSUME NEW t \in timers PROVE t \in [id : 1 .. sets + 1, key : Keys, due : Nat]
        OBVIOUS
      <4>1. t \in [id : 1 .. sets, key : Keys, due : Nat]
        BY <1>1 DEF CacheType
      <4> QED BY <1>4, <4>1
    <3> QED BY <1>3, <1>7, <3>1
  <2> QED BY <1>1, <1>3, <1>4, <2>1, <2>2, <2>3 DEF CacheType, Keys, Results
<1>9. timeouts'[k] \in {NoTimer, sets + 1} /\ \A l \in Keys : l # k => timeouts'[l] = timeouts[l]
  BY <1>1, <1>2, <1>3 DEF CacheType
<1>10. TimersInv'
  <2>1. ASSUME NEW t \in timers' PROVE timeouts'[t.key] = t.id
    <3>1. CASE t \in timers /\ t.key # k
      BY <1>1, <1>9, <3>1 DEF TimersInv, CacheType
    <3>2. CASE t \in new
      BY <1>1, <1>2, <1>3, <3>2 DEF CacheType, timer
    <3> QED BY <1>3, <3>1, <3>2
  <2>2. ASSUME NEW l \in Keys, NEW m \in Keys, timeouts'[l] = timeouts'[m], l # m
        PROVE  timeouts'[l] = NoTimer
    <3>1. timeouts[l] \in 0 .. sets /\ timeouts[m] \in 0 .. sets
      BY <1>1 DEF CacheType
    <3>2. \A n \in 0 .. sets : n # sets + 1
      BY <1>4
    <3> QED BY <1>1, <1>9, <2>2, <3>1, <3>2 DEF TimersInv
  <2>3. \A s, t \in timers' : s.id = t.id => s = t
    <3>1. \A t \in timers : t.id # sets + 1
      BY <1>1, <1>4 DEF CacheType
    <3>2. \A t \in new : t = timer /\ t.id = sets + 1
      BY DEF timer
    <3>3. \A s, t \in timers : s.id = t.id => s = t
      BY <1>1 DEF TimersInv
    <3> HIDE DEF new
    <3> QED BY <1>3, <3>1, <3>2, <3>3
  <2> QED BY <2>1, <2>2, <2>3, Zenon DEF TimersInv, Keys, NoTimer
<1>11. ASSUME NEW b \in CallArgs PROVE EntryInv(b)'
  <2> DEFINE l == KeyFor(b)
  <2>1. CASE b = c
    <3>1. memory'[k] = v /\ kept'[b] = e
      BY <1>1, <1>2, <1>3, <2>1 DEF CacheType
    <3>2. \A t \in timers' : t.key = k => t = timer /\ d # Forever
      BY <1>3
    <3>3. e.until # Forever => timer \in timers' /\ timer.key = k
      BY <1>3, <1>6 DEF timer
    <3> QED BY <1>5, <1>6, <1>7, <2>1, <3>1, <3>2, <3>3 DEF EntryInv, k
  <2>2. CASE b # c
    <3>1. l # k /\ l \in Keys
      BY <2>2, KeyIsKey DEF KeysTellApart, k
    <3>2. memory'[l] = memory[l] /\ kept'[b] = kept[b] /\ now' = now
      BY <1>1, <1>3, <2>2, <3>1 DEF CacheType
    <3>3. \A t : t.key = l => (t \in timers' <=> t \in timers)
      BY <1>3, <3>1 DEF timer
    <3>4. EntryInv(b)
      BY DEF CacheInv
    <3> QED BY <3>2, <3>3, <3>4 DEF EntryInv, Alive
  <2> QED BY <2>1, <2>2
<1>12. GetInv'
  BY <1>1, <1>3 DEF GetInv
<1> QED BY <1>8, <1>10, <1>11, <1>12 DEF CacheInv

LEMMA DeleteStep ==
    ASSUME KeysTellApart, CacheInv, NEW c \in CallArgs, DeleteEntry(c)
    PROVE  CacheInv'
<1> DEFINE k == KeyFor(c)
           e == [value |-> NoEntry, until |-> Forever, overflow |-> FALSE]
<1>1. CacheType /\ TimersInv /\ GetInv
  BY DEF CacheInv
<1>2. k \in Keys
  BY KeyIsKey
<1>3. /\ memory' = [memory EXCEPT ![k] = NoEntry] /\ timeouts' = [timeouts EXCEPT ![k] = NoTimer]
      /\ timers' = {t \in timers : t.key # k}
      /\ kept' = [kept EXCEPT ![c] = e]
      /\ now' = now /\ getCalls' = getCalls /\ sets' = sets
  BY <1>1, <1>2, TimersOfOthers DEF DeleteEntry
<1>4. e \in [value : Results, until : Nat, overflow : BOOLEAN] /\ e.value = NoEntry
  BY DurationAssumption DEF Results
<1> HIDE DEF k, e
<1>5. NoTimer \in 0 .. sets
  BY <1>1 DEF CacheType, NoTimer
<1>6. CacheType'
  BY <1>1, <1>3, <1>4, <1>5 DEF CacheType, Keys, Results
<1>7. timeouts'[k] = NoTimer /\ \A l \in Keys : l # k => timeouts'[l] = timeouts[l]
  BY <1>1, <1>2, <1>3 DEF CacheType
<1>8. TimersInv'
  <2>1. ASSUME NEW t \in timers' PROVE timeouts'[t.key] = t.id
    BY <1>1, <1>3, <1>7, <2>1 DEF TimersInv, CacheType
  <2>2. ASSUME NEW l \in Keys, NEW m \in Keys, timeouts'[l] = timeouts'[m], l # m
        PROVE  timeouts'[l] = NoTimer
    BY <1>1, <1>7, <2>2 DEF TimersInv
  <2>3. \A s, t \in timers' : s.id = t.id => s = t
    BY <1>1, <1>3 DEF TimersInv
  <2> QED BY <2>1, <2>2, <2>3, Zenon DEF TimersInv, Keys, NoTimer
<1>9. ASSUME NEW b \in CallArgs PROVE EntryInv(b)'
  <2> DEFINE l == KeyFor(b)
  <2>1. CASE b = c
    <3>1. memory'[k] = NoEntry /\ kept'[b] = e
      BY <1>1, <1>2, <1>3, <2>1 DEF CacheType
    <3>2. \A t \in timers' : t.key # k
      BY <1>3
    <3> QED BY <1>4, <2>1, <3>1, <3>2 DEF EntryInv, Alive, k
  <2>2. CASE b # c
    <3>1. l # k /\ l \in Keys
      BY <2>2, KeyIsKey DEF KeysTellApart, k
    <3>2. memory'[l] = memory[l] /\ kept'[b] = kept[b] /\ now' = now
      BY <1>1, <1>3, <2>2, <3>1 DEF CacheType
    <3>3. \A t : t.key = l => (t \in timers' <=> t \in timers)
      BY <1>3, <3>1
    <3>4. EntryInv(b)
      BY DEF CacheInv
    <3> QED BY <3>2, <3>3, <3>4 DEF EntryInv, Alive
  <2> QED BY <2>1, <2>2
<1>10. GetInv'
  BY <1>1, <1>3 DEF GetInv
<1> QED BY <1>6, <1>8, <1>9, <1>10 DEF CacheInv

LEMMA ClearStep ==
    ASSUME CacheInv, ClearMemory
    PROVE  CacheInv'
<1> DEFINE e == [value |-> NoEntry, until |-> Forever, overflow |-> FALSE]
<1>1. CacheType /\ TimersInv /\ GetInv
  BY DEF CacheInv
<1>2. /\ memory' = [k \in Keys |-> NoEntry] /\ timeouts' = [k \in Keys |-> NoTimer]
      /\ kept' = [c \in CallArgs |-> e]
      /\ now' = now /\ getCalls' = getCalls /\ sets' = sets
  BY DEF ClearMemory
<1>3. timers' = {}
  <2>1. timers' = {t \in timers : \A k \in Keys : t.id # timeouts[k]}
    BY DEF ClearMemory
  <2>2. \A t \in timers : t.key \in Keys /\ timeouts[t.key] = t.id
    BY <1>1 DEF CacheType, TimersInv
  <2> QED BY <2>1, <2>2
<1>4. e \in [value : Results, until : Nat, overflow : BOOLEAN] /\ e.value = NoEntry
  BY DurationAssumption DEF Results
<1> HIDE DEF e
<1>5. NoTimer \in 0 .. sets /\ NoEntry \in Results
  BY <1>1 DEF CacheType, NoTimer, Results
<1>6. CacheType'
  BY <1>1, <1>2, <1>3, <1>4, <1>5 DEF CacheType, Keys, Results
<1>7. TimersInv'
  <2>1. ASSUME NEW l \in Keys PROVE timeouts'[l] = NoTimer
    BY <1>2
  <2> QED BY <1>3, <2>1, Zenon DEF TimersInv, Keys, NoTimer
<1>8. ASSUME NEW b \in CallArgs PROVE EntryInv(b)'
  <2>1. memory'[KeyFor(b)] = NoEntry /\ kept'[b] = e
    BY <1>2, KeyIsKey
  <2> QED BY <1>3, <1>4, <2>1 DEF EntryInv, Alive
<1>9. GetInv'
  BY <1>1, <1>2 DEF GetInv
<1> QED BY <1>6, <1>7, <1>8, <1>9 DEF CacheInv

(* A timer that fires in time finds the entry it was started for, out of     *)
(* date.                                                                     *)
LEMMA TimerStep ==
    ASSUME KeysTellApart, CacheInv, NEW t \in timers, TimerFires(t)
    PROVE  CacheInv'
<1> DEFINE k == t.key
<1>1. CacheType /\ TimersInv /\ GetInv
  BY DEF CacheInv
<1>2. k \in Keys /\ timeouts[k] = t.id /\ t.due \in Nat /\ t.due <= now /\ t.id # NoTimer /\ now \in Nat
  BY <1>1 DEF CacheType, TimersInv, TimerFires, NoTimer
<1>3. /\ memory' = [memory EXCEPT ![k] = NoEntry] /\ timeouts' = [timeouts EXCEPT ![k] = NoTimer]
      /\ timers' = timers \ {t}
      /\ kept' = kept /\ now' = now /\ getCalls' = getCalls /\ sets' = sets
  BY DEF TimerFires
<1> HIDE DEF k
<1>4. NoTimer \in 0 .. sets /\ NoEntry \in Results
  BY <1>1 DEF CacheType, NoTimer, Results
<1>5. CacheType'
  BY <1>1, <1>2, <1>3, <1>4 DEF CacheType, Keys, Results
<1>6. timeouts'[k] = NoTimer /\ \A l \in Keys : l # k => timeouts'[l] = timeouts[l]
  BY <1>1, <1>2, <1>3 DEF CacheType
<1>7. \A s \in timers : s.key = k => s = t
  BY <1>1, <1>2 DEF TimersInv
<1>8. TimersInv'
  <2>1. ASSUME NEW s \in timers' PROVE timeouts'[s.key] = s.id
    BY <1>1, <1>3, <1>6, <1>7, <2>1 DEF TimersInv, CacheType
  <2>2. ASSUME NEW l \in Keys, NEW m \in Keys, timeouts'[l] = timeouts'[m], l # m
        PROVE  timeouts'[l] = NoTimer
    BY <1>1, <1>6, <2>2 DEF TimersInv
  <2>3. \A s, u \in timers' : s.id = u.id => s = u
    BY <1>1, <1>3 DEF TimersInv
  <2> QED BY <2>1, <2>2, <2>3, Zenon DEF TimersInv, Keys, NoTimer
<1>9. ASSUME NEW b \in CallArgs PROVE EntryInv(b)'
  <2> DEFINE l == KeyFor(b)
  <2>1. EntryInv(b) /\ l \in Keys
    BY KeyIsKey DEF CacheInv
  <2>2. CASE l = k
    <3>1. memory'[l] = NoEntry /\ kept'[b] = kept[b] /\ now' = now
      BY <1>1, <1>2, <1>3, <2>2 DEF CacheType
    <3>2. \A s \in timers' : s.key # l
      BY <1>3, <1>7, <2>2
    <3>3. kept[b].until # Forever /\ (~kept[b].overflow => t.due = kept[b].until)
      BY <2>1, <2>2 DEF EntryInv, k
    <3>4. ~kept[b].overflow => ~Alive(kept[b])
      BY <1>2, <3>3 DEF Alive
    <3>5. ~kept[b].overflow => ~Alive(kept[b])'
      BY <3>1, <3>4 DEF Alive
    <3> QED BY <3>1, <3>2, <3>5 DEF EntryInv, Alive
  <2>3. CASE l # k
    <3>1. memory'[l] = memory[l] /\ kept'[b] = kept[b] /\ now' = now
      BY <1>1, <1>3, <2>1, <2>3 DEF CacheType
    <3>2. \A s : s.key = l => (s \in timers' <=> s \in timers)
      BY <1>3, <2>3 DEF k
    <3> QED BY <2>1, <3>1, <3>2 DEF EntryInv, Alive
  <2> QED BY <2>2, <2>3
<1>10. GetInv'
  BY <1>1, <1>3 DEF GetInv
<1> QED BY <1>5, <1>8, <1>9, <1>10 DEF CacheInv

LEMMA TickStep ==
    ASSUME CacheInv, Tick
    PROVE  CacheInv'
<1>1. CacheType /\ TimersInv /\ GetInv
  BY DEF CacheInv
<1>2. /\ now' = now + 1 /\ now \in Nat
      /\ memory' = memory /\ timeouts' = timeouts /\ timers' = timers
      /\ getCalls' = getCalls /\ sets' = sets /\ kept' = kept
  BY <1>1 DEF Tick, CacheType
<1>3. CacheType' /\ TimersInv' /\ GetInv'
  <2>1. now' \in Nat
    BY <1>2
  <2> QED BY <1>1, <1>2, <2>1 DEF CacheType, TimersInv, GetInv, Keys, Results
<1>4. ASSUME NEW b \in CallArgs PROVE EntryInv(b)'
  <2>1. EntryInv(b)
    BY DEF CacheInv
  <2>2. kept[b].until \in Nat
    BY <1>1 DEF CacheType
  <2>3. Alive(kept[b])' => Alive(kept[b])
    BY <1>2, <2>2 DEF Alive
  <2> QED BY <1>2, <2>1, <2>3 DEF EntryInv
<1> QED BY <1>3, <1>4 DEF CacheInv

(* What memory has is what the caller wants: BeginGet is one step.           *)
LEMMA BeginGetStep ==
    ASSUME CacheInv, NEW g \in Gets, NEW c \in CallArgs, BeginGet(g, c)
    PROVE  CacheInv'
<1> DEFINE k == KeyFor(c)
           wanted == IF Alive(kept[c]) /\ ~kept[c].overflow /\ kept[c].value # FalsyValue
                     THEN kept[c].value ELSE NoEntry
           call == IF Truthy(memory[k]) THEN [pc |-> "done", result |-> memory[k], wanted |-> wanted]
                   ELSE [pc |-> "asking", key |-> k, wanted |-> wanted]
<1>1. CacheType /\ TimersInv /\ GetInv /\ EntryInv(c)
  BY DEF CacheInv
<1>2. /\ now' = now /\ memory' = memory /\ timeouts' = timeouts /\ timers' = timers
      /\ sets' = sets /\ kept' = kept /\ getCalls' = [getCalls EXCEPT ![g] = call]
  BY DEF BeginGet
<1>3. wanted # NoEntry => memory[k] = wanted /\ Truthy(wanted)
  BY <1>1 DEF EntryInv, Truthy
<1>4. /\ call.pc = "asking" => call.wanted = NoEntry
      /\ call.pc = "done" /\ call.wanted # NoEntry => call.result = call.wanted
  <2> HIDE DEF wanted
  <2>1. CASE Truthy(memory[k])
    BY <1>3, <2>1
  <2>2. CASE ~Truthy(memory[k])
    BY <1>3, <2>2
  <2> QED BY <2>1, <2>2
<1> HIDE DEF call
<1>5. CacheType' /\ TimersInv'
  BY <1>1, <1>2 DEF CacheType, TimersInv, Keys, Results
<1>6. GetInv'
  <2> SUFFICES ASSUME NEW h \in Gets
               PROVE  /\ getCalls'[h].pc = "asking" => getCalls'[h].wanted = NoEntry
                      /\ getCalls'[h].pc = "done" /\ getCalls'[h].wanted # NoEntry
                            => getCalls'[h].result = getCalls'[h].wanted
    BY DEF GetInv
  <2>1. getCalls'[h] = IF h = g THEN call ELSE getCalls[h]
    BY <1>1, <1>2 DEF CacheType
  <2> QED BY <1>1, <1>4, <2>1 DEF GetInv
<1>7. \A b \in CallArgs : EntryInv(b)'
  BY <1>2 DEF CacheInv, EntryInv, Alive
<1> QED BY <1>5, <1>6, <1>7 DEF CacheInv

LEMMA AskRemoteStep ==
    ASSUME CacheInv, NEW g \in Gets, NEW v \in Results, AskRemote(g, v)
    PROVE  CacheInv'
<1> DEFINE call == [pc |-> "done", wanted |-> getCalls[g].wanted,
                    result |-> IF Truthy(v) THEN v ELSE NoEntry]
<1>1. CacheType /\ TimersInv /\ GetInv
  BY DEF CacheInv
<1>2. /\ now' = now /\ memory' = memory /\ timeouts' = timeouts /\ timers' = timers
      /\ sets' = sets /\ kept' = kept /\ getCalls' = [getCalls EXCEPT ![g] = call]
  BY DEF AskRemote
<1>3. call.pc = "done" /\ call.wanted = NoEntry
  BY <1>1 DEF AskRemote, GetInv
<1> HIDE DEF call
<1>4. CacheType' /\ TimersInv'
  BY <1>1, <1>2 DEF CacheType, TimersInv, Keys, Results
<1>5. GetInv'
  <2> SUFFICES ASSUME NEW h \in Gets
               PROVE  /\ getCalls'[h].pc = "asking" => getCalls'[h].wanted = NoEntry
                      /\ getCalls'[h].pc = "done" /\ getCalls'[h].wanted # NoEntry
                            => getCalls'[h].result = getCalls'[h].wanted
    BY DEF GetInv
  <2>1. getCalls'[h] = IF h = g THEN call ELSE getCalls[h]
    BY <1>1, <1>2 DEF CacheType
  <2> QED BY <1>1, <1>3, <2>1 DEF GetInv
<1>6. \A b \in CallArgs : EntryInv(b)'
  BY <1>2 DEF CacheInv, EntryInv, Alive
<1> QED BY <1>4, <1>5, <1>6 DEF CacheInv

LEMMA CacheInitially == ASSUME CacheInit PROVE CacheInv
<1> USE DEF CacheInit
<1>1. CacheType
  BY DurationAssumption DEF CacheType, NoTimer, Results
<1>2. TimersInv
  BY DEF TimersInv, NoTimer
<1>3. ASSUME NEW c \in CallArgs PROVE EntryInv(c)
  BY KeyIsKey DEF EntryInv, Alive
<1>4. GetInv
  BY DEF GetInv
<1> QED BY <1>1, <1>2, <1>3, <1>4 DEF CacheInv

LEMMA CacheStep ==
    ASSUME KeysTellApart, CacheInv, [CacheNext]_cacheVars
    PROVE  CacheInv'
<1>1. CASE \E c \in CallArgs : DeleteEntry(c)
  BY <1>1, DeleteStep
<1>2. CASE \E c \in CallArgs, v \in StoredValues \cup {FalsyValue}, d \in Durations \cup {Forever} : SetEntry(c, v, d)
  BY <1>2, SetStep
<1>3. CASE ClearMemory
  BY <1>3, ClearStep
<1>4. CASE Tick
  BY <1>4, TickStep
<1>5. CASE \E t \in timers : TimerFires(t)
  BY <1>5, TimerStep
<1>6. CASE \E g \in Gets : (\E c \in CallArgs : BeginGet(g, c)) \/ (\E v \in Results : AskRemote(g, v))
  BY <1>6, BeginGetStep, AskRemoteStep
<1>7. CASE UNCHANGED cacheVars
  BY <1>7 DEF cacheVars, CacheInv, CacheType, TimersInv, EntryInv, GetInv, Alive, Keys, Results
<1> QED BY <1>1, <1>2, <1>3, <1>4, <1>5, <1>6, <1>7 DEF CacheNext

LEMMA CacheInvImplies == ASSUME CacheInv PROVE EntriesAreKept
<1>1. ASSUME NEW c \in CallArgs, memory[KeyFor(c)] # NoEntry, kept[c].until # Forever
      PROVE  \E t \in timers : t.key = KeyFor(c) /\ t.due <= kept[c].until
  BY <1>1 DEF CacheInv, EntryInv
<1> QED BY <1>1 DEF EntriesAreKept, CacheInv, EntryInv, GetInv

(* MemoryCache and CascadingCache, for any number of callers, durations and  *)
(* timers: if the keys of the callers tell them apart, then an entry stays   *)
(* until it is deleted, replaced or out of date, it has the timer that ends  *)
(* it, and a get() returns what its caller had stored.                       *)
THEOREM EntriesAreKeptAlways ==
    ASSUME KeysTellApart
    PROVE  CacheSpec => []EntriesAreKept
<1>1. CacheInit => CacheInv
  BY CacheInitially
<1>2. CacheInv /\ [CacheNext]_cacheVars => CacheInv'
  BY CacheStep
<1>3. CacheInv => EntriesAreKept
  BY CacheInvImplies
<1> QED BY <1>1, <1>2, <1>3, PTL DEF CacheSpec

-------------------------------------------------------------------------------
(* dequeueReplay().  The calls under way: each is of one subscriber, or      *)
(* delivers a value of its own.                                              *)
Frames == ToSet(calls)
CallFrames == [op : {"call"}, who : Subscribers, inCallback : BOOLEAN]
ReplayFrames == [op : {"replay"}, who : Subscribers, at : Nat \ {0}, upto : Nat, inCallback : BOOLEAN]
NextFrames == [op : {"next"}, value : Nat, to : Seq(Subscribers), inCallback : BOOLEAN]
AnyFrames == CallFrames \cup ReplayFrames \cup NextFrames
SameCall(c, d) ==
    \/ c.op = "next" /\ d.op = "next" /\ c.value = d.value
    \/ c.op # "next" /\ d.op # "next" /\ c.who = d.who
Distinct(stack) == \A i, j \in DOMAIN stack : i # j => ~SameCall(stack[i], stack[j])

ReplayType ==
    /\ queued \in Seq(Nat) /\ sent \in Seq(Nat) /\ observers \in Seq(Subscribers) /\ stopped \in BOOLEAN
    /\ trigger \in {"none", "open", "closed"}
    /\ calls \in Seq(AnyFrames)
    /\ subscriber \in [Subscribers -> {"new", "calling", "replaying", "subscribed", "completed", "left"}]
    /\ got \in [Subscribers -> Seq(Nat)]
    /\ owed \in [Subscribers -> SUBSET Nat]
    /\ disturbed \subseteq Subscribers

(* The queue has what the trigger has not named, in the order of emission.   *)
QueueInv ==
    /\ \A i \in 1 .. Len(sent) : sent[i] = i
    /\ InOrder(queued)
    /\ ToSet(queued) = Unnamed
    /\ trigger = "none" => sent = <<>>
    /\ named \subseteq ToSet(sent)

(* Calls and observers agree with how far the subscriptions are.             *)
Linked(s) == subscriber[s] \in {"subscribed", "completed", "left"}
ObserversInv ==
    /\ IsInjective(observers)
    /\ ToSet(observers) = {s \in Subscribers : subscriber[s] = "subscribed"}
    /\ stopped => observers = <<>>
FramesInv ==
    /\ Distinct(calls)
    /\ \A c \in Frames :
         /\ c.op = "call" => subscriber[c.who] = "calling"
         /\ c.op = "replay" => subscriber[c.who] = "replaying"
         /\ c.op = "next" => /\ c.value \in ToSet(sent)
                             /\ IsInjective(c.to)
                             /\ \A s \in ToSet(c.to) : Linked(s)

(* No value reaches a subscriber twice, not even one that is disturbed: what *)
(* is still to be replayed is later than what it has got, and what has still *)
(* to be delivered to it is not among that.                                  *)
OnceInv ==
    /\ \A s \in Subscribers :
         /\ IsInjective(got[s]) /\ ToSet(got[s]) \subseteq ToSet(sent)
         /\ subscriber[s] \in {"new", "calling"} => got[s] = <<>>
    /\ \A c \in Frames :
         /\ c.op = "replay" =>
              \A v \in ToSet(got[c.who]), j \in c.at .. Len(queued) : v < queued[j]
         /\ c.op = "next" => \A s \in ToSet(c.to) : c.value \notin ToSet(got[s])

(* A subscriber that is not disturbed has what it should have up to where    *)
(* its replay is, then all but the value that is being delivered to it.      *)
Pending(s) == {c \in Frames : c.op = "next" /\ s \in ToSet(c.to)}
SubscriberInv(s) ==
    /\ InOrder(got[s]) /\ ToSet(got[s]) \subseteq owed[s]
    /\ \A v \in ToSet(got[s]), u \in owed[s] : u < v => u \in ToSet(got[s])
    /\ subscriber[s] = "replaying" => owed[s] = ToSet(queued)
    /\ \A c \in Pending(s) :
         /\ owed[s] = ToSet(got[s]) \cup {c.value}
         /\ subscriber[s] # "completed"
         /\ \A u \in ToSet(got[s]) : u < c.value
         /\ \A d \in Pending(s) : c = d
    /\ subscriber[s] \in {"subscribed", "completed"} /\ Pending(s) = {} => ToSet(got[s]) = owed[s]
    /\ owed[s] \subseteq ToSet(sent)
Replayed(seq, at) == {seq[i] : i \in 1 .. at - 1}
UndisturbedInv ==
    /\ \A s \in Subscribers \ disturbed : SubscriberInv(s)
    /\ \A c \in Frames : c.op = "replay" /\ c.who \notin disturbed =>
         /\ c.upto = Len(queued) /\ c.at <= c.upto + 1
         /\ ToSet(got[c.who]) = Replayed(queued, c.at)

ReplayInv == ReplayType /\ QueueInv /\ ObserversInv /\ FramesInv /\ OnceInv /\ UndisturbedInv

(* A value appended, taken from the front or removed.                        *)
LEMMA Appended ==
    ASSUME NEW T, NEW s \in Seq(T), NEW e \in T
    PROVE  /\ Append(s, e) \in Seq(T)
           /\ ToSet(Append(s, e)) = ToSet(s) \cup {e}
           /\ IsInjective(s) /\ e \notin ToSet(s) => IsInjective(Append(s, e))
<1> DEFINE r == Append(s, e)
<1>1. /\ r \in Seq(T) /\ Len(r) = Len(s) + 1
      /\ \A i \in 1 .. Len(s) : r[i] = s[i]
      /\ r[Len(s) + 1] = e
      /\ DOMAIN r = 1 .. Len(s) + 1 /\ DOMAIN s = 1 .. Len(s) /\ Len(s) \in Nat
  BY AppendProperties
<1> HIDE DEF r
<1>2. ToSet(r) = ToSet(s) \cup {e}
  <2>1. ASSUME NEW x \in ToSet(r) PROVE x \in ToSet(s) \cup {e}
    <3>1. PICK i \in 1 .. Len(s) + 1 : x = r[i]
      BY <1>1 DEF ToSet
    <3>2. CASE i \in 1 .. Len(s)
      BY <1>1, <3>1, <3>2 DEF ToSet
    <3>3. CASE i = Len(s) + 1
      BY <1>1, <3>1, <3>3
    <3> QED BY <1>1, <3>2, <3>3
  <2>2. ASSUME NEW x \in ToSet(s) PROVE x \in ToSet(r)
    <3>1. PICK i \in 1 .. Len(s) : x = s[i]
      BY <1>1 DEF ToSet
    <3>2. i \in DOMAIN r /\ r[i] = x
      BY <1>1, <3>1
    <3> QED BY <3>2 DEF ToSet
  <2>3. e \in ToSet(r)
    <3>1. Len(s) + 1 \in DOMAIN r
      BY <1>1
    <3> QED BY <1>1, <3>1 DEF ToSet
  <2> QED BY <2>1, <2>2, <2>3
<1>3. ASSUME IsInjective(s), e \notin ToSet(s) PROVE IsInjective(r)
  <2>1. \A i \in 1 .. Len(s) : s[i] # e
    BY <1>1, <1>3 DEF ToSet
  <2>2. ASSUME NEW i \in 1 .. Len(s) + 1, NEW j \in 1 .. Len(s) + 1, r[i] = r[j] PROVE i = j
    BY <1>1, <1>3, <2>1, <2>2 DEF IsInjective
  <2> QED BY <1>1, <2>2 DEF IsInjective
<1> QED BY <1>1, <1>2, <1>3 DEF r

LEMMA AppendedInOrder ==
    ASSUME NEW s \in Seq(Nat), NEW e \in Nat, InOrder(s), \A v \in ToSet(s) : v < e
    PROVE  InOrder(Append(s, e))
<1> DEFINE r == Append(s, e)
<1>1. /\ Len(r) = Len(s) + 1
      /\ \A i \in 1 .. Len(s) : r[i] = s[i]
      /\ r[Len(s) + 1] = e
      /\ DOMAIN r = 1 .. Len(s) + 1 /\ DOMAIN s = 1 .. Len(s) /\ Len(s) \in Nat
  BY AppendProperties
<1> HIDE DEF r
<1>2. \A i \in 1 .. Len(s) : s[i] < e
  BY <1>1 DEF ToSet
<1>3. ASSUME NEW i \in 1 .. Len(s) + 1, NEW j \in 1 .. Len(s) + 1, i < j PROVE r[i] < r[j]
  <2>1. i \in 1 .. Len(s) /\ r[i] = s[i]
    BY <1>1, <1>3
  <2>2. CASE j = Len(s) + 1
    BY <1>1, <1>2, <2>1, <2>2
  <2>3. CASE j # Len(s) + 1
    <3>1. j \in 1 .. Len(s) /\ r[j] = s[j]
      BY <1>1, <1>3, <2>3
    <3> QED BY <1>1, <1>3, <2>1, <3>1 DEF InOrder
  <2> QED BY <2>2, <2>3
<1>4. DOMAIN r = 1 .. Len(s) + 1
  BY <1>1
<1>5. InOrder(r)
  BY <1>3, <1>4 DEF InOrder
<1> QED BY <1>5 DEF r

LEMMA InOrderInjective ==
    ASSUME NEW s \in Seq(Nat), InOrder(s)
    PROVE  IsInjective(s)
<1>1. DOMAIN s = 1 .. Len(s) /\ Len(s) \in Nat /\ \A i \in DOMAIN s : s[i] \in Nat
  OBVIOUS
<1>2. ASSUME NEW i \in DOMAIN s, NEW j \in DOMAIN s, s[i] = s[j] PROVE i = j
  BY <1>1, <1>2 DEF InOrder
<1> QED BY <1>2 DEF IsInjective

LEMMA Removed ==
    ASSUME NEW T, NEW s \in Seq(T), NEW v, IsInjective(s)
    PROVE  /\ RemoveFirst(s, v) \in Seq(T)
           /\ ToSet(RemoveFirst(s, v)) = ToSet(s) \ {v}
           /\ IsInjective(RemoveFirst(s, v))
           /\ \A j \in 1 .. Len(RemoveFirst(s, v)) : \E k \in j .. Len(s) : RemoveFirst(s, v)[j] = s[k]
           /\ v \notin ToSet(s) => RemoveFirst(s, v) = s
           /\ T \subseteq Nat /\ InOrder(s) => InOrder(RemoveFirst(s, v))
<1> DEFINE r == RemoveFirst(s, v)
<1>1. DOMAIN s = 1 .. Len(s) /\ Len(s) \in Nat
  OBVIOUS
<1>2. CASE v \notin ToSet(s)
  <2>1. r = s
    BY <1>1, <1>2 DEF RemoveFirst, ToSet
  <2>2. \A j \in 1 .. Len(s) : j \in j .. Len(s)
    BY <1>1
  <2> HIDE DEF r
  <2>3. \A j \in 1 .. Len(r) : \E k \in j .. Len(s) : r[j] = s[k]
    BY <2>1, <2>2
  <2> QED BY <1>2, <2>1, <2>3 DEF r
<1>3. CASE v \in ToSet(s)
  <2>1. PICK i \in 1 .. Len(s) : s[i] = v
    BY <1>1, <1>3 DEF ToSet
  <2>2. SelectInSeq(s, LAMBDA w : w = v) = i
    <3>1. {j \in 1 .. Len(s) : s[j] = v} = {i}
      BY <1>1, <2>1 DEF IsInjective
    <3>2. Min({i}) = i
      BY DEF Min
    <3> QED BY <3>1, <3>2 DEF SelectInSeq
  <2>3. r = SubSeq(s, 1, i - 1) \o SubSeq(s, i + 1, Len(s))
    BY <2>1, <2>2 DEF RemoveFirst, RemoveAt
  <2>4. /\ SubSeq(s, 1, i - 1) \in Seq(T) /\ Len(SubSeq(s, 1, i - 1)) = i - 1
        /\ \A j \in 1 .. i - 1 : SubSeq(s, 1, i - 1)[j] = s[j]
    BY <1>1, <2>1
  <2>5. /\ SubSeq(s, i + 1, Len(s)) \in Seq(T) /\ Len(SubSeq(s, i + 1, Len(s))) = Len(s) - i
        /\ \A j \in 1 .. Len(s) - i : SubSeq(s, i + 1, Len(s))[j] = s[i + j]
    <3>1. PICK m \in Int : m = i + 1
      BY <2>1
    <3>2. \A j \in m .. Len(s) : s[j] \in T
      BY <1>1, <2>1, <3>1
    <3>3. /\ SubSeq(s, m, Len(s)) \in Seq(T)
          /\ Len(SubSeq(s, m, Len(s))) = IF m <= Len(s) THEN Len(s) - m + 1 ELSE 0
          /\ \A j \in 1 .. Len(s) - m + 1 : SubSeq(s, m, Len(s))[j] = s[m + j - 1]
      <4> DEFINE l == Len(s)
      <4>1. l \in Int
        BY <1>1
      <4> HIDE DEF l
      <4>2. \A j \in m .. l : s[j] \in T
        BY <3>2 DEF l
      <4>3. /\ SubSeq(s, m, l) \in Seq(T) /\ Len(SubSeq(s, m, l)) = IF m <= l THEN l - m + 1 ELSE 0
            /\ \A j \in 1 .. l - m + 1 : SubSeq(s, m, l)[j] = s[m + j - 1]
        BY <4>1, <4>2, SubSeqProperties, Z3
      <4> QED BY <4>3 DEF l
    <3>4. Len(s) - m + 1 = Len(s) - i /\ (m <= Len(s) \/ Len(s) - i = 0)
      <4> DEFINE l == Len(s)
      <4>1. l \in Nat /\ i \in 1 .. l
        BY <1>1, <2>1
      <4> HIDE DEF l
      <4>2. l - (i + 1) + 1 = l - i /\ (i + 1 <= l \/ l - i = 0)
        BY <4>1
      <4> QED BY <3>1, <4>2 DEF l
    <3>5. ASSUME NEW j \in 1 .. Len(s) - i PROVE SubSeq(s, m, Len(s))[j] = s[i + j]
      <4>1. m + j - 1 = i + j
        BY <3>1, <2>1
      <4> QED BY <3>3, <3>4, <4>1
    <3> QED BY <3>1, <3>3, <3>4, <3>5
  <2>6. /\ r \in Seq(T) /\ Len(r) = Len(s) - 1
        /\ \A j \in 1 .. Len(s) - 1 : r[j] = IF j < i THEN s[j] ELSE s[j + 1]
    <3> DEFINE a == SubSeq(s, 1, i - 1)
               b == SubSeq(s, i + 1, Len(s))
    <3>1. /\ a \in Seq(T) /\ b \in Seq(T) /\ Len(a) = i - 1 /\ Len(b) = Len(s) - i
          /\ \A j \in 1 .. i - 1 : a[j] = s[j]
          /\ \A j \in 1 .. Len(s) - i : b[j] = s[i + j]
          /\ r = a \o b
      BY <2>3, <2>4, <2>5
    <3> HIDE DEF a, b, r
    <3>2. /\ r \in Seq(T) /\ Len(r) = Len(a) + Len(b)
          /\ \A j \in 1 .. Len(a) + Len(b) : r[j] = IF j <= Len(a) THEN a[j] ELSE b[j - Len(a)]
      BY <3>1, ConcatProperties
    <3>3. ASSUME NEW j \in 1 .. Len(s) - 1 PROVE r[j] = IF j < i THEN s[j] ELSE s[j + 1]
      <4>1. j \in 1 .. Len(a) + Len(b) /\ (j <= Len(a) <=> j < i) /\ (~(j < i) => j - Len(a) \in 1 .. Len(s) - i)
        BY <1>1, <2>1, <3>1
      <4>2. ~(j < i) => i + (j - Len(a)) = j + 1
        BY <1>1, <2>1, <3>1
      <4> QED BY <1>1, <2>1, <3>1, <3>2, <4>1, <4>2
    <3> QED BY <1>1, <2>1, <3>1, <3>2, <3>3
  <2> HIDE DEF r
  <2>7. DOMAIN r = 1 .. Len(s) - 1
    BY <2>6
  <2>8. ToSet(r) = ToSet(s) \ {v}
    <3>1. ASSUME NEW x \in ToSet(r) PROVE x \in ToSet(s) \ {v}
      <4>1. PICK j \in 1 .. Len(s) - 1 : x = r[j]
        BY <2>7 DEF ToSet
      <4>2. PICK k \in 1 .. Len(s) : k # i /\ x = s[k]
        BY <1>1, <2>1, <2>6, <4>1
      <4> QED BY <1>1, <2>1, <4>2 DEF ToSet, IsInjective
    <3>2. ASSUME NEW x \in ToSet(s), x # v PROVE x \in ToSet(r)
      <4>1. PICK k \in 1 .. Len(s) : x = s[k]
        BY <1>1 DEF ToSet
      <4>2. CASE k < i
        <5>1. k \in 1 .. Len(s) - 1 /\ r[k] = x
          BY <1>1, <2>1, <2>6, <4>1, <4>2
        <5> QED BY <2>7, <5>1 DEF ToSet
      <4>3. CASE k > i
        <5>1. k - 1 \in 1 .. Len(s) - 1 /\ r[k - 1] = x
          BY <1>1, <2>1, <2>6, <4>1, <4>3
        <5> QED BY <2>7, <5>1 DEF ToSet
      <4> QED BY <2>1, <3>2, <4>1, <4>2, <4>3
    <3> QED BY <3>1, <3>2
  <2> DEFINE at(j) == IF j < i THEN j ELSE j + 1
  <2>12. ASSUME NEW j \in 1 .. Len(s) - 1 PROVE at(j) \in DOMAIN s /\ r[j] = s[at(j)]
    <3>1. r[j] = IF j < i THEN s[j] ELSE s[j + 1]
      BY <2>6
    <3>2. j \in 1 .. Len(s) /\ j + 1 \in 1 .. Len(s) /\ DOMAIN s = 1 .. Len(s)
      BY <1>1
    <3> QED BY <3>1, <3>2
  <2>13. \A j, k \in 1 .. Len(s) - 1 : (at(j) = at(k) => j = k) /\ (j < k => at(j) < at(k))
    BY <1>1, <2>1
  <2> HIDE DEF at
  <2>9. ASSUME NEW j \in 1 .. Len(s) - 1, NEW k \in 1 .. Len(s) - 1, r[j] = r[k] PROVE j = k
    BY <2>9, <2>12, <2>13 DEF IsInjective
  <2>10. \A j \in 1 .. Len(r) : \E k \in j .. Len(s) : r[j] = s[k]
    BY <1>1, <2>1, <2>6, Z3
  <2>11. ASSUME T \subseteq Nat, InOrder(s), NEW j \in 1 .. Len(s) - 1, NEW k \in 1 .. Len(s) - 1, j < k
         PROVE  r[j] < r[k]
    BY <2>11, <2>12, <2>13 DEF InOrder
  <2> QED BY <1>3, <2>6, <2>7, <2>8, <2>9, <2>10, <2>11 DEF r, IsInjective, InOrder
<1> QED BY <1>2, <1>3

LEMMA Pushed ==
    ASSUME NEW T, NEW s \in Seq(T), NEW c \in T
    PROVE  /\ <<c>> \o s \in Seq(T)
           /\ <<c>> \o s # <<>>
           /\ ToSet(<<c>> \o s) = {c} \cup ToSet(s)
           /\ Distinct(s) /\ (\A d \in ToSet(s) : ~SameCall(c, d)) => Distinct(<<c>> \o s)
<1> DEFINE r == <<c>> \o s
<1>1. /\ r \in Seq(T) /\ Len(r) = Len(s) + 1 /\ r[1] = c
      /\ \A i \in 2 .. Len(s) + 1 : r[i] = s[i - 1]
      /\ DOMAIN r = 1 .. Len(s) + 1 /\ DOMAIN s = 1 .. Len(s) /\ Len(s) \in Nat
  OBVIOUS
<1> HIDE DEF r
<1>2. ToSet(r) = {c} \cup ToSet(s)
  <2>1. ASSUME NEW x \in ToSet(r) PROVE x \in {c} \cup ToSet(s)
    <3>1. PICK i \in 1 .. Len(s) + 1 : x = r[i]
      BY <1>1 DEF ToSet
    <3>2. i # 1 => i - 1 \in DOMAIN s /\ x = s[i - 1]
      BY <1>1, <3>1
    <3> QED BY <1>1, <3>1, <3>2 DEF ToSet
  <2>2. ASSUME NEW x \in ToSet(s) PROVE x \in ToSet(r)
    <3>1. PICK i \in 1 .. Len(s) : x = s[i]
      BY <1>1 DEF ToSet
    <3>2. i + 1 \in DOMAIN r /\ r[i + 1] = x
      BY <1>1, <3>1
    <3> QED BY <3>2 DEF ToSet
  <2>3. c \in ToSet(r)
    <3>1. 1 \in DOMAIN r
      BY <1>1
    <3> QED BY <1>1, <3>1 DEF ToSet
  <2> QED BY <2>1, <2>2, <2>3
<1>3. ASSUME Distinct(s), \A d \in ToSet(s) : ~SameCall(c, d), NEW i \in DOMAIN r, NEW j \in DOMAIN r, i # j
      PROVE  ~SameCall(r[i], r[j])
  <2>1. CASE i = 1
    <3>1. j - 1 \in DOMAIN s /\ r[j] = s[j - 1]
      BY <1>1, <1>3, <2>1
    <3> QED BY <1>1, <1>3, <2>1, <3>1 DEF ToSet
  <2>2. CASE j = 1
    <3>1. i - 1 \in DOMAIN s /\ r[i] = s[i - 1]
      BY <1>1, <1>3, <2>2
    <3>2. ~SameCall(c, r[i])
      BY <1>3, <3>1 DEF ToSet
    <3> QED BY <1>1, <2>2, <3>2 DEF SameCall
  <2>3. CASE i # 1 /\ j # 1
    <3>1. i - 1 \in DOMAIN s /\ r[i] = s[i - 1] /\ j - 1 \in DOMAIN s /\ r[j] = s[j - 1] /\ i - 1 # j - 1
      BY <1>1, <1>3, <2>3
    <3> QED BY <1>3, <3>1 DEF Distinct
  <2> QED BY <2>1, <2>2, <2>3
<1>4. r # <<>>
  BY <1>1
<1> QED BY <1>1, <1>2, <1>3, <1>4 DEF r, Distinct

LEMMA Popped ==
    ASSUME NEW T, NEW s \in Seq(T), s # <<>>
    PROVE  /\ Head(s) \in T /\ Tail(s) \in Seq(T)
           /\ ToSet(s) = {Head(s)} \cup ToSet(Tail(s))
           /\ Distinct(s) => Distinct(Tail(s)) /\ \A d \in ToSet(Tail(s)) : ~SameCall(Head(s), d)
           /\ IsInjective(s) => IsInjective(Tail(s)) /\ Head(s) \notin ToSet(Tail(s))
<1> DEFINE r == Tail(s)
<1>1. /\ r \in Seq(T) /\ Len(s) = Len(r) + 1 /\ s[1] = Head(s) /\ Head(s) \in T
      /\ \A i \in 1 .. Len(r) : r[i] = s[i + 1]
      /\ DOMAIN r = 1 .. Len(r) /\ DOMAIN s = 1 .. Len(r) + 1 /\ Len(r) \in Nat
  OBVIOUS
<1> HIDE DEF r
<1>2. \A i \in DOMAIN r : i + 1 \in DOMAIN s /\ i + 1 # 1 /\ r[i] = s[i + 1]
  BY <1>1
<1>3. ToSet(s) = {Head(s)} \cup ToSet(r)
  <2>1. ASSUME NEW x \in ToSet(s) PROVE x \in {Head(s)} \cup ToSet(r)
    <3>1. PICK i \in 1 .. Len(r) + 1 : x = s[i]
      BY <1>1 DEF ToSet
    <3>2. i # 1 => i - 1 \in DOMAIN r /\ x = r[i - 1]
      BY <1>1, <3>1
    <3> QED BY <1>1, <3>1, <3>2 DEF ToSet
  <2>2. 1 \in DOMAIN s
    BY <1>1
  <2> QED BY <1>1, <1>2, <2>1, <2>2 DEF ToSet
<1>4. ASSUME Distinct(s) PROVE Distinct(r) /\ \A d \in ToSet(r) : ~SameCall(Head(s), d)
  <2>1. 1 \in DOMAIN s
    BY <1>1
  <2>2. \A i, j \in DOMAIN r : i # j => i + 1 # j + 1
    BY <1>1
  <2> QED BY <1>1, <1>2, <1>4, <2>1, <2>2 DEF Distinct, ToSet
<1>5. ASSUME IsInjective(s) PROVE IsInjective(r) /\ Head(s) \notin ToSet(r)
  <2>1. 1 \in DOMAIN s
    BY <1>1
  <2>2. \A i, j \in DOMAIN r : i + 1 = j + 1 => i = j
    BY <1>1
  <2>3. IsInjective(r)
    BY <1>2, <1>5, <2>2 DEF IsInjective
  <2>4. \A i \in DOMAIN r : r[i] # s[1]
    BY <1>2, <1>5, <2>1 DEF IsInjective
  <2> QED BY <1>1, <2>3, <2>4 DEF ToSet
<1> QED BY <1>1, <1>3, <1>4, <1>5 DEF r

(* What is on the stack: a call is made, goes on, or ends.                   *)
LEMMA CallMade ==
    ASSUME calls \in Seq(AnyFrames), Distinct(calls), NEW c \in AnyFrames, \A d \in Frames : ~SameCall(c, d),
           calls' = <<c>> \o calls
    PROVE  /\ calls' \in Seq(AnyFrames) /\ Distinct(calls')
           /\ Frames' = {c} \cup Frames
BY Pushed DEF Frames

LEMMA CallGoesOn ==
    ASSUME calls \in Seq(AnyFrames), Distinct(calls), calls # <<>>, NEW c \in AnyFrames,
           \A d \in AnyFrames : SameCall(c, d) => SameCall(Head(calls), d),
           calls' = <<c>> \o Tail(calls)
    PROVE  /\ calls' \in Seq(AnyFrames) /\ Distinct(calls') /\ calls' # <<>>
           /\ Frames = {Head(calls)} \cup ToSet(Tail(calls))
           /\ Frames' = {c} \cup ToSet(Tail(calls))
           /\ \A d \in ToSet(Tail(calls)) : d \in AnyFrames /\ ~SameCall(Head(calls), d)
<1>1. /\ Head(calls) \in AnyFrames /\ Tail(calls) \in Seq(AnyFrames) /\ Distinct(Tail(calls))
      /\ Frames = {Head(calls)} \cup ToSet(Tail(calls))
      /\ \A d \in ToSet(Tail(calls)) : ~SameCall(Head(calls), d)
  BY Popped DEF Frames
<1>2. \A d \in ToSet(Tail(calls)) : d \in AnyFrames
  BY <1>1 DEF ToSet
<1>3. \A d \in ToSet(Tail(calls)) : ~SameCall(c, d)
  BY <1>1, <1>2
<1>4. /\ calls' \in Seq(AnyFrames) /\ Distinct(calls') /\ calls' # <<>>
      /\ Frames' = {c} \cup ToSet(Tail(calls))
  BY <1>1, <1>3, Pushed DEF Frames
<1> QED BY <1>1, <1>2, <1>4

LEMMA CallEnds ==
    ASSUME calls \in Seq(AnyFrames), Distinct(calls), calls # <<>>, calls' = Tail(calls)
    PROVE  /\ calls' \in Seq(AnyFrames) /\ Distinct(calls')
           /\ Frames = {Head(calls)} \cup Frames'
           /\ \A d \in Frames' : ~SameCall(Head(calls), d)
BY Popped DEF Frames

LEMMA FrameFacts ==
    ASSUME ReplayInv
    PROVE  /\ \A c \in Frames : c \in AnyFrames
           /\ \A c \in Frames : c.op = "call" => c \in CallFrames
           /\ \A c \in Frames : c.op = "replay" => c \in ReplayFrames
           /\ \A c \in Frames : c.op = "next" => c \in NextFrames
           /\ calls \in Seq(AnyFrames) /\ Distinct(calls)
           /\ calls # <<>> => Head(calls) \in Frames
<1>1. calls \in Seq(AnyFrames) /\ Distinct(calls)
  BY DEF ReplayInv, ReplayType, FramesInv
<1>2. \A c \in Frames : c \in AnyFrames
  BY <1>1 DEF Frames, ToSet
<1>3. calls # <<>> => Head(calls) \in Frames
  BY <1>1, Popped DEF Frames
<1> QED BY <1>1, <1>2, <1>3 DEF AnyFrames, CallFrames, ReplayFrames, NextFrames

LEMMA NothingPending ==
    ASSUME ReplayInv, NEW s \in Subscribers, ~Linked(s)
    PROVE  Pending(s) = {}
BY DEF ReplayInv, FramesInv, Pending

LEMMA ReplayInitially == ASSUME ReplayInit PROVE ReplayInv
<1> USE DEF ReplayInit
<1>1. Frames = {}
  BY DEF Frames, ToSet
<1>2. ReplayType
  <2>1. calls \in Seq(AnyFrames) /\ queued \in Seq(Nat) /\ sent \in Seq(Nat) /\ observers \in Seq(Subscribers)
    OBVIOUS
  <2>2. got \in [Subscribers -> Seq(Nat)] /\ owed \in [Subscribers -> SUBSET Nat]
    OBVIOUS
  <2> QED BY <2>1, <2>2 DEF ReplayType
<1>3. QueueInv
  BY DEF QueueInv, InOrder, Unnamed, ToSet
<1>4. ObserversInv
  BY DEF ObserversInv, IsInjective, ToSet
<1>5. FramesInv
  BY <1>1 DEF FramesInv, Distinct
<1>6. OnceInv
  BY <1>1 DEF OnceInv, IsInjective, ToSet
<1>7. ASSUME NEW s \in Subscribers PROVE SubscriberInv(s)
  BY <1>1 DEF SubscriberInv, Pending, InOrder, ToSet
<1> QED BY <1>1, <1>2, <1>3, <1>4, <1>5, <1>6, <1>7 DEF ReplayInv, UndisturbedInv

LEMMA CallStep ==
    ASSUME ReplayInv, NEW s \in Subscribers, Call(s)
    PROVE  ReplayInv'
<1>1. ReplayType /\ QueueInv /\ ObserversInv /\ FramesInv /\ OnceInv /\ UndisturbedInv
  BY DEF ReplayInv
<1> DEFINE c == [op |-> "call", who |-> s, inCallback |-> ~linked]
<1>2. /\ subscriber[s] = "new" /\ calls' = <<c>> \o calls
      /\ subscriber' = [subscriber EXCEPT ![s] = "calling"]
      /\ queued' = queued /\ trigger' = trigger /\ stopped' = stopped /\ observers' = observers
      /\ sent' = sent /\ named' = named /\ got' = got /\ owed' = owed /\ disturbed' = disturbed
  BY DEF Call
<1>3. c \in CallFrames /\ c.op = "call" /\ c.who = s
  BY DEF CallFrames
<1> HIDE DEF c
<1>4. \A d \in Frames : ~SameCall(c, d)
  BY <1>1, <1>2, <1>3, FrameFacts DEF SameCall, FramesInv, AnyFrames, CallFrames, ReplayFrames, NextFrames
<1>5. calls' \in Seq(AnyFrames) /\ Distinct(calls') /\ Frames' = {c} \cup Frames
  BY <1>2, <1>3, <1>4, FrameFacts, CallMade DEF AnyFrames
<1>6. subscriber'[s] = "calling" /\ \A t \in Subscribers : t # s => subscriber'[t] = subscriber[t]
  BY <1>1, <1>2 DEF ReplayType
<1>7. ReplayType'
  BY <1>1, <1>2, <1>5 DEF ReplayType
<1>8. QueueInv'
  BY <1>1, <1>2 DEF QueueInv, Unnamed
<1>9. ObserversInv'
  BY <1>1, <1>2, <1>6 DEF ObserversInv
<1>10. FramesInv'
  BY <1>1, <1>2, <1>3, <1>5, <1>6 DEF FramesInv, Linked
<1>11. OnceInv'
  BY <1>1, <1>2, <1>3, <1>5, <1>6 DEF OnceInv
<1>12. UndisturbedInv'
  <2>1. ASSUME NEW t \in Subscribers \ disturbed PROVE SubscriberInv(t)'
    <3>1. SubscriberInv(t) /\ Pending(t)' = Pending(t)
      BY <1>1, <1>2, <1>3, <1>5 DEF UndisturbedInv, Pending
    <3>2. t = s => Pending(t) = {}
      BY <1>2, NothingPending DEF Linked
    <3> QED BY <1>2, <1>6, <3>1, <3>2 DEF SubscriberInv
  <2> QED BY <1>1, <1>2, <1>3, <1>5, <2>1 DEF UndisturbedInv
<1> QED BY <1>7, <1>8, <1>9, <1>10, <1>11, <1>12 DEF ReplayInv

LEMMA SubscribeStep ==
    ASSUME ReplayInv, Subscribe
    PROVE  ReplayInv'
<1>1. ReplayType /\ QueueInv /\ ObserversInv /\ FramesInv /\ OnceInv /\ UndisturbedInv
  BY DEF ReplayInv
<1> DEFINE s == Head(calls).who
           c == [op |-> "replay", who |-> s, at |-> 1, upto |-> Len(queued), inCallback |-> FALSE]
           rest == ToSet(Tail(calls))
<1>2. /\ calls # <<>> /\ Head(calls) \in Frames /\ Head(calls).op = "call" /\ Head(calls) \in CallFrames
      /\ calls' = <<c>> \o Tail(calls)
      /\ subscriber' = [subscriber EXCEPT ![s] = "replaying"]
      /\ owed' = [owed EXCEPT ![s] = Unnamed]
      /\ queued' = queued /\ trigger' = trigger /\ stopped' = stopped /\ observers' = observers
      /\ sent' = sent /\ named' = named /\ got' = got /\ disturbed' = disturbed
  BY FrameFacts DEF Subscribe, Top
<1>3. s \in Subscribers /\ subscriber[s] = "calling" /\ got[s] = <<>>
  BY <1>1, <1>2 DEF CallFrames, FramesInv, OnceInv
<1>4. c \in ReplayFrames /\ c.op = "replay" /\ c.who = s /\ c.at = 1 /\ c.upto = Len(queued)
  BY <1>1, <1>3 DEF ReplayFrames, ReplayType
<1> HIDE DEF c
<1>5. \A d \in AnyFrames : SameCall(c, d) => SameCall(Head(calls), d)
  BY <1>2, <1>4 DEF SameCall
<1>6. /\ calls' \in Seq(AnyFrames) /\ Distinct(calls')
      /\ Frames = {Head(calls)} \cup rest
      /\ Frames' = {c} \cup rest
      /\ \A d \in rest : d \in AnyFrames /\ ~SameCall(Head(calls), d)
  BY <1>2, <1>4, <1>5, FrameFacts, CallGoesOn DEF AnyFrames
<1>7. \A d \in rest : d.op \in {"call", "replay"} => d.who # s
  BY <1>2, <1>6 DEF SameCall
<1> HIDE DEF s, rest
<1>8. subscriber'[s] = "replaying" /\ \A t \in Subscribers : t # s => subscriber'[t] = subscriber[t]
  BY <1>1, <1>2, <1>3 DEF ReplayType
<1>9. owed'[s] = ToSet(queued) /\ \A t \in Subscribers : t # s => owed'[t] = owed[t]
  BY <1>1, <1>2, <1>3 DEF ReplayType, QueueInv
<1>10. ToSet(queued) \subseteq Nat /\ ToSet(queued) \subseteq ToSet(sent)
  <2>1. \A i \in DOMAIN queued : queued[i] \in Nat
    BY <1>1 DEF ReplayType
  <2> QED BY <1>1, <2>1 DEF ToSet, QueueInv, Unnamed
<1>11. ReplayType'
  BY <1>1, <1>2, <1>3, <1>6, <1>9, <1>10 DEF ReplayType, QueueInv
<1>12. QueueInv'
  BY <1>1, <1>2 DEF QueueInv, Unnamed
<1>13. ObserversInv'
  BY <1>1, <1>2, <1>3, <1>8 DEF ObserversInv
<1>14. FramesInv'
  BY <1>1, <1>2, <1>3, <1>4, <1>6, <1>7, <1>8 DEF FramesInv, Linked, AnyFrames, CallFrames, ReplayFrames, NextFrames
<1>15. ToSet(got[s]) = {}
  BY <1>3 DEF ToSet
<1>16. OnceInv'
  BY <1>1, <1>2, <1>3, <1>4, <1>6, <1>8, <1>15 DEF OnceInv
<1>17. UndisturbedInv'
  <2>1. ASSUME NEW t \in Subscribers \ disturbed PROVE SubscriberInv(t)'
    <3>1. SubscriberInv(t) /\ Pending(t)' = Pending(t)
      BY <1>1, <1>2, <1>4, <1>6 DEF UndisturbedInv, Pending
    <3>2. CASE t = s
      <4>1. Pending(t) = {}
        BY <1>3, <3>2, NothingPending DEF Linked
      <4> QED BY <1>2, <1>8, <1>9, <1>10, <1>15, <3>1, <3>2, <4>1 DEF SubscriberInv
    <3>3. CASE t # s
      BY <1>2, <1>8, <1>9, <3>1, <3>3 DEF SubscriberInv
    <3> QED BY <3>2, <3>3
  <2>2. Replayed(queued, c.at) = {}
    BY <1>4 DEF Replayed
  <2>3. Len(queued) \in Nat
    BY <1>1 DEF ReplayType
  <2>4. c.upto = Len(queued') /\ c.at <= c.upto + 1 /\ ToSet(got'[c.who]) = Replayed(queued', c.at)
    BY <1>2, <1>4, <1>15, <2>2, <2>3
  <2>5. ASSUME NEW d \in rest, d.op = "replay", d.who \notin disturbed
        PROVE  d.upto = Len(queued') /\ d.at <= d.upto + 1 /\ ToSet(got'[d.who]) = Replayed(queued', d.at)
    BY <1>1, <1>2, <1>6, <2>5 DEF UndisturbedInv
  <2>6. ASSUME NEW d \in Frames', d.op = "replay", d.who \notin disturbed
        PROVE  d.upto = Len(queued') /\ d.at <= d.upto + 1 /\ ToSet(got'[d.who]) = Replayed(queued', d.at)
    BY <1>6, <2>4, <2>5, <2>6
  <2> QED BY <1>2, <2>1, <2>6 DEF UndisturbedInv
<1> QED BY <1>11, <1>12, <1>13, <1>14, <1>16, <1>17 DEF ReplayInv

LEMMA ReplayAdvances ==
    ASSUME NEW o \in ReplayFrames
    PROVE  LET c == [o EXCEPT !.at = @ + 1, !.inCallback = TRUE]
           IN  c \in ReplayFrames /\ c.op = "replay" /\ c.who = o.who /\ c.at = o.at + 1 /\ c.upto = o.upto
<1>1. o = [op |-> "replay", who |-> o.who, at |-> o.at, upto |-> o.upto, inCallback |-> o.inCallback]
  BY DEF ReplayFrames
<1>2. o.who \in Subscribers /\ o.at \in Nat \ {0} /\ o.at + 1 \in Nat \ {0} /\ o.upto \in Nat
  BY DEF ReplayFrames
<1> QED BY <1>1, <1>2 DEF ReplayFrames

(* The value at the index of a replay is later than those already replayed.  *)
LEMMA ReplayStep ==
    ASSUME ReplayInv, Replay
    PROVE  ReplayInv'
<1>1. ReplayType /\ QueueInv /\ ObserversInv /\ FramesInv /\ OnceInv /\ UndisturbedInv
  BY DEF ReplayInv
<1> DEFINE o == Head(calls)
           s == o.who
           v == queued[o.at]
           c == [o EXCEPT !.at = @ + 1, !.inCallback = TRUE]
           rest == ToSet(Tail(calls))
<1>2. /\ calls # <<>> /\ o \in Frames /\ o.op = "replay" /\ o \in ReplayFrames
      /\ o.at <= o.upto /\ o.at <= Len(queued)
      /\ DeliverTo(s, v) /\ calls' = <<c>> \o Tail(calls)
      /\ subscriber' = subscriber /\ owed' = owed
      /\ queued' = queued /\ trigger' = trigger /\ stopped' = stopped /\ observers' = observers
      /\ sent' = sent /\ named' = named /\ disturbed' = disturbed
  BY FrameFacts DEF Replay, Top
<1>3. s \in Subscribers /\ subscriber[s] = "replaying" /\ o.at \in Nat \ {0} /\ o.upto \in Nat
  BY <1>1, <1>2 DEF ReplayFrames, FramesInv
<1>4. got' = [got EXCEPT ![s] = Append(@, v)]
  BY <1>2, <1>3 DEF DeliverTo, Closed
<1>5. c \in ReplayFrames /\ c.op = "replay" /\ c.who = s /\ c.at = o.at + 1 /\ c.upto = o.upto
  BY <1>2, ReplayAdvances
<1> HIDE DEF c
<1>6. \A d \in AnyFrames : SameCall(c, d) => SameCall(o, d)
  BY <1>2, <1>5 DEF SameCall
<1>7. /\ calls' \in Seq(AnyFrames) /\ Distinct(calls')
      /\ Frames = {o} \cup rest
      /\ Frames' = {c} \cup rest
      /\ \A d \in rest : d \in AnyFrames /\ ~SameCall(o, d)
  BY <1>2, <1>5, <1>6, FrameFacts, CallGoesOn DEF AnyFrames
<1>8. \A d \in rest : d.op \in {"call", "replay"} => d.who # s
  BY <1>2, <1>7 DEF SameCall
<1>9. /\ o.at \in 1 .. Len(queued) /\ Len(queued) \in Nat /\ DOMAIN queued = 1 .. Len(queued)
      /\ v \in Nat /\ v \in ToSet(queued) /\ v \in ToSet(sent)
  <2>1. queued \in Seq(Nat) /\ o.at \in Nat \ {0} /\ o.at <= Len(queued)
    BY <1>1, <1>2, <1>3 DEF ReplayType
  <2> HIDE DEF o
  <2>2. o.at \in 1 .. Len(queued) /\ Len(queued) \in Nat /\ DOMAIN queued = 1 .. Len(queued) /\ v \in Nat
    BY <2>1
  <2>3. v \in ToSet(queued)
    BY <2>2 DEF ToSet
  <2> QED BY <1>1, <2>2, <2>3 DEF QueueInv, Unnamed
<1>10. \A x \in ToSet(got[s]) : x < v
  BY <1>1, <1>2, <1>9 DEF OnceInv
<1>11. got[s] \in Seq(Nat) /\ IsInjective(got[s]) /\ v \notin ToSet(got[s])
  <2>1. ~(v < v)
    BY <1>9
  <2> QED BY <1>1, <1>3, <1>10, <2>1 DEF ReplayType, OnceInv
<1>12. /\ got'[s] = Append(got[s], v) /\ got'[s] \in Seq(Nat) /\ IsInjective(got'[s])
       /\ ToSet(got'[s]) = ToSet(got[s]) \cup {v}
       /\ \A t \in Subscribers : t # s => got'[t] = got[t]
       /\ got' \in [Subscribers -> Seq(Nat)]
  <2>1. got'[s] = Append(got[s], v) /\ \A t \in Subscribers : t # s => got'[t] = got[t]
    BY <1>1, <1>3, <1>4 DEF ReplayType
  <2>2. Append(got[s], v) \in Seq(Nat) /\ IsInjective(Append(got[s], v)) /\ ToSet(Append(got[s], v)) = ToSet(got[s]) \cup {v}
    BY <1>9, <1>11, Appended
  <2> QED BY <1>1, <1>4, <2>1, <2>2 DEF ReplayType
<1>13. \A j \in o.at + 1 .. Len(queued) : v < queued[j]
  BY <1>1, <1>9 DEF QueueInv, InOrder
<1>14. Replayed(queued, c.at) = Replayed(queued, o.at) \cup {v}
  <2>1. 1 .. c.at - 1 = (1 .. o.at - 1) \cup {o.at}
    BY <1>3, <1>5
  <2> QED BY <2>1 DEF Replayed
<1> HIDE DEF o, s, v, rest
<1>15. ReplayType'
  BY <1>1, <1>2, <1>7, <1>12 DEF ReplayType
<1>16. QueueInv'
  BY <1>1, <1>2 DEF QueueInv, Unnamed
<1>17. ObserversInv'
  BY <1>1, <1>2 DEF ObserversInv
<1>18. FramesInv'
  BY <1>1, <1>2, <1>3, <1>5, <1>7 DEF FramesInv, Linked
<1>19. \A d \in rest : d.op = "next" => s \notin ToSet(d.to)
  BY <1>1, <1>3, <1>7 DEF FramesInv, Linked
<1>20. OnceInv'
  <2>1. ASSUME NEW t \in Subscribers
        PROVE  /\ IsInjective(got'[t]) /\ ToSet(got'[t]) \subseteq ToSet(sent)
               /\ subscriber[t] \in {"new", "calling"} => got'[t] = <<>>
    BY <1>1, <1>3, <1>9, <1>12 DEF OnceInv
  <2>2. ASSUME NEW x \in ToSet(got'[s]), NEW j \in c.at .. Len(queued) PROVE x < queued[j]
    <3>1. j \in o.at .. Len(queued) /\ j \in o.at + 1 .. Len(queued)
      BY <1>3, <1>5, <1>9
    <3> QED BY <1>1, <1>2, <1>12, <1>13, <3>1 DEF OnceInv, s
  <2>3. ASSUME NEW d \in rest, d.op = "replay", NEW x \in ToSet(got'[d.who]), NEW j \in d.at .. Len(queued)
        PROVE  x < queued[j]
    <3>1. d \in ReplayFrames /\ d \in Frames
      BY <1>7, <2>3, FrameFacts
    <3>2. got'[d.who] = got[d.who]
      BY <1>8, <1>12, <2>3, <3>1 DEF ReplayFrames
    <3> QED BY <1>1, <2>3, <3>1, <3>2 DEF OnceInv
  <2>4. ASSUME NEW d \in rest, d.op = "next", NEW t \in ToSet(d.to) PROVE d.value \notin ToSet(got'[t])
    <3>1. d \in NextFrames /\ d \in Frames
      BY <1>7, <2>4, FrameFacts
    <3>2. t \in Subscribers /\ t # s
      BY <1>19, <2>4, <3>1 DEF NextFrames, ToSet
    <3> QED BY <1>1, <1>12, <2>4, <3>1, <3>2 DEF OnceInv
  <2> QED BY <1>2, <1>5, <1>7, <2>1, <2>2, <2>3, <2>4 DEF OnceInv
<1>21. UndisturbedInv'
  <2>1. ASSUME NEW t \in Subscribers \ disturbed PROVE SubscriberInv(t)'
    <3>1. SubscriberInv(t) /\ Pending(t)' = Pending(t)
      BY <1>1, <1>2, <1>5, <1>7 DEF UndisturbedInv, Pending
    <3>2. CASE t = s
      <4>1. Pending(t) = {}
        BY <1>3, <3>2, NothingPending DEF Linked
      <4>2. ToSet(got'[s]) = Replayed(queued, c.at) /\ owed'[s] = ToSet(queued)
        BY <1>1, <1>2, <1>3, <1>12, <1>14, <3>1, <3>2 DEF UndisturbedInv, SubscriberInv, s
      <4>3. InOrder(got'[s])
        BY <1>9, <1>10, <1>11, <1>12, <3>1, <3>2, AppendedInOrder DEF SubscriberInv
      <4>4. ToSet(got'[s]) \subseteq owed'[s]
        BY <1>2, <1>9, <1>12, <3>1, <3>2, <4>2 DEF SubscriberInv
      <4>5. ASSUME NEW w \in ToSet(got'[s]), NEW u \in owed'[s], u < w PROVE u \in ToSet(got'[s])
        <5>1. PICK i \in 1 .. c.at - 1 : w = queued[i]
          BY <4>2 DEF Replayed
        <5>2. PICK k \in 1 .. Len(queued) : u = queued[k]
          BY <1>9, <4>2 DEF ToSet
        <5>3. i \in 1 .. Len(queued) /\ queued[i] \in Nat /\ queued[k] \in Nat
          <6>1. i \in 1 .. o.at
            BY <1>3, <1>5
          <6>2. i \in 1 .. Len(queued)
            BY <1>9, <6>1
          <6> QED BY <1>1, <6>2 DEF ReplayType
        <5>4. k <= i
          BY <1>1, <1>9, <4>5, <5>1, <5>2, <5>3 DEF QueueInv, InOrder
        <5>5. k \in 1 .. c.at - 1
          BY <1>3, <1>5, <5>1, <5>4
        <5> QED BY <4>2, <5>2, <5>5 DEF Replayed
      <4>6. owed'[s] \subseteq ToSet(sent') /\ owed'[s] = ToSet(queued') /\ subscriber'[s] = "replaying"
        BY <1>2, <1>3, <3>1, <3>2, <4>2 DEF SubscriberInv
      <4> QED BY <3>1, <3>2, <4>1, <4>3, <4>4, <4>5, <4>6 DEF SubscriberInv
    <3>3. CASE t # s
      BY <1>2, <1>12, <3>1, <3>3 DEF SubscriberInv
    <3> QED BY <3>2, <3>3
  <2>2. ASSUME s \notin disturbed
        PROVE  c.upto = Len(queued') /\ c.at <= c.upto + 1 /\ ToSet(got'[s]) = Replayed(queued', c.at)
    BY <1>1, <1>2, <1>3, <1>5, <1>12, <1>14, <2>2 DEF UndisturbedInv, s
  <2>3. ASSUME NEW d \in rest, d.op = "replay", d.who \notin disturbed
        PROVE  d.upto = Len(queued') /\ d.at <= d.upto + 1 /\ ToSet(got'[d.who]) = Replayed(queued', d.at)
    <3>1. d \in ReplayFrames /\ d \in Frames
      BY <1>7, <2>3, FrameFacts
    <3>2. got'[d.who] = got[d.who]
      BY <1>8, <1>12, <2>3, <3>1 DEF ReplayFrames
    <3> QED BY <1>1, <1>2, <2>3, <3>1, <3>2 DEF UndisturbedInv
  <2> QED BY <1>2, <1>5, <1>7, <2>1, <2>2, <2>3 DEF UndisturbedInv
<1> QED BY <1>15, <1>16, <1>17, <1>18, <1>20, <1>21 DEF ReplayInv

LEMMA SubscribedStep ==
    ASSUME ReplayInv, Subscribed
    PROVE  ReplayInv'
<1>1. ReplayType /\ QueueInv /\ ObserversInv /\ FramesInv /\ OnceInv /\ UndisturbedInv
  BY DEF ReplayInv
<1> DEFINE o == Head(calls)
           s == o.who
           state == IF stopped THEN "completed" ELSE "subscribed"
<1>2. /\ calls # <<>> /\ o \in Frames /\ o.op = "replay" /\ o \in ReplayFrames
      /\ o.at > o.upto \/ o.at > Len(queued)
      /\ calls' = Tail(calls)
      /\ observers' = IF stopped THEN observers ELSE Append(observers, s)
      /\ subscriber' = [subscriber EXCEPT ![s] = state]
      /\ queued' = queued /\ trigger' = trigger /\ stopped' = stopped /\ got' = got
      /\ sent' = sent /\ named' = named /\ owed' = owed /\ disturbed' = disturbed
  BY FrameFacts DEF Subscribed, Top
<1>3. s \in Subscribers /\ subscriber[s] = "replaying" /\ o.at \in Nat \ {0} /\ o.upto \in Nat
  BY <1>1, <1>2 DEF ReplayFrames, FramesInv
<1>4. /\ calls' \in Seq(AnyFrames) /\ Distinct(calls')
      /\ Frames = {o} \cup Frames'
      /\ \A d \in Frames' : ~SameCall(o, d)
  BY <1>2, FrameFacts, CallEnds
<1>5. \A d \in Frames' : d.op \in {"call", "replay"} => d.who # s
  BY <1>2, <1>4, FrameFacts DEF SameCall
<1>6. subscriber'[s] = state /\ \A t \in Subscribers : t # s => subscriber'[t] = subscriber[t]
  BY <1>1, <1>2, <1>3 DEF ReplayType
<1>7. s \notin ToSet(observers)
  BY <1>1, <1>3 DEF ObserversInv
<1>8. /\ Append(observers, s) \in Seq(Subscribers) /\ ToSet(Append(observers, s)) = ToSet(observers) \cup {s}
      /\ IsInjective(Append(observers, s))
  BY <1>1, <1>3, <1>7, Appended DEF ReplayType, ObserversInv
<1> HIDE DEF o, s
<1>9. ReplayType'
  BY <1>1, <1>2, <1>3, <1>4, <1>8 DEF ReplayType
<1>10. QueueInv'
  BY <1>1, <1>2 DEF QueueInv, Unnamed
<1>11. ObserversInv'
  <2>1. CASE stopped
    BY <1>1, <1>2, <1>3, <1>6, <2>1 DEF ObserversInv
  <2>2. CASE ~stopped
    <3>1. ToSet(observers') = {t \in Subscribers : subscriber'[t] = "subscribed"}
      BY <1>1, <1>2, <1>3, <1>6, <1>8, <2>2 DEF ObserversInv
    <3> QED BY <1>2, <1>8, <2>2, <3>1 DEF ObserversInv
  <2> QED BY <2>1, <2>2
<1>12. FramesInv'
  <2>1. ASSUME NEW d \in Frames'
        PROVE  /\ d.op = "call" => subscriber'[d.who] = "calling"
               /\ d.op = "replay" => subscriber'[d.who] = "replaying"
    BY <1>1, <1>4, <1>5, <1>6, FrameFacts DEF FramesInv, CallFrames, ReplayFrames
  <2>2. ASSUME NEW d \in Frames', d.op = "next", NEW t \in ToSet(d.to) PROVE Linked(t)'
    <3>1. d \in NextFrames /\ Linked(t)
      BY <1>1, <1>4, <2>2, FrameFacts DEF FramesInv
    <3>2. t \in Subscribers
      BY <2>2, <3>1 DEF NextFrames, ToSet
    <3> QED BY <1>6, <3>1, <3>2 DEF Linked
  <2> QED BY <1>1, <1>2, <1>4, <2>1, <2>2 DEF FramesInv
<1>13. OnceInv'
  BY <1>1, <1>2, <1>3, <1>4, <1>6 DEF OnceInv
<1>14. UndisturbedInv'
  <2>1. ASSUME NEW t \in Subscribers \ disturbed PROVE SubscriberInv(t)'
    <3>1. SubscriberInv(t) /\ Pending(t)' = Pending(t)
      BY <1>1, <1>2, <1>4 DEF UndisturbedInv, Pending
    <3>2. CASE t = s
      <4>1. Pending(t) = {}
        BY <1>3, <3>2, NothingPending DEF Linked
      <4>2. /\ o.upto = Len(queued) /\ o.at <= o.upto + 1 /\ ToSet(got[s]) = Replayed(queued, o.at)
            /\ owed[s] = ToSet(queued)
        BY <1>1, <1>2, <1>3, <2>1, <3>1, <3>2 DEF UndisturbedInv, SubscriberInv, s
      <4>3. o.at - 1 = Len(queued) /\ DOMAIN queued = 1 .. Len(queued)
        BY <1>1, <1>2, <1>3, <4>2 DEF ReplayType
      <4>4. ToSet(got[s]) = owed[s]
        BY <4>2, <4>3 DEF Replayed, ToSet
      <4> QED BY <1>2, <1>6, <3>1, <3>2, <4>1, <4>4 DEF SubscriberInv
    <3>3. CASE t # s
      BY <1>2, <1>6, <3>1, <3>3 DEF SubscriberInv
    <3> QED BY <3>2, <3>3
  <2> QED BY <1>1, <1>2, <1>4, <2>1 DEF UndisturbedInv
<1> QED BY <1>9, <1>10, <1>11, <1>12, <1>13, <1>14 DEF ReplayInv

(* A value is delivered to a subscriber that waits for no other one, unless  *)
(* that is disturbed.                                                        *)
LEMMA WaitsForOne ==
    ASSUME ReplayInv, NEW t \in Subscribers \ disturbed, calls # <<>>, Head(calls) \in Pending(t),
           NEW d \in ToSet(Tail(calls)), d.op = "next"
    PROVE  t \notin ToSet(d.to)
<1>1. /\ Frames = {Head(calls)} \cup ToSet(Tail(calls))
      /\ \A e \in ToSet(Tail(calls)) : ~SameCall(Head(calls), e)
  BY FrameFacts, Popped DEF Frames
<1>2. Head(calls).op = "next"
  BY DEF Pending
<1>3. d # Head(calls)
  BY <1>1, <1>2 DEF SameCall
<1>4. d \notin Pending(t)
  BY <1>3 DEF ReplayInv, UndisturbedInv, SubscriberInv
<1> QED BY <1>1, <1>4 DEF Pending

LEMMA NextAdvances ==
    ASSUME NEW o \in NextFrames, Tail(o.to) \in Seq(Subscribers), NEW b \in BOOLEAN
    PROVE  LET c == [o EXCEPT !.to = Tail(@), !.inCallback = b]
           IN  c \in NextFrames /\ c.op = "next" /\ c.value = o.value /\ c.to = Tail(o.to)
<1>1. o = [op |-> "next", value |-> o.value, to |-> o.to, inCallback |-> o.inCallback]
  BY DEF NextFrames
<1> QED BY <1>1 DEF NextFrames

LEMMA DeliverStep ==
    ASSUME ReplayInv, Deliver
    PROVE  ReplayInv'
<1>1. ReplayType /\ QueueInv /\ ObserversInv /\ FramesInv /\ OnceInv /\ UndisturbedInv
  BY DEF ReplayInv
<1> DEFINE o == Head(calls)
           s == Head(o.to)
           c == [o EXCEPT !.to = Tail(@), !.inCallback = ~Closed(Head(o.to))]
           rest == ToSet(Tail(calls))
<1>2. /\ calls # <<>> /\ o \in Frames /\ o.op = "next" /\ o \in NextFrames /\ o.to # <<>>
      /\ DeliverTo(s, o.value) /\ calls' = <<c>> \o Tail(calls)
      /\ subscriber' = subscriber /\ owed' = owed
      /\ queued' = queued /\ trigger' = trigger /\ stopped' = stopped /\ observers' = observers
      /\ sent' = sent /\ named' = named /\ disturbed' = disturbed
  BY FrameFacts DEF Deliver, Top
<1>3. /\ o.value \in Nat /\ o.value \in ToSet(sent) /\ o.to \in Seq(Subscribers) /\ IsInjective(o.to)
      /\ \A t \in ToSet(o.to) : Linked(t) /\ o.value \notin ToSet(got[t])
  BY <1>1, <1>2 DEF NextFrames, FramesInv, OnceInv
<1>4. /\ s \in Subscribers /\ Tail(o.to) \in Seq(Subscribers) /\ IsInjective(Tail(o.to))
      /\ ToSet(o.to) = {s} \cup ToSet(Tail(o.to)) /\ s \notin ToSet(Tail(o.to))
  BY <1>2, <1>3, Popped
<1>5. c \in NextFrames /\ c.op = "next" /\ c.value = o.value /\ c.to = Tail(o.to)
  <2>1. (~Closed(s)) \in BOOLEAN
    BY DEF Closed
  <2> QED BY <1>2, <1>4, <2>1, NextAdvances
<1> HIDE DEF c
<1>6. \A d \in AnyFrames : SameCall(c, d) => SameCall(o, d)
  BY <1>2, <1>5 DEF SameCall
<1>7. /\ calls' \in Seq(AnyFrames) /\ Distinct(calls')
      /\ Frames = {o} \cup rest
      /\ Frames' = {c} \cup rest
      /\ \A d \in rest : d \in AnyFrames /\ ~SameCall(o, d)
  BY <1>2, <1>5, <1>6, FrameFacts, CallGoesOn DEF AnyFrames
<1>8. \A d \in rest : d.op = "next" => d.value # o.value
  BY <1>2, <1>7 DEF SameCall
<1>9. \A t \in Subscribers \ disturbed : o \in Pending(t) => \A d \in rest : d.op = "next" => t \notin ToSet(d.to)
  BY <1>2, WaitsForOne
<1>10. got' = IF Closed(s) THEN got ELSE [got EXCEPT ![s] = Append(@, o.value)]
  BY <1>2 DEF DeliverTo
<1>11. got[s] \in Seq(Nat) /\ IsInjective(got[s]) /\ o.value \notin ToSet(got[s]) /\ Linked(s)
  BY <1>1, <1>3, <1>4 DEF ReplayType, OnceInv
<1> HIDE DEF o, s, rest
<1>12. /\ Append(got[s], o.value) \in Seq(Nat) /\ IsInjective(Append(got[s], o.value))
       /\ ToSet(Append(got[s], o.value)) = ToSet(got[s]) \cup {o.value}
  BY <1>3, <1>11, Appended
<1>13. /\ got' \in [Subscribers -> Seq(Nat)]
       /\ Closed(s) => got' = got
       /\ ~Closed(s) => got'[s] = Append(got[s], o.value) /\ ToSet(got'[s]) = ToSet(got[s]) \cup {o.value}
       /\ \A t \in Subscribers : t # s => got'[t] = got[t]
  BY <1>1, <1>4, <1>10, <1>12 DEF ReplayType
<1>14. IsInjective(got'[s]) /\ ToSet(got'[s]) \subseteq ToSet(got[s]) \cup {o.value}
  BY <1>11, <1>12, <1>13
<1>15. ReplayType'
  BY <1>1, <1>2, <1>7, <1>13 DEF ReplayType
<1>16. QueueInv'
  BY <1>1, <1>2 DEF QueueInv, Unnamed
<1>17. ObserversInv'
  BY <1>1, <1>2 DEF ObserversInv
<1>18. FramesInv'
  BY <1>1, <1>2, <1>3, <1>4, <1>5, <1>7 DEF FramesInv, Linked
<1>19. OnceInv'
  <2>1. ASSUME NEW t \in Subscribers
        PROVE  /\ IsInjective(got'[t]) /\ ToSet(got'[t]) \subseteq ToSet(sent)
               /\ subscriber[t] \in {"new", "calling"} => got'[t] = <<>>
    BY <1>1, <1>3, <1>11, <1>13, <1>14 DEF OnceInv, Linked
  <2>2. ASSUME NEW d \in rest, d.op = "replay", NEW x \in ToSet(got'[d.who]), NEW j \in d.at .. Len(queued)
        PROVE  x < queued[j]
    <3>1. d \in ReplayFrames /\ d \in Frames
      BY <1>7, <2>2, FrameFacts
    <3>2. d.who \in Subscribers /\ d.who # s
      BY <1>1, <1>11, <2>2, <3>1 DEF ReplayFrames, FramesInv, Linked
    <3> QED BY <1>1, <1>13, <2>2, <3>1, <3>2 DEF OnceInv
  <2>3. ASSUME NEW d \in rest, d.op = "next", NEW t \in ToSet(d.to) PROVE d.value \notin ToSet(got'[t])
    <3>1. d \in NextFrames /\ d \in Frames
      BY <1>7, <2>3, FrameFacts
    <3>2. t \in Subscribers /\ d.value \notin ToSet(got[t])
      BY <1>1, <2>3, <3>1 DEF NextFrames, ToSet, OnceInv
    <3> QED BY <1>8, <1>13, <1>14, <2>3, <3>2
  <2>4. ASSUME NEW t \in ToSet(c.to) PROVE c.value \notin ToSet(got'[t])
    <3>1. t \in ToSet(o.to) /\ t # s /\ t \in Subscribers
      BY <1>3, <1>4, <1>5, <2>4 DEF ToSet
    <3> QED BY <1>3, <1>5, <1>13, <3>1
  <2> QED BY <1>2, <1>5, <1>7, <2>1, <2>2, <2>3, <2>4 DEF OnceInv
<1>20. UndisturbedInv'
  <2>1. ASSUME NEW t \in Subscribers \ disturbed PROVE SubscriberInv(t)'
    <3>1. SubscriberInv(t)
      BY <1>1 DEF UndisturbedInv
    <3>2. Pending(t)' = {d \in {c} \cup rest : d.op = "next" /\ t \in ToSet(d.to)}
      BY <1>7 DEF Pending
    <3>3. Pending(t) = {d \in {o} \cup rest : d.op = "next" /\ t \in ToSet(d.to)}
      BY <1>7 DEF Pending
    <3>4. CASE t = s
      <4>1. o \in Pending(s)
        BY <1>2, <1>4, <3>3, <3>4
      <4>2. Pending(t)' = {}
        BY <1>4, <1>5, <1>9, <3>2, <3>4, <4>1
      <4>3. /\ owed[s] = ToSet(got[s]) \cup {o.value} /\ subscriber[s] # "completed"
            /\ \A u \in ToSet(got[s]) : u < o.value
            /\ InOrder(got[s]) /\ owed[s] \subseteq ToSet(sent)
        BY <3>1, <3>4, <4>1 DEF SubscriberInv
      <4>4. CASE Closed(s)
        BY <1>2, <1>11, <1>13, <3>1, <3>4, <4>2, <4>3, <4>4 DEF SubscriberInv, Closed, Linked
      <4>5. CASE ~Closed(s)
        <5>1. InOrder(got'[s])
          BY <1>3, <1>11, <1>13, <4>3, <4>5, AppendedInOrder
        <5>2. ToSet(got'[s]) = owed'[s]
          BY <1>2, <1>13, <4>3, <4>5
        <5> QED BY <1>2, <1>11, <3>4, <4>2, <4>3, <5>1, <5>2 DEF SubscriberInv, Linked
      <4> QED BY <4>4, <4>5
    <3>5. CASE t # s
      <4>1. got'[t] = got[t] /\ (t \in ToSet(c.to) <=> t \in ToSet(o.to))
        BY <1>4, <1>5, <1>13, <3>5
      <4>2. CASE o \in Pending(t)
        <5>1. Pending(t)' = {c}
          BY <1>5, <1>9, <3>2, <3>3, <4>1, <4>2
        <5>2. Pending(t) # {}
          BY <4>2
        <5> QED BY <1>2, <1>5, <3>1, <4>1, <4>2, <5>1, <5>2 DEF SubscriberInv
      <4>3. CASE o \notin Pending(t)
        <5>1. Pending(t)' = Pending(t)
          BY <1>2, <1>5, <3>2, <3>3, <4>1, <4>3
        <5> QED BY <1>2, <3>1, <4>1, <5>1 DEF SubscriberInv
      <4> QED BY <4>2, <4>3
    <3> QED BY <3>4, <3>5
  <2>2. ASSUME NEW d \in rest, d.op = "replay", d.who \notin disturbed
        PROVE  d.upto = Len(queued') /\ d.at <= d.upto + 1 /\ ToSet(got'[d.who]) = Replayed(queued', d.at)
    <3>1. d \in ReplayFrames /\ d \in Frames
      BY <1>7, <2>2, FrameFacts
    <3>2. d.who \in Subscribers /\ d.who # s
      BY <1>1, <1>11, <2>2, <3>1 DEF ReplayFrames, FramesInv, Linked
    <3> QED BY <1>1, <1>2, <1>13, <2>2, <3>1, <3>2 DEF UndisturbedInv
  <2> QED BY <1>2, <1>5, <1>7, <2>1, <2>2 DEF UndisturbedInv
<1> QED BY <1>15, <1>16, <1>17, <1>18, <1>19, <1>20 DEF ReplayInv

LEMMA DeliveredStep ==
    ASSUME ReplayInv, Delivered
    PROVE  ReplayInv'
<1>1. ReplayType /\ QueueInv /\ ObserversInv /\ FramesInv /\ OnceInv /\ UndisturbedInv
  BY DEF ReplayInv
<1> DEFINE o == Head(calls)
<1>2. /\ calls # <<>> /\ o.to = <<>> /\ calls' = Tail(calls) /\ o.op = "next"
      /\ subscriber' = subscriber /\ owed' = owed /\ got' = got
      /\ queued' = queued /\ trigger' = trigger /\ stopped' = stopped /\ observers' = observers
      /\ sent' = sent /\ named' = named /\ disturbed' = disturbed
  BY DEF Delivered, Top
<1>3. calls' \in Seq(AnyFrames) /\ Distinct(calls') /\ Frames = {o} \cup Frames'
  BY <1>2, FrameFacts, CallEnds
<1>4. ToSet(o.to) = {}
  BY <1>2 DEF ToSet
<1> HIDE DEF o
<1>5. \A t \in Subscribers : Pending(t)' = Pending(t)
  BY <1>3, <1>4 DEF Pending
<1>6. ReplayType' /\ QueueInv' /\ ObserversInv'
  BY <1>1, <1>2, <1>3 DEF ReplayType, QueueInv, Unnamed, ObserversInv
<1>7. FramesInv' /\ OnceInv'
  BY <1>1, <1>2, <1>3 DEF FramesInv, OnceInv, Linked
<1>8. UndisturbedInv'
  <2>1. ASSUME NEW t \in Subscribers \ disturbed PROVE SubscriberInv(t)'
    BY <1>1, <1>2, <1>5 DEF UndisturbedInv, SubscriberInv
  <2> QED BY <1>1, <1>2, <1>3, <2>1 DEF UndisturbedInv
<1> QED BY <1>6, <1>7, <1>8 DEF ReplayInv

LEMMA UnsubscribeStep ==
    ASSUME ReplayInv, NEW s \in Subscribers, Unsubscribe(s)
    PROVE  ReplayInv'
<1>1. ReplayType /\ QueueInv /\ ObserversInv /\ FramesInv /\ OnceInv /\ UndisturbedInv
  BY DEF ReplayInv
<1>2. /\ subscriber[s] = "subscribed" /\ calls' = calls /\ owed' = owed /\ got' = got
      /\ subscriber' = [subscriber EXCEPT ![s] = "left"]
      /\ observers' = RemoveFirst(observers, s)
      /\ queued' = queued /\ trigger' = trigger /\ stopped' = stopped
      /\ sent' = sent /\ named' = named /\ disturbed' = disturbed
  BY DEF Unsubscribe
<1>3. /\ observers' \in Seq(Subscribers) /\ ToSet(observers') = ToSet(observers) \ {s}
      /\ IsInjective(observers') /\ (s \notin ToSet(observers) => observers' = observers)
  BY <1>1, <1>2, Removed DEF ReplayType, ObserversInv
<1>4. ~stopped
  <2>1. s \in ToSet(observers)
    BY <1>1, <1>2 DEF ObserversInv
  <2> QED BY <1>1, <2>1 DEF ObserversInv, ToSet
<1>5. subscriber'[s] = "left" /\ \A t \in Subscribers : t # s => subscriber'[t] = subscriber[t]
  BY <1>1, <1>2 DEF ReplayType
<1>6. Frames' = Frames
  BY <1>2 DEF Frames
<1>7. ReplayType' /\ QueueInv'
  BY <1>1, <1>2, <1>3 DEF ReplayType, QueueInv, Unnamed
<1>8. ObserversInv'
  BY <1>1, <1>2, <1>3, <1>4, <1>5 DEF ObserversInv
<1>9. FramesInv'
  <2>1. ASSUME NEW d \in Frames
        PROVE  /\ d.op = "call" => subscriber'[d.who] = "calling"
               /\ d.op = "replay" => subscriber'[d.who] = "replaying"
    BY <1>1, <1>2, <1>5, FrameFacts DEF FramesInv, CallFrames, ReplayFrames
  <2>2. ASSUME NEW d \in Frames, d.op = "next", NEW t \in ToSet(d.to) PROVE Linked(t)'
    <3>1. d \in NextFrames /\ Linked(t)
      BY <1>1, <2>2, FrameFacts DEF FramesInv
    <3>2. t \in Subscribers
      BY <2>2, <3>1 DEF NextFrames, ToSet
    <3> QED BY <1>5, <3>1, <3>2 DEF Linked
  <2> QED BY <1>1, <1>2, <1>6, <2>1, <2>2 DEF FramesInv
<1>10. OnceInv'
  BY <1>1, <1>2, <1>5, <1>6 DEF OnceInv
<1>11. UndisturbedInv'
  <2>1. ASSUME NEW t \in Subscribers \ disturbed PROVE SubscriberInv(t)'
    <3>1. SubscriberInv(t) /\ Pending(t)' = Pending(t)
      BY <1>1, <1>6 DEF UndisturbedInv, Pending
    <3> QED BY <1>2, <1>5, <3>1 DEF SubscriberInv
  <2> QED BY <1>1, <1>2, <1>6, <2>1 DEF UndisturbedInv
<1> QED BY <1>7, <1>8, <1>9, <1>10, <1>11 DEF ReplayInv

LEMMA AwaitingPending == ASSUME NEW s \in Subscribers PROVE s \in Awaiting <=> Pending(s) # {}
BY DEF Awaiting, Pending, Frames, ToSet

(* A new value is later than all that were sent.                             *)
LEMMA NextValueStep ==
    ASSUME ReplayInv, NEW v, NextValue(v)
    PROVE  ReplayInv'
<1>1. ReplayType /\ QueueInv /\ ObserversInv /\ FramesInv /\ OnceInv /\ UndisturbedInv
  BY DEF ReplayInv
<1> DEFINE c == [op |-> "next", value |-> v, to |-> observers, inCallback |-> FALSE]
<1>2. /\ v = Len(sent) + 1 /\ sent' = Append(sent, v) /\ queued' = Append(queued, v)
      /\ trigger' = IF trigger = "none" THEN "open" ELSE trigger
      /\ calls' = IF stopped THEN calls ELSE <<c>> \o calls
      /\ owed' = [s \in Subscribers |-> IF subscriber[s] \in {"replaying", "subscribed"} THEN owed[s] \cup {v} ELSE owed[s]]
      /\ disturbed' = disturbed \cup Replaying \cup Awaiting
      /\ stopped' = stopped /\ observers' = observers /\ subscriber' = subscriber /\ named' = named /\ got' = got
  BY DEF NextValue
<1>3. v \in Nat /\ Len(sent) \in Nat /\ DOMAIN sent = 1 .. Len(sent)
  BY <1>1, <1>2 DEF ReplayType
<1>4. \A x \in ToSet(sent) : x \in Nat /\ x < v
  <2>1. \A i \in 1 .. Len(sent) : sent[i] = i /\ i \in Nat /\ i < v
    BY <1>1, <1>2, <1>3 DEF QueueInv
  <2> QED BY <1>3, <2>1 DEF ToSet
<1>5. v \notin ToSet(sent)
  BY <1>3, <1>4
<1>6. sent' \in Seq(Nat) /\ ToSet(sent') = ToSet(sent) \cup {v}
  <2>1. sent \in Seq(Nat)
    BY <1>1 DEF ReplayType
  <2>2. Append(sent, v) \in Seq(Nat) /\ ToSet(Append(sent, v)) = ToSet(sent) \cup {v}
    BY <1>3, <2>1, Appended
  <2> QED BY <1>2, <2>2
<1>7. \A i \in 1 .. Len(sent') : sent'[i] = i
  BY <1>1, <1>2, <1>3 DEF ReplayType, QueueInv
<1>8. /\ queued' \in Seq(Nat) /\ ToSet(queued') = ToSet(queued) \cup {v} /\ InOrder(queued')
      /\ ToSet(queued) \subseteq ToSet(sent)
  <2>1. ToSet(queued) \subseteq ToSet(sent)
    BY <1>1 DEF QueueInv, Unnamed
  <2>2. queued \in Seq(Nat) /\ InOrder(queued)
    BY <1>1 DEF ReplayType, QueueInv
  <2>3. \A x \in ToSet(queued) : x < v
    BY <1>4, <2>1
  <2>4. Append(queued, v) \in Seq(Nat) /\ ToSet(Append(queued, v)) = ToSet(queued) \cup {v}
    BY <1>3, <2>2, Appended
  <2>5. InOrder(Append(queued, v))
    BY <1>3, <2>2, <2>3, AppendedInOrder
  <2> QED BY <1>2, <2>1, <2>4, <2>5
<1>9. /\ Len(queued') = Len(queued) + 1 /\ Len(queued) \in Nat
      /\ \A j \in 1 .. Len(queued') : (j \in 1 .. Len(queued) /\ queued'[j] = queued[j]) \/ queued'[j] = v
  <2>1. queued \in Seq(Nat)
    BY <1>1 DEF ReplayType
  <2>2. /\ Len(queued') = Len(queued) + 1 /\ Len(queued) \in Nat
        /\ \A j \in 1 .. Len(queued) : queued'[j] = queued[j]
        /\ queued'[Len(queued) + 1] = v
    BY <1>2, <1>3, <2>1, AppendProperties
  <2> QED BY <2>2
<1>10. c \in NextFrames /\ c.op = "next" /\ c.value = v /\ c.to = observers
  BY <1>1, <1>3 DEF NextFrames, ReplayType
<1> HIDE DEF c
<1>11. \A d \in Frames : ~SameCall(c, d)
  BY <1>1, <1>5, <1>10 DEF SameCall, FramesInv
<1>12. /\ calls' \in Seq(AnyFrames) /\ Distinct(calls')
       /\ Frames' = IF stopped THEN Frames ELSE {c} \cup Frames
  <2>1. CASE stopped
    BY <1>2, <2>1, FrameFacts DEF Frames
  <2>2. CASE ~stopped
    BY <1>2, <1>10, <1>11, <2>2, FrameFacts, CallMade DEF AnyFrames
  <2> QED BY <2>1, <2>2
<1>13. ReplayType'
  <2>1. owed' \in [Subscribers -> SUBSET Nat]
    BY <1>1, <1>2, <1>3 DEF ReplayType
  <2>2. disturbed' \subseteq Subscribers
    BY <1>1, <1>2 DEF ReplayType, Replaying, Awaiting
  <2> QED BY <1>1, <1>2, <1>6, <1>8, <1>12, <2>1, <2>2 DEF ReplayType
<1>14. QueueInv'
  BY <1>1, <1>2, <1>5, <1>6, <1>7, <1>8 DEF QueueInv, Unnamed
<1>15. ObserversInv'
  BY <1>1, <1>2 DEF ObserversInv
<1>16. FramesInv'
  <2>1. \A s \in ToSet(observers) : Linked(s) /\ s \in Subscribers
    BY <1>1 DEF ObserversInv, Linked
  <2> QED BY <1>1, <1>2, <1>6, <1>10, <1>12, <2>1 DEF FramesInv, ObserversInv, Linked
<1>17. OnceInv'
  <2>1. ASSUME NEW d \in Frames, d.op = "replay", NEW x \in ToSet(got[d.who]), NEW j \in d.at .. Len(queued')
        PROVE  x < queued'[j]
    <3>1. d \in ReplayFrames /\ d.at \in Nat \ {0} /\ d.who \in Subscribers
      BY <2>1, FrameFacts DEF ReplayFrames
    <3>2. x \in ToSet(sent)
      BY <1>1, <2>1, <3>1 DEF OnceInv
    <3>3. j \in 1 .. Len(queued') /\ (j \in 1 .. Len(queued) => j \in d.at .. Len(queued))
      BY <1>9, <2>1, <3>1
    <3> QED BY <1>1, <1>4, <1>9, <2>1, <3>2, <3>3 DEF OnceInv
  <2>2. \A s \in ToSet(observers) : v \notin ToSet(got[s])
    BY <1>1, <1>5 DEF OnceInv, ObserversInv
  <2> QED BY <1>1, <1>2, <1>6, <1>10, <1>12, <2>1, <2>2 DEF OnceInv
<1>18. UndisturbedInv'
  <2>1. ASSUME NEW t \in Subscribers \ disturbed' PROVE SubscriberInv(t)'
    <3>1. SubscriberInv(t) /\ Pending(t) = {} /\ t \in Subscribers \ disturbed /\ subscriber[t] # "replaying"
      BY <1>1, <1>2, <2>1, AwaitingPending DEF UndisturbedInv, Replaying
    <3>2. CASE subscriber[t] = "subscribed"
      <4>1. t \in ToSet(observers) /\ ~stopped
        BY <1>1, <3>1, <3>2 DEF ObserversInv, ToSet
      <4>2. Pending(t)' = {c}
        BY <1>10, <1>12, <3>1, <4>1 DEF Pending
      <4>3. ToSet(got[t]) = owed[t] /\ owed'[t] = owed[t] \cup {v} /\ owed[t] \subseteq ToSet(sent)
        BY <1>2, <3>1, <3>2 DEF SubscriberInv
      <4>4. \A u \in ToSet(got[t]) : u \in Nat /\ u < v
        BY <1>4, <4>3
      <4>5. ASSUME NEW w \in ToSet(got[t]), NEW u \in owed'[t], u < w PROVE u \in ToSet(got[t])
        <5>1. u # v
          BY <1>3, <4>4, <4>5
        <5> QED BY <4>3, <4>5, <5>1
      <4>6. InOrder(got'[t]) /\ ToSet(got'[t]) \subseteq owed'[t] /\ owed'[t] \subseteq ToSet(sent')
        BY <1>2, <1>6, <3>1, <4>3 DEF SubscriberInv
      <4> QED BY <1>2, <1>10, <3>2, <4>2, <4>3, <4>4, <4>5, <4>6 DEF SubscriberInv
    <3>3. CASE subscriber[t] # "subscribed"
      <4>1. t \notin ToSet(observers) /\ owed'[t] = owed[t]
        BY <1>1, <1>2, <3>1, <3>3 DEF ObserversInv
      <4>2. Pending(t)' = {}
        BY <1>10, <1>12, <3>1, <4>1 DEF Pending
      <4> QED BY <1>2, <1>6, <3>1, <4>1, <4>2 DEF SubscriberInv
    <3> QED BY <3>2, <3>3
  <2>2. ASSUME NEW d \in Frames', d.op = "replay" PROVE d.who \in disturbed'
    <3>1. d \in Frames /\ d \in ReplayFrames /\ subscriber[d.who] = "replaying"
      BY <1>1, <1>10, <1>12, <2>2, FrameFacts DEF FramesInv
    <3> QED BY <1>2, <3>1 DEF Replaying, ReplayFrames
  <2> QED BY <2>1, <2>2 DEF UndisturbedInv
<1> QED BY <1>13, <1>14, <1>15, <1>16, <1>17, <1>18 DEF ReplayInv

(* What is removed from the queue disturbs the replays under way.            *)
LEMMA TriggerEmitsStep ==
    ASSUME ReplayInv, NEW v, TriggerEmits(v)
    PROVE  ReplayInv'
<1>1. ReplayType /\ QueueInv /\ ObserversInv /\ FramesInv /\ OnceInv /\ UndisturbedInv
  BY DEF ReplayInv
<1>2. /\ trigger # "closed" /\ named' = IF v \in ToSet(sent) THEN named \cup {v} ELSE named
      /\ stopped' = stopped /\ observers' = observers /\ subscriber' = subscriber /\ calls' = calls
      /\ sent' = sent /\ got' = got /\ owed' = owed
  BY DEF TriggerEmits
<1>3. /\ queued' \in Seq(Nat) /\ ToSet(queued') = ToSet(queued) \ {v} /\ InOrder(queued')
      /\ \A j \in 1 .. Len(queued') : \E k \in j .. Len(queued) : queued'[j] = queued[k]
      /\ trigger' \in {trigger, "closed"}
      /\ disturbed' = IF queued' = queued THEN disturbed ELSE disturbed \cup Replaying
  <2>1. CASE trigger = "open"
    <3>1. queued' = RemoveFirst(queued, v) /\ IsInjective(queued)
      BY <1>1, <2>1, InOrderInjective DEF TriggerEmits, ReplayType, QueueInv
    <3>2. /\ RemoveFirst(queued, v) \in Seq(Nat) /\ ToSet(RemoveFirst(queued, v)) = ToSet(queued) \ {v}
          /\ \A j \in 1 .. Len(RemoveFirst(queued, v)) : \E k \in j .. Len(queued) : RemoveFirst(queued, v)[j] = queued[k]
          /\ InOrder(RemoveFirst(queued, v))
      <4>1. queued \in Seq(Nat) /\ InOrder(queued) /\ Nat \subseteq Nat
        BY <1>1 DEF ReplayType, QueueInv
      <4> QED BY <3>1, <4>1, Removed
    <3> QED BY <2>1, <3>1, <3>2 DEF TriggerEmits
  <2>2. CASE trigger = "none"
    <3>1. queued' = queued /\ trigger' = trigger /\ disturbed' = disturbed
      BY <2>2 DEF TriggerEmits
    <3>2. v \notin ToSet(queued)
      <4>1. ToSet(sent) = {}
        BY <1>1, <2>2 DEF QueueInv, ToSet
      <4> QED BY <1>1, <4>1 DEF QueueInv, Unnamed
    <3>3. \A j \in 1 .. Len(queued) : j \in j .. Len(queued)
      BY <1>1 DEF ReplayType
    <3> QED BY <1>1, <3>1, <3>2, <3>3 DEF ReplayType, QueueInv
  <2> QED BY <1>1, <1>2, <2>1, <2>2 DEF ReplayType
<1>4. Frames' = Frames /\ \A t \in Subscribers : Pending(t)' = Pending(t)
  BY <1>2 DEF Frames, Pending
<1>5. ReplayType'
  <2>1. disturbed' \subseteq Subscribers
    BY <1>1, <1>3 DEF ReplayType, Replaying
  <2> QED BY <1>1, <1>2, <1>3, <2>1 DEF ReplayType
<1>6. QueueInv'
  <2>1. ToSet(queued') = ToSet(sent') \ named'
    BY <1>1, <1>2, <1>3 DEF QueueInv, Unnamed
  <2>2. trigger' = "none" => sent' = <<>>
    BY <1>1, <1>2, <1>3 DEF QueueInv
  <2> QED BY <1>1, <1>2, <1>3, <2>1, <2>2 DEF QueueInv, Unnamed
<1>7. ObserversInv' /\ FramesInv'
  BY <1>1, <1>2, <1>4 DEF ObserversInv, FramesInv, Linked
<1>8. OnceInv'
  <2>1. ASSUME NEW d \in Frames, d.op = "replay", NEW x \in ToSet(got[d.who]), NEW j \in d.at .. Len(queued')
        PROVE  x < queued'[j]
    <3>1. d \in ReplayFrames /\ d.at \in Nat \ {0} /\ d.who \in Subscribers
      BY <2>1, FrameFacts DEF ReplayFrames
    <3>2. Len(queued') \in Nat /\ Len(queued) \in Nat
      BY <1>1, <1>3 DEF ReplayType
    <3>3. j \in 1 .. Len(queued')
      BY <2>1, <3>1, <3>2
    <3>4. PICK k \in j .. Len(queued) : queued'[j] = queued[k]
      BY <1>3, <3>3
    <3>5. k \in d.at .. Len(queued)
      BY <2>1, <3>1, <3>2, <3>4
    <3> QED BY <1>1, <2>1, <3>4, <3>5 DEF OnceInv
  <2> QED BY <1>1, <1>2, <1>4, <2>1 DEF OnceInv
<1>9. UndisturbedInv'
  <2>1. ASSUME NEW t \in Subscribers \ disturbed' PROVE SubscriberInv(t)'
    <3>1. SubscriberInv(t) /\ (subscriber[t] = "replaying" => queued' = queued)
      BY <1>1, <1>3, <2>1 DEF UndisturbedInv, Replaying
    <3> QED BY <1>2, <1>4, <3>1 DEF SubscriberInv
  <2>2. ASSUME NEW d \in Frames, d.op = "replay", d.who \notin disturbed'
        PROVE  d.upto = Len(queued') /\ d.at <= d.upto + 1 /\ ToSet(got'[d.who]) = Replayed(queued', d.at)
    <3>1. d \in ReplayFrames /\ subscriber[d.who] = "replaying"
      BY <1>1, <2>2, FrameFacts DEF FramesInv
    <3>2. queued' = queued /\ disturbed' = disturbed
      BY <1>3, <2>2, <3>1 DEF Replaying, ReplayFrames
    <3> QED BY <1>1, <1>2, <2>2, <3>2 DEF UndisturbedInv
  <2> QED BY <1>4, <2>1, <2>2 DEF UndisturbedInv
<1> QED BY <1>5, <1>6, <1>7, <1>8, <1>9 DEF ReplayInv

(* complete() and error(): whoever a value has not reached is disturbed, the *)
(* others have all.                                                          *)
LEMMA StopStep ==
    ASSUME ReplayInv, Stop, trigger' \in {trigger, "closed"},
           queued' = queued, calls' = calls, sent' = sent, named' = named, got' = got, owed' = owed
    PROVE  ReplayInv'
<1>1. ReplayType /\ QueueInv /\ ObserversInv /\ FramesInv /\ OnceInv /\ UndisturbedInv
  BY DEF ReplayInv
<1>2. /\ stopped' = TRUE /\ observers' = <<>> /\ disturbed' = disturbed \cup Awaiting
      /\ subscriber' = [s \in Subscribers |-> IF s \in ToSet(observers) THEN "completed" ELSE subscriber[s]]
  BY DEF Stop
<1>3. \A s \in Subscribers : IF subscriber[s] = "subscribed" THEN subscriber'[s] = "completed"
                             ELSE subscriber'[s] = subscriber[s]
  BY <1>1, <1>2 DEF ObserversInv
<1>4. Frames' = Frames /\ \A t \in Subscribers : Pending(t)' = Pending(t)
  BY DEF Frames, Pending
<1>5. ReplayType'
  <2>1. disturbed' \subseteq Subscribers
    BY <1>1, <1>2 DEF ReplayType, Awaiting
  <2>2. subscriber' \in [Subscribers -> {"new", "calling", "replaying", "subscribed", "completed", "left"}]
    BY <1>1, <1>2 DEF ReplayType
  <2> QED BY <1>1, <1>2, <2>1, <2>2 DEF ReplayType
<1>6. QueueInv'
  BY <1>1 DEF QueueInv, Unnamed
<1>7. ObserversInv'
  BY <1>1, <1>2, <1>3 DEF ObserversInv, IsInjective, ToSet
<1>8. FramesInv'
  <2>1. ASSUME NEW d \in Frames
        PROVE  /\ d.op = "call" => subscriber'[d.who] = "calling"
               /\ d.op = "replay" => subscriber'[d.who] = "replaying"
    BY <1>1, <1>3, FrameFacts DEF FramesInv, CallFrames, ReplayFrames
  <2>2. ASSUME NEW d \in Frames, d.op = "next", NEW t \in ToSet(d.to) PROVE Linked(t)'
    <3>1. d \in NextFrames /\ Linked(t)
      BY <1>1, <2>2, FrameFacts DEF FramesInv
    <3>2. t \in Subscribers
      BY <2>2, <3>1 DEF NextFrames, ToSet
    <3> QED BY <1>3, <3>1, <3>2 DEF Linked
  <2> QED BY <1>1, <1>4, <2>1, <2>2 DEF FramesInv
<1>9. OnceInv'
  BY <1>1, <1>3, <1>4 DEF OnceInv
<1>10. UndisturbedInv'
  <2>1. ASSUME NEW t \in Subscribers \ disturbed' PROVE SubscriberInv(t)'
    <3>1. SubscriberInv(t) /\ Pending(t) = {}
      BY <1>1, <1>2, <2>1, AwaitingPending DEF UndisturbedInv
    <3> QED BY <1>3, <1>4, <3>1 DEF SubscriberInv
  <2> QED BY <1>1, <1>2, <1>4, <2>1 DEF UndisturbedInv
<1> QED BY <1>5, <1>6, <1>7, <1>8, <1>9, <1>10 DEF ReplayInv

(* What changes nothing but the trigger, and a step that changes nothing.    *)
LEMMA TriggerClosesStep ==
    ASSUME ReplayInv, trigger' \in {trigger, "closed"},
           UNCHANGED <<queued, stopped, observers, calls, subscriber, sent, named, got, owed, disturbed>>
    PROVE  ReplayInv'
<1>1. ReplayType /\ QueueInv /\ ObserversInv /\ FramesInv /\ OnceInv /\ UndisturbedInv
  BY DEF ReplayInv
<1>2. Frames' = Frames /\ \A t \in Subscribers : Pending(t)' = Pending(t)
  BY DEF Frames, Pending
<1>3. ReplayType' /\ QueueInv'
  BY <1>1 DEF ReplayType, QueueInv, Unnamed
<1>4. ObserversInv' /\ FramesInv' /\ OnceInv'
  BY <1>1, <1>2 DEF ObserversInv, FramesInv, Linked, OnceInv
<1>5. UndisturbedInv'
  <2>1. ASSUME NEW t \in Subscribers \ disturbed PROVE SubscriberInv(t)'
    BY <1>1, <1>2 DEF UndisturbedInv, SubscriberInv
  <2> QED BY <1>1, <1>2, <2>1 DEF UndisturbedInv
<1> QED BY <1>3, <1>4, <1>5 DEF ReplayInv

LEMMA ReplayNextStep ==
    ASSUME ReplayInv, [ReplayNext]_replayVars
    PROVE  ReplayInv'
<1>1. CASE \E s \in Subscribers : Call(s) \/ Unsubscribe(s)
  BY <1>1, CallStep, UnsubscribeStep
<1>2. CASE Subscribe \/ Replay \/ Subscribed \/ Deliver \/ Delivered
  BY <1>2, SubscribeStep, ReplayStep, SubscribedStep, DeliverStep, DeliveredStep
<1>3. CASE \E v \in 1 .. MaxValues : NextValue(v) \/ TriggerEmits(v)
  BY <1>3, NextValueStep, TriggerEmitsStep
<1>4. CASE SourceCompletes
  BY <1>4, StopStep DEF SourceCompletes
<1>5. CASE TriggerFails
  <2>1. CASE stopped
    BY <1>5, <2>1, TriggerClosesStep DEF TriggerFails
  <2>2. CASE ~stopped
    BY <1>5, <2>2, StopStep DEF TriggerFails
  <2> QED BY <2>1, <2>2
<1>6. CASE UNCHANGED replayVars
  BY <1>6, TriggerClosesStep DEF replayVars
<1> QED BY <1>1, <1>2, <1>3, <1>4, <1>5, <1>6 DEF ReplayNext

LEMMA ReplayInvImplies == ASSUME ReplayInv PROVE SeesWhatIsQueued
<1>1. calls = <<>> => \A s \in Subscribers : Pending(s) = {}
  BY DEF Pending, Frames, ToSet
<1> QED BY <1>1 DEF SeesWhatIsQueued, ReplayInv, UndisturbedInv, SubscriberInv, OnceInv

(* dequeueReplay(), for any number of values and subscribers and any calls   *)
(* in one another: a subscriber receives the values that were queued when it *)
(* subscribed, then the later ones, in order and without a gap, unless it    *)
(* was disturbed; and nobody receives a value twice.                         *)
THEOREM SeesWhatIsQueuedAlways == ReplaySpec => []SeesWhatIsQueued
<1>1. ReplayInit => ReplayInv
  BY ReplayInitially
<1>2. ReplayInv /\ [ReplayNext]_replayVars => ReplayInv'
  BY ReplayNextStep
<1>3. ReplayInv => SeesWhatIsQueued
  BY ReplayInvImplies
<1> QED BY <1>1, <1>2, <1>3, PTL DEF ReplaySpec

-------------------------------------------------------------------------------
(* Scopes.  The contexts from i up to the root, for any tree of contexts.    *)
Up(cs, i) ==
  LET path[n \in 1..Len(cs)] == IF n = 1 THEN <<1>> ELSE <<n>> \o path[cs[n].parent] IN path[i]

LEMMA UpNow == ASSUME NEW i PROVE PathUp(i) = Up(contexts, i)
BY DEF PathUp, Up
LEMMA UpNext == ASSUME NEW i PROVE PathUp(i)' = Up(contexts', i)
BY DEF PathUp, Up

(* Scopes of one kind are told apart by their fields.                        *)
LEMMA SameFields ==
    ASSUME NEW s, NEW t, WellFormed(s), WellFormed(t), s.kind = t.kind,
           \A f \in FieldsOf[s.kind] : s[f] = t[f]
    PROVE  s = t
<1> DEFINE F == {"kind"} \cup FieldsOf[s.kind]
<1>1. s = [f \in F |-> s[f]] /\ t = [f \in F |-> t[f]]
  BY DEF WellFormed
<1>2. \A f \in F : s[f] = t[f]
  OBVIOUS
<1> QED BY <1>1, <1>2

LEMMA KindFields ==
    ASSUME NEW s, WellFormed(s)
    PROVE  /\ s.kind \in {"class", "function", "string", "custom", "dependency", "factoryParam", "invoke", "invokeParam"}
           /\ DOMAIN s = {"kind"} \cup FieldsOf[s.kind]
<1>1. s.kind \in DOMAIN FieldsOf /\ s = [f \in {"kind"} \cup FieldsOf[s.kind] |-> s[f]]
  BY DEF WellFormed
<1>2. s.kind \in {"class", "function", "string", "custom", "dependency", "factoryParam", "invoke", "invokeParam"}
  BY <1>1 DEF FieldsOf
<1> QED BY <1>1, <1>2

LEMMA KindField ==
    ASSUME NEW s, WellFormed(s)
    PROVE  /\ s.kind = "dependency" => /\ Field(s, "target") = s.target
                                       /\ Field(s, "methodName") = s.methodName
                                       /\ Field(s, "paramName") = s.paramName
           /\ s.kind = "factoryParam" => /\ Field(s, "target") = s.target
                                         /\ Field(s, "methodName") = "undefined"
           /\ s.kind = "custom" => /\ Field(s, "target") = "undefined"
                                   /\ Field(s, "methodName") = "undefined"
           /\ s.kind \in {"invoke", "invokeParam"} => /\ Field(s, "target") = "undefined"
                                                      /\ Field(s, "methodName") # "undefined"
<1>1. CASE s.kind = "dependency"
  <2> DOMAIN s = {"kind", "target", "methodName", "paramName"}
    BY <1>1, KindFields DEF FieldsOf
  <2> QED BY <1>1 DEF Field
<1>2. CASE s.kind = "factoryParam"
  <2> DOMAIN s = {"kind", "target", "paramToken"}
    BY <1>2, KindFields DEF FieldsOf
  <2> QED BY <1>2 DEF Field
<1>3. CASE s.kind = "custom"
  <2> DOMAIN s = {"kind", "type", "typeKind", "id"}
    BY <1>3, KindFields DEF FieldsOf
  <2> QED BY <1>3 DEF Field
<1>4. CASE s.kind \in {"invoke", "invokeParam"}
  <2>1. "methodName" \in DOMAIN s /\ "target" \notin DOMAIN s
    <3>1. CASE s.kind = "invoke"
      <4> DOMAIN s = {"kind", "instance", "methodName"}
        BY <3>1, KindFields DEF FieldsOf
      <4> QED OBVIOUS
    <3>2. CASE s.kind = "invokeParam"
      <4> DOMAIN s = {"kind", "instance", "methodName", "paramName"}
        BY <3>2, KindFields DEF FieldsOf
      <4> QED OBVIOUS
    <3> QED BY <1>4, <3>1, <3>2
  <2>2. s.methodName # "undefined"
    BY <1>4 DEF WellFormed
  <2> QED BY <1>4, <2>1, <2>2 DEF Field
<1> QED BY <1>1, <1>2, <1>3, <1>4, KindFields

LEMMA CompatibleMeans ==
    ASSUME NEW s, NEW t, WellFormed(s), WellFormed(t), ~Confused(s, t),
           s.kind = "dependency" /\ t.kind = "factoryParam" => s.target # t.target,
           t.kind = "dependency" /\ s.kind = "factoryParam" => t.target # s.target
    PROVE  ScopesAreCompatible(s, t) <=> Means(s, t)
<1> DEFINE Kinds == {"class", "function", "string", "custom", "dependency", "factoryParam", "invoke", "invokeParam"}
<1>k. s.kind \in Kinds /\ t.kind \in Kinds
  BY KindFields
<1>0. CASE s = t
  BY <1>0 DEF ScopesAreCompatible, Means
<1>1. CASE s # t /\ s.kind = "dependency" /\ t.kind = "class"
  BY <1>1 DEF ScopesAreCompatible, Means
<1>2. CASE s # t /\ {s.kind, t.kind} \subseteq {"class", "function"}
  BY <1>2 DEF ScopesAreCompatible, Means, Confused, TypeOfScope
<1>3. CASE s # t /\ TypeOfScope(s) # TypeOfScope(t) /\ ~(s.kind = "dependency" /\ t.kind = "class")
  BY <1>3 DEF ScopesAreCompatible, Means, TypeOfScope
<1>4. CASE s # t /\ {s.kind, t.kind} = {"custom"}
  <2>1. s.typeKind = "symbol" /\ t.typeKind = "symbol"
    BY <1>4 DEF Confused, WellFormed
  <2> QED BY <1>4, <2>1 DEF ScopesAreCompatible, Means, IsCustom, TypeOfScope
<1>5. CASE s # t /\ s.kind = t.kind /\ s.kind \in {"dependency", "factoryParam"}
  <2>1. \E f \in FieldsOf[s.kind] : s[f] # t[f]
    BY <1>5, SameFields
  <2>2. CASE s.kind = "dependency"
    <3>1. \E f \in {"target", "methodName", "paramName"} : Field(s, f) # Field(t, f)
      <4>1. \E f \in {"target", "methodName", "paramName"} : s[f] # t[f]
        BY <2>1, <2>2 DEF FieldsOf
      <4> QED BY <1>5, <2>2, <4>1, KindField
    <3> QED BY <1>5, <2>2, <3>1 DEF ScopesAreCompatible, Means, TypeOfScope, IsCustom
  <2>3. CASE s.kind = "factoryParam"
    BY <1>5, <2>1, <2>3 DEF ScopesAreCompatible, Means, TypeOfScope, FieldsOf
  <2> QED BY <1>5, <2>2, <2>3
<1>6. CASE s # t /\ s.kind # t.kind /\ {s.kind, t.kind} \subseteq {"custom", "dependency", "factoryParam", "invoke", "invokeParam"}
  <2>1. Field(s, "target") # Field(t, "target") \/ Field(s, "methodName") # Field(t, "methodName")
    <3>1. {s.kind, t.kind} \subseteq {"invoke", "invokeParam"} => FALSE
      BY DEF Confused
    <3>2. s.kind \in {"dependency", "factoryParam"} => s.target # "undefined"
      BY DEF WellFormed
    <3>3. t.kind \in {"dependency", "factoryParam"} => t.target # "undefined"
      BY DEF WellFormed
    <3> QED BY <1>6, <3>1, <3>2, <3>3, KindField
  <2> QED BY <1>6, <2>1 DEF ScopesAreCompatible, Means, IsCustom, TypeOfScope
<1> QED BY <1>k, <1>0, <1>1, <1>2, <1>3, <1>4, <1>5, <1>6 DEF TypeOfScope, Confused

-------------------------------------------------------------------------------
LEMMA LessThan == IsWellFoundedOn({ss \in Nat \X Nat : ss[1] < ss[2]}, Nat)
BY NatLessThanWellFounded DEF OpToRel

(* A set of numbers that is not empty has a smallest member.                 *)
LEMMA Smallest ==
    ASSUME NEW S, S \subseteq Nat, S # {}
    PROVE  Min(S) \in S /\ \A n \in S : Min(S) <= n
<1> DEFINE R == {ss \in Nat \X Nat : ss[1] < ss[2]}
<1>1. IsWellFoundedOn(R, Nat)
  BY LessThan
<1> HIDE DEF R
<1>2. PICK x \in S : \A y \in S : ~(<<y, x>> \in R)
  BY <1>1, WFMin
<1>3. \A y \in S : x <= y
  <2> SUFFICES ASSUME NEW y \in S, y < x PROVE FALSE
    OBVIOUS
  <2>1. <<y, x>> \in Nat \X Nat
    OBVIOUS
  <2>2. <<y, x>> \in R
    BY <2>1 DEF R
  <2> QED BY <1>2, <2>2
<1>4. \E n \in S : \A y \in S : n <= y
  BY <1>3
<1>5. Min(S) = CHOOSE n \in S : \A y \in S : n <= y
  BY DEF Min
<1> QED BY <1>4, <1>5, Zenon

(* Induction over the numbers, for the members of a set.                     *)
LEMMA NatSetInduction ==
    ASSUME NEW S, 0 \in S, \A n \in Nat : n \in S => n + 1 \in S
    PROVE  Nat \subseteq S
<1> SUFFICES ASSUME Nat \ S # {} PROVE FALSE
  OBVIOUS
<1> DEFINE x == Min(Nat \ S)
<1>1. x \in Nat /\ x \notin S /\ \A n \in Nat \ S : x <= n
  BY Smallest
<1>2. x - 1 \in Nat
  BY <1>1
<1>3. x - 1 \in S
  BY <1>1, <1>2
<1> QED BY <1>1, <1>2, <1>3

(* The tree of the contexts: a parent is made before its children.           *)
Tree(cs) ==
    /\ cs \in Seq([parent : Nat, scope : ContextScopes, made : {"caller", "instance"}])
    /\ Len(cs) >= 1
    /\ \A n \in 2 .. Len(cs) : cs[n].parent \in 1 .. n - 1

PathFrom(cs, n, f) == IF n = 1 THEN <<1>> ELSE <<n>> \o f[cs[n].parent]

LEMMA PathsExist ==
    ASSUME NEW cs, Tree(cs)
    PROVE  \E f : f = [n \in 1 .. Len(cs) |-> PathFrom(cs, n, f)]
<1> DEFINE S == {k \in Nat : k <= Len(cs) => \E f : f = [n \in 1 .. k |-> PathFrom(cs, n, f)]}
<1>1. 0 \in S
  <2> DEFINE f == [n \in 1 .. 0 |-> <<>>]
  <2>1. f = [n \in 1 .. 0 |-> PathFrom(cs, n, f)]
    OBVIOUS
  <2> QED BY <2>1
<1>2. ASSUME NEW k \in Nat, k \in S PROVE k + 1 \in S
  <2> SUFFICES ASSUME k + 1 <= Len(cs) PROVE \E f : f = [n \in 1 .. k + 1 |-> PathFrom(cs, n, f)]
    BY <1>2
  <2>1. Len(cs) \in Nat
    BY DEF Tree
  <2>2. PICK g : g = [n \in 1 .. k |-> PathFrom(cs, n, g)]
    BY <1>2, <2>1
  <2> DEFINE f == [n \in 1 .. k + 1 |-> IF n = k + 1 THEN PathFrom(cs, n, g) ELSE g[n]]
  <2>3. \A n \in 1 .. k + 1 : f[n] = PathFrom(cs, n, g)
    BY <1>2, <2>2, Z3
  <2>4. \A n \in 1 .. k + 1 : PathFrom(cs, n, f) = PathFrom(cs, n, g)
    <3> TAKE n \in 1 .. k + 1
    <3>1. CASE n = 1
      BY <3>1 DEF PathFrom
    <3>2. CASE n # 1
      <4>1. cs[n].parent \in 1 .. n - 1
        BY <1>2, <2>1, <3>2 DEF Tree
      <4>2. cs[n].parent \in 1 .. k /\ cs[n].parent # k + 1 /\ cs[n].parent \in 1 .. k + 1
        BY <1>2, <4>1
      <4>3. f[cs[n].parent] = g[cs[n].parent]
        BY <4>2
      <4> HIDE DEF f
      <4> QED BY <3>2, <4>3 DEF PathFrom
    <3> QED BY <3>1, <3>2
  <2>5. f = [n \in 1 .. k + 1 |-> f[n]]
    OBVIOUS
  <2> HIDE DEF f
  <2>6. f = [n \in 1 .. k + 1 |-> PathFrom(cs, n, f)]
    BY <2>3, <2>4, <2>5
  <2> QED BY <2>6
<1>3. Nat \subseteq S
  <2> HIDE DEF S
  <2> QED BY <1>1, <1>2, NatSetInduction
<1>4. Len(cs) \in Nat
  BY DEF Tree
<1>5. Len(cs) \in S
  <2> HIDE DEF S
  <2> QED BY <1>3, <1>4, Z3
<1> QED BY <1>4, <1>5

LEMMA UpIs ==
    ASSUME NEW cs, Tree(cs), NEW i \in DOMAIN cs
    PROVE  Up(cs, i) = IF i = 1 THEN <<1>> ELSE <<i>> \o Up(cs, cs[i].parent)
<1> DEFINE IsPaths(f) == f = [n \in 1 .. Len(cs) |-> IF n = 1 THEN <<1>> ELSE <<n>> \o f[cs[n].parent]]
           paths == CHOOSE f : IsPaths(f)
<1>1. \E f : IsPaths(f)
  BY PathsExist DEF PathFrom
<1>2. IsPaths(paths)
  BY <1>1
<1>3. \A n : Up(cs, n) = paths[n]
  BY DEF Up
<1>4. i \in 1 .. Len(cs)
  BY DEF Tree
<1>5. paths[i] = IF i = 1 THEN <<1>> ELSE <<i>> \o paths[cs[i].parent]
  <2> HIDE DEF paths
  <2> QED BY <1>2, <1>4
<1> QED BY <1>3, <1>5

(* A path begins where it is asked for and has contexts of the tree only;    *)
(* the paths there are stay when a context is added.                         *)
LEMMA UpInTree ==
    ASSUME NEW cs, Tree(cs)
    PROVE  \A i \in DOMAIN cs : Up(cs, i) \in Seq(DOMAIN cs)
<1> DEFINE S == {k \in Nat : \A i \in DOMAIN cs : i <= k => Up(cs, i) \in Seq(DOMAIN cs)}
<1>d. Len(cs) \in Nat \ {0} /\ DOMAIN cs = 1 .. Len(cs)
  BY DEF Tree
<1>1. 0 \in S
  BY <1>d
<1>2. ASSUME NEW k \in Nat, k \in S PROVE k + 1 \in S
  <2> SUFFICES ASSUME NEW i \in DOMAIN cs, i = k + 1 PROVE Up(cs, i) \in Seq(DOMAIN cs)
    BY <1>d, <1>2
  <2>0. i \in 1 .. Len(cs)
    BY <1>d
  <2>1. CASE i = 1
    <3>1. Up(cs, i) = <<1>>
      BY <2>1, UpIs
    <3>2. 1 \in DOMAIN cs
      BY <1>d
    <3>3. <<1>> \in Seq(DOMAIN cs)
      BY <3>2
    <3> QED BY <3>1, <3>3
  <2>2. CASE i # 1
    <3>1. cs[i].parent \in 1 .. i - 1
      BY <1>d, <2>0, <2>2 DEF Tree
    <3>2. cs[i].parent \in DOMAIN cs /\ cs[i].parent <= k
      BY <1>d, <1>2, <2>0, <3>1
    <3>3. Up(cs, cs[i].parent) \in Seq(DOMAIN cs)
      BY <1>2, <3>2
    <3>4. Up(cs, i) = <<i>> \o Up(cs, cs[i].parent)
      BY <2>2, UpIs
    <3>5. <<i>> \in Seq(DOMAIN cs)
      OBVIOUS
    <3> QED BY <3>3, <3>4, <3>5, ConcatProperties
  <2> QED BY <2>1, <2>2
<1>3. Nat \subseteq S
  <2> HIDE DEF S
  <2> QED BY <1>1, <1>2, NatSetInduction
<1> QED BY <1>d, <1>3

LEMMA UpStays ==
    ASSUME NEW cs, NEW c, Tree(cs), Tree(Append(cs, c))
    PROVE  \A i \in DOMAIN cs : Up(Append(cs, c), i) = Up(cs, i)
<1> DEFINE ds == Append(cs, c)
           S == {k \in Nat : \A i \in DOMAIN cs : i <= k => Up(ds, i) = Up(cs, i)}
<1>d. Len(cs) \in Nat \ {0} /\ DOMAIN cs = 1 .. Len(cs) /\ DOMAIN ds = 1 .. Len(cs) + 1
  BY DEF Tree
<1>e. \A i \in DOMAIN cs : ds[i] = cs[i] /\ i \in DOMAIN ds
  BY <1>d DEF Tree
<1>1. 0 \in S
  BY <1>d
<1>2. ASSUME NEW k \in Nat, k \in S PROVE k + 1 \in S
  <2> SUFFICES ASSUME NEW i \in DOMAIN cs, i = k + 1 PROVE Up(ds, i) = Up(cs, i)
    BY <1>d, <1>2
  <2>0. i \in 1 .. Len(cs) /\ i \in DOMAIN ds /\ ds[i] = cs[i]
    BY <1>d, <1>e
  <2>t. Tree(ds)
    OBVIOUS
  <2> HIDE DEF ds
  <2>1. CASE i = 1
    BY <2>0, <2>1, <2>t, UpIs
  <2>2. CASE i # 1
    <3>1. cs[i].parent \in 1 .. i - 1
      BY <1>d, <2>0, <2>2 DEF Tree
    <3>2. cs[i].parent \in DOMAIN cs /\ cs[i].parent <= k
      BY <1>d, <1>2, <2>0, <3>1
    <3>3. Up(ds, cs[i].parent) = Up(cs, cs[i].parent)
      BY <1>2, <3>2
    <3>4. Up(cs, i) = <<i>> \o Up(cs, cs[i].parent)
      BY <2>2, UpIs
    <3>5. Up(ds, i) = <<i>> \o Up(ds, ds[i].parent)
      BY <2>0, <2>2, <2>t, UpIs
    <3> QED BY <2>0, <3>3, <3>4, <3>5
  <2> QED BY <2>1, <2>2
<1>3. Nat \subseteq S
  <2> HIDE DEF S
  <2> QED BY <1>1, <1>2, NatSetInduction
<1> QED BY <1>d, <1>3

(* Adding a context below one of the tree.                                   *)
LEMMA TreeGrows ==
    ASSUME NEW cs, Tree(cs), NEW p \in DOMAIN cs, NEW s \in ContextScopes, NEW m \in {"caller", "instance"}
    PROVE  Tree(Append(cs, [parent |-> p, scope |-> s, made |-> m]))
<1> DEFINE c == [parent |-> p, scope |-> s, made |-> m]
           C == [parent : Nat, scope : ContextScopes, made : {"caller", "instance"}]
<1>1. Len(cs) \in Nat \ {0} /\ DOMAIN cs = 1 .. Len(cs) /\ cs \in Seq(C)
  BY DEF Tree
<1>2. c \in C /\ c.parent = p
  BY <1>1
<1> HIDE DEF c, C
<1>3. Append(cs, c) \in Seq(C) /\ Len(Append(cs, c)) = Len(cs) + 1
  BY <1>1, <1>2
<1>4. ASSUME NEW n \in 2 .. Len(cs) + 1 PROVE Append(cs, c)[n].parent \in 1 .. n - 1
  <2>1. CASE n = Len(cs) + 1
    <3>1. Append(cs, c)[n] = c
      BY <1>1, <2>1
    <3> QED BY <1>1, <1>2, <2>1, <3>1
  <2>2. CASE n # Len(cs) + 1
    <3>1. Append(cs, c)[n] = cs[n] /\ n \in 2 .. Len(cs)
      BY <1>1, <1>4, <2>2
    <3> QED BY <3>1 DEF Tree
  <2> QED BY <2>1, <2>2
<1> QED BY <1>1, <1>3, <1>4 DEF Tree, C, c

-------------------------------------------------------------------------------
(* Keys of the caches.  A text after a separator, behind another: it is the  *)
(* part behind the last separator, if it has none itself.                    *)
WithText(s, sep, x) == s \o <<sep>> \o x

LEMMA Separated ==
    ASSUME NEW T, NEW sep \in T, NEW s \in Seq(T), NEW x \in Seq(T)
    PROVE  /\ s \o <<sep>> \o x \in Seq(T) /\ Len(s \o <<sep>> \o x) = Len(s) + 1 + Len(x)
           /\ \A i \in 1 .. Len(s) : (s \o <<sep>> \o x)[i] = s[i]
           /\ (s \o <<sep>> \o x)[Len(s) + 1] = sep
           /\ \A i \in 1 .. Len(x) : (s \o <<sep>> \o x)[Len(s) + 1 + i] = x[i]
<1> DEFINE c == <<sep>>
           p == s \o c
           r == p \o x
           l == Len(s)
           n == Len(x)
<1>1. c \in Seq(T) /\ Len(c) = 1 /\ c[1] = sep
  OBVIOUS
<1>2. l \in Nat /\ n \in Nat
  BY LenProperties
<1> HIDE DEF c
<1>3. /\ p \in Seq(T) /\ Len(p) = l + Len(c)
      /\ \A i \in 1 .. l + Len(c) : p[i] = IF i <= l THEN s[i] ELSE c[i - l]
  BY <1>1, ConcatProperties
<1> HIDE DEF p
<1>4. /\ r \in Seq(T) /\ Len(r) = Len(p) + n
      /\ \A i \in 1 .. Len(p) + n : r[i] = IF i <= Len(p) THEN p[i] ELSE x[i - Len(p)]
  <2>1. p \in Seq(T)
    BY <1>3
  <2> HIDE DEF l
  <2> QED BY <2>1, ConcatProperties
<1> HIDE DEF r, l, n
<1>5. Len(p) = l + 1 /\ Len(r) = l + 1 + n
  BY <1>1, <1>2, <1>3, <1>4
<1>6. \A i \in 1 .. l : r[i] = s[i]
  <2> TAKE i \in 1 .. l
  <2>1. i \in 1 .. l + 1 /\ i \in 1 .. l + 1 + n /\ i <= l /\ i <= l + 1
    BY <1>2
  <2> QED BY <1>1, <1>3, <1>4, <1>5, <2>1
<1>7. r[l + 1] = sep
  <2>1. l + 1 \in 1 .. l + 1 /\ l + 1 \in 1 .. l + 1 + n /\ ~(l + 1 <= l) /\ l + 1 <= l + 1 /\ (l + 1) - l = 1
    BY <1>2
  <2> QED BY <1>1, <1>3, <1>4, <1>5, <2>1
<1>8. \A i \in 1 .. n : r[l + 1 + i] = x[i]
  <2> TAKE i \in 1 .. n
  <2>1. l + 1 + i \in 1 .. l + 1 + n /\ ~(l + 1 + i <= l + 1) /\ (l + 1 + i) - (l + 1) = i
    BY <1>2
  <2> QED BY <1>4, <1>5, <2>1
<1> QED BY <1>4, <1>5, <1>6, <1>7, <1>8 DEF r, p, c, l, n

LEMMA LastSeparator ==
    ASSUME NEW T, NEW sep \in T, NEW s \in Seq(T), NEW t \in Seq(T),
           NEW x \in Seq(T \ {sep}), NEW y \in Seq(T \ {sep}),
           WithText(s, sep, x) = WithText(t, sep, y)
    PROVE  s = t /\ x = y
<1>0. s \o <<sep>> \o x = t \o <<sep>> \o y
  BY DEF WithText
<1> DEFINE r == s \o <<sep>> \o x
           l == Len(s)
           k == Len(t)
           m == Len(x)
           n == Len(y)
<1>1. l \in Nat /\ k \in Nat /\ m \in Nat /\ n \in Nat
  BY LenProperties
<1>2. (\A i \in 1 .. m : x[i] # sep) /\ (\A i \in 1 .. n : y[i] # sep)
  BY ElementOfSeq
<1>3. x \in Seq(T) /\ y \in Seq(T)
  <2>1. x \in [1 .. m -> T \ {sep}] /\ y \in [1 .. n -> T \ {sep}]
    BY LenProperties
  <2> HIDE DEF m, n
  <2>2. x \in [1 .. m -> T] /\ y \in [1 .. n -> T]
    BY <2>1
  <2> QED BY <1>1, <2>2
<1>4. /\ Len(r) = l + 1 + m /\ r[l + 1] = sep
      /\ \A i \in 1 .. l : r[i] = s[i]
      /\ \A i \in 1 .. m : r[l + 1 + i] = x[i]
  BY <1>3, Separated
<1>5. /\ Len(r) = k + 1 + n /\ r[k + 1] = sep
      /\ \A i \in 1 .. k : r[i] = t[i]
      /\ \A i \in 1 .. n : r[k + 1 + i] = y[i]
  <2>1. r = t \o <<sep>> \o y
    BY <1>0
  <2> HIDE DEF r
  <2> QED BY <1>3, <2>1, Separated
<1> HIDE DEF r, l, k, m, n
<1>6. ~(l < k)
  <2> SUFFICES ASSUME l < k PROVE FALSE
    OBVIOUS
  <2>1. k - l \in 1 .. m /\ l + 1 + (k - l) = k + 1
    BY <1>1, <1>4, <1>5
  <2>2. r[l + 1 + (k - l)] = x[k - l]
    BY <1>4, <2>1
  <2> QED BY <1>2, <1>5, <2>1, <2>2
<1>7. ~(k < l)
  <2> SUFFICES ASSUME k < l PROVE FALSE
    OBVIOUS
  <2>1. l - k \in 1 .. n /\ k + 1 + (l - k) = l + 1
    BY <1>1, <1>4, <1>5
  <2>2. r[k + 1 + (l - k)] = y[l - k]
    BY <1>5, <2>1
  <2> QED BY <1>2, <1>4, <2>1, <2>2
<1>8. l = k /\ m = n
  BY <1>1, <1>4, <1>5, <1>6, <1>7
<1>9. \A i \in 1 .. l : s[i] = t[i]
  BY <1>4, <1>5, <1>8
<1>10. \A i \in 1 .. m : x[i] = y[i]
  BY <1>4, <1>5, <1>8
<1>11. s = t
  BY <1>8, <1>9, SeqEqual DEF l, k
<1>12. x = y
  BY <1>3, <1>8, <1>10, SeqEqual DEF m, n
<1> QED BY <1>11, <1>12

(* The text of a key after each of its arguments.                            *)
AfterArgument(sep, tag, args, n, f) == IF n = 0 THEN tag ELSE f[n - 1] \o <<sep>> \o args[n]
KeyTexts(sep, tag, args, m, f) == f = [n \in 0 .. m |-> AfterArgument(sep, tag, args, n, f)]

LEMMA KeyTextsExist ==
    ASSUME NEW sep, NEW tag, NEW args, NEW m \in Nat
    PROVE  \E f : KeyTexts(sep, tag, args, m, f)
<1> DEFINE S == {k \in Nat : \E f : KeyTexts(sep, tag, args, k, f)}
<1>1. 0 \in S
  <2> DEFINE f == [n \in 0 .. 0 |-> tag]
  <2>1. f = [n \in 0 .. 0 |-> AfterArgument(sep, tag, args, n, f)]
    BY DEF AfterArgument
  <2>2. KeyTexts(sep, tag, args, 0, f)
    BY <2>1 DEF KeyTexts
  <2> QED BY <2>2
<1>2. ASSUME NEW k \in Nat, k \in S PROVE k + 1 \in S
  <2>1. PICK g : g = [n \in 0 .. k |-> AfterArgument(sep, tag, args, n, g)]
    BY <1>2 DEF KeyTexts
  <2> DEFINE f == [n \in 0 .. k + 1 |-> IF n = k + 1 THEN AfterArgument(sep, tag, args, n, g) ELSE g[n]]
  <2>2. \A n \in 0 .. k + 1 : f[n] = AfterArgument(sep, tag, args, n, g)
    BY <1>2, <2>1
  <2>3. \A n \in 0 .. k + 1 : n # 0 => f[n - 1] = g[n - 1]
    BY <1>2
  <2>4. f = [n \in 0 .. k + 1 |-> f[n]]
    OBVIOUS
  <2> HIDE DEF f
  <2>5. \A n \in 0 .. k + 1 : AfterArgument(sep, tag, args, n, f) = AfterArgument(sep, tag, args, n, g)
    BY <2>3 DEF AfterArgument
  <2>6. f = [n \in 0 .. k + 1 |-> AfterArgument(sep, tag, args, n, f)]
    BY <2>2, <2>4, <2>5
  <2>7. KeyTexts(sep, tag, args, k + 1, f) /\ k + 1 \in Nat
    BY <2>6 DEF KeyTexts
  <2> QED BY <2>7
<1> HIDE DEF S
<1>3. Nat \subseteq S
  BY <1>1, <1>2, NatSetInduction
<1>4. m \in S
  BY <1>3
<1> QED BY <1>4 DEF S

LEMMA AlsoText ==
    ASSUME NEW T, NEW S \in SUBSET T, NEW a \in Seq(S)
    PROVE  a \in Seq(T) /\ Len(a) \in Nat
<1> DEFINE n == Len(a)
<1>1. n \in Nat /\ a \in [1 .. n -> S]
  BY LenProperties
<1> HIDE DEF n
<1>2. a \in [1 .. n -> T]
  BY <1>1
<1>3. a \in Seq(T)
  BY <1>1, <1>2
<1> QED BY <1>1, <1>3 DEF n

(* The texts are sequences: the tag, and longer ones after the arguments.     *)
LEMMA KeyTextsOf ==
    ASSUME NEW T, NEW sep \in T, NEW tag \in Seq(T), NEW args \in Seq(Seq(T \ {sep})),
           NEW f, KeyTexts(sep, tag, args, Len(args), f)
    PROVE  /\ f[0] = tag
           /\ \A n \in 1 .. Len(args) : f[n] = f[n - 1] \o <<sep>> \o args[n]
           /\ \A n \in 0 .. Len(args) : f[n] \in Seq(T) /\ (n # 0 => Len(f[n]) > Len(tag))
<1> DEFINE m == Len(args)
<1>1. m \in Nat /\ \A n \in 1 .. m : args[n] \in Seq(T \ {sep})
  BY LenProperties, ElementOfSeq
<1>2. \A n \in 0 .. m : f[n] = AfterArgument(sep, tag, args, n, f)
  BY DEF KeyTexts
<1> HIDE DEF m
<1>3. f[0] = tag
  BY <1>1, <1>2 DEF AfterArgument
<1>4. ASSUME NEW n \in 1 .. m PROVE f[n] = f[n - 1] \o <<sep>> \o args[n]
  <2>1. n \in 0 .. m /\ n # 0
    BY <1>1
  <2> QED BY <1>2, <2>1 DEF AfterArgument
<1> DEFINE Good(n) == f[n] \in Seq(T) /\ Len(f[n]) >= Len(tag) /\ (n # 0 => Len(f[n]) > Len(tag))
           S == {n \in Nat : n \in 0 .. m => Good(n)}
<1>5. Len(tag) \in Nat
  BY LenProperties
<1>6. 0 \in S
  BY <1>3, <1>5
<1>7. ASSUME NEW n \in Nat, n \in S PROVE n + 1 \in S
  <2> SUFFICES ASSUME n + 1 \in 0 .. m PROVE Good(n + 1)
    OBVIOUS
  <2>1. n \in 0 .. m /\ n + 1 \in 1 .. m /\ (n + 1) - 1 = n
    BY <1>1
  <2>2. Good(n)
    BY <1>7, <2>1
  <2>3. f[n + 1] = f[n] \o <<sep>> \o args[n + 1]
    BY <1>4, <2>1
  <2> DEFINE a == args[n + 1]
             p == f[n]
  <2>4. a \in Seq(T) /\ Len(a) \in Nat
    <3>1. a \in Seq(T \ {sep})
      BY <1>1, <2>1
    <3> HIDE DEF a
    <3>2. T \ {sep} \in SUBSET T
      OBVIOUS
    <3> QED BY <3>1, <3>2, AlsoText, Zenon
  <2>5. p \in Seq(T) /\ Len(p) >= Len(tag)
    BY <2>2
  <2>6. f[n + 1] = p \o <<sep>> \o a
    BY <2>3
  <2> HIDE DEF a, p
  <2>7. p \o <<sep>> \o a \in Seq(T) /\ Len(p \o <<sep>> \o a) = Len(p) + 1 + Len(a) /\ Len(p) \in Nat
    BY <2>4, <2>5, Separated, LenProperties
  <2>8. Len(f[n + 1]) > Len(tag) /\ f[n + 1] \in Seq(T) /\ Len(f[n + 1]) \in Nat
    BY <1>5, <2>4, <2>5, <2>6, <2>7
  <2> QED BY <1>5, <2>8
<1>8. \A n \in 0 .. m : Good(n)
  <2> HIDE DEF Good
  <2>1. ASSUME NEW n \in Nat, n \in S PROVE n + 1 \in S
    BY <1>7, <2>1
  <2> HIDE DEF S
  <2>2. Nat \subseteq S
    BY <1>6, <2>1, NatSetInduction
  <2> QED BY <1>1, <2>2 DEF S
<1> QED BY <1>3, <1>4, <1>8 DEF m

(* A key has the arguments it was made of, and the tag.                      *)
KeyMadeOf(key, T, sep, tag, args) ==
    /\ tag \in Seq(T) /\ args \in Seq(Seq(T \ {sep}))
    /\ \E f : KeyTexts(sep, tag, args, Len(args), f) /\ key = f[Len(args)]

LEMMA SameKey ==
    ASSUME NEW T, NEW sep \in T, NEW key, NEW tag, NEW other, Len(tag) = Len(other),
           NEW args, KeyMadeOf(key, T, sep, tag, args),
           NEW opposed, KeyMadeOf(key, T, sep, other, opposed)
    PROVE  tag = other /\ args = opposed
<1>0. /\ tag \in Seq(T) /\ args \in Seq(Seq(T \ {sep}))
      /\ other \in Seq(T) /\ opposed \in Seq(Seq(T \ {sep}))
  BY DEF KeyMadeOf
<1>f. PICK f : KeyTexts(sep, tag, args, Len(args), f) /\ key = f[Len(args)]
  BY DEF KeyMadeOf
<1>g. PICK g : KeyTexts(sep, other, opposed, Len(opposed), g) /\ key = g[Len(opposed)]
  BY DEF KeyMadeOf
<1> DEFINE l == Len(args)
           k == Len(opposed)
           h == Len(tag)
<1>1. l \in Nat /\ k \in Nat /\ h \in Nat /\ h = Len(other)
  BY <1>0, LenProperties
<1>2. (\A n \in 1 .. l : args[n] \in Seq(T \ {sep})) /\ (\A n \in 1 .. k : opposed[n] \in Seq(T \ {sep}))
  BY <1>0, ElementOfSeq
<1>3. /\ f[0] = tag
      /\ \A n \in 1 .. l : f[n] = f[n - 1] \o <<sep>> \o args[n]
      /\ \A n \in 0 .. l : f[n] \in Seq(T) /\ (n # 0 => Len(f[n]) > h)
  BY <1>0, <1>f, KeyTextsOf
<1>4. /\ g[0] = other
      /\ \A n \in 1 .. k : g[n] = g[n - 1] \o <<sep>> \o opposed[n]
      /\ \A n \in 0 .. k : g[n] \in Seq(T) /\ (n # 0 => Len(g[n]) > h)
  <2>1. /\ g[0] = other
        /\ \A n \in 1 .. k : g[n] = g[n - 1] \o <<sep>> \o opposed[n]
        /\ \A n \in 0 .. k : g[n] \in Seq(T) /\ (n # 0 => Len(g[n]) > Len(other))
    BY <1>0, <1>g, KeyTextsOf
  <2> HIDE DEF h, k
  <2> QED BY <1>1, <2>1
<1>5. f[l] = g[k]
  BY <1>f, <1>g
<1>6. Len(f[0]) = h /\ Len(g[0]) = h
  BY <1>1, <1>3, <1>4
<1> HIDE DEF l, k, h
<1> DEFINE Agree(n, m) == n = m /\ tag = other /\ \A i \in 1 .. n : args[i] = opposed[i]
           S == {n \in Nat : n \in 0 .. l => \A m \in 0 .. k : f[n] = g[m] => Agree(n, m)}
<1>7. 0 \in S
  <2> SUFFICES ASSUME NEW m \in 0 .. k, f[0] = g[m] PROVE Agree(0, m)
    OBVIOUS
  <2>1. Len(g[m]) = h
    BY <1>6
  <2>2. m = 0
    BY <1>1, <1>4, <2>1
  <2>3. tag = other
    BY <1>3, <1>4, <2>2
  <2> QED BY <2>2, <2>3
<1>8. ASSUME NEW n \in Nat, n \in S PROVE n + 1 \in S
  <2> SUFFICES ASSUME n + 1 \in 0 .. l, NEW m \in 0 .. k, f[n + 1] = g[m] PROVE Agree(n + 1, m)
    OBVIOUS
  <2>1. n \in 0 .. l /\ n + 1 \in 1 .. l /\ (n + 1) - 1 = n /\ n + 1 # 0
    BY <1>1
  <2>2. m # 0
    <3>1. Len(f[n + 1]) > h
      BY <1>3, <2>1
    <3>2. Len(g[m]) > h
      BY <3>1
    <3>3. ~(h > h)
      BY <1>1
    <3> QED BY <1>6, <3>2, <3>3
  <2>3. m \in 1 .. k /\ m - 1 \in 0 .. k
    BY <1>1, <2>2
  <2> DEFINE s == f[n]
             t == g[m - 1]
             x == args[n + 1]
             y == opposed[m]
  <2>4. WithText(s, sep, x) = WithText(t, sep, y)
    <3>1. f[n + 1] = s \o <<sep>> \o x
      BY <1>3, <2>1
    <3>2. g[m] = t \o <<sep>> \o y
      BY <1>4, <2>3
    <3> HIDE DEF s, t, x, y
    <3> QED BY <3>1, <3>2 DEF WithText
  <2>5. s \in Seq(T) /\ t \in Seq(T)
    BY <1>3, <1>4, <2>1, <2>3
  <2>6. x \in Seq(T \ {sep}) /\ y \in Seq(T \ {sep})
    BY <1>2, <2>1, <2>3
  <2>7. s = t /\ x = y
    <3> HIDE DEF s, t, x, y
    <3> QED BY <2>4, <2>5, <2>6, LastSeparator
  <2>8. Agree(n, m - 1)
    BY <1>8, <2>1, <2>3, <2>7
  <2>9. m = n + 1 /\ args[n + 1] = opposed[n + 1]
    BY <2>3, <2>7, <2>8
  <2>10. 1 .. n + 1 = (1 .. n) \cup {n + 1}
    OBVIOUS
  <2> QED BY <2>8, <2>9, <2>10
<1>9. l \in S
  <2> HIDE DEF Agree
  <2>1. ASSUME NEW n \in Nat, n \in S PROVE n + 1 \in S
    BY <1>8, <2>1
  <2> HIDE DEF S
  <2> QED BY <1>1, <1>7, <2>1, NatSetInduction
<1>10. Agree(l, k)
  <2>1. l \in 0 .. l /\ k \in 0 .. k
    BY <1>1
  <2> HIDE DEF Agree
  <2> QED BY <1>5, <1>9, <2>1
<1>11. args = opposed
  <2>1. Len(args) = Len(opposed) /\ \A i \in 1 .. Len(args) : args[i] = opposed[i]
    BY <1>10 DEF l, k
  <2> QED BY <1>0, <2>1, SeqEqual
<1> QED BY <1>10, <1>11

(* The key that joins the arguments is one of these texts.                   *)
LEMMA JoinedText ==
    ASSUME NEW T, NEW tag \in Seq(T), NEW args \in Seq(Seq(T \ {":"}))
    PROVE  KeyMadeOf(Joined(tag, args), T, ":", tag, args)
<1> DEFINE m == Len(args)
           text == CHOOSE f : KeyTexts(":", tag, args, m, f)
<1>1. m \in Nat
  BY LenProperties
<1>2. KeyTexts(":", tag, args, m, text)
  <2> HIDE DEF m
  <2> QED BY <1>1, KeyTextsExist
<1>3. Joined(tag, args) = (CHOOSE f : f = [n \in 0 .. m |-> IF n = 0 THEN tag ELSE f[n - 1] \o <<":">> \o args[n]])[m]
  BY DEF Joined
<1>4. Joined(tag, args) = text[m]
  BY <1>3 DEF KeyTexts, AfterArgument
<1> HIDE DEF text
<1> QED BY <1>2, <1>4 DEF KeyMadeOf

LEMMA ThreeSymbols ==
    ASSUME NEW T, NEW a \in T, NEW b \in T, NEW c \in T
    PROVE  <<a, b, c>> \in Seq(T) /\ Len(<<a, b, c>>) = 3 /\ <<a, b, c>>[2] = b
OBVIOUS

(* ServiceContextCacheKeyGenerator.keyFor: if no ':' is in the arguments, as *)
(* none is in a number or a UUID, the keys tell the callers apart.           *)
THEOREM PlainArgumentsTellApart ==
    ASSUME NEW Symbols, CallArgs \subseteq [context : Symbols, args : Seq(Seq(Symbols \ {":"}))]
    PROVE  KeysTellApart
<1> SUFFICES ASSUME NEW c \in CallArgs, NEW d \in CallArgs, KeyFor(c) = KeyFor(d) PROVE c = d
  BY DEF KeysTellApart
<1> DEFINE Plain == Symbols \ {":"}
           T == Symbols \cup {"[", ":", "]"}
           s == <<"[", c.context, "]">>
           t == <<"[", d.context, "]">>
<1>1. c \in [context : Symbols, args : Seq(Seq(Plain))] /\ d \in [context : Symbols, args : Seq(Seq(Plain))]
  OBVIOUS
<1>2. /\ "[" \in T /\ ":" \in T /\ "]" \in T /\ Plain \in SUBSET (T \ {":"})
      /\ c.context \in T /\ d.context \in T
  BY <1>1
<1>3. /\ s \in Seq(T) /\ Len(s) = 3 /\ s[2] = c.context
      /\ t \in Seq(T) /\ Len(t) = 3 /\ t[2] = d.context
  BY <1>2, ThreeSymbols, Zenon
<1>4. c.args \in Seq(Seq(T \ {":"})) /\ d.args \in Seq(Seq(T \ {":"}))
  <2>1. c.args \in Seq(Seq(Plain)) /\ d.args \in Seq(Seq(Plain))
    BY <1>1
  <2> HIDE DEF Plain, T
  <2>2. Seq(Plain) \in SUBSET Seq(T \ {":"})
    BY <1>2, AlsoText
  <2> QED BY <2>1, <2>2, AlsoText, Zenon
<1>5. Joined(s, c.args) = Joined(t, d.args)
  BY DEF KeyFor
<1> HIDE DEF s, t, Plain, T
<1>6. KeyMadeOf(Joined(s, c.args), T, ":", s, c.args)
  BY <1>3, <1>4, JoinedText
<1>7. KeyMadeOf(Joined(s, c.args), T, ":", t, d.args)
  BY <1>3, <1>4, <1>5, JoinedText
<1>8. s = t /\ c.args = d.args
  BY <1>2, <1>3, <1>6, <1>7, SameKey
<1>9. c.context = d.context
  BY <1>3, <1>8
<1> QED BY <1>1, <1>8, <1>9

(* So the caches keep what is stored for such arguments.                     *)
THEOREM PlainEntriesAreKept ==
    ASSUME NEW Symbols, CallArgs \subseteq [context : Symbols, args : Seq(Seq(Symbols \ {":"}))]
    PROVE  CacheSpec => []EntriesAreKept
<1>1. KeysTellApart
  BY PlainArgumentsTellApart
<1> QED BY <1>1, EntriesAreKeptAlways

-------------------------------------------------------------------------------
(* What KeptWhereMeant says of a request, for the contexts of a state.       *)
RestrictedTo(x) == GetScopeRestriction(x.provider).scope
Named(x) == GetScopeRestriction(x.provider) # NoRestriction /\ GetScopeRestriction(x.provider).behavior # "perInjector"
ClearIn(cs, x) ==
    /\ Named(x)
    /\ \A c \in ToSet(Up(cs, x.from)) : ~Confused(cs[c].scope, RestrictedTo(x))
MeantIn(cs, x) == {n \in DOMAIN Up(cs, x.from) : Means(cs[Up(cs, x.from)[n]].scope, RestrictedTo(x))}
KeptIn(cs, x) ==
    ClearIn(cs, x) => \E n \in MeantIn(cs, x) : x.home = Up(cs, x.from)[n] /\ \A m \in MeantIn(cs, x) : n <= m
MissedIn(cs, x) == ClearIn(cs, x) => MeantIn(cs, x) = {}

LEMMA KeptNow ==
    KeptWhereMeant <=> (\A x \in placed : KeptIn(contexts, x)) /\ (\A x \in scopeErrors : MissedIn(contexts, x))
BY UpNow DEF KeptWhereMeant, KeptIn, MissedIn, ClearIn, MeantIn, Named, RestrictedTo

(* Requests come from providers and contexts that there are.                 *)
ScopesInv ==
    /\ Tree(contexts)
    /\ \A x \in placed \cup scopeErrors : x.provider \in ScopeProviders /\ x.from \in DOMAIN contexts
    /\ \A x \in placed : KeptIn(contexts, x)
    /\ \A x \in scopeErrors : MissedIn(contexts, x)

(* What was said of a request stays true when a context is added.            *)
LEMMA KeptStays ==
    ASSUME NEW cs, NEW c, Tree(cs), Tree(Append(cs, c)), NEW x, x.from \in DOMAIN cs
    PROVE  /\ KeptIn(cs, x) => KeptIn(Append(cs, c), x)
           /\ MissedIn(cs, x) => MissedIn(Append(cs, c), x)
<1> DEFINE ds == Append(cs, c)
           up == Up(cs, x.from)
<1>1. Up(ds, x.from) = up
  BY UpStays
<1>2. up \in Seq(DOMAIN cs)
  BY UpInTree
<1>3. \A i \in DOMAIN cs : ds[i] = cs[i]
  BY DEF Tree
<1> HIDE DEF ds, up
<1>4. \A n \in DOMAIN up : up[n] \in DOMAIN cs
  BY <1>2
<1>5. ToSet(up) \subseteq DOMAIN cs
  BY <1>4 DEF ToSet
<1>6. ClearIn(ds, x) <=> ClearIn(cs, x)
  BY <1>1, <1>3, <1>5 DEF ClearIn, up
<1>7. MeantIn(ds, x) = MeantIn(cs, x)
  BY <1>1, <1>3, <1>4 DEF MeantIn, up
<1>8. KeptIn(ds, x) <=> KeptIn(cs, x)
  BY <1>1, <1>6, <1>7 DEF KeptIn, up
<1>9. MissedIn(ds, x) <=> MissedIn(cs, x)
  BY <1>6, <1>7 DEF MissedIn
<1> QED BY <1>8, <1>9 DEF ds

(* The search finds what is meant.                                           *)
FoundIn(cs, x) == {n \in DOMAIN Up(cs, x.from) : ScopesAreCompatible(cs[Up(cs, x.from)[n]].scope, RestrictedTo(x))}
LEMMA FoundIsMeant ==
    ASSUME NEW cs, Tree(cs), NEW x, x.from \in DOMAIN cs, x.provider \in ScopeProviders, ClearIn(cs, x)
    PROVE  FoundIn(cs, x) = MeantIn(cs, x)
<1> DEFINE up == Up(cs, x.from)
<1>1. up \in Seq(DOMAIN cs)
  BY UpInTree
<1> SUFFICES ASSUME NEW n \in DOMAIN up
             PROVE  ScopesAreCompatible(cs[up[n]].scope, RestrictedTo(x)) <=> Means(cs[up[n]].scope, RestrictedTo(x))
  BY DEF FoundIn, MeantIn
<1> DEFINE s == cs[up[n]].scope
           r == RestrictedTo(x)
<1> HIDE DEF up
<1>2. up[n] \in DOMAIN cs /\ up[n] \in ToSet(up)
  BY <1>1 DEF ToSet
<1>3. s \in ContextScopes
  <2> DEFINE C == [parent : Nat, scope : ContextScopes, made : {"caller", "instance"}]
             i == up[n]
  <2>1. cs \in Seq(C) /\ i \in DOMAIN cs
    BY <1>2 DEF Tree
  <2>2. cs[i] \in C
    <3> HIDE DEF C, i
    <3> QED BY <2>1
  <2>3. cs[i].scope \in ContextScopes
    BY <2>2
  <2> QED BY <2>3
<1>4. r \in RestrictedScopes
  BY DEF ClearIn, Named, RestrictedTo, RestrictedScopes
<1>5. ~Confused(s, r)
  BY <1>2 DEF ClearIn, up
<1> HIDE DEF s, r
<1>6. WellFormed(s) /\ WellFormed(r)
  BY <1>3, <1>4, ScopesAssumption
<1>7. /\ s.kind = "dependency" /\ r.kind = "factoryParam" => s.target # r.target
      /\ r.kind = "dependency" /\ s.kind = "factoryParam" => r.target # s.target
  BY <1>3, <1>4, ScopesAssumption
<1>8. ScopesAreCompatible(s, r) <=> Means(s, r)
  BY <1>5, <1>6, <1>7, CompatibleMeans
<1> QED BY <1>8 DEF s, r

LEMMA SearchFinds ==
    ASSUME Tree(contexts), NEW p \in ScopeProviders, NEW from \in DOMAIN contexts, NEW match,
           GetScopeRestriction(p) # NoRestriction, GetScopeRestriction(p).behavior # "perInjector",
           NEW x, x.provider = p, x.from = from
    PROVE  FindInstanceContext(from, match, GetScopeRestriction(p)) =
             IF FoundIn(contexts, x) = {} THEN 0 ELSE Up(contexts, from)[Min(FoundIn(contexts, x))]
<1>1. PathUp(from) = Up(contexts, from)
  BY UpNow
<1> QED BY <1>1 DEF FindInstanceContext, FoundIn, RestrictedTo

(* A request that has found a context, or none.                              *)
LEMMA NewPlaced ==
    ASSUME Tree(contexts), NEW p \in ScopeProviders, NEW from \in DOMAIN contexts, NEW match, NEW home,
           home = FindInstanceContext(from, match, GetScopeRestriction(p))
    PROVE  /\ home # 0 => KeptIn(contexts, [provider |-> p, from |-> from, home |-> home])
           /\ home = 0 => MissedIn(contexts, [provider |-> p, from |-> from])
<1> DEFINE x == [provider |-> p, from |-> from, home |-> home]
           y == [provider |-> p, from |-> from]
<1>x. x.provider = p /\ x.from = from /\ x.home = home
  OBVIOUS
<1>y. y.provider = p /\ y.from = from
  OBVIOUS
<1> HIDE DEF x, y
<1>u. Up(contexts, from) \in Seq(DOMAIN contexts)
  BY UpInTree
<1>1. ASSUME home # 0 PROVE KeptIn(contexts, x)
  <2> SUFFICES ASSUME ClearIn(contexts, x)
               PROVE  \E n \in MeantIn(contexts, x) : x.home = Up(contexts, x.from)[n] /\ \A m \in MeantIn(contexts, x) : n <= m
    BY DEF KeptIn
  <2>1. FoundIn(contexts, x) = MeantIn(contexts, x)
    BY <1>x, FoundIsMeant
  <2>2. GetScopeRestriction(p) # NoRestriction /\ GetScopeRestriction(p).behavior # "perInjector"
    BY <1>x DEF ClearIn, Named
  <2>3. home = IF FoundIn(contexts, x) = {} THEN 0 ELSE Up(contexts, from)[Min(FoundIn(contexts, x))]
    BY <1>x, <2>2, SearchFinds
  <2>4. FoundIn(contexts, x) # {} /\ home = Up(contexts, from)[Min(FoundIn(contexts, x))]
    BY <1>1, <2>3
  <2>5. FoundIn(contexts, x) \subseteq Nat
    BY <1>x, <1>u DEF FoundIn
  <2>6. Min(FoundIn(contexts, x)) \in FoundIn(contexts, x) /\ \A n \in FoundIn(contexts, x) : Min(FoundIn(contexts, x)) <= n
    BY <2>4, <2>5, Smallest
  <2> QED BY <1>x, <2>1, <2>4, <2>6
<1>2. ASSUME home = 0 PROVE MissedIn(contexts, y)
  <2> SUFFICES ASSUME ClearIn(contexts, y) PROVE MeantIn(contexts, y) = {}
    BY DEF MissedIn
  <2>1. FoundIn(contexts, y) = MeantIn(contexts, y)
    BY <1>y, FoundIsMeant
  <2>2. GetScopeRestriction(p) # NoRestriction /\ GetScopeRestriction(p).behavior # "perInjector"
    BY <1>y DEF ClearIn, Named
  <2>3. home = IF FoundIn(contexts, y) = {} THEN 0 ELSE Up(contexts, from)[Min(FoundIn(contexts, y))]
    BY <1>y, <2>2, SearchFinds
  <2>4. FoundIn(contexts, y) \subseteq DOMAIN Up(contexts, from) /\ FoundIn(contexts, y) \subseteq Nat
    BY <1>y, <1>u DEF FoundIn
  <2>5. ASSUME FoundIn(contexts, y) # {} PROVE FALSE
    <3>1. Min(FoundIn(contexts, y)) \in FoundIn(contexts, y)
      BY <2>4, <2>5, Smallest
    <3>2. Up(contexts, from)[Min(FoundIn(contexts, y))] \in DOMAIN contexts
      BY <1>u, <2>4, <3>1
    <3>3. 0 \notin DOMAIN contexts
      BY DEF Tree
    <3> QED BY <1>2, <2>3, <2>5, <3>2, <3>3
  <2> QED BY <2>1, <2>5
<1> QED BY <1>1, <1>2 DEF x, y

LEMMA InitScopes == ScopesInit => ScopesInv
<1> SUFFICES ASSUME ScopesInit PROVE ScopesInv
  OBVIOUS
<1>1. RootScope \in ContextScopes
  BY DEF ContextScopes
<1> DEFINE c == [parent |-> 1, scope |-> RootScope, made |-> "caller"]
           C == [parent : Nat, scope : ContextScopes, made : {"caller", "instance"}]
<1>2. c \in C /\ contexts = <<c>>
  <2>1. contexts = <<c>>
    BY DEF ScopesInit
  <2>2. c \in C
    BY <1>1
  <2> QED BY <2>1, <2>2
<1> HIDE DEF c
<1>3. contexts \in Seq(C) /\ Len(contexts) = 1
  <2> HIDE DEF C
  <2> QED BY <1>2
<1>4. Tree(contexts)
  BY <1>3 DEF Tree
<1> QED BY <1>4 DEF ScopesInv, ScopesInit

LEMMA ScopesStep == ScopesInv /\ [ScopesNext]_scopeVars => ScopesInv'
<1> SUFFICES ASSUME ScopesInv, [ScopesNext]_scopeVars PROVE ScopesInv'
  OBVIOUS
<1>t. Tree(contexts)
  BY DEF ScopesInv
<1>a. Asking \subseteq DOMAIN contexts
  BY DEF Asking
<1>1. ASSUME NEW parent \in Asking, NEW scope \in NewScopes, CreateChildContext(parent, scope)
      PROVE  ScopesInv'
  <2> DEFINE c == [parent |-> parent, scope |-> scope, made |-> "caller"]
  <2>1. contexts' = Append(contexts, c) /\ UNCHANGED <<placed, scopeErrors>>
    BY <1>1 DEF CreateChildContext
  <2>2. scope \in ContextScopes
    BY DEF ContextScopes
  <2>3. Tree(Append(contexts, c))
    BY <1>a, <1>t, <2>2, TreeGrows
  <2> HIDE DEF c
  <2>4. DOMAIN contexts \subseteq DOMAIN contexts'
    BY <1>t, <2>1 DEF Tree
  <2>5. \A x \in placed : KeptIn(contexts', x)
    BY <1>t, <2>1, <2>3, KeptStays DEF ScopesInv
  <2>6. \A x \in scopeErrors : MissedIn(contexts', x)
    BY <1>t, <2>1, <2>3, KeptStays DEF ScopesInv
  <2>7. \A x \in placed \cup scopeErrors : x.provider \in ScopeProviders /\ x.from \in DOMAIN contexts'
    BY <2>4 DEF ScopesInv
  <2>8. Tree(contexts')
    BY <2>1, <2>3
  <2> QED BY <2>1, <2>5, <2>6, <2>7, <2>8 DEF ScopesInv
<1>2. ASSUME NEW p \in ScopeProviders, NEW from \in Asking, NEW match \in ToSet(PathUp(from)), GenerateInstance(p, from, match)
      PROVE  ScopesInv'
  <2> DEFINE c == [parent |-> from, scope |-> GetInjectionScope(p), made |-> "instance"]
             home == FindInstanceContext(from, match, GetScopeRestriction(p))
             x == [provider |-> p, from |-> from, home |-> home]
             y == [provider |-> p, from |-> from]
  <2>x. x.provider = p /\ x.from = from
    OBVIOUS
  <2>y. y.provider = p /\ y.from = from
    OBVIOUS
  <2>f. from \in DOMAIN contexts
    BY <1>a
  <2>1. contexts' = Append(contexts, c)
    BY <1>2 DEF GenerateInstance
  <2>2. GetInjectionScope(p) \in ContextScopes
    BY DEF ContextScopes
  <2>3. Tree(Append(contexts, c))
    BY <2>f, <1>t, <2>2, TreeGrows
  <2>h. /\ home # 0 => KeptIn(contexts, x)
        /\ home = 0 => MissedIn(contexts, y)
    BY <1>t, <2>f, NewPlaced
  <2>4. DOMAIN contexts \subseteq DOMAIN contexts'
    <3> HIDE DEF c
    <3> QED BY <1>t, <2>1 DEF Tree
  <2>5. /\ placed' \subseteq placed \cup {z \in {x} : home # 0}
        /\ scopeErrors' \subseteq scopeErrors \cup {z \in {y} : home = 0}
    BY <1>2 DEF GenerateInstance
  <2> HIDE DEF c, home, x, y
  <2>6. ASSUME NEW z \in placed' PROVE KeptIn(contexts', z) /\ z.provider \in ScopeProviders /\ z.from \in DOMAIN contexts
    <3>1. KeptIn(contexts, z) /\ z.from \in DOMAIN contexts /\ z.provider \in ScopeProviders
      BY <2>5, <2>6, <2>h, <2>x, <2>f DEF ScopesInv
    <3> QED BY <1>t, <2>1, <2>3, <3>1, KeptStays
  <2>7. ASSUME NEW z \in scopeErrors' PROVE MissedIn(contexts', z) /\ z.provider \in ScopeProviders /\ z.from \in DOMAIN contexts
    <3>1. MissedIn(contexts, z) /\ z.from \in DOMAIN contexts /\ z.provider \in ScopeProviders
      BY <2>5, <2>7, <2>h, <2>y, <2>f DEF ScopesInv
    <3> QED BY <1>t, <2>1, <2>3, <3>1, KeptStays
  <2>8. Tree(contexts')
    BY <2>1, <2>3
  <2> QED BY <2>4, <2>6, <2>7, <2>8 DEF ScopesInv
<1>3. ASSUME UNCHANGED scopeVars PROVE ScopesInv'
  BY <1>3 DEF ScopesInv, scopeVars
<1> QED BY <1>1, <1>2, <1>3 DEF ScopesNext

(* An instance is kept by the nearest context that the restriction of its    *)
(* token or provider means, and a lookup fails only if there is none, unless *)
(* scopes are on the way that scopesAreCompatible cannot tell apart          *)
(* (findInstanceContext), for any providers and scopes.                      *)
THEOREM KeptWhereMeantAlways == ScopesSpec => []KeptWhereMeant
<1>1. ScopesInv => KeptWhereMeant
  BY KeptNow DEF ScopesInv
<1> QED BY <1>1, InitScopes, ScopesStep, PTL DEF ScopesSpec

-------------------------------------------------------------------------------
(* The preparers of a request.                                               *)
(*                                                                           *)
(* A set of numbers up to n that is not empty has a greatest member.         *)
LEMMA Greatest ==
    ASSUME NEW n \in Nat, NEW S, S \subseteq 0 .. n, S # {}
    PROVE  Max(S) \in S
<1> DEFINE T == {k \in 0 .. n : n - k \in S}
<1>1. T \subseteq Nat
  OBVIOUS
<1>2. T # {}
  <2>1. PICK i \in S : TRUE
    OBVIOUS
  <2>2. n - i \in 0 .. n /\ n - (n - i) = i
    BY <2>1
  <2> QED BY <2>1, <2>2
<1> HIDE DEF T
<1>3. Min(T) \in T /\ \A k \in T : Min(T) <= k
  BY <1>1, <1>2, Smallest
<1> DEFINE x == n - Min(T)
<1>4. x \in S /\ Min(T) \in 0 .. n
  BY <1>3 DEF T
<1>5. \A y \in S : x >= y
  <2> TAKE y \in S
  <2>1. y \in 0 .. n /\ n - y \in 0 .. n /\ n - (n - y) = y
    OBVIOUS
  <2>2. n - y \in T
    BY <2>1 DEF T
  <2>3. Min(T) <= n - y
    BY <1>3, <2>2
  <2> QED BY <1>4, <2>1, <2>3
<1> HIDE DEF x
<1>6. Max(S) = CHOOSE g \in S : \A y \in S : g >= y
  BY DEF Max
<1>7. \E g \in S : \A y \in S : g >= y
  BY <1>4, <1>5
<1> QED BY <1>6, <1>7, Zenon

(* Flattening: the elements of all the sequences.                            *)
FlatFrom(ss, i, f) == IF i = 1 THEN ss[i] ELSE f[i - 1] \o ss[i]
Flat(ss, k, f) == f = [i \in 1 .. k |-> FlatFrom(ss, i, f)]

LEMMA FlatExists ==
    ASSUME NEW ss, NEW n \in Nat
    PROVE  \E f : Flat(ss, n, f)
<1> DEFINE S == {k \in Nat : \E f : Flat(ss, k, f)}
<1>1. 0 \in S
  <2> DEFINE f == [i \in 1 .. 0 |-> <<>>]
  <2>1. f = [i \in 1 .. 0 |-> FlatFrom(ss, i, f)]
    OBVIOUS
  <2>2. Flat(ss, 0, f)
    BY <2>1 DEF Flat
  <2> QED BY <2>2
<1>2. ASSUME NEW k \in Nat, k \in S PROVE k + 1 \in S
  <2>1. PICK g : g = [i \in 1 .. k |-> FlatFrom(ss, i, g)]
    BY <1>2 DEF Flat
  <2> DEFINE f == [i \in 1 .. k + 1 |-> IF i = k + 1 THEN FlatFrom(ss, i, g) ELSE g[i]]
  <2>2. \A i \in 1 .. k + 1 : f[i] = FlatFrom(ss, i, g)
    BY <1>2, <2>1
  <2>3. \A i \in 1 .. k + 1 : i # 1 => f[i - 1] = g[i - 1]
    BY <1>2
  <2>4. f = [i \in 1 .. k + 1 |-> f[i]]
    OBVIOUS
  <2> HIDE DEF f
  <2>5. \A i \in 1 .. k + 1 : FlatFrom(ss, i, f) = FlatFrom(ss, i, g)
    BY <2>3 DEF FlatFrom
  <2>6. f = [i \in 1 .. k + 1 |-> FlatFrom(ss, i, f)]
    BY <2>2, <2>4, <2>5
  <2>7. Flat(ss, k + 1, f) /\ k + 1 \in Nat
    BY <2>6 DEF Flat
  <2> QED BY <2>7
<1> HIDE DEF S
<1>3. Nat \subseteq S
  BY <1>1, <1>2, NatSetInduction
<1>4. n \in S
  BY <1>3
<1> QED BY <1>4 DEF S

LEMMA Concatenated ==
    ASSUME NEW T, NEW s \in Seq(T), NEW t \in Seq(T)
    PROVE  s \o t \in Seq(T) /\ ToSet(s \o t) = ToSet(s) \cup ToSet(t)
<1> DEFINE r == s \o t
           m == Len(s)
           n == Len(t)
<1>1. /\ r \in Seq(T) /\ Len(r) = m + n
      /\ \A i \in 1 .. m + n : r[i] = IF i <= m THEN s[i] ELSE t[i - m]
  BY ConcatProperties
<1>2. m \in Nat /\ n \in Nat /\ DOMAIN s = 1 .. m /\ DOMAIN t = 1 .. n
  BY LenProperties
<1>3. DOMAIN r = 1 .. m + n
  BY <1>1, LenProperties
<1> HIDE DEF r, m, n
<1>4. ASSUME NEW v \in ToSet(r) PROVE v \in ToSet(s) \cup ToSet(t)
  <2>1. PICK i \in 1 .. m + n : r[i] = v
    BY <1>3 DEF ToSet
  <2>2. CASE i <= m
    <3>1. i \in DOMAIN s /\ s[i] = v
      BY <1>1, <1>2, <2>1, <2>2
    <3> QED BY <3>1 DEF ToSet
  <2>3. CASE ~(i <= m)
    <3>1. i - m \in DOMAIN t /\ t[i - m] = v
      BY <1>1, <1>2, <2>1, <2>3
    <3> QED BY <3>1 DEF ToSet
  <2> QED BY <2>2, <2>3
<1>5. ASSUME NEW v \in ToSet(s) PROVE v \in ToSet(r)
  <2>1. PICK i \in 1 .. m : s[i] = v
    BY <1>2 DEF ToSet
  <2>2. i \in DOMAIN r /\ r[i] = v
    BY <1>1, <1>2, <1>3, <2>1
  <2> QED BY <2>2 DEF ToSet
<1>6. ASSUME NEW v \in ToSet(t) PROVE v \in ToSet(r)
  <2>1. PICK i \in 1 .. n : t[i] = v
    BY <1>2 DEF ToSet
  <2>2. m + i \in 1 .. m + n /\ ~(m + i <= m) /\ (m + i) - m = i
    BY <1>2
  <2>3. m + i \in DOMAIN r /\ r[m + i] = v
    BY <1>1, <1>3, <2>1, <2>2
  <2> QED BY <2>3 DEF ToSet
<1>7. r \in Seq(T) /\ ToSet(r) = ToSet(s) \cup ToSet(t)
  BY <1>1, <1>4, <1>5, <1>6
<1> QED BY <1>7 DEF r

LEMMA Flattened ==
    ASSUME NEW T, NEW R, NEW ss \in Seq(R), \A i \in DOMAIN ss : ss[i] \in Seq(T)
    PROVE  /\ FlattenSeq(ss) \in Seq(T)
           /\ \A v : v \in ToSet(FlattenSeq(ss)) <=> \E i \in DOMAIN ss : v \in ToSet(ss[i])
<1> DEFINE n == Len(ss)
<1>0. n \in Nat /\ DOMAIN ss = 1 .. n
  BY LenProperties
<1>1. CASE n = 0
  <2>1. ss = <<>>
    BY <1>1, EmptySeq
  <2>2. FlattenSeq(ss) = <<>>
    BY <1>1, <2>1 DEF FlattenSeq
  <2>3. ToSet(<<>>) = {} /\ DOMAIN ss = {} /\ <<>> \in Seq(T)
    BY <2>1 DEF ToSet
  <2> QED BY <2>2, <2>3
<1>2. CASE n # 0
  <2> DEFINE flat == CHOOSE f : Flat(ss, n, f)
  <2>1. Flat(ss, n, flat)
    BY <1>0, FlatExists
  <2>2. FlattenSeq(ss) = (CHOOSE f : f = [i \in 1 .. n |-> IF i = 1 THEN ss[i] ELSE f[i - 1] \o ss[i]])[n]
    BY <1>2 DEF FlattenSeq
  <2>3. FlattenSeq(ss) = flat[n]
    BY <2>2 DEF Flat, FlatFrom
  <2>4. \A i \in 1 .. n : flat[i] = FlatFrom(ss, i, flat)
    BY <2>1 DEF Flat
  <2> HIDE DEF flat, n
  <2> DEFINE Holds(k) == /\ flat[k] \in Seq(T)
                         /\ \A v : v \in ToSet(flat[k]) <=> \E i \in 1 .. k : v \in ToSet(ss[i])
             S == {k \in Nat : k \in 1 .. n => Holds(k)}
  <2>5. 0 \in S
    BY <1>0
  <2>6. ASSUME NEW k \in Nat, k \in S, k + 1 \in 1 .. n PROVE Holds(k + 1)
    <3>0. ss[k + 1] \in Seq(T)
      BY <1>0, <2>6
    <3>1. CASE k = 0
      <4>1. flat[k + 1] = ss[k + 1] /\ 1 .. k + 1 = {k + 1}
        BY <2>4, <2>6, <3>1 DEF FlatFrom
      <4> QED BY <3>0, <4>1
    <3>2. CASE k # 0
      <4>1. Holds(k)
        BY <1>0, <2>6, <3>2
      <4>2. flat[k + 1] = flat[k] \o ss[k + 1]
        <5>1. k + 1 # 1 /\ (k + 1) - 1 = k
          BY <2>6, <3>2
        <5>2. flat[k + 1] = FlatFrom(ss, k + 1, flat)
          BY <2>4, <2>6
        <5> QED BY <5>1, <5>2 DEF FlatFrom
      <4>3. flat[k] \in Seq(T)
        BY <4>1
      <4>4. flat[k] \o ss[k + 1] \in Seq(T) /\ ToSet(flat[k] \o ss[k + 1]) = ToSet(flat[k]) \cup ToSet(ss[k + 1])
        BY <3>0, <4>3, Concatenated
      <4>5. 1 .. k + 1 = (1 .. k) \cup {k + 1}
        BY <2>6
      <4> QED BY <4>1, <4>2, <4>4, <4>5
    <3> QED BY <3>1, <3>2
  <2>7. ASSUME NEW k \in Nat, k \in S PROVE k + 1 \in S
    <3> HIDE DEF Holds
    <3> QED BY <2>6, <2>7
  <2>8. Nat \subseteq S
    <3> HIDE DEF S
    <3> QED BY <2>5, <2>7, NatSetInduction
  <2>9. Holds(n)
    <3> HIDE DEF Holds
    <3>1. n \in S /\ n \in 1 .. n
      BY <1>0, <1>2, <2>8
    <3> QED BY <3>1
  <2> QED BY <1>0, <2>3, <2>9
<1> QED BY <1>1, <1>2

(* A sequence with one in front of it.                                       *)
LEMMA InFront ==
    ASSUME NEW T, NEW q \in T, NEW s \in Seq(T), s # <<>>, NEW d \in T
    PROVE  /\ <<q>> \o s \in Seq(T) /\ <<q>> \o s # <<>>
           /\ Last(<<q>> \o s) = Last(s) /\ Last(s) \in T
           /\ Append(<<q>> \o s, d) = <<q>> \o Append(s, d)
<1> DEFINE r == <<q>> \o s
           n == Len(s)
<1>1. /\ r \in Seq(T) /\ Len(r) = 1 + n
      /\ \A i \in 1 .. 1 + n : r[i] = IF i <= 1 THEN q ELSE s[i - 1]
  <2>1. <<q>> \in Seq(T) /\ Len(<<q>>) = 1 /\ \A i \in 1 .. 1 : <<q>>[i] = q
    OBVIOUS
  <2>2. /\ r \in Seq(T) /\ Len(r) = Len(<<q>>) + n
        /\ \A i \in 1 .. Len(<<q>>) + n : r[i] = IF i <= Len(<<q>>) THEN <<q>>[i] ELSE s[i - Len(<<q>>)]
    BY <2>1, ConcatProperties
  <2> HIDE DEF r, n
  <2>3. \A i : i <= 1 /\ i \in 1 .. 1 + n => i \in 1 .. 1
    OBVIOUS
  <2> QED BY <2>1, <2>2
<1>2. n \in Nat \ {0}
  BY EmptySeq
<1>3. r # <<>>
  BY <1>1, <1>2, EmptySeq
<1>4. Last(s) = s[n] /\ s[n] \in T
  BY <1>2, ElementOfSeq DEF Last
<1>5. Last(r) = Last(s)
  <2>1. Last(r) = r[1 + n]
    BY <1>1 DEF Last
  <2> HIDE DEF r, n
  <2>2. r[1 + n] = s[n]
    <3>1. 1 + n \in 1 .. 1 + n /\ ~(1 + n <= 1) /\ (1 + n) - 1 = n
      BY <1>2
    <3> QED BY <1>1, <3>1
  <2> QED BY <1>4, <2>1, <2>2
<1>6. Append(r, d) = <<q>> \o Append(s, d)
  <2>1. Append(r, d) = r \o <<d>> /\ Append(s, d) = s \o <<d>> /\ <<q>> \in Seq(T) /\ <<d>> \in Seq(T)
    BY <1>1, AppendIsConcat
  <2>2. r \o <<d>> = <<q>> \o (s \o <<d>>)
    BY <2>1, ConcatAssociative
  <2> QED BY <2>1, <2>2
<1> QED BY <1>1, <1>3, <1>4, <1>5, <1>6

(* The paths down from a preparer, and the preparers they reach.             *)
DepsIn(c, q) == ToSet(c.deps[q])
PathsStep(c, q, f) == {<<q>>} \cup UNION {{<<q>> \o path : path \in f[d]} : d \in DepsIn(c, q)}
IsPaths(c, P, f) == f = [q \in P |-> PathsStep(c, q, f)]
DependencyPaths(c, p) == (CHOOSE f : IsPaths(c, PreparerClasses, f))[p]
Reaches(c, p) == {Last(path) : path \in DependencyPaths(c, p)}

LEMMA ReachedNow ==
    ASSUME NEW p
    PROVE  PathsFrom(p) = DependencyPaths(pipelineConfig, p) /\ ReachedFrom(p) = Reaches(pipelineConfig, p)
<1>1. PathsFrom(p) = DependencyPaths(pipelineConfig, p)
  BY DEF PathsFrom, DependencyPaths, IsPaths, PathsStep, DepsIn, DepsOfPreparer
<1> QED BY <1>1 DEF ReachedFrom, Reaches

LEMMA ReachedNext ==
    ASSUME NEW p
    PROVE  PathsFrom(p)' = DependencyPaths(pipelineConfig', p) /\ ReachedFrom(p)' = Reaches(pipelineConfig', p)
<1>1. PathsFrom(p)' = DependencyPaths(pipelineConfig', p)
  BY DEF PathsFrom, DependencyPaths, IsPaths, PathsStep, DepsIn, DepsOfPreparer
<1> QED BY <1>1 DEF ReachedFrom, Reaches

LEMMA DepsAreClasses ==
    ASSUME NEW c \in PipelineConfigs, NEW q \in PreparerClasses
    PROVE  /\ c.deps[q] \in Seq(PreparerClasses) /\ DOMAIN c.deps[q] = 1 .. Len(c.deps[q])
           /\ Len(c.deps[q]) \in Nat /\ DepsIn(c, q) \subseteq PreparerClasses
<1>1. c.deps[q] \in Seq(PreparerClasses)
  BY PreparersAssumption
<1>2. DOMAIN c.deps[q] = 1 .. Len(c.deps[q]) /\ Len(c.deps[q]) \in Nat
  BY <1>1, LenProperties
<1>3. \A i \in 1 .. Len(c.deps[q]) : c.deps[q][i] \in PreparerClasses
  BY <1>1, ElementOfSeq
<1> QED BY <1>1, <1>2, <1>3 DEF DepsIn, ToSet

(* Induction over the preparers, those depended on first.                    *)
LEMMA PreparerInduction ==
    ASSUME NEW c \in PipelineConfigs, NEW S,
           \A p \in PreparerClasses : DepsIn(c, p) \subseteq S => p \in S
    PROVE  PreparerClasses \subseteq S
<1> DEFINE N == Cardinality(PreparerClasses)
<1>1. N \in Nat
  BY PreparersAssumption, FS_CardinalityType
<1>2. PICK rank \in [PreparerClasses -> 0 .. N] :
        \A p \in PreparerClasses : \A d \in DepsIn(c, p) : rank[d] < rank[p]
  BY PreparersAssumption DEF DepsIn
<1> DEFINE K == {k \in Nat : \A p \in PreparerClasses : rank[p] < k => p \in S}
<1>3. 0 \in K
  BY <1>1, <1>2
<1>4. ASSUME NEW k \in Nat, k \in K PROVE k + 1 \in K
  <2> SUFFICES ASSUME NEW p \in PreparerClasses, rank[p] < k + 1 PROVE p \in S
    OBVIOUS
  <2>1. ASSUME NEW d \in DepsIn(c, p) PROVE d \in S
    <3>1. d \in PreparerClasses /\ rank[d] < rank[p]
      BY <1>2, DepsAreClasses
    <3>2. rank[d] \in Nat /\ rank[p] \in Nat
      BY <1>1, <1>2, <3>1
    <3>3. rank[d] < k
      BY <3>1, <3>2
    <3> QED BY <1>4, <3>1, <3>3
  <2> QED BY <2>1
<1>5. N + 1 \in K
  <2>1. Nat \subseteq K
    <3> HIDE DEF K
    <3> QED BY <1>3, <1>4, NatSetInduction
  <2> QED BY <1>1, <2>1
<1>6. \A p \in PreparerClasses : rank[p] < N + 1
  BY <1>1, <1>2
<1> QED BY <1>5, <1>6

LEMMA PreparerPathsExist ==
    ASSUME NEW c \in PipelineConfigs
    PROVE  \E f : IsPaths(c, PreparerClasses, f)
<1> DEFINE N == Cardinality(PreparerClasses)
<1>1. N \in Nat
  BY PreparersAssumption, FS_CardinalityType
<1>2. PICK rank \in [PreparerClasses -> 0 .. N] :
        \A p \in PreparerClasses : \A d \in DepsIn(c, p) : rank[d] < rank[p]
  BY PreparersAssumption DEF DepsIn
<1> DEFINE P(k) == {p \in PreparerClasses : rank[p] < k}
           K == {k \in Nat : \E f : IsPaths(c, P(k), f)}
<1>3. 0 \in K
  <2>1. P(0) = {}
    BY <1>1, <1>2
  <2> DEFINE f == [q \in {} |-> {}]
  <2>2. f = [q \in {} |-> PathsStep(c, q, f)]
    OBVIOUS
  <2>3. IsPaths(c, P(0), f)
    BY <2>1, <2>2 DEF IsPaths
  <2> QED BY <2>3
<1>4. ASSUME NEW k \in Nat, k \in K PROVE k + 1 \in K
  <2>1. PICK g : IsPaths(c, P(k), g)
    BY <1>4
  <2>2. \A q \in P(k) : g[q] = PathsStep(c, q, g)
    BY <2>1 DEF IsPaths
  <2> DEFINE f == [q \in P(k + 1) |-> PathsStep(c, q, g)]
  <2>3. ASSUME NEW q \in P(k + 1), NEW d \in DepsIn(c, q) PROVE f[d] = g[d]
    <3>1. d \in PreparerClasses /\ rank[d] < rank[q]
      BY <1>2, DepsAreClasses
    <3>2. rank[d] \in Nat /\ rank[q] \in Nat
      BY <1>1, <1>2, <3>1
    <3>3. rank[d] < k
      BY <3>1, <3>2
    <3>4. d \in P(k) /\ d \in P(k + 1)
      BY <3>1, <3>2, <3>3
    <3> QED BY <2>2, <3>4
  <2>4. \A q \in P(k + 1) : f[q] = PathsStep(c, q, g)
    OBVIOUS
  <2>5. f = [q \in P(k + 1) |-> f[q]]
    OBVIOUS
  <2> HIDE DEF f, P
  <2>6. \A q \in P(k + 1) : PathsStep(c, q, f) = PathsStep(c, q, g)
    <3> TAKE q \in P(k + 1)
    <3>1. \A d \in DepsIn(c, q) : {<<q>> \o path : path \in f[d]} = {<<q>> \o path : path \in g[d]}
      BY <2>3
    <3>2. {{<<q>> \o path : path \in f[d]} : d \in DepsIn(c, q)} = {{<<q>> \o path : path \in g[d]} : d \in DepsIn(c, q)}
      BY <3>1
    <3> QED BY <3>2 DEF PathsStep
  <2>7. f = [q \in P(k + 1) |-> PathsStep(c, q, f)]
    BY <2>4, <2>5, <2>6
  <2>8. IsPaths(c, P(k + 1), f)
    BY <2>7 DEF IsPaths
  <2> QED BY <2>8
<1>5. N + 1 \in K
  <2>1. Nat \subseteq K
    <3> HIDE DEF K
    <3> QED BY <1>3, <1>4, NatSetInduction
  <2> QED BY <1>1, <2>1
<1>6. P(N + 1) = PreparerClasses
  BY <1>1, <1>2
<1> HIDE DEF P
<1> QED BY <1>5, <1>6

LEMMA PathsAre ==
    ASSUME NEW c \in PipelineConfigs, NEW q \in PreparerClasses
    PROVE  /\ <<q>> \in DependencyPaths(c, q)
           /\ \A d \in DepsIn(c, q) : \A path \in DependencyPaths(c, d) : <<q>> \o path \in DependencyPaths(c, q)
           /\ \A way \in DependencyPaths(c, q) :
                way = <<q>> \/ \E d \in DepsIn(c, q) : \E path \in DependencyPaths(c, d) : way = <<q>> \o path
<1> DEFINE paths == CHOOSE f : IsPaths(c, PreparerClasses, f)
<1>1. IsPaths(c, PreparerClasses, paths)
  BY PreparerPathsExist
<1>2. \A p : DependencyPaths(c, p) = paths[p]
  BY DEF DependencyPaths
<1> HIDE DEF paths
<1>3. paths[q] = PathsStep(c, q, paths)
  BY <1>1 DEF IsPaths
<1>4. paths[q] = {<<q>>} \cup UNION {{<<q>> \o path : path \in paths[d]} : d \in DepsIn(c, q)}
  BY <1>3 DEF PathsStep
<1>5. <<q>> \in paths[q]
  BY <1>4
<1>6. ASSUME NEW d \in DepsIn(c, q), NEW path \in paths[d] PROVE <<q>> \o path \in paths[q]
  BY <1>4
<1>7. ASSUME NEW way \in paths[q], way # <<q>>
      PROVE  \E d \in DepsIn(c, q) : \E path \in paths[d] : way = <<q>> \o path
  BY <1>4, <1>7
<1> QED BY <1>2, <1>5, <1>6, <1>7

LEMMA PathsAreWays ==
    ASSUME NEW c \in PipelineConfigs, NEW q \in PreparerClasses, NEW path \in DependencyPaths(c, q)
    PROVE  path \in Seq(PreparerClasses) /\ path # <<>> /\ Last(path) \in PreparerClasses
<1> DEFINE Ways == Seq(PreparerClasses) \ {<<>>}
           S == {p \in PreparerClasses : DependencyPaths(c, p) \subseteq Ways}
<1>1. ASSUME NEW p \in PreparerClasses, DepsIn(c, p) \subseteq S PROVE p \in S
  <2>1. <<p>> \in Ways
    OBVIOUS
  <2>2. ASSUME NEW d \in DepsIn(c, p), NEW way \in DependencyPaths(c, d) PROVE <<p>> \o way \in Ways
    <3>1. way \in Seq(PreparerClasses) /\ way # <<>>
      BY <1>1
    <3> QED BY <3>1, InFront
  <2>3. ASSUME NEW down \in DependencyPaths(c, p) PROVE down \in Ways
    <3>1. CASE down = <<p>>
      BY <2>1, <3>1
    <3>2. CASE down # <<p>>
      <4>1. PICK d \in DepsIn(c, p) : \E tail \in DependencyPaths(c, d) : down = <<p>> \o tail
        BY <3>2, PathsAre
      <4>2. PICK tail \in DependencyPaths(c, d) : down = <<p>> \o tail
        BY <4>1
      <4> QED BY <2>2, <4>2
    <3> QED BY <3>1, <3>2
  <2> HIDE DEF Ways
  <2> QED BY <2>3
<1>2. PreparerClasses \subseteq S
  <2> HIDE DEF S
  <2> QED BY <1>1, PreparerInduction
<1>3. path \in Seq(PreparerClasses) /\ path # <<>>
  BY <1>2
<1>4. Last(path) \in PreparerClasses
  BY <1>3, EmptySeq, ElementOfSeq DEF Last
<1> QED BY <1>3, <1>4

LEMMA PathsGoOn ==
    ASSUME NEW c \in PipelineConfigs, NEW q \in PreparerClasses, NEW path \in DependencyPaths(c, q), NEW d \in DepsIn(c, Last(path))
    PROVE  Append(path, d) \in DependencyPaths(c, q)
<1> DEFINE Goes(p) == \A way \in DependencyPaths(c, p) : \A e \in DepsIn(c, Last(way)) : Append(way, e) \in DependencyPaths(c, p)
           S == {p \in PreparerClasses : Goes(p)}
<1>1. ASSUME NEW p \in PreparerClasses, DepsIn(c, p) \subseteq S PROVE p \in S
  <2>1. SUFFICES ASSUME NEW way \in DependencyPaths(c, p), NEW e \in DepsIn(c, Last(way)) PROVE Append(way, e) \in DependencyPaths(c, p)
    OBVIOUS
  <2>2. CASE way = <<p>>
    <3>1. Last(way) = p
      BY <2>2 DEF Last
    <3>2. Append(way, e) = <<p>> \o <<e>>
      BY <2>2
    <3>3. e \in DepsIn(c, p) /\ e \in PreparerClasses
      BY <3>1, DepsAreClasses
    <3>4. <<e>> \in DependencyPaths(c, e)
      BY <3>3, PathsAre
    <3> QED BY <3>2, <3>3, <3>4, PathsAre
  <2>3. CASE way # <<p>>
    <3>1. PICK f \in DepsIn(c, p) : \E tail \in DependencyPaths(c, f) : way = <<p>> \o tail
      BY <2>3, PathsAre
    <3>2. PICK tail \in DependencyPaths(c, f) : way = <<p>> \o tail
      BY <3>1
    <3>3. f \in PreparerClasses /\ Goes(f)
      BY <1>1
    <3>4. tail \in Seq(PreparerClasses) /\ tail # <<>> /\ Last(tail) \in PreparerClasses
      BY <3>3, PathsAreWays
    <3>5. Last(way) = Last(tail)
      BY <3>2, <3>4, InFront
    <3>6. e \in PreparerClasses
      BY <3>4, <3>5, DepsAreClasses
    <3>7. Append(way, e) = <<p>> \o Append(tail, e)
      BY <3>2, <3>4, <3>6, InFront
    <3>8. Append(tail, e) \in DependencyPaths(c, f)
      BY <3>3, <3>5
    <3> QED BY <3>7, <3>8, PathsAre
  <2> QED BY <2>2, <2>3
<1>2. PreparerClasses \subseteq S
  <2> HIDE DEF S
  <2> QED BY <1>1, PreparerInduction
<1> QED BY <1>2

LEMMA ReachesAre ==
    ASSUME NEW c \in PipelineConfigs, NEW q \in PreparerClasses
    PROVE  /\ q \in Reaches(c, q) /\ Reaches(c, q) \subseteq PreparerClasses
           /\ \A p \in Reaches(c, q) : p = q \/ \E d \in DepsIn(c, q) : p \in Reaches(c, d)
<1>1. <<q>> \in DependencyPaths(c, q) /\ Last(<<q>>) = q
  BY PathsAre DEF Last
<1>2. ASSUME NEW path \in DependencyPaths(c, q), Last(path) # q
      PROVE  \E d \in DepsIn(c, q) : Last(path) \in Reaches(c, d)
  <2>1. path # <<q>>
    BY <1>1, <1>2
  <2>2. PICK d \in DepsIn(c, q) : \E tail \in DependencyPaths(c, d) : path = <<q>> \o tail
    BY <2>1, PathsAre
  <2>3. PICK tail \in DependencyPaths(c, d) : path = <<q>> \o tail
    BY <2>2
  <2>4. d \in PreparerClasses
    BY DepsAreClasses
  <2>5. tail \in Seq(PreparerClasses) /\ tail # <<>>
    BY <2>4, PathsAreWays
  <2>6. Last(path) = Last(tail)
    BY <2>3, <2>5, InFront
  <2> QED BY <2>6 DEF Reaches
<1>3. \A path \in DependencyPaths(c, q) : Last(path) \in PreparerClasses
  BY PathsAreWays
<1> QED BY <1>1, <1>2, <1>3 DEF Reaches

(* Results: each is of a run there has been, and there is one of every       *)
(* preparer of P, each of which the request's context keeps a result of.     *)
Item == [by : PreparerClasses, run : Nat]
RanIn(runs, results) == results \in Seq(Item) /\ \A v \in ToSet(results) : v.run \in 1 .. runs[v.by]
HasOf(results, p) == \E v \in ToSet(results) : v.by = p
Backed(runs, held, results, P) == RanIn(runs, results) /\ P \subseteq held /\ \A p \in P : HasOf(results, p)

LEMMA ItemsAre ==
    ASSUME NEW results \in Seq(Item)
    PROVE  /\ \A v \in ToSet(results) : v.by \in PreparerClasses /\ v.run \in Nat
           /\ Len(results) \in Nat /\ DOMAIN results = 1 .. Len(results)
<1>1. Len(results) \in Nat /\ DOMAIN results = 1 .. Len(results)
  BY LenProperties
<1>2. \A i \in 1 .. Len(results) : results[i] \in Item
  BY ElementOfSeq
<1>3. \A v \in Item : v.by \in PreparerClasses /\ v.run \in Nat
  BY DEF Item
<1> QED BY <1>1, <1>2, <1>3 DEF ToSet

LEMMA BackedStays ==
    ASSUME NEW runs, NEW more, \A p \in PreparerClasses : runs[p] \in Nat /\ more[p] \in Nat /\ runs[p] <= more[p],
           NEW held, NEW held2, held \subseteq held2, NEW results, NEW P, NEW P2, P2 \subseteq P,
           Backed(runs, held, results, P)
    PROVE  Backed(more, held2, results, P2)
<1>1. \A v \in ToSet(results) : v.by \in PreparerClasses /\ v.run \in Nat /\ v.run \in 1 .. runs[v.by]
  BY ItemsAre DEF Backed, RanIn
<1>2. \A v \in ToSet(results) : v.run \in 1 .. more[v.by]
  <2> TAKE v \in ToSet(results)
  <2>1. runs[v.by] \in Nat /\ more[v.by] \in Nat /\ runs[v.by] <= more[v.by]
    BY <1>1
  <2> QED BY <1>1, <2>1
<1> QED BY <1>2 DEF Backed, RanIn

(* The provider that counts is of a run there has been.                      *)
LEMMA LatestIsOfARun ==
    ASSUME NEW runs, NEW held, NEW results, NEW P, Backed(runs, held, results, P), NEW p \in P
    PROVE  LatestOf(results, p) \in 1 .. runs[p]
<1> DEFINE of == {i \in DOMAIN results : results[i].by = p}
<1>1. results \in Seq(Item) /\ Len(results) \in Nat /\ DOMAIN results = 1 .. Len(results)
  BY ItemsAre DEF Backed, RanIn
<1>2. of # {}
  BY DEF Backed, HasOf, ToSet
<1>3. of \subseteq 0 .. Len(results)
  BY <1>1
<1>4. LatestOf(results, p) = results[Max(of)].run
  BY <1>2 DEF LatestOf
<1>5. Max(of) \in of
  <2> HIDE DEF of
  <2> QED BY <1>1, <1>2, <1>3, Greatest
<1>6. results[Max(of)].by = p /\ results[Max(of)] \in ToSet(results)
  BY <1>5 DEF ToSet
<1>7. results[Max(of)].run \in 1 .. runs[results[Max(of)].by]
  BY <1>6 DEF Backed, RanIn
<1> QED BY <1>4, <1>6, <1>7

(* What is reached from the preparers whose turn it has been.                *)
ReachedBefore(c, t) == UNION {Reaches(c, c.before[j]) : j \in 1 .. t - 1}
Generated == [pc : {"waiting", "running", "done", "failed"}, run : Nat, sees : Seq(Item), result : Seq(Item)]
Fitting(c, t, runs, held, path, g) ==
    /\ g \in Generated
    /\ t <= Len(c.before) /\ path \in DependencyPaths(c, c.before[t])
    /\ g.pc = "waiting" => g.run = 0 /\ Last(path) \notin ReachedBefore(c, t)
    /\ g.pc = "running" => /\ g.run \in 1 .. runs[Last(path)]
                           /\ Backed(runs, held, g.sees, Reaches(c, Last(path)) \ {Last(path)})
    /\ g.pc = "done" => Backed(runs, held, g.result, Reaches(c, Last(path)))

PrepTypes ==
    /\ pipelineConfig \in PipelineConfigs /\ turn \in 1 .. Len(pipelineConfig.before) + 1
    /\ runsOf \in [PreparerClasses -> Nat]
GenerationsFit ==
    \A path \in DOMAIN generations :
      Fitting(pipelineConfig, turn, runsOf, DOMAIN requestInstances, path, generations[path])
KeptAreComplete ==
    \A p \in DOMAIN requestInstances :
      p \in PreparerClasses /\ Backed(runsOf, DOMAIN requestInstances, requestInstances[p], Reaches(pipelineConfig, p))
EarlierAreThere ==
    Backed(runsOf, DOMAIN requestInstances, preparedProviders, ReachedBefore(pipelineConfig, turn))
RunsAreKnown ==
    \A p \in PreparerClasses : runsOf[p] >= 1 =>
      \/ p \in ReachedBefore(pipelineConfig, turn)
      \/ \E path \in DOMAIN generations : Last(path) = p /\ generations[path].run >= 1
Twice(c, p) ==
    \E i \in DOMAIN c.before :
      /\ \E path, other \in DependencyPaths(c, c.before[i]) : path # other /\ Last(path) = p /\ Last(other) = p
      /\ \A j \in 1 .. (i - 1) : p \notin Reaches(c, c.before[j])
RunTwice == \A p \in PreparerClasses : runsOf[p] > 1 => Twice(pipelineConfig, p)
PreparedAtTheEnd == outcome = "prepared" => turn = Len(pipelineConfig.before) + 1
PrepInv ==
    /\ PrepTypes /\ GenerationsFit /\ KeptAreComplete /\ EarlierAreThere
    /\ RunsAreKnown /\ RunTwice /\ PreparedAtTheEnd

LEMMA GenerationStep ==
    ASSUME NEW path, NEW g, Generation(path, g)
    PROVE  /\ DOMAIN generations' = DOMAIN generations \cup {path} /\ generations'[path] = g
           /\ \A q \in DOMAIN generations : q # path => generations'[q] = generations[q]
BY DEF Generation

(* An order of preparers to ask for.                                         *)
LEMMA BeforeIs ==
    ASSUME NEW c \in PipelineConfigs
    PROVE  /\ Len(c.before) \in Nat /\ DOMAIN c.before = 1 .. Len(c.before)
           /\ \A i \in 1 .. Len(c.before) : c.before[i] \in PreparerClasses
<1>1. c.before \in Seq(PreparerClasses)
  BY PreparersAssumption
<1> QED BY <1>1, LenProperties, ElementOfSeq

(* Only the runs and the kept results grow: what fits goes on to.            *)
LEMMA FittingStays ==
    ASSUME NEW c \in PipelineConfigs, NEW t \in Nat \ {0}, NEW runs, NEW more,
           \A p \in PreparerClasses : runs[p] \in Nat /\ more[p] \in Nat /\ runs[p] <= more[p],
           NEW held, NEW held2, held \subseteq held2, NEW path, NEW g,
           Fitting(c, t, runs, held, path, g)
    PROVE  Fitting(c, t, more, held2, path, g)
<1>1. t \in 1 .. Len(c.before)
  BY BeforeIs DEF Fitting
<1>2. Last(path) \in PreparerClasses
  BY <1>1, BeforeIs, PathsAreWays DEF Fitting
<1>3. ASSUME g.pc = "running"
      PROVE  g.run \in 1 .. more[Last(path)] /\ Backed(more, held2, g.sees, Reaches(c, Last(path)) \ {Last(path)})
  <2>1. g.run \in 1 .. runs[Last(path)] /\ Backed(runs, held, g.sees, Reaches(c, Last(path)) \ {Last(path)})
    BY <1>3 DEF Fitting
  <2>2. Backed(more, held2, g.sees, Reaches(c, Last(path)) \ {Last(path)})
    BY <2>1, BackedStays
  <2>3. runs[Last(path)] \in Nat /\ more[Last(path)] \in Nat /\ runs[Last(path)] <= more[Last(path)]
    BY <1>2
  <2> QED BY <2>1, <2>2, <2>3
<1>4. ASSUME g.pc = "done" PROVE Backed(more, held2, g.result, Reaches(c, Last(path)))
  <2>1. Backed(runs, held, g.result, Reaches(c, Last(path)))
    BY <1>4 DEF Fitting
  <2> QED BY <2>1, BackedStays
<1> QED BY <1>3, <1>4 DEF Fitting

(* What is asked for goes on: all that a step on one path has to show.       *)
LEMMA GenerationGoesOn ==
    ASSUME PrepInv, NEW path, NEW g, Generation(path, g),
           UNCHANGED <<pipelineConfig, turn, preparedProviders, outcome>>,
           runsOf' \in [PreparerClasses -> Nat], \A p \in PreparerClasses : runsOf[p] <= runsOf'[p],
           DOMAIN requestInstances \subseteq DOMAIN requestInstances',
           Fitting(pipelineConfig, turn, runsOf', DOMAIN requestInstances', path, g),
           \A p \in DOMAIN requestInstances' :
             \/ p \in DOMAIN requestInstances /\ requestInstances'[p] = requestInstances[p]
             \/ /\ p \in PreparerClasses
                /\ Backed(runsOf', DOMAIN requestInstances', requestInstances'[p], Reaches(pipelineConfig, p)),
           path \in DOMAIN generations /\ generations[path].run >= 1 => g.run >= 1,
           \A p \in PreparerClasses : runsOf'[p] # runsOf[p] =>
             p = Last(path) /\ g.run >= 1 /\ (runsOf'[p] > 1 => Twice(pipelineConfig, p))
    PROVE  PrepInv'
<1> DEFINE c == pipelineConfig
           held == DOMAIN requestInstances
           held2 == DOMAIN requestInstances'
<1>0. c' = c /\ turn' = turn /\ preparedProviders' = preparedProviders /\ outcome' = outcome
  OBVIOUS
<1>1. c \in PipelineConfigs /\ turn \in Nat \ {0} /\ turn \in 1 .. Len(c.before) + 1 /\ runsOf \in [PreparerClasses -> Nat]
  BY DEF PrepInv, PrepTypes
<1>2. \A p \in PreparerClasses : runsOf[p] \in Nat /\ runsOf'[p] \in Nat /\ runsOf[p] <= runsOf'[p]
  BY <1>1
<1>3. /\ DOMAIN generations' = DOMAIN generations \cup {path} /\ generations'[path] = g
      /\ \A q \in DOMAIN generations : q # path => generations'[q] = generations[q]
  BY GenerationStep
<1>4. PrepTypes'
  <2>1. turn \in 1 .. Len(c.before) + 1 /\ c \in PipelineConfigs
    BY <1>1
  <2> QED BY <1>0, <2>1 DEF PrepTypes
<1>5. GenerationsFit'
  <2>1. ASSUME NEW q \in DOMAIN generations' PROVE Fitting(c, turn, runsOf', held2, q, generations'[q])
    <3>1. CASE q = path
      BY <1>3, <3>1
    <3>2. CASE q # path
      <4>1. q \in DOMAIN generations /\ generations'[q] = generations[q]
        BY <1>3, <3>2
      <4>2. Fitting(c, turn, runsOf, held, q, generations[q])
        BY <4>1 DEF PrepInv, GenerationsFit
      <4>3. Fitting(c, turn, runsOf', held2, q, generations[q])
        BY <1>1, <1>2, <4>2, FittingStays
      <4> QED BY <4>1, <4>3
    <3> QED BY <3>1, <3>2
  <2> QED BY <1>0, <2>1 DEF GenerationsFit
<1>6. KeptAreComplete'
  <2>1. ASSUME NEW p \in held2
        PROVE  p \in PreparerClasses /\ Backed(runsOf', held2, requestInstances'[p], Reaches(c, p))
    <3>1. CASE p \in held /\ requestInstances'[p] = requestInstances[p]
      <4>1. p \in PreparerClasses /\ Backed(runsOf, held, requestInstances[p], Reaches(c, p))
        BY <3>1 DEF PrepInv, KeptAreComplete
      <4>2. Backed(runsOf', held2, requestInstances[p], Reaches(c, p))
        BY <1>2, <4>1, BackedStays
      <4> QED BY <3>1, <4>1, <4>2
    <3> QED BY <3>1
  <2> QED BY <1>0, <2>1 DEF KeptAreComplete
<1>7. EarlierAreThere'
  <2>1. Backed(runsOf, held, preparedProviders, ReachedBefore(c, turn))
    BY DEF PrepInv, EarlierAreThere
  <2>2. Backed(runsOf', held2, preparedProviders, ReachedBefore(c, turn))
    BY <1>2, <2>1, BackedStays
  <2> QED BY <1>0, <2>2 DEF EarlierAreThere
<1>8. RunsAreKnown'
  <2>1. ASSUME NEW p \in PreparerClasses, runsOf'[p] >= 1
        PROVE  \/ p \in ReachedBefore(c, turn)
               \/ \E q \in DOMAIN generations' : Last(q) = p /\ generations'[q].run >= 1
    <3>1. CASE runsOf'[p] # runsOf[p]
      BY <1>3, <3>1
    <3>2. CASE runsOf'[p] = runsOf[p] /\ p \notin ReachedBefore(c, turn)
      <4>1. PICK q \in DOMAIN generations : Last(q) = p /\ generations[q].run >= 1
        BY <2>1, <3>2 DEF PrepInv, RunsAreKnown
      <4>2. q \in DOMAIN generations' /\ generations'[q].run >= 1
        BY <1>3, <4>1
      <4> QED BY <4>1, <4>2
    <3> QED BY <3>1, <3>2
  <2> QED BY <1>0, <2>1 DEF RunsAreKnown
<1>9. RunTwice'
  <2>1. ASSUME NEW p \in PreparerClasses, runsOf'[p] > 1 PROVE Twice(c, p)
    <3>1. CASE runsOf'[p] # runsOf[p]
      BY <2>1, <3>1
    <3>2. CASE runsOf'[p] = runsOf[p]
      BY <2>1, <3>2 DEF PrepInv, RunTwice
    <3> QED BY <3>1, <3>2
  <2> QED BY <1>0, <2>1 DEF RunTwice
<1>10. PreparedAtTheEnd'
  <2>1. PreparedAtTheEnd
    BY DEF PrepInv
  <2> QED BY <1>0, <2>1 DEF PreparedAtTheEnd
<1> QED BY <1>4, <1>5, <1>6, <1>7, <1>8, <1>9, <1>10 DEF PrepInv

LEMMA PrepInitially == ASSUME PreparersInit PROVE PrepInv
<1>1. /\ pipelineConfig \in PipelineConfigs /\ turn = 1 /\ outcome = "preparing"
      /\ DOMAIN generations = {} /\ DOMAIN requestInstances = {} /\ preparedProviders = <<>>
      /\ runsOf = [p \in PreparerClasses |-> 0]
  BY DEF PreparersInit
<1>2. Len(pipelineConfig.before) \in Nat
  BY <1>1, BeforeIs
<1>3. PrepTypes
  BY <1>1, <1>2 DEF PrepTypes
<1>4. ReachedBefore(pipelineConfig, turn) = {}
  <2>1. 1 .. turn - 1 = {}
    BY <1>1
  <2> QED BY <2>1 DEF ReachedBefore
<1>5. EarlierAreThere
  <2>1. <<>> \in Seq(Item) /\ ToSet(<<>>) = {}
    BY DEF ToSet
  <2> QED BY <1>1, <1>4, <2>1 DEF EarlierAreThere, Backed, RanIn
<1>6. RunsAreKnown /\ RunTwice
  BY <1>1 DEF RunsAreKnown, RunTwice
<1>7. PreparedAtTheEnd /\ GenerationsFit /\ KeptAreComplete
  BY <1>1 DEF PreparedAtTheEnd, GenerationsFit, KeptAreComplete
<1> QED BY <1>3, <1>5, <1>6, <1>7 DEF PrepInv

(* A path that is asked for.                                                 *)
LEMMA AskedForIs ==
    ASSUME PrepInv, NEW path \in AskedFor
    PROVE  turn <= Len(pipelineConfig.before) /\ path \in DependencyPaths(pipelineConfig, pipelineConfig.before[turn])
<1> DEFINE c == pipelineConfig
<1>1. c \in PipelineConfigs /\ turn \in 1 .. Len(c.before) + 1 /\ turn \in Nat
  BY DEF PrepInv, PrepTypes
<1>2. CASE turn <= Len(Before) /\ path = <<Before[turn]>>
  <2>1. turn \in 1 .. Len(c.before)
    BY <1>1, <1>2, BeforeIs DEF Before
  <2>2. c.before[turn] \in PreparerClasses
    BY <1>1, <2>1, BeforeIs
  <2> QED BY <1>1, <1>2, <2>2, PathsAre DEF Before
<1>3. CASE \E up \in AtPc("waiting") : path \in ToSet(Below(up))
  <2>1. PICK up \in AtPc("waiting") : path \in ToSet(Below(up))
    BY <1>3
  <2>2. Fitting(c, turn, runsOf, DOMAIN requestInstances, up, generations[up])
    BY DEF PrepInv, GenerationsFit, AtPc
  <2>3. turn \in 1 .. Len(c.before) /\ up \in DependencyPaths(c, c.before[turn])
    BY <1>1, <2>2, BeforeIs DEF Fitting
  <2>4. c.before[turn] \in PreparerClasses
    BY <1>1, <2>3, BeforeIs
  <2>5. \E d \in DepsIn(c, Last(up)) : path = Append(up, d)
    BY <2>1 DEF Below, ToSet, DepsIn, DepsOfPreparer
  <2>6. path \in DependencyPaths(c, c.before[turn])
    BY <1>1, <2>3, <2>4, <2>5, PathsGoOn
  <2> QED BY <2>3, <2>6
<1> QED BY <1>2, <1>3 DEF AskedFor

LEMMA InjectResultStep ==
    ASSUME PrepInv, NEW path, InjectResult(path)
    PROVE  PrepInv'
<1> DEFINE c == pipelineConfig
           held == DOMAIN requestInstances
           taken == [pc |-> "done", run |-> 0, sees |-> <<>>, result |-> requestInstances[Last(path)]]
           awaited == [pc |-> "waiting", run |-> 0, sees |-> <<>>, result |-> <<>>]
           g == IF Last(path) \in held THEN taken ELSE awaited
<1>1. /\ path \in AskedFor /\ path \notin DOMAIN generations /\ Generation(path, g)
      /\ UNCHANGED <<pipelineConfig, turn, preparedProviders, outcome>>
      /\ runsOf' = runsOf /\ requestInstances' = requestInstances
  BY DEF InjectResult
<1>2. turn <= Len(c.before) /\ path \in DependencyPaths(c, c.before[turn])
  BY <1>1, AskedForIs
<1>3. runsOf \in [PreparerClasses -> Nat] /\ c \in PipelineConfigs /\ turn \in 1 .. Len(c.before) + 1
  BY DEF PrepInv, PrepTypes
<1>4. Last(path) \in PreparerClasses
  <2>1. turn \in 1 .. Len(c.before)
    BY <1>2, <1>3, BeforeIs
  <2>2. c.before[turn] \in PreparerClasses
    BY <1>3, <2>1, BeforeIs
  <2> QED BY <1>2, <1>3, <2>2, PathsAreWays
<1>5. <<>> \in Seq(Item)
  OBVIOUS
<1>6. CASE Last(path) \in held
  <2>1. Backed(runsOf, held, requestInstances[Last(path)], Reaches(c, Last(path)))
    BY <1>6 DEF PrepInv, KeptAreComplete
  <2>2. requestInstances[Last(path)] \in Seq(Item)
    BY <2>1 DEF Backed, RanIn
  <2>3. taken \in Generated
    BY <1>5, <2>2 DEF Generated
  <2>4. taken.pc = "done" /\ taken.run = 0 /\ taken.result = requestInstances[Last(path)]
    OBVIOUS
  <2> HIDE DEF taken, awaited
  <2>5. Fitting(c, turn, runsOf, held, path, taken)
    BY <1>2, <2>1, <2>3, <2>4 DEF Fitting
  <2>6. g = taken
    BY <1>6
  <2> QED BY <1>1, <1>3, <2>5, <2>6, GenerationGoesOn
<1>7. CASE Last(path) \notin held
  <2>1. awaited \in Generated
    BY <1>5 DEF Generated
  <2>2. awaited.pc = "waiting" /\ awaited.run = 0
    OBVIOUS
  <2> HIDE DEF taken, awaited
  <2>3. Last(path) \notin ReachedBefore(c, turn)
    BY <1>7 DEF PrepInv, EarlierAreThere, Backed
  <2>4. Fitting(c, turn, runsOf, held, path, awaited)
    BY <1>2, <2>1, <2>2, <2>3 DEF Fitting
  <2>5. g = awaited
    BY <1>7
  <2> QED BY <1>1, <1>3, <2>4, <2>5, GenerationGoesOn
<1> QED BY <1>6, <1>7

(* What the dependencies of a preparer provide together.                     *)
LEMMA DependenciesProvide ==
    ASSUME PrepInv, NEW path \in DOMAIN generations, ToSet(Dependencies(path)) \subseteq AtPc("done"),
           NEW sees, sees = FlattenSeq([i \in DOMAIN Dependencies(path) |-> generations[Dependencies(path)[i]].result])
    PROVE  Backed(runsOf, DOMAIN requestInstances, sees, Reaches(pipelineConfig, Last(path)) \ {Last(path)})
<1> DEFINE c == pipelineConfig
           held == DOMAIN requestInstances
           p == Last(path)
           D == c.deps[p]
           n == Len(D)
           ss == [i \in DOMAIN Dependencies(path) |-> generations[Dependencies(path)[i]].result]
           R == {generations[Append(path, D[i])].result : i \in 1 .. n}
<1>1. c \in PipelineConfigs /\ turn \in 1 .. Len(c.before) + 1
  BY DEF PrepInv, PrepTypes
<1>2. path \in Seq(PreparerClasses) /\ path # <<>> /\ p \in PreparerClasses
  <2>1. Fitting(c, turn, runsOf, held, path, generations[path])
    BY DEF PrepInv, GenerationsFit
  <2>2. turn \in 1 .. Len(c.before) /\ path \in DependencyPaths(c, c.before[turn])
    BY <1>1, <2>1, BeforeIs DEF Fitting
  <2>3. c.before[turn] \in PreparerClasses
    BY <1>1, <2>2, BeforeIs
  <2> QED BY <1>1, <2>2, <2>3, PathsAreWays
<1>3. DOMAIN D = 1 .. n /\ n \in Nat /\ DepsIn(c, p) \subseteq PreparerClasses
  BY <1>1, <1>2, DepsAreClasses
<1>4. Dependencies(path) = [i \in 1 .. n |-> Append(path, D[i])]
  <2>1. Dependencies(path) = [i \in DOMAIN D |-> Append(path, D[i])]
    BY Zenon DEF Dependencies, Below, DepsOfPreparer
  <2> HIDE DEF D, n
  <2> QED BY <1>3, <2>1
<1>5. ss = [i \in 1 .. n |-> generations[Append(path, D[i])].result]
  BY <1>4
<1>6. ASSUME NEW i \in 1 .. n
      PROVE  D[i] \in DepsIn(c, p) /\ Backed(runsOf, held, generations[Append(path, D[i])].result, Reaches(c, D[i]))
  <2>1. D[i] \in DepsIn(c, p) /\ D[i] \in PreparerClasses
    BY <1>3 DEF DepsIn, ToSet
  <2>2. Append(path, D[i]) \in AtPc("done")
    BY <1>4 DEF ToSet
  <2>3. Append(path, D[i]) \in DOMAIN generations /\ generations[Append(path, D[i])].pc = "done"
    BY <2>2 DEF AtPc
  <2>4. Fitting(c, turn, runsOf, held, Append(path, D[i]), generations[Append(path, D[i])])
    BY <2>3 DEF PrepInv, GenerationsFit
  <2>5. Last(Append(path, D[i])) = D[i]
    <3>1. Len(Append(path, D[i])) = Len(path) + 1 /\ Append(path, D[i])[Len(path) + 1] = D[i]
      BY <1>2, <2>1, AppendProperties
    <3> QED BY <3>1 DEF Last
  <2> QED BY <2>1, <2>3, <2>4, <2>5 DEF Fitting
<1>7. ss \in Seq(R) /\ DOMAIN ss = 1 .. n
  <2>1. ss \in [1 .. n -> R]
    BY <1>5
  <2> HIDE DEF ss, R, n
  <2> QED BY <1>3, <2>1, SeqDef
<1>8. \A i \in 1 .. n : ss[i] = generations[Append(path, D[i])].result
  BY <1>5
<1>9. \A i \in 1 .. n : Backed(runsOf, held, ss[i], Reaches(c, D[i]))
  BY <1>6, <1>8
<1>10. \A i \in 1 .. n : D[i] \in DepsIn(c, p)
  BY <1>6
<1>11. \A d \in DepsIn(c, p) : \E i \in 1 .. n : d = D[i]
  BY <1>3 DEF DepsIn, ToSet
<1>12. sees = FlattenSeq(ss)
  OBVIOUS
<1> HIDE DEF ss, R, n, D, p
<1>13. \A i \in DOMAIN ss : ss[i] \in Seq(Item)
  BY <1>7, <1>9 DEF Backed, RanIn
<1>14. /\ sees \in Seq(Item)
       /\ \A v : v \in ToSet(sees) <=> \E i \in DOMAIN ss : v \in ToSet(ss[i])
  BY <1>7, <1>12, <1>13, Flattened
<1>15. ASSUME NEW v \in ToSet(sees) PROVE v.run \in 1 .. runsOf[v.by]
  <2>1. PICK i \in 1 .. n : v \in ToSet(ss[i])
    BY <1>7, <1>14
  <2> QED BY <1>9, <2>1 DEF Backed, RanIn
<1>16. ASSUME NEW q \in Reaches(c, p), q # p PROVE q \in held /\ HasOf(sees, q)
  <2>1. PICK d \in DepsIn(c, p) : q \in Reaches(c, d)
    BY <1>1, <1>2, <1>16, ReachesAre DEF p
  <2>2. PICK i \in 1 .. n : d = D[i]
    BY <1>11
  <2>3. q \in held /\ HasOf(ss[i], q)
    BY <1>9, <2>1, <2>2 DEF Backed
  <2> QED BY <1>7, <1>14, <2>3 DEF HasOf
<1>17. Backed(runsOf, held, sees, Reaches(c, p) \ {p})
  BY <1>14, <1>15, <1>16 DEF Backed, RanIn
<1> QED BY <1>17 DEF p

LEMMA RunPreparerStep ==
    ASSUME PrepInv, NEW path, RunPreparer(path)
    PROVE  PrepInv'
<1> DEFINE c == pipelineConfig
           held == DOMAIN requestInstances
           p == Last(path)
           deps == Dependencies(path)
           sees == FlattenSeq([i \in DOMAIN deps |-> generations[deps[i]].result])
           g == [pc |-> "running", run |-> runsOf'[p], result |-> <<>>, sees |-> sees]
<1>1. /\ path \in AtPc("waiting") /\ ToSet(deps) \subseteq AtPc("done")
      /\ runsOf' = [runsOf EXCEPT ![p] = @ + 1] /\ Generation(path, g)
      /\ UNCHANGED <<pipelineConfig, turn, requestInstances, preparedProviders, outcome>>
  BY DEF RunPreparer
<1>2. path \in DOMAIN generations /\ generations[path].pc = "waiting"
  BY <1>1 DEF AtPc
<1>3. Fitting(c, turn, runsOf, held, path, generations[path])
  BY <1>2 DEF PrepInv, GenerationsFit
<1>4. /\ turn <= Len(c.before) /\ path \in DependencyPaths(c, c.before[turn])
      /\ generations[path].run = 0 /\ p \notin ReachedBefore(c, turn)
  BY <1>2, <1>3 DEF Fitting
<1>5. c \in PipelineConfigs /\ turn \in 1 .. Len(c.before) + 1 /\ runsOf \in [PreparerClasses -> Nat]
  BY DEF PrepInv, PrepTypes
<1>6. turn \in 1 .. Len(c.before) /\ turn \in DOMAIN c.before /\ turn \in Nat
  BY <1>4, <1>5, BeforeIs
<1>7. p \in PreparerClasses
  <2>1. c.before[turn] \in PreparerClasses
    BY <1>5, <1>6, BeforeIs
  <2> QED BY <1>4, <1>5, <2>1, PathsAreWays
<1>8. /\ runsOf' \in [PreparerClasses -> Nat] /\ runsOf'[p] = runsOf[p] + 1
      /\ \A q \in PreparerClasses : q # p => runsOf'[q] = runsOf[q]
  BY <1>1, <1>5, <1>7
<1>9. \A q \in PreparerClasses : runsOf[q] \in Nat /\ runsOf'[q] \in Nat /\ runsOf[q] <= runsOf'[q]
  BY <1>5, <1>8
<1>10. Backed(runsOf, held, sees, Reaches(c, p) \ {p})
  <2> HIDE DEF sees
  <2> QED BY <1>1, <1>2, DependenciesProvide DEF sees
<1>11. Backed(runsOf', held, sees, Reaches(c, p) \ {p})
  <2> HIDE DEF sees, p
  <2> QED BY <1>9, <1>10, BackedStays
<1>12. ASSUME runsOf'[p] > 1 PROVE Twice(c, p)
  <2>1. runsOf[p] >= 1
    BY <1>5, <1>7, <1>8, <1>12
  <2>2. PICK other \in DOMAIN generations : Last(other) = p /\ generations[other].run >= 1
    BY <1>4, <1>7, <2>1 DEF PrepInv, RunsAreKnown
  <2>3. other # path
    BY <1>4, <2>2
  <2>4. other \in DependencyPaths(c, c.before[turn])
    <3>1. Fitting(c, turn, runsOf, held, other, generations[other])
      BY <2>2 DEF PrepInv, GenerationsFit
    <3> QED BY <3>1 DEF Fitting
  <2>5. \A j \in 1 .. (turn - 1) : p \notin Reaches(c, c.before[j])
    BY <1>4 DEF ReachedBefore
  <2> HIDE DEF p
  <2>6. \E way, another \in DependencyPaths(c, c.before[turn]) : way # another /\ Last(way) = p /\ Last(another) = p
    BY <1>4, <2>2, <2>3, <2>4 DEF p
  <2> QED BY <1>6, <2>5, <2>6 DEF Twice
<1>13. runsOf'[p] \in 1 .. runsOf'[p] /\ runsOf'[p] >= 1
  <2>1. runsOf[p] \in Nat
    BY <1>5, <1>7
  <2> QED BY <1>8, <2>1
<1>14. g \in Generated
  <2>1. sees \in Seq(Item) /\ <<>> \in Seq(Item)
    BY <1>11 DEF Backed, RanIn
  <2>2. runsOf'[p] \in Nat
    BY <1>7, <1>8
  <2> HIDE DEF sees, p
  <2> QED BY <2>1, <2>2 DEF Generated
<1>15. g.pc = "running" /\ g.run = runsOf'[p] /\ g.sees = sees
  OBVIOUS
<1> HIDE DEF g, sees
<1>16. Fitting(c, turn, runsOf', held, path, g)
  BY <1>4, <1>11, <1>13, <1>14, <1>15 DEF Fitting
<1>17. \A q \in PreparerClasses : runsOf'[q] # runsOf[q] => q = p /\ g.run >= 1 /\ (runsOf'[q] > 1 => Twice(c, q))
  BY <1>8, <1>12, <1>13, <1>15
<1>18. requestInstances' = requestInstances /\ (path \in DOMAIN generations /\ generations[path].run >= 1 => g.run >= 1)
  BY <1>1, <1>13, <1>15
<1> HIDE DEF p, deps
<1> QED BY <1>1, <1>8, <1>9, <1>16, <1>17, <1>18, GenerationGoesOn DEF p

LEMMA PreparerFailsStep ==
    ASSUME PrepInv, NEW path, PreparerFails(path)
    PROVE  PrepInv'
<1> DEFINE g == [generations[path] EXCEPT !.pc = "failed"]
<1>1. /\ path \in DOMAIN generations /\ Generation(path, g)
      /\ UNCHANGED <<pipelineConfig, turn, preparedProviders, outcome>>
      /\ runsOf' = runsOf /\ requestInstances' = requestInstances
  BY DEF PreparerFails, AtPc
<1>2. Fitting(pipelineConfig, turn, runsOf, DOMAIN requestInstances, path, generations[path])
  BY <1>1 DEF PrepInv, GenerationsFit
<1>3. g \in Generated /\ g.pc = "failed" /\ g.run = generations[path].run
  BY <1>2 DEF Fitting, Generated
<1>4. runsOf \in [PreparerClasses -> Nat]
  BY DEF PrepInv, PrepTypes
<1> HIDE DEF g
<1>5. Fitting(pipelineConfig, turn, runsOf, DOMAIN requestInstances, path, g)
  BY <1>2, <1>3 DEF Fitting
<1> QED BY <1>1, <1>3, <1>4, <1>5, GenerationGoesOn

LEMMA PreparerReturnsStep ==
    ASSUME PrepInv, NEW path, PreparerReturns(path)
    PROVE  PrepInv'
<1> DEFINE c == pipelineConfig
           held == DOMAIN requestInstances
           held2 == DOMAIN requestInstances'
           p == Last(path)
           h == generations[path]
           item == [by |-> p, run |-> h.run]
           result == Append(h.sees, item)
           g == [h EXCEPT !.pc = "done", !.result = result]
<1>1. /\ path \in AtPc("running") /\ Generation(path, g)
      /\ requestInstances' = [q \in held \cup {p} |-> IF q = p THEN result ELSE requestInstances[q]]
      /\ UNCHANGED <<pipelineConfig, turn, preparedProviders, outcome>> /\ runsOf' = runsOf
  BY DEF PreparerReturns
<1>2. path \in DOMAIN generations /\ h.pc = "running"
  BY <1>1 DEF AtPc
<1>3. Fitting(c, turn, runsOf, held, path, h)
  BY <1>2 DEF PrepInv, GenerationsFit
<1>4. /\ h \in Generated /\ turn <= Len(c.before) /\ path \in DependencyPaths(c, c.before[turn])
      /\ h.run \in 1 .. runsOf[p] /\ Backed(runsOf, held, h.sees, Reaches(c, p) \ {p})
  BY <1>2, <1>3 DEF Fitting
<1>5. c \in PipelineConfigs /\ turn \in 1 .. Len(c.before) + 1 /\ runsOf \in [PreparerClasses -> Nat]
  BY DEF PrepInv, PrepTypes
<1>6. p \in PreparerClasses
  <2>1. turn \in 1 .. Len(c.before)
    BY <1>4, <1>5, BeforeIs
  <2>2. c.before[turn] \in PreparerClasses
    BY <1>5, <2>1, BeforeIs
  <2> QED BY <1>4, <1>5, <2>2, PathsAreWays
<1>7. /\ held2 = held \cup {p} /\ requestInstances'[p] = result
      /\ \A q \in held : q # p => requestInstances'[q] = requestInstances[q]
  <2> HIDE DEF result, p
  <2> QED BY <1>1
<1>8. item \in Item /\ item.by = p /\ item.run = h.run
  <2>1. h.run \in Nat
    BY <1>4 DEF Generated
  <2> QED BY <1>6, <2>1 DEF Item
<1>9. h.sees \in Seq(Item)
  BY <1>4 DEF Backed, RanIn
<1> HIDE DEF item
<1>10. result \in Seq(Item) /\ ToSet(result) = ToSet(h.sees) \cup {item}
  <2> DEFINE one == <<item>>
  <2>1. one \in Seq(Item) /\ ToSet(one) = {item}
    BY <1>8 DEF ToSet
  <2>2. result = h.sees \o one
    BY <1>8, <1>9, AppendIsConcat
  <2> HIDE DEF one, h
  <2>3. h.sees \o one \in Seq(Item) /\ ToSet(h.sees \o one) = ToSet(h.sees) \cup ToSet(one)
    BY <1>9, <2>1, Concatenated
  <2> QED BY <2>1, <2>2, <2>3
<1>11. Backed(runsOf, held2, result, Reaches(c, p))
  <2>1. \A v \in ToSet(h.sees) : v.run \in 1 .. runsOf[v.by]
    BY <1>4 DEF Backed, RanIn
  <2>2. \A v \in ToSet(result) : v.run \in 1 .. runsOf[v.by]
    <3> HIDE DEF result
    <3> QED BY <1>4, <1>8, <1>10, <2>1
  <2>3. \A q \in Reaches(c, p) : q # p => q \in held /\ HasOf(h.sees, q)
    BY <1>4 DEF Backed
  <2>4. \A q \in Reaches(c, p) : HasOf(result, q)
    <3> HIDE DEF result
    <3> QED BY <1>8, <1>10, <2>3 DEF HasOf
  <2> HIDE DEF result, p
  <2>5. Reaches(c, p) \subseteq held2
    BY <1>7, <2>3
  <2> QED BY <1>10, <2>2, <2>4, <2>5 DEF Backed, RanIn
<1>12. g \in Generated /\ g.pc = "done" /\ g.run = h.run /\ g.result = result
  <2> HIDE DEF result, h
  <2> QED BY <1>4, <1>10 DEF Generated
<1> HIDE DEF g, result, h, p
<1>13. Fitting(c, turn, runsOf, held2, path, g)
  BY <1>4, <1>11, <1>12 DEF Fitting, p
<1>14. \A q \in held2 : \/ q \in held /\ requestInstances'[q] = requestInstances[q]
                        \/ q \in PreparerClasses /\ Backed(runsOf, held2, requestInstances'[q], Reaches(c, q))
  BY <1>6, <1>7, <1>11
<1>15. path \in DOMAIN generations /\ generations[path].run >= 1 => g.run >= 1
  BY <1>12 DEF h
<1>16. held \subseteq held2
  BY <1>7
<1>17. /\ runsOf' \in [PreparerClasses -> Nat] /\ \A q \in PreparerClasses : runsOf[q] <= runsOf'[q] /\ runsOf'[q] = runsOf[q]
  BY <1>1, <1>5
<1>18. Fitting(c, turn, runsOf', held2, path, g)
  BY <1>1, <1>13
<1>19. \A q \in held2 : \/ q \in held /\ requestInstances'[q] = requestInstances[q]
                        \/ q \in PreparerClasses /\ Backed(runsOf', held2, requestInstances'[q], Reaches(c, q))
  BY <1>1, <1>14
<1> QED BY <1>1, <1>15, <1>16, <1>17, <1>18, <1>19, GenerationGoesOn

LEMMA NextPreparerStep ==
    ASSUME PrepInv, NextPreparer
    PROVE  PrepInv'
<1> DEFINE c == pipelineConfig
           held == DOMAIN requestInstances
           b == c.before[turn]
           result == generations[<<b>>].result
<1>1. /\ turn <= Len(c.before) /\ <<b>> \in AtPc("done") /\ preparedProviders' = preparedProviders \o result
      /\ turn' = turn + 1 /\ DOMAIN generations' = {} /\ pipelineConfig' = c
      /\ requestInstances' = requestInstances /\ outcome' = "preparing" /\ runsOf' = runsOf
  BY DEF NextPreparer, Before
<1>2. c \in PipelineConfigs /\ turn \in 1 .. Len(c.before) + 1 /\ runsOf \in [PreparerClasses -> Nat]
  BY DEF PrepInv, PrepTypes
<1>3. turn \in 1 .. Len(c.before) /\ Len(c.before) \in Nat
  BY <1>1, <1>2, BeforeIs
<1>4. <<b>> \in DOMAIN generations /\ generations[<<b>>].pc = "done"
  BY <1>1 DEF AtPc
<1>5. Last(<<b>>) = b
  BY DEF Last
<1>6. Backed(runsOf, held, result, Reaches(c, b))
  <2>1. Fitting(c, turn, runsOf, held, <<b>>, generations[<<b>>])
    BY <1>4 DEF PrepInv, GenerationsFit
  <2> QED BY <1>4, <1>5, <2>1 DEF Fitting
<1>7. Backed(runsOf, held, preparedProviders, ReachedBefore(c, turn))
  BY DEF PrepInv, EarlierAreThere
<1>8. ReachedBefore(c, turn') = ReachedBefore(c, turn) \cup Reaches(c, b)
  <2>1. 1 .. turn' - 1 = (1 .. turn - 1) \cup {turn}
    BY <1>1, <1>3
  <2> QED BY <2>1 DEF ReachedBefore
<1> HIDE DEF b, result
<1>9. Backed(runsOf, held, preparedProviders', ReachedBefore(c, turn'))
  <2>1. preparedProviders \in Seq(Item) /\ result \in Seq(Item)
    BY <1>6, <1>7 DEF Backed, RanIn
  <2>2. /\ preparedProviders' \in Seq(Item)
        /\ ToSet(preparedProviders') = ToSet(preparedProviders) \cup ToSet(result)
    BY <1>1, <2>1, Concatenated
  <2>3. \A v \in ToSet(preparedProviders') : v.run \in 1 .. runsOf[v.by]
    BY <1>6, <1>7, <2>2 DEF Backed, RanIn
  <2>4. \A q \in ReachedBefore(c, turn') : q \in held /\ HasOf(preparedProviders', q)
    BY <1>6, <1>7, <1>8, <2>2 DEF Backed, HasOf
  <2> QED BY <2>2, <2>3, <2>4 DEF Backed, RanIn
<1>10. PrepTypes'
  <2>1. turn' \in 1 .. Len(c.before) + 1
    BY <1>1, <1>3
  <2> QED BY <1>1, <1>2, <2>1 DEF PrepTypes
<1>11. GenerationsFit'
  BY <1>1 DEF GenerationsFit
<1>12. KeptAreComplete'
  <2>1. KeptAreComplete
    BY DEF PrepInv
  <2> QED BY <1>1, <2>1 DEF KeptAreComplete
<1>13. EarlierAreThere'
  BY <1>1, <1>9 DEF EarlierAreThere
<1>14. RunsAreKnown'
  <2>1. ASSUME NEW p \in PreparerClasses, runsOf[p] >= 1 PROVE p \in ReachedBefore(c, turn')
    <3>1. CASE p \in ReachedBefore(c, turn)
      BY <1>8, <3>1
    <3>2. CASE p \notin ReachedBefore(c, turn)
      <4>1. PICK path \in DOMAIN generations : Last(path) = p
        BY <2>1, <3>2 DEF PrepInv, RunsAreKnown
      <4>2. Fitting(c, turn, runsOf, held, path, generations[path])
        BY DEF PrepInv, GenerationsFit
      <4>3. path \in DependencyPaths(c, b)
        BY <4>2 DEF Fitting, b
      <4>4. p \in Reaches(c, b)
        BY <4>1, <4>3 DEF Reaches
      <4> QED BY <1>8, <4>4
    <3> QED BY <3>1, <3>2
  <2> QED BY <1>1, <2>1 DEF RunsAreKnown
<1>15. RunTwice'
  <2>1. RunTwice
    BY DEF PrepInv
  <2> QED BY <1>1, <2>1 DEF RunTwice
<1>16. PreparedAtTheEnd'
  BY <1>1 DEF PreparedAtTheEnd
<1> QED BY <1>10, <1>11, <1>12, <1>13, <1>14, <1>15, <1>16 DEF PrepInv

LEMMA PrepareEndsStep ==
    ASSUME PrepInv, PrepareEnds
    PROVE  PrepInv'
<1>1. UNCHANGED <<pipelineConfig, turn, generations, requestInstances, preparedProviders, runsOf>>
  BY DEF PrepareEnds
<1>2. outcome' = "prepared" => turn = Len(pipelineConfig.before) + 1
  <2>1. outcome' = "prepared" => turn > Len(pipelineConfig.before)
    BY DEF PrepareEnds, Before
  <2>2. turn \in 1 .. Len(pipelineConfig.before) + 1 /\ Len(pipelineConfig.before) \in Nat
    BY BeforeIs DEF PrepInv, PrepTypes
  <2> QED BY <2>1, <2>2
<1>3. PrepTypes' /\ PreparedAtTheEnd'
  BY <1>1, <1>2 DEF PrepInv, PrepTypes, PreparedAtTheEnd
<1>4. GenerationsFit' /\ KeptAreComplete'
  BY <1>1 DEF PrepInv, GenerationsFit, KeptAreComplete
<1>5. EarlierAreThere' /\ RunsAreKnown' /\ RunTwice'
  BY <1>1 DEF PrepInv, EarlierAreThere, RunsAreKnown, RunTwice
<1> QED BY <1>3, <1>4, <1>5 DEF PrepInv

LEMMA PrepNextStep == PrepInv /\ [PreparersNext]_preparerVars => PrepInv'
<1> SUFFICES ASSUME PrepInv, [PreparersNext]_preparerVars PROVE PrepInv'
  OBVIOUS
<1>1. ASSUME NEW path, InjectResult(path) \/ RunPreparer(path) \/ PreparerReturns(path) \/ PreparerFails(path)
      PROVE  PrepInv'
  BY <1>1, InjectResultStep, RunPreparerStep, PreparerReturnsStep, PreparerFailsStep
<1>2. CASE NextPreparer
  BY <1>2, NextPreparerStep
<1>3. CASE PrepareEnds
  BY <1>3, PrepareEndsStep
<1>4. CASE UNCHANGED preparerVars
  <2>1. UNCHANGED <<pipelineConfig, turn, generations, requestInstances, preparedProviders, outcome, runsOf>>
    BY <1>4 DEF preparerVars
  <2>2. PrepTypes' /\ PreparedAtTheEnd'
    BY <2>1 DEF PrepInv, PrepTypes, PreparedAtTheEnd
  <2>3. GenerationsFit' /\ KeptAreComplete'
    BY <2>1 DEF PrepInv, GenerationsFit, KeptAreComplete
  <2>4. EarlierAreThere' /\ RunsAreKnown' /\ RunTwice'
    BY <2>1 DEF PrepInv, EarlierAreThere, RunsAreKnown, RunTwice
  <2> QED BY <2>2, <2>3, <2>4 DEF PrepInv
<1> QED BY <1>1, <1>2, <1>3, <1>4 DEF PreparersNext

LEMMA PrepInvImplies == ASSUME PrepInv PROVE PreparedInOrder
<1> DEFINE c == pipelineConfig
           held == DOMAIN requestInstances
<1>1. c \in PipelineConfigs /\ runsOf \in [PreparerClasses -> Nat]
  BY DEF PrepInv, PrepTypes
<1>2. \A p : AskedTwice(p) <=> Twice(c, p)
  BY ReachedNow DEF AskedTwice, Twice, Before
<1>3. ASSUME NEW p \in PreparerClasses, runsOf[p] > 1 PROVE AskedTwice(p)
  BY <1>2, <1>3 DEF PrepInv, RunTwice
<1>4. ASSUME NEW path \in AtPc("running"), NEW p \in ReachedFrom(Last(path)) \ {Last(path)}
      PROVE  /\ LatestOf(generations[path].sees, p) # 0
             /\ ~AskedTwice(p) => LatestOf(generations[path].sees, p) = 1
  <2>1. path \in DOMAIN generations /\ generations[path].pc = "running"
    BY DEF AtPc
  <2>2. Fitting(c, turn, runsOf, held, path, generations[path])
    BY <2>1 DEF PrepInv, GenerationsFit
  <2>3. Backed(runsOf, held, generations[path].sees, Reaches(c, Last(path)) \ {Last(path)})
    BY <2>1, <2>2 DEF Fitting
  <2>4. p \in Reaches(c, Last(path)) \ {Last(path)}
    BY ReachedNow
  <2>5. LatestOf(generations[path].sees, p) \in 1 .. runsOf[p]
    BY <2>3, <2>4, LatestIsOfARun
  <2>6. p \in held /\ p \in PreparerClasses
    BY <2>3, <2>4 DEF Backed, PrepInv, KeptAreComplete
  <2>7. runsOf[p] \in Nat /\ (~AskedTwice(p) => ~(runsOf[p] > 1))
    BY <1>1, <1>3, <2>6
  <2> QED BY <2>5, <2>7
<1>5. ASSUME outcome = "prepared", NEW i \in DOMAIN Before, NEW p \in ReachedFrom(Before[i])
      PROVE  LatestOf(preparedProviders, p) \in 1 .. runsOf[p]
  <2>1. turn = Len(c.before) + 1 /\ i \in 1 .. Len(c.before) /\ Len(c.before) \in Nat
    BY <1>1, <1>5, BeforeIs DEF PrepInv, PreparedAtTheEnd, Before
  <2>2. i \in 1 .. turn - 1
    BY <2>1
  <2>3. p \in Reaches(c, c.before[i])
    BY ReachedNow DEF Before
  <2>4. p \in ReachedBefore(c, turn)
    BY <2>2, <2>3 DEF ReachedBefore
  <2>5. Backed(runsOf, held, preparedProviders, ReachedBefore(c, turn))
    BY DEF PrepInv, EarlierAreThere
  <2> QED BY <2>4, <2>5, LatestIsOfARun
<1> QED BY <1>3, <1>4, <1>5 DEF PreparedInOrder

(* A preparer runs when all that it depends on has run, finds what that      *)
(* provides, and runs once unless two preparers that run at once depend on   *)
(* it (HttpPipeline.prepare and httpPipelinePreparerResultProvider): whatever *)
(* preparers there are, whatever they depend on and however they are         *)
(* configured.                                                               *)
THEOREM PreparedInOrderAlways == PreparersSpec => []PreparedInOrder
<1>1. PreparersInit => PrepInv
  BY PrepInitially
<1>2. PrepInv /\ [PreparersNext]_preparerVars => PrepInv'
  BY PrepNextStep
<1>3. PrepInv => PreparedInOrder
  BY PrepInvImplies
<1> QED BY <1>1, <1>2, <1>3, PTL DEF PreparersSpec
-------------------------------------------------------------------------------
(* The composition of resources.                                             *)
(*                                                                           *)
(* Places in the tree: one below another, and the one above it.              *)
Places == Seq(Nat)

LEMMA PlaceBelow ==
    ASSUME NEW s \in Places, NEW k \in Nat
    PROVE  /\ Append(s, k) \in Places /\ Append(s, k) # <<>> /\ Len(Append(s, k)) = Len(s) + 1
           /\ Front(Append(s, k)) = s /\ Last(Append(s, k)) = k
           /\ \A m \in 0 .. Len(s) : SubSeq(Append(s, k), 1, m) = SubSeq(s, 1, m)
<1> DEFINE t == Append(s, k)
           n == Len(s)
<1>1. /\ t \in Seq(Nat) /\ t # <<>> /\ Len(t) = n + 1
      /\ \A i \in 1 .. n : t[i] = s[i]
      /\ t[n + 1] = k
  BY AppendProperties DEF Places
<1>2. n \in Nat /\ s \in Seq(Nat)
  BY LenProperties DEF Places
<1>3. \A i \in 1 .. n : s[i] \in Nat /\ t[i] \in Nat
  BY <1>1, <1>2, ElementOfSeq
<1> HIDE DEF t, n
<1>4. ASSUME NEW m \in 0 .. n PROVE SubSeq(t, 1, m) = SubSeq(s, 1, m)
  <2>1. \A i \in 1 .. m : s[i] \in Nat /\ t[i] \in Nat /\ t[i] = s[i]
    BY <1>1, <1>2, <1>3
  <2>2. m \in Int /\ 1 \in Int /\ m - 1 + 1 = m
    BY <1>2
  <2>3. /\ SubSeq(t, 1, m) \in Seq(Nat) /\ Len(SubSeq(t, 1, m)) = IF 1 <= m THEN m - 1 + 1 ELSE 0
        /\ \A i \in 1 .. m - 1 + 1 : SubSeq(t, 1, m)[i] = t[1 + i - 1]
    BY <2>1, <2>2, SubSeqProperties
  <2>4. /\ SubSeq(s, 1, m) \in Seq(Nat) /\ Len(SubSeq(s, 1, m)) = IF 1 <= m THEN m - 1 + 1 ELSE 0
        /\ \A i \in 1 .. m - 1 + 1 : SubSeq(s, 1, m)[i] = s[1 + i - 1]
    BY <2>1, <2>2, SubSeqProperties
  <2>5. \A i \in 1 .. m : 1 + i - 1 = i
    OBVIOUS
  <2>6. Len(SubSeq(t, 1, m)) = m /\ Len(SubSeq(s, 1, m)) = m
    BY <1>2, <2>3, <2>4
  <2>7. \A i \in 1 .. m : SubSeq(t, 1, m)[i] = SubSeq(s, 1, m)[i]
    BY <2>1, <2>2, <2>3, <2>4, <2>5
  <2> QED BY <2>3, <2>4, <2>6, <2>7, SeqEqual
<1>5. SubSeq(s, 1, n) = s
  BY <1>2, SubSeqFull DEF n
<1>6. Front(t) = s
  <2>1. Front(t) = SubSeq(t, 1, n + 1 - 1) /\ n + 1 - 1 = n /\ n \in 0 .. n
    BY <1>1, <1>2 DEF Front
  <2> QED BY <1>4, <1>5, <2>1
<1>7. Last(t) = k
  BY <1>1 DEF Last
<1> QED BY <1>1, <1>4, <1>6, <1>7 DEF t, n, Places

LEMMA PlaceAbove ==
    ASSUME NEW t \in Places, t # <<>>
    PROVE  Front(t) \in Places /\ Last(t) \in Nat /\ t = Append(Front(t), Last(t)) /\ Len(Front(t)) = Len(t) - 1
<1> DEFINE n == Len(t)
           f == Front(t)
<1>1. n \in Nat \ {0} /\ t \in Seq(Nat)
  BY EmptySeq DEF Places
<1>2. Last(t) = t[n] /\ t[n] \in Nat
  BY <1>1, ElementOfSeq DEF Last
<1>3. f = SubSeq(t, 1, n - 1)
  BY DEF Front
<1> HIDE DEF f, n
<1>4. \A i \in 1 .. n - 1 : t[i] \in Nat
  BY <1>1, ElementOfSeq DEF n
<1>5. n - 1 \in Int /\ 1 \in Int /\ n - 1 \in Nat /\ n - 1 - 1 + 1 = n - 1
  BY <1>1
<1>6. /\ f \in Seq(Nat) /\ Len(f) = IF 1 <= n - 1 THEN n - 1 - 1 + 1 ELSE 0
      /\ \A i \in 1 .. n - 1 - 1 + 1 : f[i] = t[1 + i - 1]
  BY <1>3, <1>4, <1>5, SubSeqProperties
<1>7. Len(f) = n - 1 /\ \A i \in 1 .. n - 1 : f[i] = t[i]
  <2>1. Len(f) = n - 1
    BY <1>5, <1>6
  <2>2. \A i \in 1 .. n - 1 : 1 + i - 1 = i
    OBVIOUS
  <2> QED BY <1>5, <1>6, <2>1, <2>2
<1>8. /\ Append(f, t[n]) \in Seq(Nat) /\ Len(Append(f, t[n])) = Len(f) + 1
      /\ \A i \in 1 .. Len(f) : Append(f, t[n])[i] = f[i]
      /\ Append(f, t[n])[Len(f) + 1] = t[n]
  BY <1>2, <1>6, AppendProperties
<1>9. Append(f, t[n]) = t
  <2>1. Len(Append(f, t[n])) = n /\ Len(f) + 1 = n
    BY <1>1, <1>5, <1>7, <1>8
  <2>2. \A i \in 1 .. n : i \in 1 .. n - 1 \/ i = n
    BY <1>1
  <2>3. \A i \in 1 .. n : Append(f, t[n])[i] = t[i]
    BY <1>7, <1>8, <2>1, <2>2
  <2>4. \A i \in 1 .. Len(Append(f, t[n])) : Append(f, t[n])[i] = t[i]
    BY <2>1, <2>3
  <2> QED BY <1>1, <1>8, <2>1, <2>4, SeqEqual DEF n
<1> QED BY <1>2, <1>6, <1>7, <1>9 DEF f, n, Places

(* The context at depth d has what is left of the paths that are longer.     *)
ContextAt(ask, context, d) ==
    /\ DOMAIN context = {i \in DOMAIN ask : Len(ask[i]) > d}
    /\ \A i \in DOMAIN context :
         /\ context[i] \in Seq(ToSet(ask[i])) /\ Len(context[i]) = Len(ask[i]) - d
         /\ \A k \in 1 .. Len(ask[i]) - d : context[i][k] = ask[i][d + k]

LEMMA AsksAre ==
    ASSUME NEW ask \in Asks
    PROVE  /\ DOMAIN ask \subseteq Nat
           /\ \A i \in DOMAIN ask :
                /\ ask[i] \in Seq(ToSet(ask[i])) /\ ask[i] \in ToSet(ask)
                /\ Len(ask[i]) \in Nat \ {0} /\ DOMAIN ask[i] = 1 .. Len(ask[i])
<1>1. ask \in Seq(ToSet(ask)) /\ \A path \in ToSet(ask) : path \in Seq(ToSet(path)) \ {<<>>}
  BY HalAssumption
<1>2. DOMAIN ask = 1 .. Len(ask) /\ Len(ask) \in Nat
  BY <1>1, LenProperties
<1>3. \A i \in DOMAIN ask : ask[i] \in ToSet(ask)
  BY DEF ToSet
<1>4. ASSUME NEW i \in DOMAIN ask
      PROVE  /\ ask[i] \in Seq(ToSet(ask[i])) /\ ask[i] \in ToSet(ask)
             /\ Len(ask[i]) \in Nat \ {0} /\ DOMAIN ask[i] = 1 .. Len(ask[i])
  <2>1. ask[i] \in Seq(ToSet(ask[i])) /\ ask[i] # <<>>
    BY <1>1, <1>3
  <2> QED BY <1>3, <2>1, EmptySeq, LenProperties
<1> QED BY <1>2, <1>4

LEMMA RootContext ==
    ASSUME NEW ask \in Asks
    PROVE  ContextAt(ask, ask, 0)
<1>1. \A i \in DOMAIN ask : ask[i] \in Seq(ToSet(ask[i])) /\ Len(ask[i]) \in Nat \ {0}
  BY AsksAre
<1>2. DOMAIN ask = {i \in DOMAIN ask : Len(ask[i]) > 0}
  BY <1>1
<1>3. \A i \in DOMAIN ask : Len(ask[i]) = Len(ask[i]) - 0 /\ \A k \in 1 .. Len(ask[i]) - 0 : ask[i][k] = ask[i][0 + k]
  BY <1>1
<1> QED BY <1>1, <1>2, <1>3 DEF ContextAt

LEMMA ContextBelow ==
    ASSUME NEW ask \in Asks, NEW context, NEW d \in Nat, ContextAt(ask, context, d), NEW rel
    PROVE  ContextAt(ask, ChildContext(context, rel), d + 1)
<1> DEFINE below == ChildContext(context, rel)
<1>1. \A i \in DOMAIN ask : Len(ask[i]) \in Nat \ {0}
  BY AsksAre
<1>2. DOMAIN below = {i \in DOMAIN context : Len(context[i]) > 1} /\ \A i \in DOMAIN below : below[i] = Tail(context[i])
  BY DEF ChildContext, Nested
<1> HIDE DEF below
<1>3. ASSUME NEW i \in DOMAIN ask
      PROVE  i \in DOMAIN below <=> Len(ask[i]) > d + 1
  <2>1. Len(ask[i]) \in Nat
    BY <1>1
  <2>2. CASE Len(ask[i]) > d
    <3>1. i \in DOMAIN context /\ Len(context[i]) = Len(ask[i]) - d
      BY <2>2 DEF ContextAt
    <3>2. Len(ask[i]) - d > 1 <=> Len(ask[i]) > d + 1
      BY <2>1
    <3> QED BY <1>2, <3>1, <3>2
  <2>3. CASE ~(Len(ask[i]) > d)
    <3>1. i \notin DOMAIN context
      BY <2>3 DEF ContextAt
    <3> QED BY <1>2, <2>1, <2>3, <3>1
  <2> QED BY <2>2, <2>3
<1>4. DOMAIN below \subseteq DOMAIN ask
  BY <1>2 DEF ContextAt
<1>5. ASSUME NEW i \in DOMAIN below
      PROVE  /\ below[i] \in Seq(ToSet(ask[i])) /\ Len(below[i]) = Len(ask[i]) - (d + 1)
             /\ \A k \in 1 .. Len(ask[i]) - (d + 1) : below[i][k] = ask[i][(d + 1) + k]
  <2> DEFINE n == Len(ask[i])
             path == context[i]
  <2>1. i \in DOMAIN context /\ Len(path) > 1 /\ below[i] = Tail(path) /\ n \in Nat
    BY <1>1, <1>2, <1>4
  <2>2. path \in Seq(ToSet(ask[i])) /\ Len(path) = n - d /\ \A k \in 1 .. n - d : path[k] = ask[i][d + k]
    BY <2>1 DEF ContextAt
  <2>3. path # <<>>
    BY <2>1, EmptySeq
  <2> HIDE DEF n, path
  <2>4. /\ Tail(path) \in Seq(ToSet(ask[i])) /\ Len(Tail(path)) = Len(path) - 1
        /\ \A k \in 1 .. Len(Tail(path)) : Tail(path)[k] = path[k + 1]
    BY <2>2, <2>3, HeadTailProperties
  <2>5. Len(Tail(path)) = n - (d + 1)
    BY <2>1, <2>2, <2>4
  <2>6. ASSUME NEW k \in 1 .. n - (d + 1) PROVE Tail(path)[k] = ask[i][(d + 1) + k]
    <3>1. k + 1 \in 1 .. n - d /\ d + (k + 1) = (d + 1) + k
      BY <2>1, Z3
    <3> QED BY <2>2, <2>4, <2>5, <3>1
  <2> QED BY <2>1, <2>4, <2>5, <2>6 DEF n
<1>6. DOMAIN below = {i \in DOMAIN ask : Len(ask[i]) > d + 1}
  BY <1>3, <1>4
<1> QED BY <1>5, <1>6 DEF ContextAt, below

(* The tree: below a call the resources it returned, with its type and        *)
(* context; below a resource the calls for the paths of its context.          *)
CallKeys == {"rel", "type", "list", "pc", "items", "context"}
ResourceKeys == {"type", "context", "embedded", "pc"}

CallPlaced(c) ==
    /\ c \in Places /\ DOMAIN composedCalls[c] = CallKeys /\ composedCalls[c].type \in Types
    /\ \E d \in Nat : Len(c) = 2 * d /\ ContextAt(asked, composedCalls[c].context, d)
    /\ \A k \in Nat : 2 * k <= Len(c) => SubSeq(c, 1, 2 * k) \in DOMAIN composedCalls
CallBegun(c) ==
    LET r == Front(c)  i == Last(c)
    IN /\ r \in DOMAIN composed /\ i \in DOMAIN composed[r].context
       /\ composedCalls[c].rel = Head(composed[r].context[i])
       /\ HasRelation(composed[r].type, composedCalls[c].rel)
       /\ composedCalls[c].type = RelationsOf(composed[r].type)[composedCalls[c].rel].resource
ResourcePlaced(r) ==
    /\ r \in Places /\ r # <<>> /\ DOMAIN composed[r] = ResourceKeys
    /\ Front(r) \in DOMAIN composedCalls
    /\ composed[r].type = composedCalls[Front(r)].type /\ composed[r].context = composedCalls[Front(r)].context

HalTree ==
    /\ asked \in Asks
    /\ <<>> \in DOMAIN composedCalls /\ composedCalls[<<>>].type = RootType
    /\ \A c \in DOMAIN composedCalls : CallPlaced(c)
    /\ \A c \in DOMAIN composedCalls : c # <<>> => CallBegun(c)
    /\ \A r \in DOMAIN composed : ResourcePlaced(r)

(* How far the work is: what is done has all that is below it done.           *)
ItemReturned(r) == composedCalls[Front(r)].pc # "calling" /\ r \in ItemsOf(Front(r))
CallProgress(c) ==
    /\ composedCalls[c].pc \in {"composing", "done"} => ItemsOf(c) \subseteq DOMAIN composed
    /\ composedCalls[c].pc = "done" => \A r \in ItemsOf(c) : composed[r].pc = "done"
DoneCallsOf(r) == {c \in CallsOf(r) : composedCalls[c].pc = "done"}
ResourceProgress(r) ==
    /\ composed[r].pc \in {"composing", "done"} =>
         \A i \in DOMAIN composed[r].context : Append(r, i) \in DOMAIN composedCalls
    /\ composed[r].pc = "done" => \A c \in CallsOf(r) : composedCalls[c].pc = "done"
    /\ DOMAIN composed[r].embedded = {composedCalls[c].rel : c \in DoneCallsOf(r)}

HalProgress ==
    /\ \A r \in DOMAIN composed : ItemReturned(r)
    /\ \A c \in DOMAIN composedCalls : CallProgress(c)
    /\ \A r \in DOMAIN composed : ResourceProgress(r)

(* Nothing fails but by a controller, when the paths have one branch and exist. *)
TypeLed(c) ==
    \A i \in DOMAIN composedCalls[c].context : \A types \in [0 .. Len(asked[i]) -> Types] : \A d \in Nat :
      Len(c) = 2 * d /\ Leads(types, asked[i]) => types[d] = composedCalls[c].type
HalUnfailing ==
    OneBranch /\ Answerable =>
      /\ \A c \in DOMAIN composedCalls : TypeLed(c)
      /\ ~controllerFailed => /\ \A c \in DOMAIN composedCalls : composedCalls[c].pc # "failed"
                              /\ \A r \in DOMAIN composed : composed[r].pc # "failed"

(* What is embedded are calls, and a null one is a controller's mistake; what  *)
(* cannot be rendered has one, and a response is rendered when all is done.    *)
HalAnswered ==
    /\ \A r \in DOMAIN composed : \A rel \in DOMAIN composed[r].embedded :
         composed[r].embedded[rel] \in DOMAIN composedCalls \ {<<>>}
    /\ \A c \in DOMAIN composedCalls \ {<<>>} :
         composedCalls[c].pc \in {"composing", "done"} /\ IsNull(c) => controllerFailed
    /\ halResponse = "failed" => controllerFailed
    /\ halResponse = "rendered" => composedCalls[<<>>].pc = "done"

HalInv == HalTree /\ HalProgress /\ HalUnfailing /\ HalAnswered

LEMMA HalInitially == ASSUME HalInit PROVE HalInv
<1> DEFINE root == [rel |-> "root", type |-> RootType, list |-> RootIsList, pc |-> "calling", items |-> 0, context |-> asked]
<1>1. /\ asked \in Asks /\ DOMAIN composedCalls = {<<>>} /\ composedCalls[<<>>] = root
      /\ DOMAIN composed = {} /\ RootType \in Types /\ halResponse = "none"
  BY HalAssumption DEF HalInit
<1>2. root.type = RootType /\ root.pc = "calling" /\ root.context = asked /\ DOMAIN root = CallKeys
  BY DEF CallKeys
<1> HIDE DEF root
<1>3. <<>> \in Places /\ Len(<<>>) = 2 * 0 /\ 0 \in Nat
  BY EmptySeq DEF Places
<1>4. CallPlaced(<<>>)
  <2>1. ContextAt(asked, composedCalls[<<>>].context, 0)
    BY <1>1, <1>2, RootContext
  <2>2. \A k \in Nat : 2 * k <= 0 => k = 0
    OBVIOUS
  <2>3. SubSeq(<<>>, 1, 2 * 0) = <<>>
    BY SubSeqEmpty
  <2>4. \A k \in Nat : 2 * k <= Len(<<>>) => SubSeq(<<>>, 1, 2 * k) \in DOMAIN composedCalls
    BY <1>1, <1>3, <2>2, <2>3
  <2>5. \E d \in Nat : Len(<<>>) = 2 * d /\ ContextAt(asked, composedCalls[<<>>].context, d)
    BY <1>3, <2>1
  <2> QED BY <1>1, <1>2, <1>3, <2>4, <2>5 DEF CallPlaced
<1>5. HalTree
  BY <1>1, <1>2, <1>4 DEF HalTree
<1>6. HalProgress
  BY <1>1, <1>2 DEF HalProgress, CallProgress
<1>7. TypeLed(<<>>)
  <2> SUFFICES ASSUME NEW i \in DOMAIN composedCalls[<<>>].context, NEW types \in [0 .. Len(asked[i]) -> Types],
                      NEW d \in Nat, Len(<<>>) = 2 * d, Leads(types, asked[i])
               PROVE  types[d] = composedCalls[<<>>].type
    BY DEF TypeLed
  <2>1. d = 0
    BY <1>3
  <2> QED BY <1>1, <1>2, <2>1 DEF Leads
<1>8. HalUnfailing
  BY <1>1, <1>2, <1>7 DEF HalUnfailing
<1>9. HalAnswered
  BY <1>1 DEF HalAnswered
<1> QED BY <1>5, <1>6, <1>8, <1>9 DEF HalInv

(* What can be answered is a matter of the request and of the decorators.     *)
LEMMA SameAnswers ==
    ASSUME UNCHANGED <<asked, decoratorOrder>>
    PROVE  Answerable' = Answerable
<1>1. asked' = asked /\ decoratorOrder' = decoratorOrder
  OBVIOUS
<1> QED BY <1>1 DEF Answerable, Leads, HasAccessor, LinksFail, IsMadeBefore, HasRelation, RelationsOf

(* Every other step leaves the tree as it is.                                *)
SameTree ==
    /\ asked' = asked /\ decoratorOrder' = decoratorOrder
    /\ DOMAIN composedCalls' = DOMAIN composedCalls /\ DOMAIN composed' = DOMAIN composed
    /\ \A c \in DOMAIN composedCalls :
         /\ DOMAIN composedCalls'[c] = CallKeys /\ composedCalls'[c].list = composedCalls[c].list
         /\ composedCalls'[c].rel = composedCalls[c].rel /\ composedCalls'[c].type = composedCalls[c].type
         /\ composedCalls'[c].context = composedCalls[c].context /\ composedCalls'[c].items = composedCalls[c].items
    /\ \A r \in DOMAIN composed :
         /\ DOMAIN composed'[r] = ResourceKeys
         /\ composed'[r].type = composed[r].type /\ composed'[r].context = composed[r].context

LEMMA TreeStays ==
    ASSUME HalTree, SameTree
    PROVE  /\ HalTree'
           /\ \A c \in DOMAIN composedCalls : ItemsOf(c)' = ItemsOf(c)
           /\ \A r : CallsOf(r)' = CallsOf(r)
           /\ \A c \in DOMAIN composedCalls : TypeLed(c) => TypeLed(c)'
           /\ OneBranch' = OneBranch /\ Answerable' = Answerable
<1>1. /\ asked' = asked /\ decoratorOrder' = decoratorOrder
      /\ DOMAIN composedCalls' = DOMAIN composedCalls /\ DOMAIN composed' = DOMAIN composed
  BY DEF SameTree
<1>2. ASSUME NEW c \in DOMAIN composedCalls
      PROVE  /\ DOMAIN composedCalls'[c] = CallKeys
             /\ composedCalls'[c].rel = composedCalls[c].rel /\ composedCalls'[c].type = composedCalls[c].type
             /\ composedCalls'[c].context = composedCalls[c].context /\ composedCalls'[c].items = composedCalls[c].items
  BY DEF SameTree
<1>3. ASSUME NEW r \in DOMAIN composed
      PROVE  /\ DOMAIN composed'[r] = ResourceKeys
             /\ composed'[r].type = composed[r].type /\ composed'[r].context = composed[r].context
  BY DEF SameTree
<1>4. ASSUME NEW c \in DOMAIN composedCalls PROVE CallPlaced(c)'
  <2>1. CallPlaced(c)
    BY DEF HalTree
  <2> QED BY <1>1, <1>2, <2>1 DEF CallPlaced
<1>5. ASSUME NEW r \in DOMAIN composed PROVE ResourcePlaced(r)'
  <2>1. ResourcePlaced(r)
    BY DEF HalTree
  <2>2. Front(r) \in DOMAIN composedCalls
    BY <2>1 DEF ResourcePlaced
  <2> QED BY <1>1, <1>2, <1>3, <2>1, <2>2 DEF ResourcePlaced
<1>6. ASSUME NEW c \in DOMAIN composedCalls, c # <<>> PROVE CallBegun(c)'
  <2>1. CallBegun(c)
    BY <1>6 DEF HalTree
  <2>2. Front(c) \in DOMAIN composed
    BY <2>1 DEF CallBegun
  <2> QED BY <1>1, <1>2, <1>3, <2>1, <2>2 DEF CallBegun, HasRelation, RelationsOf
<1>7. HalTree'
  <2>1. asked' \in Asks /\ <<>> \in DOMAIN composedCalls' /\ composedCalls'[<<>>].type = RootType
    BY <1>1, <1>2 DEF HalTree
  <2> QED BY <1>1, <1>4, <1>5, <1>6, <2>1 DEF HalTree
<1>8. \A c \in DOMAIN composedCalls : ItemsOf(c)' = ItemsOf(c)
  BY <1>2 DEF ItemsOf
<1>9. \A r : CallsOf(r)' = CallsOf(r)
  BY <1>1 DEF CallsOf
<1>10. ASSUME NEW c \in DOMAIN composedCalls, TypeLed(c) PROVE TypeLed(c)'
  <2> SUFFICES ASSUME NEW i \in DOMAIN composedCalls[c].context, NEW types \in [0 .. Len(asked[i]) -> Types],
                      NEW d \in Nat, Len(c) = 2 * d, Leads(types, asked[i])
               PROVE  types[d] = composedCalls[c].type
    BY <1>1, <1>2 DEF TypeLed
  <2> QED BY <1>10 DEF TypeLed
<1>11. OneBranch' = OneBranch /\ Answerable' = Answerable
  BY <1>1, SameAnswers DEF OneBranch
<1> QED BY <1>7, <1>8, <1>9, <1>10, <1>11

(* Then a call or a resource fails, or ends when all that is below it did.    *)
Advances ==
    /\ \A c \in DOMAIN composedCalls :
         \/ composedCalls'[c].pc = composedCalls[c].pc
         \/ composedCalls[c].pc \in {"calling", "composing"} /\ composedCalls'[c].pc = "failed"
         \/ /\ composedCalls[c].pc = "composing" /\ composedCalls'[c].pc = "done"
            /\ \A r \in ItemsOf(c) : composed[r].pc = "done"
    /\ \A r \in DOMAIN composed :
         \/ composed'[r].pc = composed[r].pc
         \/ composed[r].pc = "composing" /\ composed'[r].pc = "failed"
         \/ /\ composed[r].pc = "composing" /\ composed'[r].pc = "done"
            /\ \A c \in CallsOf(r) : composedCalls[c].pc = "done"
    /\ \A r \in DOMAIN composed :
         DOMAIN composed'[r].embedded = {composedCalls[c].rel : c \in {c \in CallsOf(r) : composedCalls'[c].pc = "done"}}

LEMMA ProgressGoesOn ==
    ASSUME HalTree, HalProgress, SameTree, Advances
    PROVE  HalProgress'
<1>1. /\ DOMAIN composedCalls' = DOMAIN composedCalls /\ DOMAIN composed' = DOMAIN composed
      /\ \A c \in DOMAIN composedCalls : ItemsOf(c)' = ItemsOf(c)
      /\ \A r : CallsOf(r)' = CallsOf(r)
  BY TreeStays DEF SameTree
<1>2. \A c \in DOMAIN composedCalls :
        \/ composedCalls'[c].pc = composedCalls[c].pc
        \/ composedCalls[c].pc \in {"calling", "composing"} /\ composedCalls'[c].pc = "failed"
        \/ /\ composedCalls[c].pc = "composing" /\ composedCalls'[c].pc = "done"
           /\ \A r \in ItemsOf(c) : composed[r].pc = "done"
  BY DEF Advances
<1>3. \A r \in DOMAIN composed :
        \/ composed'[r].pc = composed[r].pc
        \/ composed[r].pc = "composing" /\ composed'[r].pc = "failed"
        \/ /\ composed[r].pc = "composing" /\ composed'[r].pc = "done"
           /\ \A c \in CallsOf(r) : composedCalls[c].pc = "done"
  BY DEF Advances
<1>4. ASSUME NEW r \in DOMAIN composed PROVE ItemReturned(r)'
  <2>1. ItemReturned(r) /\ Front(r) \in DOMAIN composedCalls
    BY DEF HalProgress, HalTree, ResourcePlaced
  <2>2. composedCalls'[Front(r)].pc # "calling"
    BY <1>2, <2>1 DEF ItemReturned
  <2> QED BY <1>1, <2>1, <2>2 DEF ItemReturned
<1>5. ASSUME NEW c \in DOMAIN composedCalls PROVE CallProgress(c)'
  <2>1. CallProgress(c)
    BY DEF HalProgress
  <2>2. composedCalls'[c].pc \in {"composing", "done"} => ItemsOf(c) \subseteq DOMAIN composed
    BY <1>2, <2>1 DEF CallProgress
  <2>3. composedCalls'[c].pc = "done" => \A r \in ItemsOf(c) : composed[r].pc = "done"
    BY <1>2, <2>1 DEF CallProgress
  <2>4. composedCalls'[c].pc = "done" => \A r \in ItemsOf(c) : composed'[r].pc = "done"
    BY <1>3, <2>2, <2>3
  <2> QED BY <1>1, <2>2, <2>4 DEF CallProgress
<1>6. ASSUME NEW r \in DOMAIN composed PROVE ResourceProgress(r)'
  <2>1. ResourceProgress(r)
    BY DEF HalProgress
  <2>2. composed'[r].pc \in {"composing", "done"} =>
          \A i \in DOMAIN composed[r].context : Append(r, i) \in DOMAIN composedCalls
    BY <1>3, <2>1 DEF ResourceProgress
  <2>3. composed'[r].pc = "done" => \A c \in CallsOf(r) : composedCalls[c].pc = "done"
    BY <1>3, <2>1 DEF ResourceProgress
  <2>4. \A c \in CallsOf(r) : c \in DOMAIN composedCalls
    BY DEF CallsOf
  <2>5. composed'[r].pc = "done" => \A c \in CallsOf(r) : composedCalls'[c].pc = "done"
    BY <1>2, <2>3, <2>4
  <2>6. DOMAIN composed'[r].embedded = {composedCalls'[c].rel : c \in {c \in CallsOf(r) : composedCalls'[c].pc = "done"}}
    BY <2>4 DEF Advances, SameTree
  <2>7. DOMAIN composed'[r].embedded = {composedCalls'[c].rel : c \in DoneCallsOf(r)'}
    BY <1>1, <2>6 DEF DoneCallsOf
  <2>8. composed'[r].context = composed[r].context
    BY DEF SameTree
  <2> QED BY <1>1, <2>2, <2>5, <2>7, <2>8 DEF ResourceProgress
<1> QED BY <1>1, <1>4, <1>5, <1>6 DEF HalProgress

(* What the actions change of a record.                                      *)
CallsKeptBut(c, to) ==
    /\ DOMAIN composedCalls' = DOMAIN composedCalls
    /\ \A d \in DOMAIN composedCalls :
         /\ DOMAIN composedCalls'[d] = CallKeys /\ composedCalls'[d].list = composedCalls[d].list
         /\ composedCalls'[d].rel = composedCalls[d].rel /\ composedCalls'[d].type = composedCalls[d].type
         /\ composedCalls'[d].context = composedCalls[d].context /\ composedCalls'[d].items = composedCalls[d].items
         /\ composedCalls'[d].pc = IF d = c THEN to ELSE composedCalls[d].pc
ResourcesKeptBut(r, to) ==
    /\ DOMAIN composed' = DOMAIN composed
    /\ \A s \in DOMAIN composed :
         /\ DOMAIN composed'[s] = ResourceKeys
         /\ composed'[s].type = composed[s].type /\ composed'[s].context = composed[s].context
         /\ composed'[s].embedded = composed[s].embedded
         /\ composed'[s].pc = IF s = r THEN to ELSE composed[s].pc
LEMMA CallsWith ==
    ASSUME HalTree, NEW c \in DOMAIN composedCalls, NEW to,
           composedCalls' = [composedCalls EXCEPT ![c].pc = to]
    PROVE  CallsKeptBut(c, to)
<1>1. \A d \in DOMAIN composedCalls : DOMAIN composedCalls[d] = CallKeys
  BY DEF HalTree, CallPlaced
<1>2. DOMAIN composedCalls' = DOMAIN composedCalls
  OBVIOUS
<1>3. composedCalls'[c] = [composedCalls[c] EXCEPT !.pc = to]
  OBVIOUS
<1>4. /\ DOMAIN composedCalls'[c] = CallKeys /\ composedCalls'[c].list = composedCalls[c].list
      /\ composedCalls'[c].rel = composedCalls[c].rel /\ composedCalls'[c].type = composedCalls[c].type
      /\ composedCalls'[c].context = composedCalls[c].context /\ composedCalls'[c].items = composedCalls[c].items
      /\ composedCalls'[c].pc = to
  BY <1>1, <1>3 DEF CallKeys
<1>5. \A d \in DOMAIN composedCalls : d # c => composedCalls'[d] = composedCalls[d]
  OBVIOUS
<1> QED BY <1>1, <1>2, <1>4, <1>5 DEF CallsKeptBut

LEMMA ResourcesWith ==
    ASSUME HalTree, NEW r \in DOMAIN composed, NEW to,
           composed' = [composed EXCEPT ![r].pc = to]
    PROVE  ResourcesKeptBut(r, to)
<1>1. \A s \in DOMAIN composed : DOMAIN composed[s] = ResourceKeys
  BY DEF HalTree, ResourcePlaced
<1>2. DOMAIN composed' = DOMAIN composed
  OBVIOUS
<1>3. composed'[r] = [composed[r] EXCEPT !.pc = to]
  OBVIOUS
<1>4. /\ DOMAIN composed'[r] = ResourceKeys
      /\ composed'[r].type = composed[r].type /\ composed'[r].context = composed[r].context
      /\ composed'[r].embedded = composed[r].embedded /\ composed'[r].pc = to
  BY <1>1, <1>3 DEF ResourceKeys
<1>5. \A s \in DOMAIN composed : s # r => composed'[s] = composed[s]
  OBVIOUS
<1> QED BY <1>1, <1>2, <1>4, <1>5 DEF ResourcesKeptBut

LEMMA ResourceAsIs ==
    ASSUME HalTree, NEW r \in DOMAIN composed PROVE DOMAIN composed[r] = ResourceKeys
BY DEF HalTree, ResourcePlaced
LEMMA CallAsIs ==
    ASSUME HalTree, NEW c \in DOMAIN composedCalls PROVE DOMAIN composedCalls[c] = CallKeys
BY DEF HalTree, CallPlaced

(* Calls are embedded, and stay so.                                           *)
EmbedsMore ==
    \A r \in DOMAIN composed : \A rel \in DOMAIN composed'[r].embedded :
      \/ rel \in DOMAIN composed[r].embedded /\ composed'[r].embedded[rel] = composed[r].embedded[rel]
      \/ composed'[r].embedded[rel] \in DOMAIN composedCalls \ {<<>>}

LEMMA AnsweredGoesOn ==
    ASSUME HalAnswered, SameTree, Advances, EmbedsMore, controllerFailed => controllerFailed', halResponse' = halResponse,
           <<>> \in DOMAIN composedCalls
    PROVE  HalAnswered'
<1>1. DOMAIN composedCalls' = DOMAIN composedCalls /\ DOMAIN composed' = DOMAIN composed
  BY DEF SameTree
<1>2. ASSUME NEW c \in DOMAIN composedCalls, composedCalls'[c].pc \in {"composing", "done"}
      PROVE  composedCalls[c].pc \in {"composing", "done"}
  BY <1>2 DEF Advances
<1>3. ASSUME NEW c \in DOMAIN composedCalls, IsNull(c)' PROVE IsNull(c)
  <2>1. composedCalls'[c].list = composedCalls[c].list /\ composedCalls'[c].items = composedCalls[c].items
    BY DEF SameTree
  <2> QED BY <1>3, <2>1 DEF IsNull
<1>4. ASSUME NEW c \in DOMAIN composedCalls' \ {<<>>}, composedCalls'[c].pc \in {"composing", "done"}, IsNull(c)'
      PROVE  controllerFailed'
  BY <1>1, <1>2, <1>3, <1>4 DEF HalAnswered
<1>5. ASSUME NEW r \in DOMAIN composed', NEW rel \in DOMAIN composed'[r].embedded
      PROVE  composed'[r].embedded[rel] \in DOMAIN composedCalls' \ {<<>>}
  BY <1>1, <1>5 DEF EmbedsMore, HalAnswered
<1>6. halResponse' = "failed" => controllerFailed'
  BY DEF HalAnswered
<1>7. halResponse' = "rendered" => composedCalls'[<<>>].pc = "done"
  <2>1. composedCalls[<<>>].pc = "done" => composedCalls'[<<>>].pc = "done"
    BY DEF Advances
  <2> QED BY <2>1 DEF HalAnswered
<1> QED BY <1>4, <1>5, <1>6, <1>7 DEF HalAnswered

(* A call or a resource fails: nothing is embedded.                           *)
LEMMA EndsInFailure ==
    ASSUME HalTree, HalProgress, NEW c \in DOMAIN composedCalls, composedCalls[c].pc \in {"calling", "composing"},
           NEW to \in {"failed"}, composedCalls' = [composedCalls EXCEPT ![c].pc = to], UNCHANGED <<asked, decoratorOrder, composed>>
    PROVE  SameTree /\ Advances /\ EmbedsMore
<1>1. CallsKeptBut(c, to)
  BY CallsWith
<1>2. SameTree
  BY <1>1, ResourceAsIs DEF SameTree, CallsKeptBut
<1>3. \A r \in DOMAIN composed : {d \in CallsOf(r) : composedCalls'[d].pc = "done"} = DoneCallsOf(r)
  BY <1>1 DEF CallsKeptBut, DoneCallsOf, CallsOf
<1>4. \A r \in DOMAIN composed :
        DOMAIN composed[r].embedded = {composedCalls[d].rel : d \in DoneCallsOf(r)}
  BY DEF HalProgress, ResourceProgress
<1>5. Advances
  BY <1>1, <1>3, <1>4 DEF Advances, CallsKeptBut
<1>6. EmbedsMore
  BY DEF EmbedsMore
<1> QED BY <1>2, <1>5, <1>6

LEMMA ResourceEnds ==
    ASSUME HalTree, HalProgress, NEW r \in DOMAIN composed, composed[r].pc = "composing",
           NEW to, composed' = [composed EXCEPT ![r].pc = to],
           \/ to = "failed"
           \/ to = "done" /\ \A c \in CallsOf(r) : composedCalls[c].pc = "done",
           UNCHANGED <<asked, decoratorOrder, composedCalls>>
    PROVE  SameTree /\ Advances /\ EmbedsMore
<1>1. ResourcesKeptBut(r, to)
  BY ResourcesWith
<1>2. SameTree
  BY <1>1, CallAsIs DEF SameTree, ResourcesKeptBut
<1>3. \A s \in DOMAIN composed : {d \in CallsOf(s) : composedCalls'[d].pc = "done"} = DoneCallsOf(s)
  BY DEF DoneCallsOf
<1>4. \A s \in DOMAIN composed :
        DOMAIN composed[s].embedded = {composedCalls[d].rel : d \in DoneCallsOf(s)}
  BY DEF HalProgress, ResourceProgress
<1>5. Advances
  BY <1>1, <1>3, <1>4 DEF Advances, ResourcesKeptBut
<1>6. EmbedsMore
  BY <1>1 DEF EmbedsMore, ResourcesKeptBut
<1> QED BY <1>2, <1>5, <1>6

LEMMA EmbedStep ==
    ASSUME HalTree, HalProgress, NEW c \in DOMAIN composedCalls, Embed(c)
    PROVE  SameTree /\ Advances /\ EmbedsMore /\ \A r \in DOMAIN composed : composed'[r].pc = composed[r].pc
<1> DEFINE to == "done"
           q == Front(c)
           rel == composedCalls[c].rel
           added == [x \in DOMAIN composed[q].embedded \cup {rel} |-> IF x = rel THEN c ELSE composed[q].embedded[x]]
<1>1. /\ composedCalls' = [composedCalls EXCEPT ![c].pc = to] /\ composedCalls[c].pc = "composing"
      /\ \A r \in ItemsOf(c) : composed[r].pc = "done"
      /\ asked' = asked /\ decoratorOrder' = decoratorOrder
  BY DEF Embed
<1>2. IF c = <<>> THEN composed' = composed ELSE composed' = [composed EXCEPT ![q].embedded = added]
  BY DEF Embed
<1>3. /\ to = "done" /\ DOMAIN added = DOMAIN composed[q].embedded \cup {rel} /\ added[rel] = c
      /\ \A x \in DOMAIN composed[q].embedded : x # rel => added[x] = composed[q].embedded[x]
  OBVIOUS
<1> HIDE DEF to, added
<1>4. CallsKeptBut(c, to)
  BY <1>1, CallsWith
<1>5. c # <<>> => q \in DOMAIN composed
  BY DEF HalTree, CallBegun
<1>6. /\ DOMAIN composed' = DOMAIN composed
      /\ \A s \in DOMAIN composed :
           /\ DOMAIN composed'[s] = ResourceKeys
           /\ composed'[s].type = composed[s].type /\ composed'[s].context = composed[s].context
           /\ composed'[s].pc = composed[s].pc
           /\ composed'[s].embedded = IF c # <<>> /\ s = q THEN added ELSE composed[s].embedded
  <2>1. CASE c = <<>>
    <3>1. composed' = composed
      BY <1>2, <2>1
    <3> QED BY <2>1, <3>1, ResourceAsIs
  <2>2. CASE c # <<>>
    <3>1. composed' = [composed EXCEPT ![q].embedded = added] /\ q \in DOMAIN composed
      BY <1>2, <1>5, <2>2
    <3>2. DOMAIN composed' = DOMAIN composed
      BY <3>1
    <3>3. composed'[q] = [composed[q] EXCEPT !.embedded = added]
      BY <3>1
    <3>4. DOMAIN composed[q] = ResourceKeys
      BY <3>1, ResourceAsIs
    <3>5. /\ DOMAIN composed'[q] = ResourceKeys
          /\ composed'[q].type = composed[q].type /\ composed'[q].context = composed[q].context
          /\ composed'[q].pc = composed[q].pc /\ composed'[q].embedded = added
      BY <3>3, <3>4 DEF ResourceKeys
    <3>6. \A s \in DOMAIN composed : s # q => composed'[s] = composed[s]
      BY <3>1
    <3> QED BY <2>2, <3>2, <3>5, <3>6, ResourceAsIs
  <2> QED BY <2>1, <2>2
<1>7. SameTree
  BY <1>1, <1>4, <1>6 DEF SameTree, CallsKeptBut
<1>8. ASSUME NEW s \in DOMAIN composed
      PROVE  DOMAIN composed'[s].embedded =
               {composedCalls[d].rel : d \in {d \in CallsOf(s) : composedCalls'[d].pc = "done"}}
  <2>1. DOMAIN composed[s].embedded = {composedCalls[d].rel : d \in DoneCallsOf(s)}
    BY DEF HalProgress, ResourceProgress
  <2>2. \A d \in CallsOf(s) : d \in DOMAIN composedCalls /\ d # <<>> /\ Front(d) = s
    BY DEF CallsOf
  <2>3. CASE c # <<>> /\ s = q
    <3>1. c \in CallsOf(s)
      BY <2>3 DEF CallsOf
    <3>2. {d \in CallsOf(s) : composedCalls'[d].pc = "done"} = DoneCallsOf(s) \cup {c}
      BY <1>3, <1>4, <2>2, <3>1 DEF CallsKeptBut, DoneCallsOf
    <3>3. DOMAIN composed'[s].embedded = DOMAIN composed[s].embedded \cup {rel}
      BY <1>3, <1>6, <2>3
    <3> QED BY <2>1, <3>2, <3>3
  <2>4. CASE ~(c # <<>> /\ s = q)
    <3>1. \A d \in CallsOf(s) : d # c
      BY <2>2, <2>4
    <3>2. {d \in CallsOf(s) : composedCalls'[d].pc = "done"} = DoneCallsOf(s)
      BY <1>4, <2>2, <3>1 DEF CallsKeptBut, DoneCallsOf
    <3>3. composed'[s].embedded = composed[s].embedded
      BY <1>6, <2>4
    <3> QED BY <2>1, <3>2, <3>3
  <2> QED BY <2>3, <2>4
<1>9. Advances
  BY <1>1, <1>3, <1>4, <1>6, <1>8 DEF Advances, CallsKeptBut
<1>10. EmbedsMore
  BY <1>3, <1>6 DEF EmbedsMore
<1> QED BY <1>6, <1>7, <1>9, <1>10

(* What fails, then, has something below it that did, or a controller did.    *)
LEMMA UnfailingGoesOn ==
    ASSUME HalTree, HalUnfailing, SameTree,
           OneBranch /\ Answerable /\ ~controllerFailed' =>
             /\ ~controllerFailed
             /\ \A c \in DOMAIN composedCalls : composedCalls[c].pc # "failed" => composedCalls'[c].pc # "failed"
             /\ \A r \in DOMAIN composed : composed[r].pc # "failed" => composed'[r].pc # "failed"
    PROVE  HalUnfailing'
<1>1. /\ \A c \in DOMAIN composedCalls : TypeLed(c) => TypeLed(c)'
      /\ OneBranch' = OneBranch /\ Answerable' = Answerable
  BY TreeStays
<1>2. DOMAIN composedCalls' = DOMAIN composedCalls /\ DOMAIN composed' = DOMAIN composed
  BY DEF SameTree
<1> SUFFICES ASSUME OneBranch, Answerable
             PROVE  /\ \A c \in DOMAIN composedCalls : TypeLed(c)'
                    /\ ~controllerFailed' => /\ \A c \in DOMAIN composedCalls : composedCalls'[c].pc # "failed"
                                             /\ \A r \in DOMAIN composed : composed'[r].pc # "failed"
  BY <1>1, <1>2 DEF HalUnfailing
<1> QED BY <1>1, <1>2 DEF HalUnfailing

LEMMA HalWorkStep ==
    ASSUME HalInv,
           \/ \E c \in DOMAIN composedCalls : Embed(c) \/ CallFails(c) \/ ControllerFails(c)
           \/ \E r \in DOMAIN composed : EmbedFails(r) \/ FinishResource(r)
    PROVE  HalInv'
<1>0. HalTree /\ HalProgress /\ HalUnfailing /\ HalAnswered /\ <<>> \in DOMAIN composedCalls
  BY DEF HalInv, HalTree
<1>1. ASSUME SameTree, Advances, EmbedsMore, controllerFailed => controllerFailed', halResponse' = halResponse,
             OneBranch /\ Answerable /\ ~controllerFailed' =>
               /\ ~controllerFailed
               /\ \A c \in DOMAIN composedCalls : composedCalls[c].pc # "failed" => composedCalls'[c].pc # "failed"
               /\ \A r \in DOMAIN composed : composed[r].pc # "failed" => composed'[r].pc # "failed"
      PROVE  HalInv'
  BY <1>0, <1>1, TreeStays, ProgressGoesOn, UnfailingGoesOn, AnsweredGoesOn DEF HalInv
<1>2. ASSUME NEW c \in DOMAIN composedCalls, Embed(c) PROVE HalInv'
  <2>1. SameTree /\ Advances /\ EmbedsMore /\ \A r \in DOMAIN composed : composed'[r].pc = composed[r].pc
    BY <1>0, <1>2, EmbedStep
  <2>2. controllerFailed' = controllerFailed /\ halResponse' = halResponse
    BY <1>2 DEF Embed
  <2>3. \A d \in DOMAIN composedCalls : composedCalls[d].pc # "failed" => composedCalls'[d].pc # "failed"
    <3> DEFINE to == "done"
    <3>1. composedCalls' = [composedCalls EXCEPT ![c].pc = to]
      BY <1>2 DEF Embed
    <3>2. to # "failed"
      OBVIOUS
    <3> HIDE DEF to
    <3>3. CallsKeptBut(c, to)
      BY <1>0, <3>1, CallsWith
    <3> QED BY <3>2, <3>3 DEF CallsKeptBut
  <2> QED BY <1>1, <2>1, <2>2, <2>3
<1>3. ASSUME NEW c \in DOMAIN composedCalls, CallFails(c) PROVE HalInv'
  <2> DEFINE to == "failed"
  <2>1. /\ composedCalls[c].pc = "composing" /\ composedCalls' = [composedCalls EXCEPT ![c].pc = to]
        /\ \E r \in ItemsOf(c) : composed[r].pc = "failed"
        /\ asked' = asked /\ decoratorOrder' = decoratorOrder /\ halResponse' = halResponse
        /\ composed' = composed /\ controllerFailed' = controllerFailed
    BY <1>3 DEF CallFails
  <2>2. to \in {"failed"}
    OBVIOUS
  <2> HIDE DEF to
  <2>3. SameTree /\ Advances /\ EmbedsMore
    BY <1>0, <2>1, <2>2, EndsInFailure
  <2>4. ItemsOf(c) \subseteq DOMAIN composed
    BY <1>0, <2>1 DEF HalProgress, CallProgress
  <2>5. ~(OneBranch /\ Answerable /\ ~controllerFailed)
    BY <1>0, <2>1, <2>4 DEF HalUnfailing
  <2> QED BY <1>1, <2>1, <2>3, <2>5
<1>4. ASSUME NEW c \in DOMAIN composedCalls, ControllerFails(c) PROVE HalInv'
  <2> DEFINE to == "failed"
  <2>1. /\ composedCalls[c].pc = "calling" /\ composedCalls' = [composedCalls EXCEPT ![c].pc = to]
        /\ asked' = asked /\ decoratorOrder' = decoratorOrder /\ halResponse' = halResponse
        /\ composed' = composed /\ controllerFailed' = TRUE
    BY <1>4 DEF ControllerFails
  <2>2. to \in {"failed"}
    OBVIOUS
  <2> HIDE DEF to
  <2>3. SameTree /\ Advances /\ EmbedsMore
    BY <1>0, <2>1, <2>2, EndsInFailure
  <2> QED BY <1>1, <2>1, <2>3
<1>5. ASSUME NEW r \in DOMAIN composed, EmbedFails(r) PROVE HalInv'
  <2> DEFINE to == "failed"
  <2>1. /\ composed[r].pc = "composing" /\ composed' = [composed EXCEPT ![r].pc = to]
        /\ \E c \in CallsOf(r) : composedCalls[c].pc = "failed"
        /\ asked' = asked /\ decoratorOrder' = decoratorOrder /\ halResponse' = halResponse
        /\ composedCalls' = composedCalls /\ controllerFailed' = controllerFailed
    BY <1>5 DEF EmbedFails
  <2>2. to = "failed"
    OBVIOUS
  <2> HIDE DEF to
  <2>3. SameTree /\ Advances /\ EmbedsMore
    BY <1>0, <2>1, <2>2, ResourceEnds
  <2>4. CallsOf(r) \subseteq DOMAIN composedCalls
    BY DEF CallsOf
  <2>5. ~(OneBranch /\ Answerable /\ ~controllerFailed)
    BY <1>0, <2>1, <2>4 DEF HalUnfailing
  <2> QED BY <1>1, <2>1, <2>3, <2>5
<1>6. ASSUME NEW r \in DOMAIN composed, FinishResource(r) PROVE HalInv'
  <2> DEFINE to == IF HasAccessor(composed[r].type, FALSE) THEN "done" ELSE "failed"
  <2>1. /\ composed[r].pc = "composing" /\ composed' = [composed EXCEPT ![r].pc = to]
        /\ \A c \in CallsOf(r) : composedCalls[c].pc = "done"
        /\ asked' = asked /\ decoratorOrder' = decoratorOrder /\ halResponse' = halResponse
        /\ composedCalls' = composedCalls /\ controllerFailed' = controllerFailed
    BY <1>6 DEF FinishResource
  <2>2. to = "failed" \/ (to = "done" /\ \A c \in CallsOf(r) : composedCalls[c].pc = "done")
    BY <2>1
  <2>3. HasAccessor(composed[r].type, FALSE) => to # "failed"
    OBVIOUS
  <2> HIDE DEF to
  <2>4. SameTree /\ Advances /\ EmbedsMore
    BY <1>0, <2>1, <2>2, ResourceEnds
  <2>5. composed[r].type \in Types
    BY <1>0 DEF HalTree, ResourcePlaced, CallPlaced
  <2>6. Answerable => to # "failed"
    BY <2>3, <2>5 DEF Answerable
  <2>7. ResourcesKeptBut(r, to)
    BY <1>0, <2>1, ResourcesWith
  <2>8. Answerable => \A s \in DOMAIN composed : composed[s].pc # "failed" => composed'[s].pc # "failed"
    BY <2>6, <2>7 DEF ResourcesKeptBut
  <2> QED BY <1>1, <2>1, <2>4, <2>8
<1> QED BY <1>2, <1>3, <1>4, <1>5, <1>6

(* A controller returns: what it returned, and the calls that begin.          *)
NewResources(c, n) == {Append(c, k) : k \in 1 .. n}
WithIds(c, n, idless) == {Append(c, k) : k \in (1 .. n) \ idless}
NewCalls(c, n, idless) ==
    UNION {{Append(r, i) : i \in Begun(composedCalls[c].type, composedCalls[c].context)} : r \in WithIds(c, n, idless)}

Returned(c, n, idless) ==
    /\ composedCalls[c].pc = "calling" /\ n \in Nat /\ asked' = asked /\ decoratorOrder' = decoratorOrder
    /\ controllerFailed => controllerFailed'
    /\ ~controllerFailed' => idless = {} /\ (c # <<>> => ~(~composedCalls[c].list /\ n = 0))
    /\ halResponse' = halResponse
    /\ DOMAIN composed' = DOMAIN composed \cup NewResources(c, n)
    /\ DOMAIN composedCalls' = DOMAIN composedCalls \cup NewCalls(c, n, idless)
    /\ \A r \in DOMAIN composed : composed'[r] = composed[r]
    /\ \A r \in NewResources(c, n) :
         /\ r \notin DOMAIN composed /\ r \in Places /\ r # <<>> /\ Front(r) = c /\ Len(r) = Len(c) + 1
         /\ \A m \in 0 .. Len(c) : SubSeq(r, 1, m) = SubSeq(c, 1, m)
         /\ Last(r) \in 1 .. n /\ r = Append(c, Last(r))
         /\ composed'[r] = NewResource(composedCalls[c].type, composedCalls[c].context, Last(r), idless)
    /\ \A d \in DOMAIN composedCalls : d # c => composedCalls'[d] = composedCalls[d]
    /\ DOMAIN composedCalls'[c] = CallKeys /\ composedCalls'[c].list = composedCalls[c].list
    /\ composedCalls'[c].rel = composedCalls[c].rel /\ composedCalls'[c].type = composedCalls[c].type
    /\ composedCalls'[c].context = composedCalls[c].context
    /\ composedCalls'[c].items = n /\ composedCalls'[c].pc = "composing"
    /\ \A d \in NewCalls(c, n, idless) :
         /\ d \notin DOMAIN composedCalls /\ d \in Places /\ d # <<>> /\ Front(d) \in NewResources(c, n)
         /\ Last(d) \in Begun(composedCalls[c].type, composedCalls[c].context) /\ Len(d) = Len(c) + 2
         /\ SubSeq(d, 1, Len(d)) = d
         /\ \A m \in 0 .. Len(c) : SubSeq(d, 1, m) = SubSeq(c, 1, m)
         /\ composedCalls'[d] = NewCall(composedCalls[c].type, composedCalls[c].context[Last(d)], composedCalls[c].context)

LEMMA ReturnsThat ==
    ASSUME HalTree, HalProgress, NEW c \in DOMAIN composedCalls, NEW n \in 0 .. MaxItems,
           NEW idless \in SUBSET (1 .. n), ControllerReturns(c, n, idless)
    PROVE  Returned(c, n, idless)
<1> DEFINE call == composedCalls[c]
           new == NewResources(c, n)
           begun == NewCalls(c, n, idless)
<1>1. /\ call.pc = "calling" /\ asked' = asked /\ decoratorOrder' = decoratorOrder /\ halResponse' = halResponse
      /\ composed' = [r \in DOMAIN composed \cup new |->
              IF r \in new THEN NewResource(call.type, call.context, Last(r), idless) ELSE composed[r]]
      /\ composedCalls' = [d \in DOMAIN composedCalls \cup begun |->
              IF d = c THEN [call EXCEPT !.pc = "composing", !.items = n]
              ELSE IF d \in begun THEN NewCall(call.type, call.context[Last(d)], call.context)
              ELSE composedCalls[d]]
  BY DEF ControllerReturns, NewResources, NewCalls, WithIds
<1>2. n \in Nat /\ c \in Places /\ DOMAIN call = CallKeys /\ DOMAIN call.context \subseteq Nat
  <2>1. CallPlaced(c) /\ asked \in Asks
    BY DEF HalTree
  <2>2. DOMAIN call.context \subseteq DOMAIN asked
    BY <2>1 DEF CallPlaced, ContextAt
  <2> QED BY <2>1, <2>2, AsksAre, HalAssumption DEF CallPlaced
<1>3. ASSUME NEW r \in new
      PROVE  /\ Last(r) \in 1 .. n /\ r = Append(c, Last(r))
             /\ r \notin DOMAIN composed /\ r \in Places /\ r # <<>> /\ Front(r) = c /\ Len(r) = Len(c) + 1
             /\ \A m \in 0 .. Len(c) : SubSeq(r, 1, m) = SubSeq(c, 1, m)
  <2>1. PICK k \in 1 .. n : r = Append(c, k)
    BY DEF NewResources
  <2>2. k \in Nat
    BY <1>2
  <2>3. r \in Places /\ r # <<>> /\ Front(r) = c /\ Last(r) = k /\ Len(r) = Len(c) + 1 /\ \A m \in 0 .. Len(c) : SubSeq(r, 1, m) = SubSeq(c, 1, m)
    BY <1>2, <2>1, <2>2, PlaceBelow
  <2>4. r \notin DOMAIN composed
    BY <1>1, <2>3 DEF HalProgress, ItemReturned
  <2> QED BY <2>1, <2>3, <2>4
<1>4. ASSUME NEW d \in begun
      PROVE  /\ d \notin DOMAIN composedCalls /\ d \in Places /\ d # <<>> /\ Front(d) \in new
             /\ Last(d) \in Begun(call.type, call.context) /\ Len(d) = Len(c) + 2
             /\ SubSeq(d, 1, Len(d)) = d
             /\ \A m \in 0 .. Len(c) : SubSeq(d, 1, m) = SubSeq(c, 1, m)
  <2>1. PICK r \in new, i \in Begun(call.type, call.context) : d = Append(r, i)
    BY DEF NewCalls, WithIds, NewResources
  <2>2. i \in Nat
    BY <1>2 DEF Begun
  <2>3. /\ r \in Places /\ Len(r) = Len(c) + 1 /\ r \notin DOMAIN composed
        /\ \A m \in 0 .. Len(c) : SubSeq(r, 1, m) = SubSeq(c, 1, m)
    BY <1>3
  <2>4. /\ d \in Places /\ d # <<>> /\ Front(d) = r /\ Last(d) = i /\ Len(d) = Len(r) + 1
        /\ \A m \in 0 .. Len(r) : SubSeq(d, 1, m) = SubSeq(r, 1, m)
    BY <2>1, <2>2, <2>3, PlaceBelow
  <2>5. d \notin DOMAIN composedCalls
    BY <2>3, <2>4 DEF HalTree, CallBegun
  <2>6. Len(c) \in Nat
    BY <1>2, LenProperties DEF Places
  <2>7. Len(d) = Len(c) + 2
    BY <2>3, <2>4, <2>6
  <2>8. \A m \in 0 .. Len(c) : m \in 0 .. Len(r)
    BY <2>3, <2>6
  <2>9. \A m \in 0 .. Len(c) : SubSeq(d, 1, m) = SubSeq(c, 1, m)
    BY <2>3, <2>4, <2>8
  <2>10. SubSeq(d, 1, Len(d)) = d
    BY <2>4, SubSeqFull DEF Places
  <2> QED BY <2>1, <2>4, <2>5, <2>7, <2>9, <2>10
<1>5. c \notin begun
  BY <1>4
<1> HIDE DEF new, begun
<1>6. /\ DOMAIN composed' = DOMAIN composed \cup new
      /\ \A r \in DOMAIN composed : composed'[r] = composed[r]
      /\ \A r \in new : composed'[r] = NewResource(call.type, call.context, Last(r), idless)
  BY <1>1, <1>3
<1>7. /\ DOMAIN composedCalls' = DOMAIN composedCalls \cup begun
      /\ \A d \in begun : composedCalls'[d] = NewCall(call.type, call.context[Last(d)], call.context)
      /\ \A d \in DOMAIN composedCalls : d # c => composedCalls'[d] = composedCalls[d]
  BY <1>1, <1>4, <1>5
<1>8. /\ DOMAIN composedCalls'[c] = CallKeys /\ composedCalls'[c].list = call.list
      /\ composedCalls'[c].rel = call.rel /\ composedCalls'[c].type = call.type
      /\ composedCalls'[c].context = call.context
      /\ composedCalls'[c].items = n /\ composedCalls'[c].pc = "composing"
  <2>1. composedCalls'[c] = [call EXCEPT !.pc = "composing", !.items = n]
    BY <1>1
  <2> DEFINE before == call
             after == composedCalls'[c]
  <2>2. after = [before EXCEPT !.pc = "composing", !.items = n] /\ DOMAIN before = CallKeys
    BY <1>2, <2>1
  <2> HIDE DEF before, after
  <2>3. /\ DOMAIN after = CallKeys /\ after.list = before.list /\ after.rel = before.rel /\ after.type = before.type
        /\ after.context = before.context /\ after.items = n /\ after.pc = "composing"
    BY <2>2 DEF CallKeys
  <2> QED BY <2>3 DEF before, after
<1>9. n \in Nat
  BY <1>2
<1>10. /\ controllerFailed => controllerFailed'
       /\ ~controllerFailed' => idless = {} /\ (c # <<>> => ~(~call.list /\ n = 0))
  BY DEF ControllerReturns
<1> QED BY <1>1, <1>3, <1>4, <1>6, <1>7, <1>8, <1>9, <1>10 DEF Returned, new, begun

(* The records of what is new, with c's type and context.                     *)
Unembeddable(type, context) ==
    LinksFail(type) \/ \E p \in ToSet(context) : ~IsEmbeddable(type, p)
LEMMA NewResourceIs ==
    ASSUME NEW type, NEW context, NEW k, NEW idless, NEW resource, resource = NewResource(type, context, k, idless)
    PROVE  /\ DOMAIN resource = ResourceKeys /\ resource.type = type /\ resource.context = context
           /\ DOMAIN resource.embedded = {}
           /\ resource.pc = IF k \in idless \/ Unembeddable(type, context) THEN "failed" ELSE "composing"
<1> DEFINE pc == IF k \in idless \/ Unembeddable(type, context) THEN "failed" ELSE "composing"
<1>1. resource = [type |-> type, context |-> context, embedded |-> <<>>, pc |-> pc]
  BY DEF NewResource, Unembeddable
<1> HIDE DEF pc
<1>2. /\ DOMAIN resource = ResourceKeys /\ resource.type = type /\ resource.context = context
      /\ resource.embedded = <<>> /\ resource.pc = pc
  BY <1>1 DEF ResourceKeys
<1>3. DOMAIN <<>> = {}
  OBVIOUS
<1> QED BY <1>2, <1>3 DEF pc

LEMMA NewCallIs ==
    ASSUME NEW type, NEW path, NEW context, NEW call, call = NewCall(type, path, context)
    PROVE  /\ DOMAIN call = CallKeys /\ call.rel = Head(path) /\ call.type = RelationsOf(type)[Head(path)].resource
           /\ call.pc = "calling" /\ call.items = 0 /\ call.context = ChildContext(context, Head(path))
<1> DEFINE rel == Head(path)
           relation == RelationsOf(type)[rel]
           below == ChildContext(context, rel)
           t == relation.resource
           l == relation.list
<1>1. call = [rel |-> rel, type |-> t, list |-> l, pc |-> "calling", items |-> 0, context |-> below]
  BY DEF NewCall
<1> HIDE DEF rel, relation, below, t, l
<1>2. /\ DOMAIN call = CallKeys /\ call.rel = rel /\ call.type = t /\ call.pc = "calling" /\ call.items = 0
      /\ call.context = below
  BY <1>1 DEF CallKeys
<1> QED BY <1>2 DEF rel, relation, below, t

(* Nothing embeddable is left aside.                                         *)
LEMMA EmbeddableIsBegun ==
    ASSUME NEW type, NEW context, ~Unembeddable(type, context)
    PROVE  Begun(type, context) = DOMAIN context
<1>1. \A i \in DOMAIN context : context[i] \in ToSet(context)
  BY DEF ToSet
<1> QED BY <1>1 DEF Unembeddable, Begun

LEMMA ReturnedTree ==
    ASSUME HalTree, NEW c \in DOMAIN composedCalls, NEW n, NEW idless, Returned(c, n, idless)
    PROVE  HalTree'
<1> DEFINE type == composedCalls[c].type
           context == composedCalls[c].context
           new == NewResources(c, n)
           begun == NewCalls(c, n, idless)
<1>1. /\ asked' = asked /\ asked \in Asks
      /\ DOMAIN composed' = DOMAIN composed \cup new /\ DOMAIN composedCalls' = DOMAIN composedCalls \cup begun
  BY DEF Returned, HalTree
<1>2. CallPlaced(c)
  BY DEF HalTree
<1>3. PICK depth \in Nat : Len(c) = 2 * depth /\ ContextAt(asked, context, depth)
  BY <1>2 DEF CallPlaced
<1>4. ASSUME NEW d \in DOMAIN composedCalls
      PROVE  /\ DOMAIN composedCalls'[d] = CallKeys
             /\ composedCalls'[d].rel = composedCalls[d].rel /\ composedCalls'[d].type = composedCalls[d].type
             /\ composedCalls'[d].context = composedCalls[d].context
  <2>1. CASE d = c
    BY <2>1 DEF Returned
  <2>2. CASE d # c
    BY <2>2, CallAsIs DEF Returned
  <2> QED BY <2>1, <2>2
<1>5. ASSUME NEW r \in DOMAIN composed PROVE composed'[r] = composed[r]
  BY DEF Returned
<1>6. ASSUME NEW r \in new
      PROVE  /\ r \in Places /\ r # <<>> /\ Front(r) = c
             /\ DOMAIN composed'[r] = ResourceKeys /\ composed'[r].type = type /\ composed'[r].context = context
  <2>1. r \in Places /\ r # <<>> /\ Front(r) = c /\ composed'[r] = NewResource(type, context, Last(r), idless)
    BY DEF Returned
  <2> QED BY <2>1, NewResourceIs
<1>7. ASSUME NEW d \in begun
      PROVE  /\ d \in Places /\ d # <<>> /\ Front(d) \in new /\ Last(d) \in Begun(type, context) /\ Len(d) = Len(c) + 2
             /\ SubSeq(d, 1, Len(d)) = d /\ \A m \in 0 .. Len(c) : SubSeq(d, 1, m) = SubSeq(c, 1, m)
             /\ DOMAIN composedCalls'[d] = CallKeys
             /\ composedCalls'[d].rel = Head(context[Last(d)])
             /\ composedCalls'[d].type = RelationsOf(type)[Head(context[Last(d)])].resource
             /\ composedCalls'[d].context = ChildContext(context, Head(context[Last(d)]))
  <2>1. /\ d \in Places /\ d # <<>> /\ Front(d) \in new /\ Last(d) \in Begun(type, context) /\ Len(d) = Len(c) + 2
        /\ SubSeq(d, 1, Len(d)) = d /\ \A m \in 0 .. Len(c) : SubSeq(d, 1, m) = SubSeq(c, 1, m)
        /\ composedCalls'[d] = NewCall(type, context[Last(d)], context)
    BY DEF Returned
  <2> QED BY <2>1, NewCallIs
<1> HIDE DEF new, begun
<1>8. ASSUME NEW d \in DOMAIN composedCalls PROVE CallPlaced(d)'
  <2>1. CallPlaced(d)
    BY DEF HalTree
  <2> QED BY <1>1, <1>4, <2>1 DEF CallPlaced
<1>9. ASSUME NEW d \in DOMAIN composedCalls, d # <<>> PROVE CallBegun(d)'
  <2>1. CallBegun(d)
    BY <1>9 DEF HalTree
  <2>2. Front(d) \in DOMAIN composed
    BY <2>1 DEF CallBegun
  <2> QED BY <1>1, <1>4, <1>5, <2>1, <2>2 DEF CallBegun
<1>10. ASSUME NEW r \in DOMAIN composed PROVE ResourcePlaced(r)'
  <2>1. ResourcePlaced(r)
    BY DEF HalTree
  <2>2. Front(r) \in DOMAIN composedCalls
    BY <2>1 DEF ResourcePlaced
  <2> QED BY <1>1, <1>4, <1>5, <2>1, <2>2 DEF ResourcePlaced
<1>11. ASSUME NEW r \in new PROVE ResourcePlaced(r)'
  BY <1>1, <1>4, <1>6 DEF ResourcePlaced
<1>12. ASSUME NEW d \in begun PROVE CallBegun(d)'
  <2>1. Last(d) \in DOMAIN context /\ HasRelation(type, Head(context[Last(d)]))
    BY <1>7 DEF Begun, IsEmbeddable
  <2>2. Front(d) \in new /\ composed'[Front(d)].type = type /\ composed'[Front(d)].context = context
    BY <1>6, <1>7
  <2> QED BY <1>1, <1>7, <2>1, <2>2 DEF CallBegun
<1>13. ASSUME NEW d \in begun PROVE CallPlaced(d)'
  <2> DEFINE rel == Head(context[Last(d)])
  <2>1. composedCalls'[d].type \in Types
    <3>1. type \in Types /\ HasRelation(type, rel)
      BY <1>2, <1>7 DEF CallPlaced, Begun, IsEmbeddable
    <3> QED BY <1>7, <3>1, HalAssumption DEF HasRelation, RelationsOf
  <2>2. ContextAt(asked, ChildContext(context, rel), depth + 1)
    BY <1>1, <1>3, ContextBelow
  <2>3. depth + 1 \in Nat /\ Len(d) = 2 * (depth + 1)
    BY <1>3, <1>7
  <2>4. \E m \in Nat : Len(d) = 2 * m /\ ContextAt(asked', composedCalls'[d].context, m)
    BY <1>1, <1>7, <2>2, <2>3
  <2>5. ASSUME NEW k \in Nat, 2 * k <= Len(d) PROVE SubSeq(d, 1, 2 * k) \in DOMAIN composedCalls'
    <3>1. k = depth + 1 \/ 2 * k <= Len(c)
      BY <1>3, <2>3, <2>5
    <3>2. CASE k = depth + 1
      BY <1>1, <1>7, <2>3, <3>2
    <3>3. CASE 2 * k <= Len(c)
      <4>1. 2 * k \in 0 .. Len(c)
        BY <1>3, <3>3
      <4>2. SubSeq(d, 1, 2 * k) = SubSeq(c, 1, 2 * k)
        BY <1>7, <4>1
      <4>3. SubSeq(c, 1, 2 * k) \in DOMAIN composedCalls
        BY <1>2, <3>3 DEF CallPlaced
      <4> QED BY <1>1, <4>2, <4>3
    <3> QED BY <3>1, <3>2, <3>3
  <2> QED BY <1>7, <2>1, <2>4, <2>5 DEF CallPlaced
<1>14. <<>> \in DOMAIN composedCalls' /\ composedCalls'[<<>>].type = RootType
  BY <1>1, <1>4 DEF HalTree
<1>15. \A d \in DOMAIN composedCalls' : CallPlaced(d)'
  BY <1>1, <1>8, <1>13
<1>16. \A d \in DOMAIN composedCalls' : d # <<>> => CallBegun(d)'
  BY <1>1, <1>9, <1>12
<1>17. \A r \in DOMAIN composed' : ResourcePlaced(r)'
  BY <1>1, <1>10, <1>11
<1> QED BY <1>1, <1>14, <1>15, <1>16, <1>17 DEF HalTree

LEMMA ReturnedProgress ==
    ASSUME HalTree, HalProgress, NEW c \in DOMAIN composedCalls, NEW n, NEW idless, Returned(c, n, idless)
    PROVE  HalProgress'
<1> DEFINE type == composedCalls[c].type
           context == composedCalls[c].context
           new == NewResources(c, n)
           begun == NewCalls(c, n, idless)
<1>1. /\ DOMAIN composed' = DOMAIN composed \cup new /\ DOMAIN composedCalls' = DOMAIN composedCalls \cup begun
      /\ composedCalls[c].pc = "calling" /\ composedCalls'[c].pc = "composing" /\ composedCalls'[c].items = n
      /\ composedCalls'[c].rel = composedCalls[c].rel
      /\ \A d \in DOMAIN composedCalls : d # c => composedCalls'[d] = composedCalls[d]
      /\ \A r \in DOMAIN composed : composed'[r] = composed[r]
  BY DEF Returned
<1>2. ASSUME NEW r \in new
      PROVE  /\ r \notin DOMAIN composed /\ Front(r) = c /\ composed'[r].context = context
             /\ DOMAIN composed'[r].embedded = {}
             /\ Last(r) \in 1 .. n /\ r = Append(c, Last(r))
             /\ composed'[r].pc = IF Last(r) \in idless \/ Unembeddable(type, context) THEN "failed" ELSE "composing"
  <2>1. /\ r \notin DOMAIN composed /\ Front(r) = c /\ Last(r) \in 1 .. n /\ r = Append(c, Last(r))
        /\ composed'[r] = NewResource(type, context, Last(r), idless)
    BY DEF Returned
  <2> QED BY <2>1, NewResourceIs
<1>3. ASSUME NEW d \in begun
      PROVE  d \notin DOMAIN composedCalls /\ Front(d) \in new /\ composedCalls'[d].pc = "calling"
  <2>1. d \notin DOMAIN composedCalls /\ Front(d) \in new /\ composedCalls'[d] = NewCall(type, context[Last(d)], context)
    BY DEF Returned
  <2> QED BY <2>1, NewCallIs
<1>4. \A d \in DOMAIN composedCalls : d # <<>> => Front(d) \in DOMAIN composed
  BY DEF HalTree, CallBegun
<1>5. ItemsOf(c)' = new
  BY <1>1 DEF ItemsOf, NewResources
<1>6. \A d \in DOMAIN composedCalls : d # c => ItemsOf(d)' = ItemsOf(d)
  BY <1>1 DEF ItemsOf
<1>7. ASSUME NEW r \in new, Last(r) \notin idless, NEW i \in Begun(type, context) PROVE Append(r, i) \in begun
  <2>1. r \in WithIds(c, n, idless)
    BY <1>2, <1>7 DEF WithIds
  <2> QED BY <2>1 DEF NewCalls
<1> HIDE DEF new, begun
<1>8. \A r \in DOMAIN composed : CallsOf(r)' = CallsOf(r)
  <2> SUFFICES ASSUME NEW r \in DOMAIN composed PROVE CallsOf(r)' = CallsOf(r)
    OBVIOUS
  <2>1. \A d \in begun : Front(d) # r
    BY <1>2, <1>3
  <2> QED BY <1>1, <2>1 DEF CallsOf
<1>9. ASSUME NEW r \in DOMAIN composed PROVE ItemReturned(r)'
  <2>1. ItemReturned(r) /\ Front(r) \in DOMAIN composedCalls
    BY DEF HalProgress, HalTree, ResourcePlaced
  <2>2. Front(r) # c
    BY <1>1, <2>1 DEF ItemReturned
  <2> QED BY <1>1, <1>6, <2>1, <2>2 DEF ItemReturned
<1>10. ASSUME NEW r \in new PROVE ItemReturned(r)'
  BY <1>1, <1>2, <1>5 DEF ItemReturned
<1>11. ASSUME NEW d \in DOMAIN composedCalls PROVE CallProgress(d)'
  <2>1. CASE d = c
    BY <1>1, <1>5, <2>1 DEF CallProgress
  <2>2. CASE d # c
    <3>1. CallProgress(d)
      BY DEF HalProgress
    <3>2. composedCalls'[d] = composedCalls[d] /\ ItemsOf(d)' = ItemsOf(d)
      BY <1>1, <1>6, <2>2
    <3> QED BY <1>1, <3>1, <3>2 DEF CallProgress
  <2> QED BY <2>1, <2>2
<1>12. ASSUME NEW d \in begun PROVE CallProgress(d)'
  BY <1>3 DEF CallProgress
<1>13. ASSUME NEW r \in DOMAIN composed PROVE ResourceProgress(r)'
  <2>1. ResourceProgress(r) /\ composed'[r] = composed[r] /\ CallsOf(r)' = CallsOf(r)
    BY <1>1, <1>8 DEF HalProgress
  <2>2. \A d \in CallsOf(r) : d \in DOMAIN composedCalls
    BY DEF CallsOf
  <2>3. DoneCallsOf(r)' = DoneCallsOf(r)
    <3>1. \A d \in CallsOf(r) : composedCalls'[d].pc = "done" <=> composedCalls[d].pc = "done"
      BY <1>1, <2>2
    <3> QED BY <2>1, <3>1 DEF DoneCallsOf
  <2>4. \A d \in DoneCallsOf(r) : composedCalls'[d].rel = composedCalls[d].rel
    BY <1>1, <2>2 DEF DoneCallsOf
  <2>5. DOMAIN composed'[r].embedded = {composedCalls'[d].rel : d \in DoneCallsOf(r)'}
    BY <2>1, <2>3, <2>4 DEF ResourceProgress
  <2>6. composed'[r].pc = "done" => \A d \in CallsOf(r)' : composedCalls'[d].pc = "done"
    BY <1>1, <2>1, <2>2 DEF ResourceProgress
  <2>7. composed'[r].pc \in {"composing", "done"} =>
          \A i \in DOMAIN composed'[r].context : Append(r, i) \in DOMAIN composedCalls'
    BY <1>1, <2>1 DEF ResourceProgress
  <2> QED BY <2>5, <2>6, <2>7 DEF ResourceProgress
<1>14. ASSUME NEW r \in new PROVE ResourceProgress(r)'
  <2>1. \A d \in CallsOf(r)' : d \in begun
    BY <1>1, <1>2, <1>4 DEF CallsOf
  <2>2. DoneCallsOf(r)' = {}
    BY <1>3, <2>1 DEF DoneCallsOf
  <2>3. DOMAIN composed'[r].embedded = {composedCalls'[d].rel : d \in DoneCallsOf(r)'}
    BY <1>2, <2>2
  <2>4. composed'[r].pc # "done"
    BY <1>2
  <2>5. ASSUME composed'[r].pc = "composing", NEW i \in DOMAIN composed'[r].context
        PROVE  Append(r, i) \in DOMAIN composedCalls'
    <3>1. ~Unembeddable(type, context) /\ Last(r) \notin idless
      BY <1>2, <2>5
    <3>2. i \in Begun(type, context)
      BY <1>2, <3>1, EmbeddableIsBegun
    <3> QED BY <1>1, <1>7, <3>1, <3>2
  <2> QED BY <2>3, <2>4, <2>5 DEF ResourceProgress
<1>15. \A r \in DOMAIN composed' : ItemReturned(r)'
  BY <1>1, <1>9, <1>10
<1>16. \A d \in DOMAIN composedCalls' : CallProgress(d)'
  BY <1>1, <1>11, <1>12
<1>17. \A r \in DOMAIN composed' : ResourceProgress(r)'
  BY <1>1, <1>13, <1>14
<1> QED BY <1>15, <1>16, <1>17 DEF HalProgress

(* The first relation of what is left of a path.                             *)
LEMMA NextRelation ==
    ASSUME NEW ask \in Asks, NEW context, NEW d \in Nat, ContextAt(ask, context, d), NEW i \in DOMAIN context
    PROVE  /\ i \in DOMAIN ask /\ ask[i] \in ToSet(ask) /\ Len(ask[i]) \in Nat /\ DOMAIN ask[i] = 1 .. Len(ask[i])
           /\ d < Len(ask[i]) /\ Head(context[i]) = ask[i][d + 1]
<1>1. i \in DOMAIN ask /\ Len(ask[i]) > d
  BY DEF ContextAt
<1>2. ask[i] \in ToSet(ask) /\ Len(ask[i]) \in Nat /\ DOMAIN ask[i] = 1 .. Len(ask[i])
  BY <1>1, AsksAre
<1>3. 1 \in 1 .. Len(ask[i]) - d
  BY <1>1, <1>2
<1>4. context[i] \in Seq(ToSet(ask[i])) /\ context[i][1] = ask[i][d + 1]
  BY <1>3 DEF ContextAt
<1>5. Head(context[i]) = context[i][1]
  BY <1>4
<1> QED BY <1>1, <1>2, <1>4, <1>5

LEMMA ReturnedUnfailing ==
    ASSUME HalTree, HalUnfailing, NEW c \in DOMAIN composedCalls, NEW n, NEW idless, Returned(c, n, idless)
    PROVE  HalUnfailing'
<1> DEFINE type == composedCalls[c].type
           context == composedCalls[c].context
           new == NewResources(c, n)
           begun == NewCalls(c, n, idless)
<1>1. /\ asked' = asked /\ decoratorOrder' = decoratorOrder /\ asked \in Asks
      /\ ~controllerFailed' => ~controllerFailed /\ idless = {}
      /\ DOMAIN composed' = DOMAIN composed \cup new /\ DOMAIN composedCalls' = DOMAIN composedCalls \cup begun
      /\ composedCalls'[c].pc = "composing" /\ composedCalls'[c].type = type /\ composedCalls'[c].context = context
      /\ \A d \in DOMAIN composedCalls : d # c => composedCalls'[d] = composedCalls[d]
      /\ \A r \in DOMAIN composed : composed'[r] = composed[r]
  BY DEF Returned, HalTree
<1>2. OneBranch' = OneBranch /\ Answerable' = Answerable
  BY <1>1, SameAnswers DEF OneBranch
<1>3. CallPlaced(c)
  BY DEF HalTree
<1>4. PICK depth \in Nat : Len(c) = 2 * depth /\ ContextAt(asked, context, depth)
  BY <1>3 DEF CallPlaced
<1>5. ASSUME NEW r \in new
      PROVE  composed'[r].pc = IF Last(r) \in idless \/ Unembeddable(type, context) THEN "failed" ELSE "composing"
  <2>1. composed'[r] = NewResource(type, context, Last(r), idless)
    BY DEF Returned
  <2> QED BY <2>1, NewResourceIs
<1>6. ASSUME NEW d \in begun
      PROVE  /\ Last(d) \in DOMAIN context /\ Len(d) = Len(c) + 2 /\ composedCalls'[d].pc = "calling"
             /\ composedCalls'[d].type = RelationsOf(type)[Head(context[Last(d)])].resource
             /\ composedCalls'[d].context = ChildContext(context, Head(context[Last(d)]))
  <2>1. /\ Last(d) \in Begun(type, context) /\ Len(d) = Len(c) + 2
        /\ composedCalls'[d] = NewCall(type, context[Last(d)], context)
    BY DEF Returned
  <2>2. Last(d) \in DOMAIN context
    BY <2>1 DEF Begun
  <2> QED BY <2>1, <2>2, NewCallIs
<1> HIDE DEF new, begun
<1> SUFFICES ASSUME OneBranch, Answerable
             PROVE  /\ \A d \in DOMAIN composedCalls' : TypeLed(d)'
                    /\ ~controllerFailed' => /\ \A d \in DOMAIN composedCalls' : composedCalls'[d].pc # "failed"
                                             /\ \A r \in DOMAIN composed' : composed'[r].pc # "failed"
  BY <1>1, <1>2 DEF HalUnfailing
<1>7. /\ \A d \in DOMAIN composedCalls : TypeLed(d)
      /\ ~controllerFailed => /\ \A d \in DOMAIN composedCalls : composedCalls[d].pc # "failed"
                              /\ \A r \in DOMAIN composed : composed[r].pc # "failed"
  BY DEF HalUnfailing
<1>8. ASSUME NEW i \in DOMAIN context, NEW types \in [0 .. Len(asked[i]) -> Types], Leads(types, asked[i])
      PROVE  /\ depth + 1 \in DOMAIN asked[i] /\ HasRelation(type, asked[i][depth + 1])
             /\ types[depth + 1] = RelationsOf(type)[asked[i][depth + 1]].resource
  <2>1. types[depth] = type
    BY <1>4, <1>7, <1>8 DEF TypeLed
  <2>2. depth + 1 \in DOMAIN asked[i] /\ (depth + 1) - 1 = depth
    BY <1>1, <1>4, NextRelation
  <2>3. /\ HasRelation(types[(depth + 1) - 1], asked[i][depth + 1])
        /\ types[depth + 1] = RelationsOf(types[(depth + 1) - 1])[asked[i][depth + 1]].resource
    BY <1>8, <2>2 DEF Leads
  <2> QED BY <2>1, <2>2, <2>3
<1>9. ~Unembeddable(type, context)
  <2>1. ~LinksFail(type)
    BY <1>3 DEF Answerable, CallPlaced
  <2>2. ASSUME NEW i \in DOMAIN context PROVE IsEmbeddable(type, context[i])
    <3>1. asked[i] \in ToSet(asked) /\ Head(context[i]) = asked[i][depth + 1]
      BY <1>1, <1>4, NextRelation
    <3>2. PICK types \in [0 .. Len(asked[i]) -> Types] : Leads(types, asked[i])
      BY <3>1 DEF Answerable
    <3> QED BY <1>8, <3>1, <3>2 DEF IsEmbeddable
  <2>3. \A p \in ToSet(context) : \E i \in DOMAIN context : p = context[i]
    BY DEF ToSet
  <2> QED BY <2>1, <2>2, <2>3 DEF Unembeddable
<1>10. ASSUME NEW d \in DOMAIN composedCalls PROVE TypeLed(d)'
  <2>1. composedCalls'[d].type = composedCalls[d].type /\ composedCalls'[d].context = composedCalls[d].context
    BY <1>1
  <2>2. TypeLed(d)
    BY <1>7
  <2> SUFFICES ASSUME NEW i \in DOMAIN composedCalls[d].context, NEW types \in [0 .. Len(asked[i]) -> Types],
                      NEW m \in Nat, Len(d) = 2 * m, Leads(types, asked[i])
               PROVE  types[m] = composedCalls[d].type
    BY <1>1, <2>1 DEF TypeLed
  <2> QED BY <2>2 DEF TypeLed
<1>11. ASSUME NEW d \in begun PROVE TypeLed(d)'
  <2> DEFINE j == Last(d)
             below == ChildContext(context, Head(context[j]))
  <2>1. j \in DOMAIN context /\ composedCalls'[d].context = below
    BY <1>6
  <2>2. composedCalls'[d].type = RelationsOf(type)[asked[j][depth + 1]].resource
    BY <1>1, <1>4, <1>6, NextRelation
  <2>3. ContextAt(asked, below, depth + 1)
    BY <1>1, <1>4, ContextBelow
  <2>4. DOMAIN below \subseteq DOMAIN context
    BY DEF ChildContext, Nested
  <2> HIDE DEF j, below
  <2> SUFFICES ASSUME NEW i \in DOMAIN below, NEW types \in [0 .. Len(asked[i]) -> Types],
                      NEW m \in Nat, Len(d) = 2 * m, Leads(types, asked[i])
               PROVE  types[m] = composedCalls'[d].type
    BY <1>1, <2>1 DEF TypeLed
  <2>5. m = depth + 1
    BY <1>4, <1>6
  <2>6. types[depth + 1] = RelationsOf(type)[asked[i][depth + 1]].resource /\ depth + 1 \in DOMAIN asked[i]
    BY <1>8, <2>4
  <2>7. depth + 1 < Len(asked[i]) /\ asked[i] \in ToSet(asked)
    BY <1>1, <2>3, NextRelation
  <2>8. depth + 1 \in DOMAIN asked[j] /\ asked[j] \in ToSet(asked)
    BY <1>1, <1>4, <2>1, NextRelation
  <2>9. asked[i][depth + 1] = asked[j][depth + 1]
    BY <2>6, <2>7, <2>8 DEF OneBranch
  <2> QED BY <2>2, <2>5, <2>6, <2>9
<1>12. ASSUME ~controllerFailed'
       PROVE  /\ \A d \in DOMAIN composedCalls' : composedCalls'[d].pc # "failed"
              /\ \A r \in DOMAIN composed' : composed'[r].pc # "failed"
  <2>1. \A d \in DOMAIN composedCalls : composedCalls'[d].pc # "failed"
    BY <1>1, <1>7, <1>12
  <2>2. \A d \in begun : composedCalls'[d].pc # "failed"
    BY <1>6
  <2>3. \A r \in DOMAIN composed : composed'[r].pc # "failed"
    BY <1>1, <1>7, <1>12
  <2>4. \A r \in new : composed'[r].pc # "failed"
    BY <1>1, <1>5, <1>9, <1>12
  <2> QED BY <1>1, <2>1, <2>2, <2>3, <2>4
<1>13. \A d \in DOMAIN composedCalls' : TypeLed(d)'
  BY <1>1, <1>10, <1>11
<1> QED BY <1>12, <1>13

LEMMA ReturnedAnswered ==
    ASSUME HalTree, HalAnswered, NEW c \in DOMAIN composedCalls, NEW n, NEW idless, Returned(c, n, idless)
    PROVE  HalAnswered'
<1> DEFINE type == composedCalls[c].type
           context == composedCalls[c].context
           new == NewResources(c, n)
           begun == NewCalls(c, n, idless)
<1>1. /\ DOMAIN composed' = DOMAIN composed \cup new /\ DOMAIN composedCalls' = DOMAIN composedCalls \cup begun
      /\ composedCalls[c].pc = "calling" /\ composedCalls'[c].items = n /\ composedCalls'[c].list = composedCalls[c].list
      /\ \A d \in DOMAIN composedCalls : d # c => composedCalls'[d] = composedCalls[d]
      /\ \A r \in DOMAIN composed : composed'[r] = composed[r]
      /\ halResponse' = halResponse /\ (controllerFailed => controllerFailed')
      /\ ~controllerFailed' => (c # <<>> => ~(~composedCalls[c].list /\ n = 0))
  BY DEF Returned
<1>2. ASSUME NEW r \in new PROVE DOMAIN composed'[r].embedded = {}
  <2>1. composed'[r] = NewResource(type, context, Last(r), idless)
    BY DEF Returned
  <2> QED BY <2>1, NewResourceIs
<1>3. ASSUME NEW d \in begun PROVE composedCalls'[d].pc = "calling"
  <2>1. composedCalls'[d] = NewCall(type, context[Last(d)], context)
    BY DEF Returned
  <2> QED BY <2>1, NewCallIs
<1> HIDE DEF new, begun
<1>4. ASSUME NEW r \in DOMAIN composed', NEW rel \in DOMAIN composed'[r].embedded
      PROVE  composed'[r].embedded[rel] \in DOMAIN composedCalls' \ {<<>>}
  <2>1. CASE r \in DOMAIN composed
    <3>1. composed'[r] = composed[r]
      BY <1>1, <2>1
    <3> QED BY <1>1, <2>1, <3>1 DEF HalAnswered
  <2>2. CASE r \in new
    BY <1>2, <2>2
  <2> QED BY <1>1, <2>1, <2>2
<1>5. ASSUME NEW d \in DOMAIN composedCalls' \ {<<>>}, composedCalls'[d].pc \in {"composing", "done"}, IsNull(d)'
      PROVE  controllerFailed'
  <2>1. CASE d = c
    BY <1>1, <1>5, <2>1 DEF IsNull
  <2>2. CASE d \in DOMAIN composedCalls /\ d # c
    <3>1. composedCalls'[d] = composedCalls[d]
      BY <1>1, <2>2
    <3>2. IsNull(d)
      BY <1>5, <3>1 DEF IsNull
    <3> QED BY <1>1, <1>5, <2>2, <3>1, <3>2 DEF HalAnswered
  <2>3. CASE d \in begun
    BY <1>3, <1>5, <2>3
  <2> QED BY <1>1, <2>1, <2>2, <2>3
<1>6. /\ halResponse' = "failed" => controllerFailed'
      /\ halResponse' = "rendered" => composedCalls'[<<>>].pc = "done"
  <2>1. composedCalls[<<>>].pc = "done" => composedCalls'[<<>>] = composedCalls[<<>>]
    BY <1>1 DEF HalTree
  <2> QED BY <1>1, <2>1 DEF HalAnswered
<1> QED BY <1>4, <1>5, <1>6 DEF HalAnswered

(* The response is ready: then so is everything below it.                    *)
LEMMA AllIsDone ==
    ASSUME HalTree, HalProgress, composedCalls[<<>>].pc = "done"
    PROVE  /\ \A c \in DOMAIN composedCalls : composedCalls[c].pc = "done"
           /\ \A r \in DOMAIN composed : composed[r].pc = "done"
<1> DEFINE S == {m \in Nat : \A c \in DOMAIN composedCalls : Len(c) = 2 * m => composedCalls[c].pc = "done"}
<1>1. \A r \in DOMAIN composed : composedCalls[Front(r)].pc = "done" => composed[r].pc = "done"
  BY DEF HalTree, ResourcePlaced, HalProgress, ItemReturned, CallProgress
<1>2. 0 \in S
  <2> SUFFICES ASSUME NEW c \in DOMAIN composedCalls, Len(c) = 2 * 0 PROVE c = <<>>
    OBVIOUS
  <2>1. c \in Seq(Nat)
    BY DEF HalTree, CallPlaced, Places
  <2> QED BY <2>1, EmptySeq
<1>3. ASSUME NEW m \in Nat, m \in S PROVE m + 1 \in S
  <2> SUFFICES ASSUME NEW c \in DOMAIN composedCalls, Len(c) = 2 * (m + 1) PROVE composedCalls[c].pc = "done"
    OBVIOUS
  <2>1. c \in Places /\ c # <<>>
    <3>1. c \in Places
      BY DEF HalTree, CallPlaced
    <3>2. Len(c) # 0
      OBVIOUS
    <3> QED BY <3>1, <3>2, EmptySeq DEF Places
  <2>2. Len(Front(c)) = Len(c) - 1 /\ Front(c) \in DOMAIN composed
    BY <2>1, PlaceAbove DEF HalTree, CallBegun
  <2>3. Front(c) \in Places /\ Front(c) # <<>> /\ Front(Front(c)) \in DOMAIN composedCalls
    BY <2>2 DEF HalTree, ResourcePlaced
  <2>4. Len(Front(Front(c))) = Len(Front(c)) - 1
    BY <2>3, PlaceAbove
  <2>5. Len(Front(Front(c))) = 2 * m
    BY <2>2, <2>4
  <2>6. composedCalls[Front(Front(c))].pc = "done"
    BY <1>3, <2>3, <2>5
  <2>7. composed[Front(c)].pc = "done"
    BY <1>1, <2>2, <2>6
  <2>8. c \in CallsOf(Front(c))
    BY <2>1 DEF CallsOf
  <2> QED BY <2>2, <2>7, <2>8 DEF HalProgress, ResourceProgress
<1>4. Nat \subseteq S
  <2> HIDE DEF S
  <2> QED BY <1>2, <1>3, NatSetInduction
<1>5. \A c \in DOMAIN composedCalls : composedCalls[c].pc = "done"
  BY <1>4 DEF HalTree, CallPlaced
<1> QED BY <1>1, <1>5 DEF HalTree, ResourcePlaced

LEMMA HalStep == HalInv /\ [HalNext]_halVars => HalInv'
<1> SUFFICES ASSUME HalInv, [HalNext]_halVars PROVE HalInv'
  OBVIOUS
<1>0. HalTree /\ HalProgress /\ HalUnfailing /\ HalAnswered /\ <<>> \in DOMAIN composedCalls
  BY DEF HalInv, HalTree
<1>1. ASSUME NEW c \in DOMAIN composedCalls, NEW n \in 0 .. MaxItems, NEW idless \in SUBSET (1 .. n),
             ControllerReturns(c, n, idless)
      PROVE  HalInv'
  <2>1. Returned(c, n, idless)
    BY <1>0, <1>1, ReturnsThat
  <2>2. HalTree'
    BY <1>0, <2>1, ReturnedTree
  <2>3. HalProgress'
    BY <1>0, <2>1, ReturnedProgress
  <2>4. HalUnfailing'
    BY <1>0, <2>1, ReturnedUnfailing
  <2>5. HalAnswered'
    BY <1>0, <2>1, ReturnedAnswered
  <2> QED BY <2>2, <2>3, <2>4, <2>5 DEF HalInv
<1>2. ASSUME UNCHANGED <<asked, decoratorOrder, composedCalls, composed, controllerFailed>>, HalAnswered' PROVE HalInv'
  <2>1. /\ asked' = asked /\ decoratorOrder' = decoratorOrder /\ composedCalls' = composedCalls /\ composed' = composed
        /\ controllerFailed' = controllerFailed
    BY <1>2
  <2>2. SameTree
    BY <1>0, <2>1, CallAsIs, ResourceAsIs DEF SameTree
  <2>3. HalTree' /\ OneBranch' = OneBranch /\ Answerable' = Answerable
    BY <1>0, <2>2, TreeStays
  <2>4. HalUnfailing'
    BY <1>0, <2>1, <2>2, UnfailingGoesOn
  <2>5. Advances
    BY <1>0, <2>1 DEF Advances, HalProgress, ResourceProgress, DoneCallsOf
  <2>6. HalProgress'
    BY <1>0, <2>2, <2>5, ProgressGoesOn
  <2> QED BY <1>2, <2>3, <2>4, <2>6 DEF HalInv
<1>3. CASE UNCHANGED halVars
  <2>1. UNCHANGED <<asked, decoratorOrder, composedCalls, composed, halResponse, controllerFailed>>
    BY <1>3 DEF halVars
  <2>2. HalAnswered'
    BY <1>0, <2>1 DEF HalAnswered, IsNull
  <2> QED BY <1>2, <2>1, <2>2
<1>4. CASE RenderResponse
  <2>1. UNCHANGED <<asked, decoratorOrder, composedCalls, composed, controllerFailed>>
    BY <1>4 DEF RenderResponse
  <2>2. composedCalls[<<>>].pc = "done" /\ halResponse' \in {"failed", "rendered"}
    BY <1>4 DEF RenderResponse
  <2>3. ASSUME halResponse' = "failed" PROVE controllerFailed
    <3>1. PICK r \in DOMAIN composed : \E rel \in DOMAIN composed[r].embedded : IsNull(composed[r].embedded[rel])
      BY <1>4, <2>3 DEF RenderResponse
    <3>2. PICK rel \in DOMAIN composed[r].embedded : IsNull(composed[r].embedded[rel])
      BY <3>1
    <3>3. composed[r].embedded[rel] \in DOMAIN composedCalls \ {<<>>}
      BY <1>0 DEF HalAnswered
    <3>4. composedCalls[composed[r].embedded[rel]].pc = "done"
      BY <1>0, <2>2, <3>3, AllIsDone
    <3> QED BY <1>0, <3>2, <3>3, <3>4 DEF HalAnswered
  <2>4. HalAnswered'
    BY <1>0, <2>1, <2>2, <2>3 DEF HalAnswered, IsNull
  <2> QED BY <1>2, <2>1, <2>4
<1>5. \/ UNCHANGED halVars \/ RenderResponse
      \/ \E c \in DOMAIN composedCalls : \E n \in 0 .. MaxItems : \E idless \in SUBSET (1 .. n) : ControllerReturns(c, n, idless)
      \/ \E c \in DOMAIN composedCalls : Embed(c) \/ CallFails(c) \/ ControllerFails(c)
      \/ \E r \in DOMAIN composed : EmbedFails(r) \/ FinishResource(r)
  BY DEF HalNext
<1> QED BY <1>1, <1>3, <1>4, <1>5, HalWorkStep

(* The relations on the way to a resource are those of paths asked for.      *)
LEMMA PlaceOf ==
    ASSUME HalTree, NEW r \in DOMAIN composed
    PROVE  \E d \in Nat : Len(Front(r)) = 2 * d /\ (Len(r) - 1) \div 2 = d /\ ContextAt(asked, composed[r].context, d)
<1>1. r \in Places /\ r # <<>> /\ Front(r) \in DOMAIN composedCalls /\ composed[r].context = composedCalls[Front(r)].context
  BY DEF HalTree, ResourcePlaced
<1>2. PICK d \in Nat : Len(Front(r)) = 2 * d /\ ContextAt(asked, composed[r].context, d)
  BY <1>1 DEF HalTree, CallPlaced
<1>3. Len(r) - 1 = 2 * d
  BY <1>1, <1>2, PlaceAbove
<1>4. (2 * d) \div 2 = d
  OBVIOUS
<1> QED BY <1>2, <1>3, <1>4

LEMMA AncestorIs ==
    ASSUME HalTree, NEW r \in DOMAIN composed, NEW d \in Nat, Len(Front(r)) = 2 * d, NEW k \in 1 .. d
    PROVE  LET e == SubSeq(r, 1, 2 * k)
           IN  \E j \in DOMAIN asked : k \in DOMAIN asked[j] /\ composedCalls[e].rel = asked[j][k]
<1> DEFINE c == Front(r)
           e == SubSeq(r, 1, 2 * k)
           q == Front(e)
           j == Last(e)
<1>1. r \in Places /\ r # <<>> /\ c \in DOMAIN composedCalls /\ asked \in Asks
  BY DEF HalTree, ResourcePlaced
<1>2. CallPlaced(c) /\ c \in Places /\ Last(r) \in Nat /\ r = Append(c, Last(r))
  BY <1>1, PlaceAbove DEF HalTree, CallPlaced
<1>3. 2 * k \in 0 .. Len(c) /\ 2 * k <= Len(c) /\ k \in Nat
  OBVIOUS
<1>4. e = SubSeq(c, 1, 2 * k)
  <2> DEFINE l == Last(r)
             m == 2 * k
  <2>1. l \in Nat /\ r = Append(c, l) /\ m \in 0 .. Len(c)
    BY <1>2, <1>3
  <2> HIDE DEF l, m, c
  <2>2. SubSeq(Append(c, l), 1, m) = SubSeq(c, 1, m)
    BY <1>2, <2>1, PlaceBelow
  <2> QED BY <2>1, <2>2 DEF m
<1>5. e \in DOMAIN composedCalls
  BY <1>2, <1>3, <1>4 DEF CallPlaced
<1>6. e \in Places /\ Len(e) = 2 * k
  <2>1. \A i \in 1 .. 2 * k : c[i] \in Nat
    BY <1>2, <1>3, ElementOfSeq DEF Places
  <2>2. 1 \in Int /\ 2 * k \in Int /\ 1 <= 2 * k /\ 2 * k - 1 + 1 = 2 * k
    OBVIOUS
  <2> QED BY <1>4, <2>1, <2>2, SubSeqProperties DEF Places
<1>7. e # <<>>
  <2>1. 2 * k # 0
    OBVIOUS
  <2> HIDE DEF e
  <2> QED BY <1>6, <2>1, EmptySeq DEF Places
<1> HIDE DEF e, c
<1>8. CallBegun(e)
  BY <1>5, <1>7 DEF HalTree
<1>9. q \in DOMAIN composed /\ j \in DOMAIN composed[q].context /\ composedCalls[e].rel = Head(composed[q].context[j])
  BY <1>8 DEF CallBegun
<1>10. PICK m \in Nat : Len(Front(q)) = 2 * m /\ ContextAt(asked, composed[q].context, m)
  BY <1>9, PlaceOf
<1>11. Len(q) = 2 * k - 1 /\ Len(Front(q)) = Len(q) - 1
  BY <1>6, <1>7, <1>9, PlaceAbove DEF HalTree, ResourcePlaced
<1>12. m + 1 = k
  BY <1>10, <1>11
<1> HIDE DEF q, j
<1>13. j \in DOMAIN asked /\ m + 1 \in DOMAIN asked[j] /\ Head(composed[q].context[j]) = asked[j][m + 1]
  BY <1>1, <1>9, <1>10, NextRelation
<1> QED BY <1>9, <1>12, <1>13 DEF e

LEMMA AncestorsAre ==
    ASSUME HalTree, NEW r \in DOMAIN composed, NEW d \in Nat, Len(Front(r)) = 2 * d, (Len(r) - 1) \div 2 = d
    PROVE  /\ Ancestors(r) \in Seq({Ancestors(r)[k] : k \in 1 .. d}) /\ Len(Ancestors(r)) = d
           /\ \A k \in 1 .. d : \E j \in DOMAIN asked : k \in DOMAIN asked[j] /\ Ancestors(r)[k] = asked[j][k]
<1> DEFINE f == Ancestors(r)
           S == {f[k] : k \in 1 .. d}
<1>1. DOMAIN f = 1 .. d /\ \A k \in 1 .. d : f[k] = composedCalls[SubSeq(r, 1, 2 * k)].rel
  BY DEF Ancestors
<1>2. f = [k \in 1 .. d |-> f[k]]
  BY <1>1 DEF Ancestors
<1> HIDE DEF f
<1>3. ASSUME NEW k \in 1 .. d PROVE \E j \in DOMAIN asked : k \in DOMAIN asked[j] /\ f[k] = asked[j][k]
  <2> DEFINE e == SubSeq(r, 1, 2 * k)
  <2>1. \E j \in DOMAIN asked : k \in DOMAIN asked[j] /\ composedCalls[e].rel = asked[j][k]
    BY AncestorIs
  <2>2. f[k] = composedCalls[e].rel
    BY <1>1
  <2> QED BY <2>1, <2>2
<1>4. f \in [1 .. d -> S]
  BY <1>2
<1> HIDE DEF S
<1>5. f \in Seq(S) /\ Len(f) = d
  BY <1>4
<1> QED BY <1>3, <1>5 DEF f, S

LEMMA HalInvImplies == ASSUME HalInv PROVE EmbedsWhatIsAsked
<1>0. HalTree /\ HalProgress /\ HalUnfailing /\ HalAnswered /\ asked \in Asks
  BY DEF HalInv, HalTree
<1>1. OneBranch /\ Answerable /\ ~controllerFailed =>
        halResponse # "failed" /\ \A c \in DOMAIN composedCalls : composedCalls[c].pc # "failed"
  BY <1>0 DEF HalUnfailing, HalAnswered
<1>2. ASSUME halResponse = "rendered", NEW r \in DOMAIN composed
      PROVE  /\ AskedAt(Ancestors(r)) \subseteq DOMAIN composed[r].embedded
             /\ OneBranch => DOMAIN composed[r].embedded = AskedAt(Ancestors(r))
  <2> DEFINE context == composed[r].context
             rels == Ancestors(r)
  <2>1. PICK d \in Nat : Len(Front(r)) = 2 * d /\ (Len(r) - 1) \div 2 = d /\ ContextAt(asked, context, d)
    BY <1>0, PlaceOf
  <2>2. /\ rels \in Seq({rels[k] : k \in 1 .. d}) /\ Len(rels) = d
        /\ \A k \in 1 .. d : \E j \in DOMAIN asked : k \in DOMAIN asked[j] /\ rels[k] = asked[j][k]
    BY <1>0, <2>1, AncestorsAre
  <2>3. composed[r].pc = "done" /\ \A c \in DOMAIN composedCalls : composedCalls[c].pc = "done"
    <3>1. composedCalls[<<>>].pc = "done"
      BY <1>0, <1>2 DEF HalAnswered
    <3> QED BY <1>0, <3>1, AllIsDone
  <2>4. ResourceProgress(r) /\ ResourcePlaced(r) /\ r \in Places
    BY <1>0 DEF HalTree, HalProgress, ResourcePlaced
  <2>5. DOMAIN composed[r].embedded = {composedCalls[c].rel : c \in CallsOf(r)}
    <3>1. DoneCallsOf(r) = CallsOf(r)
      BY <2>3 DEF DoneCallsOf, CallsOf
    <3> QED BY <2>4, <3>1 DEF ResourceProgress
  <2>6. AskedAt(rels) = {p[d + 1] : p \in {p \in ToSet(asked) : Len(p) > d /\ IsPrefix(rels, p)}}
    BY <2>2 DEF AskedAt
  <2> HIDE DEF rels, context
  <2>7. AskedAt(rels) \subseteq DOMAIN composed[r].embedded
    <3> SUFFICES ASSUME NEW p \in ToSet(asked), Len(p) > d PROVE p[d + 1] \in DOMAIN composed[r].embedded
      BY <2>6
    <3>1. PICK i \in DOMAIN asked : p = asked[i]
      BY DEF ToSet
    <3>2. i \in DOMAIN context /\ i \in Nat
      BY <1>0, <2>1, <3>1, AsksAre DEF ContextAt
    <3> DEFINE c == Append(r, i)
    <3>3. c \in DOMAIN composedCalls
      BY <2>3, <2>4, <3>2 DEF ResourceProgress, context
    <3>4. c # <<>> /\ Front(c) = r /\ Last(c) = i
      BY <2>4, <3>2, PlaceBelow
    <3> HIDE DEF c
    <3>5. CallBegun(c) /\ c \in CallsOf(r)
      BY <1>0, <3>3, <3>4 DEF HalTree, CallsOf
    <3>6. composedCalls[c].rel = Head(context[i])
      BY <3>4, <3>5 DEF CallBegun, context
    <3>7. Head(context[i]) = asked[i][d + 1]
      BY <1>0, <2>1, <3>2, NextRelation
    <3> QED BY <2>5, <3>1, <3>5, <3>6, <3>7
  <2>8. ASSUME OneBranch PROVE DOMAIN composed[r].embedded \subseteq AskedAt(rels)
    <3> SUFFICES ASSUME NEW c \in CallsOf(r) PROVE composedCalls[c].rel \in AskedAt(rels)
      BY <2>5
    <3>1. c \in DOMAIN composedCalls /\ c # <<>> /\ Front(c) = r
      BY DEF CallsOf
    <3>2. CallBegun(c)
      BY <1>0, <3>1 DEF HalTree
    <3> DEFINE i == Last(c)
    <3>3. i \in DOMAIN context /\ composedCalls[c].rel = Head(context[i])
      BY <3>1, <3>2 DEF CallBegun, context
    <3> HIDE DEF i
    <3> DEFINE p == asked[i]
               T == ToSet(p)
    <3>4. /\ i \in DOMAIN asked /\ p \in ToSet(asked) /\ Len(p) \in Nat /\ DOMAIN p = 1 .. Len(p) /\ d < Len(p)
          /\ composedCalls[c].rel = p[d + 1]
      BY <1>0, <2>1, <3>3, NextRelation
    <3>5. \A k \in 1 .. d : k \in DOMAIN p /\ k < Len(p)
      BY <3>4
    <3>6. \A j \in DOMAIN asked : asked[j] \in ToSet(asked)
      BY DEF ToSet
    <3>7. \A k \in 1 .. d : rels[k] = p[k]
      <4> SUFFICES ASSUME NEW k \in 1 .. d PROVE rels[k] = p[k]
        OBVIOUS
      <4>1. PICK j \in DOMAIN asked : k \in DOMAIN asked[j] /\ rels[k] = asked[j][k]
        BY <2>2
      <4> QED BY <2>8, <3>4, <3>5, <3>6, <4>1 DEF OneBranch
    <3>8. \A k \in 1 .. d : p[k] \in T /\ rels[k] \in T
      BY <3>5, <3>7 DEF ToSet
    <3> HIDE DEF p, T
    <3>9. SubSeq(rels, 1, d) = SubSeq(p, 1, d)
      <4>1. 1 \in Int /\ d \in Int /\ d - 1 + 1 = d /\ (~(1 <= d) => d = 0) /\ \A k \in 1 .. d : 1 + k - 1 = k
        OBVIOUS
      <4>2. /\ SubSeq(rels, 1, d) \in Seq(T) /\ Len(SubSeq(rels, 1, d)) = IF 1 <= d THEN d - 1 + 1 ELSE 0
            /\ \A k \in 1 .. d - 1 + 1 : SubSeq(rels, 1, d)[k] = rels[1 + k - 1]
        BY <3>8, <4>1, SubSeqProperties
      <4>3. /\ SubSeq(p, 1, d) \in Seq(T) /\ Len(SubSeq(p, 1, d)) = IF 1 <= d THEN d - 1 + 1 ELSE 0
            /\ \A k \in 1 .. d - 1 + 1 : SubSeq(p, 1, d)[k] = p[1 + k - 1]
        BY <3>8, <4>1, SubSeqProperties
      <4>4. Len(SubSeq(rels, 1, d)) = d /\ Len(SubSeq(p, 1, d)) = d
        BY <4>1, <4>2, <4>3
      <4>5. \A k \in 1 .. d : SubSeq(rels, 1, d)[k] = SubSeq(p, 1, d)[k]
        BY <3>7, <4>1, <4>2, <4>3
      <4> QED BY <4>2, <4>3, <4>4, <4>5, SeqEqual
    <3>10. IsPrefix(rels, p)
      BY <2>2, <3>4, <3>9 DEF IsPrefix
    <3> QED BY <2>6, <3>4, <3>10
  <2> QED BY <2>7, <2>8 DEF rels
<1> QED BY <1>1, <1>2 DEF EmbedsWhatIsAsked

(* EmbedsWhatIsAsked: a response embeds every relation asked for, wherever it *)
(* was asked for, and only those when the paths have one branch; and then     *)
(* nothing fails unless a controller does, or returns null or a resource       *)
(* without an id, or a relation or accessor does not exist.                    *)
THEOREM EmbedsWhatIsAskedAlways == HalSpec => []EmbedsWhatIsAsked
<1>1. HalInit => HalInv
  BY HalInitially
<1>2. HalInv /\ [HalNext]_halVars => HalInv'
  BY HalStep
<1>3. HalInv => EmbedsWhatIsAsked
  BY HalInvImplies
<1> QED BY <1>1, <1>2, <1>3, PTL DEF HalSpec
===============================================================================
