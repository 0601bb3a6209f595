--------------------------- MODULE PackageBuilder ----------------------------
(* The builder: the commands that configure, build and publish the packages   *)
(* of a project.  Each runs in a process of its own, does much of its work    *)
(* at once under Promise.all, and the process exits at the first failure,     *)
(* while npm processes it has begun go on; what they did to the registry is    *)
(* there when the command is run again.                                       *)
EXTENDS Naturals, FiniteSets, Sequences

CONSTANTS Packages,      \* the directories found, in the configured scopes
          Projects,      \* [peers, unreadable], one is chosen: the peer dependencies of
                         \* each in the project's scopes; packages whose package.json is
                         \* missing or names no peers
          Commands,
          MaxProcesses   \* bound: commands run one after the other

(* The commands of the command line.                                          *)
ASSUME CommandsAssumption ==
  Commands \subseteq {"update-configs", "build", "publish", "unpublish", "outdated", "deprecate", "yarn"}

VARIABLES project,
          process,       \* the command run and how far it is
          tasks,         \* what its Promise.all waits for
          prepared,      \* files written since the process started
          cleared,       \* packages of the batch, and those it is done with: [package -> step]
          publishedSet,  \* state.published
          registry,      \* the version of each package: "absent", "accepted" or "visible"
          orphans,       \* packages which an npm of an earlier process may still publish
          processes,
          early          \* history: published before a dependency was visible
buildVars == <<project, process, tasks, prepared, cleared, publishedSet, registry, orphans, processes, early>>

-----------------------------------------------------------------------------
(* The files of the phases, each written by a task of its own.                *)
Project == "project"
ConfigFiles == ({"tsconfig", "base", "build"} \X {Project}) \cup ({"tsconfig", "build"} \X Packages)
BuiltFiles  == {"package.json", "license", "manifest"} \X Packages

PeersOf == project.peers

(* validatePackages: every project dependency is one of the packages.         *)
Valid == \A p \in Packages : PeersOf[p] \subseteq Packages

(* What comes after a phase: publish() builds, and build() updates the         *)
(* configurations; each finds the packages anew.                               *)
PhasesOf(command) ==
  CASE command = "update-configs" -> <<"discover", "configure">>
    [] command = "build" -> <<"discover", "configure", "compile", "finalize">>
    [] command = "publish" -> <<"discover", "discover", "configure", "compile", "finalize", "publish">>
    [] OTHER -> <<"discover", command>>
Phase == IF process.state = "running" THEN PhasesOf(process.command)[process.at] ELSE process.state

TasksOf(phase) ==
  CASE phase = "configure" -> ConfigFiles
    [] phase = "finalize" -> BuiltFiles
    [] phase \in {"discover", "yarn", "outdated", "unpublish"} -> {phase} \X Packages
    [] phase = "compile" -> {<<"tsc", Project>>}
    [] OTHER -> {}

BuildInit ==
  /\ project \in Projects
  /\ process = [state |-> "none"] /\ processes = 0
  /\ tasks = {} /\ prepared = {} /\ cleared = <<>> /\ publishedSet = {} /\ orphans = {} /\ early = {}
  /\ registry = [p \in Packages |-> "absent"]

Run(command) ==
  /\ process.state # "running" /\ processes < MaxProcesses
  /\ process' = [state |-> "running", command |-> command, at |-> 1]
  /\ processes' = processes + 1
  /\ tasks' = TasksOf("discover") /\ prepared' = {} /\ cleared' = <<>> /\ publishedSet' = {}
  /\ UNCHANGED <<project, registry, orphans, early>>

(* One task of the phase succeeds.  An `unpublish` removes the version.       *)
TaskEnds(t) ==
  /\ t \in tasks
  /\ ~(Phase = "discover" /\ t[2] \in project.unreadable)
  /\ tasks' = tasks \ {t}
  /\ prepared' = IF Phase \in {"configure", "finalize", "compile"} THEN prepared \cup {t} ELSE prepared
  /\ registry' = IF Phase = "unpublish" THEN [registry EXCEPT ![t[2]] = "absent"] ELSE registry
  /\ UNCHANGED <<project, process, cleared, publishedSet, orphans, processes, early>>

(* Exit: what npm is publishing goes on without the process.                  *)
Exit ==
  /\ process' = [process EXCEPT !.state = "failed"]
  /\ tasks' = {} /\ cleared' = <<>>
  /\ orphans' = orphans \cup {p \in DOMAIN cleared : cleared[p] = "publishing"}

(* yarn outdated reports an error as its result.                              *)
TaskFails(t) ==
  /\ t \in tasks /\ Phase # "outdated"
  /\ Exit
  /\ UNCHANGED <<project, prepared, publishedSet, registry, processes, early>>

(* Promise.all of the phase: on to the next one, unless the packages are not   *)
(* valid.                                                                      *)
PhaseDone ==
  /\ process.state = "running" /\ tasks = {} /\ Phase \notin {"publish", "deprecate"}
  /\ ~(Phase = "discover" /\ ~Valid)
  /\ process' = IF process.at = Len(PhasesOf(process.command)) THEN [process EXCEPT !.state = "done"]
                ELSE [process EXCEPT !.at = @ + 1]
  /\ tasks' = TasksOf(Phase')
  /\ UNCHANGED <<project, prepared, cleared, publishedSet, registry, orphans, processes, early>>

InvalidPackages ==
  /\ process.state = "running" /\ tasks = {} /\ Phase = "discover" /\ ~Valid
  /\ Exit
  /\ UNCHANGED <<project, prepared, publishedSet, registry, processes, early>>

(* deprecate() is called with the array of its arguments as the message, and   *)
(* an array has no replace().                                                  *)
DeprecateFails ==
  /\ process.state = "running" /\ Phase = "deprecate"
  /\ Exit
  /\ UNCHANGED <<project, prepared, publishedSet, registry, processes, early>>

-----------------------------------------------------------------------------
(* publish(): batches of the packages whose dependencies are published, until  *)
(* a batch is empty.                                                           *)
Remaining == Packages \ publishedSet

\* ClearedPackages with a mistake: one published dependency is enough.
AlmostCleared == {p \in Remaining : PeersOf[p] # {} => PeersOf[p] \cap publishedSet # {}}

ClearedPackages == {p \in Remaining : PeersOf[p] \subseteq publishedSet}

NextBatch ==
  /\ process.state = "running" /\ Phase = "publish" /\ cleared = <<>>
  /\ ClearedPackages # {}
  /\ cleared' = [p \in ClearedPackages |-> "checking"]
  /\ UNCHANGED <<project, process, tasks, prepared, publishedSet, registry, orphans, processes, early>>

(* Packages that remain depend on one another.                                *)
PublishEnds ==
  /\ process.state = "running" /\ Phase = "publish" /\ cleared = <<>> /\ ClearedPackages = {}
  /\ process' = [process EXCEPT !.state = IF Remaining = {} THEN "done" ELSE "circular"]
  /\ UNCHANGED <<project, tasks, prepared, cleared, publishedSet, registry, orphans, processes, early>>

Publishing(p, step) == Phase = "publish" /\ p \in DOMAIN cleared /\ cleared[p] = step

(* getPackageInfo finds the version, or does not: an error, or any output of   *)
(* npm on stderr, reads like a package without versions.                       *)
FindVersion(p) ==
  /\ Publishing(p, "checking") \/ Publishing(p, "polling")
  /\ registry[p] = "visible"
  /\ cleared' = [cleared EXCEPT ![p] = "done"]
  /\ UNCHANGED <<project, process, tasks, prepared, publishedSet, registry, orphans, processes, early>>

SpawnPublish(p) ==
  /\ Publishing(p, "checking")
  /\ cleared' = [cleared EXCEPT ![p] = "publishing"]
  /\ early' = IF \A d \in PeersOf[p] : registry[d] = "visible" THEN early ELSE early \cup {p}
  /\ UNCHANGED <<project, process, tasks, prepared, publishedSet, registry, orphans, processes>>

(* The registry accepts a version once.                                       *)
PublishAccepted(p) ==
  /\ Publishing(p, "publishing") /\ registry[p] = "absent"
  /\ registry' = [registry EXCEPT ![p] = "accepted"]
  /\ cleared' = [cleared EXCEPT ![p] = "polling"]
  /\ UNCHANGED <<project, process, tasks, prepared, publishedSet, orphans, processes, early>>

PublishFails(p) ==
  /\ Publishing(p, "publishing")
  /\ process' = [process EXCEPT !.state = "failed"]
  /\ tasks' = {} /\ cleared' = <<>>
  /\ orphans' = orphans \cup {q \in DOMAIN cleared \ {p} : cleared[q] = "publishing"}
  /\ UNCHANGED <<project, prepared, publishedSet, registry, processes, early>>

BatchDone ==
  /\ process.state = "running" /\ cleared # <<>> /\ \A p \in DOMAIN cleared : cleared[p] = "done"
  /\ publishedSet' = publishedSet \cup DOMAIN cleared
  /\ cleared' = <<>>
  /\ UNCHANGED <<project, process, tasks, prepared, registry, orphans, processes, early>>

(* The registry: an accepted version becomes visible; an npm left behind ends. *)
BecomesVisible(p) ==
  /\ registry[p] = "accepted"
  /\ registry' = [registry EXCEPT ![p] = "visible"]
  /\ UNCHANGED <<project, process, tasks, prepared, cleared, publishedSet, orphans, processes, early>>

OrphanEnds(p) ==
  /\ p \in orphans /\ orphans' = orphans \ {p}
  /\ registry' = IF registry[p] = "absent" THEN [registry EXCEPT ![p] = "accepted"] ELSE registry
  /\ UNCHANGED <<project, process, tasks, prepared, cleared, publishedSet, processes, early>>

BuildNext ==
  \/ \E command \in Commands : Run(command)
  \/ \E t \in tasks : TaskEnds(t) \/ TaskFails(t)
  \/ PhaseDone \/ InvalidPackages \/ DeprecateFails
  \/ NextBatch \/ BatchDone \/ PublishEnds
  \/ \E p \in Packages : \/ FindVersion(p) \/ SpawnPublish(p) \/ PublishAccepted(p) \/ PublishFails(p)
                         \/ BecomesVisible(p) \/ OrphanEnds(p)

BuildSpec == BuildInit /\ [][BuildNext]_buildVars

-----------------------------------------------------------------------------
(* The packages that do not depend on a circle of packages.                   *)
ClosedUnderPeers(ps) == \A p \in ps : PeersOf[p] \subseteq ps
Publishable == UNION {ps \in SUBSET Packages :
                 ClosedUnderPeers(ps) /\ \A qs \in SUBSET ps : qs # {} => \E q \in qs : PeersOf[q] \cap qs = {}}

(* No package is published, by this process or one before it, while a package  *)
(* it depends on cannot be seen in the registry; what is compiled and published *)
(* has been configured and finished by the same process; and publish() ends    *)
(* well only when all can be seen, and complains of a circle only when there is *)
(* one and all outside it can be seen.                                         *)
DependenciesFirst ==
  /\ early = {}
  /\ Phase \in {"compile", "finalize", "publish"} => ConfigFiles \subseteq prepared
  /\ Phase = "publish" => BuiltFiles \cup {<<"tsc", Project>>} \subseteq prepared
  /\ Phase = "done" /\ process.command = "publish" => publishedSet = Packages
  /\ Phase = "circular" => publishedSet = Publishable /\ Publishable # Packages
  /\ \A p \in publishedSet : Phase # "unpublish" => registry[p] = "visible"
==============================================================================
