--------------------------- MODULE InjectorInstances ---------------------------
(*****************************************************************************)
(* How the injectors of @dandi/core create, share and dispose instances:     *)
(* DandiInjector.inject, DandiGenerator, the instances and instanceRequests  *)
(* of DandiInjectorContext and Repository, and dispose() of all of them.     *)
(*                                                                           *)
(* A job is one call of inject() for one provider: a request of the          *)
(* application, or the injection of a dependency.  A dependency is injected  *)
(* by a child injector of its own, so its context is named by the job.  An   *)
(* instance is named by the job that created it.  A step is the code between *)
(* two awaits, so it includes the start of the jobs of the dependencies.     *)
(*                                                                           *)
(* A token is registered in one context only; InjectorFind is about more.    *)
(*****************************************************************************)
EXTENDS Naturals, Sequences, FiniteSets

CONSTANTS
    Root,           \* the root injector
    Named,          \* the injectors that the application creates, and Root
    NamedPath,      \* the injectors from the root to a named one
    ScopeOf,        \* the scope of a named injector
    Disposers,      \* the named injectors that the application may dispose (a bound)
    Providers,      \* the providers that generate instances
    Registration,   \* the injector that a provider is registered with
    Restriction,    \* a scope, "perInjector", or None
    Requested,      \* the providers that the application injects itself (a bound)
    Deps,           \* the providers of the parameters of a provider, in order
    MaxJobs,        \* the jobs that may be started (a bound)
    MaxRequests,    \* those that the application starts (a bound)
    None

Jobs == 1 .. MaxJobs
Contexts == Named \cup Jobs

(* "disposing" is marked by dispose(); "clearing" has an empty registry and  *)
(* waits for its instances; "stuck" and "broken" are what these two become   *)
(* when what they await fails.  A disposed context throws when it is used.   *)
Phases == {"live", "disposing", "stuck", "clearing", "broken", "disposed"}
Readable == {"live", "disposing", "stuck"}

ASSUME PathAssumption ==
    /\ Root \in Named /\ NamedPath[Root] = <<Root>>
    /\ \A c \in Named : NamedPath[c] \in Seq(Named) \ {<<>>} /\ NamedPath[c][Len(NamedPath[c])] = c
(* The paths of the named injectors are those of a tree.                     *)
ASSUME TreeAssumption ==
    /\ \A c \in Named : \A i \in 1 .. Len(NamedPath[c]) :
          NamedPath[NamedPath[c][i]] = SubSeq(NamedPath[c], 1, i)
    /\ Disposers \subseteq Named /\ Named \cap Jobs = {}
ASSUME ProviderAssumption ==
    /\ Registration \in [Providers -> Named]
    /\ \A p \in Providers : Deps[p] \in Seq(Providers)
    /\ Requested \subseteq Providers
ASSUME NoneAssumption == None \notin Contexts \cup Providers /\ None \notin Phases
ASSUME BoundAssumption == MaxJobs \in Nat

VARIABLES
    started,    \* the number of jobs started
    prov,       \* the provider of a job
    path,       \* the contexts from the root to the one a job injects in
    requester,  \* the job that a job injects a dependency of
    stage,      \* how far a job is
    result,     \* what a job resolves to: an instance, or None for undefined
    home,       \* the instanceContext of a job that generates
    waitsOn,    \* the job whose generation a job awaits
    born,       \* the phase of the home when the instance was created
    phase,      \* how far the disposal of an injector and its context is
    awaited,    \* the children that dispose() of an injector awaits
    cached,     \* findCache: the providers that a context has found
    instances,  \* the instance that the repository of a context has for a provider
    requests,   \* instanceRequests: the job that generates an instance for a context
    dead        \* the instances whose dispose() has been called

jobVars == <<started, prov, path, requester, stage, result, home, waitsOn, born>>
vars == <<jobVars, phase, awaited, cached, instances, requests, dead>>

TypeOK ==
    /\ started \in 0 .. MaxJobs
    /\ prov \in [Jobs -> Providers \cup {None}]
    /\ path \in [Jobs -> Seq(Contexts)]
    /\ requester \in [Jobs -> Jobs \cup {None}]
    /\ stage \in [Jobs -> {"new", "resolved", "generating", "waiting", "done", "failed"}]
    /\ result \in [Jobs -> Jobs \cup {None}]
    /\ home \in [Jobs -> Contexts \cup {None}]
    /\ waitsOn \in [Jobs -> Jobs \cup {None}]
    /\ born \in [Jobs -> Phases \cup {None}]
    /\ phase \in [Contexts -> Phases]
    /\ awaited \in [Contexts -> SUBSET Contexts]
    /\ cached \in [Contexts -> SUBSET Providers]
    /\ instances \in [Contexts -> [Providers -> Jobs \cup {None}]]
    /\ requests \in [Contexts -> [Providers -> Jobs \cup {None}]]
    /\ dead \subseteq Jobs

NoneYet == [p \in Providers |-> None]

Init ==
    /\ started = 0
    /\ prov = [j \in Jobs |-> None]
    /\ path = [j \in Jobs |-> <<>>]
    /\ requester = [j \in Jobs |-> None]
    /\ stage = [j \in Jobs |-> "new"]
    /\ result = [j \in Jobs |-> None]
    /\ home = [j \in Jobs |-> None]
    /\ waitsOn = [j \in Jobs |-> None]
    /\ born = [j \in Jobs |-> None]
    /\ phase = [c \in Contexts |-> "live"]
    /\ awaited = [c \in Contexts |-> {}]
    /\ cached = [c \in Contexts |-> {}]
    /\ instances = [c \in Contexts |-> NoneYet]
    /\ requests = [c \in Contexts |-> NoneYet]
    /\ dead = {}

-------------------------------------------------------------------------------
Indices(cs) == 1 .. Len(cs)
IsLast(i, S) == i \in S /\ \A k \in S : k <= i

(* cachedFind, going up a path, stops at a context that has been disposed    *)
(* and throws, or at one that knows the provider: it has found it before, or *)
(* since it was cleared, or its registry has it.                             *)
Stops(cs, p) ==
    {i \in Indices(cs) :
        \/ phase[cs[i]] = "disposed"
        \/ p \in cached[cs[i]]
        \/ phase[cs[i]] \in Readable /\ cs[i] = Registration[p]}

Finds(cs, p) == \E i \in Indices(cs) : IsLast(i, Stops(cs, p)) /\ phase[cs[i]] # "disposed"
FindsNothing(cs, p) == Stops(cs, p) = {}

(* Mutant: no context caches what it found.                                  *)
CacheNowhere(cs, p, c) == FALSE

(* Each context from there down to the one that asked caches the answer.     *)
CacheAlong(cs, p, c) ==
    \E i, k \in Indices(cs) : IsLast(i, Stops(cs, p)) /\ i <= k /\ cs[k] = c

(* findInstanceContext: where the instances of p are kept.                   *)
IsHome(cs, i, p) ==
    CASE Restriction[p] = None          -> cs[i] = Registration[p]
      [] Restriction[p] = "perInjector" -> i = Len(cs)
      [] OTHER                          -> cs[i] \in Named /\ ScopeOf[cs[i]] = Restriction[p]

Homes(cs, p) == {i \in Indices(cs) : IsHome(cs, i, p)}

IsClear(cs, i) == \A k \in i .. Len(cs) : phase[cs[k]] # "disposed"

(* The last home on a path, unless a context on the way to it is disposed.   *)
HomeIndex(cs, p) == {i \in Indices(cs) : IsLast(i, Homes(cs, p)) /\ IsClear(cs, i)}

(* Once the registries are cleared no home is asked for first: if no scope   *)
(* fits, findParentInjector climbs to the top.                               *)
IsAdHocHome(cs, i, p) == IsLast(i, Homes(cs, p) \cup {1}) /\ IsClear(cs, i)

(* Mutant: the dependencies are injected by the injector that asked.         *)
PathOfRequest(cs, i) == cs

(* findParentInjector: the injector of the home, but never the root injector *)
(* itself: then it is the child of the root on the way.                      *)
ParentPath(cs, i) == SubSeq(cs, 1, IF cs[i] = Root THEN 2 ELSE i)

-------------------------------------------------------------------------------
(* The jobs of `providers` are started for job r (or for the application),   *)
(* up to their first await: each finds its provider, or fails.               *)
JobAt(n) == started + n

NewJobs(ps) == {JobAt(n) : n \in 1 .. Len(ps)}

Start(ps, r, pathTo) ==
    /\ started + Len(ps) <= MaxJobs
    /\ started' = started + Len(ps)
    /\ prov' = [j \in Jobs |-> IF j \in NewJobs(ps) THEN ps[j - started] ELSE prov[j]]
    /\ path' = [j \in Jobs |-> IF j \in NewJobs(ps) THEN pathTo[j] ELSE path[j]]
    /\ requester' = [j \in Jobs |-> IF j \in NewJobs(ps) THEN r ELSE requester[j]]
    /\ cached' = [c \in Contexts |->
                     cached[c] \cup {ps[n] : n \in {m \in 1 .. Len(ps) :
                         /\ Finds(pathTo[JobAt(m)], ps[m])
                         /\ CacheAlong(pathTo[JobAt(m)], ps[m], c)}}]

StartedStage(ps, pathTo, j) ==
    IF Finds(pathTo[j], ps[j - started]) THEN "resolved" ELSE "failed"

(* inject(token), called by the application.  A disposed injector throws.    *)
Request(c, p) ==
    /\ phase[c] # "disposed"
    /\ Cardinality({j \in 1 .. started : requester[j] = None}) < MaxRequests
    /\ LET pathTo == [j \in {started + 1} |-> NamedPath[c]] IN
       /\ Start(<<p>>, None, pathTo)
       /\ stage' = [stage EXCEPT ![started + 1] = StartedStage(<<p>>, pathTo, started + 1)]
    /\ UNCHANGED <<result, home, waitsOn, born, phase, awaited, instances, requests, dead>>

-------------------------------------------------------------------------------
(* fetchGeneratedProviderInstance, once the generator is ready.              *)
NoNewJobs == UNCHANGED <<started, prov, path, requester, cached>>

Settle(j, st, value) ==
    /\ stage' = [stage EXCEPT ![j] = st]
    /\ result' = [result EXCEPT ![j] = value]

(* A context on the way has been disposed, or no scope fits.                 *)
FetchFails(j) ==
    /\ stage[j] = "resolved"
    /\ IF FindsNothing(path[j], prov[j])
       THEN ~\E i \in Indices(path[j]) : IsAdHocHome(path[j], i, prov[j])
       ELSE ~Finds(path[j], prov[j]) \/ HomeIndex(path[j], prov[j]) = {}
    /\ Settle(j, "failed", None)
    /\ NoNewJobs
    /\ UNCHANGED <<home, waitsOn, born, phase, awaited, instances, requests, dead>>

FetchesInstance(j) ==
    /\ stage[j] = "resolved"
    /\ Finds(path[j], prov[j])
    /\ \E i \in HomeIndex(path[j], prov[j]) :
          /\ instances[path[j][i]][prov[j]] # None
          /\ Settle(j, "done", instances[path[j][i]][prov[j]])
    /\ NoNewJobs
    /\ UNCHANGED <<home, waitsOn, born, phase, awaited, instances, requests, dead>>

FetchesRequest(j) ==
    /\ stage[j] = "resolved"
    /\ Finds(path[j], prov[j])
    /\ \E i \in HomeIndex(path[j], prov[j]) :
          /\ instances[path[j][i]][prov[j]] = None
          /\ requests[path[j][i]][prov[j]] # None
          /\ waitsOn' = [waitsOn EXCEPT ![j] = requests[path[j][i]][prov[j]]]
    /\ stage' = [stage EXCEPT ![j] = "waiting"]
    /\ NoNewJobs
    /\ UNCHANGED <<result, home, born, phase, awaited, instances, requests, dead>>

(* generate(): the dependencies are injected by new children of the parent   *)
(* injector.                                                                 *)
Generate(j, i, st) ==
    LET pathTo == [k \in NewJobs(Deps[prov[j]]) |-> Append(ParentPath(path[j], i), k)]
        ps == Deps[prov[j]]
    IN
    /\ Start(ps, j, pathTo)
    /\ stage' = [k \in Jobs |-> IF k \in NewJobs(ps) THEN StartedStage(ps, pathTo, k)
                                ELSE IF k = j THEN st ELSE stage[k]]
    /\ home' = [home EXCEPT ![j] = path[j][i]]

(* Mutant: the request is not registered before the dependencies are awaited.*)
GeneratesUnregistered(j) ==
    /\ stage[j] = "resolved"
    /\ Finds(path[j], prov[j])
    /\ \E i \in HomeIndex(path[j], prov[j]) :
          instances[path[j][i]][prov[j]] = None /\ Generate(j, i, "generating")
    /\ UNCHANGED <<result, waitsOn, born, phase, awaited, instances, requests, dead>>

(* setInstanceRequest, in the same step.                                     *)
Generates(j) ==
    /\ stage[j] = "resolved"
    /\ Finds(path[j], prov[j])
    /\ \E i \in HomeIndex(path[j], prov[j]) :
          /\ instances[path[j][i]][prov[j]] = None
          /\ requests[path[j][i]][prov[j]] = None
          /\ Generate(j, i, "generating")
          /\ requests' = [requests EXCEPT ![path[j][i]][prov[j]] = j]
    /\ UNCHANGED <<result, waitsOn, born, phase, awaited, instances, dead>>

(* The registries on the path have been cleared since the provider was       *)
(* found: an instance is generated, but nobody keeps it, and the injection   *)
(* resolves to undefined at once.                                            *)
GeneratesForNobody(j) ==
    /\ stage[j] = "resolved"
    /\ FindsNothing(path[j], prov[j])
    /\ \E i \in Indices(path[j]) :
          IsAdHocHome(path[j], i, prov[j]) /\ Generate(j, i, "done")
    /\ UNCHANGED <<result, waitsOn, born, phase, awaited, instances, requests, dead>>

-------------------------------------------------------------------------------
DepsOf(j) == {k \in Jobs : requester[k] = j}

(* Mutant: the instance is kept by the context that asked for it.            *)
CreatedForRequest(j) ==
    /\ stage[j] = "generating"
    /\ \A k \in DepsOf(j) : stage[k] = "done"
    /\ born' = [born EXCEPT ![j] = phase[home[j]]]
    /\ Settle(j, "done", j)
    /\ instances' = [instances EXCEPT ![path[j][Len(path[j])]][prov[j]] = j]
    /\ requests' = [requests EXCEPT ![home[j]][prov[j]] = None]
    /\ NoNewJobs
    /\ UNCHANGED <<home, waitsOn, phase, awaited, dead>>

(* The constructor or factory ran; setInstanceRequest keeps the instance in  *)
(* the home it chose before, which throws if that has been disposed.         *)
Created(j) ==
    /\ stage[j] = "generating"
    /\ \A k \in DepsOf(j) : stage[k] = "done"
    /\ born' = [born EXCEPT ![j] = phase[home[j]]]
    /\ IF phase[home[j]] = "disposed"
       THEN Settle(j, "failed", None) /\ UNCHANGED <<instances, requests>>
       ELSE /\ Settle(j, "done", j)
            /\ instances' = [instances EXCEPT ![home[j]][prov[j]] = j]
            /\ requests' = [requests EXCEPT ![home[j]][prov[j]] = None]
    /\ NoNewJobs
    /\ UNCHANGED <<home, waitsOn, phase, awaited, dead>>

(* Mutant: a failure does not remove the request.                            *)
NotCreatedKeepsRequest(j) ==
    /\ stage[j] = "generating"
    /\ \/ \A k \in DepsOf(j) : stage[k] = "done"
       \/ \E k \in DepsOf(j) : stage[k] = "failed"
    /\ Settle(j, "failed", None)
    /\ NoNewJobs
    /\ UNCHANGED <<home, waitsOn, born, phase, awaited, instances, requests, dead>>

(* The constructor threw, or a dependency failed: others of them may go on.  *)
NotCreated(j) ==
    /\ stage[j] = "generating"
    /\ \/ \A k \in DepsOf(j) : stage[k] = "done"
       \/ \E k \in DepsOf(j) : stage[k] = "failed"
    /\ Settle(j, "failed", None)
    /\ requests' = IF phase[home[j]] = "disposed" THEN requests
                   ELSE [requests EXCEPT ![home[j]][prov[j]] = None]
    /\ NoNewJobs
    /\ UNCHANGED <<home, waitsOn, born, phase, awaited, instances, dead>>

(* Mutant: a job that waits does not notice that the generation failed.      *)
ResumesAfterSuccess(j) ==
    /\ stage[j] = "waiting"
    /\ stage[waitsOn[j]] = "done"
    /\ Settle(j, "done", waitsOn[j])
    /\ NoNewJobs
    /\ UNCHANGED <<home, waitsOn, born, phase, awaited, instances, requests, dead>>

(* A job that awaits the promise of another one's generation, whether or not *)
(* its instance could be kept.                                               *)
Resumes(j) ==
    /\ stage[j] = "waiting"
    /\ stage[waitsOn[j]] \in {"done", "failed"}
    /\ IF born[waitsOn[j]] # None
       THEN Settle(j, "done", waitsOn[j])
       ELSE Settle(j, "failed", None)
    /\ NoNewJobs
    /\ UNCHANGED <<home, waitsOn, born, phase, awaited, instances, requests, dead>>

-------------------------------------------------------------------------------
(* The path of a context that exists.                                        *)
PathOf(c) == IF c \in Named THEN NamedPath[c] ELSE path[c]

ExistingContexts == Named \cup {j \in 1 .. started : requester[j] # None}

(* The contexts below c that dispose() of c marks: those it reaches through  *)
(* children that are not being disposed already.                             *)
Reached(c) ==
    {d \in ExistingContexts :
        \E i \in Indices(PathOf(d)) :
            /\ PathOf(d)[i] = c
            /\ \A k \in i .. Len(PathOf(d)) : phase[PathOf(d)[k]] = "live"}

IsChild(d, c) == Len(PathOf(d)) > 1 /\ PathOf(d)[Len(PathOf(d)) - 1] = c

(* DandiInjector.dispose up to its await, with the calls it makes.           *)
BeginDispose(c) ==
    /\ phase[c] = "live"
    /\ phase' = [d \in Contexts |-> IF d \in Reached(c) THEN "disposing" ELSE phase[d]]
    /\ awaited' = [d \in Contexts |->
                      IF d \in Reached(c) THEN {e \in Reached(c) : IsChild(e, d)} ELSE awaited[d]]
    /\ UNCHANGED <<jobVars, cached, instances, requests, dead>>

Kept(c) == {instances[c][p] : p \in Providers} \ {None}

(* Mutant: dispose() of the children is not awaited.                         *)
ClearAtOnce(c) ==
    /\ phase[c] = "disposing"
    /\ phase' = [phase EXCEPT ![c] = IF Kept(c) = {} THEN "disposed" ELSE "clearing"]
    /\ cached' = [cached EXCEPT ![c] = {}]
    /\ dead' = dead \cup Kept(c)
    /\ UNCHANGED <<jobVars, awaited, instances, requests>>

(* The children have been disposed: the context and its repository forget    *)
(* what they have, and the instances are told to dispose themselves.  Where  *)
(* there are none the repository is remapped in the same step.               *)
Clear(c) ==
    /\ phase[c] = "disposing"
    /\ \A d \in awaited[c] : phase[d] = "disposed"
    /\ phase' = [phase EXCEPT ![c] = IF Kept(c) = {} THEN "disposed" ELSE "clearing"]
    /\ cached' = [cached EXCEPT ![c] = {}]
    /\ dead' = dead \cup Kept(c)
    /\ UNCHANGED <<jobVars, awaited, instances, requests>>

(* Their promises have resolved: what was added meanwhile is forgotten.      *)
EndDispose(c) ==
    /\ phase[c] = "clearing"
    /\ phase' = [phase EXCEPT ![c] = "disposed"]
    /\ instances' = [instances EXCEPT ![c] = NoneYet]
    /\ UNCHANGED <<jobVars, awaited, cached, requests, dead>>

(* An instance failed to dispose itself ...                                  *)
DisposeFails(c) ==
    /\ phase[c] = "clearing"
    /\ phase' = [phase EXCEPT ![c] = "broken"]
    /\ UNCHANGED <<jobVars, awaited, cached, instances, requests, dead>>

(* ... which ends the disposal of every injector that awaits it.             *)
DisposeFailsAbove(c) ==
    /\ phase[c] = "disposing"
    /\ \E d \in awaited[c] : phase[d] \in {"stuck", "broken"}
    /\ phase' = [phase EXCEPT ![c] = "stuck"]
    /\ UNCHANGED <<jobVars, awaited, cached, instances, requests, dead>>

-------------------------------------------------------------------------------
Job(j) ==
    \/ FetchFails(j) \/ FetchesInstance(j) \/ FetchesRequest(j)
    \/ Generates(j) \/ GeneratesForNobody(j)
    \/ Created(j) \/ NotCreated(j)
    \/ Resumes(j)

Disposal(c) ==
    Clear(c) \/ EndDispose(c) \/ DisposeFails(c) \/ DisposeFailsAbove(c)

Next ==
    \/ \E c \in Named \ {Root}, p \in Requested : Request(c, p)
    \/ \E j \in Jobs : Job(j)
    \/ \E c \in Disposers : BeginDispose(c)
    \/ \E c \in Contexts : Disposal(c)

Spec == Init /\ [][Next]_vars

(* Promise continuations run; constructors and dispose() methods settle.     *)
(* There are finitely many such steps, so it does not matter whose turn it is.*)
Fairness ==
    /\ WF_vars(\E j \in Jobs : Job(j))
    /\ WF_vars(\E c \in Contexts : Disposal(c))

FairSpec == Spec /\ Fairness

-------------------------------------------------------------------------------
(* A provider has at most one instance in a home that is in use, finished or *)
(* in the making, however many jobs ask for it at the same time: the pending *)
(* request is registered before anything is awaited (dandi-generator.ts:143, *)
(* dandi-injector-context.ts:124-136).                                       *)
OneInstance ==
    \A j, k \in Jobs :
        /\ home[j] = home[k] /\ home[j] # None /\ phase[home[j]] = "live"
        /\ prov[j] = prov[k]
        /\ \A i \in {j, k} : stage[i] = "generating" \/ born[i] # None
        => j = k

(* A pending request is the job that generates: after a failure nothing is   *)
(* left behind, so the next injection tries again.                           *)
RequestsRun ==
    \A c \in Contexts, p \in Providers :
        requests[c][p] # None /\ phase[c] # "disposed" => stage[requests[c][p]] = "generating"

(* inject() of a required token does not resolve to undefined as long as the *)
(* context it was called in has its registry and its cache.                  *)
NotUndefined ==
    [][\A j \in Jobs :
          stage[j] = "resolved" /\ phase[path[j][Len(path[j])]] \in Readable
          => ~(stage'[j] = "done" /\ result'[j] = None)]_vars

DependsOn(j, d) == \E k \in DepsOf(j) : result[k] = d

IsAbove(c, d) == c # d /\ \E i \in Indices(PathOf(d)) : PathOf(d)[i] = c

(* Every context on the way down from c to d was disposed by dispose() of c. *)
DisposedWith(c, d) ==
    \A i \in 2 .. Len(PathOf(d)) :
        (c = PathOf(d)[i - 1] \/ IsAbove(c, PathOf(d)[i - 1])) =>
            PathOf(d)[i] \in awaited[PathOf(d)[i - 1]]

(* An instance outlives those that use it: it is told to dispose itself only *)
(* when the home of an instance that depends on it, below its own home, has  *)
(* been disposed.  The exceptions are contexts between them that were        *)
(* disposing already, or were created later (dandi-injector.ts:130-142).     *)
UsersDisposedFirst ==
    \A j, d \in Jobs :
        /\ born[j] # None /\ DependsOn(j, d) /\ d \in dead
        /\ IsAbove(home[d], home[j]) /\ DisposedWith(home[d], home[j])
        => phase[home[j]] = "disposed"

(* Nothing leaks: what a home kept is disposed with it, unless its           *)
(* generation ended while the home was being cleared (line 138 of            *)
(* dandi-injector-context.ts).                                               *)
NothingLeaks ==
    \A j \in Jobs :
        born[j] \in Readable /\ phase[home[j]] \in {"clearing", "broken", "disposed"} => j \in dead

(* While everything from the root down to the home of an instance is in use, *)
(* what the instance depends on has not been disposed - the root's own       *)
(* instances excepted: findParentInjector (dandi-generator.ts:161) makes     *)
(* their dependencies in the child of the root that asked first, and those   *)
(* kept there are disposed with it.                                          *)
DependenciesAlive(j) ==
    /\ born[j] # None
    /\ \A i \in Indices(PathOf(home[j])) : phase[PathOf(home[j])[i]] = "live"
    => \A d \in dead : ~DependsOn(j, d)

NoDeadDependencies == \A j \in Jobs : home[j] # Root => DependenciesAlive(j)

(* Every injection settles: again and again, none is under way; and every    *)
(* disposal ends, although a disposal that is under way is not awaited by    *)
(* another one.                                                              *)
EverythingSettles ==
    /\ []<>(\A j \in Jobs : stage[j] \notin {"resolved", "generating", "waiting"})
    /\ []<>(\A c \in Contexts : phase[c] \notin {"disposing", "clearing"})
===============================================================================
