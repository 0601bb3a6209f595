------------------------ MODULE InjectorInstancesProofs ------------------------
(*****************************************************************************)
(* Proofs about InjectorInstances, for any tree of injectors and any         *)
(* providers: however many jobs race for an instance, fail, or meet the      *)
(* disposal of their injectors, one instance is made per home, a failure     *)
(* leaves no request behind, and what a home keeps is disposed with it.      *)
(*****************************************************************************)
EXTENDS InjectorInstances, SequenceTheorems, WellFoundedInduction, TLAPS

Bottom(cs) == cs[Len(cs)]

(* A path leads somewhere, and is not that of the root itself: an injection  *)
(* never asks the root injector.                                             *)
IsPath(cs) == cs \in Seq(Contexts) /\ Len(cs) >= 1 /\ (Len(cs) = 1 => cs[1] # Root)

(* Jobs not yet started have nothing; that of a dependency injects in a      *)
(* context of its own; one that generates has chosen a home, and one that    *)
(* has created an instance has done so for good.                             *)
StartedInv ==
    \A j \in Jobs :
        /\ j > started => stage[j] = "new" /\ home[j] = None /\ born[j] = None
        /\ j <= started => prov[j] \in Providers /\ IsPath(path[j])
        /\ requester[j] # None => Bottom(path[j]) = j
        /\ stage[j] = "generating" => home[j] \in Contexts
        /\ born[j] # None => stage[j] \in {"done", "failed"} /\ home[j] \in Contexts

(* A request that is registered is that of a job that generates for it ...   *)
RequestInv ==
    \A c \in Contexts, p \in Providers :
        requests[c][p] # None /\ phase[c] # "disposed" =>
            /\ stage[requests[c][p]] = "generating"
            /\ home[requests[c][p]] = c
            /\ prov[requests[c][p]] = p

(* ... and, as long as a home has not been cleared, the other way round: its *)
(* registry knows what is being made for it, and what has been.              *)
KeptInv ==
    \A j \in Jobs :
        home[j] \in Contexts /\ phase[home[j]] \in Readable =>
            /\ stage[j] = "generating" =>
                  requests[home[j]][prov[j]] = j /\ instances[home[j]][prov[j]] = None
            /\ born[j] # None => instances[home[j]][prov[j]] = j

(* A job that has found its provider has left it in the cache of the context *)
(* where it asked.                                                           *)
CachedInv ==
    \A j \in Jobs :
        stage[j] = "resolved" /\ phase[Bottom(path[j])] \in Readable =>
            prov[j] \in cached[Bottom(path[j])]

InstancesInv == TypeOK /\ StartedInv /\ RequestInv /\ KeptInv /\ CachedInv /\ NothingLeaks

-------------------------------------------------------------------------------
(* What the start of jobs does, whoever starts them.                         *)
Grown ==
    /\ started' \in started .. MaxJobs
    /\ prov' \in [Jobs -> Providers \cup {None}]
    /\ path' \in [Jobs -> Seq(Contexts)]
    /\ requester' \in [Jobs -> Jobs \cup {None}]
    /\ stage' \in [Jobs -> {"new", "resolved", "generating", "waiting", "done", "failed"}]
    /\ cached' \in [Contexts -> SUBSET Providers]
    /\ \A c \in Contexts : cached[c] \subseteq cached'[c]
    /\ \A k \in Jobs : k \notin started + 1 .. started' =>
          prov'[k] = prov[k] /\ path'[k] = path[k] /\ requester'[k] = requester[k]
    /\ \A k \in started + 1 .. started' :
          /\ prov'[k] \in Providers /\ IsPath(path'[k])
          /\ requester'[k] # None => Bottom(path'[k]) = k
          /\ stage'[k] \in {"resolved", "failed"}
          /\ stage'[k] = "resolved" => prov'[k] \in cached'[Bottom(path'[k])]

LEMMA NamedPathIsPath == ASSUME NEW c \in Named \ {Root} PROVE IsPath(NamedPath[c])
<1>1. NamedPath[c] \in Seq(Named) /\ NamedPath[c][Len(NamedPath[c])] = c
  BY PathAssumption
<1>2. NamedPath[c] \in Seq(Contexts)
  BY <1>1 DEF Contexts
<1>3. Len(NamedPath[c]) >= 1
  BY PathAssumption
<1> QED BY <1>1, <1>2, <1>3 DEF IsPath

LEMMA ParentPathIsPath ==
    ASSUME NEW cs, IsPath(cs), NEW i \in Indices(cs), NEW k \in Jobs
    PROVE  IsPath(Append(ParentPath(cs, i), k)) /\ Bottom(Append(ParentPath(cs, i), k)) = k
<1> DEFINE n == IF cs[i] = Root THEN 2 ELSE i
<1>1. cs \in Seq(Contexts) /\ i \in 1 .. Len(cs) /\ Len(cs) \in Nat
  BY DEF IsPath, Indices
<1>2. n \in 1 .. Len(cs)
  <2>1. CASE cs[i] = Root
    <3>1. Len(cs) # 1
      BY <1>1, <2>1 DEF IsPath
    <3>2. \A m \in Nat : i \in 1 .. m /\ m # 1 => 2 \in 1 .. m
      OBVIOUS
    <3> QED BY <1>1, <2>1, <3>1, <3>2
  <2>2. CASE cs[i] # Root
    BY <1>1, <2>2
  <2> QED BY <2>1, <2>2
<1>3. SubSeq(cs, 1, n) \in Seq(Contexts) /\ Len(SubSeq(cs, 1, n)) = n /\ SubSeq(cs, 1, n)[1] = cs[1]
  BY <1>1, <1>2
<1>4. k \in Contexts
  BY DEF Contexts
<1> HIDE DEF n
<1>5. /\ Append(SubSeq(cs, 1, n), k) \in Seq(Contexts) /\ Len(Append(SubSeq(cs, 1, n), k)) = n + 1
      /\ Append(SubSeq(cs, 1, n), k)[n + 1] = k
  BY <1>2, <1>3, <1>4
<1>6. ParentPath(cs, i) = SubSeq(cs, 1, n)
  BY DEF ParentPath, n
<1> QED BY <1>2, <1>5, <1>6 DEF IsPath, Bottom

LEMMA StartGrows ==
    ASSUME TypeOK, StartedInv, NEW ps \in Seq(Providers), NEW r \in Jobs \cup {None}, NEW pathTo,
           \A k \in NewJobs(ps) : IsPath(pathTo[k]) /\ (r # None => Bottom(pathTo[k]) = k),
           Start(ps, r, pathTo),
           stage' \in [Jobs -> {"new", "resolved", "generating", "waiting", "done", "failed"}],
           \A k \in NewJobs(ps) : stage'[k] = StartedStage(ps, pathTo, k)
    PROVE  Grown
<1>1. /\ Len(ps) \in Nat /\ started \in 0 .. MaxJobs /\ MaxJobs \in Nat
      /\ started' = started + Len(ps) /\ started' <= MaxJobs
      /\ \A n \in 1 .. Len(ps) : ps[n] \in Providers
  BY BoundAssumption DEF Start, TypeOK
<1>2. NewJobs(ps) = started + 1 .. started'
  <2>1. \A k \in started + 1 .. started' : k - started \in 1 .. Len(ps) /\ k = JobAt(k - started)
    BY <1>1 DEF JobAt
  <2>2. \A n \in 1 .. Len(ps) : JobAt(n) \in started + 1 .. started'
    BY <1>1 DEF JobAt
  <2> QED BY <2>1, <2>2 DEF NewJobs
<1>3. \A k \in NewJobs(ps) : k \in Jobs /\ k - started \in 1 .. Len(ps) /\ ps[k - started] \in Providers
                             /\ JobAt(k - started) = k
  BY <1>1, <1>2 DEF Jobs, JobAt
<1>4. prov' = [j \in Jobs |-> IF j \in NewJobs(ps) THEN ps[j - started] ELSE prov[j]]
      /\ path' = [j \in Jobs |-> IF j \in NewJobs(ps) THEN pathTo[j] ELSE path[j]]
      /\ requester' = [j \in Jobs |-> IF j \in NewJobs(ps) THEN r ELSE requester[j]]
  BY DEF Start
<1>5. prov' \in [Jobs -> Providers \cup {None}] /\ requester' \in [Jobs -> Jobs \cup {None}]
  BY <1>3, <1>4 DEF TypeOK
<1>6. path' \in [Jobs -> Seq(Contexts)]
  BY <1>3, <1>4 DEF TypeOK, IsPath
<1>7. /\ cached' \in [Contexts -> SUBSET Providers]
      /\ \A c \in Contexts : cached[c] \subseteq cached'[c]
  BY <1>1 DEF Start, TypeOK
<1>8. ASSUME NEW k \in NewJobs(ps)
      PROVE  /\ prov'[k] \in Providers /\ IsPath(path'[k])
             /\ requester'[k] # None => Bottom(path'[k]) = k
             /\ stage'[k] \in {"resolved", "failed"}
             /\ stage'[k] = "resolved" => prov'[k] \in cached'[Bottom(path'[k])]
  <2>1. prov'[k] = ps[k - started] /\ path'[k] = pathTo[k] /\ requester'[k] = r
    BY <1>3, <1>4
  <2>2. stage'[k] = IF Finds(pathTo[k], ps[k - started]) THEN "resolved" ELSE "failed"
    BY DEF StartedStage
  <2>3. ASSUME Finds(pathTo[k], ps[k - started])
        PROVE  ps[k - started] \in cached'[Bottom(pathTo[k])]
    <3>1. IsPath(pathTo[k]) /\ Len(pathTo[k]) \in Indices(pathTo[k]) /\ Bottom(pathTo[k]) \in Contexts
      BY DEF IsPath, Indices, Bottom
    <3>2. CacheAlong(pathTo[k], ps[k - started], Bottom(pathTo[k]))
      BY <2>3, <3>1 DEF Finds, CacheAlong, Bottom, Indices, IsPath
    <3> QED BY <1>3, <2>3, <3>1, <3>2 DEF Start
  <2> QED BY <1>3, <2>1, <2>2, <2>3
<1>9. \A k \in Jobs : k \notin started + 1 .. started' =>
        prov'[k] = prov[k] /\ path'[k] = path[k] /\ requester'[k] = requester[k]
  BY <1>2, <1>4
<1>10. started' \in started .. MaxJobs
  BY <1>1
<1> QED BY <1>2, <1>5, <1>6, <1>7, <1>8, <1>9, <1>10 DEF Grown

(* A started job that moves on when others start has its provider, and no    *)
(* instance yet; the others, and what they have, stay as they are.           *)
GrownBy(J) ==
    /\ Grown
    /\ UNCHANGED <<phase, awaited, born, instances, dead, result, waitsOn>>
    /\ \A k \in Jobs : k \notin J => home'[k] = home[k]
    /\ \A k \in Jobs : k \notin J /\ k \notin started + 1 .. started' => stage'[k] = stage[k]
    /\ \A k \in J : /\ k \in Jobs /\ stage[k] = "resolved"
                     /\ stage'[k] \in {"generating", "done"} /\ home'[k] \in Contexts

LEMMA StartedJob ==
    ASSUME TypeOK, StartedInv, NEW k \in Jobs, stage[k] # "new"
    PROVE  k <= started /\ prov[k] \in Providers /\ IsPath(path[k])
  BY BoundAssumption DEF TypeOK, StartedInv, Jobs

LEMMA GrownJobs ==
    ASSUME TypeOK, StartedInv, NEW J, GrownBy(J), NEW k \in Jobs
    PROVE  /\ stage[k] # "new" => k \notin started + 1 .. started'
           /\ k <= started => k \notin started + 1 .. started'
           /\ k \in J => k <= started
           /\ k > started' => k > started /\ k \notin started + 1 .. started'
<1>1. started \in 0 .. MaxJobs /\ started' \in started .. MaxJobs /\ k \in 1 .. MaxJobs /\ MaxJobs \in Nat
  BY BoundAssumption DEF TypeOK, GrownBy, Grown, Jobs
<1>2. stage[k] # "new" => k <= started
  BY StartedJob
<1>3. k \in J => stage[k] # "new"
  BY DEF GrownBy
<1> QED BY <1>1, <1>2, <1>3

LEMMA GrownInv ==
    ASSUME InstancesInv, NEW J, GrownBy(J)
    PROVE  StartedInv' /\ CachedInv' /\ NothingLeaks'
<1> USE DEF InstancesInv
<1>1. ASSUME NEW k \in Jobs
      PROVE  /\ k > started' => stage'[k] = "new" /\ home'[k] = None /\ born'[k] = None
             /\ k <= started' => prov'[k] \in Providers /\ IsPath(path'[k])
             /\ requester'[k] # None => Bottom(path'[k]) = k
             /\ stage'[k] = "generating" => home'[k] \in Contexts
             /\ born'[k] # None => stage'[k] \in {"done", "failed"} /\ home'[k] \in Contexts
  <2>1. CASE k \in started + 1 .. started'
    <3>1. k > started /\ k \notin J /\ ~(k > started') /\ stage[k] = "new" /\ born[k] = None
      BY <2>1, GrownJobs, BoundAssumption DEF TypeOK, Grown, GrownBy, StartedInv, Jobs
    <3> QED BY <2>1, <3>1 DEF GrownBy, Grown
  <2>2. CASE k \notin started + 1 .. started' /\ k \in J
    <3>1. k <= started /\ ~(k > started') /\ born[k] = None
      BY <2>2, GrownJobs, BoundAssumption DEF GrownBy, Grown, StartedInv, TypeOK, Jobs
    <3> QED BY <2>2, <3>1 DEF GrownBy, Grown, StartedInv
  <2>3. CASE k \notin started + 1 .. started' /\ k \notin J
    <3>1. /\ stage'[k] = stage[k] /\ home'[k] = home[k] /\ born'[k] = born[k]
          /\ prov'[k] = prov[k] /\ path'[k] = path[k] /\ requester'[k] = requester[k]
      BY <2>3 DEF GrownBy, Grown
    <3>2. (k > started' => k > started) /\ (k <= started' => k <= started)
      BY <2>3, BoundAssumption DEF GrownBy, Grown, TypeOK, Jobs
    <3> QED BY <3>1, <3>2 DEF StartedInv
  <2> QED BY <2>1, <2>2, <2>3
<1>2. StartedInv'
  BY <1>1, Zenon DEF StartedInv, IsPath, Bottom, Contexts, Jobs
<1>3. ASSUME NEW k \in Jobs, stage'[k] = "resolved", phase'[Bottom(path'[k])] \in Readable
      PROVE  prov'[k] \in cached'[Bottom(path'[k])]
  <2>1. CASE k \in started + 1 .. started'
    BY <1>3, <2>1 DEF GrownBy, Grown
  <2>2. CASE k \notin started + 1 .. started'
    <3>1. k \notin J
      BY <1>3 DEF GrownBy
    <3>2. stage[k] = "resolved" /\ prov'[k] = prov[k] /\ path'[k] = path[k] /\ phase' = phase
      BY <1>3, <2>2, <3>1 DEF GrownBy, Grown
    <3>3. prov[k] \in cached[Bottom(path[k])]
      BY <1>3, <3>2 DEF CachedInv
    <3>4. Bottom(path[k]) \in Contexts
      BY <3>2, StartedJob DEF IsPath, Bottom
    <3> QED BY <3>2, <3>3, <3>4 DEF GrownBy, Grown
  <2> QED BY <2>1, <2>2
<1>4. CachedInv'
  BY <1>3 DEF CachedInv, Bottom
<1>5. NothingLeaks'
  <2>1. ASSUME NEW k \in Jobs, born[k] \in Readable PROVE home'[k] = home[k]
    <3>1. born[k] # None
      BY <2>1, NoneAssumption DEF Readable, Phases
    <3> QED BY <3>1 DEF GrownBy, StartedInv
  <2> QED BY <2>1 DEF NothingLeaks, GrownBy
<1> QED BY <1>2, <1>4, <1>5

(* If nobody begins to generate, the registries stay right as they are.      *)
LEMMA GrownKeeps ==
    ASSUME InstancesInv, NEW J, GrownBy(J), UNCHANGED requests,
           \A k \in J : stage'[k] = "done"
    PROVE  RequestInv' /\ KeptInv'
<1> USE DEF InstancesInv
<1>1. ASSUME NEW k \in Jobs, stage[k] = "generating"
      PROVE  stage'[k] = stage[k] /\ home'[k] = home[k] /\ prov'[k] = prov[k]
  <2>1. k \notin J /\ k \notin started + 1 .. started'
    BY <1>1, GrownJobs DEF GrownBy
  <2> QED BY <2>1 DEF GrownBy, Grown
<1>2. ASSUME NEW k \in Jobs, stage'[k] = "generating"
      PROVE  stage[k] = "generating"
  BY <1>2 DEF GrownBy, Grown
<1>3. ASSUME NEW k \in Jobs, born[k] # None
      PROVE  home'[k] = home[k] /\ prov'[k] = prov[k]
  <2>1. k \notin J /\ k \notin started + 1 .. started'
    BY <1>3, GrownJobs DEF GrownBy, StartedInv
  <2> QED BY <2>1 DEF GrownBy, Grown
<1>4. RequestInv'
  <2> SUFFICES ASSUME NEW c \in Contexts, NEW p \in Providers,
                      requests[c][p] # None, phase[c] # "disposed"
               PROVE  /\ stage'[requests[c][p]] = "generating"
                      /\ home'[requests[c][p]] = c
                      /\ prov'[requests[c][p]] = p
    BY DEF RequestInv, GrownBy
  <2>1. requests[c][p] \in Jobs
    BY DEF TypeOK
  <2> QED BY <1>1, <2>1 DEF RequestInv
<1>5. KeptInv'
  BY <1>1, <1>2, <1>3 DEF KeptInv, GrownBy
<1> QED BY <1>4, <1>5

LEMMA RequestGrows ==
    ASSUME InstancesInv, NEW c \in Named \ {Root}, NEW p \in Requested, Request(c, p)
    PROVE  GrownBy({})
<1> DEFINE k == started + 1
           pathTo == [j \in {k} |-> NamedPath[c]]
<1>1. TypeOK /\ StartedInv /\ p \in Providers
  BY ProviderAssumption DEF InstancesInv
<1>2. <<p>> \in Seq(Providers) /\ Len(<<p>>) = 1 /\ <<p>>[1] = p
  BY <1>1
<1>3. NewJobs(<<p>>) = {k}
  BY <1>2 DEF NewJobs, JobAt
<1>4. /\ Start(<<p>>, None, pathTo)
      /\ stage' = [stage EXCEPT ![k] = StartedStage(<<p>>, pathTo, k)]
      /\ UNCHANGED <<result, home, waitsOn, born, phase, awaited, instances, requests, dead>>
  BY DEF Request
<1>5. k \in Jobs /\ started' = k
  BY <1>1, <1>2, <1>4, BoundAssumption DEF Start, TypeOK, Jobs
<1>6. IsPath(pathTo[k])
  BY NamedPathIsPath
<1> HIDE DEF k, pathTo
<1>7. /\ stage' \in [Jobs -> {"new", "resolved", "generating", "waiting", "done", "failed"}]
      /\ \A j \in NewJobs(<<p>>) : stage'[j] = StartedStage(<<p>>, pathTo, j)
      /\ \A j \in Jobs : j # k => stage'[j] = stage[j]
  <2>1. StartedStage(<<p>>, pathTo, k) \in {"resolved", "failed"}
    BY DEF StartedStage
  <2>2. stage \in [Jobs -> {"new", "resolved", "generating", "waiting", "done", "failed"}]
    BY <1>1 DEF TypeOK
  <2>3. stage' \in [Jobs -> {"new", "resolved", "generating", "waiting", "done", "failed"}]
    BY <1>4, <1>5, <2>1, <2>2
  <2>4. stage'[k] = StartedStage(<<p>>, pathTo, k)
    BY <1>4, <1>5, <2>2
  <2>5. \A j \in Jobs : j # k => stage'[j] = stage[j]
    BY <1>4, <1>5, <2>2
  <2> QED BY <1>3, <2>3, <2>4, <2>5
<1>8. Grown
  BY <1>1, <1>2, <1>3, <1>4, <1>6, <1>7, StartGrows
<1>9. k \in started + 1 .. started'
  BY <1>1, <1>5 DEF TypeOK, k
<1> QED BY <1>4, <1>7, <1>8, <1>9 DEF GrownBy

LEMMA RequestStep ==
    ASSUME InstancesInv, NEW c \in Named \ {Root}, NEW p \in Requested, Request(c, p)
    PROVE  InstancesInv'
<1>1. GrownBy({}) /\ Grown /\ TypeOK
  BY RequestGrows DEF GrownBy, InstancesInv
<1>2. UNCHANGED <<result, home, waitsOn, born, phase, awaited, instances, requests, dead>>
  BY DEF Request
<1>3. StartedInv' /\ CachedInv' /\ NothingLeaks' /\ RequestInv' /\ KeptInv'
  BY <1>1, <1>2, GrownInv, GrownKeeps
<1>4. TypeOK'
  <2>1. started' \in 0 .. MaxJobs
    BY <1>1, BoundAssumption DEF Grown, TypeOK
  <2> QED BY <1>1, <1>2, <2>1 DEF Grown, TypeOK, Phases
<1> QED BY <1>3, <1>4 DEF InstancesInv

LEMMA GenerateGrows ==
    ASSUME InstancesInv, NEW j \in Jobs, stage[j] = "resolved", NEW i \in Indices(path[j]),
           NEW st \in {"generating", "done"}, Generate(j, i, st),
           UNCHANGED <<phase, awaited, born, instances, dead, result, waitsOn>>
    PROVE  /\ GrownBy({j})
           /\ stage'[j] = st /\ path[j][i] \in Contexts
           /\ home' = [home EXCEPT ![j] = path[j][i]]
<1> DEFINE ps == Deps[prov[j]]
           pathTo == [k \in NewJobs(ps) |-> Append(ParentPath(path[j], i), k)]
<1>1. TypeOK /\ StartedInv
  BY DEF InstancesInv
<1>2. j <= started /\ prov[j] \in Providers /\ IsPath(path[j])
  BY <1>1, StartedJob
<1>3. path[j][i] \in Contexts
  BY <1>2 DEF IsPath, Indices
<1>4. ps \in Seq(Providers)
  BY <1>2, ProviderAssumption
<1>5. /\ Start(ps, j, pathTo)
      /\ stage' = [k \in Jobs |-> IF k \in NewJobs(ps) THEN StartedStage(ps, pathTo, k)
                                 ELSE IF k = j THEN st ELSE stage[k]]
      /\ home' = [home EXCEPT ![j] = path[j][i]]
  BY DEF Generate
<1>6. NewJobs(ps) = started + 1 .. started' /\ NewJobs(ps) \subseteq Jobs
  <2>1. Len(ps) \in Nat /\ started' = started + Len(ps) /\ started' <= MaxJobs
    BY <1>4, <1>5 DEF Start
  <2>2. \A k \in started + 1 .. started' : k - started \in 1 .. Len(ps) /\ k = JobAt(k - started)
    BY <1>1, <2>1, BoundAssumption DEF TypeOK, JobAt
  <2>3. \A n \in 1 .. Len(ps) : JobAt(n) \in started + 1 .. started'
    BY <1>1, <2>1, BoundAssumption DEF TypeOK, JobAt
  <2>4. started + 1 .. started' \subseteq Jobs
    BY <1>1, <2>1, BoundAssumption DEF TypeOK, Jobs
  <2> HIDE DEF ps
  <2> QED BY <2>2, <2>3, <2>4 DEF NewJobs
<1>7. \A k \in NewJobs(ps) : IsPath(pathTo[k]) /\ Bottom(pathTo[k]) = k
  BY <1>2, <1>6, ParentPathIsPath
<1> HIDE DEF ps, pathTo
<1>8. /\ stage' \in [Jobs -> {"new", "resolved", "generating", "waiting", "done", "failed"}]
      /\ \A k \in NewJobs(ps) : stage'[k] = StartedStage(ps, pathTo, k)
      /\ \A k \in Jobs : k # j /\ k \notin NewJobs(ps) => stage'[k] = stage[k]
  <2>1. \A k \in NewJobs(ps) : StartedStage(ps, pathTo, k) \in {"resolved", "failed"}
    BY DEF StartedStage
  <2> QED BY <1>1, <1>5, <1>6, <2>1 DEF TypeOK
<1>9. Grown
  BY <1>1, <1>4, <1>5, <1>7, <1>8, StartGrows
<1>10. j \notin NewJobs(ps)
  BY <1>1, <1>2, <1>6, BoundAssumption DEF TypeOK, Jobs
<1>11. stage'[j] = st
  BY <1>5, <1>10
<1>12. home'[j] = path[j][i] /\ \A k \in Jobs : k # j => home'[k] = home[k]
  BY <1>1, <1>5 DEF TypeOK
<1>13. GrownBy({j})
  BY <1>3, <1>6, <1>8, <1>9, <1>11, <1>12 DEF GrownBy
<1> QED BY <1>3, <1>5, <1>11, <1>13

LEMMA HomeIndexType ==
    ASSUME NEW cs, NEW p, NEW i, i \in HomeIndex(cs, p) \/ IsAdHocHome(cs, i, p), IsPath(cs)
    PROVE  i \in Indices(cs)
  BY DEF HomeIndex, IsAdHocHome, IsLast, Homes, Indices, IsPath

LEMMA GeneratesForNobodyStep ==
    ASSUME InstancesInv, NEW j \in Jobs, GeneratesForNobody(j)
    PROVE  InstancesInv'
<1>1. PICK i \in Indices(path[j]) : Generate(j, i, "done")
  BY DEF GeneratesForNobody
<1>2. stage[j] = "resolved"
      /\ UNCHANGED <<result, waitsOn, born, phase, awaited, instances, requests, dead>>
  BY DEF GeneratesForNobody
<1>3. /\ GrownBy({j}) /\ stage'[j] = "done" /\ path[j][i] \in Contexts
      /\ home' = [home EXCEPT ![j] = path[j][i]]
  BY <1>1, <1>2, GenerateGrows
<1>4. StartedInv' /\ CachedInv' /\ NothingLeaks' /\ RequestInv' /\ KeptInv'
  BY <1>2, <1>3, GrownInv, GrownKeeps
<1>5. TypeOK'
  <2>1. started' \in 0 .. MaxJobs
    BY <1>3, BoundAssumption DEF GrownBy, Grown, TypeOK, InstancesInv
  <2> QED BY <1>2, <1>3, <2>1 DEF GrownBy, Grown, TypeOK, Phases, InstancesInv
<1> QED BY <1>4, <1>5 DEF InstancesInv

LEMMA GeneratesStep ==
    ASSUME InstancesInv, NEW j \in Jobs, Generates(j)
    PROVE  InstancesInv'
<1>1. TypeOK /\ StartedInv /\ RequestInv /\ KeptInv
  BY DEF InstancesInv
<1>2. stage[j] = "resolved"
      /\ UNCHANGED <<result, waitsOn, born, phase, awaited, instances, dead>>
  BY DEF Generates
<1>3. j <= started /\ prov[j] \in Providers /\ IsPath(path[j])
  BY <1>1, <1>2, StartedJob
<1>4. PICK i \in HomeIndex(path[j], prov[j]) :
        /\ instances[path[j][i]][prov[j]] = None
        /\ requests[path[j][i]][prov[j]] = None
        /\ Generate(j, i, "generating")
        /\ requests' = [requests EXCEPT ![path[j][i]][prov[j]] = j]
  BY DEF Generates
<1> DEFINE h == path[j][i]
<1>5. i \in Indices(path[j])
  BY <1>3, HomeIndexType
<1>6. /\ GrownBy({j}) /\ stage'[j] = "generating" /\ h \in Contexts
      /\ home' = [home EXCEPT ![j] = h]
  BY <1>2, <1>4, <1>5, GenerateGrows
<1> HIDE DEF h
<1>7. StartedInv' /\ CachedInv' /\ NothingLeaks'
  BY <1>6, GrownInv
<1>8. requests' = [requests EXCEPT ![h][prov[j]] = j]
  BY <1>4 DEF h
<1>9. TypeOK'
  <2>1. started' \in 0 .. MaxJobs
    BY <1>1, <1>6, BoundAssumption DEF GrownBy, Grown, TypeOK
  <2>2. requests' \in [Contexts -> [Providers -> Jobs \cup {None}]]
    BY <1>1, <1>8 DEF TypeOK
  <2> QED BY <1>1, <1>2, <1>6, <2>1, <2>2 DEF GrownBy, Grown, TypeOK, Phases
<1>10. home'[j] = h /\ prov'[j] = prov[j] /\ born[j] = None
  <2>1. j \notin started + 1 .. started'
    BY <1>1, <1>2, <1>6, GrownJobs
  <2> QED BY <1>1, <1>2, <1>6, <2>1 DEF GrownBy, Grown, TypeOK, StartedInv
<1>11. ASSUME NEW k \in Jobs, k # j, stage[k] = "generating" \/ born[k] # None
       PROVE  stage'[k] = stage[k] /\ home'[k] = home[k] /\ prov'[k] = prov[k]
  <2>1. stage[k] # "new"
    BY <1>1, <1>11 DEF StartedInv
  <2>2. k \notin started + 1 .. started'
    BY <1>1, <1>6, <2>1, GrownJobs
  <2> QED BY <1>6, <1>11, <2>2 DEF GrownBy, Grown
<1>12. ASSUME NEW k \in Jobs, k # j, stage'[k] = "generating"
       PROVE  stage[k] = "generating"
  BY <1>6, <1>12 DEF GrownBy, Grown
<1>13. RequestInv'
  <2> SUFFICES ASSUME NEW c \in Contexts, NEW p \in Providers,
                      requests'[c][p] # None, phase[c] # "disposed"
               PROVE  /\ stage'[requests'[c][p]] = "generating"
                      /\ home'[requests'[c][p]] = c
                      /\ prov'[requests'[c][p]] = p
    BY <1>2 DEF RequestInv
  <2>1. CASE c = h /\ p = prov[j]
    <3>1. requests'[c][p] = j
      BY <1>1, <1>3, <1>6, <1>8, <2>1 DEF TypeOK
    <3> QED BY <1>6, <1>10, <2>1, <3>1
  <2>2. CASE ~(c = h /\ p = prov[j])
    <3>1. requests'[c][p] = requests[c][p] /\ requests[c][p] \in Jobs
      BY <1>1, <1>3, <1>6, <1>8, <2>2 DEF TypeOK
    <3>2. /\ stage[requests[c][p]] = "generating"
          /\ home[requests[c][p]] = c /\ prov[requests[c][p]] = p
      BY <1>1, <3>1 DEF RequestInv
    <3>3. requests[c][p] # j
      BY <1>2, <3>2
    <3> QED BY <1>11, <3>1, <3>2, <3>3
  <2> QED BY <2>1, <2>2
<1>14. KeptInv'
  <2> SUFFICES ASSUME NEW k \in Jobs, home'[k] \in Contexts, phase[home'[k]] \in Readable
               PROVE  /\ stage'[k] = "generating" =>
                            requests'[home'[k]][prov'[k]] = k /\ instances[home'[k]][prov'[k]] = None
                      /\ born[k] # None => instances[home'[k]][prov'[k]] = k
    BY <1>2 DEF KeptInv
  <2>1. CASE k = j
    <3>1. requests'[h][prov[j]] = j /\ instances[h][prov[j]] = None
      BY <1>1, <1>3, <1>4, <1>6, <1>8 DEF TypeOK, h
    <3> QED BY <1>10, <2>1, <3>1
  <2>2. CASE k # j /\ stage'[k] = "generating"
    <3>1. stage[k] = "generating" /\ home'[k] = home[k] /\ prov'[k] = prov[k] /\ born[k] = None
      BY <1>1, <1>11, <1>12, <2>2 DEF StartedInv
    <3>2. prov[k] \in Providers
      BY <1>1, <3>1, StartedJob
    <3>3. requests[home[k]][prov[k]] = k /\ instances[home[k]][prov[k]] = None
      BY <1>1, <3>1 DEF KeptInv
    <3>4. ~(home[k] = h /\ prov[k] = prov[j])
      BY <1>4, <3>3, NoneAssumption DEF h, Contexts
    <3>5. requests'[home[k]][prov[k]] = k
      BY <1>1, <1>3, <1>6, <1>8, <3>1, <3>2, <3>3, <3>4 DEF TypeOK
    <3> QED BY <3>1, <3>3, <3>5
  <2>3. CASE k # j /\ stage'[k] # "generating"
    BY <1>1, <1>11, <2>3 DEF KeptInv
  <2> QED BY <2>1, <2>2, <2>3
<1> QED BY <1>7, <1>9, <1>13, <1>14 DEF InstancesInv

-------------------------------------------------------------------------------
(* A job that does not generate ends, or starts to wait.                     *)
LEMMA MovesOn ==
    ASSUME InstancesInv, NEW j \in Jobs, NEW st \in {"waiting", "done", "failed"},
           stage[j] \in {"resolved", "waiting"}, stage' = [stage EXCEPT ![j] = st],
           result' \in [Jobs -> Jobs \cup {None}], waitsOn' \in [Jobs -> Jobs \cup {None}],
           NoNewJobs, UNCHANGED <<home, born, phase, awaited, instances, requests, dead>>
    PROVE  InstancesInv'
<1>1. TypeOK /\ StartedInv /\ RequestInv /\ KeptInv /\ CachedInv /\ NothingLeaks
  BY DEF InstancesInv
<1>2. /\ stage \in [Jobs -> {"new", "resolved", "generating", "waiting", "done", "failed"}]
      /\ stage' \in [Jobs -> {"new", "resolved", "generating", "waiting", "done", "failed"}]
  BY <1>1 DEF TypeOK
<1>3. UNCHANGED <<started, prov, path, requester, cached>>
  BY DEF NoNewJobs
<1>4. TypeOK'
  BY <1>1, <1>2, <1>3 DEF TypeOK, Phases
<1>5. stage'[j] = st /\ \A k \in Jobs : k # j => stage'[k] = stage[k]
  BY <1>2
<1>6. \A k \in Jobs : stage[k] = "generating" <=> stage'[k] = "generating"
  BY <1>5
<1>7. StartedInv'
  <2> SUFFICES ASSUME NEW k \in Jobs
               PROVE  /\ k > started => stage'[k] = "new" /\ home[k] = None /\ born[k] = None
                      /\ k <= started => prov[k] \in Providers /\ IsPath(path[k])
                      /\ requester[k] # None => Bottom(path[k]) = k
                      /\ stage'[k] = "generating" => home[k] \in Contexts
                      /\ born[k] # None => stage'[k] \in {"done", "failed"} /\ home[k] \in Contexts
    BY <1>3, Zenon DEF StartedInv, IsPath, Bottom, Contexts, Jobs
  <2> QED BY <1>1, <1>5, <1>6 DEF StartedInv
<1>8. RequestInv'
  <2> SUFFICES ASSUME NEW c \in Contexts, NEW p \in Providers,
                      requests[c][p] # None, phase[c] # "disposed"
               PROVE  /\ stage'[requests[c][p]] = "generating"
                      /\ home[requests[c][p]] = c
                      /\ prov[requests[c][p]] = p
    BY <1>3 DEF RequestInv
  <2> QED BY <1>1, <1>6 DEF RequestInv, TypeOK
<1>9. KeptInv'
  BY <1>1, <1>3, <1>6 DEF KeptInv
<1>10. CachedInv'
  <2>1. \A k \in Jobs : stage'[k] = "resolved" => stage[k] = "resolved"
    BY <1>5
  <2> QED BY <1>1, <1>3, <2>1 DEF CachedInv, Bottom
<1>11. NothingLeaks'
  BY <1>1 DEF NothingLeaks
<1> QED BY <1>4, <1>7, <1>8, <1>9, <1>10, <1>11 DEF InstancesInv

LEMMA FetchStep ==
    ASSUME InstancesInv, NEW j \in Jobs,
           FetchFails(j) \/ FetchesInstance(j) \/ FetchesRequest(j) \/ Resumes(j)
    PROVE  InstancesInv'
<1>1. TypeOK /\ StartedInv
  BY DEF InstancesInv
<1>2. ASSUME stage[j] = "resolved", NEW i \in HomeIndex(path[j], prov[j])
      PROVE  path[j][i] \in Contexts /\ prov[j] \in Providers
  <2>1. prov[j] \in Providers /\ IsPath(path[j])
    BY <1>1, <1>2, StartedJob
  <2>2. i \in Indices(path[j])
    BY <1>2, <2>1, HomeIndexType
  <2> QED BY <2>1, <2>2 DEF IsPath, Indices
<1>3. CASE FetchFails(j)
  <2>1. result' \in [Jobs -> Jobs \cup {None}] /\ waitsOn' \in [Jobs -> Jobs \cup {None}]
    BY <1>1, <1>3 DEF FetchFails, Settle, TypeOK
  <2> QED BY <1>3, <2>1, MovesOn DEF FetchFails, Settle
<1>4. CASE FetchesInstance(j)
  <2>1. PICK i \in HomeIndex(path[j], prov[j]) :
          Settle(j, "done", instances[path[j][i]][prov[j]])
    BY <1>4 DEF FetchesInstance
  <2>2. instances[path[j][i]][prov[j]] \in Jobs \cup {None}
    BY <1>1, <1>2, <1>4 DEF TypeOK, FetchesInstance
  <2>3. result' \in [Jobs -> Jobs \cup {None}] /\ waitsOn' \in [Jobs -> Jobs \cup {None}]
    BY <1>1, <1>4, <2>1, <2>2 DEF FetchesInstance, Settle, TypeOK
  <2> QED BY <1>4, <2>1, <2>3, MovesOn DEF FetchesInstance, Settle
<1>5. CASE FetchesRequest(j)
  <2>1. PICK i \in HomeIndex(path[j], prov[j]) :
          waitsOn' = [waitsOn EXCEPT ![j] = requests[path[j][i]][prov[j]]]
    BY <1>5 DEF FetchesRequest
  <2>2. requests[path[j][i]][prov[j]] \in Jobs \cup {None}
    BY <1>1, <1>2, <1>5 DEF TypeOK, FetchesRequest
  <2>3. result' \in [Jobs -> Jobs \cup {None}] /\ waitsOn' \in [Jobs -> Jobs \cup {None}]
    BY <1>1, <1>5, <2>1, <2>2 DEF FetchesRequest, TypeOK
  <2> QED BY <1>5, <2>3, MovesOn DEF FetchesRequest
<1>6. CASE Resumes(j)
  <2>1. PICK st \in {"done", "failed"}, v \in Jobs \cup {None} : Settle(j, st, v)
    BY <1>1, <1>6 DEF Resumes, TypeOK
  <2>2. result' \in [Jobs -> Jobs \cup {None}] /\ waitsOn' \in [Jobs -> Jobs \cup {None}]
    BY <1>1, <1>6, <2>1 DEF Resumes, Settle, TypeOK
  <2> QED BY <1>6, <2>1, <2>2, MovesOn DEF Resumes, Settle
<1> QED BY <1>3, <1>4, <1>5, <1>6

(* A generation ends: its job gives up its place, and no other job has it.   *)
LEMMA NotCreatedStep ==
    ASSUME InstancesInv, NEW j \in Jobs, NotCreated(j)
    PROVE  InstancesInv'
<1>1. TypeOK /\ StartedInv /\ RequestInv /\ KeptInv /\ CachedInv /\ NothingLeaks
  BY DEF InstancesInv
<1>2. /\ stage[j] = "generating" /\ stage' = [stage EXCEPT ![j] = "failed"]
      /\ result' = [result EXCEPT ![j] = None]
      /\ requests' = IF phase[home[j]] = "disposed" THEN requests
                     ELSE [requests EXCEPT ![home[j]][prov[j]] = None]
      /\ UNCHANGED <<started, prov, path, requester, cached>>
      /\ UNCHANGED <<home, waitsOn, born, phase, awaited, instances, dead>>
  BY DEF NotCreated, Settle, NoNewJobs
<1>3. home[j] \in Contexts /\ prov[j] \in Providers
  BY <1>1, <1>2, StartedJob DEF StartedInv
<1>4. /\ stage \in [Jobs -> {"new", "resolved", "generating", "waiting", "done", "failed"}]
      /\ stage' \in [Jobs -> {"new", "resolved", "generating", "waiting", "done", "failed"}]
      /\ requests \in [Contexts -> [Providers -> Jobs \cup {None}]]
  BY <1>1, <1>2 DEF TypeOK
<1>5. requests' \in [Contexts -> [Providers -> Jobs \cup {None}]]
  BY <1>2, <1>3, <1>4
<1>6. TypeOK'
  BY <1>1, <1>2, <1>4, <1>5 DEF TypeOK, Phases
<1>7. stage'[j] = "failed" /\ \A k \in Jobs : k # j => stage'[k] = stage[k]
  BY <1>2, <1>4
<1>8. StartedInv'
  <2> SUFFICES ASSUME NEW k \in Jobs
               PROVE  /\ k > started => stage'[k] = "new" /\ home[k] = None /\ born[k] = None
                      /\ k <= started => prov[k] \in Providers /\ IsPath(path[k])
                      /\ requester[k] # None => Bottom(path[k]) = k
                      /\ stage'[k] = "generating" => home[k] \in Contexts
                      /\ born[k] # None => stage'[k] \in {"done", "failed"} /\ home[k] \in Contexts
    BY <1>2, Zenon DEF StartedInv, IsPath, Bottom, Contexts, Jobs
  <2> QED BY <1>1, <1>2, <1>7 DEF StartedInv
<1>9. \A c \in Contexts, p \in Providers :
         phase[c] # "disposed" =>
            requests'[c][p] = IF c = home[j] /\ p = prov[j] THEN None ELSE requests[c][p]
  BY <1>2, <1>3, <1>4
<1>10. RequestInv'
  <2> SUFFICES ASSUME NEW c \in Contexts, NEW p \in Providers,
                      requests'[c][p] # None, phase[c] # "disposed"
               PROVE  /\ stage'[requests'[c][p]] = "generating"
                      /\ home[requests'[c][p]] = c
                      /\ prov[requests'[c][p]] = p
    BY <1>2 DEF RequestInv
  <2>1. ~(c = home[j] /\ p = prov[j]) /\ requests'[c][p] = requests[c][p]
    BY <1>9
  <2>2. /\ requests[c][p] \in Jobs /\ stage[requests[c][p]] = "generating"
        /\ home[requests[c][p]] = c /\ prov[requests[c][p]] = p
    BY <1>1, <1>4, <2>1 DEF RequestInv
  <2> QED BY <1>7, <2>1, <2>2
<1>11. KeptInv'
  <2> SUFFICES ASSUME NEW k \in Jobs, home[k] \in Contexts, phase[home[k]] \in Readable
               PROVE  /\ stage'[k] = "generating" =>
                            requests'[home[k]][prov[k]] = k /\ instances[home[k]][prov[k]] = None
                      /\ born[k] # None => instances[home[k]][prov[k]] = k
    BY <1>2 DEF KeptInv
  <2>1. ASSUME stage'[k] = "generating"
        PROVE  requests'[home[k]][prov[k]] = k /\ instances[home[k]][prov[k]] = None
    <3>1. k # j /\ stage[k] = "generating"
      BY <1>7, <2>1
    <3>2. requests[home[k]][prov[k]] = k /\ instances[home[k]][prov[k]] = None
      BY <1>1, <3>1 DEF KeptInv
    <3>3. phase[home[k]] # "disposed" /\ prov[k] \in Providers
      BY <1>1, <3>1, StartedJob DEF Readable
    <3>4. ~(home[k] = home[j] /\ prov[k] = prov[j])
      BY <1>1, <1>2, <3>1, <3>2 DEF KeptInv
    <3> QED BY <1>9, <3>2, <3>3, <3>4
  <2> QED BY <1>1, <2>1 DEF KeptInv
<1>12. CachedInv'
  <2>1. \A k \in Jobs : stage'[k] = "resolved" => stage[k] = "resolved"
    BY <1>7
  <2> QED BY <1>1, <1>2, <2>1 DEF CachedInv, Bottom
<1>13. NothingLeaks'
  BY <1>1, <1>2 DEF NothingLeaks
<1> QED BY <1>6, <1>8, <1>10, <1>11, <1>12, <1>13 DEF InstancesInv

LEMMA CreatedStep ==
    ASSUME InstancesInv, NEW j \in Jobs, Created(j)
    PROVE  InstancesInv'
<1>1. TypeOK /\ StartedInv /\ RequestInv /\ KeptInv /\ CachedInv /\ NothingLeaks
  BY DEF InstancesInv
<1>2. /\ stage[j] = "generating"
      /\ born' = [born EXCEPT ![j] = phase[home[j]]]
      /\ UNCHANGED <<started, prov, path, requester, cached>>
      /\ UNCHANGED <<home, waitsOn, phase, awaited, dead>>
  BY DEF Created, NoNewJobs
<1>3. home[j] \in Contexts /\ prov[j] \in Providers
  BY <1>1, <1>2, StartedJob DEF StartedInv
<1>4. PICK st \in {"done", "failed"}, v \in Jobs \cup {None} : Settle(j, st, v)
  BY NoneAssumption DEF Created
<1>5. /\ stage \in [Jobs -> {"new", "resolved", "generating", "waiting", "done", "failed"}]
      /\ requests \in [Contexts -> [Providers -> Jobs \cup {None}]]
      /\ instances \in [Contexts -> [Providers -> Jobs \cup {None}]]
      /\ phase \in [Contexts -> Phases] /\ born \in [Jobs -> Phases \cup {None}]
      /\ result \in [Jobs -> Jobs \cup {None}]
  BY <1>1 DEF TypeOK
<1>6. /\ stage' \in [Jobs -> {"new", "resolved", "generating", "waiting", "done", "failed"}]
      /\ result' \in [Jobs -> Jobs \cup {None}]
      /\ stage'[j] = st /\ \A k \in Jobs : k # j => stage'[k] = stage[k]
  BY <1>4, <1>5 DEF Settle
<1>7. /\ born' \in [Jobs -> Phases \cup {None}]
      /\ born'[j] = phase[home[j]] /\ \A k \in Jobs : k # j => born'[k] = born[k]
  BY <1>2, <1>3, <1>5
<1>8. /\ requests' \in [Contexts -> [Providers -> Jobs \cup {None}]]
      /\ instances' \in [Contexts -> [Providers -> Jobs \cup {None}]]
      /\ \A c \in Contexts, p \in Providers : phase[c] # "disposed" =>
            /\ requests'[c][p] = IF c = home[j] /\ p = prov[j] THEN None ELSE requests[c][p]
            /\ instances'[c][p] = IF c = home[j] /\ p = prov[j] THEN j ELSE instances[c][p]
  <2>1. CASE phase[home[j]] = "disposed"
    <3>1. requests' = requests /\ instances' = instances
      BY <2>1 DEF Created
    <3> QED BY <1>5, <2>1, <3>1
  <2>2. CASE phase[home[j]] # "disposed"
    <3>1. /\ instances' = [instances EXCEPT ![home[j]][prov[j]] = j]
          /\ requests' = [requests EXCEPT ![home[j]][prov[j]] = None]
      BY <2>2 DEF Created
    <3> QED BY <1>3, <1>5, <3>1
  <2> QED BY <2>1, <2>2
<1>9. TypeOK'
  BY <1>1, <1>2, <1>6, <1>7, <1>8 DEF TypeOK, Phases
<1>10. StartedInv'
  <2> SUFFICES ASSUME NEW k \in Jobs
               PROVE  /\ k > started => stage'[k] = "new" /\ home[k] = None /\ born'[k] = None
                      /\ k <= started => prov[k] \in Providers /\ IsPath(path[k])
                      /\ requester[k] # None => Bottom(path[k]) = k
                      /\ stage'[k] = "generating" => home[k] \in Contexts
                      /\ born'[k] # None => stage'[k] \in {"done", "failed"} /\ home[k] \in Contexts
    BY <1>2, Zenon DEF StartedInv, IsPath, Bottom, Contexts, Jobs
  <2>1. CASE k = j
    BY <1>1, <1>2, <1>3, <1>4, <1>6, <2>1 DEF StartedInv
  <2>2. CASE k # j
    BY <1>1, <1>6, <1>7, <2>2 DEF StartedInv
  <2> QED BY <2>1, <2>2
<1>11. RequestInv'
  <2> SUFFICES ASSUME NEW c \in Contexts, NEW p \in Providers,
                      requests'[c][p] # None, phase[c] # "disposed"
               PROVE  /\ stage'[requests'[c][p]] = "generating"
                      /\ home[requests'[c][p]] = c
                      /\ prov[requests'[c][p]] = p
    BY <1>2 DEF RequestInv
  <2>1. ~(c = home[j] /\ p = prov[j]) /\ requests'[c][p] = requests[c][p]
    BY <1>8
  <2>2. /\ requests[c][p] \in Jobs /\ stage[requests[c][p]] = "generating"
        /\ home[requests[c][p]] = c /\ prov[requests[c][p]] = p
    BY <1>1, <1>5, <2>1 DEF RequestInv
  <2> QED BY <1>6, <2>1, <2>2
<1>12. KeptInv'
  <2> SUFFICES ASSUME NEW k \in Jobs, home[k] \in Contexts, phase[home[k]] \in Readable
               PROVE  /\ stage'[k] = "generating" =>
                            requests'[home[k]][prov[k]] = k /\ instances'[home[k]][prov[k]] = None
                      /\ born'[k] # None => instances'[home[k]][prov[k]] = k
    BY <1>2 DEF KeptInv
  <2>1. phase[home[k]] # "disposed"
    BY DEF Readable
  <2>2. CASE k = j
    BY <1>3, <1>4, <1>6, <1>8, <2>1, <2>2
  <2>3. CASE k # j /\ (stage[k] = "generating" \/ born[k] # None)
    <3>1. prov[k] \in Providers
      BY <1>1, <2>3, StartedJob DEF StartedInv
    <3>2. ~(home[k] = home[j] /\ prov[k] = prov[j])
      BY <1>1, <1>2, <2>3, NoneAssumption DEF KeptInv, Contexts
    <3> QED BY <1>1, <1>6, <1>7, <1>8, <2>1, <2>3, <3>1, <3>2 DEF KeptInv
  <2>4. CASE k # j /\ stage[k] # "generating" /\ born[k] = None
    BY <1>6, <1>7, <2>4
  <2> QED BY <2>2, <2>3, <2>4
<1>13. CachedInv'
  <2>1. \A k \in Jobs : stage'[k] = "resolved" => stage[k] = "resolved"
    BY <1>4, <1>6
  <2> QED BY <1>1, <1>2, <2>1 DEF CachedInv, Bottom
<1>14. NothingLeaks'
  <2> SUFFICES ASSUME NEW k \in Jobs, born'[k] \in Readable,
                      phase[home[k]] \in {"clearing", "broken", "disposed"}
               PROVE  k \in dead
    BY <1>2 DEF NothingLeaks
  <2>1. k # j
    BY <1>7 DEF Readable
  <2> QED BY <1>1, <1>7, <2>1 DEF NothingLeaks
<1> QED BY <1>9, <1>10, <1>11, <1>12, <1>13, <1>14 DEF InstancesInv

-------------------------------------------------------------------------------
(* Disposal: no home becomes readable again, and one that ceases to be has   *)
(* told what it kept to dispose itself.                                      *)
LEMMA DisposalInv ==
    ASSUME InstancesInv, UNCHANGED <<jobVars, requests>>,
           phase' \in [Contexts -> Phases],
           awaited' \in [Contexts -> SUBSET Contexts],
           cached' \in [Contexts -> SUBSET Providers],
           instances' \in [Contexts -> [Providers -> Jobs \cup {None}]],
           dead \subseteq dead', dead' \subseteq Jobs,
           \A c \in Contexts :
               /\ phase'[c] # "disposed" => phase[c] # "disposed"
               /\ phase'[c] \in Readable =>
                     phase[c] \in Readable /\ cached'[c] = cached[c] /\ instances'[c] = instances[c]
               /\ phase[c] \in Readable /\ phase'[c] \notin Readable => Kept(c) \subseteq dead'
    PROVE  InstancesInv'
<1>1. TypeOK /\ StartedInv /\ RequestInv /\ KeptInv /\ CachedInv /\ NothingLeaks
  BY DEF InstancesInv
<1>2. /\ started' = started /\ prov' = prov /\ path' = path /\ requester' = requester
      /\ stage' = stage /\ result' = result /\ home' = home /\ waitsOn' = waitsOn
      /\ born' = born /\ requests' = requests
  BY DEF jobVars
<1>3. TypeOK'
  BY <1>1, <1>2 DEF TypeOK
<1>4. StartedInv'
  BY <1>1, <1>2, Zenon DEF StartedInv, IsPath, Bottom, Contexts, Jobs
<1>5. RequestInv'
  BY <1>1, <1>2 DEF RequestInv
<1>6. KeptInv'
  BY <1>1, <1>2 DEF KeptInv
<1>7. CachedInv'
  <2> SUFFICES ASSUME NEW k \in Jobs, stage[k] = "resolved", phase'[Bottom(path[k])] \in Readable
               PROVE  prov[k] \in cached'[Bottom(path[k])]
    BY <1>2 DEF CachedInv, Bottom
  <2>1. Bottom(path[k]) \in Contexts
    BY <1>1, StartedJob DEF IsPath, Bottom
  <2> QED BY <1>1, <2>1 DEF CachedInv
<1>8. NothingLeaks'
  <2> SUFFICES ASSUME NEW k \in Jobs, born[k] \in Readable,
                      phase'[home[k]] \in {"clearing", "broken", "disposed"}
               PROVE  k \in dead'
    BY <1>2 DEF NothingLeaks
  <2>1. born[k] # None
    BY NoneAssumption DEF Readable, Phases
  <2>2. home[k] \in Contexts /\ stage[k] # "new"
    BY <1>1, <2>1 DEF StartedInv
  <2>3. prov[k] \in Providers
    BY <1>1, <2>2, StartedJob
  <2>4. CASE phase[home[k]] \in Readable
    <3>1. instances[home[k]][prov[k]] = k
      BY <1>1, <2>1, <2>2, <2>4 DEF KeptInv
    <3>2. k \in Kept(home[k])
      BY <2>3, <3>1, NoneAssumption DEF Kept, Contexts
    <3>3. phase'[home[k]] \notin Readable
      BY DEF Readable
    <3> QED BY <2>2, <2>4, <3>2, <3>3
  <2>5. CASE phase[home[k]] \notin Readable
    <3>1. phase[home[k]] \in {"clearing", "broken", "disposed"}
      BY <1>1, <2>2, <2>5 DEF TypeOK, Phases, Readable
    <3> QED BY <1>1, <3>1 DEF NothingLeaks
  <2> QED BY <2>4, <2>5
<1> QED BY <1>3, <1>4, <1>5, <1>6, <1>7, <1>8 DEF InstancesInv

LEMMA BeginDisposeStep ==
    ASSUME InstancesInv, NEW c, BeginDispose(c)
    PROVE  InstancesInv'
<1>1. TypeOK
  BY DEF InstancesInv
<1>2. Reached(c) \subseteq Contexts /\ \A d \in Reached(c) : phase[d] = "live"
  <2>1. ExistingContexts \subseteq Contexts
    BY <1>1, BoundAssumption DEF ExistingContexts, Contexts, Jobs, TypeOK
  <2>2. ASSUME NEW d \in Reached(c) PROVE phase[d] = "live"
    <3>1. PICK i \in Indices(PathOf(d)) : \A k \in i .. Len(PathOf(d)) : phase[PathOf(d)[k]] = "live"
      BY DEF Reached
    <3>2. d \in ExistingContexts
      BY DEF Reached
    <3>3. Len(PathOf(d)) \in Nat /\ PathOf(d)[Len(PathOf(d))] = d
      <4>1. CASE d \in Named
        BY <4>1, PathAssumption DEF PathOf
      <4>2. CASE d \notin Named
        <5>1. d \in Jobs /\ d <= started /\ requester[d] # None
          BY <1>1, <3>2, <4>2, BoundAssumption DEF ExistingContexts, Jobs, TypeOK
        <5>2. IsPath(path[d]) /\ Bottom(path[d]) = d
          BY <5>1 DEF InstancesInv, StartedInv
        <5> QED BY <4>2, <5>2 DEF IsPath, Bottom, PathOf
      <4> QED BY <4>1, <4>2
    <3> QED BY <3>1, <3>3 DEF Indices
  <2> QED BY <2>1, <2>2 DEF Reached
<1>3. /\ phase' = [d \in Contexts |-> IF d \in Reached(c) THEN "disposing" ELSE phase[d]]
      /\ awaited' = [d \in Contexts |->
                        IF d \in Reached(c) THEN {e \in Reached(c) : IsChild(e, d)} ELSE awaited[d]]
      /\ UNCHANGED <<jobVars, cached, instances, requests, dead>>
  BY DEF BeginDispose
<1>4. phase' \in [Contexts -> Phases]
  BY <1>1, <1>3 DEF TypeOK, Phases
<1>5. awaited' \in [Contexts -> SUBSET Contexts]
  BY <1>1, <1>2, <1>3 DEF TypeOK
<1>6. ASSUME NEW d \in Contexts
      PROVE  phase'[d] = phase[d] \/ (phase[d] = "live" /\ phase'[d] = "disposing")
  BY <1>2, <1>3
<1>7. \A d \in Contexts :
        /\ phase'[d] # "disposed" => phase[d] # "disposed"
        /\ phase'[d] \in Readable => phase[d] \in Readable
        /\ phase[d] \in Readable => phase'[d] \in Readable
  BY <1>6 DEF Readable
<1> QED BY <1>1, <1>3, <1>4, <1>5, <1>7, DisposalInv DEF TypeOK

LEMMA DisposalStep ==
    ASSUME InstancesInv, NEW c \in Contexts, Disposal(c)
    PROVE  InstancesInv'
<1>1. /\ phase \in [Contexts -> Phases] /\ awaited \in [Contexts -> SUBSET Contexts]
      /\ cached \in [Contexts -> SUBSET Providers] /\ dead \subseteq Jobs
      /\ instances \in [Contexts -> [Providers -> Jobs \cup {None}]]
  BY DEF InstancesInv, TypeOK
<1>2. NoneYet \in [Providers -> Jobs \cup {None}]
  BY DEF NoneYet
<1>3. CASE Clear(c)
  <2>1. /\ phase[c] = "disposing"
        /\ phase' = [phase EXCEPT ![c] = IF Kept(c) = {} THEN "disposed" ELSE "clearing"]
        /\ cached' = [cached EXCEPT ![c] = {}]
        /\ dead' = dead \cup Kept(c)
        /\ UNCHANGED <<jobVars, awaited, instances, requests>>
    BY <1>3 DEF Clear
  <2>2. Kept(c) \subseteq Jobs
    BY <1>1 DEF Kept
  <2>3. phase' \in [Contexts -> Phases] /\ cached' \in [Contexts -> SUBSET Providers] /\ dead' \subseteq Jobs
    BY <1>1, <2>1, <2>2 DEF Phases
  <2>4. phase'[c] \notin Readable /\ \A d \in Contexts : d # c => phase'[d] = phase[d] /\ cached'[d] = cached[d]
    BY <1>1, <2>1 DEF Readable
  <2>5. \A d \in Contexts :
          /\ phase'[d] # "disposed" => phase[d] # "disposed"
          /\ phase'[d] \in Readable => phase[d] \in Readable /\ cached'[d] = cached[d]
          /\ phase[d] \in Readable /\ phase'[d] \notin Readable => Kept(d) \subseteq dead'
    BY <2>1, <2>4
  <2> QED BY <1>1, <2>1, <2>3, <2>5, DisposalInv
<1>4. CASE EndDispose(c)
  <2>1. /\ phase[c] = "clearing" /\ phase' = [phase EXCEPT ![c] = "disposed"]
        /\ instances' = [instances EXCEPT ![c] = NoneYet]
        /\ UNCHANGED <<jobVars, awaited, cached, requests, dead>>
    BY <1>4 DEF EndDispose
  <2>2. phase' \in [Contexts -> Phases] /\ instances' \in [Contexts -> [Providers -> Jobs \cup {None}]]
    BY <1>1, <1>2, <2>1 DEF Phases
  <2>3. phase'[c] = "disposed" /\ \A d \in Contexts : d # c => phase'[d] = phase[d] /\ instances'[d] = instances[d]
    BY <1>1, <2>1
  <2>4. \A d \in Contexts :
          /\ phase'[d] # "disposed" => phase[d] # "disposed"
          /\ phase'[d] \in Readable => phase[d] \in Readable /\ instances'[d] = instances[d]
          /\ phase[d] \in Readable => phase'[d] \in Readable
    BY <2>1, <2>3 DEF Readable
  <2> QED BY <1>1, <2>1, <2>2, <2>4, DisposalInv
<1>5. CASE DisposeFails(c) \/ DisposeFailsAbove(c)
  <2>1. PICK ph \in {"broken", "stuck"} :
          /\ phase' = [phase EXCEPT ![c] = ph]
          /\ phase[c] # "disposed" /\ (phase[c] \in Readable <=> ph \in Readable)
          /\ UNCHANGED <<jobVars, awaited, cached, instances, requests, dead>>
    BY <1>5 DEF DisposeFails, DisposeFailsAbove, Readable
  <2>2. phase' \in [Contexts -> Phases]
    BY <1>1, <2>1 DEF Phases
  <2>3. phase'[c] = ph /\ \A d \in Contexts : d # c => phase'[d] = phase[d]
    BY <1>1, <2>1
  <2>4. \A d \in Contexts :
          /\ phase'[d] # "disposed" => phase[d] # "disposed"
          /\ phase'[d] \in Readable => phase[d] \in Readable
          /\ phase[d] \in Readable => phase'[d] \in Readable
    BY <2>1, <2>3
  <2> QED BY <1>1, <2>1, <2>2, <2>4, DisposalInv
<1> QED BY <1>3, <1>4, <1>5 DEF Disposal

-------------------------------------------------------------------------------
LEMMA InitInstances == Init => InstancesInv
<1> SUFFICES ASSUME Init PROVE InstancesInv
  OBVIOUS
<1>1. /\ started = 0 /\ MaxJobs \in Nat
      /\ \A j \in Jobs : j > 0 /\ ~(j <= 0)
  BY BoundAssumption DEF Init, Jobs
<1>2. NoneYet \in [Providers -> Jobs \cup {None}] /\ <<>> \in Seq(Contexts)
  BY DEF NoneYet
<1>3. TypeOK
  BY <1>1, <1>2 DEF Init, TypeOK, Phases
<1>4. StartedInv
  BY <1>1 DEF Init, StartedInv
<1>5. RequestInv
  BY DEF Init, RequestInv, NoneYet
<1>6. KeptInv
  BY NoneAssumption DEF Init, KeptInv
<1>7. CachedInv
  BY DEF Init, CachedInv
<1>8. NothingLeaks
  BY NoneAssumption DEF Init, NothingLeaks, Readable, Phases
<1> QED BY <1>3, <1>4, <1>5, <1>6, <1>7, <1>8 DEF InstancesInv

LEMMA NextInstances == InstancesInv /\ [Next]_vars => InstancesInv'
<1> SUFFICES ASSUME InstancesInv, [Next]_vars PROVE InstancesInv'
  OBVIOUS
<1>1. ASSUME NEW c \in Named \ {Root}, NEW p \in Requested, Request(c, p)
      PROVE  InstancesInv'
  BY <1>1, RequestStep
<1>2. ASSUME NEW j \in Jobs, Job(j)
      PROVE  InstancesInv'
  BY <1>2, FetchStep, GeneratesStep, GeneratesForNobodyStep, CreatedStep, NotCreatedStep DEF Job
<1>3. ASSUME NEW c \in Disposers, BeginDispose(c)
      PROVE  InstancesInv'
  BY <1>3, BeginDisposeStep
<1>4. ASSUME NEW c \in Contexts, Disposal(c)
      PROVE  InstancesInv'
  BY <1>4, DisposalStep
<1>5. CASE UNCHANGED vars
  BY <1>5, DisposalInv DEF vars, InstancesInv, TypeOK
<1> QED BY <1>1, <1>2, <1>3, <1>4, <1>5 DEF Next

(* The invariant holds in every reachable state.                             *)
THEOREM InstancesInvariant == Spec => []InstancesInv
<1> QED BY InitInstances, NextInstances, PTL DEF Spec

(* The types of InjectorInstances, for any injectors and providers.          *)
THEOREM TypeCorrect == Spec => []TypeOK
<1>1. InstancesInv => TypeOK
  BY DEF InstancesInv
<1> QED BY <1>1, InstancesInvariant, PTL

(* However many jobs ask for an instance at once, a home in use has one.     *)
(* The pending request leads to the job that generates, and the instance to  *)
(* the one that created it, so there cannot be two (KeptInv).                *)
THEOREM OneInstanceAlways == Spec => []OneInstance
<1>1. InstancesInv => OneInstance
  <2> SUFFICES ASSUME InstancesInv, NEW j \in Jobs, NEW k \in Jobs,
                      home[j] = home[k], home[j] # None, phase[home[j]] = "live", prov[j] = prov[k],
                      \A i \in {j, k} : stage[i] = "generating" \/ born[i] # None
               PROVE  j = k
    BY DEF OneInstance
  <2>1. home[j] \in Contexts /\ phase[home[j]] \in Readable
    BY DEF InstancesInv, TypeOK, Readable
  <2> QED BY <2>1, NoneAssumption DEF InstancesInv, KeptInv, Contexts
<1> QED BY <1>1, InstancesInvariant, PTL

(* A pending request is that of a job that generates: a failure, whether of  *)
(* the constructor or of a dependency, leaves none behind.                   *)
THEOREM RequestsRunAlways == Spec => []RequestsRun
<1>1. InstancesInv => RequestsRun
  BY DEF InstancesInv, RequestInv, RequestsRun
<1> QED BY <1>1, InstancesInvariant, PTL

(* What a home kept is disposed with it, unless it was kept too late.        *)
THEOREM NothingLeaksAlways == Spec => []NothingLeaks
<1>1. InstancesInv => NothingLeaks
  BY DEF InstancesInv
<1> QED BY <1>1, InstancesInvariant, PTL

(* Only two steps end a job that has just found its provider with success.   *)
LEMMA EndsAtOnce ==
    ASSUME InstancesInv, Next, NEW j \in Jobs, stage[j] = "resolved", stage'[j] = "done"
    PROVE  FetchesInstance(j) \/ GeneratesForNobody(j)
<1>1. TypeOK /\ StartedInv
  BY DEF InstancesInv
<1>2. stage \in [Jobs -> {"new", "resolved", "generating", "waiting", "done", "failed"}]
  BY <1>1 DEF TypeOK
<1>3. ASSUME NEW k \in Jobs, NEW st, stage' = [stage EXCEPT ![k] = st] PROVE k = j /\ st = "done"
  BY <1>2, <1>3
<1>4. ASSUME NEW ps, NEW pathTo, NEW k, StartedStage(ps, pathTo, k) = "done" PROVE FALSE
  BY <1>4 DEF StartedStage
<1>5. ASSUME NEW c, NEW p, Request(c, p) PROVE FALSE
  BY <1>2, <1>4, <1>5 DEF Request
<1>6. ASSUME NEW k \in Jobs, Generates(k) PROVE FALSE
  <2>1. PICK i \in HomeIndex(path[k], prov[k]) : Generate(k, i, "generating")
    BY <1>6 DEF Generates
  <2> QED BY <1>2, <1>4, <2>1 DEF Generate
<1>7. ASSUME NEW k \in Jobs, GeneratesForNobody(k) PROVE k = j
  <2>1. PICK i \in Indices(path[k]) : Generate(k, i, "done")
    BY <1>7 DEF GeneratesForNobody
  <2> QED BY <1>2, <1>4, <2>1 DEF Generate
<1>8. ASSUME NEW k \in Jobs, FetchFails(k) \/ FetchesInstance(k) \/ FetchesRequest(k)
      PROVE  k = j /\ FetchesInstance(k)
  BY <1>3, <1>8 DEF FetchFails, FetchesInstance, FetchesRequest, Settle
<1>9. ASSUME NEW k \in Jobs, Created(k) \/ NotCreated(k) \/ Resumes(k) PROVE FALSE
  BY <1>3, <1>9 DEF Created, NotCreated, Resumes, Settle
<1>10. ASSUME NEW c, BeginDispose(c) \/ Disposal(c) PROVE FALSE
  BY <1>10 DEF BeginDispose, Disposal, Clear, EndDispose, DisposeFails, DisposeFailsAbove, jobVars
<1> QED BY <1>5, <1>6, <1>7, <1>8, <1>9, <1>10 DEF Next, Job

(* inject() of a required token does not resolve to undefined while the      *)
(* context that was asked can be read: what the search found is in its cache *)
(* by then, whatever has been disposed above it (CachedInv).                 *)
THEOREM NotUndefinedAlways == Spec => NotUndefined
<1>1. InstancesInv /\ [Next]_vars =>
        [\A j \in Jobs :
            stage[j] = "resolved" /\ phase[path[j][Len(path[j])]] \in Readable
            => ~(stage'[j] = "done" /\ result'[j] = None)]_vars
  <2> SUFFICES ASSUME InstancesInv, Next, NEW j \in Jobs,
                      stage[j] = "resolved", phase[Bottom(path[j])] \in Readable,
                      stage'[j] = "done", result'[j] = None
               PROVE  FALSE
    BY DEF Bottom
  <2>1. TypeOK /\ StartedInv /\ CachedInv
    BY DEF InstancesInv
  <2>2. IsPath(path[j]) /\ prov[j] \in Providers
    BY <2>1, StartedJob
  <2>3. CASE FetchesInstance(j)
    <3>1. PICK i \in HomeIndex(path[j], prov[j]) :
            /\ instances[path[j][i]][prov[j]] # None
            /\ Settle(j, "done", instances[path[j][i]][prov[j]])
      BY <2>3 DEF FetchesInstance
    <3> QED BY <2>1, <3>1 DEF Settle, TypeOK
  <2>4. CASE GeneratesForNobody(j)
    <3>1. prov[j] \in cached[Bottom(path[j])]
      BY <2>1 DEF CachedInv
    <3>2. Len(path[j]) \in Stops(path[j], prov[j])
      BY <2>2, <3>1 DEF Stops, Indices, IsPath, Bottom
    <3> QED BY <2>4, <3>2 DEF GeneratesForNobody, FindsNothing
  <2> QED BY <2>3, <2>4, EndsAtOnce
<1> QED BY <1>1, InstancesInvariant, PTL DEF Spec, NotUndefined

-------------------------------------------------------------------------------
(* The order of disposal.  A context has been cleared when its registry has  *)
(* been given up.                                                            *)
Cleared == {"clearing", "broken", "disposed"}

OnPath(c, cs) == \E i \in Indices(cs) : cs[i] = c

(* The path to a context on a path is what leads there.                      *)
Leads(cs, i) ==
    \/ cs[i] \in Named /\ NamedPath[cs[i]] = SubSeq(cs, 1, i)
    \/ /\ cs[i] \in Jobs /\ cs[i] <= started /\ requester[cs[i]] # None
       /\ path[cs[i]] = SubSeq(cs, 1, i)

PathsInv == \A k \in Jobs : k <= started => \A i \in Indices(path[k]) : Leads(path[k], i)

(* A home is chosen on the path, by who generates.                           *)
HomeInv ==
    \A k \in Jobs :
        /\ stage[k] \in {"new", "resolved"} => home[k] = None
        /\ home[k] # None => OnPath(home[k], path[k])

(* A dependency is asked for in a child of the home of its user.             *)
DepsInv ==
    \A k \in Jobs : requester[k] # None =>
        /\ home[requester[k]] \in Contexts
        /\ home[requester[k]] # Root => path[k] = Append(PathOf(home[requester[k]]), k)

(* What a job resolves to has its home on the path of the job.               *)
ResultInv ==
    \A k \in Jobs :
        /\ stage[k] # "done" => result[k] = None
        /\ result[k] # None => OnPath(home[result[k]], path[k])
        /\ stage[k] = "waiting" => waitsOn[k] \in Jobs /\ OnPath(home[waitsOn[k]], path[k])

InstanceHomes ==
    \A c \in Contexts, p \in Providers :
        instances[c][p] # None => home[instances[c][p]] = c

(* A context is cleared when those it awaits have been disposed; what has    *)
(* been told to dispose itself was kept in a home that has been cleared.     *)
AwaitedInv ==
    \A c \in Contexts : phase[c] \in Cleared => \A d \in awaited[c] : phase[d] = "disposed"

DeadInv == \A d \in dead : home[d] \in Contexts /\ phase[home[d]] \in Cleared

(* The context of a job is disposed from above only.                         *)
MarkedInv ==
    \A k \in Jobs : phase[k] # "live" =>
        /\ k <= started /\ requester[k] # None
        /\ Len(path[k]) > 1 /\ phase[path[k][Len(path[k]) - 1]] # "live"

LineageInv == PathsInv /\ HomeInv /\ DepsInv /\ ResultInv
ClearedInv == InstanceHomes /\ AwaitedInv /\ DeadInv /\ MarkedInv

LEMMA PathOfElement ==
    ASSUME TypeOK, StartedInv, PathsInv, NEW k \in Jobs, k <= started, NEW i \in Indices(path[k])
    PROVE  /\ PathOf(path[k][i]) = SubSeq(path[k], 1, i)
           /\ path[k][i] \in Named \/ (path[k][i] \in Jobs /\ path[k][i] <= started)
           /\ path[k][i] \in ExistingContexts
<1>1. Leads(path[k], i) BY DEF PathsInv
<1>2. started \in Nat BY BoundAssumption DEF TypeOK
<1> QED BY <1>1, <1>2, TreeAssumption DEF Leads, PathOf, ExistingContexts, Jobs

(* The same for the path of any context that exists.                         *)
LEMMA PathOfContext ==
    ASSUME TypeOK, StartedInv, PathsInv, NEW c \in ExistingContexts
    PROVE  /\ PathOf(c) \in Seq(Contexts) /\ Len(PathOf(c)) \in Nat \ {0}
           /\ PathOf(c)[Len(PathOf(c))] = c
           /\ \A i \in Indices(PathOf(c)) : PathOf(PathOf(c)[i]) = SubSeq(PathOf(c), 1, i)
<1>1. CASE c \in Named
  <2>1. PathOf(c) = NamedPath[c] BY <1>1 DEF PathOf
  <2>2. /\ NamedPath[c] \in Seq(Named) /\ NamedPath[c] # <<>>
        /\ NamedPath[c][Len(NamedPath[c])] = c
    BY <1>1, PathAssumption
  <2>3. NamedPath[c] \in Seq(Contexts) BY <2>2 DEF Contexts
  <2>4. ASSUME NEW i \in Indices(NamedPath[c])
        PROVE  PathOf(NamedPath[c][i]) = SubSeq(NamedPath[c], 1, i)
    <3>1. NamedPath[c][i] \in Named BY <2>2 DEF Indices
    <3> QED BY <1>1, <3>1, TreeAssumption DEF PathOf, Indices
  <2> QED BY <2>1, <2>2, <2>3, <2>4
<1>2. CASE c \notin Named
  <2>1. c \in Jobs /\ c <= started /\ requester[c] # None
    BY <1>2, BoundAssumption DEF ExistingContexts, TypeOK, Jobs
  <2>2. PathOf(c) = path[c] /\ IsPath(path[c]) /\ Bottom(path[c]) = c
    BY <1>2, <2>1 DEF PathOf, StartedInv
  <2> QED BY <2>1, <2>2, PathOfElement DEF IsPath, Bottom
<1> QED BY <1>1, <1>2

LEMMA StartFacts ==
    ASSUME TypeOK, NEW ps \in Seq(Providers), NEW r, NEW pathTo, Start(ps, r, pathTo)
    PROVE  /\ started' \in started .. MaxJobs /\ started \in Nat /\ MaxJobs \in Nat
           /\ NewJobs(ps) = started + 1 .. started' /\ NewJobs(ps) \subseteq Jobs
           /\ \A k \in Jobs :
                 /\ path'[k] = IF k \in NewJobs(ps) THEN pathTo[k] ELSE path[k]
                 /\ requester'[k] = IF k \in NewJobs(ps) THEN r ELSE requester[k]
<1>1. /\ Len(ps) \in Nat /\ started \in 0 .. MaxJobs /\ MaxJobs \in Nat
      /\ started' = started + Len(ps) /\ started' <= MaxJobs
  BY BoundAssumption DEF Start, TypeOK
<1>2. NewJobs(ps) = started + 1 .. started'
  <2>1. \A k \in started + 1 .. started' : k - started \in 1 .. Len(ps) /\ k = JobAt(k - started)
    BY <1>1 DEF JobAt
  <2>2. \A n \in 1 .. Len(ps) : JobAt(n) \in started + 1 .. started'
    BY <1>1 DEF JobAt
  <2> QED BY <2>1, <2>2 DEF NewJobs
<1>3. NewJobs(ps) \subseteq Jobs
  BY <1>1, <1>2 DEF Jobs
<1> QED BY <1>1, <1>2, <1>3 DEF Start

(* When jobs start, they are led where they ask; nobody else moves.          *)
LEMMA GrownLineage ==
    ASSUME InstancesInv, LineageInv, InstancesInv', NEW J, GrownBy(J), NEW r \in Jobs \cup {None},
           \A k \in started + 1 .. started' :
               /\ requester'[k] = r
               /\ \A i \in Indices(path'[k]) :
                     \/ Leads(path'[k], i)
                     \/ r # None /\ i = Len(path'[k]) /\ path'[k][i] = k
               /\ r # None =>
                     /\ home'[r] \in Contexts
                     /\ \A c : c = home'[r] /\ c # Root => path'[k] = Append(PathOf(c)', k),
           \A k \in J : OnPath(home'[k], path[k])
    PROVE  LineageInv'
<1>1. /\ TypeOK /\ StartedInv /\ TypeOK' /\ StartedInv'
      /\ PathsInv /\ HomeInv /\ DepsInv /\ ResultInv
  BY DEF InstancesInv, LineageInv
<1>2. /\ started \in Nat /\ MaxJobs \in Nat /\ started' \in started .. MaxJobs
      /\ started + 1 .. started' \subseteq Jobs
  BY <1>1, BoundAssumption DEF TypeOK, GrownBy, Grown, Jobs
<1>3. ASSUME NEW k \in Jobs, k \notin started + 1 .. started'
      PROVE  /\ path'[k] = path[k] /\ requester'[k] = requester[k]
             /\ k <= started' => k <= started
             /\ k \notin J => stage'[k] = stage[k] /\ home'[k] = home[k]
  BY <1>2, <1>3 DEF GrownBy, Grown, Jobs
<1>4. ASSUME NEW k \in Jobs, k \in J \/ k <= started
      PROVE  k \notin started + 1 .. started' /\ k <= started
  BY <1>1, <1>4, GrownJobs, <1>2 DEF Jobs
<1>5. ASSUME NEW k \in Jobs, home[k] # None
      PROVE  home'[k] = home[k] /\ path'[k] = path[k] /\ k <= started /\ k \notin J
  <2>1. stage[k] # "new" /\ stage[k] # "resolved"
    BY <1>1, <1>5 DEF HomeInv
  <2>2. k \notin J /\ k <= started
    BY <1>1, <2>1, StartedJob DEF GrownBy
  <2> QED BY <1>3, <1>4, <2>2
<1>6. ASSUME NEW cs, NEW i, Leads(cs, i) PROVE Leads(cs, i)'
  <2>1. CASE cs[i] \in Named /\ NamedPath[cs[i]] = SubSeq(cs, 1, i)
    BY <2>1 DEF Leads
  <2>2. CASE cs[i] \in Jobs /\ cs[i] <= started /\ requester[cs[i]] # None
             /\ path[cs[i]] = SubSeq(cs, 1, i)
    <3>1. cs[i] <= started' BY <1>2, <2>2 DEF Jobs
    <3>2. path'[cs[i]] = path[cs[i]] /\ requester'[cs[i]] = requester[cs[i]]
      BY <1>3, <1>4, <2>2
    <3> QED BY <2>2, <3>1, <3>2 DEF Leads
  <2> QED BY <1>6, <2>1, <2>2 DEF Leads
<1>7. PathsInv'
  <2> SUFFICES ASSUME NEW k \in Jobs, k <= started', NEW cs, cs = path'[k], NEW i \in Indices(cs)
               PROVE  Leads(cs, i)'
    BY DEF PathsInv, Indices, Leads, Jobs
  <2>1. CASE k \notin started + 1 .. started'
    <3>1. Leads(cs, i) BY <1>1, <1>3, <2>1 DEF PathsInv
    <3> QED BY <1>6, <3>1
  <2>2. CASE k \in started + 1 .. started' /\ Leads(cs, i)
    BY <1>6, <2>2
  <2>3. CASE k \in started + 1 .. started' /\ r # None /\ i = Len(cs) /\ cs[i] = k
    <3>1. cs \in Seq(Contexts) BY <1>1 DEF TypeOK
    <3>2. SubSeq(cs, 1, Len(cs)) = cs BY <3>1
    <3> QED BY <2>3, <3>2 DEF Leads
  <2> QED BY <2>1, <2>2, <2>3
<1>8. HomeInv'
  <2> SUFFICES ASSUME NEW k \in Jobs
               PROVE  /\ stage'[k] \in {"new", "resolved"} => home'[k] = None
                      /\ home'[k] # None => OnPath(home'[k], path'[k])
    BY DEF HomeInv, OnPath, Indices, Jobs
  <2>1. CASE k \in J
    BY <1>3, <1>4, <2>1 DEF GrownBy
  <2>2. CASE k \notin J /\ k \notin started + 1 .. started'
    BY <1>1, <1>3, <2>2 DEF HomeInv
  <2>3. CASE k \in started + 1 .. started'
    <3>1. k > started BY <1>2, <2>3 DEF Jobs
    <3>2. home[k] = None /\ k \notin J BY <1>1, <1>2, <1>4, <2>3, <3>1 DEF StartedInv
    <3> QED BY <3>2 DEF GrownBy
  <2> QED BY <2>1, <2>2, <2>3
<1>9. DepsInv'
  <2> SUFFICES ASSUME NEW k \in Jobs, requester'[k] # None
               PROVE  /\ home'[requester'[k]] \in Contexts
                      /\ \A c : c = home'[requester'[k]] /\ c # Root =>
                            path'[k] = Append(PathOf(c)', k)
    BY DEF DepsInv, Contexts, Jobs, PathOf
  <2>1. CASE k \in started + 1 .. started'
    BY <2>1
  <2>2. CASE k \notin started + 1 .. started'
    <3> DEFINE q == requester[k]
    <3>1. q \in Jobs /\ requester'[k] = q /\ path'[k] = path[k] BY <1>1, <1>3, <2>2 DEF TypeOK
    <3>2. home[q] \in Contexts /\ (home[q] # Root => path[k] = Append(PathOf(home[q]), k))
      BY <1>1, <3>1 DEF DepsInv
    <3>3. home[q] # None BY <3>2, NoneAssumption
    <3>4. home'[q] = home[q] /\ q <= started /\ OnPath(home[q], path[q])
      BY <1>1, <1>5, <3>1, <3>3 DEF HomeInv
    <3>5. home[q] \in Named \/ (home[q] \in Jobs /\ home[q] <= started)
      BY <1>1, <3>1, <3>4, PathOfElement DEF OnPath
    <3>6. \A c : c = home[q] => PathOf(c)' = PathOf(c)
      BY <1>3, <1>4, <3>4, <3>5 DEF PathOf
    <3> QED BY <3>1, <3>2, <3>4, <3>6
  <2> QED BY <2>1, <2>2
<1>10. ResultInv'
  <2> SUFFICES ASSUME NEW k \in Jobs
               PROVE  /\ stage'[k] # "done" => result[k] = None
                      /\ result[k] # None => OnPath(home'[result[k]], path'[k])
                      /\ stage'[k] = "waiting" =>
                            waitsOn[k] \in Jobs /\ OnPath(home'[waitsOn[k]], path'[k])
    BY DEF ResultInv, OnPath, Indices, Jobs, GrownBy
  <2>1. ASSUME NEW w \in Jobs, OnPath(home[w], path[k]), k <= started
        PROVE  OnPath(home'[w], path'[k])
    <3>1. home[w] # None
      BY <1>1, <2>1, StartedJob, NoneAssumption DEF OnPath, StartedInv, IsPath, Indices
    <3> QED BY <1>3, <1>4, <1>5, <2>1, <3>1
  <2>2. result[k] \in Jobs \cup {None} BY <1>1 DEF TypeOK
  <2>3. stage[k] # "new" => k <= started BY <1>1, StartedJob
  <2>4. stage[k] # "done" => result[k] = None BY <1>1 DEF ResultInv
  <2>5. stage'[k] # "done" => result[k] = None
    <3>1. CASE k \in J BY <2>4, <3>1 DEF GrownBy
    <3>2. CASE k \in started + 1 .. started'
      BY <1>4, <2>3, <2>4, <3>2
    <3>3. CASE k \notin J /\ k \notin started + 1 .. started'
      BY <1>3, <2>4, <3>3
    <3> QED BY <3>1, <3>2, <3>3
  <2>6. result[k] # None => OnPath(home'[result[k]], path'[k])
    BY <1>1, <2>1, <2>2, <2>3, <2>4 DEF ResultInv
  <2>7. ASSUME stage'[k] = "waiting"
        PROVE  waitsOn[k] \in Jobs /\ OnPath(home'[waitsOn[k]], path'[k])
    <3>1. k \notin J /\ k \notin started + 1 .. started' BY <2>7 DEF GrownBy, Grown
    <3>2. stage[k] = "waiting" BY <1>3, <2>7, <3>1
    <3> QED BY <1>1, <2>1, <2>3, <3>2 DEF ResultInv
  <2> QED BY <2>5, <2>6, <2>7
<1> QED BY <1>7, <1>8, <1>9, <1>10 DEF LineageInv

LEMMA RequestLineage ==
    ASSUME InstancesInv, LineageInv, NEW c \in Named \ {Root}, NEW p \in Requested, Request(c, p)
    PROVE  LineageInv'
<1> DEFINE k == started + 1
           pathTo == [j \in {k} |-> NamedPath[c]]
<1>1. TypeOK /\ StartedInv /\ p \in Providers /\ InstancesInv'
  BY ProviderAssumption, RequestStep DEF InstancesInv
<1>2. <<p>> \in Seq(Providers) /\ Len(<<p>>) = 1 /\ <<p>>[1] = p
  BY <1>1
<1>3. /\ Start(<<p>>, None, pathTo)
      /\ stage' = [stage EXCEPT ![k] = StartedStage(<<p>>, pathTo, k)]
      /\ UNCHANGED <<result, home, waitsOn, born, phase, awaited, instances, requests, dead>>
  BY DEF Request
<1>4. NewJobs(<<p>>) = {k}
  BY <1>2 DEF NewJobs, JobAt
<1>5. k \in Jobs /\ k \in NewJobs(<<p>>) /\ started + 1 .. started' = {k}
  BY <1>1, <1>2, <1>3, <1>4, StartFacts
<1>6. path'[k] = NamedPath[c] /\ requester'[k] = None
  BY <1>3, <1>4, <1>5 DEF Start
<1>7. ASSUME NEW i \in Indices(NamedPath[c]) PROVE Leads(NamedPath[c], i)
  <2>1. NamedPath[c][i] \in Named BY PathAssumption DEF Indices
  <2> QED BY <2>1, TreeAssumption DEF Leads, Indices
<1>8. GrownBy({})
  BY RequestGrows
<1> HIDE DEF k
<1> QED BY <1>1, <1>5, <1>6, <1>7, <1>8, GrownLineage

LEMMA GenerateLineage ==
    ASSUME InstancesInv, LineageInv, InstancesInv', NEW j \in Jobs, stage[j] = "resolved",
           NEW i \in Indices(path[j]), NEW st \in {"generating", "done"}, Generate(j, i, st),
           UNCHANGED <<phase, awaited, born, instances, dead, result, waitsOn>>
    PROVE  LineageInv'
<1> DEFINE ps == Deps[prov[j]]
           pathTo == [k \in NewJobs(ps) |-> Append(ParentPath(path[j], i), k)]
           n == IF path[j][i] = Root THEN 2 ELSE i
<1>1. TypeOK /\ StartedInv /\ PathsInv
  BY DEF InstancesInv, LineageInv
<1>2. j <= started /\ prov[j] \in Providers /\ IsPath(path[j])
  BY <1>1, StartedJob
<1>3. ps \in Seq(Providers) /\ Start(ps, j, pathTo)
  BY <1>2, ProviderAssumption DEF Generate
<1>4. /\ GrownBy({j}) /\ path[j][i] \in Contexts
      /\ home' = [home EXCEPT ![j] = path[j][i]]
  BY GenerateGrows
<1>5. home'[j] = path[j][i]
  BY <1>1, <1>4 DEF TypeOK
<1>6. /\ NewJobs(ps) = started + 1 .. started' /\ NewJobs(ps) \subseteq Jobs
      /\ started \in Nat /\ started' \in started .. MaxJobs /\ MaxJobs \in Nat
      /\ \A k \in Jobs : path'[k] = IF k \in NewJobs(ps) THEN pathTo[k] ELSE path[k]
      /\ \A k \in Jobs : requester'[k] = IF k \in NewJobs(ps) THEN j ELSE requester[k]
  <2> HIDE DEF ps, pathTo
  <2> QED BY <1>1, <1>3, StartFacts
<1>7. n \in 1 .. Len(path[j]) /\ path[j] \in Seq(Contexts) /\ Len(path[j]) \in Nat
  <2>1. path[j] \in Seq(Contexts) /\ i \in 1 .. Len(path[j]) /\ Len(path[j]) \in Nat
    BY <1>2 DEF IsPath, Indices
  <2>2. CASE path[j][i] = Root
    <3>1. Len(path[j]) # 1 BY <1>2, <2>1, <2>2 DEF IsPath
    <3>2. \A m \in Nat : i \in 1 .. m /\ m # 1 => 2 \in 1 .. m OBVIOUS
    <3> QED BY <2>1, <2>2, <3>1, <3>2
  <2> QED BY <2>1, <2>2
<1>8. ASSUME NEW k \in started + 1 .. started'
      PROVE  /\ requester'[k] = j /\ path'[k] = Append(SubSeq(path[j], 1, n), k)
  BY <1>6 DEF ParentPath
<1> HIDE DEF n, ps, pathTo
<1>9. ASSUME NEW k \in started + 1 .. started', NEW m \in Indices(path'[k])
      PROVE  Leads(path'[k], m) \/ (m = Len(path'[k]) /\ path'[k][m] = k)
  <2>1. k \in Contexts BY <1>6 DEF Contexts
  <2> DEFINE u == SubSeq(path[j], 1, n)
  <2>2. u \in Seq(Contexts) /\ Len(u) = n /\ \A x \in 1 .. n : u[x] = path[j][x]
    BY <1>7
  <2>3. path'[k] = Append(u, k) BY <1>8
  <2> HIDE DEF u
  <2>4. /\ Len(Append(u, k)) = n + 1 /\ Append(u, k)[n + 1] = k
        /\ \A x \in 1 .. n : Append(u, k)[x] = path[j][x]
    BY <1>7, <2>1, <2>2
  <2>5. CASE m = n + 1 BY <2>3, <2>4, <2>5
  <2>6. CASE m \in 1 .. n
    <3>1. m \in Indices(path[j]) BY <1>7, <2>6 DEF Indices
    <3>2. Leads(path[j], m) BY <1>1, <1>2, <3>1 DEF PathsInv
    <3>3. SubSeq(Append(u, k), 1, m) = SubSeq(path[j], 1, m)
      BY <1>7, <2>1, <2>2, <2>4, <2>6
    <3>4. Append(u, k)[m] = path[j][m] BY <2>4, <2>6
    <3> QED BY <2>3, <3>2, <3>3, <3>4 DEF Leads
  <2> QED BY <1>7, <2>3, <2>4, <2>5, <2>6 DEF Indices
<1>10. ASSUME NEW k \in started + 1 .. started', NEW c, c = home'[j], c # Root
       PROVE  path'[k] = Append(PathOf(c)', k)
  <2>1. n = i BY <1>5, <1>10 DEF n
  <2>2. PathOf(path[j][i]) = SubSeq(path[j], 1, i) BY <1>1, <1>2, PathOfElement
  <2>3. path[j][i] \in Named \/ (path[j][i] \in Jobs /\ path[j][i] <= started)
    BY <1>1, <1>2, PathOfElement
  <2>4. PathOf(c)' = PathOf(path[j][i])
    <3>1. c = path[j][i]
      BY <1>5, <1>10
    <3>2. CASE c \in Named
      BY <3>1, <3>2 DEF PathOf
    <3>3. CASE c \notin Named
      <4>1. c \in Jobs /\ c <= started BY <2>3, <3>1, <3>3
      <4>2. c \notin NewJobs(ps) BY <1>6, <4>1 DEF Jobs
      <4>3. path'[c] = path[c] BY <1>6, <4>1, <4>2
      <4> QED BY <3>1, <3>3, <4>3 DEF PathOf
    <3> QED BY <3>2, <3>3
  <2> QED BY <1>8, <2>1, <2>2, <2>4
<1>11. OnPath(home'[j], path[j])
  BY <1>5 DEF OnPath
<1>12. j # None
  BY NoneAssumption DEF Contexts
<1>13. \A k \in started + 1 .. started' :
          /\ requester'[k] = j
          /\ \A m \in Indices(path'[k]) :
                \/ Leads(path'[k], m)
                \/ j # None /\ m = Len(path'[k]) /\ path'[k][m] = k
          /\ j # None =>
                /\ home'[j] \in Contexts
                /\ \A c : c = home'[j] /\ c # Root => path'[k] = Append(PathOf(c)', k)
  BY <1>4, <1>5, <1>8, <1>9, <1>10, <1>12
<1>14. \A k \in {j} : OnPath(home'[k], path[k])
  BY <1>11
<1> QED BY <1>4, <1>13, <1>14, GrownLineage

LEMMA GeneratesLineage ==
    ASSUME InstancesInv, LineageInv, InstancesInv', NEW j \in Jobs,
           Generates(j) \/ GeneratesForNobody(j)
    PROVE  LineageInv'
<1>1. TypeOK /\ StartedInv
  BY DEF InstancesInv
<1>2. stage[j] = "resolved"
  BY DEF Generates, GeneratesForNobody
<1>3. IsPath(path[j])
  BY <1>1, <1>2, StartedJob
<1>4. CASE Generates(j)
  <2>1. PICK i \in HomeIndex(path[j], prov[j]) : Generate(j, i, "generating")
    BY <1>4 DEF Generates
  <2>2. i \in Indices(path[j])
    BY <1>3, HomeIndexType
  <2> QED BY <1>2, <1>4, <2>1, <2>2, GenerateLineage DEF Generates
<1>5. CASE GeneratesForNobody(j)
  <2>1. PICK i \in Indices(path[j]) : Generate(j, i, "done")
    BY <1>5 DEF GeneratesForNobody
  <2> QED BY <1>2, <1>5, <2>1, GenerateLineage DEF GeneratesForNobody
<1> QED BY <1>4, <1>5

(* A job that ends has an instance from its path, if any.                    *)
LEMMA SettledLineage ==
    ASSUME TypeOK, LineageInv, NEW j \in Jobs, NoNewJobs, home' = home,
           stage'[j] \in {"waiting", "done", "failed"},
           \A k \in Jobs : k # j =>
               stage'[k] = stage[k] /\ result'[k] = result[k] /\ waitsOn'[k] = waitsOn[k],
           result'[j] # None => stage'[j] = "done" /\ OnPath(home[result'[j]], path[j]),
           stage'[j] = "waiting" => waitsOn'[j] \in Jobs /\ OnPath(home[waitsOn'[j]], path[j])
    PROVE  LineageInv'
<1>1. PathsInv /\ HomeInv /\ DepsInv /\ ResultInv
  BY DEF LineageInv
<1>2. started' = started /\ path' = path /\ requester' = requester
  BY DEF NoNewJobs
<1>3. \A k \in Jobs : k # j => stage'[k] = stage[k]
  OBVIOUS
<1>4. PathsInv'
  BY <1>1, <1>2, Zenon DEF PathsInv, Leads, Indices, Jobs
<1>5. HomeInv'
  BY <1>1, <1>2, <1>3 DEF HomeInv, OnPath, Indices
<1>6. DepsInv'
  BY <1>1, <1>2, Zenon DEF DepsInv, PathOf, Contexts, Jobs
<1>7. ResultInv'
  <2> SUFFICES ASSUME NEW k \in Jobs
               PROVE  /\ stage'[k] # "done" => result'[k] = None
                      /\ result'[k] # None => OnPath(home[result'[k]], path[k])
                      /\ stage'[k] = "waiting" =>
                            waitsOn'[k] \in Jobs /\ OnPath(home[waitsOn'[k]], path[k])
    BY <1>2, Zenon DEF ResultInv, OnPath, Indices, Jobs
  <2> QED BY <1>1, <1>3 DEF ResultInv
<1> QED BY <1>4, <1>5, <1>6, <1>7 DEF LineageInv

LEMMA FetchLineage ==
    ASSUME InstancesInv, LineageInv, InstanceHomes, NEW j \in Jobs,
           FetchFails(j) \/ FetchesInstance(j) \/ FetchesRequest(j) \/ Resumes(j)
    PROVE  LineageInv'
<1>1. TypeOK /\ StartedInv /\ RequestInv /\ HomeInv /\ ResultInv
  BY DEF InstancesInv, LineageInv
<1>2. stage[j] \in {"resolved", "waiting"} /\ result[j] = None /\ NoNewJobs /\ home' = home
  BY <1>1 DEF FetchFails, FetchesInstance, FetchesRequest, Resumes, ResultInv
<1>3. IsPath(path[j]) /\ prov[j] \in Providers
  BY <1>1, <1>2, StartedJob
<1>4. result \in [Jobs -> Jobs \cup {None}] /\ waitsOn \in [Jobs -> Jobs \cup {None}]
  BY <1>1 DEF TypeOK
<1>5. ASSUME NEW v \in Jobs \cup {None}, NEW st \in {"done", "failed"}, Settle(j, st, v),
             waitsOn' = waitsOn, v # None => st = "done" /\ OnPath(home[v], path[j])
      PROVE  LineageInv'
  <2>1. /\ result'[j] = v /\ stage'[j] = st
        /\ \A k \in Jobs : k # j =>
              stage'[k] = stage[k] /\ result'[k] = result[k] /\ waitsOn'[k] = waitsOn[k]
    BY <1>1, <1>4, <1>5 DEF Settle, TypeOK
  <2> QED BY <1>1, <1>2, <1>5, <2>1, SettledLineage DEF LineageInv
<1>6. CASE FetchFails(j)
  BY <1>5, <1>6 DEF FetchFails
<1>7. CASE FetchesInstance(j)
  <2>1. PICK i \in HomeIndex(path[j], prov[j]) :
          /\ instances[path[j][i]][prov[j]] # None
          /\ Settle(j, "done", instances[path[j][i]][prov[j]])
    BY <1>7 DEF FetchesInstance
  <2>2. i \in Indices(path[j]) /\ path[j][i] \in Contexts
    BY <1>3, HomeIndexType DEF IsPath, Indices
  <2>3. instances[path[j][i]][prov[j]] \in Jobs
    BY <1>1, <1>3, <2>1, <2>2 DEF TypeOK
  <2>4. OnPath(home[instances[path[j][i]][prov[j]]], path[j])
    BY <1>3, <2>1, <2>2 DEF InstanceHomes, OnPath
  <2>5. waitsOn' = waitsOn
    BY <1>7 DEF FetchesInstance
  <2> QED BY <1>5, <2>1, <2>3, <2>4, <2>5
<1>8. CASE FetchesRequest(j)
  <2>1. PICK i \in HomeIndex(path[j], prov[j]) :
          /\ requests[path[j][i]][prov[j]] # None
          /\ waitsOn' = [waitsOn EXCEPT ![j] = requests[path[j][i]][prov[j]]]
    BY <1>8 DEF FetchesRequest
  <2> DEFINE w == requests[path[j][i]][prov[j]]
  <2>2. i \in Indices(path[j]) /\ path[j][i] \in Contexts
    BY <1>3, HomeIndexType DEF IsPath, Indices
  <2>3. phase[path[j][i]] # "disposed"
    <3>1. i \in i .. Len(path[j])
      BY <1>3, <2>2 DEF IsPath, Indices
    <3> QED BY <3>1 DEF HomeIndex, IsClear
  <2>4. w \in Jobs /\ home[w] = path[j][i]
    BY <1>1, <1>3, <2>1, <2>2, <2>3 DEF RequestInv, TypeOK
  <2>5. OnPath(home[w], path[j])
    BY <2>2, <2>4 DEF OnPath
  <2>6. stage' = [stage EXCEPT ![j] = "waiting"] /\ result' = result
    BY <1>8 DEF FetchesRequest
  <2> HIDE DEF w
  <2>7. /\ waitsOn'[j] = w /\ stage'[j] = "waiting" /\ result'[j] = None
        /\ \A k \in Jobs : k # j =>
              stage'[k] = stage[k] /\ result'[k] = result[k] /\ waitsOn'[k] = waitsOn[k]
    BY <1>1, <1>2, <1>4, <2>1, <2>6 DEF w, TypeOK
  <2> QED BY <1>1, <1>2, <2>4, <2>5, <2>7, SettledLineage
<1>9. CASE Resumes(j)
  <2>1. waitsOn[j] \in Jobs /\ OnPath(home[waitsOn[j]], path[j])
    BY <1>1, <1>9 DEF Resumes, ResultInv
  <2>2. waitsOn' = waitsOn /\ (Settle(j, "done", waitsOn[j]) \/ Settle(j, "failed", None))
    BY <1>9 DEF Resumes
  <2> QED BY <1>5, <2>1, <2>2
<1> QED BY <1>6, <1>7, <1>8, <1>9

LEMMA CreatedLineage ==
    ASSUME InstancesInv, LineageInv, NEW j \in Jobs, Created(j) \/ NotCreated(j)
    PROVE  LineageInv'
<1>1. TypeOK /\ StartedInv /\ HomeInv
  BY DEF InstancesInv, LineageInv
<1>2. stage[j] = "generating" /\ NoNewJobs /\ home' = home /\ waitsOn' = waitsOn
  BY DEF Created, NotCreated
<1>3. OnPath(home[j], path[j])
  BY <1>1, <1>2, NoneAssumption DEF StartedInv, HomeInv
<1>4. PICK st \in {"done", "failed"}, v \in {j, None} :
        Settle(j, st, v) /\ (v # None => st = "done")
  BY DEF Created, NotCreated
<1>5. /\ result'[j] = v /\ stage'[j] = st
      /\ \A k \in Jobs : k # j =>
            stage'[k] = stage[k] /\ result'[k] = result[k] /\ waitsOn'[k] = waitsOn[k]
  BY <1>1, <1>2, <1>4 DEF Settle, TypeOK
<1> QED BY <1>1, <1>2, <1>3, <1>4, <1>5, SettledLineage

LEMMA DisposalLineage ==
    ASSUME LineageInv, UNCHANGED jobVars
    PROVE  LineageInv'
<1>1. PathsInv /\ HomeInv /\ DepsInv /\ ResultInv
  BY DEF LineageInv
<1>2. /\ started' = started /\ path' = path /\ requester' = requester /\ home' = home
      /\ stage' = stage /\ result' = result /\ waitsOn' = waitsOn
  BY DEF jobVars
<1>3. PathsInv'
  BY <1>1, <1>2, Zenon DEF PathsInv, Leads, Indices, Jobs
<1>4. HomeInv'
  BY <1>1, <1>2, Zenon DEF HomeInv, OnPath, Indices, Jobs
<1>5. DepsInv'
  BY <1>1, <1>2, Zenon DEF DepsInv, PathOf, Contexts, Jobs
<1>6. ResultInv'
  BY <1>1, <1>2, Zenon DEF ResultInv, OnPath, Indices, Jobs
<1> QED BY <1>3, <1>4, <1>5, <1>6 DEF LineageInv

(* When jobs start, nothing is disposed and nobody's home changes.           *)
LEMMA GrownCleared ==
    ASSUME InstancesInv, LineageInv, ClearedInv, NEW J, GrownBy(J)
    PROVE  ClearedInv'
<1>1. /\ TypeOK /\ StartedInv /\ HomeInv
      /\ InstanceHomes /\ AwaitedInv /\ DeadInv /\ MarkedInv
  BY DEF InstancesInv, LineageInv, ClearedInv
<1>2. phase' = phase /\ awaited' = awaited /\ instances' = instances /\ dead' = dead
  BY DEF GrownBy
<1>3. started \in Nat /\ started' \in Nat /\ started' >= started
  BY <1>1, BoundAssumption DEF TypeOK, GrownBy, Grown
<1>4. ASSUME NEW k \in Jobs, home[k] \in Contexts PROVE home'[k] = home[k]
  <2>1. home[k] # None
    BY <1>4, NoneAssumption
  <2>2. stage[k] # "resolved"
    BY <1>1, <2>1 DEF HomeInv
  <2> QED BY <2>2 DEF GrownBy
<1>5. InstanceHomes'
  <2> SUFFICES ASSUME NEW c \in Contexts, NEW p \in Providers, instances[c][p] # None
               PROVE  home'[instances[c][p]] = c
    BY <1>2, Zenon DEF InstanceHomes, Contexts, Jobs
  <2> QED BY <1>1, <1>4 DEF InstanceHomes, TypeOK
<1>6. AwaitedInv'
  BY <1>1, <1>2, Zenon DEF AwaitedInv, Contexts, Jobs
<1>7. DeadInv'
  <2> SUFFICES ASSUME NEW d \in dead PROVE home'[d] \in Contexts /\ phase[home'[d]] \in Cleared
    BY <1>2, Zenon DEF DeadInv, Contexts, Jobs
  <2> QED BY <1>1, <1>4 DEF DeadInv, TypeOK
<1>8. MarkedInv'
  <2> SUFFICES ASSUME NEW k \in Jobs, phase[k] # "live"
               PROVE  /\ k <= started' /\ requester'[k] # None
                      /\ Len(path'[k]) > 1 /\ phase[path'[k][Len(path'[k]) - 1]] # "live"
    BY <1>2, Zenon DEF MarkedInv, Jobs
  <2>1. /\ k <= started /\ requester[k] # None
        /\ Len(path[k]) > 1 /\ phase[path[k][Len(path[k]) - 1]] # "live"
    BY <1>1 DEF MarkedInv
  <2>2. path'[k] = path[k] /\ requester'[k] = requester[k]
    BY <1>3, <2>1 DEF GrownBy, Grown, Jobs
  <2> QED BY <1>3, <2>1, <2>2 DEF Jobs
<1> QED BY <1>5, <1>6, <1>7, <1>8 DEF ClearedInv

(* The steps of a job that start none, and those of the disposal.            *)
LEMMA SteadyCleared ==
    ASSUME InstancesInv, ClearedInv,
           UNCHANGED <<started, path, requester, home, awaited>>,
           \A c \in Contexts :
               /\ phase[c] = "live" <=> phase'[c] = "live"
               /\ phase[c] = "disposed" => phase'[c] = "disposed"
               /\ phase[c] \in Cleared => phase'[c] \in Cleared
               /\ phase'[c] \in Cleared =>
                     phase[c] \in Cleared \/ \A d \in awaited[c] : phase[d] = "disposed",
           \A c \in Contexts, p \in Providers :
               \/ instances'[c][p] \in {None, instances[c][p]}
               \/ home[instances'[c][p]] = c,
           \A d \in dead' : d \in dead \/ (home[d] \in Contexts /\ phase'[home[d]] \in Cleared)
    PROVE  ClearedInv'
<1>1. TypeOK /\ StartedInv /\ InstanceHomes /\ AwaitedInv /\ DeadInv /\ MarkedInv
  BY DEF InstancesInv, ClearedInv
<1>2. InstanceHomes'
  <2> SUFFICES ASSUME NEW c \in Contexts, NEW p \in Providers, instances'[c][p] # None
               PROVE  home[instances'[c][p]] = c
    BY Zenon DEF InstanceHomes, Contexts, Jobs
  <2> QED BY <1>1 DEF InstanceHomes
<1>3. AwaitedInv'
  <2> SUFFICES ASSUME NEW c \in Contexts, phase'[c] \in Cleared, NEW d \in awaited[c]
               PROVE  phase'[d] = "disposed"
    BY Zenon DEF AwaitedInv, Cleared, Contexts, Jobs
  <2> QED BY <1>1 DEF AwaitedInv, TypeOK
<1>4. DeadInv'
  <2> SUFFICES ASSUME NEW d \in dead' PROVE home[d] \in Contexts /\ phase'[home[d]] \in Cleared
    BY Zenon DEF DeadInv, Cleared, Contexts, Jobs
  <2> QED BY <1>1 DEF DeadInv
<1>5. MarkedInv'
  <2> SUFFICES ASSUME NEW k \in Jobs, phase'[k] # "live"
               PROVE  /\ k <= started /\ requester[k] # None
                      /\ Len(path[k]) > 1 /\ phase'[path[k][Len(path[k]) - 1]] # "live"
    BY Zenon DEF MarkedInv, Jobs
  <2>1. phase[k] # "live"
    BY DEF Contexts
  <2>2. /\ k <= started /\ requester[k] # None
        /\ Len(path[k]) > 1 /\ phase[path[k][Len(path[k]) - 1]] # "live"
    BY <1>1, <2>1 DEF MarkedInv
  <2>3. path[k][Len(path[k]) - 1] \in Contexts
    <3>1. path[k] \in Seq(Contexts) BY <1>1 DEF TypeOK
    <3> QED BY <2>2, <3>1
  <2> QED BY <2>2, <2>3
<1> QED BY <1>2, <1>3, <1>4, <1>5 DEF ClearedInv

LEMMA FetchCleared ==
    ASSUME InstancesInv, ClearedInv, NEW j \in Jobs,
           FetchFails(j) \/ FetchesInstance(j) \/ FetchesRequest(j) \/ Resumes(j) \/ NotCreated(j)
    PROVE  ClearedInv'
<1>1. UNCHANGED <<started, path, requester, home, awaited, phase, instances, dead>>
  BY DEF FetchFails, FetchesInstance, FetchesRequest, Resumes, NotCreated, NoNewJobs
<1>2. /\ phase' = phase /\ instances' = instances /\ dead' = dead
  BY <1>1
<1>3. \A c \in Contexts :
        phase'[c] \in Cleared => phase[c] \in Cleared \/ \A d \in awaited[c] : phase[d] = "disposed"
  BY <1>2
<1> QED BY <1>1, <1>2, <1>3, SteadyCleared

LEMMA CreatedCleared ==
    ASSUME InstancesInv, ClearedInv, NEW j \in Jobs, Created(j)
    PROVE  ClearedInv'
<1>1. UNCHANGED <<started, path, requester, home, awaited, phase, dead>>
  BY DEF Created, NoNewJobs
<1>2. instances \in [Contexts -> [Providers -> Jobs \cup {None}]]
  BY DEF InstancesInv, TypeOK
<1>3. \/ instances' = instances
      \/ instances' = [instances EXCEPT ![home[j]][prov[j]] = j]
  BY DEF Created
<1>4. \A c \in Contexts, p \in Providers :
          instances'[c][p] = instances[c][p] \/ (instances'[c][p] = j /\ c = home[j])
  BY <1>2, <1>3
<1>5. phase' = phase /\ dead' = dead
  BY <1>1
<1> QED BY <1>1, <1>4, <1>5, SteadyCleared

(* A context is cleared once those it awaits have been disposed.             *)
LEMMA DisposalCleared ==
    ASSUME InstancesInv, ClearedInv, NEW c \in Contexts, Disposal(c)
    PROVE  ClearedInv'
<1>1. /\ phase \in [Contexts -> Phases] /\ InstanceHomes /\ AwaitedInv
      /\ instances \in [Contexts -> [Providers -> Jobs \cup {None}]]
  BY DEF InstancesInv, TypeOK, ClearedInv
<1>2. UNCHANGED <<started, path, requester, home, awaited>>
  BY DEF Disposal, Clear, EndDispose, DisposeFails, DisposeFailsAbove, jobVars
<1>3. CASE Clear(c)
  <2>1. /\ phase[c] = "disposing" /\ \A d \in awaited[c] : phase[d] = "disposed"
        /\ instances' = instances /\ dead' = dead \cup Kept(c)
    BY <1>3 DEF Clear
  <2>2. phase'[c] \in {"disposed", "clearing"} /\ \A d \in Contexts : d # c => phase'[d] = phase[d]
    BY <1>1, <1>3 DEF Clear
  <2>3. ASSUME NEW d \in Kept(c) PROVE home[d] = c
    BY <1>1 DEF Kept, InstanceHomes
  <2>4. \A d \in dead' : d \in dead \/ (home[d] \in Contexts /\ phase'[home[d]] \in Cleared)
    BY <2>1, <2>2, <2>3 DEF Cleared
  <2>5. \A e \in Contexts :
            /\ phase[e] = "live" <=> phase'[e] = "live"
            /\ phase[e] = "disposed" => phase'[e] = "disposed"
            /\ phase[e] \in Cleared => phase'[e] \in Cleared
            /\ phase'[e] \in Cleared => phase[e] \in Cleared \/ e = c
    BY <2>1, <2>2 DEF Cleared
  <2> QED BY <1>2, <2>1, <2>4, <2>5, SteadyCleared
<1>4. CASE EndDispose(c)
  <2>1. /\ phase[c] = "clearing" /\ instances' = [instances EXCEPT ![c] = NoneYet] /\ dead' = dead
    BY <1>4 DEF EndDispose
  <2>2. phase'[c] = "disposed" /\ \A d \in Contexts : d # c => phase'[d] = phase[d]
    BY <1>1, <1>4 DEF EndDispose
  <2>3. \A e \in Contexts, p \in Providers : instances'[e][p] \in {None, instances[e][p]}
    BY <1>1, <2>1 DEF NoneYet
  <2>4. \A e \in Contexts :
            /\ phase[e] = "live" <=> phase'[e] = "live"
            /\ phase[e] = "disposed" => phase'[e] = "disposed"
            /\ phase[e] \in Cleared <=> phase'[e] \in Cleared
    BY <2>1, <2>2 DEF Cleared
  <2> QED BY <1>2, <2>1, <2>3, <2>4, SteadyCleared
<1>5. CASE DisposeFails(c)
  <2>1. phase[c] = "clearing" /\ instances' = instances /\ dead' = dead
    BY <1>5 DEF DisposeFails
  <2>2. phase'[c] = "broken" /\ \A d \in Contexts : d # c => phase'[d] = phase[d]
    BY <1>1, <1>5 DEF DisposeFails
  <2>3. \A e \in Contexts :
            /\ phase[e] = "live" <=> phase'[e] = "live"
            /\ phase[e] = "disposed" => phase'[e] = "disposed"
            /\ phase[e] \in Cleared <=> phase'[e] \in Cleared
    BY <2>1, <2>2 DEF Cleared
  <2> QED BY <1>2, <2>1, <2>3, SteadyCleared
<1>6. CASE DisposeFailsAbove(c)
  <2>1. phase[c] = "disposing" /\ instances' = instances /\ dead' = dead
    BY <1>6 DEF DisposeFailsAbove
  <2>2. phase'[c] = "stuck" /\ \A d \in Contexts : d # c => phase'[d] = phase[d]
    BY <1>1, <1>6 DEF DisposeFailsAbove
  <2>3. \A e \in Contexts :
            /\ phase[e] = "live" <=> phase'[e] = "live"
            /\ phase[e] = "disposed" => phase'[e] = "disposed"
            /\ phase[e] \in Cleared <=> phase'[e] \in Cleared
    BY <2>1, <2>2 DEF Cleared
  <2> QED BY <1>2, <2>1, <2>3, SteadyCleared
<1> QED BY <1>3, <1>4, <1>5, <1>6 DEF Disposal

(* What dispose() marks was in use, and so was the context above it, which   *)
(* it marks too.                                                             *)
LEMMA BeginDisposeCleared ==
    ASSUME InstancesInv, LineageInv, ClearedInv, NEW c \in Disposers, BeginDispose(c)
    PROVE  ClearedInv'
<1>1. /\ TypeOK /\ StartedInv /\ PathsInv
      /\ InstanceHomes /\ AwaitedInv /\ DeadInv /\ MarkedInv
  BY DEF InstancesInv, LineageInv, ClearedInv
<1>2. /\ UNCHANGED <<jobVars, cached, instances, requests, dead>>
      /\ \A d \in Contexts : phase'[d] = IF d \in Reached(c) THEN "disposing" ELSE phase[d]
      /\ \A d \in Contexts : d \notin Reached(c) => awaited'[d] = awaited[d]
  BY DEF BeginDispose
<1>3. started' = started /\ path' = path /\ requester' = requester /\ home' = home
  BY <1>2 DEF jobVars
<1>4. ASSUME NEW d \in Reached(c) PROVE phase[d] = "live"
  <2>1. PICK i \in Indices(PathOf(d)) : \A k \in i .. Len(PathOf(d)) : phase[PathOf(d)[k]] = "live"
    BY DEF Reached
  <2>2. Len(PathOf(d)) \in Nat \ {0} /\ PathOf(d)[Len(PathOf(d))] = d
    BY <1>1, PathOfContext DEF Reached
  <2>3. Len(PathOf(d)) \in i .. Len(PathOf(d))
    BY <2>1, <2>2 DEF Indices
  <2> QED BY <2>1, <2>2, <2>3
<1>5. \A d \in Contexts : /\ phase'[d] = "live" => phase[d] = "live"
                          /\ phase[d] # "live" => phase'[d] = phase[d]
                          /\ phase'[d] \in Cleared => phase[d] \in Cleared /\ d \notin Reached(c)
  BY <1>2, <1>4 DEF Cleared
<1>6. \A d \in Contexts : phase[d] \in Cleared => phase'[d] \in Cleared
  BY <1>5 DEF Cleared
<1>7. InstanceHomes'
  BY <1>1, <1>2, <1>3, Zenon DEF InstanceHomes, Contexts, Jobs
<1>8. AwaitedInv'
  <2> SUFFICES ASSUME NEW e \in Contexts, phase'[e] \in Cleared, NEW d \in awaited'[e]
               PROVE  phase'[d] = "disposed"
    BY Zenon DEF AwaitedInv, Cleared, Contexts, Jobs
  <2>1. phase[e] \in Cleared /\ awaited'[e] = awaited[e]
    BY <1>2, <1>5
  <2>2. phase[d] = "disposed" /\ d \in Contexts
    BY <1>1, <2>1 DEF AwaitedInv, TypeOK
  <2> QED BY <1>5, <2>2
<1>9. DeadInv'
  <2> SUFFICES ASSUME NEW d \in dead PROVE home[d] \in Contexts /\ phase'[home[d]] \in Cleared
    BY <1>2, <1>3, Zenon DEF DeadInv, Cleared, Contexts, Jobs
  <2> QED BY <1>1, <1>6 DEF DeadInv
<1>10. MarkedInv'
  <2> SUFFICES ASSUME NEW k \in Jobs, phase'[k] # "live"
               PROVE  /\ k <= started /\ requester[k] # None
                      /\ Len(path[k]) > 1 /\ phase'[path[k][Len(path[k]) - 1]] # "live"
    BY <1>3, Zenon DEF MarkedInv, Jobs
  <2>1. path[k] \in Seq(Contexts) /\ k \in Contexts
    BY <1>1 DEF TypeOK, Contexts
  <2> DEFINE up == path[k][Len(path[k]) - 1]
  <2>2. CASE phase[k] # "live"
    <3>1. /\ k <= started /\ requester[k] # None
          /\ Len(path[k]) > 1 /\ phase[up] # "live"
      BY <1>1, <2>2 DEF MarkedInv
    <3>2. up \in Contexts
      BY <2>1, <3>1
    <3> QED BY <1>5, <3>1, <3>2
  <2>3. CASE phase[k] = "live"
    <3>1. k \in Reached(c)
      BY <1>2, <2>1, <2>3
    <3>2. k \notin Named
      BY TreeAssumption
    <3>3. k <= started /\ requester[k] # None /\ PathOf(k) = path[k]
      BY <1>1, <3>1, <3>2, BoundAssumption DEF Reached, ExistingContexts, PathOf, TypeOK
    <3>4. PICK i \in Indices(path[k]) :
            path[k][i] = c /\ \A m \in i .. Len(path[k]) : phase[path[k][m]] = "live"
      BY <3>1, <3>3 DEF Reached
    <3>5. path[k][Len(path[k])] = k /\ Len(path[k]) \in Nat
      BY <1>1, <2>1, <3>3 DEF StartedInv, Bottom
    <3>6. c # k
      BY <3>2, TreeAssumption
    <3>7. i \in 1 .. Len(path[k]) - 1 /\ Len(path[k]) > 1
      BY <3>4, <3>5, <3>6 DEF Indices
    <3> DEFINE n == Len(path[k]) - 1
    <3>8. n \in Indices(path[k]) /\ n \in Nat
      BY <3>5, <3>7 DEF Indices
    <3>9. PathOf(up) = SubSeq(path[k], 1, n) /\ up \in ExistingContexts
      BY <1>1, <3>3, <3>8, PathOfElement
    <3>10. Len(PathOf(up)) = n /\ \A m \in 1 .. n : PathOf(up)[m] = path[k][m]
      BY <2>1, <3>5, <3>8, <3>9 DEF Indices
    <3>11. \A m \in i .. n : phase[PathOf(up)[m]] = "live"
      BY <3>4, <3>5, <3>7, <3>10 DEF Indices
    <3>12. up \in Reached(c)
      BY <3>4, <3>7, <3>9, <3>10, <3>11 DEF Reached, Indices
    <3>13. up \in Contexts
      BY <2>1, <3>7
    <3> QED BY <1>2, <3>3, <3>7, <3>12, <3>13
  <2> QED BY <2>2, <2>3
<1> QED BY <1>7, <1>8, <1>9, <1>10 DEF ClearedInv

LEMMA GeneratesGrows ==
    ASSUME InstancesInv, NEW j \in Jobs, Generates(j) \/ GeneratesForNobody(j)
    PROVE  GrownBy({j})
<1>1. stage[j] = "resolved" /\ UNCHANGED <<phase, awaited, born, instances, dead, result, waitsOn>>
  BY DEF Generates, GeneratesForNobody
<1>2. IsPath(path[j])
  BY <1>1, StartedJob DEF InstancesInv
<1>3. CASE Generates(j)
  <2>1. PICK i \in HomeIndex(path[j], prov[j]) : Generate(j, i, "generating")
    BY <1>3 DEF Generates
  <2>2. i \in Indices(path[j])
    BY <1>2, HomeIndexType
  <2> QED BY <1>1, <2>1, <2>2, GenerateGrows
<1>4. CASE GeneratesForNobody(j)
  <2>1. PICK i \in Indices(path[j]) : Generate(j, i, "done")
    BY <1>4 DEF GeneratesForNobody
  <2> QED BY <1>1, <2>1, GenerateGrows
<1> QED BY <1>3, <1>4

OrderInv == InstancesInv /\ LineageInv /\ ClearedInv

LEMMA InitOrder == Init => OrderInv
<1> SUFFICES ASSUME Init PROVE OrderInv
  OBVIOUS
<1>1. InstancesInv
  BY InitInstances
<1>2. started = 0 /\ \A k \in Jobs : ~(k <= started)
  BY BoundAssumption DEF Init, Jobs
<1>3. LineageInv
  BY <1>2 DEF Init, LineageInv, PathsInv, HomeInv, DepsInv, ResultInv
<1>4. ClearedInv
  BY DEF Init, ClearedInv, InstanceHomes, AwaitedInv, DeadInv, MarkedInv, NoneYet, Cleared, Contexts
<1> QED BY <1>1, <1>3, <1>4 DEF OrderInv

LEMMA NextOrder == OrderInv /\ [Next]_vars => OrderInv'
<1> SUFFICES ASSUME OrderInv, [Next]_vars PROVE OrderInv'
  OBVIOUS
<1>1. InstancesInv /\ LineageInv /\ ClearedInv /\ InstanceHomes /\ InstancesInv'
  BY NextInstances DEF OrderInv, ClearedInv
<1>2. ASSUME NEW c \in Named \ {Root}, NEW p \in Requested, Request(c, p)
      PROVE  LineageInv' /\ ClearedInv'
  BY <1>1, <1>2, RequestLineage, RequestGrows, GrownCleared
<1>3. ASSUME NEW j \in Jobs, Job(j)
      PROVE  LineageInv' /\ ClearedInv'
  <2>1. CASE Generates(j) \/ GeneratesForNobody(j)
    BY <1>1, <2>1, GeneratesLineage, GeneratesGrows, GrownCleared
  <2>2. CASE FetchFails(j) \/ FetchesInstance(j) \/ FetchesRequest(j) \/ Resumes(j)
    BY <1>1, <2>2, FetchLineage, FetchCleared
  <2>3. CASE Created(j) \/ NotCreated(j)
    BY <1>1, <2>3, CreatedLineage, CreatedCleared, FetchCleared
  <2> QED BY <1>3, <2>1, <2>2, <2>3 DEF Job
<1>4. ASSUME NEW c \in Disposers, BeginDispose(c)
      PROVE  LineageInv' /\ ClearedInv'
  BY <1>1, <1>4, DisposalLineage, BeginDisposeCleared DEF BeginDispose
<1>5. ASSUME NEW c \in Contexts, Disposal(c)
      PROVE  LineageInv' /\ ClearedInv'
  <2>1. UNCHANGED jobVars
    BY <1>5 DEF Disposal, Clear, EndDispose, DisposeFails, DisposeFailsAbove
  <2> QED BY <1>1, <1>5, <2>1, DisposalLineage, DisposalCleared
<1>6. CASE UNCHANGED vars
  <2>1. UNCHANGED jobVars /\ UNCHANGED <<phase, awaited, instances, dead>>
    BY <1>6 DEF vars
  <2>2. UNCHANGED <<started, path, requester, home, awaited>>
    BY <2>1 DEF jobVars
  <2>3. phase' = phase /\ instances' = instances /\ dead' = dead
    BY <2>1
  <2>4. ClearedInv'
    BY <1>1, <2>2, <2>3, Zenon DEF ClearedInv, InstanceHomes, AwaitedInv, DeadInv, MarkedInv,
                                   Cleared, Contexts, Jobs
  <2>5. LineageInv'
    <3>1. UNCHANGED jobVars
      BY <1>6 DEF vars
    <3> QED BY <1>1, <3>1, DisposalLineage
  <2> QED BY <1>1, <2>4, <2>5 DEF OrderInv
<1> QED BY <1>1, <1>2, <1>3, <1>4, <1>5, <1>6 DEF Next, OrderInv

THEOREM OrderInvariant == Spec => []OrderInv
<1> QED BY InitOrder, NextOrder, PTL DEF Spec

-------------------------------------------------------------------------------
LEMMA LessThan == IsWellFoundedOn({ss \in Nat \X Nat : ss[1] < ss[2]}, Nat)
BY NatLessThanWellFounded DEF OpToRel

(* Induction over the numbers, for the members of a set.                     *)
LEMMA NatSetInduction ==
    ASSUME NEW S, 0 \in S, \A n \in Nat : n \in S => n + 1 \in S
    PROVE  Nat \subseteq S
<1> SUFFICES ASSUME Nat \ S # {} PROVE FALSE
  OBVIOUS
<1> DEFINE R == {ss \in Nat \X Nat : ss[1] < ss[2]}
<1>1. IsWellFoundedOn(R, Nat)
  BY LessThan
<1> HIDE DEF R
<1>2. PICK x \in Nat \ S : \A y \in Nat \ S : ~(<<y, x>> \in R)
  BY <1>1, WFMin
<1>3. x - 1 \in Nat
  BY <1>2
<1>4. x - 1 \in S
  <2>1. SUFFICES ASSUME x - 1 \notin S PROVE FALSE
    OBVIOUS
  <2>2. x - 1 \in Nat \ S
    BY <1>3, <2>1
  <2>3. <<x - 1, x>> \in R
    BY <1>2, <1>3 DEF R
  <2> QED BY <1>2, <2>2, <2>3
<1> QED BY <1>2, <1>3, <1>4

(* The home of an instance, and what leads there, exist.                     *)
LEMMA HomeExists ==
    ASSUME OrderInv, NEW j \in Jobs, home[j] # None
    PROVE  /\ home[j] \in ExistingContexts
           /\ PathOf(home[j]) \in Seq(Contexts) /\ Len(PathOf(home[j])) \in Nat \ {0}
           /\ PathOf(home[j])[Len(PathOf(home[j]))] = home[j]
           /\ \A i \in Indices(PathOf(home[j])) :
                 PathOf(PathOf(home[j])[i]) = SubSeq(PathOf(home[j]), 1, i)
<1>1. TypeOK /\ StartedInv /\ PathsInv /\ HomeInv
  BY DEF OrderInv, InstancesInv, LineageInv
<1>2. stage[j] # "new" /\ OnPath(home[j], path[j])
  BY <1>1 DEF HomeInv
<1>3. j <= started
  BY <1>1, <1>2, StartedJob
<1>4. home[j] \in ExistingContexts
  BY <1>1, <1>2, <1>3, PathOfElement DEF OnPath
<1> QED BY <1>1, <1>4, PathOfContext

(* Disposal of a context comes down to every context on a path of contexts   *)
(* that await one another.                                                   *)
LEMMA DisposedBelow ==
    ASSUME NEW h, NEW c, NEW m \in Indices(PathOf(h)), AwaitedInv,
           PathOf(h) \in Seq(Contexts), m < Len(PathOf(h)), PathOf(h)[m] = c,
           phase[c] \in Cleared,
           \A i \in Indices(PathOf(h)) : PathOf(PathOf(h)[i]) = SubSeq(PathOf(h), 1, i),
           DisposedWith(c, h)
    PROVE  phase[PathOf(h)[Len(PathOf(h))]] = "disposed"
<1> DEFINE P == PathOf(h)
           S == {n \in Nat : m + 1 + n <= Len(P) => phase[P[m + 1 + n]] = "disposed"}
<1>1. m \in Nat /\ m >= 1 /\ Len(P) \in Nat /\ P \in Seq(Contexts)
  BY DEF Indices
<1>2. ASSUME NEW i \in m + 1 .. Len(P), phase[P[i - 1]] \in Cleared
      PROVE  phase[P[i]] = "disposed"
  <2>1. i \in 2 .. Len(P) /\ i - 1 \in 1 .. Len(P) /\ m <= i - 1
    BY <1>1, <1>2
  <2>2. c = P[i - 1] \/ IsAbove(c, P[i - 1])
    <3>1. PathOf(P[i - 1]) = SubSeq(P, 1, i - 1)
      BY <2>1 DEF Indices
    <3>2. Len(SubSeq(P, 1, i - 1)) = i - 1 /\ SubSeq(P, 1, i - 1)[m] = P[m]
      BY <1>1, <2>1
    <3>3. m \in Indices(PathOf(P[i - 1])) /\ PathOf(P[i - 1])[m] = c
      BY <1>1, <2>1, <3>1, <3>2 DEF Indices
    <3> QED BY <3>3 DEF IsAbove
  <2>3. P[i] \in awaited[P[i - 1]]
    BY <2>1, <2>2 DEF DisposedWith
  <2>4. P[i - 1] \in Contexts
    BY <1>1, <2>1
  <2> QED BY <1>2, <2>3, <2>4 DEF AwaitedInv
<1>3. 0 \in S
  <2>1. m + 1 \in m + 1 .. Len(P) /\ (m + 1) - 1 = m
    BY <1>1
  <2>2. phase[P[m + 1]] = "disposed"
    BY <1>2, <2>1
  <2> QED BY <1>1, <2>2
<1>4. \A n \in Nat : n \in S => n + 1 \in S
  <2> SUFFICES ASSUME NEW n \in Nat, n \in S, m + 1 + (n + 1) <= Len(P)
               PROVE  phase[P[m + 1 + (n + 1)]] = "disposed"
    OBVIOUS
  <2>1. m + 1 + n <= Len(P) /\ (m + 1 + (n + 1)) - 1 = m + 1 + n
        /\ m + 1 + (n + 1) \in m + 1 .. Len(P)
    BY <1>1
  <2>2. phase[P[m + 1 + n]] \in Cleared
    BY <2>1 DEF Cleared
  <2> QED BY <1>2, <2>1, <2>2
<1>5. Nat \subseteq S
  <2> HIDE DEF S
  <2> QED BY <1>3, <1>4, NatSetInduction
<1>6. Len(P) - (m + 1) \in Nat /\ m + 1 + (Len(P) - (m + 1)) = Len(P)
  BY <1>1
<1> QED BY <1>5, <1>6

(* Instances outlive those that use them: when an instance is told to        *)
(* dispose itself, its home is being cleared, and everything below that was  *)
(* marked with it has been disposed, one context after the other, down to    *)
(* the home of the user.                                                     *)
THEOREM UsersDisposedFirstAlways == Spec => []UsersDisposedFirst
<1>1. OrderInv => UsersDisposedFirst
  <2> SUFFICES ASSUME OrderInv, NEW j \in Jobs, NEW d \in Jobs, born[j] # None, d \in dead,
                      IsAbove(home[d], home[j]), DisposedWith(home[d], home[j])
               PROVE  phase[home[j]] = "disposed"
    BY DEF UsersDisposedFirst
  <2>1. StartedInv /\ AwaitedInv /\ DeadInv
    BY DEF OrderInv, InstancesInv, ClearedInv
  <2>2. home[j] # None
    BY <2>1, NoneAssumption DEF StartedInv
  <2>3. PICK m \in Indices(PathOf(home[j])) : PathOf(home[j])[m] = home[d]
    BY DEF IsAbove
  <2>4. m # Len(PathOf(home[j]))
    BY <2>2, <2>3, HomeExists DEF IsAbove
  <2>5. m < Len(PathOf(home[j]))
    BY <2>2, <2>4, HomeExists DEF Indices
  <2>6. phase[home[d]] \in Cleared
    BY <2>1 DEF DeadInv
  <2> QED BY <2>1, <2>2, <2>3, <2>5, <2>6, HomeExists, DisposedBelow
<1> QED BY <1>1, OrderInvariant, PTL

(* What the instances of a home use is alive while the contexts down to that *)
(* home are: a dependency is kept on the path of the child that asked for    *)
(* it, so in one of these, or in the child itself, which is disposed from    *)
(* above only.                                                               *)
THEOREM NoDeadDependenciesAlways == Spec => []NoDeadDependencies
<1>1. OrderInv => NoDeadDependencies
  <2> SUFFICES ASSUME OrderInv, NEW j \in Jobs, home[j] # Root, born[j] # None,
                      \A i \in Indices(PathOf(home[j])) : phase[PathOf(home[j])[i]] = "live",
                      NEW d \in dead, DependsOn(j, d)
               PROVE  FALSE
    BY DEF NoDeadDependencies, DependenciesAlive
  <2>1. /\ TypeOK /\ StartedInv /\ DepsInv /\ ResultInv /\ DeadInv /\ MarkedInv
    BY DEF OrderInv, InstancesInv, LineageInv, ClearedInv
  <2>2. PICK k \in Jobs : requester[k] = j /\ result[k] = d
    BY DEF DependsOn, DepsOf
  <2>3. j # None /\ d # None /\ home[j] # None
    BY <2>1, NoneAssumption DEF StartedInv, TypeOK, Contexts
  <2> DEFINE P == PathOf(home[j])
  <2>4. P \in Seq(Contexts) /\ Len(P) \in Nat \ {0} /\ P[Len(P)] = home[j]
    BY <2>3, HomeExists
  <2>5. path[k] = Append(P, k)
    BY <2>1, <2>2, <2>3 DEF DepsInv
  <2>6. PICK i \in Indices(path[k]) : path[k][i] = home[d]
    BY <2>1, <2>2, <2>3 DEF ResultInv, OnPath
  <2>7. home[d] \in Contexts /\ phase[home[d]] \in Cleared
    BY <2>1 DEF DeadInv
  <2>8. k \in Contexts
    BY DEF Contexts
  <2> HIDE DEF P
  <2>9. Len(Append(P, k)) = Len(P) + 1 /\ Append(P, k)[Len(P) + 1] = k
        /\ \A n \in 1 .. Len(P) : Append(P, k)[n] = P[n]
    BY <2>4, <2>8
  <2>10. CASE i \in 1 .. Len(P)
    <3>1. phase[home[d]] = "live"
      BY <2>5, <2>6, <2>9, <2>10 DEF P, Indices
    <3> QED BY <2>7, <3>1 DEF Cleared
  <2>11. CASE i = Len(P) + 1
    <3>1. phase[k] # "live"
      BY <2>5, <2>6, <2>7, <2>9, <2>11 DEF Cleared
    <3>2. phase[path[k][Len(path[k]) - 1]] # "live"
      BY <2>1, <3>1 DEF MarkedInv
    <3>3. path[k][Len(path[k]) - 1] = P[Len(P)] /\ Len(P) \in 1 .. Len(P)
      BY <2>4, <2>5, <2>9
    <3> QED BY <3>2, <3>3 DEF P, Indices
  <2> QED BY <2>4, <2>5, <2>6, <2>9, <2>10, <2>11 DEF Indices
<1> QED BY <1>1, OrderInvariant, PTL
===============================================================================
