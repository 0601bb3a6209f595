--------------------------- MODULE PipelinePreparers ---------------------------
(* The preparers of one request (HttpPipelinePreparer) and HttpPipeline.prepare, *)
(* which asks for the result of one preparer of config.before after the other. *)
(* A result has what the preparer provides, after the results of those it      *)
(* depends on.  The request's context keeps results by preparer but knows those *)
(* under way by provider, and each preparer has providers of its own for the   *)
(* results of its dependencies: a provider is named by the path of preparers   *)
(* that leads to it.                                                           *)
EXTENDS Naturals, Sequences, SequencesExt, FiniteSets

CONSTANTS PreparerClasses,
          PipelineConfigs    \* [before, deps]

(* A class is decorated after those it depends on: there is no circle.         *)
ASSUME PreparersAssumption ==
  /\ IsFiniteSet(PreparerClasses)
  /\ \A config \in PipelineConfigs :
       /\ config.before \in Seq(PreparerClasses)
       /\ config.deps \in [PreparerClasses -> Seq(PreparerClasses)]
       /\ \E decorated \in [PreparerClasses -> 0..Cardinality(PreparerClasses)] :
            \A p \in PreparerClasses : \A d \in ToSet(config.deps[p]) : decorated[d] < decorated[p]

VARIABLES pipelineConfig,
          turn,              \* index in before of the preparer asked for
          generations,       \* what is asked for in this turn: path to [pc, run, sees, result]
          requestInstances,  \* results kept by the request's context
          preparedProviders, \* what prepare() has collected
          outcome,           \* "preparing", "prepared" or "rejected"
          runsOf             \* history: how often each preparer has been run
preparerVars == <<pipelineConfig, turn, generations, requestInstances, preparedProviders, outcome, runsOf>>

Before == pipelineConfig.before
DepsOfPreparer(p) == pipelineConfig.deps[p]
Below(path) == [i \in DOMAIN DepsOfPreparer(Last(path)) |-> Append(path, DepsOfPreparer(Last(path))[i])]
AtPc(pc) == {path \in DOMAIN generations : generations[path].pc = pc}

PreparersInit ==
  /\ pipelineConfig \in PipelineConfigs
  /\ turn = 1 /\ outcome = "preparing"
  /\ generations = <<>> /\ requestInstances = <<>> /\ preparedProviders = <<>>
  /\ runsOf = [p \in PreparerClasses |-> 0]

Generation(path, g) == generations' = [q \in DOMAIN generations \cup {path} |-> IF q = path THEN g ELSE generations[q]]

(* The result of the preparer whose turn it is, and those of all dependencies  *)
(* of one that is being generated.                                             *)
AskedFor ==
  (IF outcome = "preparing" /\ turn <= Len(Before) THEN {<<Before[turn]>>} ELSE {})
  \cup UNION {ToSet(Below(path)) : path \in AtPc("waiting")}

(* A result that is kept already is taken; else it is generated.               *)
InjectResult(path) ==
  /\ path \in AskedFor \ DOMAIN generations
  /\ Generation(path, IF Last(path) \in DOMAIN requestInstances
                      THEN [pc |-> "done", run |-> 0, sees |-> <<>>, result |-> requestInstances[Last(path)]]
                      ELSE [pc |-> "waiting", run |-> 0, sees |-> <<>>, result |-> <<>>])
  /\ UNCHANGED <<pipelineConfig, turn, requestInstances, preparedProviders, outcome, runsOf>>

\* Dependencies with a mistake: the last one is not waited for.
AllButLast(path) == IF Below(path) = <<>> THEN <<>> ELSE Front(Below(path))

Dependencies(path) == Below(path)

(* All dependencies have a result: the preparer is injected where it finds what *)
(* these provide (allDependentResults), and prepare() is called.               *)
RunPreparer(path) ==
  /\ path \in AtPc("waiting") /\ ToSet(Dependencies(path)) \subseteq AtPc("done")
  /\ runsOf' = [runsOf EXCEPT ![Last(path)] = @ + 1]
  /\ LET deps == Dependencies(path) IN
     Generation(path, [pc |-> "running", run |-> runsOf'[Last(path)], result |-> <<>>,
                       sees |-> FlattenSeq([i \in DOMAIN deps |-> generations[deps[i]].result])])
  /\ UNCHANGED <<pipelineConfig, turn, requestInstances, preparedProviders, outcome>>

(* addInstance replaces what another run of the preparer has left.             *)
PreparerReturns(path) ==
  /\ path \in AtPc("running")
  /\ LET g == generations[path]
         result == Append(g.sees, [by |-> Last(path), run |-> g.run])
     IN /\ Generation(path, [g EXCEPT !.pc = "done", !.result = result])
        /\ requestInstances' = [p \in DOMAIN requestInstances \cup {Last(path)} |->
                                  IF p = Last(path) THEN result ELSE requestInstances[p]]
  /\ UNCHANGED <<pipelineConfig, turn, preparedProviders, outcome, runsOf>>

(* A preparer cannot be injected or fails; so does what waits for it, while    *)
(* other dependencies go on (until the request's injector is disposed).        *)
PreparerFails(path) ==
  /\ path \in AtPc("running") \cup {q \in AtPc("waiting") : ToSet(Below(q)) \cap AtPc("failed") # {}}
  /\ Generation(path, [generations[path] EXCEPT !.pc = "failed"])
  /\ UNCHANGED <<pipelineConfig, turn, requestInstances, preparedProviders, outcome, runsOf>>

NextPreparer ==
  /\ outcome = "preparing" /\ turn <= Len(Before) /\ <<Before[turn]>> \in AtPc("done")
  /\ preparedProviders' = preparedProviders \o generations[<<Before[turn]>>].result
  /\ turn' = turn + 1 /\ generations' = <<>>
  /\ UNCHANGED <<pipelineConfig, requestInstances, outcome, runsOf>>

PrepareEnds ==
  /\ outcome = "preparing"
  /\ \/ turn > Len(Before) /\ outcome' = "prepared"
     \/ turn <= Len(Before) /\ <<Before[turn]>> \in AtPc("failed") /\ outcome' = "rejected"
  /\ UNCHANGED <<pipelineConfig, turn, generations, requestInstances, preparedProviders, runsOf>>

PreparersNext ==
  \/ \E path \in AskedFor \cup DOMAIN generations :
       InjectResult(path) \/ RunPreparer(path) \/ PreparerReturns(path) \/ PreparerFails(path)
  \/ NextPreparer \/ PrepareEnds
PreparersSpec == PreparersInit /\ [][PreparersNext]_preparerVars

-----------------------------------------------------------------------------
(* All ways to depend: paths from a preparer down to one it depends on.        *)
PathsFrom(p) ==
  LET paths[q \in PreparerClasses] ==
        {<<q>>} \cup UNION {{<<q>> \o path : path \in paths[d]} : d \in ToSet(DepsOfPreparer(q))}
  IN paths[p]
ReachedFrom(p) == {Last(path) : path \in PathsFrom(p)}
(* Asked for twice at once: on two paths from a preparer of config.before, none *)
(* of those before it having asked for it.                                     *)
AskedTwice(p) ==
  \E i \in DOMAIN Before :
    /\ \E path, other \in PathsFrom(Before[i]) : path # other /\ Last(path) = p /\ Last(other) = p
    /\ \A j \in 1..(i - 1) : p \notin ReachedFrom(Before[j])
(* The provider that counts is the last one registered.                        *)
LatestOf(providers, p) ==
  LET of == {i \in DOMAIN providers : providers[i].by = p} IN IF of = {} THEN 0 ELSE providers[Max(of)].run

(* "They will automatically be invoked in the correct order" (README): a        *)
(* preparer runs when all that it depends on, directly or not, has run, and     *)
(* finds what that provides - the same that the request handler finds, where    *)
(* each is there; and no preparer runs twice in a request, be it depended on    *)
(* and configured or configured twice, unless two preparers that run at once    *)
(* depend on it.                                                               *)
PreparedInOrder ==
  /\ \A path \in AtPc("running") :
       \A p \in ReachedFrom(Last(path)) \ {Last(path)} :
         /\ LatestOf(generations[path].sees, p) # 0
         /\ ~AskedTwice(p) => LatestOf(generations[path].sees, p) = 1
  /\ \A p \in PreparerClasses : runsOf[p] > 1 => AskedTwice(p)
  /\ outcome = "prepared" =>
       \A i \in DOMAIN Before : \A p \in ReachedFrom(Before[i]) :
         LatestOf(preparedProviders, p) \in 1..runsOf[p]
===============================================================================
