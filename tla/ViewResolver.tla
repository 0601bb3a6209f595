---------------------------- MODULE ViewResolver -----------------------------
(* dandi/mvc-view: the choice of a view for a result (ViewResultFactory) and  *)
(* of a template and its engine for a view (ViewEngineResolver), while        *)
(* renderings run at once and template files come and go.  A template is      *)
(* named by its base name and its extensions; a view may name an extension.   *)
EXTENDS Integers, Sequences, SequencesExt, TLC

CONSTANTS ViewConfigs,    \* the configured engines in the order of registration
          NoPriority,     \* the priority of those that have none
          RouteViews,     \* views of the route: [path, accepts], accepts = {} is no filter
          ErrorTemplates, \* merged error configuration: status (or "default") to path
          Requests,       \* what is rendered: [error, status, accept]
          Renderings,     \* calls of MvcViewRenderer
          Templates,      \* files which may exist
          MaxChanges      \* bound: files that come or go
ViewPaths == [base : STRING, ext : Seq(STRING)]
ASSUME ViewAssumption ==
  /\ ViewConfigs \in Seq([extension : STRING, priority : Int \cup {NoPriority}])
  /\ RouteViews \in Seq([path : ViewPaths, accepts : SUBSET STRING])
  /\ \A s \in DOMAIN ErrorTemplates : ErrorTemplates[s] \in ViewPaths

VARIABLES files,          \* the files that exist
          resolvedViews,  \* the resolver's cache: path to template
          rendering,      \* where each rendering is
          changes,
          absent          \* history: templates missing at some time during a rendering
viewVars == <<files, resolvedViews, rendering, changes, absent>>

-----------------------------------------------------------------------------
(* The constructor of the resolver: configurations that have a priority first, *)
(* then in the order of registration; a second one for an extension is         *)
(* ignored.                                                                    *)
Indexed == [i \in DOMAIN ViewConfigs |->
  [extension |-> ViewConfigs[i].extension, priority |-> ViewConfigs[i].priority, index |-> i]]
HasPriority(c) == c.priority # NoPriority
\* Precedes with a mistake: a missing priority is compared like a number.
PrecedesByNumber(a, b) ==
  a.priority < b.priority \/ (a.priority = b.priority /\ a.index < b.index)

Precedes(a, b) ==
  IF HasPriority(a) /\ HasPriority(b) /\ a.priority # b.priority THEN a.priority < b.priority
  ELSE IF HasPriority(a) # HasPriority(b) THEN HasPriority(a)
  ELSE a.index < b.index

Sorted == CHOOSE s \in [DOMAIN ViewConfigs -> ToSet(Indexed)] :
  ToSet(s) = ToSet(Indexed) /\ \A i, j \in DOMAIN s : i < j => Precedes(s[i], s[j])
Ignored(i) == \E j \in 1..(i - 1) : Sorted[j].extension = Sorted[i].extension
Usable == {i \in DOMAIN Sorted : ~Ignored(i)}
Supported == {Sorted[i].extension : i \in Usable}

(* viewResultFactory: the template of an error, or the first view whose filter *)
(* accepts the request.                                                        *)
Status(q) == IF q.status # "none" THEN q.status ELSE "500"
CanUseView(v, q) == v.accepts = {} \/ q.accept \in v.accepts
ErrorPath(q) == IF Status(q) \in DOMAIN ErrorTemplates THEN {ErrorTemplates[Status(q)]}
                ELSE IF "default" \in DOMAIN ErrorTemplates THEN {ErrorTemplates["default"]} ELSE {}
UsableView(q) == SelectInSeq(RouteViews, LAMBDA v : CanUseView(v, q))
PathsFor(q) == IF q.error THEN ErrorPath(q)
               ELSE IF UsableView(q) = 0 THEN {} ELSE {RouteViews[UsableView(q)].path}

(* resolveFile: the file itself, if its extension is supported, then the path  *)
(* with the extension of each configuration that is not ignored.               *)
Own(path) == [base |-> path.base, ext |-> path.ext]
With(path, extension) == [base |-> path.base, ext |-> Append(path.ext, extension)]
OwnSupported(path) == path.ext # <<>> /\ Last(path.ext) \in Supported
Tried(path) == (IF OwnSupported(path) THEN {0} ELSE {}) \cup Usable
Candidate(path, i) == IF i = 0 THEN Own(path) ELSE With(path, Sorted[i].extension)

-----------------------------------------------------------------------------
ViewInit ==
  /\ files = {} /\ changes = 0
  /\ resolvedViews = <<>>
  /\ rendering = [r \in Renderings |-> [pc |-> "new"]]
  /\ absent = [r \in Renderings |-> {}]

Cached(path) == path \in DOMAIN resolvedViews

(* Up to the first await: choose the path; answer from the cache.              *)
Begin(r, q) ==
  /\ rendering[r].pc = "new"
  /\ rendering' = [rendering EXCEPT ![r] =
       IF PathsFor(q) = {} THEN [pc |-> "noView", request |-> q]
       ELSE LET path == CHOOSE p \in PathsFor(q) : TRUE
            IN IF Cached(path) THEN [pc |-> "done", path |-> path, template |-> resolvedViews[path], fresh |-> FALSE]
               ELSE [pc |-> "trying", path |-> path, at |-> 0]]
  /\ absent' = [absent EXCEPT ![r] = Templates \ files]
  /\ UNCHANGED <<files, resolvedViews, changes>>

(* One call of exists().                                                       *)
TryNext(r) ==
  /\ rendering[r].pc = "trying"
  /\ LET c == rendering[r]
         left == {i \in Tried(c.path) : i >= c.at}
     IN rendering' = [rendering EXCEPT ![r] =
          IF left = {} THEN [pc |-> "missing", path |-> c.path]
          ELSE IF Candidate(c.path, Min(left)) \in files
               THEN [pc |-> "found", path |-> c.path, template |-> Candidate(c.path, Min(left))]
               ELSE [pc |-> "trying", path |-> c.path, at |-> Min(left) + 1]]
  /\ UNCHANGED <<files, resolvedViews, changes, absent>>

(* The engine has been injected: remember the view.  If it cannot be injected, *)
(* nothing is remembered.                                                      *)
EngineInjected(r) ==
  /\ rendering[r].pc = "found"
  /\ LET c == rendering[r] IN
     /\ resolvedViews' = (c.path :> c.template) @@ resolvedViews
     /\ rendering' = [rendering EXCEPT ![r] = [pc |-> "done", path |-> c.path, template |-> c.template, fresh |-> TRUE]]
  /\ UNCHANGED <<files, changes, absent>>

EngineFails(r) ==
  /\ rendering[r].pc = "found"
  /\ rendering' = [rendering EXCEPT ![r] = [pc |-> "failed"]]
  /\ UNCHANGED <<files, resolvedViews, changes, absent>>

FileChanges(t) ==
  /\ changes < MaxChanges /\ changes' = changes + 1
  /\ files' = IF t \in files THEN files \ {t} ELSE files \cup {t}
  /\ absent' = [r \in Renderings |->
                  IF rendering[r].pc \in {"trying", "found"} THEN absent[r] \cup (Templates \ files') ELSE absent[r]]
  /\ UNCHANGED <<resolvedViews, rendering>>

ViewNext ==
  \/ \E r \in Renderings :
       TryNext(r) \/ EngineInjected(r) \/ EngineFails(r) \/ \E q \in Requests : Begin(r, q)
  \/ \E t \in Templates : FileChanges(t)

ViewSpec == ViewInit /\ [][ViewNext]_viewVars

-----------------------------------------------------------------------------
(* The order of preference that the comment in the constructor gives: has a    *)
(* priority, ascending priority, ascending index.                              *)
Preferred(i, j) ==
  LET a == ViewConfigs[i]  b == ViewConfigs[j] IN
  IF HasPriority(a) # HasPriority(b) THEN HasPriority(a)
  ELSE IF HasPriority(a) /\ a.priority # b.priority THEN a.priority < b.priority
  ELSE i < j
Effective == {i \in DOMAIN ViewConfigs :
                \A k \in DOMAIN ViewConfigs \ {i} : ViewConfigs[k].extension = ViewConfigs[i].extension => Preferred(i, k)}
Alternative(path, i) == With(path, ViewConfigs[i].extension)
PreferredTo(path, t) ==
  IF OwnSupported(path) /\ t = Own(path) THEN {}
  ELSE {Own(path) : x \in {x \in {path} : OwnSupported(x)}}
       \cup UNION {{Alternative(path, i) : i \in {i \in Effective : Preferred(i, j)}} :
                      j \in {j \in Effective : t = Alternative(path, j)}}

(* A template is resolved only if every template preferred to it was missing   *)
(* at some time meanwhile; likewise all of them, if the view is said to have   *)
(* none.                                                                       *)
PreferredView ==
  \A r \in Renderings :
    /\ rendering[r].pc = "done" /\ rendering[r].fresh =>
          PreferredTo(rendering[r].path, rendering[r].template) \cap Templates \subseteq absent[r]
    /\ rendering[r].pc = "missing" =>
          {Alternative(rendering[r].path, i) : i \in Effective} \cap Templates \subseteq absent[r]
=============================================================================
