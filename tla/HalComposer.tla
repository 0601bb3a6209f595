----------------------------- MODULE HalComposer -----------------------------
(* dandi/mvc-hal: DefaultResourceComposer adds to a resource the related      *)
(* resources a request names in `_embedded`, by calling the controllers of    *)
(* the relations, all at once, and so on for each of what they return.        *)
(*                                                                            *)
(* `_embedded` is a sequence of paths, a path a sequence of relations.  The   *)
(* work under way is a tree: a call of a controller, below it the resources   *)
(* it returned, below each the calls for the paths it is composed with.  The  *)
(* identity of a call or resource is its place in the tree.                   *)
EXTENDS Naturals, Sequences, SequencesExt

CONSTANTS Types,
          OwnRelations,  \* of a type: name to [resource, list]
          ResourceLineage,       \* of a type: the class and those it extends, in order
          DecoratorOrders, \* sequences of [type, kind], one is chosen: the decorators
                         \* that make metadata, the accessors "get" or "list" (if GET)
          OwnIdTypes,    \* types with a relation to themselves that goes by their own id
          RootType,      \* what the route of the request returns
          RootIsList,
          Asks,          \* values of _embedded, one is chosen
          MaxItems       \* bound: resources in one list

(* A path has at least one relation; relations lead to resources.             *)
ASSUME HalAssumption ==
  /\ RootType \in Types /\ MaxItems \in Nat
  /\ \A type \in Types : \A rel \in DOMAIN OwnRelations[type] : OwnRelations[type][rel].resource \in Types
  /\ \A ask \in Asks : ask \in Seq(ToSet(ask)) /\ \A path \in ToSet(ask) : path \in Seq(ToSet(path)) \ {<<>>}

VARIABLES asked,            \* _embedded
          decoratorOrder,   \* the order the decorators of the application ran in
          composedCalls, composed,
          halResponse,      \* "none", "rendered" or "failed"
          controllerFailed  \* history: a controller failed, or what it returned has
                            \* no id, or is null where one resource is embedded
halVars == <<asked, decoratorOrder, composedCalls, composed, halResponse, controllerFailed>>

-----------------------------------------------------------------------------
(* CompositeResourceMetadata: what is merged of a parent's relations is        *)
(* dropped, so that a resource has its own only.                               *)
RelationsOf(type) == OwnRelations[type]
HasRelation(type, rel) == rel \in DOMAIN RelationsOf(type)

(* The metadata of a class are made by the first decorator for it or for one   *)
(* that extends it, and inherit the accessors its parent has then.             *)
IsMadeBefore(type, i) == \E j \in 1..(i - 1) : type \in ToSet(ResourceLineage[decoratorOrder[j].type])
HasAccessor(type, list) ==
  \E k \in DOMAIN ResourceLineage[type], i \in DOMAIN decoratorOrder :
    /\ decoratorOrder[i] = [type |-> ResourceLineage[type][k], kind |-> IF list THEN "list" ELSE "get"]
    /\ k = 1 \/ ~IsMadeBefore(ResourceLineage[type][k - 1], i)

(* getUrl for every relation, before anything is embedded; in vain if a method *)
(* does not answer GET, which counts as no accessor, or for lack of an id.     *)
LinksFail(type) ==
  \E rel \in DOMAIN RelationsOf(type) :
    ~HasAccessor(RelationsOf(type)[rel].resource, RelationsOf(type)[rel].list)

(* CompositionContext.childFor: the tails of the nested paths of the parent,   *)
(* whichever relation they begin with (the parameter rel is hidden by the one  *)
(* of the callback).  A context keeps a path by its place in `_embedded`.      *)
Nested(paths) == {i \in DOMAIN paths : Len(paths[i]) > 1}
ChildContext(paths, rel) == [i \in Nested(paths) |-> Tail(paths[i])]

(* The paths which compose() can embed; another makes it fail.                 *)
IsEmbeddable(type, path) == HasRelation(type, Head(path))

(* A resource as compose() leaves it at its first await, and the calls it has  *)
(* begun: one for each path, also for two with the same relation.              *)
NewResource(type, paths, k, idless) ==
  [type |-> type, context |-> paths, embedded |-> <<>>,
   pc |-> IF k \in idless \/ LinksFail(type) \/ \E p \in ToSet(paths) : ~IsEmbeddable(type, p)
          THEN "failed" ELSE "composing"]
NewCall(type, path, paths) ==
  LET relation == RelationsOf(type)[Head(path)]
  IN [rel |-> Head(path), type |-> relation.resource, list |-> relation.list, pc |-> "calling", items |-> 0,
      context |-> ChildContext(paths, Head(path))]
Begun(type, paths) ==
  IF LinksFail(type) THEN {} ELSE {i \in DOMAIN paths : IsEmbeddable(type, paths[i])}

-----------------------------------------------------------------------------
HalInit ==
  /\ asked \in Asks /\ decoratorOrder \in DecoratorOrders
  /\ composedCalls = [id \in {<<>>} |-> [rel |-> "root", type |-> RootType, list |-> RootIsList, pc |-> "calling",
                                         items |-> 0, context |-> asked]]
  /\ composed = <<>>
  /\ halResponse = "none" /\ controllerFailed = FALSE

(* A controller returns n resources, some without the id their links need;     *)
(* none is null or an empty list.  Each is composed up to its first await: one  *)
(* whose links fail begins no calls.                                           *)
ControllerReturns(c, n, idless) ==
  /\ composedCalls[c].pc = "calling"
  /\ n <= (IF composedCalls[c].list THEN MaxItems ELSE 1)
  /\ idless \subseteq 1..n /\ composedCalls[c].type \notin OwnIdTypes => idless = {}
  /\ LET call == composedCalls[c]
         new == {Append(c, k) : k \in 1..n}
         calls == UNION {{Append(r, i) : i \in Begun(call.type, call.context)} : r \in {Append(c, k) : k \in (1..n) \ idless}}
     IN /\ composed' = [r \in DOMAIN composed \cup new |->
              IF r \in new THEN NewResource(call.type, call.context, Last(r), idless) ELSE composed[r]]
        /\ composedCalls' = [d \in DOMAIN composedCalls \cup calls |->
              IF d = c THEN [call EXCEPT !.pc = "composing", !.items = n]
              ELSE IF d \in calls THEN NewCall(call.type, call.context[Last(d)], call.context)
              ELSE composedCalls[d]]
        /\ controllerFailed' = (controllerFailed \/ idless # {} \/ (n = 0 /\ ~call.list /\ c # <<>>))
  /\ UNCHANGED <<asked, decoratorOrder, halResponse>>

ControllerFails(c) ==
  /\ composedCalls[c].pc = "calling"
  /\ composedCalls' = [composedCalls EXCEPT ![c].pc = "failed"]
  /\ controllerFailed' = TRUE
  /\ UNCHANGED <<asked, decoratorOrder, composed, halResponse>>

ItemsOf(c) == {Append(c, k) : k \in 1..composedCalls[c].items}
CallsOf(r) == {d \in DOMAIN composedCalls : d # <<>> /\ Front(d) = r}

(* Promise.all over the resources of a call, and embedResource() with the      *)
(* result, be it null; a later call for the same relation replaces it.         *)
Embed(c) ==
  /\ composedCalls[c].pc = "composing" /\ \A r \in ItemsOf(c) : composed[r].pc = "done"
  /\ composedCalls' = [composedCalls EXCEPT ![c].pc = "done"]
  /\ composed' = IF c = <<>> THEN composed
                 ELSE [composed EXCEPT ![Front(c)].embedded =
                         [rel \in DOMAIN @ \cup {composedCalls[c].rel} |->
                            IF rel = composedCalls[c].rel THEN c ELSE @[rel]]]
  /\ UNCHANGED <<asked, decoratorOrder, halResponse, controllerFailed>>

(* The first failure ends the wait of whoever awaits it; the others go on.     *)
CallFails(c) ==
  /\ composedCalls[c].pc = "composing" /\ \E r \in ItemsOf(c) : composed[r].pc = "failed"
  /\ composedCalls' = [composedCalls EXCEPT ![c].pc = "failed"]
  /\ UNCHANGED <<asked, decoratorOrder, composed, halResponse, controllerFailed>>

EmbedFails(r) ==
  /\ composed[r].pc = "composing" /\ \E c \in CallsOf(r) : composedCalls[c].pc = "failed"
  /\ composed' = [composed EXCEPT ![r].pc = "failed"]
  /\ UNCHANGED <<asked, decoratorOrder, composedCalls, halResponse, controllerFailed>>

\* FinishResource with a mistake: it waits for the first of its calls.
FinishResourceEarly(r) ==
  /\ composed[r].pc = "composing"
  /\ CallsOf(r) # {} => \E c \in CallsOf(r) : composedCalls[c].pc = "done"
  /\ composed' = [composed EXCEPT ![r].pc = IF HasAccessor(composed[r].type, FALSE) THEN "done" ELSE "failed"]
  /\ UNCHANGED <<asked, decoratorOrder, composedCalls, halResponse, controllerFailed>>

(* All is embedded; the self link, last, needs an accessor of the resource.    *)
FinishResource(r) ==
  /\ composed[r].pc = "composing" /\ \A c \in CallsOf(r) : composedCalls[c].pc = "done"
  /\ composed' = [composed EXCEPT ![r].pc = IF HasAccessor(composed[r].type, FALSE) THEN "done" ELSE "failed"]
  /\ UNCHANGED <<asked, decoratorOrder, composedCalls, halResponse, controllerFailed>>

(* What the response shows: the resources all of whose ancestors were embedded *)
(* and not replaced.                                                           *)
Shown(r) ==
  \A i \in 1..((Len(r) - 1) \div 2) :
    LET call == SubSeq(r, 1, 2 * i)  parent == SubSeq(r, 1, 2 * i - 1)
    IN composed[parent].embedded[composedCalls[call].rel] = call

(* toJSON of what is shown fails where null has been embedded for a resource.   *)
IsNull(c) == ~composedCalls[c].list /\ composedCalls[c].items = 0
RenderResponse ==
  /\ composedCalls[<<>>].pc = "done" /\ halResponse = "none"
  /\ halResponse' = IF \E r \in DOMAIN composed : Shown(r) /\ \E rel \in DOMAIN composed[r].embedded : IsNull(composed[r].embedded[rel])
                    THEN "failed" ELSE "rendered"
  /\ UNCHANGED <<asked, decoratorOrder, composedCalls, composed, controllerFailed>>

HalNext ==
  \/ \E c \in DOMAIN composedCalls :
       \/ Embed(c) \/ CallFails(c) \/ ControllerFails(c)
       \/ \E n \in 0..MaxItems : \E idless \in SUBSET (1..n) : ControllerReturns(c, n, idless)
  \/ \E r \in DOMAIN composed : EmbedFails(r) \/ FinishResource(r)
  \/ RenderResponse

HalSpec == HalInit /\ [][HalNext]_halVars

-----------------------------------------------------------------------------
(* The relations that lead to a resource, and what was asked for there.        *)
Ancestors(r) == [i \in 1..((Len(r) - 1) \div 2) |-> composedCalls[SubSeq(r, 1, 2 * i)].rel]
AskedAt(rels) == {p[Len(rels) + 1] : p \in {p \in ToSet(asked) : Len(p) > Len(rels) /\ IsPrefix(rels, p)}}

(* A path goes on only from the relation which all the others have in its      *)
(* place: then a context holds the paths of its own relation only.             *)
OneBranch ==
  \A p, q \in ToSet(asked) : \A d \in DOMAIN p \cap DOMAIN q :
    d < Len(p) => p[d] = q[d]

(* The relations of every path exist and have accessors, and so do those of    *)
(* all types on the way.                                                       *)
Leads(types, path) ==
  /\ types[0] = RootType
  /\ \A k \in DOMAIN path :
       HasRelation(types[k - 1], path[k]) /\ types[k] = RelationsOf(types[k - 1])[path[k]].resource
Answerable ==
  /\ \A path \in ToSet(asked) : \E types \in [0..Len(path) -> Types] : Leads(types, path)
  /\ \A type \in Types : HasAccessor(type, FALSE) /\ ~LinksFail(type)

(* A response embeds all the relations asked for, at every resource where they *)
(* were, whatever order the controllers answered in; and no other, if the      *)
(* paths have one branch.  If they also exist, nothing fails but for what a    *)
(* controller does: it fails, or returns null or a resource without an id.     *)
EmbedsWhatIsAsked ==
  /\ halResponse = "rendered" =>
       \A r \in DOMAIN composed : Shown(r) =>
         /\ AskedAt(Ancestors(r)) \subseteq DOMAIN composed[r].embedded
         /\ OneBranch => DOMAIN composed[r].embedded = AskedAt(Ancestors(r))
  /\ OneBranch /\ Answerable /\ ~controllerFailed =>
       halResponse # "failed" /\ \A c \in DOMAIN composedCalls : composedCalls[c].pc # "failed"

(* The README of mvc-hal: the default composer will "embed any relations          *)
(* specified on the request by the `_embedded` querystring param".  If all exist *)
(* and no controller fails, that is what a request gets.                        *)
AnswerableIsComposed ==
  Answerable /\ ~controllerFailed => \A c \in DOMAIN composedCalls : composedCalls[c].pc # "failed"
==============================================================================
