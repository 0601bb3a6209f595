-------------------------------- MODULE Models --------------------------------
(* Models: decorators that describe the members of classes, bodies and request *)
(* parameters that are built into models, converted and validated, and the     *)
(* transformer that nests dotted keys.                                         *)
(*                                                                            *)
(* A value is [kind, ...]: "text" with text, "number" with number, "boolean"   *)
(* with boolean, "list" with items, "object" with fields, a function from keys, *)
(* "model" with class and fields, "null" or "undefined".  A member's metadata   *)
(* are a record of what its decorators say: type, valueType, oneOf, required,   *)
(* minLength and so on, each of which may be missing.                          *)
EXTENDS Integers, Sequences, SequencesExt, FiniteSets, Functions, TLC

CONSTANTS BaseOf,           \* class to the class it extends, "" if none
          ModelDecorations, \* sets of [class, member, meta] for an application
          NumberOf,         \* the texts that are numbers, and theirs
          BodySources,      \* [class, source]: bodies, and the model each is bound to
          FlatSources,      \* sequences of <<path, value>>: objects with dotted keys
          ParamMeta,        \* metadata of request parameters: [meta, optional]
          ParamValues,
          MaxBuilds         \* bound: models and parameters built

VARIABLES modelDecorations, \* the decorations of the application
          decorated,        \* those that have been applied, in order
          own,              \* class to member to metadata: getModelMetadata
          built,            \* [class, source, result]: the last model built
          nested,           \* [source, result]: the last keys nested
          builds            \* models and parameters built so far
modelVars == <<modelDecorations, decorated, own, built, nested, builds>>

ModelClasses == DOMAIN BaseOf
Undefined == [kind |-> "undefined"]
Missing(v) == v.kind \in {"null", "undefined"}
Facet(m, f) == IF f \in DOMAIN m THEN m[f] ELSE IF f = "required" THEN FALSE ELSE "none"
Ok(v) == [ok |-> TRUE, value |-> v]
Error == [ok |-> FALSE, value |-> Undefined]

-----------------------------------------------------------------------------
(* The class and those it extends; metadata inherit along it.                  *)
Lineage(c) == LET up[n \in 0..Cardinality(ModelClasses)] == IF n = 0 THEN <<c>>
                    ELSE LET l == up[n - 1] IN IF BaseOf[Last(l)] = "" THEN l ELSE Append(l, BaseOf[Last(l)])
              IN up[Cardinality(ModelClasses)]
GetAllKeys(c) == UNION {DOMAIN own[b] : b \in ToSet(Lineage(c))}
HolderOf(c, member) ==
  LET i == SelectInSeq(Lineage(c), LAMBDA b : member \in DOMAIN own[b]) IN IF i = 0 THEN c ELSE Lineage(c)[i]
ModelMetadata(c, member) == own[HolderOf(c, member)][member]

(* modelDecorator: what getMemberMetadata finds is changed, be it inherited.    *)
ModelDecorator(d) ==
  /\ d \in modelDecorations \ ToSet(decorated)
  /\ \A e \in modelDecorations \ ToSet(decorated) :
       e.class \in ToSet(Lineage(d.class)) => e.class = d.class
  /\ decorated' = Append(decorated, d)
  /\ LET h == HolderOf(d.class, d.member)
         old == IF d.member \in DOMAIN own[h] THEN own[h][d.member] ELSE <<>>
     IN own' = [own EXCEPT ![h] = (d.member :> (d.meta @@ old)) @@ @]
  /\ UNCHANGED <<modelDecorations, built, nested, builds>>

-----------------------------------------------------------------------------
Falsy(v) == Missing(v) \/ v \in {[kind |-> "boolean", boolean |-> FALSE], [kind |-> "number", number |-> 0], [kind |-> "text", text |-> ""]}
LengthOf(v) == IF v.kind = "text" THEN Len(v.text) ELSE IF v.kind = "list" THEN Len(v.items) ELSE -1
\* Number(v): <<>> if it is not one; that of an empty list is 0.
NumberIn(v) == CASE v.kind = "number" -> <<v.number>>
                 [] v.kind = "text" -> IF v.text \in DOMAIN NumberOf THEN <<NumberOf[v.text]>> ELSE <<>>
                 [] v.kind = "boolean" -> <<IF v.boolean THEN 1 ELSE 0>>
                 [] v.kind = "list" -> IF v.items = <<>> THEN <<0>> ELSE <<>>
                 [] OTHER -> <<>>

(* PrimitiveTypeConverter, with the converters of the built-in types.           *)
Convert(type, v) ==
  CASE type = "String" -> Ok(v)
    [] type = "Number" -> IF NumberIn(v) = <<>> THEN Error ELSE Ok([kind |-> "number", number |-> NumberIn(v)[1]])
    [] v.kind = "boolean" -> Ok(v)
    [] v.kind = "number" -> IF v.number \in {0, 1} THEN Ok([kind |-> "boolean", boolean |-> v.number = 1]) ELSE Error
    [] v.kind = "text" -> IF v.text \in {"true", "false"} THEN Ok([kind |-> "boolean", boolean |-> v.text = "true"]) ELSE Error
    [] OTHER -> Error

(* MetadataModelValidator: a set has no length, and so fails a bound on it.      *)
ValidatePresent(m, v) ==
  /\ "pattern" \in DOMAIN m => v \in m.pattern
  /\ {"minLength", "maxLength"} \cap DOMAIN m # {} => LengthOf(v) >= 0
  /\ "minLength" \in DOMAIN m => LengthOf(v) >= m.minLength
  /\ "maxLength" \in DOMAIN m => LengthOf(v) <= m.maxLength
  /\ "minValue" \in DOMAIN m => NumberIn(v) # <<>> /\ NumberIn(v)[1] >= m.minValue
  /\ "maxValue" \in DOMAIN m => NumberIn(v) # <<>> /\ NumberIn(v)[1] <= m.maxValue
\* ValidateMember with a mistake: whatever is falsy is not validated.
ValidateTruthy(m, v) == Falsy(v) \/ ValidatePresent(m, v)
ValidateMember(m, v) == IF Missing(v) THEN ~Facet(m, "required") ELSE ValidatePresent(m, v)

(* getSourceValue: undefined where the source has no such key, or is no object. *)
SourceValue(source, m, key) ==
  LET Get(v, k) == IF v.kind = "object" /\ k \in DOMAIN v.fields THEN v.fields[k] ELSE Undefined
  IN IF "sourceAccessor" \in DOMAIN m THEN FoldLeft(Get, source, m.sourceAccessor) ELSE Get(source, key)

\* The entries of a Map: the fields of an object, or the items of a list by their index.
MapEntries(v) ==
  IF v.kind = "object" THEN v.fields
  ELSE [k \in {ToString(i - 1) : i \in DOMAIN v.items} |-> v.items[CHOOSE i \in DOMAIN v.items : ToString(i - 1) = k]]

AllOk(results) == \A r \in Range(results) : r.ok
ValuesOf(results) == [i \in DOMAIN results |-> results[i].value]

RECURSIVE ConstructMember(_, _), ConstructModel(_, _)
ConstructByType(m, v) ==
  LET Entries(vs) == [i \in DOMAIN vs |-> ConstructMember([type |-> Facet(m, "valueType")], vs[i])]
      KeysOk(vs) == \A k \in DOMAIN vs : ConstructMember([type |-> Facet(m, "keyType")], [kind |-> "text", text |-> k]).ok
      type == Facet(m, "type")
  IN CASE type = "none" -> Ok(v)
       [] type \in {"Array", "Set"} ->
            IF v.kind # "list" \/ ~AllOk(Entries(v.items)) THEN Error
            ELSE IF type = "Array" THEN Ok([v EXCEPT !.items = ValuesOf(Entries(v.items))])
            ELSE Ok([kind |-> "set", elements |-> Range(ValuesOf(Entries(v.items)))])
       [] type = "Map" ->
            IF v.kind \notin {"object", "list"} \/ ~AllOk(Entries(MapEntries(v))) \/ ~KeysOk(MapEntries(v)) THEN Error
            ELSE Ok([kind |-> "map", fields |-> ValuesOf(Entries(MapEntries(v)))])
       [] type = "OneOf" ->
            LET i == SelectInSeq(m.oneOf, LAMBDA t : ConstructMember([type |-> t], v).ok)
            IN IF i = 0 THEN Error ELSE ConstructMember([type |-> m.oneOf[i]], v)
       [] type \in ModelClasses -> ConstructModel(type, v)
       [] OTHER -> Convert(type, v)

(* constructMemberInternal: built unless missing, then validated.                *)
ConstructMember(m, v) ==
  LET r == IF Missing(v) THEN Ok(v) ELSE ConstructByType(m, v)
  IN IF r.ok /\ ValidateMember(m, r.value) THEN r ELSE Error

(* constructModelInternal: every member of the metadata, own or inherited.       *)
ConstructModel(c, source) ==
  LET members == [k \in GetAllKeys(c) |-> ConstructMember(ModelMetadata(c, k), SourceValue(source, ModelMetadata(c, k), k))]
  IN IF AllOk(members) THEN Ok([kind |-> "model", class |-> c, fields |-> ValuesOf(members)]) ELSE Error

-----------------------------------------------------------------------------
(* NestedKeyTransformer: an object in the making is [leaves, objects, empty]: the *)
(* values and the objects at their paths, and the paths to remove at the end.    *)
(* No key is the beginning of another.                                           *)
ProperPrefixes(path) == {SubSeq(path, 1, n) : n \in 1..(Len(path) - 1)}
InitPath(o, entry) ==
  LET above == ProperPrefixes(entry[1])
      there == above \cap o.objects
  IN [leaves |-> (entry[1] :> entry[2]) @@ o.leaves,
      objects |-> o.objects \cup above,
      empty |-> IF Falsy(entry[2]) THEN o.empty \cup (above \ there) ELSE o.empty \ there]
NestKeys(source) ==
  LET o == FoldLeft(InitPath, [leaves |-> <<>>, objects |-> {}, empty |-> {}], source)
      kept == {p \in DOMAIN o.leaves : o.empty \cap ProperPrefixes(p) = {}}
  IN [p \in kept |-> o.leaves[p]]

-----------------------------------------------------------------------------
ModelsInit ==
  /\ modelDecorations \in ModelDecorations /\ decorated = <<>> /\ own = [c \in ModelClasses |-> <<>>]
  /\ built = [class |-> ""] /\ nested = [source |-> <<>>, result |-> <<>>] /\ builds = 0

Ready == Len(decorated) = Cardinality(modelDecorations) /\ builds < MaxBuilds
Counted == builds' = builds + 1 /\ UNCHANGED <<modelDecorations, decorated, own>>

(* @RequestBody: the model of a body, or the request is refused.                 *)
RequestBody(b) ==
  /\ Ready /\ Counted /\ UNCHANGED nested
  /\ built' = [class |-> b.class, source |-> b.source, result |->
        IF Falsy(b.source) THEN Ok(Undefined) ELSE ConstructModel(b.class, b.source)]

(* requestParamValidatorFactory: a value that is missing is refused unless       *)
(* optional.                                                                     *)
ValidParam(p, v) ==
  IF v = Undefined THEN (IF p.optional THEN Ok(v) ELSE Error) ELSE ConstructMember(p.meta, v)

(* @PathParam, @QueryParam: what is injected for the parameter of a handler.     *)
RequestParam(p, v) ==
  /\ Ready /\ Counted /\ UNCHANGED nested
  /\ built' = [class |-> "", source |-> v, param |-> p, result |-> ValidParam(p, v)]

TransformKeys(source) ==
  /\ Ready /\ Counted /\ UNCHANGED built /\ nested' = [source |-> source, result |-> NestKeys(source)]

ModelsNext ==
  \/ \E d \in modelDecorations : ModelDecorator(d)
  \/ \E b \in BodySources : RequestBody(b)
  \/ \E p \in ParamMeta, v \in ParamValues : RequestParam(p, v)
  \/ \E source \in FlatSources : TransformKeys(source)
ModelsSpec == ModelsInit /\ [][ModelsNext]_modelVars

-----------------------------------------------------------------------------
\* What the decorators of a class and those it extends say of a member.
DeclaredMeta(c, member) ==
  LET mine == SelectSeq(decorated, LAMBDA d : d.member = member /\ d.class \in ToSet(Lineage(c)))
  IN FoldLeft(LAMBDA m, d : d.meta @@ m, <<>>, mine)
\* A class that extends another decorates a member of it again, which changes both.
Redecorated(member) == \E i, j \in DOMAIN decorated :
  decorated[i].member = member /\ decorated[j].member = member /\ decorated[i].class # decorated[j].class
DeclaredMembers(c) == {d.member : d \in {e \in ToSet(decorated) : e.class \in ToSet(Lineage(c))}}

RECURSIVE Fits(_, _), FitsModel(_, _)
Fits(m, v) ==
  LET type == Facet(m, "type")
      Each(vs) == \A x \in vs : Fits([type |-> Facet(m, "valueType")], x)
  IN IF Missing(v) THEN ~Facet(m, "required")
     ELSE /\ CASE type = "Number" -> v.kind = "number"
               [] type = "Boolean" -> v.kind = "boolean"
               [] type = "Array" -> v.kind = "list" /\ Each(Range(v.items))
               [] type = "Set" -> v.kind = "set" /\ Each(v.elements)
               [] type = "Map" -> v.kind = "map" /\ Each(Range(v.fields))
               [] type = "OneOf" -> \E t \in ToSet(m.oneOf) : Fits([type |-> t], v)
               [] type \in ModelClasses -> v.kind = "model" /\ FitsModel(type, v)
               [] OTHER -> TRUE
          /\ "minLength" \in DOMAIN m => LengthOf(v) >= m.minLength
          /\ "maxLength" \in DOMAIN m => LengthOf(v) <= m.maxLength
          /\ "minValue" \in DOMAIN m => NumberIn(v) # <<>> /\ NumberIn(v)[1] >= m.minValue
          /\ "maxValue" \in DOMAIN m => NumberIn(v) # <<>> /\ NumberIn(v)[1] <= m.maxValue
FitsModel(c, v) ==
  /\ v.class = c /\ DOMAIN v.fields = DeclaredMembers(c)
  /\ \A k \in DeclaredMembers(c) : ~Redecorated(k) => Fits(DeclaredMeta(c, k), v.fields[k])

(* A model that a handler gets has the members that its class and those it       *)
(* extends declare, with values of their types that fit the constraints, in      *)
(* lists, sets, maps and models within it too, and so has a parameter, whatever   *)
(* the order of decorators, except for a member that a class and one that it      *)
(* extends both decorate.  Nesting dotted keys loses no value but those that      *)
(* are falsy, in an object that holds nothing else.                               *)
ModelsAsDeclared ==
  /\ built.class # "" /\ built.result.ok =>
       \/ Falsy(built.source)
       \/ FitsModel(built.class, built.result.value)
  /\ "param" \in DOMAIN built /\ built.result.ok =>
       \/ built.param.optional /\ built.result.value = Undefined
       \/ Fits(built.param.meta, built.result.value)
  /\ \A e \in ToSet(nested.source) :
       \/ e[1] \in DOMAIN nested.result /\ nested.result[e[1]] = e[2]
       \/ \E p \in ProperPrefixes(e[1]) : \A u \in ToSet(nested.source) : IsPrefix(p, u[1]) => Falsy(u[2])
=============================================================================
