-------------------------------- MODULE Scopes --------------------------------
(* Injection scopes: what the scope of an injector context and the restriction *)
(* of a provider or its token say about the context that keeps an instance.    *)
(*                                                                            *)
(* A scope is a record of a kind: "class" or "function" (one without prototype, *)
(* as arrow functions are) or "string" with an id; "custom" with type, of       *)
(* typeKind "symbol" or "class", and id; "dependency" with target, methodName   *)
(* and paramName; "factoryParam" with target and paramToken; "invoke" and       *)
(* "invokeParam" with instance, methodName and paramName.                      *)
(* A restriction is [behavior, scope], either of which may be missing.          *)
EXTENDS Naturals, Sequences, SequencesExt, FiniteSets

CONSTANTS ScopeProviders,  \* [token, given, scopeId, restriction, tokenRestriction]
          NewScopes,       \* scopes that contexts are made for, besides those of providers
          RootScope, NoRestriction,
          MaxContexts,     \* bound: contexts
          MaxAsks          \* bound: instances asked for

(* Scopes have the fields of their kind.  A method has a name, a dependency and *)
(* a parameter of a factory a target, which is a class, a function, an instance *)
(* or a string for the former and the provider for the latter.                 *)
FieldsOf == [class |-> {"id"}, function |-> {"id"}, string |-> {"id"}, custom |-> {"type", "typeKind", "id"},
             dependency |-> {"target", "methodName", "paramName"}, factoryParam |-> {"target", "paramToken"},
             invoke |-> {"instance", "methodName"}, invokeParam |-> {"instance", "methodName", "paramName"}]
WellFormed(s) ==
  /\ s.kind \in DOMAIN FieldsOf /\ s = [f \in {"kind"} \cup FieldsOf[s.kind] |-> s[f]]
  /\ s.kind = "custom" => s.typeKind \in {"symbol", "class"}
  /\ s.kind \in {"dependency", "factoryParam"} => s.target # "undefined"
  /\ s.kind \in {"invoke", "invokeParam"} => s.methodName # "undefined"

VARIABLES contexts,        \* [parent, scope, made], made for an "instance" or by a "caller"; the first is the root
          placed,          \* [provider, from, home]: who asked where, and where it is kept
          scopeErrors      \* lookups that found no context
scopeVars == <<contexts, placed, scopeErrors>>

-----------------------------------------------------------------------------
(* What kind of provider it is: a provider may give several ways; the checks    *)
(* ask for one at a time, values first where instances are fetched, classes     *)
(* first where a scope is chosen.                                             *)
IsClassProvider(p) == "useClass" \in p.given
IsFactoryProvider(p) == "useFactory" \in p.given
IsValueProvider(p) == "useValue" \in p.given
IsProvider(p) == IsClassProvider(p) \/ IsFactoryProvider(p) \/ IsValueProvider(p)

(* getInjectionScope: the class; the factory, if it has a name; or a string     *)
(* made of the token.                                                         *)
GetInjectionScope(p) ==
  IF IsClassProvider(p) THEN [kind |-> "class", id |-> p.scopeId]
  ELSE IF IsFactoryProvider(p) /\ "named" \in p.given THEN [kind |-> "function", id |-> p.scopeId]
  ELSE [kind |-> "string", id |-> p.token]

(* getScopeRestriction: the token's comes before the provider's.               *)
GetScopeRestriction(p) == IF p.tokenRestriction # NoRestriction THEN p.tokenRestriction ELSE p.restriction

(* The scopes there are: of contexts and of restrictions that name one.        *)
ContextScopes == {RootScope} \cup NewScopes \cup {GetInjectionScope(p) : p \in ScopeProviders}
RestrictedScopes ==
  {r.scope : r \in {q \in {GetScopeRestriction(p) : p \in ScopeProviders} : q # NoRestriction /\ q.behavior # "perInjector"}}
ASSUME ScopesAssumption ==
  /\ \A s \in ContextScopes \cup RestrictedScopes : WellFormed(s)
  /\ \A s, t \in ContextScopes \cup RestrictedScopes :
       s.kind = "dependency" /\ t.kind = "factoryParam" => s.target # t.target

-----------------------------------------------------------------------------
TypeOfScope(s) == IF s.kind \in {"class", "function"} THEN "function"
                  ELSE IF s.kind = "string" THEN "string" ELSE "object"
Field(s, f) == IF f \in DOMAIN s THEN s[f] ELSE "undefined"

(* isCustomInjectionScope recognises a type that is a string or a symbol, but   *)
(* not one that is a class.                                                   *)
IsCustom(s) == s.kind = "custom" /\ s.typeKind = "symbol"

\* ScopesAreCompatible with a mistake: custom scopes are compared like the others.
CompatibleByFields(test, restriction) ==
  \/ test = restriction
  \/ test.kind = "dependency" /\ restriction.kind = "class" /\ test.target = restriction.id
  \/ /\ TypeOfScope(test) = TypeOfScope(restriction)
     /\ ~(test.kind = "class" /\ restriction.kind = "class")
     /\ \A f \in {"target", "methodName", "paramName"} : Field(test, f) = Field(restriction, f)

(* The comparisons come one after the other; what none of them decides is       *)
(* compared by target, method and parameter, which many scopes do not have.     *)
ScopesAreCompatible(test, restriction) ==
  IF test = restriction THEN TRUE
  ELSE IF test.kind = "dependency" /\ restriction.kind = "class" THEN test.target = restriction.id
  ELSE IF TypeOfScope(test) # TypeOfScope(restriction) THEN FALSE
  ELSE IF test.kind = "class" /\ restriction.kind = "class" THEN FALSE
  ELSE IF test.kind = "factoryParam" /\ restriction.kind = "factoryParam"
    THEN test.target = restriction.target /\ test.paramToken = restriction.paramToken
  ELSE IF IsCustom(test) /\ IsCustom(restriction) THEN test.type = restriction.type
  ELSE \A f \in {"target", "methodName", "paramName"} : Field(test, f) = Field(restriction, f)

(* The contexts from i up to the root, nearest first.                          *)
PathUp(i) ==
  LET path[n \in 1..Len(contexts)] == IF n = 1 THEN <<1>> ELSE <<n>> \o path[contexts[n].parent] IN path[i]

(* findInstanceContext: with a behavior perInjector the context itself; with a  *)
(* scope the nearest that is compatible; else where the provider was found.     *)
FindInstanceContext(from, match, r) ==
  IF r = NoRestriction THEN match
  ELSE IF r.behavior = "perInjector" THEN from
  ELSE LET compatible == {n \in DOMAIN PathUp(from) : ScopesAreCompatible(contexts[PathUp(from)[n]].scope, r.scope)}
       IN IF compatible = {} THEN 0 ELSE PathUp(from)[Min(compatible)]

-----------------------------------------------------------------------------
ScopesInit ==
  contexts = <<[parent |-> 1, scope |-> RootScope, made |-> "caller"]>> /\ placed = {} /\ scopeErrors = {}

CreateChildContext(parent, scope) ==
  /\ Len(contexts) < MaxContexts
  /\ contexts' = Append(contexts, [parent |-> parent, scope |-> scope, made |-> "caller"])
  /\ UNCHANGED <<placed, scopeErrors>>

(* generateInstance from a context, the provider having been found at match     *)
(* above it: a child context with the provider's scope is made, and what is not *)
(* a value is kept where its restriction says, or the lookup fails.            *)
GenerateInstance(p, from, match) ==
  /\ Cardinality(placed) + Cardinality(scopeErrors) < MaxAsks /\ Len(contexts) < MaxContexts
  /\ IsProvider(p)
  /\ contexts' = Append(contexts, [parent |-> from, scope |-> GetInjectionScope(p), made |-> "instance"])
  /\ IF IsValueProvider(p) THEN UNCHANGED <<placed, scopeErrors>>
     ELSE LET home == FindInstanceContext(from, match, GetScopeRestriction(p))
          IN IF home = 0 THEN scopeErrors' = scopeErrors \cup {[provider |-> p, from |-> from]} /\ UNCHANGED placed
             ELSE /\ placed' = placed \cup {[provider |-> p, from |-> from, home |-> home]}
                  /\ UNCHANGED scopeErrors

(* The dependencies of an instance are asked for below the context that keeps   *)
(* it, and below the one made for it only if that is a child of the root.      *)
Asking == {c \in DOMAIN contexts : contexts[c].made = "caller" \/ contexts[c].parent = 1}
ScopesNext ==
  \/ \E parent \in Asking, scope \in NewScopes : CreateChildContext(parent, scope)
  \/ \E p \in ScopeProviders, from \in Asking : \E match \in ToSet(PathUp(from)) : GenerateInstance(p, from, match)
ScopesSpec == ScopesInit /\ [][ScopesNext]_scopeVars

-----------------------------------------------------------------------------
\* What a restriction means: the scope itself, its type, or the class a dependency is of.
Means(scope, s) ==
  \/ scope = s
  \/ scope.kind = "custom" /\ s.kind = "custom" /\ scope.type = s.type
  \/ scope.kind = "dependency" /\ s.kind = "class" /\ scope.target = s.id
\* Scopes that the comparison cannot tell apart for want of a target, method or parameter,
\* and calls of methods, of which it sees the method's name and not the instance.
Confused(scope, s) ==
  \/ "function" \in {scope.kind, s.kind} /\ {scope.kind, s.kind} \subseteq {"class", "function"}
  \/ {scope.kind, s.kind} = {"string"}
  \/ {scope.kind, s.kind} \subseteq {"invoke", "invokeParam"}
  \/ {scope.kind, s.kind} = {"custom"} /\ "class" \in {scope.typeKind, s.typeKind}

(* An instance is kept by the nearest context that its restriction means: never *)
(* by one further up, which other requests share, nor by another kind of        *)
(* context, and lookups fail only if there is none; unless there is a scope on  *)
(* the way that the comparison cannot tell from the one that is meant.         *)
KeptWhereMeant ==
  LET ScopeOf(x) == GetScopeRestriction(x.provider).scope
      Clear(x) == /\ GetScopeRestriction(x.provider) # NoRestriction
                  /\ GetScopeRestriction(x.provider).behavior # "perInjector"
                  /\ \A c \in ToSet(PathUp(x.from)) : ~Confused(contexts[c].scope, ScopeOf(x))
      Meant(x) == {n \in DOMAIN PathUp(x.from) : Means(contexts[PathUp(x.from)[n]].scope, ScopeOf(x))}
  IN /\ \A x \in placed : Clear(x) =>
          \E n \in Meant(x) : x.home = PathUp(x.from)[n] /\ \A m \in Meant(x) : n <= m
     /\ \A x \in scopeErrors : Clear(x) => Meant(x) = {}
=============================================================================
