------------------------------- MODULE MCServices ------------------------------
(* Instances of the components which no request passes through.  They share no *)
(* state and are checked in one run, MCComponents: `which` picks the one whose *)
(* behaviour it is, the others stay as they begin.                            *)
EXTENDS DequeueReplay, Caches, Scopes, PackageBuilder

VARIABLE which
servicesVars == <<replayVars, cacheVars, scopeVars, buildVars>>

(* Two lists of arguments whose joined texts have the same characters.        *)
MCCallArgs == {[context |-> "S", args |-> << <<"a">>, <<"b">> >>], [context |-> "S", args |-> << <<"a", "b">> >>]}

(* Providers of each kind, with restrictions of a scope to their own scope, to *)
(* a class, to a parameter of a factory, and to an injector.                  *)
Class(c) == [kind |-> "class", id |-> c]
Custom(t, k, i) == [kind |-> "custom", type |-> t, typeKind |-> k, id |-> i]
Restriction(b, s) == [behavior |-> b, scope |-> s]
Provided(t, g, r, tr) == [token |-> t, given |-> g, scopeId |-> t, restriction |-> r, tokenRestriction |-> tr]
MCNoRestriction == [behavior |-> "none", scope |-> [kind |-> "none"]]
HttpScope == Custom("HttpRequest", "symbol", 0)
FactoryScope == [kind |-> "factoryParam", target |-> "B", paramToken |-> "A"]
MCScopeProviders ==
  {Provided("A", {"useClass"}, Restriction("none", HttpScope), MCNoRestriction),
   Provided("B", {"useFactory", "named"}, Restriction("none", Class("A")), Restriction("none", HttpScope)),
   Provided("C", {"useFactory"}, Restriction("perInjector", HttpScope), MCNoRestriction),
   Provided("D", {"useValue", "useClass"}, MCNoRestriction, MCNoRestriction),
   Provided("E", {"useFactory", "named"}, Restriction("none", Class("A")), MCNoRestriction),
   Provided("F", {"useFactory", "named"}, Restriction("none", FactoryScope), MCNoRestriction),
   Provided("G", {"useFactory"}, Restriction("none", Custom("K", "class", 0)), MCNoRestriction)}
MCNewScopes ==
  {Custom("HttpRequest", "symbol", 1), Custom("Body", "symbol", 1), FactoryScope,
   [kind |-> "dependency", target |-> "A", methodName |-> "undefined", paramName |-> "p"],
   [kind |-> "invoke", instance |-> "x", methodName |-> "m"]}
MCRootScope == [kind |-> "dependency", target |-> "Root", methodName |-> "undefined", paramName |-> "undefined"]

(* A chain, a circle with a package that needs it, a dependency that is not    *)
(* one of the packages, a package without a readable package.json.            *)
Chain == [a |-> {}, b |-> {"a"}, c |-> {"a", "b"}]
MCProjects ==
  {[peers |-> Chain, unreadable |-> {}],
   [peers |-> [a |-> {}, b |-> {"c"}, c |-> {"b"}], unreadable |-> {}],
   [peers |-> [a |-> {"x"}, b |-> {}, c |-> {}], unreadable |-> {}],
   [peers |-> Chain, unreadable |-> {"b"}]}

ServicesInit ==
  /\ ReplayInit /\ CacheInit /\ ScopesInit /\ BuildInit
  /\ which # "build" => project = [peers |-> Chain, unreadable |-> {}]

ServicesNext ==
  \/ which = "replay" /\ ReplayNext /\ UNCHANGED <<cacheVars, scopeVars, buildVars>>
  \/ which = "cache" /\ CacheNext /\ UNCHANGED <<replayVars, scopeVars, buildVars>>
  \/ which = "scopes" /\ ScopesNext /\ UNCHANGED <<replayVars, cacheVars, buildVars>>
  \/ which = "build" /\ BuildNext /\ UNCHANGED <<replayVars, cacheVars, scopeVars>>
================================================================================
