---------------------------- MODULE MCInjectorFind ----------------------------
(* InjectorFind with four contexts, enough for a grandchild to cache what a  *)
(* child shadows and for two children to share a repository.  Tokens do not  *)
(* affect one another, so each run has one: `plain` with two providers, or   *)
(* `upward` with a provider that is parentsOnly.                             *)
EXTENDS InjectorFind, TLC

CONSTANTS root, a, b, c, s1, s2, plain, upward, p1, p2, q1

MCContexts == {root, a, b, c}
MCScopes == {s1, s2}

PlainTokens == {plain}
PlainProviders == {p1, p2}
PlainTokenOf == [p \in PlainProviders |-> plain]

UpwardTokens == {upward}
UpwardProviders == {q1}
UpwardTokenOf == [p \in UpwardProviders |-> upward]

Symmetry ==
    Permutations({a, b, c}) \cup Permutations(MCScopes) \cup Permutations({p1, p2})
===============================================================================
