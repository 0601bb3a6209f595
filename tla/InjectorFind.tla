----------------------------- MODULE InjectorFind -----------------------------
(*****************************************************************************)
(* How the contexts of @dandi/core find the provider of a token:             *)
(* DandiInjectorContext.find with its findCache, over the tree of contexts,  *)
(* and the repositories that contexts with one scope share.                  *)
(*                                                                           *)
(* A context is written with its path from the root.  A repository is named  *)
(* by the context that it was made for.  A find whose answer is undefined    *)
(* changes nothing: `undefined` in findCache counts as no entry.             *)
(*****************************************************************************)
EXTENDS Integers, Sequences, FiniteSets

CONSTANTS
    Contexts,       \* the contexts that may be created (a bound)
    Root,
    Scopes,         \* the scope objects that children are created with
    Tokens,
    Providers,
    TokenOf,        \* the token that a provider provides
    ParentsOnly,    \* the providers with the option parentsOnly
    None

ASSUME RootAssumption == Root \in Contexts
ASSUME TokenOfAssumption == TokenOf \in [Providers -> Tokens]
ASSUME NoneAssumption == None \notin Contexts \cup Providers \cup Scopes

Entries == Contexts \X Providers

VARIABLES
    path,       \* the contexts from the root to a context, <<>> before it is created
    scope,      \* the scope of a context
    repo,       \* the repository of a context
    registry,   \* the provider that a repository has for a token
    findCache,  \* the <<context, provider>> that a context has found for a token
    closed,     \* the contexts that have been disposed
    sought,     \* the tokens that some context has found
    late        \* the <<repository, token>> pairs registered after the token was found

vars == <<path, scope, repo, registry, findCache, closed, sought, late>>

Created == {c \in Contexts : path[c] # <<>>}
Live == Created \ closed

(* The repositories that dispose() has cleared and remapped.                 *)
ClosedRepos == {repo[c] : c \in closed}

Nothing == [t \in Tokens |-> None]

(* The providers given at once have different tokens.                        *)
Registrations == {r \in [Tokens -> Providers \cup {None}] :
                     \A t \in Tokens : r[t] # None => TokenOf[r[t]] = t}

TypeOK ==
    /\ path \in [Contexts -> Seq(Contexts)]
    /\ scope \in [Contexts -> Scopes \cup {None}]
    /\ repo \in [Contexts -> Contexts]
    /\ registry \in [Contexts -> Registrations]
    /\ findCache \in [Contexts -> [Tokens -> Entries \cup {None}]]
    /\ closed \subseteq Created
    /\ sought \subseteq Tokens
    /\ late \subseteq Contexts \X Tokens

Init ==
    /\ path = [c \in Contexts |-> IF c = Root THEN <<Root>> ELSE <<>>]
    /\ scope = [c \in Contexts |-> None]
    /\ repo = [c \in Contexts |-> c]
    /\ registry = [c \in Contexts |-> Nothing]
    /\ findCache = [c \in Contexts |-> Nothing]
    /\ closed = {}
    /\ sought = {}
    /\ late = {}

-------------------------------------------------------------------------------
(* Repository.registerProvider: a provider replaces the one before it.       *)
Registered(old, new) == [t \in Tokens |-> IF new[t] # None THEN new[t] ELSE old[t]]

Late(r, new) == {r} \X {t \in sought : new[t] # None}

(* DandiRootInjectorContext.register, at any time.                           *)
Register(new) ==
    /\ Root \in Live
    /\ registry' = [registry EXCEPT ![Root] = Registered(@, new)]
    /\ late' = late \cup Late(Root, new)
    /\ UNCHANGED <<path, scope, repo, findCache, closed, sought>>

(* The contexts whose repository getChild(s) of p's repository returns.      *)
SameRepo(p, s) ==
    {c \in Created \ {Root} :
        /\ scope[c] = s
        /\ repo[path[c][Len(path[c]) - 1]] = repo[p]}

(* createChild: the new context registers its providers with the repository  *)
(* of its scope, a child of p's; either throws if it has been remapped.       *)
CreateChild(p, c, s, new) ==
    /\ p \in Live /\ repo[p] \notin ClosedRepos
    /\ c \notin Created
    /\ LET r == IF SameRepo(p, s) = {} THEN c ELSE repo[CHOOSE d \in SameRepo(p, s) : TRUE] IN
       /\ r \notin ClosedRepos
       /\ repo' = [repo EXCEPT ![c] = r]
       /\ registry' = [registry EXCEPT ![r] = Registered(@, new)]
       /\ late' = late \cup IF r = c THEN {} ELSE Late(r, new)
    /\ path' = [path EXCEPT ![c] = Append(path[p], c)]
    /\ scope' = [scope EXCEPT ![c] = s]
    /\ UNCHANGED <<findCache, closed, sought>>

-------------------------------------------------------------------------------
At(c, i) == path[c][i]

OwnProvider(d, t) == registry[repo[d]][t]

(* isSkipped: the provider is parentsOnly, and it belongs to the context     *)
(* that asks.                                                                *)
IsSkipped(d, t, entryContext) == d = entryContext /\ OwnProvider(d, t) \in ParentsOnly

Hit(d, t) == findCache[d][t] # None

DoesProvide(d, t, entryContext) ==
    OwnProvider(d, t) # None /\ ~IsSkipped(d, t, entryContext)

(* A context or a repository that has been remapped throws when it is read.  *)
Throws(d, t) == d \in closed \/ (~Hit(d, t) /\ repo[d] \in ClosedRepos)

(* Where cachedFind and doFind, going up from c, stop.                       *)
Stops(c, t) ==
    {i \in 1 .. Len(path[c]) :
        \/ Throws(At(c, i), t)
        \/ Hit(At(c, i), t)
        \/ DoesProvide(At(c, i), t, c)}

IsLast(i, S) == i \in S /\ \A j \in S : j <= i

Found(d, t) == IF Hit(d, t) THEN findCache[d][t] ELSE <<d, OwnProvider(d, t)>>

(* Mutant: the contexts below the one that asks learn the answer as well.    *)
CachedBelow(c, i, t, entry) ==
    [d \in Contexts |->
        IF \E j \in 1 .. Len(path[d]) : At(d, j) = c
        THEN [findCache[d] EXCEPT ![t] = entry]
        ELSE findCache[d]]

(* Each context on the way back caches the answer.                           *)
Cached(c, i, t, entry) ==
    [d \in Contexts |->
        IF \E j \in i .. Len(path[c]) : d = At(c, j)
        THEN [findCache[d] EXCEPT ![t] = entry]
        ELSE findCache[d]]

Find(c, t) ==
    /\ c \in Live
    /\ \E i \in 1 .. Len(path[c]) :
          /\ IsLast(i, Stops(c, t))
          /\ ~Throws(At(c, i), t)
          /\ findCache' = Cached(c, i, t, Found(At(c, i), t))
    /\ sought' = sought \cup {t}
    /\ UNCHANGED <<path, scope, repo, registry, closed, late>>

-------------------------------------------------------------------------------
(* dispose(): the repository is cleared even if another context shares it.   *)
(* Contexts below c may be in use still: an injector awaits neither a child  *)
(* that is disposing itself nor one created after its own dispose() began    *)
(* (dandi-injector.ts:130-136).                                              *)
Dispose(c) ==
    /\ c \in Live
    /\ closed' = closed \cup {c}
    /\ findCache' = [findCache EXCEPT ![c] = Nothing]
    /\ registry' = [registry EXCEPT ![repo[c]] = Nothing]
    /\ UNCHANGED <<path, scope, repo, sought, late>>

Next ==
    \/ \E r \in Registrations : Register(r)
    \/ \E p, c \in Contexts, s \in Scopes, r \in Registrations : CreateChild(p, c, s, r)
    \/ \E c \in Contexts, t \in Tokens : Find(c, t)
    \/ \E c \in Contexts : Dispose(c)

Spec == Init /\ [][Next]_vars

-------------------------------------------------------------------------------
(* The entry that the nearest context of c with a provider of t has.         *)
IsNearest(c, t, entry) ==
    \E i \in 1 .. Len(path[c]) :
        /\ IsLast(i, {j \in 1 .. Len(path[c]) : OwnProvider(At(c, j), t) # None})
        /\ entry = <<At(c, i), OwnProvider(At(c, i), t)>>

(* No repository on the path of c has been disposed, or got a provider for t *)
(* after t had been found.                                                   *)
Undisturbed(c, t) ==
    \A i \in 1 .. Len(path[c]) :
        LET r == repo[At(c, i)] IN r \notin ClosedRepos /\ <<r, t>> \notin late

HasParentsOnly(t) == \E p \in ParentsOnly : TokenOf[p] = t

(* What find() has cached is what it would find now: caching is invisible,   *)
(* whatever the children register for themselves, as long as the             *)
(* repositories on the path are undisturbed (dandi-injector-context.ts:262). *)
(* Tokens with parentsOnly providers are in ParentsOnlyFromParents.          *)
CacheIsNearest ==
    \A c \in Live, t \in Tokens :
        Hit(c, t) /\ Undisturbed(c, t) /\ ~HasParentsOnly(t) => IsNearest(c, t, findCache[c][t])

(* What find(c, t) returns: its entries are those that Find puts in a cache. *)
Answers(c, t) ==
    {Found(At(c, i), t) : i \in {j \in Stops(c, t) :
        IsLast(j, Stops(c, t)) /\ ~Throws(At(c, j), t)}}

(* The option parentsOnly (packages/dandi/core/types/src/provider.ts, lines  *)
(* 23-24): the token is not injected using providers from the same context.  *)
ParentsOnlyFromParents ==
    \A c \in Live, t \in Tokens :
        \A entry \in Answers(c, t) : entry[2] \in ParentsOnly => entry[1] # c
===============================================================================
