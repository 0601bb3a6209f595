--------------------------- MODULE InjectorFindProofs ---------------------------
(*****************************************************************************)
(* Proofs about InjectorFind, for any contexts, scopes, tokens and providers.*)
(* CacheIsNearest is inductive together with what paths look like, and with  *)
(* the fact that contexts that are yet to be created have nothing.           *)
(*****************************************************************************)
EXTENDS InjectorFind, TLAPS

(* Paths are closed under prefixes: an element's path is the part up to it.  *)
PathInv ==
    \A c \in Created :
        /\ Len(path[c]) >= 1
        /\ At(c, Len(path[c])) = c
        /\ \A i \in 1 .. Len(path[c]) :
              /\ At(c, i) \in Created
              /\ Len(path[At(c, i)]) = i
              /\ \A j \in 1 .. i : At(At(c, i), j) = At(c, j)

NewInv ==
    /\ \A c \in Contexts \ Created : findCache[c] = Nothing /\ repo[c] = c
    /\ \A c \in Created : repo[c] \in Created

SoughtInv == \A c \in Contexts, t \in Tokens : Hit(c, t) => t \in sought

FindInv == TypeOK /\ PathInv /\ NewInv /\ SoughtInv /\ CacheIsNearest

-------------------------------------------------------------------------------
LEMMA NothingType ==
    /\ Nothing \in Registrations
    /\ Nothing \in [Tokens -> Entries \cup {None}]
  BY DEF Nothing, Registrations

LEMMA RegisteredType ==
    ASSUME NEW old \in Registrations, NEW new \in Registrations
    PROVE  Registered(old, new) \in Registrations
  BY DEF Registered, Registrations

LEMMA InitFind == Init => FindInv
<1> SUFFICES ASSUME Init PROVE FindInv
  OBVIOUS
<1>1. TypeOK
  <2>1. <<Root>> \in Seq(Contexts) /\ <<>> \in Seq(Contexts)
    BY RootAssumption
  <2>2. path \in [Contexts -> Seq(Contexts)]
    BY <2>1 DEF Init
  <2>3. registry \in [Contexts -> Registrations]
       /\ findCache \in [Contexts -> [Tokens -> Entries \cup {None}]]
    BY NothingType DEF Init
  <2> QED BY <2>2, <2>3 DEF Init, TypeOK, Created
<1>2. Created = {Root}
  BY RootAssumption DEF Init, Created
<1>3. PathInv
  BY <1>2, RootAssumption DEF Init, PathInv, At
<1>4. NewInv
  BY <1>2, RootAssumption DEF Init, NewInv
<1>5. \A c \in Contexts, t \in Tokens : ~Hit(c, t)
  BY DEF Init, Hit, Nothing
<1> QED BY <1>1, <1>3, <1>4, <1>5 DEF FindInv, SoughtInv, CacheIsNearest, Live, Created

-------------------------------------------------------------------------------
(* A token that has been found and whose repositories are undisturbed keeps  *)
(* its nearest provider when nothing changes that provides it.               *)
LEMMA NearestKept ==
    ASSUME NEW c \in Contexts, NEW t \in Tokens, NEW entry,
           IsNearest(c, t, entry),
           path'[c] = path[c],
           \A i \in 1 .. Len(path[c]) : OwnProvider(At(c, i), t)' = OwnProvider(At(c, i), t)
    PROVE  IsNearest(c, t, entry)'
<1>1. PICK i \in 1 .. Len(path[c]) :
          /\ IsLast(i, {j \in 1 .. Len(path[c]) : OwnProvider(At(c, j), t) # None})
          /\ entry = <<At(c, i), OwnProvider(At(c, i), t)>>
  BY DEF IsNearest
<1>2. \A j \in 1 .. Len(path[c]) : At(c, j)' = At(c, j)
  BY DEF At
<1>3. \A j \in 1 .. Len(path[c]) : OwnProvider(At(c, j), t)' = OwnProvider(At(c, j), t)
  OBVIOUS
<1> QED BY <1>1, <1>2, <1>3 DEF IsNearest, IsLast, At, OwnProvider

-------------------------------------------------------------------------------
(* Types.                                                                    *)
LEMMA OwnProviderType ==
    ASSUME TypeOK, NEW d \in Contexts, NEW t \in Tokens
    PROVE  OwnProvider(d, t) \in Providers \cup {None}
  BY DEF TypeOK, OwnProvider, Registrations

LEMMA AtType ==
    ASSUME TypeOK, NEW c \in Contexts, NEW i \in 1 .. Len(path[c])
    PROVE  At(c, i) \in Contexts
<1>1. path[c] \in Seq(Contexts)
  BY DEF TypeOK
<1> QED BY <1>1 DEF At

LEMMA FoundType ==
    ASSUME TypeOK, NEW c \in Contexts, NEW t \in Tokens,
           NEW i \in Stops(c, t), ~Throws(At(c, i), t)
    PROVE  /\ i \in 1 .. Len(path[c])
           /\ At(c, i) \in Contexts
           /\ Found(At(c, i), t) \in Entries
           /\ Hit(At(c, i), t) \/ DoesProvide(At(c, i), t, c)
<1>1. i \in 1 .. Len(path[c])
  BY DEF Stops
<1>2. At(c, i) \in Contexts
  BY <1>1, AtType
<1>3. Hit(At(c, i), t) \/ DoesProvide(At(c, i), t, c)
  BY DEF Stops
<1>4. CASE Hit(At(c, i), t)
  <2>1. findCache[At(c, i)] \in [Tokens -> Entries \cup {None}]
    BY <1>2 DEF TypeOK
  <2> QED BY <1>1, <1>2, <1>4, <2>1 DEF Hit, Found
<1>5. CASE ~Hit(At(c, i), t)
  <2>1. OwnProvider(At(c, i), t) \in Providers
    BY <1>2, <1>3, <1>5, OwnProviderType DEF DoesProvide
  <2> QED BY <1>1, <1>2, <1>3, <1>5, <2>1 DEF Found, Entries
<1> QED BY <1>4, <1>5

LEMMA CreatedChild ==
    ASSUME TypeOK,
           NEW p \in Contexts, NEW c \in Contexts, NEW s \in Scopes, NEW new \in Registrations,
           CreateChild(p, c, s, new)
    PROVE  /\ path'[c] = Append(path[p], c)
           /\ path'[c] \in Seq(Contexts)
           /\ \A d \in Contexts \ {c} : path'[d] = path[d]
           /\ c \notin Created
           /\ p \in Created
           /\ Created' = Created \cup {c}
<1>1. path \in [Contexts -> Seq(Contexts)]
  BY DEF TypeOK
<1>2. path' = [path EXCEPT ![c] = Append(path[p], c)] /\ p \in Live /\ c \notin Created
  BY DEF CreateChild
<1>3. path'[c] = Append(path[p], c) /\ \A d \in Contexts \ {c} : path'[d] = path[d]
  BY <1>1, <1>2
<1>4. Append(path[p], c) \in Seq(Contexts) /\ Append(path[p], c) # <<>>
  <2>1. path[p] \in Seq(Contexts)
    BY <1>1
  <2> QED BY <2>1
<1> QED BY <1>2, <1>3, <1>4 DEF Created, Live

(* The repository that a new context gets is its own, or that of a context   *)
(* that has been created.                                                    *)
LEMMA ChildRepo ==
    ASSUME TypeOK,
           NEW p \in Contexts, NEW c \in Contexts, NEW s \in Scopes, NEW new \in Registrations,
           CreateChild(p, c, s, new)
    PROVE  \E r \in Contexts :
              /\ r = c \/ \E d \in Created : r = repo[d]
              /\ r \notin ClosedRepos
              /\ repo' = [repo EXCEPT ![c] = r]
              /\ registry' = [registry EXCEPT ![r] = Registered(@, new)]
              /\ late' = late \cup (IF r = c THEN {} ELSE Late(r, new))
<1>1. CASE SameRepo(p, s) = {}
  BY <1>1 DEF CreateChild
<1>2. CASE SameRepo(p, s) # {}
  <2>1. PICK d \in SameRepo(p, s) : d = CHOOSE e \in SameRepo(p, s) : TRUE
    BY <1>2
  <2>2. d \in Created /\ repo[d] \in Contexts
    BY <2>1 DEF SameRepo, Created, TypeOK
  <2> QED BY <1>2, <2>1, <2>2 DEF CreateChild
<1> QED BY <1>1, <1>2

LEMMA TypeNext ==
    ASSUME TypeOK, Next PROVE TypeOK'
<1>1. ASSUME NEW new \in Registrations, Register(new) PROVE TypeOK'
  <2>1. registry' \in [Contexts -> Registrations]
    BY <1>1, RootAssumption, RegisteredType DEF Register, TypeOK
  <2>2. late' \subseteq Contexts \X Tokens
    BY <1>1, RootAssumption DEF Register, TypeOK, Late
  <2> QED BY <1>1, <2>1, <2>2 DEF Register, TypeOK, Created
<1>2. ASSUME NEW p \in Contexts, NEW c \in Contexts, NEW s \in Scopes, NEW new \in Registrations,
             CreateChild(p, c, s, new)
      PROVE  TypeOK'
  <2>1. PICK r \in Contexts :
            /\ repo' = [repo EXCEPT ![c] = r]
            /\ registry' = [registry EXCEPT ![r] = Registered(@, new)]
            /\ late' = late \cup (IF r = c THEN {} ELSE Late(r, new))
    BY <1>2, ChildRepo
  <2>2. registry' \in [Contexts -> Registrations]
    BY <2>1, RegisteredType DEF TypeOK
  <2>3. late' \subseteq Contexts \X Tokens
    BY <2>1 DEF TypeOK, Late
  <2>4. repo' \in [Contexts -> Contexts] /\ scope' \in [Contexts -> Scopes \cup {None}]
    BY <1>2, <2>1 DEF TypeOK, CreateChild
  <2>5. path' \in [Contexts -> Seq(Contexts)]
    <3>1. path' = [path EXCEPT ![c] = Append(path[p], c)] /\ path \in [Contexts -> Seq(Contexts)]
      BY <1>2 DEF CreateChild, TypeOK
    <3>2. Append(path[p], c) \in Seq(Contexts)
      BY <1>2, CreatedChild
    <3> QED BY <3>1, <3>2
  <2>6. UNCHANGED <<findCache, closed, sought>>
    BY <1>2 DEF CreateChild
  <2>7. closed' \subseteq Created'
    <3>1. Created' = Created \cup {c}
      BY <1>2, CreatedChild
    <3> QED BY <2>6, <3>1 DEF TypeOK
  <2> QED BY <2>2, <2>3, <2>4, <2>5, <2>6, <2>7 DEF TypeOK
<1>3. ASSUME NEW c \in Contexts, NEW t \in Tokens, Find(c, t) PROVE TypeOK'
  <2>1. PICK i \in 1 .. Len(path[c]) :
            /\ i \in Stops(c, t)
            /\ ~Throws(At(c, i), t)
            /\ findCache' = Cached(c, i, t, Found(At(c, i), t))
    BY <1>3 DEF Find, IsLast
  <2>2. Found(At(c, i), t) \in Entries
    BY <2>1, FoundType
  <2>3. findCache' \in [Contexts -> [Tokens -> Entries \cup {None}]]
    BY <2>1, <2>2 DEF TypeOK, Cached
  <2> QED BY <1>3, <2>3 DEF Find, TypeOK, Created
<1>4. ASSUME NEW c \in Contexts, Dispose(c) PROVE TypeOK'
  <2>1. findCache' \in [Contexts -> [Tokens -> Entries \cup {None}]]
       /\ registry' \in [Contexts -> Registrations]
    BY <1>4, NothingType DEF Dispose, TypeOK
  <2> QED BY <1>4, <2>1 DEF Dispose, TypeOK, Created, Live
<1> QED BY <1>1, <1>2, <1>3, <1>4 DEF Next

-------------------------------------------------------------------------------
(* The elements of a path that has been created.                             *)
LEMMA PathFacts ==
    ASSUME TypeOK, PathInv, NEW c \in Created, NEW i \in 1 .. Len(path[c])
    PROVE  /\ Len(path[c]) \in Nat
           /\ At(c, i) \in Created
           /\ Len(path[At(c, i)]) = i
           /\ \A j \in 1 .. i : At(At(c, i), j) = At(c, j)
<1>1. path[c] \in Seq(Contexts)
  BY DEF TypeOK, Created
<1> QED BY <1>1 DEF PathInv

LEMMA PathNext ==
    ASSUME TypeOK, PathInv, Next PROVE PathInv'
<1>1. CASE UNCHANGED path
  BY <1>1 DEF PathInv, Created, At
<1>2. ASSUME NEW p \in Contexts, NEW c \in Contexts, NEW s \in Scopes, NEW new \in Registrations,
             CreateChild(p, c, s, new)
      PROVE  PathInv'
  <2>1. /\ path'[c] = Append(path[p], c)
        /\ \A d \in Contexts \ {c} : path'[d] = path[d]
        /\ c \notin Created
        /\ p \in Created
        /\ Created' = Created \cup {c}
    BY <1>2, CreatedChild
  <2>2. path[p] \in Seq(Contexts) /\ Len(path[p]) \in Nat
    BY <2>1 DEF TypeOK
  <2>3. /\ Len(path'[c]) = Len(path[p]) + 1
        /\ path'[c][Len(path[p]) + 1] = c
        /\ \A i \in 1 .. Len(path[p]) : path'[c][i] = path[p][i]
    BY <2>1, <2>2
  <2>4. \A d \in Created : d # c /\ d \in Contexts /\ path'[d] = path[d]
    BY <2>1 DEF Created
  <2>5. ASSUME NEW d \in Created
        PROVE  /\ Len(path'[d]) >= 1
               /\ path'[d][Len(path'[d])] = d
               /\ \A i \in 1 .. Len(path'[d]) :
                     /\ path'[d][i] \in Created'
                     /\ Len(path'[path'[d][i]]) = i
                     /\ \A j \in 1 .. i : path'[path'[d][i]][j] = path'[d][j]
    <3>1. /\ Len(path[d]) >= 1
          /\ path[d][Len(path[d])] = d
          /\ \A i \in 1 .. Len(path[d]) :
                /\ path[d][i] \in Created
                /\ Len(path[path[d][i]]) = i
                /\ \A j \in 1 .. i : path[path[d][i]][j] = path[d][j]
      BY DEF PathInv, At
    <3>2. path'[d] = path[d]
      BY <2>4
    <3>3. \A i \in 1 .. Len(path[d]) : path[d][i] \in Created' /\ path'[path[d][i]] = path[path[d][i]]
      BY <2>1, <2>4, <3>1
    <3> QED BY <3>1, <3>2, <3>3
  <2>6. \A i \in 1 .. Len(path[p]) : path'[path[p][i]] = path[path[p][i]]
    BY <2>1, <2>4 DEF PathInv, At
  <2>7. /\ Len(path'[c]) >= 1
        /\ path'[c][Len(path'[c])] = c
    BY <2>2, <2>3
  <2>8. ASSUME NEW i \in 1 .. Len(path'[c])
        PROVE  /\ path'[c][i] \in Created'
               /\ Len(path'[path'[c][i]]) = i
               /\ \A j \in 1 .. i : path'[path'[c][i]][j] = path'[c][j]
    <3>1. CASE i = Len(path[p]) + 1
      BY <2>1, <2>2, <2>3, <3>1
    <3>2. CASE i \in 1 .. Len(path[p])
      <4>1. path'[c][i] = path[p][i] /\ path[p][i] \in Created /\ path'[path[p][i]] = path[path[p][i]]
        BY <2>1, <2>3, <2>6, <3>2 DEF PathInv, At
      <4>2. Len(path[path[p][i]]) = i /\ \A j \in 1 .. i : path[path[p][i]][j] = path[p][j]
        BY <2>1, <3>2 DEF PathInv, At
      <4> QED BY <2>1, <2>2, <2>3, <3>2, <4>1, <4>2
    <3> QED BY <2>2, <2>3, <3>1, <3>2
  <2>9. ASSUME NEW d \in Created'
        PROVE  /\ Len(path'[d]) >= 1
               /\ path'[d][Len(path'[d])] = d
               /\ \A i \in 1 .. Len(path'[d]) :
                     /\ path'[d][i] \in Created'
                     /\ Len(path'[path'[d][i]]) = i
                     /\ \A j \in 1 .. i : path'[path'[d][i]][j] = path'[d][j]
    <3>1. CASE d = c
      BY <2>7, <2>8, <3>1, Zenon
    <3>2. CASE d \in Created
      BY <2>5, <3>2, Zenon
    <3> QED BY <2>1, <3>1, <3>2
  <2> QED BY <2>9, Zenon DEF PathInv, At
<1>3. ASSUME NEW new \in Registrations, Register(new) PROVE UNCHANGED path
  BY <1>3 DEF Register
<1>4. ASSUME NEW c \in Contexts, NEW t \in Tokens, Find(c, t) PROVE UNCHANGED path
  BY <1>4 DEF Find
<1>5. ASSUME NEW c \in Contexts, Dispose(c) PROVE UNCHANGED path
  BY <1>5 DEF Dispose
<1> QED BY <1>1, <1>2, <1>3, <1>4, <1>5 DEF Next

LEMMA NewNext ==
    ASSUME TypeOK, PathInv, NewInv, Next PROVE NewInv'
<1>1. ASSUME NEW new \in Registrations, Register(new) PROVE NewInv'
  BY <1>1 DEF Register, NewInv, Created
<1>2. ASSUME NEW p \in Contexts, NEW c \in Contexts, NEW s \in Scopes, NEW new \in Registrations,
             CreateChild(p, c, s, new)
      PROVE  NewInv'
  <2>1. c \notin Created /\ Created' = Created \cup {c}
    BY <1>2, CreatedChild
  <2>2. PICK r \in Contexts : (r = c \/ \E d \in Created : r = repo[d]) /\ repo' = [repo EXCEPT ![c] = r]
    BY <1>2, ChildRepo
  <2>3. r \in Created'
    BY <2>1, <2>2 DEF NewInv
  <2>4. repo'[c] = r /\ \A d \in Contexts \ {c} : repo'[d] = repo[d]
    BY <2>2 DEF TypeOK
  <2>5. findCache' = findCache
    BY <1>2 DEF CreateChild
  <2>6. \A d \in Contexts \ Created' : findCache'[d] = Nothing /\ repo'[d] = d
    BY <2>1, <2>4, <2>5 DEF NewInv
  <2>7. \A d \in Created' : repo'[d] \in Created'
    <3>1. Created \subseteq Contexts
      BY DEF Created
    <3> QED BY <2>1, <2>3, <2>4, <3>1 DEF NewInv
  <2>8. Nothing' = Nothing
    BY DEF Nothing
  <2> QED BY <2>6, <2>7, <2>8 DEF NewInv
<1>3. ASSUME NEW c \in Contexts, NEW t \in Tokens, Find(c, t) PROVE NewInv'
  <2>1. PICK i \in 1 .. Len(path[c]) : findCache' = Cached(c, i, t, Found(At(c, i), t))
    BY <1>3 DEF Find
  <2>2. c \in Created /\ UNCHANGED <<path, repo>>
    BY <1>3 DEF Find, Live
  <2>3. \A j \in i .. Len(path[c]) : At(c, j) \in Created
    <3>1. Len(path[c]) \in Nat
      BY <2>2, PathFacts
    <3> QED BY <2>2, <3>1 DEF PathInv
  <2>4. \A d \in Contexts \ Created : findCache'[d] = findCache[d]
    BY <2>1, <2>3 DEF Cached
  <2>5. Created' = Created
    BY <2>2 DEF Created
  <2> QED BY <2>2, <2>4, <2>5 DEF NewInv, Nothing
<1>4. ASSUME NEW c \in Contexts, Dispose(c) PROVE NewInv'
  <2>1. c \in Created /\ UNCHANGED <<path, repo>> /\ Created' = Created
    BY <1>4 DEF Dispose, Live, Created
  <2>2. \A d \in Contexts \ Created : findCache'[d] = findCache[d]
    BY <1>4, <2>1 DEF Dispose, TypeOK
  <2> QED BY <2>1, <2>2 DEF NewInv, Nothing
<1> QED BY <1>1, <1>2, <1>3, <1>4 DEF Next

LEMMA SoughtNext ==
    ASSUME TypeOK, SoughtInv, Next PROVE SoughtInv'
<1>1. CASE UNCHANGED <<findCache, sought>>
  BY <1>1 DEF SoughtInv, Hit
<1>2. ASSUME NEW new \in Registrations, Register(new) PROVE UNCHANGED <<findCache, sought>>
  BY <1>2 DEF Register
<1>3. ASSUME NEW p \in Contexts, NEW c \in Contexts, NEW s \in Scopes, NEW new \in Registrations,
             CreateChild(p, c, s, new)
      PROVE  UNCHANGED <<findCache, sought>>
  BY <1>3 DEF CreateChild
<1>4. ASSUME NEW c \in Contexts, NEW t \in Tokens, Find(c, t) PROVE SoughtInv'
  <2>1. sought' = sought \cup {t}
    BY <1>4 DEF Find
  <2>2. \A d \in Contexts, u \in Tokens \ {t} : findCache'[d][u] = findCache[d][u]
    BY <1>4 DEF Find, Cached, TypeOK
  <2> QED BY <2>1, <2>2 DEF SoughtInv, Hit
<1>5. ASSUME NEW c \in Contexts, Dispose(c) PROVE SoughtInv'
  <2>1. \A d \in Contexts, u \in Tokens : findCache'[d][u] = findCache[d][u] \/ findCache'[d][u] = None
    BY <1>5 DEF Dispose, TypeOK, Nothing
  <2> QED BY <1>5, <2>1 DEF SoughtInv, Hit, Dispose
<1> QED BY <1>1, <1>2, <1>3, <1>4, <1>5 DEF Next

-------------------------------------------------------------------------------
(* New providers for r leave the other repositories and tokens alone.        *)
LEMMA RegisteredElsewhere ==
    ASSUME TypeOK, NEW r \in Contexts, NEW new \in Registrations,
           registry' = [registry EXCEPT ![r] = Registered(@, new)]
    PROVE  \A q \in Contexts, t \in Tokens :
              q # r \/ new[t] = None => registry'[q][t] = registry[q][t]
<1>1. registry'[r] = Registered(registry[r], new) /\ \A q \in Contexts \ {r} : registry'[q] = registry[q]
  BY DEF TypeOK
<1>2. \A t \in Tokens : new[t] = None => Registered(registry[r], new)[t] = registry[r][t]
  BY DEF Registered
<1> QED BY <1>1, <1>2

LEMMA CacheRegister ==
    ASSUME FindInv, NEW new \in Registrations, Register(new) PROVE CacheIsNearest'
<1> USE DEF FindInv
<1>1. /\ registry' = [registry EXCEPT ![Root] = Registered(@, new)]
      /\ late' = late \cup Late(Root, new)
      /\ UNCHANGED <<path, scope, repo, findCache, closed, sought>>
  BY DEF Register
<1> SUFFICES ASSUME NEW d \in Live', NEW t \in Tokens,
                    Hit(d, t)', Undisturbed(d, t)', ~HasParentsOnly(t)
             PROVE  IsNearest(d, t, findCache[d][t])'
  BY DEF CacheIsNearest, HasParentsOnly
<1>2. d \in Live /\ d \in Contexts /\ Hit(d, t) /\ Live' = Live
  BY <1>1 DEF Live, Created, Hit
<1>3. Undisturbed(d, t)
  BY <1>1 DEF Undisturbed, ClosedRepos, At
<1>4. ASSUME NEW i \in 1 .. Len(path[d]) PROVE OwnProvider(At(d, i), t)' = OwnProvider(At(d, i), t)
  <2>1. At(d, i) \in Contexts /\ repo[At(d, i)] \in Contexts
    BY <1>2, AtType DEF TypeOK
  <2>2. <<repo[At(d, i)], t>> \notin late'
    BY <1>1 DEF Undisturbed, At
  <2>3. PICK q \in Contexts : q = repo[At(d, i)]
    BY <2>1
  <2>4. q # Root \/ new[t] = None
    <3>1. t \in sought
      BY <1>2 DEF SoughtInv
    <3>2. SUFFICES ASSUME q = Root, new[t] # None PROVE <<q, t>> \in late'
      BY <2>2, <2>3
    <3>3. <<q, t>> \in Late(Root, new)
      BY <3>1, <3>2 DEF Late
    <3> QED BY <1>1, <3>3
  <2>5. registry'[q][t] = registry[q][t]
    BY <1>1, <2>4, RootAssumption, RegisteredElsewhere
  <2>6. path' = path /\ repo' = repo
    BY <1>1
  <2>7. At(d, i)' = At(d, i)
    BY <2>6 DEF At
  <2> QED BY <2>3, <2>5, <2>6, <2>7 DEF OwnProvider
<1>5. PICK entry : entry = findCache[d][t]
  OBVIOUS
<1>6. IsNearest(d, t, entry)
  BY <1>2, <1>3, <1>5 DEF CacheIsNearest
<1>7. IsNearest(d, t, entry)'
  BY <1>1, <1>2, <1>4, <1>6, NearestKept
<1> QED BY <1>1, <1>5, <1>7 DEF IsNearest

LEMMA CacheCreate ==
    ASSUME FindInv,
           NEW p \in Contexts, NEW c \in Contexts, NEW s \in Scopes, NEW new \in Registrations,
           CreateChild(p, c, s, new)
    PROVE  CacheIsNearest'
<1> USE DEF FindInv
<1>1. PICK r \in Contexts :
          /\ repo' = [repo EXCEPT ![c] = r]
          /\ registry' = [registry EXCEPT ![r] = Registered(@, new)]
          /\ late' = late \cup (IF r = c THEN {} ELSE Late(r, new))
  BY ChildRepo
<1>2. /\ \A e \in Contexts \ {c} : path'[e] = path[e]
      /\ c \notin Created
      /\ Created' = Created \cup {c}
  BY CreatedChild
<1>3. UNCHANGED <<findCache, closed, sought>>
  BY DEF CreateChild
<1>4. \A e \in Contexts \ {c} : repo'[e] = repo[e]
  BY <1>1 DEF TypeOK
<1>5. \A q \in Contexts, t \in Tokens :
           q # r \/ new[t] = None => registry'[q][t] = registry[q][t]
  <2>1. TypeOK /\ registry' = [registry EXCEPT ![r] = Registered(@, new)]
    BY <1>1
  <2> QED BY <2>1, RegisteredElsewhere
<1> SUFFICES ASSUME NEW d \in Live', NEW t \in Tokens,
                    Hit(d, t)', Undisturbed(d, t)', ~HasParentsOnly(t)
             PROVE  IsNearest(d, t, findCache[d][t])'
  BY DEF CacheIsNearest, HasParentsOnly
<1>6. d \in Contexts /\ Hit(d, t)
  BY <1>3 DEF Live, Created, Hit
<1>7. d # c /\ d \in Live
  <2>1. d # c
    BY <1>2, <1>6 DEF NewInv, Hit, Nothing
  <2> QED BY <1>2, <1>3, <2>1 DEF Live
<1>8. path'[d] = path[d] /\ \A i \in 1 .. Len(path[d]) : At(d, i)' = At(d, i)
  BY <1>2, <1>6, <1>7 DEF At
<1>9. \A i \in 1 .. Len(path[d]) :
         /\ At(d, i) \in Created
         /\ At(d, i) \in Contexts
         /\ At(d, i) # c
         /\ repo'[At(d, i)] = repo[At(d, i)]
  BY <1>2, <1>4, <1>7 DEF PathInv, Live, Created
<1>10. ClosedRepos' = ClosedRepos
  <2>1. \A e \in closed : e \in Contexts \ {c}
    BY <1>2 DEF TypeOK, Created
  <2>2. \A e \in closed : repo'[e] = repo[e]
    BY <1>4, <2>1
  <2> QED BY <1>3, <2>2 DEF ClosedRepos
<1>11. Undisturbed(d, t)
  BY <1>1, <1>8, <1>9, <1>10 DEF Undisturbed
<1>12. ASSUME NEW i \in 1 .. Len(path[d]) PROVE OwnProvider(At(d, i), t)' = OwnProvider(At(d, i), t)
  <2>1. repo[At(d, i)] \in Contexts /\ repo[At(d, i)] \in Created
    BY <1>9 DEF TypeOK, NewInv
  <2>2. <<repo[At(d, i)], t>> \notin late'
    BY <1>8, <1>9 DEF Undisturbed
  <2>3. repo[At(d, i)] = r => Late(r, new) \subseteq late'
    BY <1>1, <1>2, <2>1
  <2>4. PICK q \in Contexts : q = repo[At(d, i)]
    BY <2>1
  <2>5. q # r \/ new[t] = None
    BY <1>6, <2>2, <2>3, <2>4 DEF Late, SoughtInv
  <2>6. registry'[q][t] = registry[q][t]
    BY <1>5, <2>5
  <2> QED BY <1>8, <1>9, <2>4, <2>6 DEF OwnProvider
<1>13. PICK entry : entry = findCache[d][t]
  OBVIOUS
<1>14. IsNearest(d, t, entry)
  BY <1>6, <1>7, <1>11, <1>13 DEF CacheIsNearest
<1>15. IsNearest(d, t, entry)'
  BY <1>6, <1>8, <1>12, <1>14, NearestKept
<1> QED BY <1>3, <1>13, <1>15 DEF IsNearest

(* find(c, t) stops at the nearest context that can answer: below it there   *)
(* is no provider for t, if none is parentsOnly.                             *)
LEMMA NoneBelow ==
    ASSUME TypeOK, NEW c \in Contexts, NEW t \in Tokens,
           NEW i \in 1 .. Len(path[c]), IsLast(i, Stops(c, t)), ~HasParentsOnly(t)
    PROVE  \A k \in 1 .. Len(path[c]) : k > i => OwnProvider(At(c, k), t) = None
<1> SUFFICES ASSUME NEW k \in 1 .. Len(path[c]), k > i
             PROVE  OwnProvider(At(c, k), t) = None
  OBVIOUS
<1>1. path[c] \in Seq(Contexts) /\ Len(path[c]) \in Nat
  BY DEF TypeOK
<1>2. k \notin Stops(c, t)
  BY <1>1 DEF IsLast
<1>3. ~DoesProvide(At(c, k), t, c)
  BY <1>2 DEF Stops
<1>4. At(c, k) \in Contexts
  BY AtType
<1>5. SUFFICES ASSUME OwnProvider(At(c, k), t) # None PROVE FALSE
  OBVIOUS
<1>6. OwnProvider(At(c, k), t) \in ParentsOnly
  BY <1>3, <1>5 DEF DoesProvide, IsSkipped
<1>7. TokenOf[OwnProvider(At(c, k), t)] = t
  <2>1. registry[repo[At(c, k)]] \in Registrations
    BY <1>4 DEF TypeOK
  <2> QED BY <1>5, <2>1 DEF OwnProvider, Registrations
<1> QED BY <1>6, <1>7 DEF HasParentsOnly

LEMMA CacheFind ==
    ASSUME FindInv, NEW c \in Contexts, NEW t \in Tokens, Find(c, t) PROVE CacheIsNearest'
<1> USE DEF FindInv
<1>1. PICK i \in 1 .. Len(path[c]) :
          /\ IsLast(i, Stops(c, t))
          /\ ~Throws(At(c, i), t)
          /\ findCache' = Cached(c, i, t, Found(At(c, i), t))
  BY DEF Find
<1>2. UNCHANGED <<path, scope, repo, registry, closed, late>> /\ c \in Live /\ c \in Created
  BY DEF Find, Live
<1>3. PICK m \in Contexts : m = At(c, i)
  BY AtType
<1>4. PICK e : e = Found(m, t)
  OBVIOUS
<1> SUFFICES ASSUME NEW d \in Live', NEW u \in Tokens,
                    Hit(d, u)', Undisturbed(d, u)', ~HasParentsOnly(u)
             PROVE  IsNearest(d, u, findCache'[d][u])
  <2>1. \A d \in Contexts, u \in Tokens :
           IsNearest(d, u, findCache[d][u])' <=> IsNearest(d, u, findCache'[d][u])
    BY <1>2 DEF IsNearest, At, OwnProvider, IsLast
  <2> QED BY <2>1 DEF CacheIsNearest, HasParentsOnly, Live, Created
<1>5. d \in Live /\ d \in Created /\ d \in Contexts /\ Undisturbed(d, u)
  BY <1>2 DEF Live, Created, Undisturbed, ClosedRepos, At
<1>6. CASE ~(u = t /\ \E j \in i .. Len(path[c]) : d = At(c, j))
  <2>1. findCache'[d][u] = findCache[d][u]
    BY <1>1, <1>5, <1>6 DEF Cached, TypeOK
  <2>2. Hit(d, u)
    BY <2>1 DEF Hit
  <2> QED BY <1>5, <2>1, <2>2 DEF CacheIsNearest
<1>7. CASE u = t /\ \E j \in i .. Len(path[c]) : d = At(c, j)
  <2>1. PICK j \in i .. Len(path[c]) : d = At(c, j)
    BY <1>7
  <2>2. findCache'[d][u] = e
    BY <1>1, <1>3, <1>4, <1>5, <1>7 DEF Cached, TypeOK
  <2>3. Len(path[c]) \in Nat /\ j \in 1 .. Len(path[c]) /\ i \in 1 .. j
    BY <1>2, PathFacts
  <2>4. Len(path[d]) = j /\ \A k \in 1 .. j : At(d, k) = At(c, k)
    BY <1>2, <2>1, <2>3, PathFacts
  <2>5. \A k \in 1 .. j : k > i => OwnProvider(At(d, k), t) = None
    <3>1. \A k \in 1 .. Len(path[c]) : k > i => OwnProvider(At(c, k), t) = None
      BY <1>1, <1>7, NoneBelow
    <3> QED BY <2>3, <2>4, <3>1
  <2>6. CASE Hit(m, t)
    <3>1. e = findCache[m][t]
      BY <1>4, <2>6 DEF Found
    <3>2. m \in Live
      BY <1>1, <1>2, <1>3, PathFacts DEF Throws, Live
    <3>3. Len(path[m]) = i /\ \A k \in 1 .. i : At(m, k) = At(c, k)
      BY <1>2, <1>3, PathFacts
    <3>4. \A k \in 1 .. i : At(m, k) = At(d, k)
      BY <2>3, <2>4, <3>3
    <3>5. Undisturbed(m, t)
      BY <1>5, <1>7, <2>3, <2>4, <3>3, <3>4 DEF Undisturbed
    <3>6. IsNearest(m, t, e)
      BY <1>7, <2>6, <3>1, <3>2, <3>5 DEF CacheIsNearest
    <3>7. PICK n \in 1 .. i :
              /\ OwnProvider(At(m, n), t) # None
              /\ \A k \in 1 .. i : OwnProvider(At(m, k), t) # None => k <= n
              /\ e = <<At(m, n), OwnProvider(At(m, n), t)>>
      BY <3>3, <3>6 DEF IsNearest, IsLast
    <3>8. n \in 1 .. j /\ e = <<At(d, n), OwnProvider(At(d, n), t)>> /\ OwnProvider(At(d, n), t) # None
      BY <2>3, <3>4, <3>7
    <3>9. \A k \in 1 .. j : OwnProvider(At(d, k), t) # None => k <= n
      <4> SUFFICES ASSUME NEW k \in 1 .. j, OwnProvider(At(d, k), t) # None PROVE k <= n
        OBVIOUS
      <4>1. k \in 1 .. i
        BY <2>3, <2>5
      <4> QED BY <3>4, <3>7, <4>1
    <3> QED BY <1>7, <2>2, <2>4, <3>8, <3>9 DEF IsNearest, IsLast
  <2>7. CASE ~Hit(m, t)
    <3>1. OwnProvider(m, t) # None
      BY <1>1, <1>3, <2>7, FoundType DEF DoesProvide, IsLast
    <3>2. e = <<m, OwnProvider(m, t)>> /\ At(d, i) = m
      BY <1>3, <1>4, <2>3, <2>4, <2>7 DEF Found
    <3>3. \A k \in 1 .. j : OwnProvider(At(d, k), t) # None => k <= i
      BY <2>3, <2>5
    <3> QED BY <1>7, <2>2, <2>3, <2>4, <3>1, <3>2, <3>3 DEF IsNearest, IsLast
  <2> QED BY <2>6, <2>7
<1> QED BY <1>6, <1>7

LEMMA CacheDispose ==
    ASSUME FindInv, NEW c \in Contexts, Dispose(c) PROVE CacheIsNearest'
<1> USE DEF FindInv
<1>1. /\ closed' = closed \cup {c}
      /\ findCache' = [findCache EXCEPT ![c] = Nothing]
      /\ registry' = [registry EXCEPT ![repo[c]] = Nothing]
      /\ UNCHANGED <<path, scope, repo, sought, late>>
  BY DEF Dispose
<1> SUFFICES ASSUME NEW d \in Live', NEW t \in Tokens,
                    Hit(d, t)', Undisturbed(d, t)', ~HasParentsOnly(t)
             PROVE  IsNearest(d, t, findCache[d][t])'
  BY DEF CacheIsNearest, HasParentsOnly
<1>2. d \in Live /\ d \in Created /\ d \in Contexts /\ d # c
  BY <1>1 DEF Live, Created
<1>3. findCache'[d] = findCache[d] /\ Hit(d, t)
  BY <1>1, <1>2 DEF TypeOK, Hit
<1>4. ClosedRepos' = ClosedRepos \cup {repo[c]}
  BY <1>1 DEF ClosedRepos
<1>5. Undisturbed(d, t) /\ \A i \in 1 .. Len(path[d]) : repo[At(d, i)] # repo[c]
  BY <1>1, <1>4 DEF Undisturbed, At
<1>6. ASSUME NEW i \in 1 .. Len(path[d]) PROVE OwnProvider(At(d, i), t)' = OwnProvider(At(d, i), t)
  <2>1. repo[At(d, i)] \in Contexts
    BY <1>2, AtType DEF TypeOK
  <2>2. registry'[repo[At(d, i)]] = registry[repo[At(d, i)]]
    BY <1>1, <1>5, <2>1 DEF TypeOK
  <2> QED BY <1>1, <2>2 DEF OwnProvider, At
<1>7. PICK entry : entry = findCache[d][t]
  OBVIOUS
<1>8. IsNearest(d, t, entry)
  BY <1>2, <1>3, <1>5, <1>7 DEF CacheIsNearest
<1>9. IsNearest(d, t, entry)'
  BY <1>1, <1>2, <1>6, <1>8, NearestKept
<1> QED BY <1>3, <1>7, <1>9 DEF IsNearest

-------------------------------------------------------------------------------
LEMMA NextFind == FindInv /\ [Next]_vars => FindInv'
<1> SUFFICES ASSUME FindInv, [Next]_vars PROVE FindInv'
  OBVIOUS
<1>1. CASE Next
  <2>1. TypeOK' /\ PathInv' /\ NewInv' /\ SoughtInv'
    BY <1>1, TypeNext, PathNext, NewNext, SoughtNext DEF FindInv
  <2>2. CacheIsNearest'
    <3>1. ASSUME NEW new \in Registrations, Register(new) PROVE CacheIsNearest'
      BY <3>1, CacheRegister
    <3>2. ASSUME NEW p \in Contexts, NEW c \in Contexts, NEW s \in Scopes, NEW new \in Registrations,
                 CreateChild(p, c, s, new)
          PROVE  CacheIsNearest'
      BY <3>2, CacheCreate
    <3>3. ASSUME NEW c \in Contexts, NEW t \in Tokens, Find(c, t) PROVE CacheIsNearest'
      BY <3>3, CacheFind
    <3>4. ASSUME NEW c \in Contexts, Dispose(c) PROVE CacheIsNearest'
      BY <3>4, CacheDispose
    <3> QED BY <1>1, <3>1, <3>2, <3>3, <3>4 DEF Next
  <2> QED BY <2>1, <2>2 DEF FindInv
<1>2. CASE UNCHANGED vars
  <2> USE <1>2 DEF FindInv, vars
  <2>1. TypeOK'
    BY DEF TypeOK, Created
  <2>2. PathInv'
    BY DEF PathInv, Created, At
  <2>3. NewInv' /\ SoughtInv'
    BY DEF NewInv, SoughtInv, Created, Nothing, Hit
  <2>4. CacheIsNearest'
    <3>1. \A c \in Contexts, t \in Tokens :
             /\ Hit(c, t)' <=> Hit(c, t)
             /\ Undisturbed(c, t)' <=> Undisturbed(c, t)
             /\ IsNearest(c, t, findCache[c][t])' <=> IsNearest(c, t, findCache[c][t])
      BY DEF Hit, Undisturbed, ClosedRepos, At, IsNearest, IsLast, OwnProvider
    <3> QED BY <3>1 DEF CacheIsNearest, Live, Created, HasParentsOnly
  <2> QED BY <2>1, <2>2, <2>3, <2>4
<1> QED BY <1>1, <1>2

THEOREM FindInvariant == Spec => []FindInv
  BY InitFind, NextFind, PTL DEF Spec

(* Every cache entry, registration and path keeps its type: what find() puts *)
(* in a findCache is always a context together with a provider, and never a  *)
(* context without one (dandi-injector-context.ts:168-219).                  *)
THEOREM TypeCorrect == Spec => []TypeOK
<1>1. FindInv => TypeOK
  BY DEF FindInv
<1> QED BY <1>1, FindInvariant, PTL

(* For any tree of contexts, whatever order they are created, registered     *)
(* with, searched and disposed in, an answer that a context has cached is    *)
(* the nearest provider of its path (dandi-injector-context.ts:262-286).     *)
THEOREM CacheIsNearestAlways == Spec => []CacheIsNearest
<1>1. FindInv => CacheIsNearest
  BY DEF FindInv
<1> QED BY <1>1, FindInvariant, PTL
===============================================================================
