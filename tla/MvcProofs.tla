------------------------------- MODULE MvcProofs -------------------------------
(*****************************************************************************)
(* Proofs about Routing, RouteRequests, ViewResolver, Negotiation and        *)
(* BodyParsing: whatever is decorated, and in whatever order decorators run, *)
(* each HTTP decorator gives the route that was declared; a request to it is *)
(* handled only under its conditions, and CORS follows what preflights       *)
(* answer; a view is rendered with the template that is preferred, whatever  *)
(* files come and go; the best renderer that is left answers, and the fields *)
(* of a body that have content survive those that have none.  General facts  *)
(* about sequences and numbers come from ComponentsProofs.                   *)
(*****************************************************************************)
EXTENDS RouteRequests, ViewResolver, Negotiation, BodyParsing, ComponentsProofs

-------------------------------------------------------------------------------
(* A sequence that lists a value of F for each member of D, once.            *)
ListedBy(b, s, D, F) ==
    /\ b \in [DOMAIN s -> D] /\ \A d \in D : \E x \in DOMAIN s : b[x] = d
    /\ \A x, y \in DOMAIN s : b[x] = b[y] => x = y
    /\ \A x \in DOMAIN s : s[x] = F[b[x]]
Lists(s, D, F) == \E b : ListedBy(b, s, D, F)

LEMMA ListsConcatenated ==
    ASSUME NEW T, NEW s \in Seq(T), NEW t \in Seq(T), NEW A, NEW B, NEW F, A \cap B = {},
           Lists(s, A, F), Lists(t, B, F)
    PROVE  Lists(s \o t, A \cup B, F)
<1> DEFINE r == s \o t
           m == Len(s)
           n == Len(t)
<1>1. /\ r \in Seq(T) /\ Len(r) = m + n
      /\ \A i \in 1 .. m + n : r[i] = IF i <= m THEN s[i] ELSE t[i - m]
  BY ConcatProperties
<1>2. m \in Nat /\ n \in Nat /\ DOMAIN s = 1 .. m /\ DOMAIN t = 1 .. n
  BY LenProperties
<1>3. DOMAIN r = 1 .. m + n
  BY <1>1, LenProperties
<1>4. PICK a, b : ListedBy(a, s, A, F) /\ ListedBy(b, t, B, F)
  BY DEF Lists
<1> HIDE DEF r, m, n
<1> DEFINE c == [x \in 1 .. m + n |-> IF x <= m THEN a[x] ELSE b[x - m]]
<1>5. /\ a \in [1 .. m -> A] /\ \A d \in A : \E x \in 1 .. m : a[x] = d
      /\ \A x, y \in 1 .. m : a[x] = a[y] => x = y
      /\ \A x \in 1 .. m : s[x] = F[a[x]]
  BY <1>2, <1>4 DEF ListedBy
<1>6. /\ b \in [1 .. n -> B] /\ \A d \in B : \E x \in 1 .. n : b[x] = d
      /\ \A x, y \in 1 .. n : b[x] = b[y] => x = y
      /\ \A x \in 1 .. n : t[x] = F[b[x]]
  BY <1>2, <1>4 DEF ListedBy
<1>7. ASSUME NEW x \in 1 .. m + n
      PROVE  IF x <= m THEN x \in 1 .. m /\ c[x] = a[x] /\ c[x] \in A /\ r[x] = s[x]
                       ELSE x - m \in 1 .. n /\ c[x] = b[x - m] /\ c[x] \in B /\ r[x] = t[x - m]
  <2>1. CASE x <= m
    <3>1. x \in 1 .. m
      BY <1>2, <2>1
    <3> QED BY <1>1, <1>5, <2>1, <3>1
  <2>2. CASE ~(x <= m)
    <3>1. x - m \in 1 .. n
      BY <1>2, <2>2
    <3> QED BY <1>1, <1>6, <2>2, <3>1
  <2> QED BY <2>1, <2>2
<1>8. c \in [1 .. m + n -> A \cup B]
  BY <1>7
<1>9. ASSUME NEW d \in A \cup B PROVE \E x \in 1 .. m + n : c[x] = d
  <2>1. CASE d \in A
    <3>1. PICK x \in 1 .. m : a[x] = d
      BY <1>5, <2>1
    <3>2. x \in 1 .. m + n /\ x <= m
      BY <1>2
    <3> QED BY <3>1, <3>2
  <2>2. CASE d \in B
    <3>1. PICK x \in 1 .. n : b[x] = d
      BY <1>6, <2>2
    <3>2. m + x \in 1 .. m + n /\ ~(m + x <= m) /\ (m + x) - m = x
      BY <1>2
    <3> QED BY <3>1, <3>2
  <2> QED BY <2>1, <2>2
<1>10. ASSUME NEW x \in 1 .. m + n, NEW y \in 1 .. m + n, c[x] = c[y] PROVE x = y
  <2> HIDE DEF c
  <2>1. CASE x <= m /\ y <= m
    BY <1>5, <1>7, <1>10, <2>1
  <2>2. CASE ~(x <= m) /\ ~(y <= m)
    <3>1. x - m \in 1 .. n /\ y - m \in 1 .. n /\ b[x - m] = b[y - m]
      BY <1>7, <1>10, <2>2
    <3>2. x - m = y - m
      BY <1>6, <3>1
    <3> QED BY <1>2, <3>2
  <2>3. CASE (x <= m) # (y <= m)
    BY <1>7, <1>10, <2>3
  <2> QED BY <2>1, <2>2, <2>3
<1>11. \A x \in 1 .. m + n : r[x] = F[c[x]]
  <2> HIDE DEF c
  <2> QED BY <1>5, <1>6, <1>7
<1>12. ListedBy(c, r, A \cup B, F)
  <2> HIDE DEF c
  <2> QED BY <1>3, <1>8, <1>9, <1>10, <1>11 DEF ListedBy
<1> QED BY <1>12 DEF Lists, r

LEMMA ListsFlattened ==
    ASSUME NEW T, NEW R, NEW ss \in Seq(R), NEW D, NEW F,
           \A i \in DOMAIN ss : ss[i] \in Seq(T) /\ Lists(ss[i], D[i], F),
           \A i, j \in DOMAIN ss : i # j => D[i] \cap D[j] = {}
    PROVE  /\ FlattenSeq(ss) \in Seq(T)
           /\ Lists(FlattenSeq(ss), UNION {D[i] : i \in DOMAIN ss}, F)
<1> DEFINE n == Len(ss)
<1>0. n \in Nat /\ DOMAIN ss = 1 .. n
  BY LenProperties
<1>1. CASE n = 0
  <2>1. ss = <<>>
    BY <1>1, EmptySeq
  <2>2. FlattenSeq(ss) = <<>> /\ DOMAIN ss = {}
    BY <1>1, <2>1 DEF FlattenSeq
  <2>3. ListedBy(<<>>, <<>>, {}, F) /\ <<>> \in Seq(T)
    BY DEF ListedBy
  <2>4. UNION {D[i] : i \in DOMAIN ss} = {}
    BY <2>2
  <2> QED BY <2>2, <2>3, <2>4 DEF Lists
<1>2. CASE n # 0
  <2> DEFINE flat == CHOOSE f : Flat(ss, n, f)
  <2>1. Flat(ss, n, flat)
    BY <1>0, FlatExists
  <2>2. FlattenSeq(ss) = (CHOOSE f : f = [i \in 1 .. n |-> IF i = 1 THEN ss[i] ELSE f[i - 1] \o ss[i]])[n]
    BY <1>2 DEF FlattenSeq
  <2>3. FlattenSeq(ss) = flat[n]
    BY <2>2 DEF Flat, FlatFrom
  <2>4. \A i \in 1 .. n : flat[i] = FlatFrom(ss, i, flat)
    BY <2>1 DEF Flat
  <2> HIDE DEF flat, n
  <2> DEFINE Upto(k) == UNION {D[i] : i \in 1 .. k}
             Holds(k) == flat[k] \in Seq(T) /\ Lists(flat[k], Upto(k), F)
             S == {k \in Nat : k \in 1 .. n => Holds(k)}
  <2>5. 0 \in S
    BY <1>0
  <2>6. ASSUME NEW k \in Nat, k \in S, k + 1 \in 1 .. n PROVE Holds(k + 1)
    <3>0. ss[k + 1] \in Seq(T) /\ Lists(ss[k + 1], D[k + 1], F)
      BY <1>0, <2>6
    <3>1. CASE k = 0
      <4>1. flat[k + 1] = ss[k + 1] /\ 1 .. k + 1 = {k + 1}
        BY <2>4, <2>6, <3>1 DEF FlatFrom
      <4>2. Upto(k + 1) = D[k + 1]
        BY <4>1
      <4> QED BY <3>0, <4>1, <4>2
    <3>2. CASE k # 0
      <4>1. flat[k] \in Seq(T) /\ Lists(flat[k], Upto(k), F)
        <5> HIDE DEF Upto
        <5> QED BY <1>0, <2>6, <3>2
      <4>2. flat[k + 1] = flat[k] \o ss[k + 1]
        <5>1. k + 1 # 1 /\ (k + 1) - 1 = k
          BY <2>6, <3>2
        <5>2. flat[k + 1] = FlatFrom(ss, k + 1, flat)
          BY <2>4, <2>6
        <5> QED BY <5>1, <5>2 DEF FlatFrom
      <4>3. 1 .. k + 1 = (1 .. k) \cup {k + 1} /\ 1 .. k \subseteq DOMAIN ss /\ k + 1 \in DOMAIN ss /\ k + 1 \notin 1 .. k
        BY <1>0, <2>6
      <4>4. Upto(k + 1) = Upto(k) \cup D[k + 1]
        BY <4>3
      <4>5. Upto(k) \cap D[k + 1] = {}
        BY <4>3
      <4> HIDE DEF Upto
      <4>6. Lists(flat[k] \o ss[k + 1], Upto(k) \cup D[k + 1], F)
        BY <3>0, <4>1, <4>5, ListsConcatenated
      <4>7. flat[k] \o ss[k + 1] \in Seq(T)
        BY <3>0, <4>1, ConcatProperties
      <4> QED BY <4>2, <4>4, <4>6, <4>7
    <3> QED BY <3>1, <3>2
  <2>7. ASSUME NEW k \in Nat, k \in S PROVE k + 1 \in S
    <3> HIDE DEF Holds
    <3> QED BY <2>6, <2>7
  <2>8. Nat \subseteq S
    <3> HIDE DEF S
    <3> QED BY <2>5, <2>7, NatSetInduction
  <2>9. Holds(n)
    <3> HIDE DEF Holds
    <3>1. n \in S /\ n \in 1 .. n
      BY <1>0, <1>2, <2>8
    <3> QED BY <3>1
  <2> QED BY <1>0, <2>3, <2>9
<1> QED BY <1>1, <1>2

-------------------------------------------------------------------------------
(* Members and paths are found by name, once.                                *)
PathEntries == [path : Seq(STRING), methods : Seq(STRING)]
GoodPaths(ps) ==
    /\ ps \in Seq(PathEntries)
    /\ \A i, j \in DOMAIN ps : ps[i].path = ps[j].path => i = j
    /\ \A i \in DOMAIN ps : IsInjective(ps[i].methods)
Offers(ps, p, m) == \E i \in DOMAIN ps : ps[i].path = p /\ m \in ToSet(ps[i].methods)

LEMMA Empty ==
    ASSUME NEW T
    PROVE  <<>> \in Seq(T) /\ DOMAIN <<>> = {} /\ ToSet(<<>>) = {}
<1>1. <<>> \in Seq(T)
  BY EmptySeq
<1>2. DOMAIN <<>> = {}
  OBVIOUS
<1> QED BY <1>1, <1>2 DEF ToSet

LEMMA Single ==
    ASSUME NEW T, NEW v \in T
    PROVE  /\ <<v>> \in Seq(T) /\ DOMAIN <<v>> = {1} /\ <<v>>[1] = v
           /\ ToSet(<<v>>) = {v} /\ IsInjective(<<v>>)
<1>1. <<v>> \in Seq(T) /\ DOMAIN <<v>> = {1} /\ <<v>>[1] = v
  OBVIOUS
<1> QED BY <1>1 DEF ToSet, IsInjective

LEMMA MethodAdded ==
    ASSUME NEW ps, GoodPaths(ps), NEW path \in Seq(STRING), NEW method \in STRING
    PROVE  /\ GoodPaths(WithMethod(ps, path, method))
           /\ \A p, m : Offers(WithMethod(ps, path, method), p, m) <=> Offers(ps, p, m) \/ (p = path /\ m = method)
<1> DEFINE new == WithMethod(ps, path, method)
           I == {k \in 1 .. Len(ps) : ps[k].path = path}
           i == IF I # {} THEN Min(I) ELSE 0
           n == Len(ps)
<1>1. ps \in Seq(PathEntries) /\ n \in Nat /\ DOMAIN ps = 1 .. n
  BY LenProperties DEF GoodPaths
<1>2. new = IF i = 0 THEN Append(ps, [path |-> path, methods |-> <<method>>])
            ELSE IF method \in ToSet(ps[i].methods) THEN ps
            ELSE [ps EXCEPT ![i].methods = Append(@, method)]
  BY DEF WithMethod, SelectInSeq
<1>3. IF i = 0 THEN \A k \in 1 .. n : ps[k].path # path ELSE i \in 1 .. n /\ ps[i].path = path
  <2>1. I \subseteq Nat /\ I \subseteq 1 .. n /\ (\A k \in I : ps[k].path = path /\ k # 0)
        /\ (I = {} => \A k \in 1 .. n : ps[k].path # path)
    OBVIOUS
  <2> HIDE DEF I, n
  <2>2. I # {} => Min(I) \in I
    BY <2>1, Smallest
  <2> QED BY <2>1, <2>2
<1>4. \A k \in 1 .. n : /\ ps[k] \in PathEntries /\ ps[k].path \in Seq(STRING) /\ ps[k].methods \in Seq(STRING)
                        /\ DOMAIN ps[k] = {"path", "methods"} /\ IsInjective(ps[k].methods)
  <2> SUFFICES ASSUME NEW k \in 1 .. n
               PROVE  /\ ps[k] \in PathEntries /\ ps[k].path \in Seq(STRING) /\ ps[k].methods \in Seq(STRING)
                      /\ DOMAIN ps[k] = {"path", "methods"} /\ IsInjective(ps[k].methods)
    OBVIOUS
  <2>1. ps[k] \in PathEntries
    BY <1>1, ElementOfSeq
  <2> QED BY <1>1, <2>1 DEF GoodPaths, PathEntries
<1>5. \A k, l \in 1 .. n : ps[k].path = ps[l].path => k = l
  BY <1>1 DEF GoodPaths
<1>6. \A p, m : Offers(ps, p, m) <=> \E k \in 1 .. n : ps[k].path = p /\ m \in ToSet(ps[k].methods)
  BY <1>1 DEF Offers
<1> HIDE DEF new, I, i, n
<1>7. CASE i = 0
  <2> DEFINE e == [path |-> path, methods |-> <<method>>]
  <2>1. /\ e \in PathEntries /\ e.path = path /\ e.methods = <<method>> /\ ToSet(<<method>>) = {method}
        /\ IsInjective(<<method>>)
    <3>1. <<method>> \in Seq(STRING) /\ ToSet(<<method>>) = {method} /\ IsInjective(<<method>>)
      BY Single
    <3> QED BY <3>1 DEF PathEntries
  <2> HIDE DEF e
  <2>2. new = Append(ps, e)
    BY <1>2, <1>7 DEF e
  <2>3. /\ new \in Seq(PathEntries) /\ DOMAIN new = 1 .. n + 1
        /\ new[n + 1] = e /\ \A k \in 1 .. n : new[k] = ps[k]
    BY <1>1, <2>1, <2>2, AppendProperties, LenProperties DEF n
  <2>4. \A k \in 1 .. n + 1 : k # n + 1 => k \in 1 .. n
    BY <1>1
  <2>5. n + 1 \in 1 .. n + 1 /\ 1 .. n \subseteq 1 .. n + 1
    BY <1>1
  <2>6. \A k, l \in 1 .. n + 1 : new[k].path = new[l].path => k = l
    BY <1>3, <1>5, <1>7, <2>1, <2>3, <2>4
  <2>7. \A k \in 1 .. n + 1 : IsInjective(new[k].methods)
    BY <1>4, <2>1, <2>3, <2>4
  <2>8. GoodPaths(new)
    BY <2>3, <2>6, <2>7 DEF GoodPaths
  <2>9. ASSUME NEW p, NEW m PROVE Offers(new, p, m) <=> Offers(ps, p, m) \/ (p = path /\ m = method)
    <3>1. Offers(new, p, m) <=> \E k \in 1 .. n + 1 : new[k].path = p /\ m \in ToSet(new[k].methods)
      BY <2>3 DEF Offers
    <3>2. ASSUME NEW k \in 1 .. n + 1, new[k].path = p, m \in ToSet(new[k].methods)
          PROVE  Offers(ps, p, m) \/ (p = path /\ m = method)
      <4>1. CASE k = n + 1
        BY <2>1, <2>3, <3>2, <4>1
      <4>2. CASE k # n + 1
        BY <1>6, <2>3, <2>4, <3>2, <4>2
      <4> QED BY <4>1, <4>2
    <3>3. ASSUME Offers(ps, p, m) \/ (p = path /\ m = method) PROVE Offers(new, p, m)
      <4>1. CASE Offers(ps, p, m)
        BY <1>6, <2>3, <2>5, <3>1, <4>1
      <4>2. CASE p = path /\ m = method
        BY <2>1, <2>3, <2>5, <3>1, <4>2
      <4> QED BY <3>3, <4>1, <4>2
    <3> QED BY <3>1, <3>2, <3>3
  <2> QED BY <2>8, <2>9 DEF new
<1>8. CASE i # 0 /\ method \in ToSet(ps[i].methods)
  <2>1. new = ps
    BY <1>2, <1>8
  <2> QED BY <1>3, <1>6, <1>8, <2>1 DEF new
<1>9. CASE i # 0 /\ method \notin ToSet(ps[i].methods)
  <2> DEFINE more == Append(ps[i].methods, method)
             e == [ps[i] EXCEPT !.methods = more]
  <2>0. i \in 1 .. n
    BY <1>3, <1>9
  <2>1. more \in Seq(STRING) /\ ToSet(more) = ToSet(ps[i].methods) \cup {method} /\ IsInjective(more)
    BY <1>4, <1>9, <2>0, Appended
  <2> HIDE DEF more
  <2>2. e \in PathEntries /\ e.path = path /\ e.methods = more
    BY <1>3, <1>4, <1>9, <2>0, <2>1 DEF PathEntries
  <2>3. new = [ps EXCEPT ![i] = e]
    BY <1>1, <1>2, <1>9, <2>0 DEF more
  <2> HIDE DEF e
  <2>4. /\ new \in Seq(PathEntries) /\ DOMAIN new = 1 .. n
        /\ \A k \in 1 .. n : new[k] = IF k = i THEN e ELSE ps[k]
    BY <1>1, <2>0, <2>2, <2>3, ExceptSeq
  <2>5. \A k \in 1 .. n : new[k].path = ps[k].path
    BY <1>3, <1>9, <2>2, <2>4
  <2>6. \A k \in 1 .. n : IsInjective(new[k].methods)
    BY <1>4, <2>1, <2>2, <2>4
  <2>7. GoodPaths(new)
    BY <1>5, <2>4, <2>5, <2>6 DEF GoodPaths
  <2>8. \A k \in 1 .. n : ToSet(new[k].methods) = IF k = i THEN ToSet(ps[k].methods) \cup {method} ELSE ToSet(ps[k].methods)
    BY <2>1, <2>2, <2>4
  <2>9. ASSUME NEW p, NEW m PROVE Offers(new, p, m) <=> Offers(ps, p, m) \/ (p = path /\ m = method)
    <3>1. Offers(new, p, m) <=> \E k \in 1 .. n : new[k].path = p /\ m \in ToSet(new[k].methods)
      BY <2>4 DEF Offers
    <3>2. Offers(new, p, m) => Offers(ps, p, m) \/ (p = path /\ m = method)
      <4> SUFFICES ASSUME NEW k \in 1 .. n, new[k].path = p, m \in ToSet(new[k].methods)
                   PROVE  Offers(ps, p, m) \/ (p = path /\ m = method)
        BY <3>1
      <4>1. ps[k].path = p /\ (m \in ToSet(ps[k].methods) \/ (k = i /\ m = method))
        BY <2>5, <2>8
      <4> QED BY <1>3, <1>6, <1>9, <4>1
    <3>3. Offers(ps, p, m) => Offers(new, p, m)
      <4> SUFFICES ASSUME NEW k \in 1 .. n, ps[k].path = p, m \in ToSet(ps[k].methods)
                   PROVE  Offers(new, p, m)
        BY <1>6
      <4> QED BY <2>5, <2>8, <3>1
    <3>4. Offers(new, path, method)
      <4>1. new[i].path = path /\ method \in ToSet(new[i].methods)
        BY <1>3, <1>9, <2>0, <2>5, <2>8
      <4> QED BY <2>0, <2>4, <4>1 DEF Offers
    <3> QED BY <3>2, <3>3, <3>4
  <2> QED BY <2>7, <2>9 DEF new
<1> QED BY <1>7, <1>8, <1>9

(* An entry for a member is stored in the place of the one it has.           *)
NewMap(s, e) ==
    LET i == SelectInSeq(s, LAMBDA x : x.member = e.member)
    IN IF i = 0 THEN Append(s, e) ELSE [s EXCEPT ![i] = e]
MembersOnce(s) == \A i, j \in DOMAIN s : s[i].member = s[j].member => i = j

LEMMA EntryStored ==
    ASSUME NEW E, NEW s \in Seq(E), MembersOnce(s), NEW e \in E
    PROVE  /\ NewMap(s, e) \in Seq(E) /\ MembersOnce(NewMap(s, e))
           /\ ToSet(NewMap(s, e)) = {x \in ToSet(s) : x.member # e.member} \cup {e}
<1> DEFINE I == {k \in 1 .. Len(s) : s[k].member = e.member}
           i == IF I # {} THEN Min(I) ELSE 0
           n == Len(s)
           t == NewMap(s, e)
<1>1. n \in Nat /\ DOMAIN s = 1 .. n
  BY LenProperties
<1>2. t = IF i = 0 THEN Append(s, e) ELSE [s EXCEPT ![i] = e]
  BY DEF NewMap, SelectInSeq
<1>3. IF i = 0 THEN \A k \in 1 .. n : s[k].member # e.member ELSE i \in 1 .. n /\ s[i].member = e.member
  <2>1. I \subseteq Nat /\ I \subseteq 1 .. n /\ (\A k \in I : s[k].member = e.member /\ k # 0)
        /\ (I = {} => \A k \in 1 .. n : s[k].member # e.member)
    OBVIOUS
  <2> HIDE DEF I, n
  <2>2. I # {} => Min(I) \in I
    BY <2>1, Smallest
  <2> QED BY <2>1, <2>2
<1>4. \A k, l \in 1 .. n : s[k].member = s[l].member => k = l
  BY <1>1 DEF MembersOnce
<1>5. ToSet(s) = {s[k] : k \in 1 .. n}
  BY <1>1 DEF ToSet
<1> HIDE DEF t, I, i, n
<1>6. CASE i = 0
  <2>1. /\ t \in Seq(E) /\ DOMAIN t = 1 .. n + 1
        /\ t[n + 1] = e /\ \A k \in 1 .. n : t[k] = s[k]
    BY <1>2, <1>6, AppendProperties, LenProperties DEF n
  <2>2. \A k \in 1 .. n + 1 : k # n + 1 => k \in 1 .. n
    BY <1>1
  <2>3. MembersOnce(t)
    BY <1>3, <1>4, <1>6, <2>1, <2>2 DEF MembersOnce
  <2>4. ToSet(t) = ToSet(s) \cup {e}
    BY <1>2, <1>6, Appended
  <2>5. \A x \in ToSet(s) : x.member # e.member
    BY <1>3, <1>5, <1>6
  <2> QED BY <2>1, <2>3, <2>4, <2>5 DEF t
<1>7. CASE i # 0
  <2>1. /\ t \in Seq(E) /\ DOMAIN t = 1 .. n /\ i \in 1 .. n
        /\ \A k \in 1 .. n : t[k] = IF k = i THEN e ELSE s[k]
    BY <1>1, <1>2, <1>3, <1>7, ExceptSeq
  <2>2. MembersOnce(t)
    BY <1>3, <1>4, <1>7, <2>1 DEF MembersOnce
  <2>3. ToSet(t) = {t[k] : k \in 1 .. n}
    BY <2>1 DEF ToSet
  <2>4. \A k \in 1 .. n : s[k].member = e.member <=> k = i
    BY <1>3, <1>4, <1>7
  <2>5. ToSet(t) = {x \in ToSet(s) : x.member # e.member} \cup {e}
    BY <1>5, <2>1, <2>3, <2>4
  <2> QED BY <2>1, <2>2, <2>5 DEF t
<1> QED BY <1>6, <1>7

-------------------------------------------------------------------------------
(* What metadata says of a class when the decorators `as` have run.          *)
OfIn(as, c, m, kind) == {d \in as : d.class = c /\ d.member = m /\ d.kind = kind}
Said(ds) == UNION {ToSet(a.conditions) : a \in ds}

CorsGiven == {NoCors} \cup {d.cors : d \in {x \in UNION Applications : x.kind = "cors"}}
EntryType ==
    [member : STRING, routed : BOOLEAN, paths : Seq(PathEntries), cors : CorsGiven, authorization : Seq(STRING)]
MetaType == [path : Seq(STRING), cors : CorsGiven, authorization : Seq(STRING), routeMap : Seq(EntryType)]

EntryOf(as, c, e) ==
    /\ e.member # Itself
    /\ e.routed <=> OfIn(as, c, e.member, "http") # {} \/ OfIn(as, c, e.member, "cors") # {}
    /\ ToSet(e.authorization) = Said(OfIn(as, c, e.member, "authorized"))
    /\ e.cors.kind # "none" <=> OfIn(as, c, e.member, "cors") # {}
    /\ GoodPaths(e.paths)
    /\ \A p, h : Offers(e.paths, p, h) <=> \E d \in OfIn(as, c, e.member, "http") : d.path = p /\ d.method = h
Founded(as, c, e) == e.routed \/ OfIn(as, c, e.member, "authorized") # {}

EntriesOf(as, c, s) ==
    /\ MembersOnce(s)
    /\ \A e \in ToSet(s) : EntryOf(as, c, e) /\ Founded(as, c, e)
    /\ \A d \in as : d.class = c /\ d.member # Itself => \E e \in ToSet(s) : e.member = d.member
ClassOf(as, c, mc) ==
    /\ ToSet(mc.authorization) = Said(OfIn(as, c, Itself, "authorized"))
    /\ mc.cors.kind # "none" <=> OfIn(as, c, Itself, "cors") # {}
    /\ \A d \in OfIn(as, c, Itself, "controller") : mc.path = d.path
    /\ EntriesOf(as, c, mc.routeMap)

ClassesOf(ds) == {d.class : d \in ds}
MetaInv ==
    /\ decorations \in Applications /\ applied \subseteq decorations
    /\ meta \in [ClassesOf(decorations) -> MetaType]
    /\ \A c \in ClassesOf(decorations) : ClassOf(applied, c, meta[c])
    /\ controllers \in Seq(STRING) /\ IsInjective(controllers)
    /\ ToSet(controllers) = {d.class : d \in {x \in applied : x.kind = "controller"}}

LEMMA DecorationFacts ==
    ASSUME NEW ds \in Applications, NEW d \in ds
    PROVE  /\ d.class \in STRING /\ (d.member # Itself => d.member \in STRING) /\ d.kind \in {"controller", "http", "authorized", "cors"}
           /\ d.class # "CorsHandler" /\ d.class \in ClassesOf(ds)
           /\ d.kind = "controller" => d.member = Itself /\ d.path \in Seq(STRING)
           /\ d.kind = "http" => d.member # Itself /\ d.method \in STRING /\ d.path \in Seq(STRING)
           /\ d.kind = "authorized" => d.conditions \in Seq(STRING)
           /\ d.kind = "cors" => d.cors \in CorsGiven /\ d.cors.kind # "none"
<1>1. (d \in DecorationSet \/ IsCorsDecoration(d)) /\ d.class # "CorsHandler"
  BY ApplicationsAssumption
<1>2. d.kind = "cors" => d.cors \in CorsGiven
  BY DEF CorsGiven
<1>3. CASE d \in DecorationSet
  <2>0. d.class \in ClassesOf(ds)
    BY DEF ClassesOf
  <2>1. CASE d \in [class : STRING, member : {Itself}, kind : {"controller"}, path : Seq(STRING)]
    <3>1. d.class \in STRING /\ d.member = Itself /\ d.kind = "controller" /\ d.path \in Seq(STRING)
      BY <2>1
    <3>2. d.kind # "http" /\ d.kind # "authorized" /\ d.kind # "cors" /\ d.kind \in {"controller", "http", "authorized", "cors"}
      BY <3>1
    <3> QED BY <1>1, <2>0, <3>1, <3>2
  <2>2. CASE d \in [class : STRING, member : STRING \ {Itself}, kind : {"http"}, method : STRING, path : Seq(STRING)]
    <3>1. d.class \in STRING /\ d.member \in STRING /\ d.member # Itself /\ d.kind = "http" /\ d.method \in STRING /\ d.path \in Seq(STRING)
      BY <2>2
    <3> QED BY <1>1, <2>0, <3>1
  <2>3. CASE d \in [class : STRING, member : STRING, kind : {"authorized"}, conditions : Seq(STRING)]
    <3>1. d.class \in STRING /\ d.member \in STRING /\ d.kind = "authorized" /\ d.conditions \in Seq(STRING)
      BY <2>3
    <3> QED BY <1>1, <2>0, <3>1
  <2> QED BY <1>3, <2>1, <2>2, <2>3 DEF DecorationSet
<1>4. CASE IsCorsDecoration(d)
  BY <1>1, <1>2, <1>4 DEF IsCorsDecoration, ClassesOf
<1> QED BY <1>1, <1>3, <1>4

LEMMA SameHttp ==
    ASSUME NEW ds \in Applications, NEW d \in ds, NEW e \in ds, d.kind = "http", e.kind = "http",
           d.class = e.class, d.member = e.member, d.method = e.method, d.path = e.path
    PROVE  d = e
<1> DEFINE S == [class : STRING, member : STRING \ {Itself}, kind : {"http"}, method : STRING, path : Seq(STRING)]
<1>1. ASSUME NEW x \in ds, x.kind = "http" PROVE x \in S
  <2>1. x \in DecorationSet
    BY <1>1, ApplicationsAssumption DEF IsCorsDecoration
  <2> QED BY <1>1, <2>1 DEF DecorationSet
<1>2. d \in S /\ e \in S
  BY <1>1
<1>3. ASSUME NEW x \in S
      PROVE  x = [class |-> x.class, member |-> x.member, kind |-> "http", method |-> x.method, path |-> x.path]
  OBVIOUS
<1> HIDE DEF S
<1>4. d = [class |-> d.class, member |-> d.member, kind |-> "http", method |-> d.method, path |-> d.path]
  BY <1>2, <1>3
<1>5. e = [class |-> e.class, member |-> e.member, kind |-> "http", method |-> e.method, path |-> e.path]
  BY <1>2, <1>3
<1> QED BY <1>4, <1>5

(* One more decorator: what it is not about stays.                           *)
LEMMA SaidMore == ASSUME NEW ds, NEW d PROVE Said(ds \cup {d}) = Said(ds) \cup ToSet(d.conditions)
BY DEF Said

LEMMA EntryStays ==
    ASSUME NEW as, NEW d, NEW c, NEW e, d.class # c \/ d.member # e.member
    PROVE  /\ EntryOf(as, c, e) => EntryOf(as \cup {d}, c, e)
           /\ Founded(as, c, e) => Founded(as \cup {d}, c, e)
<1>1. ASSUME NEW kind PROVE OfIn(as \cup {d}, c, e.member, kind) = OfIn(as, c, e.member, kind)
  BY DEF OfIn
<1>2. OfIn(as \cup {d}, c, e.member, "http") = OfIn(as, c, e.member, "http")
  BY <1>1
<1>3. OfIn(as \cup {d}, c, e.member, "cors") = OfIn(as, c, e.member, "cors")
  BY <1>1
<1>4. OfIn(as \cup {d}, c, e.member, "authorized") = OfIn(as, c, e.member, "authorized")
  BY <1>1
<1> DEFINE bs == as \cup {d}
<1>5. OfIn(bs, c, e.member, "http") = OfIn(as, c, e.member, "http")
  BY <1>2
<1>6. OfIn(bs, c, e.member, "cors") = OfIn(as, c, e.member, "cors")
  BY <1>3
<1>7. OfIn(bs, c, e.member, "authorized") = OfIn(as, c, e.member, "authorized")
  BY <1>4
<1> HIDE DEF bs
<1>8. Founded(as, c, e) => Founded(bs, c, e)
  BY <1>7 DEF Founded
<1>9. EntryOf(as, c, e) => EntryOf(bs, c, e)
  <2> DEFINE m == e.member
  <2>1. OfIn(bs, c, m, "http") = OfIn(as, c, m, "http") /\ OfIn(bs, c, m, "cors") = OfIn(as, c, m, "cors")
        /\ OfIn(bs, c, m, "authorized") = OfIn(as, c, m, "authorized")
    BY <1>5, <1>6, <1>7
  <2>2. ASSUME EntryOf(as, c, e) PROVE EntryOf(bs, c, e)
    <3>1. /\ m # Itself
          /\ e.routed <=> OfIn(as, c, m, "http") # {} \/ OfIn(as, c, m, "cors") # {}
          /\ ToSet(e.authorization) = Said(OfIn(as, c, m, "authorized"))
          /\ e.cors.kind # "none" <=> OfIn(as, c, m, "cors") # {}
          /\ GoodPaths(e.paths)
      BY <2>2 DEF EntryOf
    <3>2. \A p, h : Offers(e.paths, p, h) <=> \E d1 \in OfIn(as, c, m, "http") : d1.path = p /\ d1.method = h
      BY <2>2 DEF EntryOf
    <3>3. \A p, h : Offers(e.paths, p, h) <=> \E d1 \in OfIn(bs, c, m, "http") : d1.path = p /\ d1.method = h
      <4> TAKE p, h
      <4>1. Offers(e.paths, p, h) <=> \E d1 \in OfIn(as, c, m, "http") : d1.path = p /\ d1.method = h
        BY <3>2
      <4> QED BY <2>1, <4>1
    <3> QED BY <2>1, <3>1, <3>3 DEF EntryOf
  <2> QED BY <2>2
<1> QED BY <1>8, <1>9 DEF bs

LEMMA OtherClassStays ==
    ASSUME NEW as, NEW d, NEW c, NEW mc, d.class # c, ClassOf(as, c, mc)
    PROVE  ClassOf(as \cup {d}, c, mc)
<1>1. ASSUME NEW m, NEW kind PROVE OfIn(as \cup {d}, c, m, kind) = OfIn(as, c, m, kind)
  BY DEF OfIn
<1>2. EntriesOf(as, c, mc.routeMap)
  BY DEF ClassOf
<1>3. ASSUME NEW e, EntryOf(as, c, e), Founded(as, c, e)
      PROVE  EntryOf(as \cup {d}, c, e) /\ Founded(as \cup {d}, c, e)
  BY <1>3, EntryStays
<1>4. EntriesOf(as \cup {d}, c, mc.routeMap)
  BY <1>2, <1>3 DEF EntriesOf
<1>5. OfIn(as \cup {d}, c, Itself, "authorized") = OfIn(as, c, Itself, "authorized")
  BY <1>1
<1>6. OfIn(as \cup {d}, c, Itself, "cors") = OfIn(as, c, Itself, "cors")
  BY <1>1
<1>7. OfIn(as \cup {d}, c, Itself, "controller") = OfIn(as, c, Itself, "controller")
  BY <1>1
<1> QED BY <1>4, <1>5, <1>6, <1>7 DEF ClassOf

(* The entry to which a decorator of a member adds.                          *)
LEMMA MethodEntryIs ==
    ASSUME MetaInv, NEW c \in ClassesOf(decorations), NEW m \in STRING, m # Itself
    PROVE  /\ MethodEntry(c, m) \in EntryType /\ MethodEntry(c, m).member = m
           /\ EntryOf(applied, c, MethodEntry(c, m))
           /\ MethodEntry(c, m) \in ToSet(meta[c].routeMap) \/ MethodEntry(c, m) = NewEntry(m)
<1> DEFINE s == meta[c].routeMap
           I == {k \in 1 .. Len(s) : s[k].member = m}
           i == IF I # {} THEN Min(I) ELSE 0
           n == Len(s)
<1>1. s \in Seq(EntryType) /\ EntriesOf(applied, c, s)
  BY DEF MetaInv, ClassOf, MetaType
<1>2. n \in Nat /\ DOMAIN s = 1 .. n
  BY <1>1, LenProperties
<1>3. MethodEntry(c, m) = IF i = 0 THEN NewEntry(m) ELSE s[i]
  BY DEF MethodEntry, EntryFor, SelectInSeq
<1>4. IF i = 0 THEN \A k \in 1 .. n : s[k].member # m ELSE i \in 1 .. n /\ s[i].member = m
  <2>1. I \subseteq Nat /\ I \subseteq 1 .. n /\ (\A k \in I : s[k].member = m /\ k # 0)
        /\ (I = {} => \A k \in 1 .. n : s[k].member # m)
    <3>1. I = {k \in 1 .. Len(s) : s[k].member = m} /\ n = Len(s)
      OBVIOUS
    <3>2. Len(s) \in Nat
      BY <1>2
    <3> HIDE DEF s, I, i, n
    <3>3. I \subseteq Nat /\ I \subseteq 1 .. n
      BY <3>1, <3>2
    <3>4. \A k \in I : s[k].member = m /\ k # 0
      BY <3>1, <3>2
    <3>5. I = {} => \A k \in 1 .. n : s[k].member # m
      BY <3>1, <3>2
    <3> QED BY <3>3, <3>4, <3>5
  <2> HIDE DEF I, n, s
  <2>2. I # {} => Min(I) \in I
    BY <2>1, Smallest
  <2> QED BY <2>1, <2>2
<1> HIDE DEF s, I, i, n
<1>5. CASE i # 0
  <2>1. s[i] \in EntryType /\ s[i] \in ToSet(s)
    BY <1>1, <1>2, <1>4, <1>5, ElementOfSeq DEF ToSet, n
  <2>2. EntryOf(applied, c, s[i])
    BY <1>1, <2>1 DEF EntriesOf
  <2> QED BY <1>3, <1>4, <1>5, <2>1, <2>2 DEF s
<1>6. CASE i = 0
  <2>1. \A d \in applied : ~(d.class = c /\ d.member = m)
    <3>1. \A e \in ToSet(s) : e.member # m
      BY <1>2, <1>4, <1>6 DEF ToSet
    <3> QED BY <1>1, <3>1 DEF EntriesOf
  <2>2. \A kind : OfIn(applied, c, m, kind) = {}
    BY <2>1 DEF OfIn
  <2> DEFINE e == NewEntry(m)
  <2>3. /\ e.member = m /\ e.routed = FALSE /\ e.paths = <<>> /\ e.cors = NoCors /\ e.authorization = <<>>
        /\ e \in EntryType
    <3>1. NoCors \in CorsGiven
      BY DEF CorsGiven
    <3>2. <<>> \in Seq(PathEntries) /\ <<>> \in Seq(STRING)
      BY Empty
    <3> QED BY <3>1, <3>2 DEF NewEntry, EntryType
  <2>4. NoCors.kind = "none" /\ ToSet(<<>>) = {} /\ Said({}) = {}
    <3>1. NoCors.kind = "none"
      BY DEF NoCors
    <3>2. ToSet(<<>>) = {}
      BY Empty
    <3>3. Said({}) = {}
      BY DEF Said
    <3> QED BY <3>1, <3>2, <3>3
  <2>5. GoodPaths(<<>>) /\ \A p, h : ~Offers(<<>>, p, h)
    <3>1. <<>> \in Seq(PathEntries) /\ DOMAIN <<>> = {}
      BY Empty
    <3> QED BY <3>1 DEF GoodPaths, Offers
  <2> HIDE DEF e
  <2>6. EntryOf(applied, c, e)
    BY <2>2, <2>3, <2>4, <2>5 DEF EntryOf
  <2> QED BY <1>3, <1>6, <2>3, <2>6 DEF e
<1> QED BY <1>5, <1>6

(* A decorator of a member that stores the entry e.                          *)
Tells(as, m) == m \in [ClassesOf(decorations) -> MetaType] /\ \A c \in ClassesOf(decorations) : ClassOf(as, c, m[c])

LEMMA MemberTold ==
    ASSUME MetaInv, NEW d \in decorations, d.member # Itself, d.kind # "controller",
           NEW e \in EntryType, e.member = d.member,
           EntryOf(applied \cup {d}, d.class, e), Founded(applied \cup {d}, d.class, e)
    PROVE  Tells(applied \cup {d}, WithEntry(d.class, e))
<1> DEFINE c == d.class
           s == meta[c].routeMap
           n == [meta[c] EXCEPT !.routeMap = NewMap(s, e)]
           bs == applied \cup {d}
<1>1. c \in ClassesOf(decorations)
  BY DEF ClassesOf
<1>2. meta \in [ClassesOf(decorations) -> MetaType] /\ \A x \in ClassesOf(decorations) : ClassOf(applied, x, meta[x])
  BY DEF MetaInv
<1>3. meta[c] \in MetaType /\ ClassOf(applied, c, meta[c])
  BY <1>1, <1>2
<1>4. s \in Seq(EntryType) /\ EntriesOf(applied, c, s)
  BY <1>3 DEF MetaType, ClassOf
<1>5. WithEntry(c, e) = [meta EXCEPT ![c] = n]
  BY <1>1, <1>2 DEF WithEntry, EntryFor, NewMap
<1>6. /\ NewMap(s, e) \in Seq(EntryType) /\ MembersOnce(NewMap(s, e))
      /\ ToSet(NewMap(s, e)) = {x \in ToSet(s) : x.member # e.member} \cup {e}
  <2> HIDE DEF s
  <2> QED BY <1>4, EntryStored DEF EntriesOf
<1> HIDE DEF s
<1>7. /\ n \in MetaType /\ n.authorization = meta[c].authorization /\ n.cors = meta[c].cors
      /\ n.path = meta[c].path /\ n.routeMap = NewMap(s, e)
  BY <1>3, <1>6 DEF MetaType
<1>8. \A kind : OfIn(bs, c, Itself, kind) = OfIn(applied, c, Itself, kind)
  BY DEF OfIn
<1>9. EntriesOf(bs, c, n.routeMap)
  <2>1. ASSUME NEW x \in ToSet(s), x.member # e.member PROVE EntryOf(bs, c, x) /\ Founded(bs, c, x)
    <3>1. EntryOf(applied, c, x) /\ Founded(applied, c, x)
      BY <1>4 DEF EntriesOf
    <3>2. d.class # c \/ d.member # x.member
      BY <2>1
    <3> HIDE DEF c
    <3> QED BY <3>1, <3>2, EntryStays
  <2>2. ASSUME NEW y \in bs, y.class = c, y.member # Itself
        PROVE  \E x \in ToSet(NewMap(s, e)) : x.member = y.member
    <3>1. CASE y.member = e.member
      BY <1>6, <3>1
    <3>2. CASE y.member # e.member
      <4>1. y \in applied
        BY <3>2
      <4>2. PICK x \in ToSet(s) : x.member = y.member
        BY <1>4, <2>2, <4>1 DEF EntriesOf
      <4> QED BY <1>6, <3>2, <4>2
    <3> QED BY <3>1, <3>2
  <2> HIDE DEF n, c, bs
  <2>3. EntryOf(bs, c, e) /\ Founded(bs, c, e)
    BY DEF bs, c
  <2> QED BY <1>6, <1>7, <2>1, <2>2, <2>3 DEF EntriesOf
<1>10. ClassOf(bs, c, n)
  <2> HIDE DEF n, c, bs
  <2>1. OfIn(bs, c, Itself, "authorized") = OfIn(applied, c, Itself, "authorized")
    BY <1>8
  <2>2. OfIn(bs, c, Itself, "cors") = OfIn(applied, c, Itself, "cors")
    BY <1>8
  <2>3. OfIn(bs, c, Itself, "controller") = OfIn(applied, c, Itself, "controller")
    BY <1>8
  <2> QED BY <1>3, <1>7, <1>9, <2>1, <2>2, <2>3 DEF ClassOf
<1>11. \A x \in ClassesOf(decorations) : x # c => ClassOf(bs, x, meta[x])
  BY <1>2, OtherClassStays
<1> HIDE DEF n, bs
<1>12. Tells(bs, [meta EXCEPT ![c] = n])
  <2> HIDE DEF c
  <2> QED BY <1>1, <1>2, <1>7, <1>10, <1>11 DEF Tells
<1> QED BY <1>5, <1>12 DEF bs

(* A decorator of a class, after which the metadata of the class is n.       *)
LEMMA ClassTold ==
    ASSUME MetaInv, NEW d \in decorations, d.member = Itself,
           NEW n \in MetaType, n.routeMap = meta[d.class].routeMap,
           ToSet(n.authorization) = Said(OfIn(applied \cup {d}, d.class, Itself, "authorized")),
           n.cors.kind # "none" <=> OfIn(applied \cup {d}, d.class, Itself, "cors") # {},
           \A x \in OfIn(applied \cup {d}, d.class, Itself, "controller") : n.path = x.path
    PROVE  Tells(applied \cup {d}, [meta EXCEPT ![d.class] = n])
<1> DEFINE c == d.class
           s == meta[c].routeMap
           bs == applied \cup {d}
<1>1. c \in ClassesOf(decorations)
  BY DEF ClassesOf
<1>2. meta \in [ClassesOf(decorations) -> MetaType] /\ \A x \in ClassesOf(decorations) : ClassOf(applied, x, meta[x])
  BY DEF MetaInv
<1>3. EntriesOf(applied, c, s)
  BY <1>1, <1>2 DEF ClassOf
<1> HIDE DEF s
<1>4. ASSUME NEW x \in ToSet(s) PROVE EntryOf(bs, c, x) /\ Founded(bs, c, x)
  <2>1. EntryOf(applied, c, x) /\ Founded(applied, c, x)
    BY <1>3 DEF EntriesOf
  <2>2. d.class # c \/ d.member # x.member
    BY <2>1 DEF EntryOf
  <2> HIDE DEF c
  <2> QED BY <2>1, <2>2, EntryStays
<1>5. ASSUME NEW y \in bs, y.class = c, y.member # Itself PROVE \E x \in ToSet(s) : x.member = y.member
  <2>1. y \in applied
    BY <1>5
  <2> QED BY <1>3, <1>5, <2>1 DEF EntriesOf
<1>6. n.routeMap = s
  BY DEF s
<1>7. ClassOf(bs, c, n)
  <2>1. EntriesOf(bs, c, s)
    <3> HIDE DEF bs, c
    <3> QED BY <1>3, <1>4, <1>5 DEF EntriesOf
  <2> QED BY <1>6, <2>1 DEF ClassOf
<1>8. \A x \in ClassesOf(decorations) : x # c => ClassOf(bs, x, meta[x])
  BY <1>2, OtherClassStays
<1> HIDE DEF bs
<1>9. Tells(bs, [meta EXCEPT ![c] = n])
  <2> HIDE DEF c
  <2> QED BY <1>1, <1>2, <1>7, <1>8 DEF Tells
<1> QED BY <1>9 DEF bs

LEMMA MetaKept ==
    ASSUME MetaInv, NEW d \in decorations, Runs(d), d.kind # "controller", controllers' = controllers,
           Tells(applied \cup {d}, meta')
    PROVE  MetaInv'
<1>1. decorations' = decorations /\ applied' = applied \cup {d}
  BY DEF Runs
<1>2. {x \in applied \cup {d} : x.kind = "controller"} = {x \in applied : x.kind = "controller"}
  OBVIOUS
<1>3. /\ decorations \in Applications /\ applied \subseteq decorations
      /\ controllers \in Seq(STRING) /\ IsInjective(controllers)
      /\ ToSet(controllers) = {x.class : x \in {y \in applied : y.kind = "controller"}}
  BY DEF MetaInv
<1>4. applied \cup {d} \subseteq decorations
  BY <1>3
<1>5. /\ meta' \in [ClassesOf(decorations) -> MetaType]
      /\ \A c \in ClassesOf(decorations) : ClassOf(applied \cup {d}, c, meta'[c])
  BY DEF Tells
<1>6. \A c \in ClassesOf(decorations') : ClassOf(applied', c, meta'[c])
  BY <1>1, <1>5
<1>7. ToSet(controllers') = {x.class : x \in {y \in applied' : y.kind = "controller"}}
  BY <1>1, <1>2, <1>3
<1>8. decorations' \in Applications /\ applied' \subseteq decorations' /\ controllers' \in Seq(STRING) /\ IsInjective(controllers')
  BY <1>1, <1>3, <1>4
<1>9. meta' \in [ClassesOf(decorations') -> MetaType]
  BY <1>1, <1>5
<1> QED BY <1>6, <1>7, <1>8, <1>9 DEF MetaInv

LEMMA HttpMeta ==
    ASSUME MetaInv, NEW d \in decorations, HttpMethodDecorator(d)
    PROVE  MetaInv'
<1> DEFINE c == d.class
           m == d.member
           old == MethodEntry(c, m)
           ps == WithMethod(old.paths, d.path, d.method)
           e == [old EXCEPT !.routed = TRUE, !.paths = ps]
           bs == applied \cup {d}
<1>1. d.kind = "http" /\ Runs(d) /\ meta' = WithEntry(c, e) /\ controllers' = controllers
  BY DEF HttpMethodDecorator
<1>2. c \in ClassesOf(decorations) /\ m \in STRING /\ m # Itself /\ d.method \in STRING /\ d.path \in Seq(STRING)
  BY <1>1, DecorationFacts DEF MetaInv
<1> HIDE DEF c, m
<1>3. old \in EntryType /\ old.member = m /\ EntryOf(applied, c, old)
  BY <1>2, MethodEntryIs
<1> HIDE DEF old
<1>4. GoodPaths(old.paths)
  BY <1>3 DEF EntryOf
<1>5. GoodPaths(ps) /\ \A p, h : Offers(ps, p, h) <=> Offers(old.paths, p, h) \/ (p = d.path /\ h = d.method)
  <2>1. ASSUME NEW path \in Seq(STRING), NEW method \in STRING
        PROVE  /\ GoodPaths(WithMethod(old.paths, path, method))
               /\ \A p, h : Offers(WithMethod(old.paths, path, method), p, h) <=>
                     Offers(old.paths, p, h) \/ (p = path /\ h = method)
    BY <1>4, MethodAdded
  <2> QED BY <1>2, <2>1
<1> HIDE DEF ps
<1>6. ps \in Seq(PathEntries)
  BY <1>5 DEF GoodPaths
<1>7. /\ e \in EntryType /\ e.member = m /\ e.routed = TRUE /\ e.paths = ps
      /\ e.cors = old.cors /\ e.authorization = old.authorization
  BY <1>3, <1>6 DEF EntryType
<1> HIDE DEF e
<1>8. /\ OfIn(bs, c, m, "http") = OfIn(applied, c, m, "http") \cup {d}
      /\ OfIn(bs, c, m, "cors") = OfIn(applied, c, m, "cors")
      /\ OfIn(bs, c, m, "authorized") = OfIn(applied, c, m, "authorized")
  BY <1>1 DEF OfIn, c, m
<1> HIDE DEF bs
<1>9. EntryOf(bs, c, e)
  <2>1. /\ m # Itself
        /\ ToSet(old.authorization) = Said(OfIn(applied, c, m, "authorized"))
        /\ old.cors.kind # "none" <=> OfIn(applied, c, m, "cors") # {}
    BY <1>3 DEF EntryOf
  <2>2. \A p, h : Offers(old.paths, p, h) <=> \E x \in OfIn(applied, c, m, "http") : x.path = p /\ x.method = h
    BY <1>3 DEF EntryOf
  <2>3. ASSUME NEW p, NEW h
        PROVE  Offers(ps, p, h) <=> \E x \in OfIn(bs, c, m, "http") : x.path = p /\ x.method = h
    <3>1. Offers(old.paths, p, h) <=> \E x \in OfIn(applied, c, m, "http") : x.path = p /\ x.method = h
      BY <2>2
    <3>2. Offers(ps, p, h) <=> Offers(old.paths, p, h) \/ (p = d.path /\ h = d.method)
      BY <1>5
    <3> QED BY <1>8, <3>1, <3>2
  <2>4. OfIn(bs, c, m, "http") # {}
    BY <1>8
  <2> QED BY <1>5, <1>7, <1>8, <2>1, <2>3, <2>4 DEF EntryOf
<1>10. Founded(bs, c, e)
  BY <1>7 DEF Founded
<1>11. Tells(bs, meta')
  <2>1. d.member # Itself /\ d.kind # "controller" /\ e.member = d.member
    BY <1>1, <1>2, <1>7 DEF m
  <2>2. EntryOf(applied \cup {d}, d.class, e) /\ Founded(applied \cup {d}, d.class, e)
    BY <1>9, <1>10 DEF bs, c
  <2>3. Tells(applied \cup {d}, WithEntry(d.class, e))
    BY <1>7, <2>1, <2>2, MemberTold
  <2> QED BY <1>1, <2>3 DEF bs, c
<1> QED BY <1>1, <1>11, MetaKept DEF bs

LEMMA CorsMeta ==
    ASSUME MetaInv, NEW d \in decorations, Cors(d)
    PROVE  MetaInv'
<1> DEFINE c == d.class
           m == d.member
           old == MethodEntry(c, m)
           bs == applied \cup {d}
<1>1. /\ d.kind = "cors" /\ Runs(d) /\ controllers' = controllers
      /\ meta' = IF m = Itself THEN [meta EXCEPT ![c].cors = d.cors]
                 ELSE WithEntry(c, [old EXCEPT !.routed = TRUE, !.cors = d.cors])
  BY DEF Cors
<1>2. c \in ClassesOf(decorations) /\ (m # Itself => m \in STRING) /\ d.cors \in CorsGiven /\ d.cors.kind # "none"
  BY <1>1, DecorationFacts DEF MetaInv
<1>3. /\ OfIn(bs, c, m, "http") = OfIn(applied, c, m, "http")
      /\ OfIn(bs, c, m, "cors") = OfIn(applied, c, m, "cors") \cup {d}
      /\ OfIn(bs, c, m, "authorized") = OfIn(applied, c, m, "authorized")
      /\ OfIn(bs, c, m, "controller") = OfIn(applied, c, m, "controller")
  BY <1>1 DEF OfIn, c, m
<1>4. Tells(bs, meta')
  <2>1. CASE m = Itself
    <3> DEFINE n == [meta[c] EXCEPT !.cors = d.cors]
    <3>1. meta \in [ClassesOf(decorations) -> MetaType] /\ ClassOf(applied, c, meta[c])
      BY <1>2 DEF MetaInv
    <3>2. meta' = [meta EXCEPT ![c] = n]
      BY <1>1, <1>2, <2>1, <3>1
    <3>3. meta[c] \in MetaType
      BY <1>2, <3>1
    <3>4. /\ n \in MetaType /\ n.routeMap = meta[c].routeMap /\ n.authorization = meta[c].authorization
          /\ n.cors = d.cors /\ n.path = meta[c].path
      BY <1>2, <3>3 DEF MetaType
    <3> HIDE DEF n
    <3>5. /\ ToSet(n.authorization) = Said(OfIn(bs, c, m, "authorized"))
          /\ n.cors.kind # "none" <=> OfIn(bs, c, m, "cors") # {}
          /\ \A x \in OfIn(bs, c, m, "controller") : n.path = x.path
      <4> HIDE DEF bs
      <4> QED BY <1>2, <1>3, <2>1, <3>1, <3>4 DEF ClassOf
    <3>6. Tells(applied \cup {d}, [meta EXCEPT ![d.class] = n])
      BY <2>1, <3>4, <3>5, ClassTold
    <3> QED BY <3>2, <3>6
  <2>2. CASE m # Itself
    <3> DEFINE e == [old EXCEPT !.routed = TRUE, !.cors = d.cors]
    <3> HIDE DEF c, m
    <3>1. old \in EntryType /\ old.member = m /\ EntryOf(applied, c, old)
      BY <1>2, <2>2, MethodEntryIs
    <3> HIDE DEF old
    <3>2. /\ e \in EntryType /\ e.member = m /\ e.routed = TRUE /\ e.paths = old.paths
          /\ e.cors = d.cors /\ e.authorization = old.authorization
      BY <1>2, <3>1 DEF EntryType
    <3>3. meta' = WithEntry(c, e)
      BY <1>1, <2>2
    <3> HIDE DEF e, bs
    <3>4. EntryOf(bs, c, e)
      <4>1. ToSet(old.authorization) = Said(OfIn(applied, c, m, "authorized")) /\ GoodPaths(old.paths)
        BY <3>1 DEF EntryOf
      <4>2. \A p, h : Offers(old.paths, p, h) <=> \E x \in OfIn(applied, c, m, "http") : x.path = p /\ x.method = h
        BY <3>1 DEF EntryOf
      <4>3. OfIn(bs, c, m, "cors") # {}
        BY <1>3
      <4> QED BY <1>2, <1>3, <2>2, <3>2, <4>1, <4>2, <4>3 DEF EntryOf
    <3>5. Founded(bs, c, e)
      BY <3>2 DEF Founded
    <3>6. d.member # Itself /\ d.kind # "controller" /\ e.member = d.member
      BY <1>1, <2>2, <3>2 DEF m
    <3>7. EntryOf(applied \cup {d}, d.class, e) /\ Founded(applied \cup {d}, d.class, e)
      BY <3>4, <3>5 DEF bs, c
    <3>8. Tells(applied \cup {d}, WithEntry(d.class, e))
      BY <3>2, <3>6, <3>7, MemberTold
    <3> QED BY <3>3, <3>8 DEF bs, c
  <2> QED BY <2>1, <2>2
<1> QED BY <1>1, <1>4, MetaKept

LEMMA AuthorizedMeta ==
    ASSUME MetaInv, NEW d \in decorations, AuthorizedDecorator(d)
    PROVE  MetaInv'
<1> DEFINE c == d.class
           m == d.member
           old == MethodEntry(c, m)
           bs == applied \cup {d}
<1>1. /\ d.kind = "authorized" /\ Runs(d) /\ controllers' = controllers
      /\ meta' = IF m = Itself THEN [meta EXCEPT ![c].authorization = @ \o d.conditions]
                 ELSE WithEntry(c, [old EXCEPT !.authorization = @ \o d.conditions])
  BY DEF AuthorizedDecorator
<1>2. c \in ClassesOf(decorations) /\ (m # Itself => m \in STRING) /\ d.conditions \in Seq(STRING)
  BY <1>1, DecorationFacts DEF MetaInv
<1>3. /\ OfIn(bs, c, m, "http") = OfIn(applied, c, m, "http")
      /\ OfIn(bs, c, m, "cors") = OfIn(applied, c, m, "cors")
      /\ OfIn(bs, c, m, "authorized") = OfIn(applied, c, m, "authorized") \cup {d}
      /\ OfIn(bs, c, m, "controller") = OfIn(applied, c, m, "controller")
  BY <1>1 DEF OfIn, c, m
<1>4. Said(OfIn(bs, c, m, "authorized")) = Said(OfIn(applied, c, m, "authorized")) \cup ToSet(d.conditions)
  BY <1>3, SaidMore
<1>5. Tells(bs, meta')
  <2>1. CASE m = Itself
    <3> DEFINE more == meta[c].authorization \o d.conditions
               n == [meta[c] EXCEPT !.authorization = more]
    <3>1. meta \in [ClassesOf(decorations) -> MetaType] /\ ClassOf(applied, c, meta[c])
      BY <1>2 DEF MetaInv
    <3>2. meta' = [meta EXCEPT ![c] = n]
      BY <1>1, <1>2, <2>1, <3>1
    <3>3. meta[c] \in MetaType /\ meta[c].authorization \in Seq(STRING)
      BY <1>2, <3>1 DEF MetaType
    <3>4. more \in Seq(STRING) /\ ToSet(more) = ToSet(meta[c].authorization) \cup ToSet(d.conditions)
      BY <1>2, <3>3, Concatenated
    <3> HIDE DEF more
    <3>5. /\ n \in MetaType /\ n.routeMap = meta[c].routeMap /\ n.authorization = more
          /\ n.cors = meta[c].cors /\ n.path = meta[c].path
      BY <3>3, <3>4 DEF MetaType
    <3> HIDE DEF n
    <3>6. /\ ToSet(n.authorization) = Said(OfIn(bs, c, m, "authorized"))
          /\ n.cors.kind # "none" <=> OfIn(bs, c, m, "cors") # {}
          /\ \A x \in OfIn(bs, c, m, "controller") : n.path = x.path
      <4> HIDE DEF bs
      <4> QED BY <1>3, <1>4, <2>1, <3>1, <3>4, <3>5 DEF ClassOf
    <3>7. Tells(applied \cup {d}, [meta EXCEPT ![d.class] = n])
      BY <2>1, <3>5, <3>6, ClassTold
    <3> QED BY <3>2, <3>7
  <2>2. CASE m # Itself
    <3> DEFINE more == old.authorization \o d.conditions
               e == [old EXCEPT !.authorization = more]
    <3> HIDE DEF c, m
    <3>1. old \in EntryType /\ old.member = m /\ EntryOf(applied, c, old)
      BY <1>2, <2>2, MethodEntryIs
    <3> HIDE DEF old
    <3>2. more \in Seq(STRING) /\ ToSet(more) = ToSet(old.authorization) \cup ToSet(d.conditions)
      <4>1. old.authorization \in Seq(STRING)
        BY <3>1 DEF EntryType
      <4> QED BY <1>2, <4>1, Concatenated
    <3>3. meta' = WithEntry(c, e)
      BY <1>1, <2>2
    <3> HIDE DEF more
    <3>4. /\ e \in EntryType /\ e.member = m /\ e.routed = old.routed /\ e.paths = old.paths
          /\ e.cors = old.cors /\ e.authorization = more
      BY <3>1, <3>2 DEF EntryType
    <3> HIDE DEF e, bs
    <3>5. EntryOf(bs, c, e)
      <4>1. /\ ToSet(old.authorization) = Said(OfIn(applied, c, m, "authorized")) /\ GoodPaths(old.paths)
            /\ old.routed <=> OfIn(applied, c, m, "http") # {} \/ OfIn(applied, c, m, "cors") # {}
            /\ old.cors.kind # "none" <=> OfIn(applied, c, m, "cors") # {}
        BY <3>1 DEF EntryOf
      <4>2. \A p, h : Offers(old.paths, p, h) <=> \E x \in OfIn(applied, c, m, "http") : x.path = p /\ x.method = h
        BY <3>1 DEF EntryOf
      <4>3. ToSet(e.authorization) = Said(OfIn(bs, c, m, "authorized"))
        BY <1>4, <3>2, <3>4, <4>1
      <4>4. /\ e.routed <=> OfIn(bs, c, m, "http") # {} \/ OfIn(bs, c, m, "cors") # {}
            /\ e.cors.kind # "none" <=> OfIn(bs, c, m, "cors") # {}
            /\ GoodPaths(e.paths)
        BY <1>3, <3>4, <4>1
      <4>5. \A p, h : Offers(e.paths, p, h) <=> \E x \in OfIn(bs, c, m, "http") : x.path = p /\ x.method = h
        BY <1>3, <3>4, <4>2
      <4> QED BY <2>2, <3>4, <4>3, <4>4, <4>5 DEF EntryOf
    <3>6. Founded(bs, c, e)
      BY <1>3, <3>4 DEF Founded
    <3>7. d.member # Itself /\ d.kind # "controller" /\ e.member = d.member
      BY <1>1, <2>2, <3>4 DEF m
    <3>8. EntryOf(applied \cup {d}, d.class, e) /\ Founded(applied \cup {d}, d.class, e)
      BY <3>5, <3>6 DEF bs, c
    <3>9. Tells(applied \cup {d}, WithEntry(d.class, e))
      BY <3>4, <3>7, <3>8, MemberTold
    <3> QED BY <3>3, <3>9 DEF bs, c
  <2> QED BY <2>1, <2>2
<1> QED BY <1>1, <1>5, MetaKept

LEMMA OneController ==
    ASSUME MetaInv, NEW d \in decorations, NEW x \in decorations,
           d.kind = "controller", x.kind = "controller", d.class = x.class
    PROVE  d = x
BY ApplicationsAssumption DEF MetaInv

LEMMA ControllerMeta ==
    ASSUME MetaInv, NEW d \in decorations, ControllerDecorator(d)
    PROVE  MetaInv'
<1> DEFINE c == d.class
           bs == applied \cup {d}
           n == [meta[c] EXCEPT !.path = d.path]
<1>1. /\ d.kind = "controller" /\ Runs(d) /\ controllers' = Append(controllers, c)
      /\ meta' = [meta EXCEPT ![c].path = d.path]
  BY DEF ControllerDecorator
<1>2. c \in ClassesOf(decorations) /\ c \in STRING /\ d.member = Itself /\ d.path \in Seq(STRING)
  BY <1>1, DecorationFacts DEF MetaInv
<1>3. applied \subseteq decorations /\ decorations' = decorations /\ applied' = bs /\ d \notin applied /\ decorations \in Applications
  BY <1>1 DEF Runs, MetaInv
<1>4. /\ OfIn(bs, c, Itself, "cors") = OfIn(applied, c, Itself, "cors")
      /\ OfIn(bs, c, Itself, "authorized") = OfIn(applied, c, Itself, "authorized")
  BY <1>1 DEF OfIn
<1>5. ASSUME NEW x \in bs, x.kind = "controller", x.class = c PROVE x = d
  <2>1. x \in decorations
    BY <1>3
  <2> QED BY <1>1, <1>5, <2>1, OneController
<1>6. meta \in [ClassesOf(decorations) -> MetaType] /\ ClassOf(applied, c, meta[c])
  BY <1>2 DEF MetaInv
<1>7. meta' = [meta EXCEPT ![c] = n] /\ meta[c] \in MetaType
  BY <1>1, <1>2, <1>6
<1>8. /\ n \in MetaType /\ n.routeMap = meta[c].routeMap /\ n.authorization = meta[c].authorization
      /\ n.cors = meta[c].cors /\ n.path = d.path
  BY <1>2, <1>7 DEF MetaType
<1> HIDE DEF n
<1>9. \A x \in OfIn(bs, c, Itself, "controller") : n.path = x.path
  BY <1>5, <1>8 DEF OfIn
<1>10. /\ ToSet(n.authorization) = Said(OfIn(bs, c, Itself, "authorized"))
       /\ n.cors.kind # "none" <=> OfIn(bs, c, Itself, "cors") # {}
  <2> HIDE DEF bs
  <2> QED BY <1>4, <1>6, <1>8 DEF ClassOf
<1>11. Tells(bs, meta')
  <2>1. Tells(applied \cup {d}, [meta EXCEPT ![d.class] = n])
    BY <1>2, <1>8, <1>9, <1>10, ClassTold
  <2> QED BY <1>7, <2>1
<1>12. /\ controllers \in Seq(STRING) /\ IsInjective(controllers)
       /\ ToSet(controllers) = {x.class : x \in {y \in applied : y.kind = "controller"}}
  BY DEF MetaInv
<1>13. c \notin ToSet(controllers)
  BY <1>3, <1>5, <1>12
<1>14. /\ controllers' \in Seq(STRING) /\ IsInjective(controllers') /\ ToSet(controllers') = ToSet(controllers) \cup {c}
  <2> HIDE DEF c
  <2> QED BY <1>1, <1>2, <1>12, <1>13, Appended
<1>15. ToSet(controllers') = {x.class : x \in {y \in applied' : y.kind = "controller"}}
  BY <1>1, <1>3, <1>12, <1>14
<1>16. /\ meta' \in [ClassesOf(decorations') -> MetaType] /\ \A x \in ClassesOf(decorations') : ClassOf(applied', x, meta'[x])
  <2> HIDE DEF bs
  <2> QED BY <1>3, <1>11 DEF Tells
<1>17. decorations' \in Applications /\ applied' \subseteq decorations'
  BY <1>3
<1> QED BY <1>14, <1>15, <1>16, <1>17 DEF MetaInv

LEMMA MetaInit == ASSUME RoutingInit PROVE MetaInv
<1> DEFINE none == [path |-> <<>>, cors |-> NoCors, authorization |-> <<>>, routeMap |-> <<>>]
<1>1. /\ decorations \in Applications /\ applied = {} /\ controllers = <<>>
      /\ meta = [c \in ClassesOf(decorations) |-> none]
  BY DEF RoutingInit, ClassesOf
<1>2. /\ <<>> \in Seq(STRING) /\ <<>> \in Seq(EntryType) /\ DOMAIN <<>> = {} /\ ToSet(<<>>) = {}
  BY Empty
<1>3. none \in MetaType
  <2>1. NoCors \in CorsGiven
    BY DEF CorsGiven
  <2> QED BY <1>2, <2>1 DEF MetaType
<1>4. ASSUME NEW c PROVE ClassOf({}, c, none)
  <2>1. \A m, kind : OfIn({}, c, m, kind) = {}
    BY DEF OfIn
  <2>2. Said({}) = {}
    BY DEF Said
  <2>3. NoCors.kind = "none"
    BY DEF NoCors
  <2>4. EntriesOf({}, c, <<>>)
    BY <1>2 DEF EntriesOf, MembersOnce
  <2>5. none.authorization = <<>> /\ none.cors = NoCors /\ none.routeMap = <<>>
    OBVIOUS
  <2> HIDE DEF none
  <2> QED BY <1>2, <2>1, <2>2, <2>3, <2>4, <2>5 DEF ClassOf
<1>5. IsInjective(<<>>)
  BY <1>2 DEF IsInjective
<1> HIDE DEF none
<1>6. \A c \in ClassesOf(decorations) : ClassOf(applied, c, meta[c])
  BY <1>1, <1>4
<1>7. ToSet(controllers) = {d.class : d \in {x \in applied : x.kind = "controller"}}
  BY <1>1, <1>2
<1> QED BY <1>1, <1>2, <1>3, <1>5, <1>6, <1>7 DEF MetaInv

-------------------------------------------------------------------------------
(* The routes generated list the HTTP decorators of registered classes.      *)
LEMMA AsSequence ==
    ASSUME NEW R, NEW n \in Nat, NEW s \in [1 .. n -> R]
    PROVE  s \in Seq(R) /\ DOMAIN s = 1 .. n
OBVIOUS

Https == {d \in applied : d.kind = "http" /\ d.class \in ToSet(controllers)}
EntryAt(d) == CHOOSE e \in ToSet(meta[d.class].routeMap) : e.member = d.member
RouteOfEntry(d, e) ==
    [httpMethod |-> d.method, path |-> NormalizePath(meta[d.class].path, d.path), class |-> d.class, member |-> d.member,
     cors |-> GetCorsConfig(meta[d.class].cors, e.cors), authorization |-> MergeAuthorization(meta[d.class], e)]
RouteFor == [d \in Https |-> RouteOfEntry(d, EntryAt(d))]
RouteSet == {RouteFor[d] : d \in Https}

LEMMA ClassFacts ==
    ASSUME MetaInv, NEW c \in ToSet(controllers)
    PROVE  /\ c \in ClassesOf(decorations) /\ meta[c].routeMap \in Seq(EntryType)
           /\ EntriesOf(applied, c, meta[c].routeMap)
<1>1. PICK d \in applied : d.kind = "controller" /\ c = d.class
  BY DEF MetaInv
<1>2. c \in ClassesOf(decorations)
  BY <1>1 DEF MetaInv, ClassesOf
<1>3. meta[c] \in MetaType /\ ClassOf(applied, c, meta[c])
  BY <1>2 DEF MetaInv
<1> QED BY <1>2, <1>3 DEF MetaType, ClassOf

LEMMA EntryAtIs ==
    ASSUME MetaInv, NEW c \in ToSet(controllers), NEW e \in ToSet(meta[c].routeMap),
           NEW d \in applied, d.class = c, d.member = e.member
    PROVE  EntryAt(d) = e
<1> DEFINE s == meta[c].routeMap
<1>1. MembersOnce(s)
  BY ClassFacts DEF EntriesOf
<1>2. \A x \in ToSet(s) : x.member = e.member => x = e
  BY <1>1 DEF MembersOnce, ToSet
<1> QED BY <1>2, Zenon DEF EntryAt

LEMMA PathRoutes ==
    ASSUME MetaInv, NEW c \in ToSet(controllers), NEW e \in ToSet(meta[c].routeMap), NEW p \in DOMAIN e.paths,
           NEW s, s = [h \in DOMAIN e.paths[p].methods |->
             [httpMethod |-> e.paths[p].methods[h], path |-> NormalizePath(meta[c].path, e.paths[p].path),
              class |-> c, member |-> e.member, cors |-> GetCorsConfig(meta[c].cors, e.cors),
              authorization |-> MergeAuthorization(meta[c], e)]]
    PROVE  /\ s \in Seq(RouteSet)
           /\ Lists(s, {d \in OfIn(applied, c, e.member, "http") : d.path = e.paths[p].path}, RouteFor)
<1> DEFINE D == {d \in OfIn(applied, c, e.member, "http") : d.path = e.paths[p].path}
           ms == e.paths[p].methods
           n == Len(ms)
<1>1. EntryOf(applied, c, e)
  BY ClassFacts DEF EntriesOf
<1>2. GoodPaths(e.paths)
  BY <1>1 DEF EntryOf
<1>3. \A q, h : Offers(e.paths, q, h) <=> \E d \in OfIn(applied, c, e.member, "http") : d.path = q /\ d.method = h
  BY <1>1 DEF EntryOf
<1>4. /\ e.paths \in Seq(PathEntries) /\ IsInjective(ms)
      /\ \A q \in DOMAIN e.paths : e.paths[q].path = e.paths[p].path => q = p
  BY <1>2 DEF GoodPaths
<1>5. ms \in Seq(STRING)
  <2>1. e.paths[p] \in PathEntries
    BY <1>4, ElementOfSeq
  <2> QED BY <2>1 DEF PathEntries
<1>6. n \in Nat /\ DOMAIN ms = 1 .. n
  BY <1>5, LenProperties
<1> DEFINE b == [h \in 1 .. n |-> CHOOSE d \in D : d.method = ms[h]]
<1>7. ASSUME NEW h \in 1 .. n PROVE b[h] \in D /\ b[h].method = ms[h]
  <2>1. ms[h] \in ToSet(ms)
    BY <1>6 DEF ToSet
  <2>2. Offers(e.paths, e.paths[p].path, ms[h])
    BY <2>1 DEF Offers
  <2>3. \E d \in D : d.method = ms[h]
    BY <1>3, <2>2
  <2> HIDE DEF D, ms, n
  <2> QED BY <2>3
<1>8. \A d \in D : \E h \in 1 .. n : b[h] = d
  <2> SUFFICES ASSUME NEW d \in D PROVE \E h \in 1 .. n : b[h] = d
    OBVIOUS
  <2>1. d \in OfIn(applied, c, e.member, "http") /\ d.path = e.paths[p].path
    OBVIOUS
  <2>2. Offers(e.paths, e.paths[p].path, d.method)
    BY <1>3, <2>1
  <2>3. d.method \in ToSet(ms)
    BY <1>4, <2>2 DEF Offers
  <2>4. PICK h \in 1 .. n : ms[h] = d.method
    BY <1>6, <2>3 DEF ToSet
  <2>5. b[h] \in D /\ b[h].method = d.method
    BY <1>7, <2>4
  <2>6. b[h] = d
    <3>1. \A x \in D : x \in decorations /\ x.class = c /\ x.member = e.member /\ x.kind = "http" /\ x.path = e.paths[p].path
      BY DEF OfIn, MetaInv
    <3> HIDE DEF b, D
    <3>2. decorations \in Applications
      BY DEF MetaInv
    <3> QED BY <2>5, <3>1, <3>2, SameHttp
  <2> QED BY <2>6
<1>9. \A d \in D : d \in Https /\ EntryAt(d) = e /\ d.class = c /\ d.member = e.member /\ d.path = e.paths[p].path
  <2> SUFFICES ASSUME NEW d \in D
               PROVE  d \in Https /\ EntryAt(d) = e /\ d.class = c /\ d.member = e.member /\ d.path = e.paths[p].path
    OBVIOUS
  <2>1. d \in applied /\ d.class = c /\ d.member = e.member /\ d.kind = "http" /\ d.path = e.paths[p].path
    BY DEF OfIn
  <2>2. EntryAt(d) = e
    BY <2>1, EntryAtIs
  <2> QED BY <2>1, <2>2 DEF Https
<1> HIDE DEF b, D, n
<1>10. \A h \in 1 .. n : s[h] = RouteFor[b[h]]
  <2> SUFFICES ASSUME NEW h \in 1 .. n PROVE s[h] = RouteFor[b[h]]
    OBVIOUS
  <2>1. s[h] = [httpMethod |-> ms[h], path |-> NormalizePath(meta[c].path, e.paths[p].path),
                class |-> c, member |-> e.member, cors |-> GetCorsConfig(meta[c].cors, e.cors),
                authorization |-> MergeAuthorization(meta[c], e)]
    BY <1>6
  <2>2. /\ b[h] \in Https /\ EntryAt(b[h]) = e /\ b[h].class = c /\ b[h].member = e.member
        /\ b[h].path = e.paths[p].path /\ b[h].method = ms[h]
    BY <1>7, <1>9
  <2>3. RouteFor[b[h]] = RouteOfEntry(b[h], EntryAt(b[h]))
    BY <2>2 DEF RouteFor
  <2> HIDE DEF ms
  <2> QED BY <2>1, <2>2, <2>3 DEF RouteOfEntry
<1>11. DOMAIN s = 1 .. n
  BY <1>6
<1>12. s \in Seq(RouteSet)
  <2>1. \A h \in 1 .. n : s[h] \in RouteSet
    BY <1>7, <1>9, <1>10 DEF RouteSet
  <2>2. s = [h \in 1 .. n |-> s[h]]
    BY <1>6
  <2>3. s \in [1 .. n -> RouteSet]
    BY <2>1, <2>2
  <2> QED BY <1>6, <2>3, AsSequence
<1>13. ListedBy(b, s, D, RouteFor)
  <2>1. b \in [1 .. n -> D]
    BY <1>7 DEF b
  <2>2. \A x, y \in 1 .. n : b[x] = b[y] => x = y
    BY <1>4, <1>6, <1>7 DEF IsInjective
  <2> QED BY <1>8, <1>10, <1>11, <2>1, <2>2 DEF ListedBy
<1> QED BY <1>12, <1>13 DEF Lists, D

LEMMA EntryRoutes ==
    ASSUME MetaInv, NEW c \in ToSet(controllers), NEW e \in ToSet(meta[c].routeMap)
    PROVE  RoutesOf(c, e) \in Seq(RouteSet) /\ Lists(RoutesOf(c, e), OfIn(applied, c, e.member, "http"), RouteFor)
<1> DEFINE n == Len(e.paths)
           s == [p \in DOMAIN e.paths |-> [h \in DOMAIN e.paths[p].methods |->
             [httpMethod |-> e.paths[p].methods[h], path |-> NormalizePath(meta[c].path, e.paths[p].path),
              class |-> c, member |-> e.member, cors |-> GetCorsConfig(meta[c].cors, e.cors),
              authorization |-> MergeAuthorization(meta[c], e)]]]
           H == OfIn(applied, c, e.member, "http")
           D == [p \in 1 .. n |-> {d \in H : d.path = e.paths[p].path}]
<1>1. EntryOf(applied, c, e)
  BY ClassFacts DEF EntriesOf
<1>2. GoodPaths(e.paths)
  BY <1>1 DEF EntryOf
<1>3. \A q, h : Offers(e.paths, q, h) <=> \E d \in H : d.path = q /\ d.method = h
  BY <1>1 DEF EntryOf
<1>4. /\ e.paths \in Seq(PathEntries)
      /\ \A p, q \in DOMAIN e.paths : e.paths[p].path = e.paths[q].path => p = q
  BY <1>2 DEF GoodPaths
<1>5. n \in Nat /\ DOMAIN e.paths = 1 .. n
  BY <1>4, LenProperties
<1>6. RoutesOf(c, e) = FlattenSeq(s)
  BY DEF RoutesOf
<1>7. ASSUME NEW p \in 1 .. n PROVE s[p] \in Seq(RouteSet) /\ Lists(s[p], D[p], RouteFor)
  <2>1. p \in DOMAIN e.paths
    BY <1>5
  <2>2. s[p] = [h \in DOMAIN e.paths[p].methods |->
             [httpMethod |-> e.paths[p].methods[h], path |-> NormalizePath(meta[c].path, e.paths[p].path),
              class |-> c, member |-> e.member, cors |-> GetCorsConfig(meta[c].cors, e.cors),
              authorization |-> MergeAuthorization(meta[c], e)]]
    BY <2>1
  <2>3. D[p] = {d \in H : d.path = e.paths[p].path}
    OBVIOUS
  <2> HIDE DEF s, D
  <2> QED BY <2>1, <2>2, <2>3, PathRoutes
<1>8. s \in Seq(Seq(RouteSet)) /\ DOMAIN s = 1 .. n
  <2>1. DOMAIN s = 1 .. n /\ s = [p \in DOMAIN s |-> s[p]]
    BY <1>5
  <2> HIDE DEF s
  <2>2. s \in [1 .. n -> Seq(RouteSet)]
    BY <1>7, <2>1
  <2> QED BY <1>5, <2>1, <2>2, AsSequence
<1>9. \A p, q \in 1 .. n : p # q => D[p] \cap D[q] = {}
  BY <1>4, <1>5
<1>10. UNION {D[p] : p \in 1 .. n} = H
  <2>1. \A p \in 1 .. n : D[p] \subseteq H
    OBVIOUS
  <2>2. ASSUME NEW d \in H PROVE \E p \in 1 .. n : d \in D[p]
    <3>1. Offers(e.paths, d.path, d.method)
      BY <1>3
    <3>2. PICK p \in 1 .. n : e.paths[p].path = d.path
      BY <1>5, <3>1 DEF Offers
    <3> QED BY <3>2
  <2> HIDE DEF D, H
  <2> QED BY <2>1, <2>2
<1> HIDE DEF s, D, H, n
<1>11. /\ FlattenSeq(s) \in Seq(RouteSet)
       /\ Lists(FlattenSeq(s), UNION {D[p] : p \in DOMAIN s}, RouteFor)
  <2>1. \A p \in DOMAIN s : s[p] \in Seq(RouteSet) /\ Lists(s[p], D[p], RouteFor)
    BY <1>7, <1>8
  <2>2. \A p, q \in DOMAIN s : p # q => D[p] \cap D[q] = {}
    BY <1>8, <1>9
  <2> QED BY <1>8, <2>1, <2>2, ListsFlattened
<1> QED BY <1>6, <1>8, <1>10, <1>11 DEF H

ClassRoutes(c) == FlattenSeq([j \in DOMAIN meta[c].routeMap |-> RoutesOf(c, meta[c].routeMap[j])])

LEMMA RoutesOfClass ==
    ASSUME MetaInv, NEW c \in ToSet(controllers)
    PROVE  ClassRoutes(c) \in Seq(RouteSet) /\ Lists(ClassRoutes(c), {d \in applied : d.kind = "http" /\ d.class = c}, RouteFor)
<1> DEFINE m == meta[c].routeMap
           n == Len(m)
           s == [j \in DOMAIN m |-> RoutesOf(c, m[j])]
           D == [j \in 1 .. n |-> OfIn(applied, c, m[j].member, "http")]
           H == {d \in applied : d.kind = "http" /\ d.class = c}
<1>1. m \in Seq(EntryType) /\ EntriesOf(applied, c, m)
  BY ClassFacts
<1>2. n \in Nat /\ DOMAIN m = 1 .. n
  BY <1>1, LenProperties
<1>3. /\ \A i, j \in 1 .. n : m[i].member = m[j].member => i = j
      /\ \A d \in applied : d.class = c /\ d.member # Itself => \E e \in ToSet(m) : e.member = d.member
  BY <1>1, <1>2 DEF EntriesOf, MembersOnce
<1>4. ASSUME NEW j \in 1 .. n PROVE s[j] \in Seq(RouteSet) /\ Lists(s[j], D[j], RouteFor)
  <2>1. m[j] \in ToSet(m)
    BY <1>2 DEF ToSet
  <2>2. s[j] = RoutesOf(c, m[j]) /\ D[j] = OfIn(applied, c, m[j].member, "http")
    BY <1>2
  <2> HIDE DEF s, D
  <2> QED BY <2>1, <2>2, EntryRoutes
<1>5. s \in Seq(Seq(RouteSet)) /\ DOMAIN s = 1 .. n
  <2>1. DOMAIN s = 1 .. n /\ s = [p \in DOMAIN s |-> s[p]]
    BY <1>2
  <2> HIDE DEF s
  <2>2. s \in [1 .. n -> Seq(RouteSet)]
    BY <1>4, <2>1
  <2> QED BY <1>2, <2>1, <2>2, AsSequence
<1>6. \A i, j \in 1 .. n : i # j => D[i] \cap D[j] = {}
  BY <1>3 DEF OfIn
<1>7. UNION {D[j] : j \in 1 .. n} = H
  <2>1. \A j \in 1 .. n : D[j] \subseteq H
    BY DEF OfIn
  <2>2. ASSUME NEW d \in H PROVE \E j \in 1 .. n : d \in D[j]
    <3>1. d \in applied /\ d.kind = "http" /\ d.class = c
      OBVIOUS
    <3>2. d.member # Itself
      BY <3>1, DecorationFacts DEF MetaInv
    <3>3. PICK e \in ToSet(m) : e.member = d.member
      BY <1>3, <3>1, <3>2
    <3>4. PICK j \in 1 .. n : m[j] = e
      BY <1>2 DEF ToSet
    <3>5. d \in OfIn(applied, c, m[j].member, "http")
      BY <3>1, <3>3, <3>4 DEF OfIn
    <3> QED BY <3>5
  <2> HIDE DEF D, H
  <2> QED BY <2>1, <2>2
<1>8. ClassRoutes(c) = FlattenSeq(s)
  BY DEF ClassRoutes
<1> HIDE DEF s, D, H, m, n
<1>9. /\ FlattenSeq(s) \in Seq(RouteSet)
      /\ Lists(FlattenSeq(s), UNION {D[p] : p \in DOMAIN s}, RouteFor)
  <2>1. \A p \in DOMAIN s : s[p] \in Seq(RouteSet) /\ Lists(s[p], D[p], RouteFor)
    BY <1>4, <1>5
  <2>2. \A p, q \in DOMAIN s : p # q => D[p] \cap D[q] = {}
    BY <1>5, <1>6
  <2> QED BY <1>5, <2>1, <2>2, ListsFlattened
<1> QED BY <1>5, <1>7, <1>8, <1>9 DEF H

LEMMA CandidatesAre ==
    ASSUME MetaInv
    PROVE  Candidates \in Seq(RouteSet) /\ Lists(Candidates, Https, RouteFor)
<1> DEFINE n == Len(controllers)
           s == [i \in DOMAIN controllers |-> ClassRoutes(controllers[i])]
           D == [i \in 1 .. n |-> {d \in applied : d.kind = "http" /\ d.class = controllers[i]}]
<1>1. controllers \in Seq(STRING) /\ IsInjective(controllers)
  BY DEF MetaInv
<1>2. n \in Nat /\ DOMAIN controllers = 1 .. n
  BY <1>1, LenProperties
<1>3. ASSUME NEW i \in 1 .. n PROVE s[i] \in Seq(RouteSet) /\ Lists(s[i], D[i], RouteFor)
  <2>1. controllers[i] \in ToSet(controllers)
    BY <1>2 DEF ToSet
  <2>2. s[i] = ClassRoutes(controllers[i]) /\ D[i] = {d \in applied : d.kind = "http" /\ d.class = controllers[i]}
    BY <1>2
  <2> HIDE DEF s, D
  <2> QED BY <2>1, <2>2, RoutesOfClass
<1>4. s \in Seq(Seq(RouteSet)) /\ DOMAIN s = 1 .. n
  <2>1. DOMAIN s = 1 .. n /\ s = [p \in DOMAIN s |-> s[p]]
    BY <1>2
  <2> HIDE DEF s
  <2>2. s \in [1 .. n -> Seq(RouteSet)]
    BY <1>3, <2>1
  <2> QED BY <1>2, <2>1, <2>2, AsSequence
<1>5. \A i, j \in 1 .. n : i # j => D[i] \cap D[j] = {}
  BY <1>1, <1>2 DEF IsInjective
<1>6. UNION {D[i] : i \in 1 .. n} = Https
  <2>1. ToSet(controllers) = {controllers[i] : i \in 1 .. n}
    BY <1>2 DEF ToSet
  <2> QED BY <2>1 DEF Https
<1>7. Candidates = FlattenSeq(s)
  BY DEF Candidates, ClassRoutes
<1> HIDE DEF s, D, n
<1>8. /\ FlattenSeq(s) \in Seq(RouteSet)
      /\ Lists(FlattenSeq(s), UNION {D[p] : p \in DOMAIN s}, RouteFor)
  <2>1. \A p \in DOMAIN s : s[p] \in Seq(RouteSet) /\ Lists(s[p], D[p], RouteFor)
    BY <1>3, <1>4
  <2>2. \A p, q \in DOMAIN s : p # q => D[p] \cap D[q] = {}
    BY <1>4, <1>5
  <2> QED BY <1>4, <2>1, <2>2, ListsFlattened
<1> QED BY <1>4, <1>6, <1>7, <1>8

-------------------------------------------------------------------------------
(* The routes generated, and the bindings made of them so far.               *)
OwnRoutes(s) == {i \in DOMAIN s : s[i].class # "CorsHandler"}
BindingSet == RouteSet \cup {OptionsRoute(r) : r \in RouteSet}

BoundOf ==
    /\ bindings \in Seq(BindingSet) /\ IsFiniteSet(OwnRoutes(bindings)) /\ Cardinality(OwnRoutes(bindings)) \in Nat
    /\ \A b \in ToSet(bindings) :
         \/ b \in ToSet(routes)
         \/ \E r \in ToSet(routes) : r.cors.kind # "none" /\ b = OptionsRoute(r)
    /\ \A b \in ToSet(bindings) : b.cors.kind # "none" => b.path \in corsRoutes
    /\ \A path \in corsRoutes : \E r \in ToSet(routes) :
         /\ r.path = path /\ r.cors.kind # "none"
         /\ OptionsRoute(r) \in ToSet(bindings) \/ r.httpMethod = "OPTIONS"
    /\ \A i \in 1 .. Cardinality(OwnRoutes(bindings)) : i \in 1 .. Len(routes) /\ routes[i] \in ToSet(bindings)
    /\ Cardinality(OwnRoutes(bindings)) <= Len(routes)
    /\ phase = "mapped" => Cardinality(OwnRoutes(bindings)) = Len(routes)
    /\ phase = "generated" /\ routes # <<>> => Cardinality(OwnRoutes(bindings)) # Len(routes)
GeneratedInv ==
    applied = decorations /\ routes \in Seq(RouteSet) /\ Lists(routes, Https, RouteFor) /\ ~Conflicting(routes)
RoutesInv ==
    /\ MetaInv /\ phase \in {"decorating", "generated", "mapped", "error"}
    /\ phase = "decorating" => bindings = <<>> /\ corsRoutes = {}
    /\ phase \in {"generated", "mapped"} => GeneratedInv /\ BoundOf
    /\ phase = "error" => applied = decorations /\ (Unrouted \/ Conflicting(Candidates))

LEMMA OneBound ==
    ASSUME NEW T, NEW s \in Seq(T), NEW v \in T, IsFiniteSet(OwnRoutes(s)), Cardinality(OwnRoutes(s)) \in Nat
    PROVE  /\ s \o <<v>> \in Seq(T) /\ ToSet(s \o <<v>>) = ToSet(s) \cup {v} /\ IsFiniteSet(OwnRoutes(s \o <<v>>))
           /\ Cardinality(OwnRoutes(s \o <<v>>)) = IF v.class # "CorsHandler" THEN Cardinality(OwnRoutes(s)) + 1 ELSE Cardinality(OwnRoutes(s))
<1> DEFINE t == s \o <<v>>
           n == Len(s)
<1>1. <<v>> \in Seq(T) /\ ToSet(<<v>>) = {v} /\ Len(<<v>>) = 1 /\ <<v>>[1] = v
  <2>1. <<v>> \in Seq(T) /\ ToSet(<<v>>) = {v} /\ <<v>>[1] = v
    BY Single
  <2>2. Len(<<v>>) = 1
    OBVIOUS
  <2> QED BY <2>1, <2>2
<1>2. t \in Seq(T) /\ ToSet(t) = ToSet(s) \cup {v}
  <2>1. ASSUME NEW w \in Seq(T) PROVE s \o w \in Seq(T) /\ ToSet(s \o w) = ToSet(s) \cup ToSet(w)
    BY Concatenated
  <2> QED BY <1>1, <2>1
<1>3. n \in Nat /\ DOMAIN s = 1 .. n
  BY LenProperties
<1>4. Len(t) = n + 1 /\ \A i \in 1 .. n + 1 : t[i] = IF i <= n THEN s[i] ELSE <<v>>[i - n]
  <2>1. /\ Len(t) = Len(s) + Len(<<v>>)
        /\ \A i \in 1 .. Len(s) + Len(<<v>>) : t[i] = IF i <= Len(s) THEN s[i] ELSE <<v>>[i - Len(s)]
    BY <1>1, ConcatProperties
  <2> HIDE DEF t
  <2> QED BY <1>1, <2>1
<1>5. DOMAIN t = 1 .. n + 1
  BY <1>2, <1>4, LenProperties
<1> HIDE DEF t, n
<1>6. \A i \in 1 .. n : t[i] = s[i]
  BY <1>3, <1>4
<1>7. t[n + 1] = v
  <2>1. n + 1 \in 1 .. n + 1 /\ ~(n + 1 <= n) /\ (n + 1) - n = 1
    BY <1>3
  <2> QED BY <1>1, <1>4, <2>1
<1>8. n + 1 \notin OwnRoutes(s) /\ \A i \in 1 .. n + 1 : i # n + 1 => i \in 1 .. n
  BY <1>3 DEF OwnRoutes
<1>9. OwnRoutes(t) = IF v.class # "CorsHandler" THEN OwnRoutes(s) \cup {n + 1} ELSE OwnRoutes(s)
  <2>1. 1 .. n + 1 = (1 .. n) \cup {n + 1}
    BY <1>3
  <2> QED BY <1>3, <1>5, <1>6, <1>7, <2>1 DEF OwnRoutes
<1>10. /\ IsFiniteSet(OwnRoutes(s) \cup {n + 1})
       /\ Cardinality(OwnRoutes(s) \cup {n + 1}) = Cardinality(OwnRoutes(s)) + 1
  BY <1>8, FS_AddElement
<1> QED BY <1>2, <1>9, <1>10 DEF t

(* The routes of a listing: every decorator has one, every route is of one.  *)
LEMMA Listing ==
    ASSUME MetaInv, routes \in Seq(RouteSet), Lists(routes, Https, RouteFor)
    PROVE  /\ \A d \in Https : \E i \in DOMAIN routes : routes[i] = RouteFor[d]
           /\ \A r \in ToSet(routes) : \E d \in Https : r = RouteFor[d]
           /\ Len(routes) = Cardinality(Https)
           /\ \A i, j \in DOMAIN routes : i # j => \E d, e \in Https : d # e /\ routes[i] = RouteFor[d] /\ routes[j] = RouteFor[e]
<1>1. PICK b : ListedBy(b, routes, Https, RouteFor)
  BY DEF Lists
<1> DEFINE n == Len(routes)
<1>2. n \in Nat /\ DOMAIN routes = 1 .. n
  BY LenProperties
<1>3. /\ b \in [1 .. n -> Https] /\ \A d \in Https : \E i \in 1 .. n : b[i] = d
      /\ \A i, j \in 1 .. n : b[i] = b[j] => i = j
      /\ \A i \in 1 .. n : routes[i] = RouteFor[b[i]]
  BY <1>1, <1>2 DEF ListedBy
<1> HIDE DEF n
<1>4. Cardinality(Https) = n
  <2>1. b \in Bijection(1 .. n, Https)
    BY <1>3 DEF Bijection, Injection, Surjection, IsInjective
  <2>2. ExistsBijection(1 .. n, Https)
    BY <2>1 DEF ExistsBijection
  <2>3. IsFiniteSet(1 .. n) /\ Cardinality(1 .. n) = n
    BY <1>2, FS_Interval
  <2> QED BY <2>2, <2>3, FS_Bijection
<1>5. \A r \in ToSet(routes) : \E d \in Https : r = RouteFor[d]
  BY <1>2, <1>3 DEF ToSet
<1>6. \A d \in Https : \E i \in 1 .. n : routes[i] = RouteFor[d]
  BY <1>3
<1>7. \A i, j \in 1 .. n : i # j => \E d, e \in Https : d # e /\ routes[i] = RouteFor[d] /\ routes[j] = RouteFor[e]
  BY <1>3
<1>8. \A d \in Https : \E i \in DOMAIN routes : routes[i] = RouteFor[d]
  BY <1>2, <1>6
<1>9. \A i, j \in DOMAIN routes : i # j => \E d, e \in Https : d # e /\ routes[i] = RouteFor[d] /\ routes[j] = RouteFor[e]
  BY <1>2, <1>7
<1>10. Len(routes) = Cardinality(Https)
  BY <1>4 DEF n
<1> QED BY <1>5, <1>8, <1>9, <1>10

LEMMA MetaUnchanged ==
    ASSUME MetaInv, UNCHANGED <<decorations, applied, controllers, meta>>
    PROVE  /\ MetaInv' /\ Https' = Https /\ RouteFor' = RouteFor /\ RouteSet' = RouteSet /\ BindingSet' = BindingSet
           /\ Candidates' = Candidates /\ (Unrouted' <=> Unrouted)
<1>1. MetaInv'
  BY DEF MetaInv
<1>2. Https' = Https
  BY DEF Https
<1>3. RouteFor' = RouteFor
  BY <1>2 DEF RouteFor, RouteOfEntry, EntryAt
<1>4. RouteSet' = RouteSet
  BY <1>2, <1>3 DEF RouteSet
<1>5. BindingSet' = BindingSet
  BY <1>4 DEF BindingSet
<1>6. Candidates' = Candidates
  BY DEF Candidates, RoutesOf
<1>7. Unrouted' <=> Unrouted
  BY DEF Unrouted
<1> QED BY <1>1, <1>2, <1>3, <1>4, <1>5, <1>6, <1>7

LEMMA RoutesInit == ASSUME RoutingInit PROVE RoutesInv
<1>1. phase = "decorating" /\ bindings = <<>> /\ corsRoutes = {}
  BY DEF RoutingInit
<1> QED BY <1>1, MetaInit DEF RoutesInv

LEMMA DecoratorRoutes ==
    ASSUME RoutesInv, NEW d \in decorations,
           HttpMethodDecorator(d) \/ Cors(d) \/ AuthorizedDecorator(d) \/ ControllerDecorator(d)
    PROVE  RoutesInv'
<1>1. MetaInv'
  BY HttpMeta, CorsMeta, AuthorizedMeta, ControllerMeta DEF RoutesInv
<1>2. Runs(d)
  BY DEF HttpMethodDecorator, Cors, AuthorizedDecorator, ControllerDecorator
<1>3. phase = "decorating" /\ phase' = phase /\ bindings' = bindings /\ corsRoutes' = corsRoutes
  BY <1>2 DEF Runs
<1> QED BY <1>1, <1>3 DEF RoutesInv

LEMMA GenerateRoutesRoutes ==
    ASSUME RoutesInv, GenerateRoutes
    PROVE  RoutesInv'
<1>1. /\ phase = "decorating" /\ applied = decorations /\ bindings = <<>> /\ corsRoutes = {} /\ MetaInv
      /\ UNCHANGED <<decorations, applied, controllers, meta, bindings, corsRoutes>>
      /\ IF Unrouted \/ Conflicting(Candidates) THEN phase' = "error" /\ routes' = <<>>
         ELSE phase' = "generated" /\ routes' = Candidates
  BY DEF GenerateRoutes, RoutesInv
<1>2. /\ MetaInv' /\ Https' = Https /\ RouteFor' = RouteFor /\ RouteSet' = RouteSet /\ BindingSet' = BindingSet
      /\ Candidates' = Candidates /\ (Unrouted' <=> Unrouted)
  BY <1>1, MetaUnchanged
<1>3. CASE Unrouted \/ Conflicting(Candidates)
  <2>1. phase' = "error" /\ applied' = decorations'
    BY <1>1, <1>3
  <2>2. Unrouted' \/ Conflicting(Candidates')
    BY <1>2, <1>3
  <2> QED BY <1>2, <2>1, <2>2 DEF RoutesInv
<1>4. CASE ~(Unrouted \/ Conflicting(Candidates))
  <2>1. phase' = "generated" /\ routes' = Candidates /\ applied' = decorations'
    BY <1>1, <1>4
  <2>2. Candidates \in Seq(RouteSet) /\ Lists(Candidates, Https, RouteFor)
    BY <1>1, CandidatesAre
  <2>3. GeneratedInv'
    BY <1>2, <1>4, <2>1, <2>2 DEF GeneratedInv
  <2>4. BoundOf'
    <3>1. bindings' = <<>> /\ corsRoutes' = {}
      BY <1>1
    <3>2. <<>> \in Seq(BindingSet') /\ DOMAIN <<>> = {} /\ ToSet(<<>>) = {}
      BY Empty
    <3>3. OwnRoutes(<<>>) = {}
      BY <3>2 DEF OwnRoutes
    <3>4. IsFiniteSet(OwnRoutes(<<>>)) /\ Cardinality(OwnRoutes(<<>>)) = 0
      BY <3>3, FS_EmptySet
    <3>5. Len(routes') \in Nat /\ (routes' # <<>> => Len(routes') # 0)
      BY <2>1, <2>2, EmptySeq, LenProperties
    <3>6. 1 .. 0 = {}
      OBVIOUS
    <3>7. IsFiniteSet(OwnRoutes(bindings')) /\ Cardinality(OwnRoutes(bindings')) = 0
      BY <3>1, <3>4
    <3> QED BY <2>1, <3>1, <3>2, <3>5, <3>6, <3>7 DEF BoundOf
  <2> QED BY <1>2, <2>1, <2>3, <2>4 DEF RoutesInv
<1> QED BY <1>3, <1>4

LEMMA RouteFacts ==
    ASSUME MetaInv, NEW r \in RouteSet
    PROVE  /\ r.class # "CorsHandler" /\ DOMAIN r = {"httpMethod", "path", "class", "member", "cors", "authorization"}
           /\ OptionsRoute(r).class = "CorsHandler" /\ OptionsRoute(r).httpMethod = "OPTIONS"
           /\ OptionsRoute(r).path = r.path /\ OptionsRoute(r).cors = r.cors /\ OptionsRoute(r) \in BindingSet
<1>1. PICK d \in Https : r = RouteFor[d]
  BY DEF RouteSet
<1>2. r = RouteOfEntry(d, EntryAt(d))
  BY <1>1 DEF RouteFor
<1>3. r.class = d.class /\ DOMAIN r = {"httpMethod", "path", "class", "member", "cors", "authorization"}
  BY <1>2 DEF RouteOfEntry
<1>4. d.class # "CorsHandler"
  BY DecorationFacts DEF MetaInv, Https
<1>5. OptionsRoute(r) \in BindingSet
  BY DEF BindingSet
<1>6. /\ OptionsRoute(r).class = "CorsHandler" /\ OptionsRoute(r).httpMethod = "OPTIONS"
      /\ OptionsRoute(r).path = r.path /\ OptionsRoute(r).cors = r.cors
  BY <1>3 DEF OptionsRoute
<1> QED BY <1>3, <1>4, <1>5, <1>6

LEMMA MapRouteRoutes ==
    ASSUME RoutesInv, MapRoute
    PROVE  RoutesInv'
<1> DEFINE k == Cardinality(OwnRoutes(bindings))
           route == routes[k + 1]
           first == route.cors.kind # "none" /\ route.path \notin corsRoutes
           more == first /\ ~(route.cors.kind = "config" /\ route.httpMethod = "OPTIONS")
           mid == bindings \o (IF more THEN <<OptionsRoute(route)>> ELSE <<>>)
<1>1. /\ phase = "generated" /\ routes # <<>> /\ UNCHANGED <<decorations, applied, controllers, meta, routes>>
      /\ corsRoutes' = IF first THEN corsRoutes \cup {route.path} ELSE corsRoutes
      /\ bindings' = mid \o <<route>>
      /\ phase' = IF k + 1 = Len(routes) THEN "mapped" ELSE "generated"
  BY DEF MapRoute, OwnRoutes
<1>2. MetaInv /\ GeneratedInv /\ BoundOf
  BY <1>1 DEF RoutesInv
<1>3. /\ MetaInv' /\ Https' = Https /\ RouteFor' = RouteFor /\ RouteSet' = RouteSet /\ BindingSet' = BindingSet
  BY <1>1, <1>2, MetaUnchanged
<1>4. GeneratedInv'
  BY <1>1, <1>2, <1>3 DEF GeneratedInv
<1>5. routes \in Seq(RouteSet)
  BY <1>2 DEF GeneratedInv
<1>6. /\ bindings \in Seq(BindingSet) /\ IsFiniteSet(OwnRoutes(bindings)) /\ k \in Nat /\ k <= Len(routes) /\ k # Len(routes)
      /\ \A i \in 1 .. k : i \in 1 .. Len(routes) /\ routes[i] \in ToSet(bindings)
  BY <1>1, <1>2 DEF BoundOf
<1>7. Len(routes) \in Nat /\ DOMAIN routes = 1 .. Len(routes)
  BY <1>5, LenProperties
<1>8. k + 1 \in 1 .. Len(routes)
  <2>1. k \in Nat /\ k <= Len(routes) /\ k # Len(routes) /\ Len(routes) \in Nat
    BY <1>6, <1>7
  <2> HIDE DEF k
  <2> QED BY <2>1
<1>9. route \in RouteSet /\ route \in ToSet(routes)
  <2> HIDE DEF k
  <2> QED BY <1>5, <1>7, <1>8, ElementOfSeq DEF ToSet
<1> HIDE DEF route
<1>10. /\ route.class # "CorsHandler" /\ OptionsRoute(route).class = "CorsHandler"
       /\ OptionsRoute(route).path = route.path /\ OptionsRoute(route).cors = route.cors
       /\ route \in BindingSet /\ OptionsRoute(route) \in BindingSet
  BY <1>2, <1>9, RouteFacts DEF BindingSet
<1> HIDE DEF k
<1>11. /\ mid \in Seq(BindingSet) /\ IsFiniteSet(OwnRoutes(mid)) /\ Cardinality(OwnRoutes(mid)) = k
       /\ ToSet(mid) = ToSet(bindings) \cup (IF more THEN {OptionsRoute(route)} ELSE {})
  <2> HIDE DEF more
  <2>1. CASE more
    <3> DEFINE o == OptionsRoute(route)
    <3>1. mid = bindings \o <<o>>
      BY <2>1
    <3>2. o \in BindingSet /\ o.class = "CorsHandler"
      BY <1>10
    <3> HIDE DEF o, mid
    <3>3. /\ mid \in Seq(BindingSet) /\ IsFiniteSet(OwnRoutes(mid)) /\ Cardinality(OwnRoutes(mid)) = k
          /\ ToSet(mid) = ToSet(bindings) \cup {o}
      BY <1>6, <3>1, <3>2, OneBound DEF k
    <3> QED BY <2>1, <3>3 DEF o
  <2>2. CASE ~more
    <3>1. mid = bindings
      BY <1>6, <2>2, ConcatEmptySeq
    <3> HIDE DEF mid
    <3> QED BY <1>6, <2>2, <3>1 DEF k
  <2> QED BY <2>1, <2>2
<1> HIDE DEF mid
<1>12. /\ bindings' \in Seq(BindingSet) /\ ToSet(bindings') = ToSet(mid) \cup {route}
       /\ IsFiniteSet(OwnRoutes(bindings')) /\ Cardinality(OwnRoutes(bindings')) = k + 1
  <2>1. Cardinality(OwnRoutes(mid)) \in Nat
    BY <1>6, <1>11
  <2>2. /\ mid \o <<route>> \in Seq(BindingSet) /\ ToSet(mid \o <<route>>) = ToSet(mid) \cup {route}
        /\ IsFiniteSet(OwnRoutes(mid \o <<route>>)) /\ Cardinality(OwnRoutes(mid \o <<route>>)) = k + 1
    BY <1>10, <1>11, <2>1, OneBound
  <2> QED BY <1>1, <2>2
<1>13. BoundOf'
  <2>0. routes' = routes /\ ToSet(routes') = ToSet(routes)
    BY <1>1
  <2>1. bindings' \in Seq(BindingSet') /\ Cardinality(OwnRoutes(bindings')) \in Nat
    BY <1>3, <1>6, <1>12
  <2>2. \A b \in ToSet(bindings') :
          b \in ToSet(bindings) \/ b = route \/ (more /\ b = OptionsRoute(route))
    BY <1>11, <1>12
  <2>3. ASSUME NEW b \in ToSet(bindings')
        PROVE  \/ b \in ToSet(routes)
               \/ \E r \in ToSet(routes) : r.cors.kind # "none" /\ b = OptionsRoute(r)
    <3>1. CASE b \in ToSet(bindings)
      BY <1>2, <3>1 DEF BoundOf
    <3>2. CASE b = route
      BY <1>9, <3>2
    <3>3. CASE more /\ b = OptionsRoute(route)
      BY <1>9, <3>3
    <3> QED BY <2>2, <3>1, <3>2, <3>3
  <2>4. corsRoutes \subseteq corsRoutes' /\ (route.cors.kind # "none" => route.path \in corsRoutes')
    BY <1>1
  <2>5. ASSUME NEW b \in ToSet(bindings'), b.cors.kind # "none" PROVE b.path \in corsRoutes'
    <3>1. CASE b \in ToSet(bindings)
      BY <1>2, <2>4, <2>5, <3>1 DEF BoundOf
    <3>2. CASE b = route
      BY <2>4, <2>5, <3>2
    <3>3. CASE b = OptionsRoute(route)
      BY <1>10, <2>4, <2>5, <3>3
    <3> QED BY <2>2, <3>1, <3>2, <3>3
  <2>6. ToSet(bindings) \subseteq ToSet(bindings') /\ route \in ToSet(bindings')
    BY <1>11, <1>12
  <2>7. ASSUME NEW path \in corsRoutes'
        PROVE  \E r \in ToSet(routes) :
                 /\ r.path = path /\ r.cors.kind # "none"
                 /\ OptionsRoute(r) \in ToSet(bindings') \/ r.httpMethod = "OPTIONS"
    <3>1. CASE path \in corsRoutes
      <4>1. PICK r \in ToSet(routes) :
              /\ r.path = path /\ r.cors.kind # "none"
              /\ OptionsRoute(r) \in ToSet(bindings) \/ r.httpMethod = "OPTIONS"
        BY <1>2, <3>1 DEF BoundOf
      <4> QED BY <2>6, <4>1
    <3>2. CASE path \notin corsRoutes
      <4>1. first /\ path = route.path
        <5> HIDE DEF first
        <5> QED BY <1>1, <3>2
      <4>2. more => OptionsRoute(route) \in ToSet(bindings')
        <5> HIDE DEF more
        <5> QED BY <1>11, <1>12
      <4>3. OptionsRoute(route) \in ToSet(bindings') \/ route.httpMethod = "OPTIONS"
        BY <4>1, <4>2
      <4> QED BY <1>9, <4>1, <4>3
    <3> QED BY <3>1, <3>2
  <2>8. ASSUME NEW i \in 1 .. k + 1 PROVE i \in 1 .. Len(routes) /\ routes[i] \in ToSet(bindings')
    <3>1. CASE i = k + 1
      BY <1>8, <2>6, <3>1 DEF route
    <3>2. CASE i # k + 1
      <4>1. i \in 1 .. k
        BY <1>6, <3>2
      <4> QED BY <1>6, <2>6, <4>1
    <3> QED BY <3>1, <3>2
  <2>9. k + 1 <= Len(routes) /\ (phase' = "mapped" => k + 1 = Len(routes)) /\ (phase' = "generated" => k + 1 # Len(routes))
    <3>1. k \in Nat /\ k <= Len(routes) /\ k # Len(routes) /\ Len(routes) \in Nat
      BY <1>6, <1>7
    <3>2. k + 1 <= Len(routes)
      BY <3>1
    <3>3. phase' = IF k + 1 = Len(routes) THEN "mapped" ELSE "generated"
      BY <1>1
    <3> QED BY <3>2, <3>3
  <2> HIDE DEF more, first
  <2> QED BY <1>12, <2>0, <2>1, <2>3, <2>5, <2>7, <2>8, <2>9 DEF BoundOf
<1>14. phase' \in {"generated", "mapped"}
  BY <1>1
<1> QED BY <1>3, <1>4, <1>13, <1>14 DEF RoutesInv

LEMMA RoutesStay ==
    ASSUME RoutesInv, UNCHANGED routingVars
    PROVE  RoutesInv'
<1>1. /\ decorations' = decorations /\ applied' = applied /\ controllers' = controllers /\ meta' = meta /\ phase' = phase
      /\ routes' = routes /\ bindings' = bindings /\ corsRoutes' = corsRoutes
  BY DEF routingVars
<1>2. MetaInv
  BY DEF RoutesInv
<1>3. /\ MetaInv' /\ Https' = Https /\ RouteFor' = RouteFor /\ RouteSet' = RouteSet /\ BindingSet' = BindingSet
      /\ Candidates' = Candidates /\ (Unrouted' <=> Unrouted)
  BY <1>1, <1>2, MetaUnchanged
<1>4. GeneratedInv' <=> GeneratedInv
  BY <1>1, <1>3 DEF GeneratedInv
<1>5. BoundOf' <=> BoundOf
  BY <1>1, <1>3 DEF BoundOf
<1> QED BY <1>1, <1>3, <1>4, <1>5 DEF RoutesInv

LEMMA RoutesStep ==
    ASSUME RoutesInv, RoutingNext
    PROVE  RoutesInv'
<1>1. ASSUME NEW d \in decorations, HttpMethodDecorator(d) \/ Cors(d) \/ AuthorizedDecorator(d) \/ ControllerDecorator(d)
      PROVE  RoutesInv'
  BY <1>1, DecoratorRoutes
<1>2. CASE GenerateRoutes
  BY <1>2, GenerateRoutesRoutes
<1>3. CASE MapRoute
  BY <1>3, MapRouteRoutes
<1> QED BY <1>1, <1>2, <1>3 DEF RoutingNext

LEMMA RoutesInvHolds == RoutingSpec => []RoutesInv
<1>1. RoutingInit => RoutesInv
  BY RoutesInit
<1>2. RoutesInv /\ [RoutingNext]_routingVars => RoutesInv'
  BY RoutesStep, RoutesStay
<1> QED BY <1>1, <1>2, PTL DEF RoutingSpec

-------------------------------------------------------------------------------
LEMMA ClassPathIs ==
    ASSUME MetaInv, NEW c \in ToSet(controllers)
    PROVE  (CHOOSE d \in applied : d.class = c /\ d.kind = "controller").path = meta[c].path
<1>1. PICK d \in applied : d.kind = "controller" /\ c = d.class
  BY DEF MetaInv
<1>2. c \in ClassesOf(decorations)
  BY <1>1 DEF MetaInv, ClassesOf
<1>3. \A x \in OfIn(applied, c, Itself, "controller") : meta[c].path = x.path
  BY <1>2 DEF MetaInv, ClassOf
<1>4. ASSUME NEW x \in applied, x.class = c, x.kind = "controller" PROVE meta[c].path = x.path
  <2>1. x.member = Itself
    BY <1>4, DecorationFacts DEF MetaInv
  <2> QED BY <1>3, <1>4, <2>1 DEF OfIn
<1> DEFINE y == CHOOSE d1 \in applied : d1.class = c /\ d1.kind = "controller"
<1>5. y \in applied /\ y.class = c /\ y.kind = "controller"
  BY <1>1
<1> HIDE DEF y
<1>6. meta[c].path = y.path
  BY <1>4, <1>5
<1> QED BY <1>6 DEF y

LEMMA DeclaredIs ==
    ASSUME NEW c, NEW m, NEW kind
    PROVE  Declared(c, m, kind) = OfIn(applied, c, m, kind) \cup OfIn(applied, c, Itself, kind)
BY DEF Declared, OfIn

LEMMA SomeCors ==
    ASSUME NEW a, NEW b
    PROVE  GetCorsConfig(a, b).kind # "none" <=> a.kind # "none" \/ b.kind # "none"
<1>1. CASE a.kind = "none"
  BY <1>1 DEF GetCorsConfig
<1>2. CASE a.kind # "none" /\ b.kind = "none"
  BY <1>2 DEF GetCorsConfig
<1>3. CASE a.kind # "none" /\ b.kind # "none" /\ a.kind = "true" /\ b.kind = "true"
  BY <1>3 DEF GetCorsConfig
<1>4. CASE a.kind # "none" /\ b.kind # "none" /\ ~(a.kind = "true" /\ b.kind = "true")
  <2> DEFINE r == [kind |-> "config", values |-> b.values @@ a.values]
  <2>1. GetCorsConfig(a, b) = r
    BY <1>4 DEF GetCorsConfig
  <2>2. r.kind = "config"
    OBVIOUS
  <2> HIDE DEF r
  <2> QED BY <1>4, <2>1, <2>2
<1> QED BY <1>1, <1>2, <1>3, <1>4

(* The route of a decorator has what decorators declare.                     *)
LEMMA RouteForIs ==
    ASSUME MetaInv, NEW d \in Https
    PROVE  LET r == RouteFor[d] IN
           /\ r.httpMethod = d.method /\ r.class = d.class /\ r.member = d.member
           /\ r.path = NormalizePath(meta[d.class].path, d.path)
           /\ r.authorization = Said(Declared(d.class, d.member, "authorized"))
           /\ r.cors.kind # "none" <=> Declared(d.class, d.member, "cors") # {}
<1> DEFINE c == d.class
           e == EntryAt(d)
           r == RouteFor[d]
<1>1. d \in applied /\ c \in ToSet(controllers) /\ d.kind = "http"
  BY DEF Https
<1>2. c \in ClassesOf(decorations) /\ EntriesOf(applied, c, meta[c].routeMap)
  BY <1>1, ClassFacts
<1>3. d.member # Itself
  BY <1>1, DecorationFacts DEF MetaInv
<1>4. PICK x \in ToSet(meta[c].routeMap) : x.member = d.member
  BY <1>1, <1>2, <1>3 DEF EntriesOf
<1>5. e = x
  BY <1>1, <1>4, EntryAtIs
<1>6. EntryOf(applied, c, e) /\ e.member = d.member
  BY <1>2, <1>4, <1>5 DEF EntriesOf
<1>7. ClassOf(applied, c, meta[c])
  BY <1>2 DEF MetaInv
<1>8. r = RouteOfEntry(d, e)
  BY DEF RouteFor
<1> HIDE DEF r, e
<1>9. /\ r.httpMethod = d.method /\ r.class = d.class /\ r.member = d.member
      /\ r.path = NormalizePath(meta[d.class].path, d.path)
      /\ r.cors = GetCorsConfig(meta[c].cors, e.cors) /\ r.authorization = MergeAuthorization(meta[c], e)
  BY <1>8 DEF RouteOfEntry
<1>10. r.authorization = Said(Declared(d.class, d.member, "authorized"))
  <2>1. MergeAuthorization(meta[c], e) = ToSet(meta[c].authorization) \cup ToSet(e.authorization)
    BY DEF MergeAuthorization
  <2>2. ToSet(meta[c].authorization) = Said(OfIn(applied, c, Itself, "authorized"))
    BY <1>7 DEF ClassOf
  <2>3. ToSet(e.authorization) = Said(OfIn(applied, c, d.member, "authorized"))
    BY <1>6 DEF EntryOf
  <2>4. \A S, T : Said(S \cup T) = Said(S) \cup Said(T)
    BY DEF Said
  <2>5. Declared(c, d.member, "authorized") = OfIn(applied, c, d.member, "authorized") \cup OfIn(applied, c, Itself, "authorized")
    BY DeclaredIs
  <2>6. Said(Declared(c, d.member, "authorized")) =
          Said(OfIn(applied, c, d.member, "authorized")) \cup Said(OfIn(applied, c, Itself, "authorized"))
    BY <2>4, <2>5
  <2> QED BY <1>9, <2>1, <2>2, <2>3, <2>6
<1>11. r.cors.kind # "none" <=> Declared(d.class, d.member, "cors") # {}
  <2>1. meta[c].cors.kind # "none" <=> OfIn(applied, c, Itself, "cors") # {}
    BY <1>7 DEF ClassOf
  <2>2. e.cors.kind # "none" <=> OfIn(applied, c, d.member, "cors") # {}
    BY <1>6 DEF EntryOf
  <2>3. r.cors.kind # "none" <=> meta[c].cors.kind # "none" \/ e.cors.kind # "none"
    BY <1>9, SomeCors
  <2>4. Declared(c, d.member, "cors") = OfIn(applied, c, d.member, "cors") \cup OfIn(applied, c, Itself, "cors")
    BY DeclaredIs
  <2> QED BY <2>1, <2>2, <2>3, <2>4
<1> QED BY <1>9, <1>10, <1>11 DEF r

LEMMA OneRouteEach ==
    ASSUME NEW i \in DOMAIN routes, NEW j \in DOMAIN routes, ~Conflicting(routes),
           routes[i].path = routes[j].path, routes[i].httpMethod = routes[j].httpMethod
    PROVE  i = j
BY DEF Conflicting

LEMMA RouteFound ==
    ASSUME MetaInv, GeneratedInv, NEW d \in Https, NEW i,
           i = SelectInSeq(routes, LAMBDA r : r.httpMethod = d.method /\ r.class = d.class /\
                      r.member = d.member /\ r.path = NormalizePath(meta[d.class].path, d.path))
    PROVE  i \in DOMAIN routes /\ i # 0 /\ routes[i] = RouteFor[d]
<1> DEFINE Fits(r) == r.httpMethod = d.method /\ r.class = d.class /\ r.member = d.member
                        /\ r.path = NormalizePath(meta[d.class].path, d.path)
           I == {x \in 1 .. Len(routes) : Fits(routes[x])}
<1>1. routes \in Seq(RouteSet) /\ ~Conflicting(routes) /\ Lists(routes, Https, RouteFor)
  BY DEF GeneratedInv
<1>2. DOMAIN routes = 1 .. Len(routes) /\ Len(routes) \in Nat
  BY <1>1, LenProperties
<1>3. PICK x \in DOMAIN routes : routes[x] = RouteFor[d]
  BY <1>1, Listing
<1>4. Fits(routes[x])
  BY <1>3, RouteForIs
<1>5. i = IF I # {} THEN Min(I) ELSE 0
  BY DEF SelectInSeq
<1>6. I \subseteq Nat /\ x \in I
  BY <1>2, <1>3, <1>4
<1>7. i \in I
  <2> HIDE DEF I
  <2> QED BY <1>5, <1>6, Smallest
<1>8. i \in 1 .. Len(routes) /\ Fits(routes[i])
  BY <1>7
<1> HIDE DEF I
<1>9. routes[i].path = routes[x].path /\ routes[i].httpMethod = routes[x].httpMethod
  BY <1>4, <1>8
<1>10. i = x
  <2>1. i \in DOMAIN routes /\ x \in DOMAIN routes /\ ~Conflicting(routes)
    BY <1>1, <1>2, <1>8
  <2> HIDE DEF Fits
  <2> QED BY <1>9, <2>1, OneRouteEach
<1> HIDE DEF Fits
<1>11. i # 0
  BY <1>2, <1>8
<1> QED BY <1>3, <1>10, <1>11

LEMMA RoutesDeclared ==
    ASSUME RoutesInv
    PROVE  RoutesAsDeclared
<1> DEFINE ClassPath(c) == (CHOOSE d \in applied : d.class = c /\ d.kind = "controller").path
           RouteOf(d) == SelectInSeq(routes, LAMBDA r : r.httpMethod = d.method /\ r.class = d.class /\
                           r.member = d.member /\ r.path = NormalizePath(ClassPath(d.class), d.path))
<1>1. MetaInv
  BY DEF RoutesInv
<1>2. \A d \in Https : ClassPath(d.class) = meta[d.class].path
  <2> SUFFICES ASSUME NEW d \in Https PROVE ClassPath(d.class) = meta[d.class].path
    OBVIOUS
  <2>1. d.class \in ToSet(controllers)
    BY DEF Https
  <2> QED BY <1>1, <2>1, ClassPathIs
<1>3. ASSUME phase \in {"generated", "mapped"}
      PROVE  /\ Len(routes) = Cardinality(Https)
             /\ \A d \in Https :
                  /\ RouteOf(d) # 0
                  /\ routes[RouteOf(d)].authorization = UNION {ToSet(a.conditions) : a \in Declared(d.class, d.member, "authorized")}
                  /\ (routes[RouteOf(d)].cors.kind # "none") = (Declared(d.class, d.member, "cors") # {})
  <2>1. GeneratedInv
    BY <1>3 DEF RoutesInv
  <2>2. Len(routes) = Cardinality(Https)
    BY <1>1, <2>1, Listing DEF GeneratedInv
  <2>3. ASSUME NEW d \in Https
        PROVE  /\ RouteOf(d) # 0
               /\ routes[RouteOf(d)].authorization = UNION {ToSet(a.conditions) : a \in Declared(d.class, d.member, "authorized")}
               /\ (routes[RouteOf(d)].cors.kind # "none") = (Declared(d.class, d.member, "cors") # {})
    <3> DEFINE i == SelectInSeq(routes, LAMBDA r : r.httpMethod = d.method /\ r.class = d.class /\
                      r.member = d.member /\ r.path = NormalizePath(meta[d.class].path, d.path))
    <3>1. RouteOf(d) = i
      <4>1. ClassPath(d.class) = meta[d.class].path
        BY <1>2
      <4> HIDE DEF ClassPath
      <4> QED BY <4>1
    <3>2. i # 0 /\ routes[i] = RouteFor[d]
      BY <1>1, <2>1, RouteFound
    <3> HIDE DEF i, RouteOf
    <3>3. /\ RouteFor[d].authorization = Said(Declared(d.class, d.member, "authorized"))
          /\ RouteFor[d].cors.kind # "none" <=> Declared(d.class, d.member, "cors") # {}
      BY <1>1, RouteForIs
    <3>4. Said(Declared(d.class, d.member, "authorized")) = UNION {ToSet(a.conditions) : a \in Declared(d.class, d.member, "authorized")}
      BY DEF Said
    <3>5. (RouteFor[d].cors.kind # "none") = (Declared(d.class, d.member, "cors") # {})
      BY <3>3
    <3> QED BY <3>1, <3>2, <3>3, <3>4, <3>5
  <2> HIDE DEF RouteOf
  <2> QED BY <2>2, <2>3
<1>4. ASSUME phase = "error"
      PROVE  \/ \E d, e \in Https : d # e /\ d.method = e.method
                  /\ NormalizePath(ClassPath(d.class), d.path) = NormalizePath(ClassPath(e.class), e.path)
             \/ \E a \in applied : a.kind = "authorized" /\ a.member # Itself /\ a.class \in ToSet(controllers)
                  /\ ~\E d \in applied : d.class = a.class /\ d.member = a.member /\ d.kind \in {"http", "cors"}
  <2>1. Unrouted \/ Conflicting(Candidates)
    BY <1>4 DEF RoutesInv
  <2>2. CASE Unrouted
    <3>1. PICK c \in ToSet(controllers) : \E e \in ToSet(meta[c].routeMap) : ~e.routed
      BY <2>2 DEF Unrouted
    <3>2. PICK e \in ToSet(meta[c].routeMap) : ~e.routed
      BY <3>1
    <3>3. EntryOf(applied, c, e) /\ Founded(applied, c, e)
      BY <1>1, ClassFacts DEF EntriesOf
    <3>4. PICK a : a \in OfIn(applied, c, e.member, "authorized")
      BY <3>2, <3>3 DEF Founded
    <3>5. e.member # Itself /\ OfIn(applied, c, e.member, "http") = {} /\ OfIn(applied, c, e.member, "cors") = {}
      BY <3>2, <3>3 DEF EntryOf
    <3>6. a \in applied /\ a.kind = "authorized" /\ a.member # Itself /\ a.class = c /\ a.member = e.member
      BY <3>4, <3>5 DEF OfIn
    <3>7. ~\E d \in applied : d.class = a.class /\ d.member = a.member /\ d.kind \in {"http", "cors"}
      BY <3>5, <3>6 DEF OfIn
    <3> QED BY <3>6, <3>7
  <2>3. CASE Conflicting(Candidates)
    <3>1. PICK i, j \in DOMAIN Candidates :
            i # j /\ Candidates[i].path = Candidates[j].path /\ Candidates[i].httpMethod = Candidates[j].httpMethod
      BY <2>3 DEF Conflicting
    <3>2. PICK b : ListedBy(b, Candidates, Https, RouteFor)
      BY <1>1, CandidatesAre DEF Lists
    <3> DEFINE d == b[i]
               e == b[j]
    <3>3. /\ d \in Https /\ e \in Https /\ d # e
          /\ Candidates[i] = RouteFor[d] /\ Candidates[j] = RouteFor[e]
      BY <3>1, <3>2 DEF ListedBy
    <3> HIDE DEF d, e
    <3>4. RouteFor[d].httpMethod = d.method /\ RouteFor[d].path = NormalizePath(meta[d.class].path, d.path)
      BY <1>1, <3>3, RouteForIs
    <3>5. RouteFor[e].httpMethod = e.method /\ RouteFor[e].path = NormalizePath(meta[e.class].path, e.path)
      BY <1>1, <3>3, RouteForIs
    <3>6. ClassPath(d.class) = meta[d.class].path /\ ClassPath(e.class) = meta[e.class].path
      BY <1>2, <3>3
    <3> HIDE DEF ClassPath
    <3>7. d.method = e.method /\ NormalizePath(ClassPath(d.class), d.path) = NormalizePath(ClassPath(e.class), e.path)
      BY <3>1, <3>3, <3>4, <3>5, <3>6
    <3> QED BY <3>3, <3>7
  <2> QED BY <2>1, <2>2, <2>3
<1>5. ASSUME phase = "mapped", NEW r \in ToSet(routes) PROVE r \in ToSet(bindings)
  <2>1. GeneratedInv /\ BoundOf
    BY <1>5 DEF RoutesInv
  <2>2. DOMAIN routes = 1 .. Len(routes)
    BY <2>1, LenProperties DEF GeneratedInv
  <2>3. PICK i \in 1 .. Len(routes) : routes[i] = r
    BY <2>2 DEF ToSet
  <2>4. Cardinality(OwnRoutes(bindings)) = Len(routes) /\ \A x \in 1 .. Cardinality(OwnRoutes(bindings)) : routes[x] \in ToSet(bindings)
    BY <1>5, <2>1 DEF BoundOf
  <2> QED BY <2>3, <2>4
<1>6. Https = {d \in applied : d.kind = "http" /\ d.class \in ToSet(controllers)}
  BY DEF Https
<1>7. phase = "mapped" => \A r \in ToSet(routes) : r \in ToSet(bindings)
  BY <1>5
<1> DEFINE AllGenerated == /\ Len(routes) = Cardinality(Https)
                        /\ \A d \in Https :
                             /\ RouteOf(d) # 0
                             /\ LET r == routes[RouteOf(d)] IN
                                /\ r.authorization = UNION {ToSet(a.conditions) : a \in Declared(d.class, d.member, "authorized")}
                                /\ (r.cors.kind # "none") = (Declared(d.class, d.member, "cors") # {})
           Failed == \/ \E d, e \in Https : d # e /\ d.method = e.method
                          /\ NormalizePath(ClassPath(d.class), d.path) = NormalizePath(ClassPath(e.class), e.path)
                     \/ \E a \in applied : a.kind = "authorized" /\ a.member # Itself /\ a.class \in ToSet(controllers)
                          /\ ~\E d \in applied : d.class = a.class /\ d.member = a.member /\ d.kind \in {"http", "cors"}
           Bounded == phase = "mapped" => \A r \in ToSet(routes) : r \in ToSet(bindings)
<1>8. phase \in {"generated", "mapped"} => AllGenerated
  <2> HIDE DEF RouteOf
  <2> QED BY <1>3
<1>9. phase = "error" => Failed
  <2> HIDE DEF ClassPath
  <2> QED BY <1>4
<1>10. RoutesAsDeclared <=> (phase \in {"generated", "mapped"} => AllGenerated) /\ (phase = "error" => Failed) /\ Bounded
  BY <1>6 DEF RoutesAsDeclared
<1> HIDE DEF AllGenerated, Failed
<1> QED BY <1>7, <1>8, <1>9, <1>10

(* Routing: whatever is decorated, and in whatever order decorators run,     *)
(* every HTTP decorator of a registered controller gives one route, with     *)
(* every condition declared for its member or class, and CORS if either asks *)
(* for it; all routes are bound; and generation fails only for two decorators*)
(* of one path and method, or for conditions of a member without a route.    *)
THEOREM RoutesAsDeclaredAlways == RoutingSpec => []RoutesAsDeclared
<1>1. RoutingSpec => []RoutesInv
  BY RoutesInvHolds
<1>2. RoutesInv => RoutesAsDeclared
  BY RoutesDeclared
<1> QED BY <1>1, <1>2, PTL

-------------------------------------------------------------------------------
(* Requests: the answer is the one that the bindings give.                   *)
AnswerTo(q) ==
    IF Bound(q) = 0 THEN [NoAnswer EXCEPT !.outcome = "not found"]
    ELSE [outcome |-> Outcome(bindings[Bound(q)], q), cors |-> HeadersOf(bindings[Bound(q)], q)]
RequestsInv ==
    RoutesInv /\ (requests = 0 \/ (phase = "mapped" /\ request \in RequestSet /\ answer = AnswerTo(request)))

LEMMA BoundIs ==
    ASSUME RoutesInv, phase = "mapped", NEW q
    PROVE  /\ Bound(q) # 0 => /\ bindings[Bound(q)] \in ToSet(bindings)
                              /\ bindings[Bound(q)].httpMethod = q.method /\ bindings[Bound(q)].path = q.path
           /\ \A b \in ToSet(bindings) : b.httpMethod = q.method /\ b.path = q.path => Bound(q) # 0
<1> DEFINE n == Len(bindings)
           I == {k \in 1 .. n : bindings[k].httpMethod = q.method /\ bindings[k].path = q.path}
           i == IF I # {} THEN Min(I) ELSE 0
<1>1. Bound(q) = i
  BY DEF Bound, SelectInSeq
<1>2. bindings \in Seq(BindingSet)
  BY DEF RoutesInv, BoundOf
<1>3. n \in Nat /\ DOMAIN bindings = 1 .. n
  BY <1>2, LenProperties
<1>4. I \subseteq Nat /\ \A k \in I : k # 0 /\ k \in 1 .. n
  BY <1>3
<1>5. I # {} => i \in I
  <2> HIDE DEF I
  <2> QED BY <1>4, Smallest
<1>6. \A k \in I : bindings[k] \in ToSet(bindings) /\ bindings[k].httpMethod = q.method /\ bindings[k].path = q.path
  BY <1>3 DEF ToSet
<1>7. \A b \in ToSet(bindings) : b.httpMethod = q.method /\ b.path = q.path => I # {}
  BY <1>3 DEF ToSet
<1>8. I = {} => i = 0
  OBVIOUS
<1> HIDE DEF I, i
<1> QED BY <1>1, <1>4, <1>5, <1>6, <1>7, <1>8

LEMMA BindingIs ==
    ASSUME RoutesInv, phase = "mapped", NEW b \in ToSet(bindings)
    PROVE  /\ b.httpMethod # "OPTIONS" => b \in ToSet(routes)
           /\ b \in ToSet(routes) \/ \E r \in ToSet(routes) :
                r.path = b.path /\ r.cors = b.cors /\ r.cors.kind # "none" /\ b.class = "CorsHandler" /\ b.httpMethod = "OPTIONS"
           /\ b.class = "CorsHandler" => b \notin ToSet(routes)
           /\ \A r \in ToSet(routes) : r \in RouteSet /\ r.class # "CorsHandler"
<1>1. MetaInv /\ BoundOf /\ routes \in Seq(RouteSet)
  BY DEF RoutesInv, GeneratedInv
<1>2. \A r \in ToSet(routes) : r \in RouteSet
  <2>1. DOMAIN routes = 1 .. Len(routes)
    BY <1>1, LenProperties
  <2> QED BY <1>1, <2>1, ElementOfSeq DEF ToSet
<1>3. ASSUME NEW r \in ToSet(routes)
      PROVE  /\ r.class # "CorsHandler" /\ OptionsRoute(r).class = "CorsHandler" /\ OptionsRoute(r).httpMethod = "OPTIONS"
             /\ OptionsRoute(r).path = r.path /\ OptionsRoute(r).cors = r.cors
  BY <1>1, <1>2, RouteFacts
<1>4. b \in ToSet(routes) \/ \E r \in ToSet(routes) : r.cors.kind # "none" /\ b = OptionsRoute(r)
  BY <1>1 DEF BoundOf
<1>5. b \in ToSet(routes) \/ \E r \in ToSet(routes) :
        r.path = b.path /\ r.cors = b.cors /\ r.cors.kind # "none" /\ b.class = "CorsHandler" /\ b.httpMethod = "OPTIONS"
  BY <1>3, <1>4
<1> QED BY <1>2, <1>3, <1>5

LEMMA OnlyRoute ==
    ASSUME RoutesInv, phase = "mapped", NEW r \in ToSet(routes), NEW s \in ToSet(routes),
           r.path = s.path, r.httpMethod = s.httpMethod
    PROVE  r = s
<1>1. ~Conflicting(routes)
  BY DEF RoutesInv, GeneratedInv
<1>2. PICK i \in DOMAIN routes : routes[i] = r
  BY DEF ToSet
<1>3. PICK j \in DOMAIN routes : routes[j] = s
  BY DEF ToSet
<1>4. i = j
  BY <1>1, <1>2, <1>3, OneRouteEach
<1> QED BY <1>2, <1>3, <1>4

LEMMA SameOrigins ==
    ASSUME NEW r, NEW s, NEW q, NEW p, r.cors = s.cors, q.origin = p.origin
    PROVE  AllowOrigin(r, q) = AllowOrigin(s, p) /\ AllowOrigin(r, q) \in {q.origin, NoOrigin}
BY DEF AllowOrigin, Setting, Settings

LEMMA SameCredentials ==
    ASSUME NEW r, NEW s, r.cors = s.cors
    PROVE  Setting(r, "allowCredentials", FALSE) = Setting(s, "allowCredentials", FALSE)
<1>1. Settings(r) = Settings(s)
  BY DEF Settings
<1> QED BY <1>1 DEF Setting

LEMMA ValuesAre ==
    ASSUME NEW r, NEW q, NEW ms
    PROVE  LET v == CorsHeaderValues(r, q, ms) IN
             v.origin = AllowOrigin(r, q) /\ v.methods = ms /\ v.headers = AllowHeaders
BY DEF CorsHeaderValues

LEMMA CredentialsAre ==
    ASSUME NEW r, NEW s, NEW q, NEW p, NEW ms, NEW ns, r.cors = s.cors
    PROVE  CorsHeaderValues(r, q, ms).credentials = CorsHeaderValues(s, p, ns).credentials
BY SameCredentials DEF CorsHeaderValues

LEMMA PreflightIs ==
    ASSUME NEW q \in RequestSet
    PROVE  LET p == Preflight(q, q.method) IN
             /\ p.method = "OPTIONS" /\ p.origin = q.origin /\ p.path = q.path /\ p.host = q.host
             /\ p.requestHeaders = q.requestHeaders
BY DEF Preflight, RequestSet

LEMMA OutcomeIs ==
    ASSUME NEW r, NEW q
    PROVE  /\ Outcome(r, q) = "handled" => /\ Authorization(r, q) = "allowed"
                                           /\ IsCorsRequest(q) => CorsRequestAllowed(CorsHeaders(r, q), q)
           /\ Outcome(r, q) = "denied" => IsCorsRequest(q) /\ ~CorsRequestAllowed(CorsHeaders(r, q), q)
           /\ Authorization(r, q) = "allowed" /\ ~IsCorsFails(q) /\ CorsRequestAllowed(CorsHeaders(r, q), q) => Outcome(r, q) = "handled"
<1>1. Authorization(r, q) \in {"allowed", "unauthorized", "failed", "forbidden"}
  BY DEF Authorization
<1> QED BY <1>1 DEF Outcome

LEMMA AllowedHolds ==
    ASSUME NEW r, NEW q, q.method # "OPTIONS", Authorization(r, q) = "allowed"
    PROVE  r.authorization \subseteq q.caller.satisfies \cup (IF q.caller.known THEN {"IsAuthorized"} ELSE {})
<1>1. /\ "IsAuthorized" \in r.authorization => q.caller.known
      /\ r.authorization \ {"IsAuthorized"} \subseteq q.caller.satisfies
  BY DEF Authorization
<1> QED BY <1>1

(* What a preflight permits is allowed.                                      *)
LEMMA PermittedIsAllowed ==
    ASSUME RoutesInv, phase = "mapped", NEW q \in RequestSet, NEW route \in ToSet(routes),
           route.path = q.path, route.httpMethod = q.method, q.method # "OPTIONS", route.cors.kind # "none",
           IsCorsRequest(q), Permits(PreflightAnswer(q), q)
    PROVE  /\ CorsRequestAllowed(CorsHeaders(route, q), q) /\ CorsHeaders(route, q).origin = q.origin
           /\ SameCors(q.path, route.cors) =>
                CorsHeaders(route, q).credentials = PreflightAnswer(q).credentials
<1> DEFINE p == Preflight(q, q.method)
           b == bindings[Bound(p)]
           a == PreflightAnswer(q)
<1>1. q.origin # NoOrigin /\ a.origin = q.origin /\ q.method \in a.methods
  BY DEF IsCorsRequest, Permits
<1>2. a # NoHeaders
  BY <1>1 DEF NoHeaders
<1>3. Bound(p) # 0 /\ b.class = "CorsHandler" /\ a = HeadersOf(b, p)
  <2> HIDE DEF p
  <2>1. a = IF Bound(p) = 0 \/ b.class # "CorsHandler" THEN NoHeaders ELSE HeadersOf(b, p)
    BY DEF PreflightAnswer, p
  <2> HIDE DEF a, b
  <2> QED BY <1>2, <2>1
<1>4. p.method = "OPTIONS" /\ p.origin = q.origin /\ p.path = q.path
  BY PreflightIs
<1> HIDE DEF p, a
<1>5. b.path = q.path /\ b \in ToSet(bindings)
  BY <1>3, <1>4, BoundIs
<1> HIDE DEF b
<1>6. a = CorsHeaders(b, p)
  BY <1>2, <1>3 DEF HeadersOf
<1>7. q.method \in DetermineAllowedMethods(b, p)
  <2>1. q.method \in (IF b.cors.kind = "none" THEN {} ELSE DetermineAllowedMethods(b, p))
    BY <1>1, <1>6, ValuesAre DEF CorsHeaders
  <2> QED BY <2>1
<1>8. PICK t \in SiblingRoutes(b) : t.httpMethod = q.method /\ CorsRequestAllowed(CorsHeaderValues(t, p, {t.httpMethod}), p)
  BY <1>7 DEF DetermineAllowedMethods
<1>9. t \in ToSet(routes) /\ t.path = q.path
  BY <1>5 DEF SiblingRoutes
<1>10. t = route
  BY <1>8, <1>9, OnlyRoute
<1>11. AllowOrigin(route, p) # NoOrigin
  BY <1>8, <1>10, ValuesAre DEF CorsRequestAllowed
<1>12. AllowOrigin(route, q) = q.origin
  <2>1. AllowOrigin(route, q) = AllowOrigin(route, p) /\ AllowOrigin(route, q) \in {q.origin, NoOrigin}
    BY <1>4, SameOrigins
  <2> QED BY <1>11, <2>1
<1>13. Asked(q) = {}
  BY DEF Asked
<1>14. CorsRequestAllowed(CorsHeaderValues(route, q, {route.httpMethod}), q)
  BY <1>1, <1>12, <1>13, ValuesAre DEF CorsRequestAllowed
<1>15. route.httpMethod \in DetermineAllowedMethods(route, q)
  BY <1>14 DEF DetermineAllowedMethods, SiblingRoutes
<1>16. CorsHeaders(route, q) = CorsHeaderValues(route, q, DetermineAllowedMethods(route, q))
  BY DEF CorsHeaders
<1>17. ASSUME SameCors(q.path, route.cors) PROVE CorsHeaders(route, q).credentials = a.credentials
  <2>1. PICK r \in ToSet(routes) : r.path = b.path /\ r.cors = b.cors /\ r.cors.kind # "none"
    BY <1>3, <1>5, BindingIs
  <2>2. b.cors = route.cors
    BY <1>5, <1>17, <2>1 DEF SameCors, RoutesAt
  <2>3. PICK ns : a = CorsHeaderValues(b, p, ns)
    BY <1>6 DEF CorsHeaders
  <2> QED BY <1>16, <2>2, <2>3, CredentialsAre
<1>18. CorsRequestAllowed(CorsHeaders(route, q), q) /\ CorsHeaders(route, q).origin = q.origin
  BY <1>1, <1>12, <1>13, <1>15, <1>16, ValuesAre DEF CorsRequestAllowed
<1> QED BY <1>17, <1>18 DEF a

(* An origin that is no web URL is permitted nothing.                        *)
LEMMA OddNotServed ==
    ASSUME RoutesInv, phase = "mapped", NEW q \in RequestSet, IsCorsFails(q)
    PROVE  /\ \A r : Outcome(r, q) # "handled"
           /\ ~Permits(PreflightAnswer(q), q)
<1> DEFINE p == Preflight(q, q.method)
           b == bindings[Bound(p)]
           a == PreflightAnswer(q)
<1>1. q.origin # NoOrigin /\ ~q.origin.web
  BY DEF IsCorsFails
<1>2. ASSUME NEW r, NEW x, IsCorsFails(x) PROVE Outcome(r, x) # "handled"
  <2>1. Authorization(r, x) \in {"allowed", "unauthorized", "failed", "forbidden"}
    BY DEF Authorization
  <2> QED BY <1>2, <2>1 DEF Outcome
<1>3. IsCorsFails(p)
  BY <1>1, PreflightIs DEF IsCorsFails
<1> HIDE DEF p
<1>4. a = IF Bound(p) = 0 \/ b.class # "CorsHandler" THEN NoHeaders ELSE HeadersOf(b, p)
  BY DEF PreflightAnswer, p
<1>5. HeadersOf(b, p) = NoHeaders
  BY <1>2, <1>3 DEF HeadersOf
<1> HIDE DEF a, b
<1>6. a = NoHeaders
  BY <1>4, <1>5
<1>7. a.origin # q.origin
  BY <1>1, <1>6 DEF NoHeaders
<1>8. ~Permits(a, q)
  BY <1>7 DEF Permits
<1> QED BY <1>2, <1>8 DEF a

(* What is handled has been permitted, where all routes have the same CORS.  *)
LEMMA HandledIsPermitted ==
    ASSUME RoutesInv, phase = "mapped", NEW q \in RequestSet, NEW route \in ToSet(routes),
           route.path = q.path, route.httpMethod = q.method, q.method # "OPTIONS",
           IsCorsRequest(q), q.origin.web, Alike(q.path), q.requestHeaders \subseteq AllowHeaders,
           CorsRequestAllowed(CorsHeaders(route, q), q)
    PROVE  Permits(PreflightAnswer(q), q)
<1> DEFINE p == Preflight(q, q.method)
           b == bindings[Bound(p)]
<1>1. AllowOrigin(route, q) # NoOrigin /\ route.cors.kind # "none"
  <2> DEFINE ms == IF route.cors.kind = "none" THEN {} ELSE DetermineAllowedMethods(route, q)
  <2>1. CorsHeaders(route, q) = CorsHeaderValues(route, q, ms)
    BY DEF CorsHeaders
  <2>2. AllowOrigin(route, q) # NoOrigin /\ ms # {}
    <3> HIDE DEF ms
    <3> QED BY <2>1, ValuesAre DEF CorsRequestAllowed
  <2> QED BY <2>2
<1>2. AllowOrigin(route, q) = q.origin
  BY <1>1, SameOrigins
<1>3. route \in ToSet(bindings)
  BY RoutesDeclared DEF RoutesAsDeclared
<1>4. q.path \in corsRoutes
  BY <1>1, <1>3 DEF RoutesInv, BoundOf
<1>5. PICK r \in ToSet(routes) : /\ r.path = q.path /\ r.cors.kind # "none"
                                 /\ OptionsRoute(r) \in ToSet(bindings) \/ r.httpMethod = "OPTIONS"
  BY <1>4 DEF RoutesInv, BoundOf
<1>6. \A s \in ToSet(routes) : s.path = q.path => s.cors = route.cors /\ s.httpMethod # "OPTIONS"
  BY DEF Alike, RoutesAt
<1>7. OptionsRoute(r) \in ToSet(bindings) /\ OptionsRoute(r).httpMethod = "OPTIONS" /\ OptionsRoute(r).path = q.path
  <2>1. MetaInv /\ r \in RouteSet
    BY <1>3, BindingIs DEF RoutesInv
  <2> QED BY <1>5, <1>6, <2>1, RouteFacts
<1>8. p.method = "OPTIONS" /\ p.origin = q.origin /\ p.path = q.path /\ p.host = q.host /\ p.requestHeaders = q.requestHeaders
  BY PreflightIs
<1> HIDE DEF p
<1>9. Bound(p) # 0
  BY <1>7, <1>8, BoundIs
<1>10. b \in ToSet(bindings) /\ b.httpMethod = "OPTIONS" /\ b.path = q.path
  BY <1>8, <1>9, BoundIs
<1> HIDE DEF b
<1>11. b.class = "CorsHandler" /\ b.cors = route.cors
  <2>1. b \notin ToSet(routes)
    BY <1>6, <1>10
  <2>2. PICK s \in ToSet(routes) : s.path = b.path /\ s.cors = b.cors /\ b.class = "CorsHandler"
    BY <1>10, <2>1, BindingIs
  <2> QED BY <1>6, <1>10, <2>2
<1>12. AllowOrigin(route, p) = q.origin /\ AllowOrigin(b, p) = q.origin
  <2>1. AllowOrigin(route, q) = AllowOrigin(route, p)
    BY <1>8, SameOrigins
  <2>2. AllowOrigin(route, q) = AllowOrigin(b, p)
    BY <1>8, <1>11, SameOrigins
  <2> QED BY <1>2, <2>1, <2>2
<1>13. q.origin # NoOrigin
  BY DEF IsCorsRequest
<1>14. \A h \in Asked(p) : h \in AllowHeaders
  BY <1>8 DEF Asked
<1>15. CorsRequestAllowed(CorsHeaderValues(route, p, {route.httpMethod}), p)
  <2> DEFINE v == CorsHeaderValues(route, p, {route.httpMethod})
  <2>1. v.origin = q.origin /\ v.methods = {route.httpMethod} /\ v.headers = AllowHeaders
    BY <1>12, ValuesAre
  <2> HIDE DEF v
  <2>2. v.origin # NoOrigin /\ v.methods # {} /\ \A h \in Asked(p) : h \in v.headers
    BY <1>13, <1>14, <2>1
  <2>3. CorsRequestAllowed(v, p)
    BY <2>2 DEF CorsRequestAllowed
  <2> QED BY <2>3 DEF v
<1>16. q.method \in DetermineAllowedMethods(b, p)
  <2>1. route \in SiblingRoutes(b)
    BY <1>10 DEF SiblingRoutes
  <2> QED BY <1>15, <2>1 DEF DetermineAllowedMethods
<1> DEFINE w == CorsHeaders(b, p)
<1>17. w.origin = q.origin /\ q.method \in w.methods /\ w.headers = AllowHeaders
  <2>1. w = CorsHeaderValues(b, p, DetermineAllowedMethods(b, p))
    BY <1>1, <1>11 DEF CorsHeaders
  <2> HIDE DEF w
  <2> QED BY <1>12, <1>16, <2>1, ValuesAre
<1>18. CorsRequestAllowed(w, p)
  <2> HIDE DEF w
  <2> QED BY <1>13, <1>14, <1>17 DEF CorsRequestAllowed
<1>19. Outcome(b, p) = "handled"
  <2>1. Authorization(b, p) = "allowed"
    BY <1>8 DEF Authorization
  <2>2. ~IsCorsFails(p)
    BY <1>8 DEF IsCorsFails
  <2> QED BY <1>18, <2>1, <2>2, OutcomeIs
<1>20. PreflightAnswer(q) = w
  <2>1. HeadersOf(b, p) = w
    BY <1>11, <1>19 DEF HeadersOf
  <2>2. PreflightAnswer(q) = IF Bound(p) = 0 \/ b.class # "CorsHandler" THEN NoHeaders ELSE HeadersOf(b, p)
    BY DEF PreflightAnswer, p, b
  <2> HIDE DEF w
  <2> QED BY <1>9, <1>11, <2>1, <2>2
<1> HIDE DEF w
<1> QED BY <1>17, <1>20 DEF Permits

LEMMA ServedDeclared ==
    ASSUME RequestsInv
    PROVE  ServedAsDeclared
<1> DEFINE b(q) == Bound(q)
           Cross(q) == IsCorsRequest(q) /\ q.origin.web
           Promised(q) ==
             LET route == bindings[b(q)]
                 declared == UNION {ToSet(a.conditions) : a \in Declared(route.class, route.member, "authorized")}
                 permitted == Permits(PreflightAnswer(q), q)
             IN /\ answer.outcome = "handled" =>
                     declared \subseteq q.caller.satisfies \cup (IF q.caller.known THEN {"IsAuthorized"} ELSE {})
                /\ Cross(q) /\ permitted /\ route.cors.kind # "none" =>
                     /\ answer.outcome # "denied"
                     /\ answer.outcome = "handled" =>
                          /\ answer.cors.origin = q.origin
                          /\ SameCors(q.path, route.cors) =>
                               answer.cors.credentials = PreflightAnswer(q).credentials
                /\ Cross(q) /\ Alike(q.path) /\ answer.outcome = "handled"
                     /\ q.requestHeaders \subseteq AllowHeaders => permitted
                /\ answer.outcome = "denied" => IsCorsRequest(q)
                /\ IsCorsFails(q) => answer.outcome # "handled" /\ ~permitted
<1>1. ASSUME NEW q \in RequestSet, phase = "mapped", answer = AnswerTo(q), Bound(q) # 0, q.method # "OPTIONS"
      PROVE  Promised(q)
  <2> DEFINE route == bindings[Bound(q)]
             declared == UNION {ToSet(a.conditions) : a \in Declared(route.class, route.member, "authorized")}
             permitted == Permits(PreflightAnswer(q), q)
  <2>1. RoutesInv /\ MetaInv
    BY DEF RequestsInv, RoutesInv
  <2>2. route \in ToSet(bindings) /\ route.httpMethod = q.method /\ route.path = q.path
    BY <1>1, <2>1, BoundIs
  <2>3. answer.outcome = Outcome(route, q) /\ answer.cors = HeadersOf(route, q)
    BY <1>1 DEF AnswerTo
  <2> HIDE DEF route
  <2>4. route \in ToSet(routes)
    BY <1>1, <2>1, <2>2, BindingIs
  <2>5. declared = route.authorization
    <3>1. PICK d \in Https : route = RouteFor[d]
      <4>1. routes \in Seq(RouteSet) /\ Lists(routes, Https, RouteFor)
        BY <1>1, <2>1 DEF RoutesInv, GeneratedInv
      <4> QED BY <2>1, <2>4, <4>1, Listing
    <3>2. /\ RouteFor[d].class = d.class /\ RouteFor[d].member = d.member
          /\ RouteFor[d].authorization = Said(Declared(d.class, d.member, "authorized"))
      BY <2>1, RouteForIs
    <3> QED BY <3>1, <3>2 DEF Said
  <2>6. answer.outcome = "handled" =>
          declared \subseteq q.caller.satisfies \cup (IF q.caller.known THEN {"IsAuthorized"} ELSE {})
    <3> SUFFICES ASSUME answer.outcome = "handled"
                 PROVE  declared \subseteq q.caller.satisfies \cup (IF q.caller.known THEN {"IsAuthorized"} ELSE {})
      OBVIOUS
    <3>1. Authorization(route, q) = "allowed"
      BY <2>3, OutcomeIs
    <3>2. route.authorization \subseteq q.caller.satisfies \cup (IF q.caller.known THEN {"IsAuthorized"} ELSE {})
      BY <1>1, <3>1, AllowedHolds
    <3> HIDE DEF declared
    <3> QED BY <2>5, <3>2
  <2>7. ASSUME Cross(q), permitted, route.cors.kind # "none"
        PROVE  /\ answer.outcome # "denied"
               /\ answer.outcome = "handled" =>
                    /\ answer.cors.origin = q.origin
                    /\ SameCors(q.path, route.cors) =>
                         answer.cors.credentials = PreflightAnswer(q).credentials
    <3>1. /\ CorsRequestAllowed(CorsHeaders(route, q), q) /\ CorsHeaders(route, q).origin = q.origin
          /\ SameCors(q.path, route.cors) =>
               CorsHeaders(route, q).credentials = PreflightAnswer(q).credentials
      BY <1>1, <2>1, <2>2, <2>4, <2>7, PermittedIsAllowed
    <3>2. answer.outcome # "denied"
      BY <2>3, <3>1, OutcomeIs
    <3>3. ASSUME answer.outcome = "handled" PROVE answer.cors = CorsHeaders(route, q)
      BY <2>3, <2>7, <3>3 DEF HeadersOf
    <3> QED BY <3>1, <3>2, <3>3
  <2>8. ASSUME Cross(q), Alike(q.path), answer.outcome = "handled", q.requestHeaders \subseteq AllowHeaders
        PROVE  permitted
    <3>1. CorsRequestAllowed(CorsHeaders(route, q), q)
      BY <2>3, <2>8, OutcomeIs
    <3> QED BY <1>1, <2>1, <2>2, <2>4, <2>8, <3>1, HandledIsPermitted
  <2>9. answer.outcome = "denied" => IsCorsRequest(q)
    BY <2>3, OutcomeIs
  <2>10. bindings[b(q)] = route
    BY DEF route
  <2>11. IsCorsFails(q) => answer.outcome # "handled" /\ ~permitted
    BY <1>1, <2>1, <2>3, OddNotServed
  <2> HIDE DEF permitted, Cross, b
  <2> QED BY <2>6, <2>7, <2>8, <2>9, <2>10, <2>11 DEF permitted
<1>2. ServedAsDeclared <=> (requests > 0 /\ b(request) # 0 /\ request.method # "OPTIONS" => Promised(request))
  BY DEF ServedAsDeclared
<1>3. ASSUME requests > 0, b(request) # 0, request.method # "OPTIONS" PROVE Promised(request)
  <2>1. requests # 0
    BY <1>3
  <2>2. phase = "mapped" /\ request \in RequestSet /\ answer = AnswerTo(request)
    BY <2>1 DEF RequestsInv
  <2> HIDE DEF Promised
  <2> QED BY <1>1, <1>3, <2>2
<1> HIDE DEF Promised
<1> QED BY <1>2, <1>3

LEMMA AnswersStay ==
    ASSUME UNCHANGED routingVars, NEW q
    PROVE  AnswerTo(q)' = AnswerTo(q)
<1>1. bindings' = bindings /\ routes' = routes
  BY DEF routingVars
<1>2. Bound(q)' = Bound(q)
  BY <1>1 DEF Bound, SelectInSeq
<1>3. ASSUME NEW r PROVE CorsHeaders(r, q)' = CorsHeaders(r, q)
  BY <1>1 DEF CorsHeaders, DetermineAllowedMethods, SiblingRoutes
<1>4. ASSUME NEW r PROVE Outcome(r, q)' = Outcome(r, q) /\ HeadersOf(r, q)' = HeadersOf(r, q)
  BY <1>3 DEF Outcome, HeadersOf
<1> QED BY <1>1, <1>2, <1>4 DEF AnswerTo

LEMMA RequestsInvHolds == RequestsSpec => []RequestsInv
<1>1. RequestsInit => RequestsInv
  BY RoutesInit DEF RequestsInit, RequestsInv
<1>2. ASSUME RequestsInv, [RequestsNext]_<<routingVars, requestVars>> PROVE RequestsInv'
  <2>0. RoutesInv
    BY <1>2 DEF RequestsInv
  <2>1. CASE RoutingNext /\ UNCHANGED requestVars
    <3>1. RoutesInv'
      BY <2>0, <2>1, RoutesStep
    <3>2. phase # "mapped"
      BY <2>1 DEF RoutingNext, HttpMethodDecorator, Cors, AuthorizedDecorator, ControllerDecorator, Runs, GenerateRoutes, MapRoute
    <3>3. requests = 0 /\ requests' = requests
      BY <1>2, <2>1, <3>2 DEF RequestsInv, requestVars
    <3> QED BY <3>1, <3>3 DEF RequestsInv
  <2>2. ASSUME NEW q \in RequestSet, Request(q) PROVE RequestsInv'
    <3>1. phase = "mapped" /\ request' = q /\ answer' = AnswerTo(q) /\ UNCHANGED routingVars
      BY <2>2 DEF Request, AnswerTo
    <3>2. RoutesInv' /\ phase' = phase
      BY <2>0, <3>1, RoutesStay DEF routingVars
    <3>3. AnswerTo(q)' = AnswerTo(q)
      BY <3>1, AnswersStay
    <3> QED BY <3>1, <3>2, <3>3 DEF RequestsInv, RequestSet
  <2>3. CASE UNCHANGED <<routingVars, requestVars>>
    <3>1. RoutesInv' /\ phase' = phase
      BY <2>0, <2>3, RoutesStay DEF routingVars
    <3>2. requests' = requests /\ request' = request /\ answer' = answer
      BY <2>3 DEF requestVars
    <3>3. ASSUME NEW q PROVE AnswerTo(q)' = AnswerTo(q)
      BY <2>3, AnswersStay
    <3> QED BY <1>2, <3>1, <3>2, <3>3 DEF RequestsInv
  <2> QED BY <1>2, <2>1, <2>2, <2>3 DEF RequestsNext
<1> QED BY <1>1, <1>2, PTL DEF RequestsSpec

(* RouteRequests: a request is handled only if its caller satisfies every    *)
(* condition declared for the member or the class of the route it meets; and *)
(* a request from another origin that preflight permits is not denied, and   *)
(* the answer of the handler then names its origin, with the credentials of  *)
(* the preflight if the routes of the path have the same CORS.               *)
THEOREM ServedAsDeclaredAlways == RequestsSpec => []ServedAsDeclared
<1>1. RequestsSpec => []RequestsInv
  BY RequestsInvHolds
<1>2. RequestsInv => ServedAsDeclared
  BY ServedDeclared
<1> QED BY <1>1, <1>2, PTL
-------------------------------------------------------------------------------
(* Numbers up to n have an enumeration in any order that is total.           *)
InOrderOf(s, n, R) ==
    /\ s \in [1 .. n -> 1 .. n] /\ \A k \in 1 .. n : \E i \in 1 .. n : s[i] = k
    /\ \A i, j \in 1 .. n : i < j => <<s[i], s[j]>> \in R

LEMMA OrderedUpTo ==
    ASSUME NEW n \in Nat, NEW R,
           \A a, b \in 1 .. n : a # b => <<a, b>> \in R \/ <<b, a>> \in R,
           \A a, b, c \in 1 .. n : <<a, b>> \in R /\ <<b, c>> \in R => <<a, c>> \in R
    PROVE  \E s : InOrderOf(s, n, R)
<1> DEFINE S == {k \in Nat : k <= n => \E s : InOrderOf(s, k, R)}
<1>1. 0 \in S
  <2> DEFINE s == [i \in 1 .. 0 |-> i]
  <2>1. InOrderOf(s, 0, R)
    BY DEF InOrderOf
  <2> QED BY <2>1
<1>2. ASSUME NEW k \in Nat, k \in S, k + 1 <= n PROVE \E s : InOrderOf(s, k + 1, R)
  <2>1. PICK s : InOrderOf(s, k, R)
    BY <1>2
  <2> DEFINE e == k + 1
             P == {i \in 1 .. k : <<e, s[i]>> \in R} \cup {e}
             p == Min(P)
             t == [i \in 1 .. e |-> IF i < p THEN s[i] ELSE IF i = p THEN e ELSE s[i - 1]]
  <2>0. k + 1 <= n
    BY <1>2
  <2>2. s \in [1 .. k -> 1 .. k] /\ e \in 1 .. n /\ 1 .. k \subseteq 1 .. n
    <3>1. s \in [1 .. k -> 1 .. k]
      BY <2>1 DEF InOrderOf
    <3> QED BY <2>0, <3>1
  <2>3. p \in P /\ \A i \in P : p <= i
    <3>1. P \subseteq Nat /\ P # {}
      OBVIOUS
    <3> HIDE DEF P
    <3> QED BY <3>1, Smallest
  <2>4. p \in 1 .. e
    <3>1. P \subseteq 1 .. e
      OBVIOUS
    <3> QED BY <2>3, <3>1
  <2>5. \A i \in 1 .. k : i < p => <<s[i], e>> \in R
    <3> TAKE i \in 1 .. k
    <3>1. i < p => i \notin P
      <4> HIDE DEF p, P
      <4> QED BY <2>3, <2>4
    <3>2. s[i] \in 1 .. k /\ s[i] \in 1 .. n /\ s[i] # e
      BY <2>2
    <3>3. i \notin P => <<e, s[i]>> \notin R
      OBVIOUS
    <3> HIDE DEF p, t, P, e
    <3> QED BY <2>2, <3>1, <3>2, <3>3
  <2>6. \A i \in 1 .. k : i >= p => <<e, s[i]>> \in R
    <3> SUFFICES ASSUME NEW i \in 1 .. k, i >= p PROVE <<e, s[i]>> \in R
      OBVIOUS
    <3>0. p # e
      BY <2>4
    <3>1. p \in 1 .. k /\ <<e, s[p]>> \in R
      <4> HIDE DEF p
      <4> QED BY <2>3, <3>0
    <3>2. i = p \/ <<s[p], s[i]>> \in R
      <4>1. i = p \/ p < i
        BY <3>1
      <4> HIDE DEF p, t, e
      <4> QED BY <2>1, <3>1, <4>1 DEF InOrderOf
    <3>3. s[i] \in 1 .. n /\ s[p] \in 1 .. n
      BY <2>2, <3>1
    <3> HIDE DEF p, t, e
    <3> QED BY <2>2, <3>1, <3>2, <3>3
  <2> HIDE DEF p, P
  <2>7. t \in [1 .. e -> 1 .. e]
    BY <2>2, <2>4
  <2>8. \A m \in 1 .. e : \E i \in 1 .. e : t[i] = m
    <3> TAKE m \in 1 .. e
    <3>1. CASE m = e
      BY <2>4, <3>1
    <3>2. CASE m # e
      <4>1. PICK i \in 1 .. k : s[i] = m
        BY <2>1, <3>2 DEF InOrderOf
      <4>2. IF i < p THEN i \in 1 .. e /\ t[i] = m ELSE i + 1 \in 1 .. e /\ t[i + 1] = m
        BY <2>4, <4>1
      <4> QED BY <4>2
    <3> QED BY <3>1, <3>2
  <2>9. ASSUME NEW i \in 1 .. e, NEW j \in 1 .. e, i < j PROVE <<t[i], t[j]>> \in R
    <3>1. CASE j < p
      BY <2>1, <2>4, <2>9, <3>1 DEF InOrderOf
    <3>2. CASE j = p
      BY <2>4, <2>5, <2>9, <3>2
    <3>3. CASE j > p /\ i < p
      <4>1. i \in 1 .. k /\ j - 1 \in 1 .. k /\ i < j - 1 /\ t[i] = s[i] /\ t[j] = s[j - 1]
        BY <2>4, <2>9, <3>3
      <4> QED BY <2>1, <4>1 DEF InOrderOf
    <3>4. CASE j > p /\ i = p
      BY <2>4, <2>6, <2>9, <3>4
    <3>5. CASE j > p /\ i > p
      <4>1. i - 1 \in 1 .. k /\ j - 1 \in 1 .. k /\ i - 1 < j - 1 /\ t[i] = s[i - 1] /\ t[j] = s[j - 1]
        BY <2>4, <2>9, <3>5
      <4> QED BY <2>1, <4>1 DEF InOrderOf
    <3> QED BY <2>4, <3>1, <3>2, <3>3, <3>4, <3>5
  <2>10. InOrderOf(t, e, R)
    <3> HIDE DEF t, e
    <3> QED BY <2>7, <2>8, <2>9 DEF InOrderOf
  <2> QED BY <2>10
<1>3. ASSUME NEW k \in Nat, k \in S PROVE k + 1 \in S
  BY <1>2, <1>3
<1> HIDE DEF S
<1>4. Nat \subseteq S
  BY <1>1, <1>3, NatSetInduction
<1> QED BY <1>4 DEF S

(* Configurations are in a total order of preference.                        *)
Configs == 1 .. Len(ViewConfigs)

LEMMA ConfigFields ==
    /\ Len(ViewConfigs) \in Nat /\ DOMAIN ViewConfigs = Configs
    /\ \A i \in Configs : /\ ViewConfigs[i].priority \in Int \cup {NoPriority}
                          /\ HasPriority(ViewConfigs[i]) => ViewConfigs[i].priority \in Int
<1>1. Len(ViewConfigs) \in Nat /\ DOMAIN ViewConfigs = Configs
  BY ViewAssumption, LenProperties DEF Configs
<1>2. ASSUME NEW i \in Configs PROVE ViewConfigs[i].priority \in Int \cup {NoPriority}
  <2>1. ViewConfigs[i] \in [extension : STRING, priority : Int \cup {NoPriority}]
    BY ViewAssumption, <1>1, ElementOfSeq DEF Configs
  <2> QED BY <2>1
<1> QED BY <1>1, <1>2 DEF HasPriority

LEMMA PreferredIsTotal ==
    /\ \A i \in Configs : ~Preferred(i, i)
    /\ \A i, j \in Configs : i # j => Preferred(i, j) \/ Preferred(j, i)
    /\ \A i, j, k \in Configs : Preferred(i, j) /\ Preferred(j, k) => Preferred(i, k)
<1> DEFINE has(i) == HasPriority(ViewConfigs[i])
           pr(i) == ViewConfigs[i].priority
<1>1. \A i \in Configs : i \in Int /\ (has(i) => pr(i) \in Int)
  BY ConfigFields DEF Configs
<1>2. \A i, j : Preferred(i, j) <=> IF has(i) # has(j) THEN has(i)
                                    ELSE IF has(i) /\ pr(i) # pr(j) THEN pr(i) < pr(j) ELSE i < j
  BY DEF Preferred
<1>3. \A i : has(i) \in BOOLEAN
  BY DEF HasPriority
<1> HIDE DEF has, pr
<1>4. \A i \in Configs : ~Preferred(i, i)
  BY <1>1, <1>2
<1>5. \A i, j \in Configs : i # j => Preferred(i, j) \/ Preferred(j, i)
  BY <1>1, <1>2, <1>3
<1>6. ASSUME NEW i \in Configs, NEW j \in Configs, NEW k \in Configs, Preferred(i, j), Preferred(j, k)
      PROVE  Preferred(i, k)
  <2>1. CASE has(i) /\ has(j) /\ has(k)
    <3>1. pr(i) \in Int /\ pr(j) \in Int /\ pr(k) \in Int /\ i \in Int /\ j \in Int /\ k \in Int
      BY <1>1, <2>1
    <3>2. /\ IF pr(i) # pr(j) THEN pr(i) < pr(j) ELSE i < j
          /\ IF pr(j) # pr(k) THEN pr(j) < pr(k) ELSE j < k
      BY <1>2, <1>6, <2>1
    <3>3. IF pr(i) # pr(k) THEN pr(i) < pr(k) ELSE i < k
      BY <3>1, <3>2
    <3> QED BY <1>2, <2>1, <3>3
  <2>2. CASE ~has(i) /\ ~has(j) /\ ~has(k)
    BY <1>1, <1>2, <1>6, <2>2
  <2>3. CASE has(i) /\ ~has(k)
    BY <1>2, <2>3
  <2>4. has(k) => has(j)
    BY <1>2, <1>3, <1>6
  <2>5. has(j) => has(i)
    BY <1>2, <1>3, <1>6
  <2> QED BY <2>1, <2>2, <2>3, <2>4, <2>5
<1> QED BY <1>4, <1>5, <1>6

(* The order of the sort is the one preferred.                               *)
LEMMA PrecedesIsPreferred ==
    ASSUME NEW i \in Configs, NEW j \in Configs
    PROVE  Precedes(Indexed[i], Indexed[j]) <=> Preferred(i, j)
<1> DEFINE a == Indexed[i]
           b == Indexed[j]
<1>1. /\ a.priority = ViewConfigs[i].priority /\ a.index = i
      /\ b.priority = ViewConfigs[j].priority /\ b.index = j
  BY ConfigFields DEF Indexed
<1>2. HasPriority(a) = HasPriority(ViewConfigs[i]) /\ HasPriority(b) = HasPriority(ViewConfigs[j])
  BY <1>1 DEF HasPriority
<1>3. HasPriority(a) \in BOOLEAN /\ HasPriority(b) \in BOOLEAN
  BY DEF HasPriority
<1>4. Precedes(a, b) <=> IF HasPriority(a) /\ HasPriority(b) /\ a.priority # b.priority THEN a.priority < b.priority
                         ELSE IF HasPriority(a) # HasPriority(b) THEN HasPriority(a) ELSE a.index < b.index
  BY DEF Precedes
<1>5. Preferred(i, j) <=> IF HasPriority(a) # HasPriority(b) THEN HasPriority(a)
                          ELSE IF HasPriority(a) /\ a.priority # b.priority THEN a.priority < b.priority ELSE i < j
  BY <1>1, <1>2 DEF Preferred
<1> HIDE DEF a, b
<1>6. Precedes(a, b) <=> Preferred(i, j)
  BY <1>1, <1>3, <1>4, <1>5
<1> QED BY <1>6 DEF a, b

(* Sorted has every configuration once, the preferred ones first.            *)
IsRanking(f) ==
    /\ f \in [Configs -> Configs] /\ \A k \in Configs : \E n \in Configs : f[n] = k
    /\ \A m, n \in Configs : m < n => Preferred(f[m], f[n])
    /\ \A n \in Configs : Sorted[n] = Indexed[f[n]]

LEMMA IndexedOnce ==
    /\ DOMAIN Indexed = Configs /\ ToSet(Indexed) = {Indexed[i] : i \in Configs}
    /\ \A i \in Configs : Indexed[i].index = i /\ Indexed[i].extension = ViewConfigs[i].extension
BY ConfigFields DEF Indexed, ToSet

LEMMA SortedIsRanked == DOMAIN Sorted = Configs /\ \E f : IsRanking(f)
<1> DEFINE R == {x \in Configs \X Configs : Preferred(x[1], x[2])}
           InRank(s) == ToSet(s) = ToSet(Indexed) /\ \A i, j \in DOMAIN s : i < j => Precedes(s[i], s[j])
           All == [DOMAIN ViewConfigs -> ToSet(Indexed)]
<1>1. \A a, b \in Configs : <<a, b>> \in R <=> Preferred(a, b)
  OBVIOUS
<1>2. PICK o : InOrderOf(o, Len(ViewConfigs), R)
  <2> HIDE DEF R
  <2>1. \A a, b \in Configs : a # b => <<a, b>> \in R \/ <<b, a>> \in R
    BY <1>1, PreferredIsTotal
  <2>2. \A a, b, c \in Configs : <<a, b>> \in R /\ <<b, c>> \in R => <<a, c>> \in R
    BY <1>1, PreferredIsTotal
  <2> QED BY <2>1, <2>2, ConfigFields, OrderedUpTo DEF Configs
<1> HIDE DEF R
<1>3. /\ o \in [Configs -> Configs] /\ \A k \in Configs : \E i \in Configs : o[i] = k
      /\ \A i, j \in Configs : i < j => Preferred(o[i], o[j])
  <2>1. \A i, j \in Configs : o \in [Configs -> Configs] => o[i] \in Configs /\ o[j] \in Configs
    OBVIOUS
  <2> QED BY <1>1, <1>2, <2>1 DEF InOrderOf, Configs
<1> DEFINE s == [i \in Configs |-> Indexed[o[i]]]
<1>4. s \in All /\ DOMAIN s = Configs
  BY <1>3, ConfigFields, IndexedOnce
<1>5. ToSet(s) = ToSet(Indexed)
  <2>1. ToSet(s) = {Indexed[o[i]] : i \in Configs}
    BY DEF ToSet
  <2> QED BY <1>3, <2>1, IndexedOnce
<1>6. \A i, j \in Configs : i < j => Precedes(s[i], s[j])
  <2> SUFFICES ASSUME NEW i \in Configs, NEW j \in Configs, i < j PROVE Precedes(s[i], s[j])
    OBVIOUS
  <2>1. o[i] \in Configs /\ o[j] \in Configs /\ Preferred(o[i], o[j])
    BY <1>3
  <2> QED BY <2>1, PrecedesIsPreferred
<1>7. InRank(s)
  <2> HIDE DEF s
  <2> QED BY <1>4, <1>5, <1>6
<1>8. Sorted \in All /\ InRank(Sorted)
  <2>1. Sorted = CHOOSE x \in All : InRank(x)
    BY DEF Sorted
  <2> HIDE DEF InRank, All, s
  <2> QED BY <1>4, <1>7, <2>1
<1>9. DOMAIN Sorted = Configs
  BY <1>8, ConfigFields
<1> DEFINE f == [n \in Configs |-> CHOOSE i \in Configs : Sorted[n] = Indexed[i]]
<1>10. ASSUME NEW n \in Configs PROVE f[n] \in Configs /\ Sorted[n] = Indexed[f[n]]
  <2>1. Sorted[n] \in ToSet(Indexed)
    BY <1>8, ConfigFields
  <2>2. \E i \in Configs : Sorted[n] = Indexed[i]
    BY <2>1, IndexedOnce
  <2> QED BY <2>2
<1>11. f \in [Configs -> Configs]
  BY <1>10
<1> HIDE DEF f
<1>12. ASSUME NEW k \in Configs PROVE \E n \in Configs : f[n] = k
  <2>1. Indexed[k] \in ToSet(Sorted)
    BY <1>8, IndexedOnce
  <2>2. PICK n \in Configs : Sorted[n] = Indexed[k]
    BY <1>9, <2>1 DEF ToSet
  <2>3. f[n] = k
    BY <1>10, <2>2, IndexedOnce
  <2> QED BY <2>3
<1>13. ASSUME NEW m \in Configs, NEW n \in Configs, m < n PROVE Preferred(f[m], f[n])
  <2>1. Precedes(Sorted[m], Sorted[n])
    BY <1>8, <1>9, <1>13
  <2>2. f[m] \in Configs /\ f[n] \in Configs /\ Sorted[m] = Indexed[f[m]] /\ Sorted[n] = Indexed[f[n]]
    BY <1>10
  <2> QED BY <2>1, <2>2, PrecedesIsPreferred
<1>14. IsRanking(f)
  BY <1>10, <1>11, <1>12, <1>13 DEF IsRanking
<1> QED BY <1>9, <1>14

(* What is not ignored is what is preferred among those of its extension.    *)
LEMMA UsableIsEffective ==
    ASSUME NEW f, IsRanking(f), NEW n \in Configs
    PROVE  /\ n \in Usable <=> f[n] \in Effective
           /\ f[n] \in Configs /\ Sorted[n].extension = ViewConfigs[f[n]].extension
<1>1. \A m \in Configs : f[m] \in Configs /\ Sorted[m].extension = ViewConfigs[f[m]].extension
  BY IndexedOnce DEF IsRanking
<1>2. n \in Usable <=> ~\E j \in 1 .. (n - 1) : Sorted[j].extension = Sorted[n].extension
  BY SortedIsRanked DEF Usable, Ignored
<1>3. f[n] \in Effective <=> \A k \in Configs \ {f[n]} :
        ViewConfigs[k].extension = ViewConfigs[f[n]].extension => Preferred(f[n], k)
  BY <1>1, ConfigFields DEF Effective
<1>4. ASSUME n \in Usable, NEW k \in Configs \ {f[n]}, ViewConfigs[k].extension = ViewConfigs[f[n]].extension
      PROVE  Preferred(f[n], k)
  <2>1. PICK m \in Configs : f[m] = k
    BY DEF IsRanking
  <2>2. m # n /\ m \in Int /\ n \in Int /\ n >= 1 /\ m >= 1
    BY <1>4, <2>1 DEF Configs
  <2>3. ~(m < n)
    <3> SUFFICES ASSUME m < n PROVE FALSE
      OBVIOUS
    <3>1. m \in 1 .. (n - 1)
      BY <2>2
    <3>2. Sorted[m].extension = Sorted[n].extension
      BY <1>1, <1>4, <2>1
    <3> QED BY <1>2, <1>4, <3>1, <3>2
  <2> QED BY <2>1, <2>2, <2>3 DEF IsRanking
<1>5. ASSUME f[n] \in Effective, NEW j \in 1 .. (n - 1), Sorted[j].extension = Sorted[n].extension
      PROVE  FALSE
  <2>1. j \in Configs /\ j < n /\ n \in Int /\ j \in Int
    BY ConfigFields DEF Configs
  <2>2. Preferred(f[j], f[n]) /\ f[j] \in Configs /\ f[n] \in Configs
    BY <1>1, <2>1 DEF IsRanking
  <2>3. f[j] # f[n]
    BY <2>2, PreferredIsTotal
  <2>4. Preferred(f[n], f[j])
    BY <1>1, <1>3, <1>5, <2>1, <2>2, <2>3
  <2> QED BY <2>2, <2>4, PreferredIsTotal
<1> QED BY <1>1, <1>2, <1>3, <1>4, <1>5

-------------------------------------------------------------------------------
(* A rendering that tries i has missed what it was to try before.            *)
Missed(r, path, i) ==
    \A k \in Tried(path) : k < i /\ Candidate(path, k) \in Templates => Candidate(path, k) \in absent[r]
Resolved(r) ==
    /\ rendering[r].path \in ViewPaths
    /\ \E n \in Tried(rendering[r].path) :
          rendering[r].template = Candidate(rendering[r].path, n) /\ Missed(r, rendering[r].path, n)

RenderingInv(r) ==
    /\ rendering[r].pc \in {"trying", "found"} => Templates \ files \subseteq absent[r]
    /\ rendering[r].pc = "trying" =>
          /\ rendering[r].path \in ViewPaths /\ rendering[r].at \in Nat
          /\ Missed(r, rendering[r].path, rendering[r].at)
    /\ rendering[r].pc = "found" \/ (rendering[r].pc = "done" /\ rendering[r].fresh) => Resolved(r)
    /\ rendering[r].pc = "missing" =>
          rendering[r].path \in ViewPaths /\ \A n \in Nat : Missed(r, rendering[r].path, n)

ViewInv ==
    /\ DOMAIN rendering = Renderings /\ absent \in [Renderings -> SUBSET Templates]
    /\ \A r \in Renderings : RenderingInv(r)

(* The paths to resolve are those that were configured.                      *)
LEMMA PathsAreViewPaths == ASSUME NEW q, NEW p \in PathsFor(q) PROVE p \in ViewPaths
<1>1. CASE q.error
  BY <1>1, ViewAssumption DEF PathsFor, ErrorPath
<1>2. CASE ~q.error
  <2> DEFINE n == UsableView(q)
             I == {i \in 1 .. Len(RouteViews) : CanUseView(RouteViews[i], q)}
  <2>1. n # 0 /\ p = RouteViews[n].path
    BY <1>2 DEF PathsFor
  <2>2. n = IF I # {} THEN Min(I) ELSE 0
    BY DEF UsableView, SelectInSeq
  <2>3. I \subseteq 1 .. Len(RouteViews) /\ I \subseteq Nat
    OBVIOUS
  <2> HIDE DEF n, I
  <2>4. n \in 1 .. Len(RouteViews)
    BY <2>1, <2>2, <2>3, Smallest
  <2>5. RouteViews[n] \in [path : ViewPaths, accepts : SUBSET STRING]
    BY <2>4, ViewAssumption, ElementOfSeq
  <2> QED BY <2>1, <2>5
<1> QED BY <1>1, <1>2

LEMMA TriedAre == ASSUME NEW p PROVE Tried(p) \subseteq Nat /\ \A k \in Tried(p) : k # 0 => k \in Configs /\ k \in Usable
<1>1. Usable \subseteq Configs /\ Configs \subseteq Nat
  BY SortedIsRanked, ConfigFields DEF Usable, Configs
<1> QED BY <1>1 DEF Tried

(* What renderings know stays so while files come and go.                    *)
LEMMA RenderingStays ==
    ASSUME NEW r \in Renderings, RenderingInv(r), rendering'[r] = rendering[r],
           absent[r] \subseteq absent'[r],
           rendering[r].pc \in {"trying", "found"} => Templates \ files' \subseteq absent'[r]
    PROVE  RenderingInv(r)'
<1>1. \A p, n : Missed(r, p, n) => Missed(r, p, n)'
  BY DEF Missed
<1>2. Resolved(r) => Resolved(r)'
  <2> SUFFICES ASSUME Resolved(r) PROVE Resolved(r)'
    OBVIOUS
  <2>1. PICK n \in Tried(rendering[r].path) :
          rendering[r].template = Candidate(rendering[r].path, n) /\ Missed(r, rendering[r].path, n)
    BY DEF Resolved
  <2>2. Missed(r, rendering[r].path, n)'
    <3>1. Missed(r, rendering[r].path, n)
      BY <2>1
    <3> QED BY <3>1 DEF Missed
  <2> QED BY <2>1, <2>2 DEF Resolved
<1> QED BY <1>1, <1>2 DEF RenderingInv

LEMMA ViewInitially == ViewInit => ViewInv
BY DEF ViewInit, ViewInv, RenderingInv

(* A rendering takes a step: the others stay as they are.                    *)
LEMMA OneRenders ==
    ASSUME ViewInv, NEW r \in Renderings, NEW v, rendering' = [rendering EXCEPT ![r] = v],
           NEW a \in SUBSET Templates, absent' = [absent EXCEPT ![r] = a], files' = files,
           RenderingInv(r)'
    PROVE  ViewInv'
<1>1. DOMAIN rendering' = Renderings /\ absent' \in [Renderings -> SUBSET Templates]
  BY DEF ViewInv
<1>2. ASSUME NEW s \in Renderings, s # r PROVE RenderingInv(s)'
  <2>1. rendering'[s] = rendering[s] /\ absent'[s] = absent[s] /\ RenderingInv(s)
    BY <1>2 DEF ViewInv
  <2> QED BY <2>1, RenderingStays DEF RenderingInv
<1> QED BY <1>1, <1>2 DEF ViewInv

LEMMA BeginStep ==
    ASSUME ViewInv, NEW r \in Renderings, NEW q \in Requests, Begin(r, q)
    PROVE  ViewInv'
<1> DEFINE p == CHOOSE p \in PathsFor(q) : TRUE
           v == rendering'[r]
           new == IF PathsFor(q) = {} THEN [pc |-> "noView", request |-> q]
                  ELSE IF Cached(p) THEN [pc |-> "done", path |-> p, template |-> resolvedViews[p], fresh |-> FALSE]
                  ELSE [pc |-> "trying", path |-> p, at |-> 0]
<1>1. rendering' = [rendering EXCEPT ![r] = new]
  BY DEF Begin
<1>2. absent' = [absent EXCEPT ![r] = Templates \ files] /\ files' = files
  BY DEF Begin
<1>3. v = new /\ absent'[r] = Templates \ files
  BY <1>1, <1>2 DEF ViewInv
<1>4. PathsFor(q) # {} => p \in ViewPaths
  BY PathsAreViewPaths
<1> HIDE DEF new, p
<1>5. CASE v.pc # "trying" /\ v.pc # "found" /\ v.pc # "missing" /\ ~(v.pc = "done" /\ v.fresh)
  <2>1. RenderingInv(r)'
    BY <1>5 DEF RenderingInv
  <2> HIDE DEF v
  <2> QED BY <1>1, <1>2, <2>1, OneRenders
<1>6. CASE v = [pc |-> "trying", path |-> p, at |-> 0] /\ PathsFor(q) # {}
  <2>1. v.pc = "trying" /\ v.path = p /\ v.at = 0
    BY <1>6
  <2>2. Missed(r, p, 0)'
    BY TriedAre DEF Missed
  <2>3. RenderingInv(r)'
    BY <1>2, <1>3, <1>4, <1>6, <2>1, <2>2 DEF RenderingInv, Missed
  <2> HIDE DEF v
  <2> QED BY <1>1, <1>2, <2>3, OneRenders
<1> QED BY <1>3, <1>5, <1>6 DEF new

LEMMA TryNextStep ==
    ASSUME ViewInv, NEW r \in Renderings, TryNext(r)
    PROVE  ViewInv'
<1>1. /\ rendering[r].pc = "trying" /\ Templates \ files \subseteq absent[r] /\ rendering[r].path \in ViewPaths
      /\ rendering[r].at \in Nat /\ Missed(r, rendering[r].path, rendering[r].at)
      /\ absent \in [Renderings -> SUBSET Templates] /\ DOMAIN rendering = Renderings
  BY DEF TryNext, ViewInv, RenderingInv
<1>2. PICK path \in ViewPaths, at \in Nat : path = rendering[r].path /\ at = rendering[r].at
  BY <1>1
<1> DEFINE left == {i \in Tried(path) : i >= at}
           n == Min(left)
           new == IF left = {} THEN [pc |-> "missing", path |-> path]
                  ELSE IF Candidate(path, n) \in files
                       THEN [pc |-> "found", path |-> path, template |-> Candidate(path, n)]
                       ELSE [pc |-> "trying", path |-> path, at |-> n + 1]
<1>3. /\ rendering' = [rendering EXCEPT ![r] = new] /\ absent' = absent /\ files' = files
      /\ rendering'[r] = new
  BY <1>1, <1>2 DEF TryNext
<1>4. absent' = [absent EXCEPT ![r] = absent[r]] /\ absent[r] \in SUBSET Templates
  BY <1>1, <1>3
<1>5. left # {} => n \in left /\ n \in Tried(path) /\ n \in Nat /\ n >= at /\ \A i \in left : n <= i
  <2>1. left \subseteq Nat /\ left \subseteq Tried(path) /\ \A i \in left : i >= at
    BY TriedAre
  <2> HIDE DEF left
  <2> QED BY <2>1, Smallest
<1>6. Tried(path) \subseteq Nat
  BY TriedAre
<1>7. \A i : i \in left <=> i \in Tried(path) /\ i >= at
  OBVIOUS
<1>8. \A i : Missed(r, path, i)' <=> Missed(r, path, i)
  BY <1>3 DEF Missed
<1> HIDE DEF new, left, n
<1>9. CASE left = {}
  <2>1. \A i \in Nat : Missed(r, path, i)
    BY <1>1, <1>2, <1>6, <1>7, <1>9 DEF Missed
  <2>2. rendering'[r] = [pc |-> "missing", path |-> path]
    BY <1>3, <1>9 DEF new
  <2>3. RenderingInv(r)'
    BY <1>8, <2>1, <2>2 DEF RenderingInv
  <2> QED BY <1>3, <1>4, <2>3, OneRenders
<1>10. left # {} => Missed(r, path, n)
  BY <1>1, <1>2, <1>5, <1>6, <1>7 DEF Missed
<1>11. CASE left # {} /\ Candidate(path, n) \in files
  <2>1. PICK k \in Tried(path) : k = n
    BY <1>5, <1>11
  <2>2. rendering'[r] = [pc |-> "found", path |-> path, template |-> Candidate(path, k)]
    BY <1>3, <1>11, <2>1 DEF new
  <2>3. Missed(r, path, k)'
    BY <1>8, <1>10, <1>11, <2>1
  <2>4. Resolved(r)'
    BY <2>2, <2>3 DEF Resolved
  <2>5. RenderingInv(r)'
    BY <1>1, <1>3, <2>2, <2>4 DEF RenderingInv
  <2> QED BY <1>3, <1>4, <2>5, OneRenders
<1>12. CASE left # {} /\ Candidate(path, n) \notin files
  <2>1. PICK k \in Nat : k = n + 1
    BY <1>5, <1>12
  <2>2. Candidate(path, n) \in Templates => Candidate(path, n) \in absent[r]
    BY <1>1, <1>12
  <2>3. Missed(r, path, k)
    BY <1>5, <1>6, <1>10, <1>12, <2>1, <2>2 DEF Missed
  <2>4. rendering'[r] = [pc |-> "trying", path |-> path, at |-> k]
    BY <1>3, <1>12, <2>1 DEF new
  <2>5. RenderingInv(r)'
    BY <1>1, <1>3, <1>8, <2>3, <2>4 DEF RenderingInv
  <2> QED BY <1>3, <1>4, <2>5, OneRenders
<1> QED BY <1>9, <1>11, <1>12

LEMMA EngineStep ==
    ASSUME ViewInv, NEW r \in Renderings, EngineInjected(r) \/ EngineFails(r)
    PROVE  ViewInv'
<1> DEFINE c == rendering[r]
<1>1. c.pc = "found" /\ absent' = absent /\ files' = files /\ Resolved(r) /\ absent \in [Renderings -> SUBSET Templates]
  BY DEF EngineInjected, EngineFails, ViewInv, RenderingInv
<1>2. absent' = [absent EXCEPT ![r] = absent[r]] /\ absent[r] \in SUBSET Templates
  BY <1>1
<1>3. CASE EngineInjected(r)
  <2> DEFINE new == [pc |-> "done", path |-> c.path, template |-> c.template, fresh |-> TRUE]
  <2>1. rendering' = [rendering EXCEPT ![r] = new]
    BY <1>3 DEF EngineInjected
  <2>2. rendering'[r] = new
    BY <2>1 DEF ViewInv
  <2>3. Resolved(r)'
    <3>1. rendering'[r].path = c.path /\ rendering'[r].template = c.template
      BY <2>2
    <3> HIDE DEF new
    <3> QED BY <1>1, <3>1 DEF Resolved, Missed
  <2>4. RenderingInv(r)'
    BY <2>2, <2>3 DEF RenderingInv
  <2> HIDE DEF new
  <2> QED BY <1>1, <1>2, <2>1, <2>4, OneRenders
<1>4. CASE EngineFails(r)
  <2> DEFINE new == [pc |-> "failed"]
  <2>1. rendering' = [rendering EXCEPT ![r] = new]
    BY <1>4 DEF EngineFails
  <2>2. rendering'[r] = new
    BY <2>1 DEF ViewInv
  <2>3. RenderingInv(r)'
    BY <2>2 DEF RenderingInv
  <2> HIDE DEF new
  <2> QED BY <1>1, <1>2, <2>1, <2>3, OneRenders
<1> QED BY <1>3, <1>4

LEMMA FileStep ==
    ASSUME ViewInv, NEW t \in Templates, FileChanges(t)
    PROVE  ViewInv'
<1>1. /\ rendering' = rendering
      /\ absent' = [r \in Renderings |-> IF rendering[r].pc \in {"trying", "found"}
                                         THEN absent[r] \cup (Templates \ files') ELSE absent[r]]
  BY DEF FileChanges
<1>2. ASSUME NEW r \in Renderings PROVE RenderingInv(r)'
  <2>1. /\ RenderingInv(r) /\ absent[r] \subseteq absent'[r]
        /\ rendering[r].pc \in {"trying", "found"} => Templates \ files' \subseteq absent'[r]
    BY <1>1 DEF ViewInv
  <2> QED BY <1>1, <2>1, RenderingStays
<1> QED BY <1>1, <1>2 DEF ViewInv

LEMMA ViewStep == ViewInv /\ [ViewNext]_viewVars => ViewInv'
<1> SUFFICES ASSUME ViewInv, [ViewNext]_viewVars PROVE ViewInv'
  OBVIOUS
<1>1. CASE UNCHANGED viewVars
  BY <1>1 DEF viewVars, ViewInv, RenderingInv, Resolved, Missed
<1> QED BY <1>1, BeginStep, TryNextStep, EngineStep, FileStep DEF ViewNext

(* Paths with an extension appended differ from the path, and by extension.  *)
LEMMA WithDiffers ==
    ASSUME NEW p \in ViewPaths, NEW e \in STRING
    PROVE  /\ With(p, e) # Own(p)
           /\ \A d \in STRING : With(p, d) = With(p, e) => d = e
<1>1. p.ext \in Seq(STRING) /\ Len(p.ext) \in Nat
  BY LenProperties DEF ViewPaths
<1>2. \A d \in STRING : Len(Append(p.ext, d)) = Len(p.ext) + 1 /\ Append(p.ext, d)[Len(p.ext) + 1] = d
  BY <1>1, AppendProperties
<1>3. With(p, e) # Own(p)
  <2> SUFFICES ASSUME With(p, e) = Own(p) PROVE FALSE
    OBVIOUS
  <2>1. With(p, e).ext = Append(p.ext, e) /\ Own(p).ext = p.ext
    BY DEF With, Own
  <2> QED BY <1>1, <1>2, <2>1
<1>4. ASSUME NEW d \in STRING, With(p, d) = With(p, e) PROVE d = e
  <2>1. With(p, e).ext = Append(p.ext, e) /\ With(p, d).ext = Append(p.ext, d)
    BY DEF With
  <2> QED BY <1>2, <1>4, <2>1
<1> QED BY <1>3, <1>4

(* Every alternative has its place, that of a preferred one before.          *)
LEMMA AlternativesTried ==
    ASSUME NEW f, IsRanking(f), NEW p, NEW i \in Effective
    PROVE  \E k \in Tried(p) : k \in Configs /\ f[k] = i /\ Candidate(p, k) = Alternative(p, i)
<1>1. i \in Configs
  BY ConfigFields DEF Effective
<1>2. PICK k \in Configs : f[k] = i
  BY <1>1 DEF IsRanking
<1>3. k \in Usable /\ Sorted[k].extension = ViewConfigs[i].extension
  BY <1>2, UsableIsEffective
<1>4. k # 0
  BY DEF Configs
<1>5. k \in Tried(p) /\ Candidate(p, k) = Alternative(p, i)
  BY <1>3, <1>4 DEF Tried, Candidate, Alternative
<1> QED BY <1>2, <1>5

LEMMA ResolvedIsPreferred ==
    ASSUME NEW r \in Renderings, Resolved(r)
    PROVE  PreferredTo(rendering[r].path, rendering[r].template) \cap Templates \subseteq absent[r]
<1>0. PICK p \in ViewPaths : p = rendering[r].path
  BY DEF Resolved
<1>1. PICK n \in Tried(p) : p = rendering[r].path /\ rendering[r].template = Candidate(p, n) /\ Missed(r, p, n)
  BY <1>0 DEF Resolved
<1>2. PICK f : IsRanking(f)
  BY SortedIsRanked
<1> DEFINE t == Candidate(p, n)
<1>3. CASE OwnSupported(p) /\ t = Own(p)
  <2>1. PreferredTo(p, t) = {}
    BY <1>3 DEF PreferredTo
  <2> QED BY <1>1, <2>1
<1>4. CASE ~(OwnSupported(p) /\ t = Own(p))
  <2>1. n \in Nat /\ n # 0 /\ n \in Configs /\ n \in Usable /\ t = With(p, Sorted[n].extension)
    <3>1. n # 0
      BY <1>4, ConfigFields, SortedIsRanked DEF Tried, Candidate, Usable, Configs
    <3> QED BY <3>1, TriedAre DEF Candidate
  <2>2. f[n] \in Configs /\ t = Alternative(p, f[n])
    BY <1>2, <2>1, UsableIsEffective DEF Alternative
  <2>3. \A j \in Configs : ViewConfigs[j].extension \in STRING
    <3> SUFFICES ASSUME NEW j \in Configs PROVE ViewConfigs[j].extension \in STRING
      OBVIOUS
    <3>1. ViewConfigs[j] \in [extension : STRING, priority : Int \cup {NoPriority}]
      BY ViewAssumption, ElementOfSeq DEF Configs
    <3> QED BY <3>1
  <2>4. \A j \in Effective : t = Alternative(p, j) => j = f[n]
    <3> SUFFICES ASSUME NEW j \in Effective, t = Alternative(p, j) PROVE j = f[n]
      OBVIOUS
    <3>1. j \in Configs /\ f[n] \in Effective
      BY <1>2, <2>1, UsableIsEffective, ConfigFields DEF Effective
    <3>2. ViewConfigs[j].extension = ViewConfigs[f[n]].extension
      BY <2>2, <2>3, <3>1, WithDiffers DEF Alternative
    <3>3. j # f[n] => Preferred(j, f[n]) /\ Preferred(f[n], j)
      BY <2>2, <3>1, <3>2, ConfigFields DEF Effective
    <3> QED BY <2>2, <3>1, <3>3, PreferredIsTotal
  <2>5. ASSUME NEW i \in Effective, Preferred(i, f[n]), Alternative(p, i) \in Templates
        PROVE  Alternative(p, i) \in absent[r]
    <3>1. PICK k \in Tried(p) : k \in Configs /\ f[k] = i /\ Candidate(p, k) = Alternative(p, i)
      BY <1>2, AlternativesTried
    <3>2. k < n
      <4> SUFFICES ASSUME ~(k < n) PROVE FALSE
        OBVIOUS
      <4>1. k \in Int /\ n \in Int /\ (k = n \/ n < k)
        BY <2>1, <3>1 DEF Configs
      <4>2. f[k] = f[n] \/ Preferred(f[n], f[k])
        BY <1>2, <2>1, <3>1, <4>1 DEF IsRanking
      <4>3. f[k] \in Configs
        BY <1>2, <3>1, UsableIsEffective
      <4> QED BY <2>2, <2>5, <3>1, <4>2, <4>3, PreferredIsTotal
    <3> QED BY <1>1, <2>5, <3>1, <3>2 DEF Missed
  <2>6. OwnSupported(p) /\ Own(p) \in Templates => Own(p) \in absent[r]
    <3> SUFFICES ASSUME OwnSupported(p), Own(p) \in Templates PROVE Own(p) \in absent[r]
      OBVIOUS
    <3>1. 0 \in Tried(p) /\ Candidate(p, 0) = Own(p) /\ 0 < n
      BY <2>1 DEF Tried, Candidate
    <3> QED BY <1>1, <3>1 DEF Missed
  <2>7. PreferredTo(p, t) = {Own(p) : x \in {x \in {p} : OwnSupported(x)}}
          \cup UNION {{Alternative(p, i) : i \in {i \in Effective : Preferred(i, j)}} :
                         j \in {j \in Effective : t = Alternative(p, j)}}
    BY <1>4 DEF PreferredTo
  <2> HIDE DEF t
  <2>8. ASSUME NEW v \in PreferredTo(p, t), v \in Templates PROVE v \in absent[r]
    <3>1. \/ v = Own(p) /\ OwnSupported(p)
          \/ \E j \in Effective : t = Alternative(p, j) /\ \E i \in Effective : Preferred(i, j) /\ v = Alternative(p, i)
      BY <2>7, <2>8
    <3> QED BY <2>4, <2>5, <2>6, <2>8, <3>1
  <2> QED BY <1>1, <2>8 DEF t
<1> QED BY <1>3, <1>4

LEMMA ViewInvImplies == ASSUME ViewInv PROVE PreferredView
<1> SUFFICES ASSUME NEW r \in Renderings
             PROVE  /\ rendering[r].pc = "done" /\ rendering[r].fresh =>
                          PreferredTo(rendering[r].path, rendering[r].template) \cap Templates \subseteq absent[r]
                    /\ rendering[r].pc = "missing" =>
                          {Alternative(rendering[r].path, i) : i \in Effective} \cap Templates \subseteq absent[r]
  BY DEF PreferredView
<1>1. RenderingInv(r)
  BY DEF ViewInv
<1>2. ASSUME rendering[r].pc = "missing", NEW i \in Effective, Alternative(rendering[r].path, i) \in Templates
      PROVE  Alternative(rendering[r].path, i) \in absent[r]
  <2>1. PICK f : IsRanking(f)
    BY SortedIsRanked
  <2>2. PICK p : p = rendering[r].path /\ \A n \in Nat : Missed(r, p, n)
    BY <1>1, <1>2 DEF RenderingInv
  <2>3. PICK k \in Tried(p) : Candidate(p, k) = Alternative(p, i)
    BY <2>1, AlternativesTried
  <2>4. k \in Nat /\ k + 1 \in Nat /\ k < k + 1
    BY TriedAre
  <2> QED BY <1>2, <2>2, <2>3, <2>4 DEF Missed
<1>3. rendering[r].pc = "done" /\ rendering[r].fresh => Resolved(r)
  BY <1>1 DEF RenderingInv
<1> QED BY <1>2, <1>3, ResolvedIsPreferred

(* ViewResolver: whatever engines are configured and files come and go, a    *)
(* template is resolved, or a view said to have none, only if each template  *)
(* that the comment in the constructor prefers was missing meanwhile.        *)
THEOREM PreferredViewAlways == ViewSpec => []PreferredView
<1>1. ViewSpec => []ViewInv
  BY ViewInitially, ViewStep, PTL DEF ViewSpec
<1> QED BY <1>1, ViewInvImplies, PTL

-------------------------------------------------------------------------------
(* A finite set has an arrangement in any order that is total.               *)
LEMMA Arranged ==
    ASSUME NEW S, IsFiniteSet(S), NEW R,
           \A a, b \in S : a # b => <<a, b>> \in R \/ <<b, a>> \in R,
           \A a, b, c \in S : <<a, b>> \in R /\ <<b, c>> \in R => <<a, c>> \in R
    PROVE  \E s \in SetToSeqs(S) : \A i, j \in DOMAIN s : i < j => <<s[i], s[j]>> \in R
<1> DEFINE m == Cardinality(S)
<1>1. m \in Nat /\ Cardinality(1 .. m) = m /\ IsFiniteSet(1 .. m)
  <2>1. m \in Nat
    BY FS_CardinalityType
  <2> HIDE DEF m
  <2> QED BY <2>1, FS_Interval
<1>2. PICK b : b \in Bijection(1 .. m, S)
  BY <1>1, FS_SameCardinalityBij DEF ExistsBijection
<1>3. b \in [1 .. m -> S] /\ \A x, y \in 1 .. m : b[x] = b[y] => x = y
  BY <1>2 DEF Bijection, Injection, IsInjective
<1> DEFINE Q == {p \in (1 .. m) \X (1 .. m) : <<b[p[1]], b[p[2]]>> \in R}
<1> HIDE DEF m
<1>4. \A x, y \in 1 .. m : <<x, y>> \in Q <=> <<b[x], b[y]>> \in R
  OBVIOUS
<1> HIDE DEF Q
<1>5. \A x, y \in 1 .. m : x # y => <<x, y>> \in Q \/ <<y, x>> \in Q
  BY <1>3, <1>4
<1>6. \A x, y, z \in 1 .. m : <<x, y>> \in Q /\ <<y, z>> \in Q => <<x, z>> \in Q
  BY <1>3, <1>4
<1>7. PICK t : InOrderOf(t, m, Q)
  BY <1>1, <1>5, <1>6, OrderedUpTo
<1>8. /\ t \in [1 .. m -> 1 .. m] /\ \A k \in 1 .. m : \E i \in 1 .. m : t[i] = k
      /\ \A i, j \in 1 .. m : i < j => <<t[i], t[j]>> \in Q
  BY <1>7 DEF InOrderOf
<1>9. \A x, y \in 1 .. m : t[x] = t[y] => x = y
  <2>1. t \in Surjection(1 .. m, 1 .. m)
    BY <1>8 DEF Surjection
  <2>2. t \in Injection(1 .. m, 1 .. m)
    BY <1>1, <2>1, FS_SurjSameCardinalityImpliesInj
  <2> QED BY <2>2 DEF Injection, IsInjective
<1> DEFINE s == [i \in 1 .. m |-> b[t[i]]]
<1>10. s \in [1 .. m -> S] /\ DOMAIN s = 1 .. m
  BY <1>3, <1>8
<1>11. \A i, j \in 1 .. m : i # j => s[i] # s[j]
  BY <1>3, <1>8, <1>9
<1>12. \A i, j \in 1 .. m : i < j => <<s[i], s[j]>> \in R
  BY <1>4, <1>8
<1> HIDE DEF s
<1>13. s \in SetToSeqs(S)
  BY <1>10, <1>11 DEF SetToSeqs, m
<1> QED BY <1>10, <1>12, <1>13

(* An arrangement of a finite set has each of its elements once.             *)
LEMMA ArrangementHasAll ==
    ASSUME NEW S, IsFiniteSet(S), NEW s \in SetToSeqs(S)
    PROVE  /\ Cardinality(S) \in Nat /\ s \in [1 .. Cardinality(S) -> S]
           /\ \A x \in S : \E i \in 1 .. Cardinality(S) : s[i] = x
<1> DEFINE m == Cardinality(S)
<1>1. m \in Nat /\ Cardinality(1 .. m) = m /\ IsFiniteSet(1 .. m)
  <2>1. m \in Nat
    BY FS_CardinalityType
  <2> HIDE DEF m
  <2> QED BY <2>1, FS_Interval
<1>2. s \in [1 .. m -> S] /\ \A i, j \in 1 .. m : i # j => s[i] # s[j]
  BY DEF SetToSeqs
<1>3. s \in Injection(1 .. m, S)
  BY <1>2 DEF Injection, IsInjective
<1>4. s \in Surjection(1 .. m, S)
  BY <1>1, <1>3, FS_Injection
<1> QED BY <1>1, <1>2, <1>4 DEF Surjection

(* A header that has been parsed has its entries, better ones first.         *)
IsOrderOf(o, header) ==
    /\ o \in [DOMAIN header -> DOMAIN header] /\ \A k \in DOMAIN header : \E i \in DOMAIN header : o[i] = k
    /\ \A i, j \in DOMAIN header : i < j => BetterEntry(header, o[i], o[j])

LEMMA HeaderFields ==
    ASSUME NEW header \in AcceptHeaders
    PROVE  /\ Len(header) \in Nat /\ DOMAIN header = 1 .. Len(header)
           /\ \A i \in DOMAIN header : Weight(header[i]) \in Nat
<1>1. header \in Seq([type : STRING, subtype : STRING, q : [tenths : Nat, dotted : BOOLEAN]])
  BY NegotiationAssumption
<1>2. Len(header) \in Nat /\ DOMAIN header = 1 .. Len(header)
  BY <1>1, LenProperties
<1>3. ASSUME NEW i \in DOMAIN header PROVE Weight(header[i]) \in Nat
  <2>1. header[i] \in [type : STRING, subtype : STRING, q : [tenths : Nat, dotted : BOOLEAN]]
    BY <1>1, <1>2, ElementOfSeq
  <2>2. header[i].q.tenths \in Nat
    BY <2>1
  <2> QED BY <2>2 DEF Weight
<1> QED BY <1>2, <1>3

LEMMA ParsedIs ==
    ASSUME NEW header \in AcceptHeaders
    PROVE  \E o : IsOrderOf(o, header) /\ Parse(header) = [k \in DOMAIN header |-> Parsed(header, o[k])]
<1> DEFINE D == DOMAIN header
           R == {p \in D \X D : Heavier(Parsed(header, p[1]), Parsed(header, p[2]))}
           InRank(s) == \A i, j \in DOMAIN s : i < j => <<s[i], s[j]>> \in R
           order == CHOOSE s \in SetToSeqs(D) : InRank(s)
<1>1. Parse(header) = [k \in DOMAIN order |-> Parsed(header, order[k])]
  BY DEF Parse, ArrangedBy
<1>2. \A i, j \in D : Heavier(Parsed(header, i), Parsed(header, j)) <=> BetterEntry(header, i, j)
  <2> TAKE i, j \in D
  <2> DEFINE p == Parsed(header, i)
             q == Parsed(header, j)
  <2>1. p.weight = Weight(header[i]) /\ p.index = i /\ q.weight = Weight(header[j]) /\ q.index = j
    BY DEF Parsed
  <2> HIDE DEF p, q, D
  <2>2. Heavier(p, q) <=> BetterEntry(header, i, j)
    BY <2>1 DEF Heavier, BetterEntry
  <2> QED BY <2>2 DEF p, q
<1>3. Len(header) \in Nat /\ D = 1 .. Len(header) /\ \A i \in D : Weight(header[i]) \in Nat
  BY HeaderFields
<1>4. IsFiniteSet(D) /\ Cardinality(D) = Len(header)
  <2> DEFINE n == Len(header)
  <2>1. n \in Nat /\ D = 1 .. n
    BY <1>3
  <2> HIDE DEF n, D
  <2>2. IsFiniteSet(1 .. n) /\ Cardinality(1 .. n) = n
    BY <2>1, FS_Interval
  <2>3. IsFiniteSet(D) /\ Cardinality(D) = n
    BY <2>1, <2>2
  <2> QED BY <2>3 DEF n
<1>5. \A i, j \in D : <<i, j>> \in R <=> BetterEntry(header, i, j)
  <2>1. \A i, j \in D : <<i, j>> \in R <=> Heavier(Parsed(header, i), Parsed(header, j))
    OBVIOUS
  <2> QED BY <1>2, <2>1
<1> HIDE DEF D, R
<1>6. \A i, j \in D : i # j => BetterEntry(header, i, j) \/ BetterEntry(header, j, i)
  BY <1>3 DEF BetterEntry
<1>7. \A i, j, k \in D : BetterEntry(header, i, j) /\ BetterEntry(header, j, k) => BetterEntry(header, i, k)
  BY <1>3 DEF BetterEntry
<1>8. PICK s \in SetToSeqs(D) : \A i, j \in DOMAIN s : i < j => <<s[i], s[j]>> \in R
  <2>1. \A i, j \in D : i # j => <<i, j>> \in R \/ <<j, i>> \in R
    BY <1>5, <1>6
  <2>2. \A i, j, k \in D : <<i, j>> \in R /\ <<j, k>> \in R => <<i, k>> \in R
    BY <1>5, <1>7
  <2> QED BY <1>4, <2>1, <2>2, Arranged
<1>9. InRank(s)
  BY <1>8
<1> HIDE DEF InRank
<1>10. order \in SetToSeqs(D) /\ InRank(order)
  BY <1>8, <1>9
<1> HIDE DEF order
<1>11. order \in [D -> D] /\ \A k \in D : \E i \in D : order[i] = k
  <2> DEFINE m == Cardinality(D)
  <2>1. order \in [1 .. m -> D] /\ \A k \in D : \E i \in 1 .. m : order[i] = k
    BY <1>4, <1>10, ArrangementHasAll
  <2>2. 1 .. m = D
    BY <1>3, <1>4
  <2> HIDE DEF m
  <2> QED BY <2>1, <2>2
<1>12. \A i, j \in D : i < j => BetterEntry(header, order[i], order[j])
  BY <1>5, <1>10, <1>11 DEF InRank
<1>13. IsOrderOf(order, header)
  BY <1>11, <1>12 DEF IsOrderOf, D
<1> QED BY <1>1, <1>11, <1>13 DEF D

(* A renderer comes with its best entry of the header.                       *)
LEMMA SupportedAlike ==
    ASSUME NEW r, NEW header, NEW i
    PROVE  /\ Supports(r, Parsed(header, i)) <=> Supports(r, header[i])
           /\ Direct(r, Parsed(header, i)) <=> Direct(r, header[i])
           /\ FullType(Parsed(header, i)) = FullType(header[i])
<1>1. Parsed(header, i).type = header[i].type /\ Parsed(header, i).subtype = header[i].subtype
  BY DEF Parsed
<1> QED BY <1>1 DEF Supports, Compatible, Direct, Identical, FullType

LEMMA ComesAt ==
    ASSUME NEW r, NEW n \in Nat, NEW types, Len(types) = n
    PROVE  /\ ComesWith(r, types) \in 0 .. n
           /\ ComesWith(r, types) = 0 <=> \A i \in 1 .. n : ~Supports(r, types[i])
           /\ ComesWith(r, types) # 0 =>
                 /\ Supports(r, types[ComesWith(r, types)])
                 /\ \A i \in 1 .. n : Supports(r, types[i]) => ComesWith(r, types) <= i
<1> DEFINE I == {i \in 1 .. n : Supports(r, types[i])}
           c == IF I # {} THEN Min(I) ELSE 0
<1>1. ComesWith(r, types) = c
  BY DEF ComesWith, SelectInSeq
<1>2. I # {} => Min(I) \in I /\ \A i \in I : Min(I) <= i
  <2>1. I \subseteq Nat
    OBVIOUS
  <2> HIDE DEF I
  <2> QED BY <2>1, Smallest
<1>3. I # {} => c \in I /\ \A i \in I : c <= i
  BY <1>2
<1>4. I = {} => c = 0
  OBVIOUS
<1> HIDE DEF c
<1> QED BY <1>1, <1>3, <1>4

LEMMA ComesWithBest ==
    ASSUME NEW header \in AcceptHeaders, NEW r, NEW o, IsOrderOf(o, header),
           Parse(header) = [k \in DOMAIN header |-> Parsed(header, o[k])], NEW c, c = ComesWith(r, Parse(header))
    PROVE  /\ c = 0 <=> Admits(header, r) = {}
           /\ c # 0 => /\ c \in DOMAIN header /\ o[c] = BestEntry(header, r)
                       /\ FullType(Parse(header)[c]) = FullType(header[o[c]])
                       /\ IsNamed(r, Parse(header)) <=> Direct(r, header[o[c]])
<1> DEFINE n == Len(header)
           types == Parse(header)
<1>1. n \in Nat /\ DOMAIN header = 1 .. n /\ \A i \in 1 .. n : Weight(header[i]) \in Nat
  BY HeaderFields
<1>2. /\ o \in [1 .. n -> 1 .. n] /\ \A k \in 1 .. n : \E i \in 1 .. n : o[i] = k
      /\ \A i, j \in 1 .. n : i < j => BetterEntry(header, o[i], o[j])
  BY <1>1 DEF IsOrderOf
<1>3. \A i \in 1 .. n : types[i] = Parsed(header, o[i])
  BY <1>1
<1>4. Len(types) = n
  BY <1>1
<1> HIDE DEF types, n
<1>5. /\ c \in 0 .. n /\ (c = 0 <=> \A i \in 1 .. n : ~Supports(r, types[i]))
      /\ c # 0 => /\ Supports(r, types[c])
                  /\ \A i \in 1 .. n : Supports(r, types[i]) => c <= i
  BY <1>1, <1>4, ComesAt DEF types
<1>6. \A i \in 1 .. n : Supports(r, types[i]) <=> Supports(r, header[o[i]])
  BY <1>3, SupportedAlike
<1>7. Admits(header, r) = {i \in 1 .. n : Supports(r, header[i])}
  BY <1>1 DEF Admits
<1>8. c = 0 <=> Admits(header, r) = {}
  <2>1. (\A i \in 1 .. n : ~Supports(r, types[i])) <=> \A k \in 1 .. n : ~Supports(r, header[k])
    <3>1. ASSUME \A i \in 1 .. n : ~Supports(r, types[i]), NEW k \in 1 .. n PROVE ~Supports(r, header[k])
      <4>1. PICK i \in 1 .. n : o[i] = k
        BY <1>2
      <4> QED BY <1>6, <3>1, <4>1
    <3>2. ASSUME \A k \in 1 .. n : ~Supports(r, header[k]), NEW i \in 1 .. n PROVE ~Supports(r, types[i])
      <4>1. o[i] \in 1 .. n
        BY <1>2
      <4> QED BY <1>6, <3>2, <4>1
    <3> QED BY <3>1, <3>2
  <2> QED BY <1>5, <1>7, <2>1
<1>9. ASSUME c # 0
      PROVE  /\ c \in DOMAIN header /\ o[c] = BestEntry(header, r)
             /\ FullType(types[c]) = FullType(header[o[c]])
             /\ IsNamed(r, types) <=> Direct(r, header[o[c]])
  <2>0. c \in 1 .. n
    BY <1>1, <1>5, <1>9
  <2>1. c \in 1 .. n /\ o[c] \in 1 .. n
    BY <1>2, <2>0
  <2>2. o[c] \in Admits(header, r)
    BY <1>5, <1>6, <1>7, <1>9, <2>1
  <2>3. ASSUME NEW j \in Admits(header, r), j # o[c] PROVE BetterEntry(header, o[c], j)
    <3>1. PICK i \in 1 .. n : o[i] = j
      BY <1>2, <1>7
    <3>2. c <= i /\ i # c
      BY <1>5, <1>6, <1>7, <1>9, <2>3, <3>1
    <3>3. c < i
      BY <2>1, <3>2
    <3> QED BY <1>2, <2>1, <3>1, <3>3
  <2> DEFINE IsBest(i) == \A j \in Admits(header, r) \ {i} : BetterEntry(header, i, j)
  <2>4. IsBest(o[c])
    BY <2>3
  <2>5. ASSUME NEW i \in Admits(header, r), IsBest(i) PROVE i = o[c]
    <3>1. SUFFICES ASSUME i # o[c] PROVE FALSE
      OBVIOUS
    <3>2. BetterEntry(header, i, o[c]) /\ BetterEntry(header, o[c], i)
      BY <2>2, <2>3, <2>5, <3>1
    <3>3. i \in 1 .. n
      BY <1>7
    <3> QED BY <1>1, <2>1, <3>2, <3>3 DEF BetterEntry
  <2>6. BestEntry(header, r) = CHOOSE i \in Admits(header, r) : IsBest(i)
    BY DEF BestEntry
  <2> HIDE DEF IsBest
  <2>7. BestEntry(header, r) = o[c]
    BY <2>2, <2>4, <2>5, <2>6
  <2>8. types[c] = Parsed(header, o[c])
    BY <1>3, <2>1
  <2>9. IsNamed(r, types) <=> Direct(r, types[c])
    BY DEF IsNamed, types
  <2> QED BY <1>1, <2>1, <2>7, <2>8, <2>9, SupportedAlike
<1> QED BY <1>8, <1>9 DEF types

(* The renderers that are left for accepted types, those that come first     *)
(* first, when some could not be injected.                                   *)
Able(types) == {r \in ToSet(Renderers) : ComesWith(r, types) # 0}
AsSoon(a, b, types) ==
    \/ ComesWith(a, types) < ComesWith(b, types)
    \/ ComesWith(a, types) = ComesWith(b, types) /\ (IsNamed(b, types) => IsNamed(a, types))
LeftInOrder(left, broken, types) ==
    /\ left \in Seq(DOMAIN RendererTypes) /\ Len(left) > 0
    /\ Able(types) = {} => Len(left) = 1 /\ left[1] = DefaultRenderer
    /\ Able(types) # {} =>
          /\ \A i \in 1 .. Len(left) : left[i] \in Able(types)
          /\ \A r \in Able(types) \ broken : \E i \in 1 .. Len(left) : left[i] = r
          /\ \A i, j \in 1 .. Len(left) : i < j => AsSoon(left[i], left[j], types)

LEMMA ComesIsNat ==
    ASSUME NEW header \in AcceptHeaders, NEW r
    PROVE  ComesWith(r, Parse(header)) \in Nat
<1>1. PICK o : IsOrderOf(o, header) /\ Parse(header) = [k \in DOMAIN header |-> Parsed(header, o[k])]
  BY ParsedIs
<1>2. Len(header) \in Nat /\ DOMAIN header = 1 .. Len(header)
  BY HeaderFields
<1>3. ComesWith(r, Parse(header)) = 0 \/ ComesWith(r, Parse(header)) \in DOMAIN header
  BY <1>1, ComesWithBest
<1> QED BY <1>2, <1>3

LEMMA SoonerIsTotal ==
    ASSUME NEW header \in AcceptHeaders, NEW i \in Nat, NEW j \in Nat, NEW k \in Nat
    PROVE  /\ i # j => Sooner(i, j, Parse(header)) \/ Sooner(j, i, Parse(header))
           /\ Sooner(i, j, Parse(header)) /\ Sooner(j, k, Parse(header)) => Sooner(i, k, Parse(header))
           /\ Sooner(i, j, Parse(header)) => AsSoon(Renderers[i], Renderers[j], Parse(header))
<1> DEFINE types == Parse(header)
           C(x) == ComesWith(Renderers[x], types)
           N(x) == IsNamed(Renderers[x], types)
<1>1. C(i) \in Nat /\ C(j) \in Nat /\ C(k) \in Nat
  BY ComesIsNat
<1>2. \A x, y : Sooner(x, y, types) <=>
                  C(x) < C(y) \/ (C(x) = C(y) /\ ((N(x) /\ ~N(y)) \/ (N(x) = N(y) /\ x < y)))
  BY DEF Sooner
<1>3. AsSoon(Renderers[i], Renderers[j], types) <=> C(i) < C(j) \/ (C(i) = C(j) /\ (N(j) => N(i)))
  BY DEF AsSoon
<1>4. N(i) \in BOOLEAN /\ N(j) \in BOOLEAN /\ N(k) \in BOOLEAN
  BY DEF IsNamed, Direct
<1> HIDE DEF types, C, N
<1>5. i # j => Sooner(i, j, types) \/ Sooner(j, i, types)
  BY <1>1, <1>2, <1>4
<1>6. Sooner(i, j, types) /\ Sooner(j, k, types) => Sooner(i, k, types)
  <2>1. Sooner(i, j, types) <=> C(i) < C(j) \/ (C(i) = C(j) /\ ((N(i) /\ ~N(j)) \/ (N(i) = N(j) /\ i < j)))
    BY <1>2
  <2>2. Sooner(j, k, types) <=> C(j) < C(k) \/ (C(j) = C(k) /\ ((N(j) /\ ~N(k)) \/ (N(j) = N(k) /\ j < k)))
    BY <1>2
  <2>3. Sooner(i, k, types) <=> C(i) < C(k) \/ (C(i) = C(k) /\ ((N(i) /\ ~N(k)) \/ (N(i) = N(k) /\ i < k)))
    BY <1>2
  <2> QED BY <1>1, <1>4, <2>1, <2>2, <2>3
<1>7. Sooner(i, j, types) => AsSoon(Renderers[i], Renderers[j], types)
  BY <1>2, <1>3
<1> QED BY <1>5, <1>6, <1>7 DEF types

LEMMA SelectionFits ==
    ASSUME NEW header \in AcceptHeaders
    PROVE  LeftInOrder(Selection(Parse(header)), {}, Parse(header))
<1> DEFINE types == Parse(header)
           D == 1 .. Len(Renderers)
           S == {i \in DOMAIN Renderers : ComesWith(Renderers[i], types) # 0}
           R == {p \in S \X S : Sooner(p[1], p[2], types)}
           InRank(s) == \A i, j \in DOMAIN s : i < j => <<s[i], s[j]>> \in R
           chosen == CHOOSE s \in SetToSeqs(S) : InRank(s)
           m == Cardinality(S)
<1>1. Len(Renderers) \in Nat /\ DOMAIN Renderers = D /\ \A i \in D : Renderers[i] \in DOMAIN RendererTypes
  <2>1. Renderers \in Seq(DOMAIN RendererTypes)
    BY NegotiationAssumption
  <2> QED BY <2>1, LenProperties, ElementOfSeq
<1>2. S \subseteq D /\ S \subseteq Nat /\ IsFiniteSet(S)
  <2>1. S \subseteq D
    BY <1>1
  <2>2. IsFiniteSet(D)
    <3> DEFINE last == Len(Renderers)
    <3>1. 1 \in Int /\ last \in Int
      BY <1>1
    <3> HIDE DEF last
    <3>2. IsFiniteSet(1 .. last)
      BY <3>1, FS_Interval
    <3> QED BY <3>2 DEF last
  <2>3. D \subseteq Nat
    BY <1>1
  <2> HIDE DEF S, D
  <2>4. S \in SUBSET D
    BY <2>1
  <2> QED BY <2>2, <2>3, <2>4, FS_Subset
<1>3. SelectRenderers(types) = [k \in DOMAIN chosen |-> Renderers[chosen[k]]]
  BY DEF SelectRenderers, ArrangedBy
<1>4. \A i, j \in S : <<i, j>> \in R <=> Sooner(i, j, types)
  OBVIOUS
<1>5. Able(types) = {Renderers[i] : i \in S}
  BY <1>1 DEF Able, ToSet
<1> HIDE DEF S, R
<1>6. PICK s \in SetToSeqs(S) : \A i, j \in DOMAIN s : i < j => <<s[i], s[j]>> \in R
  <2>1. \A i, j \in S : i # j => <<i, j>> \in R \/ <<j, i>> \in R
    BY <1>2, <1>4, SoonerIsTotal
  <2>2. \A i, j, k \in S : <<i, j>> \in R /\ <<j, k>> \in R => <<i, k>> \in R
    <3>1. ASSUME NEW i \in S, NEW j \in S, NEW k \in S, Sooner(i, j, types), Sooner(j, k, types)
          PROVE  Sooner(i, k, types)
      BY <1>2, <3>1, SoonerIsTotal
    <3> QED BY <1>4, <3>1
  <2> QED BY <1>2, <2>1, <2>2, Arranged
<1>7. m \in Nat /\ s \in [1 .. m -> S]
  BY <1>2, ArrangementHasAll
<1>8. InRank(s)
  BY <1>6
<1> HIDE DEF InRank
<1>9. chosen \in SetToSeqs(S) /\ InRank(chosen)
  BY <1>6, <1>8
<1>10. chosen \in [1 .. m -> S] /\ \A i \in S : \E k \in 1 .. m : chosen[k] = i
  <2> HIDE DEF chosen
  <2> QED BY <1>2, <1>9, ArrangementHasAll
<1>11. \A i, j \in 1 .. m : i < j => AsSoon(Renderers[chosen[i]], Renderers[chosen[j]], types)
  <2> SUFFICES ASSUME NEW i \in 1 .. m, NEW j \in 1 .. m, i < j
               PROVE  AsSoon(Renderers[chosen[i]], Renderers[chosen[j]], types)
    OBVIOUS
  <2> HIDE DEF chosen, m
  <2>1. chosen[i] \in S /\ chosen[j] \in S /\ <<chosen[i], chosen[j]>> \in R
    BY <1>9, <1>10 DEF InRank
  <2>2. Sooner(chosen[i], chosen[j], types) /\ chosen[i] \in Nat /\ chosen[j] \in Nat
    BY <1>2, <1>4, <2>1
  <2> QED BY <2>2, SoonerIsTotal
<1> DEFINE selected == SelectRenderers(types)
<1> HIDE DEF chosen, m
<1>12. DOMAIN selected = 1 .. m /\ \A k \in 1 .. m : selected[k] = Renderers[chosen[k]]
  BY <1>3, <1>10
<1>13. selected \in Seq(DOMAIN RendererTypes) /\ Len(selected) = m
  <2>1. \A k \in 1 .. m : selected[k] \in DOMAIN RendererTypes
    BY <1>1, <1>2, <1>10, <1>12
  <2>2. selected = [k \in 1 .. m |-> Renderers[chosen[k]]]
    BY <1>3, <1>10
  <2> HIDE DEF selected
  <2>3. selected \in [1 .. m -> DOMAIN RendererTypes]
    BY <1>12, <2>1, <2>2
  <2> QED BY <1>7, <2>3, SeqDef, LenProperties
<1> HIDE DEF selected, types
<1>14. m = 0 <=> selected = <<>>
  BY <1>13, EmptySeq
<1>15. Selection(types) = IF m = 0 THEN <<DefaultRenderer>> ELSE selected
  BY <1>14 DEF Selection, selected
<1>16. m = 0 <=> Able(types) = {}
  <2>1. ASSUME m = 0 PROVE S = {}
    <3>1. 1 .. m = {}
      BY <2>1
    <3> QED BY <1>10, <3>1
  <2>2. ASSUME m # 0 PROVE S # {}
    <3>1. 1 \in 1 .. m
      BY <1>7, <2>2
    <3> QED BY <1>10, <3>1
  <2> QED BY <1>5, <2>1, <2>2
<1>17. CASE m = 0
  <2>1. Selection(types) = <<DefaultRenderer>> /\ DefaultRenderer \in DOMAIN RendererTypes
    BY <1>15, <1>17, NegotiationAssumption
  <2>2. Selection(types) \in Seq(DOMAIN RendererTypes) /\ Len(Selection(types)) = 1 /\ Selection(types)[1] = DefaultRenderer
    BY <2>1
  <2>3. Able(types) = {}
    BY <1>16, <1>17
  <2> QED BY <2>2, <2>3 DEF LeftInOrder, types
<1>18. CASE m # 0
  <2>1. Selection(types) = selected /\ Able(types) # {} /\ m > 0
    BY <1>7, <1>15, <1>16, <1>18
  <2>2. \A i \in 1 .. m : selected[i] \in Able(types)
    BY <1>5, <1>10, <1>12
  <2>3. \A r \in Able(types) : \E i \in 1 .. m : selected[i] = r
    BY <1>5, <1>10, <1>12
  <2>4. \A i, j \in 1 .. m : i < j => AsSoon(selected[i], selected[j], types)
    BY <1>11, <1>12
  <2> QED BY <1>13, <2>1, <2>2, <2>3, <2>4 DEF LeftInOrder, types
<1> QED BY <1>17, <1>18

(* What BestRendererAnswers says of one that renders, and of its type.       *)
Answers(h, broken, by, as) ==
    LET able == {r \in ToSet(Renderers) : Admits(h, r) # {}}
        entry == BestEntry(h, by)
    IN IF able = {} THEN by = DefaultRenderer /\ as = DefaultTypeOf[DefaultRenderer]
       ELSE /\ by \in able
            /\ as \in {FullType(h[entry]), DefaultTypeOf[by]}
            /\ \A r \in able \ broken :
                 /\ ~BetterEntry(h, BestEntry(h, r), entry)
                 /\ BestEntry(h, r) = entry /\ Direct(r, h[entry]) => Direct(by, h[entry])

LEMMA FirstIsBest ==
    ASSUME NEW h \in AcceptHeaders, NEW left, NEW broken, LeftInOrder(left, broken, Parse(h))
    PROVE  Answers(h, broken, left[1], ContentType(left[1], Parse(h)))
<1> DEFINE types == Parse(h)
           by == left[1]
           as == ContentType(by, types)
           able == {r \in ToSet(Renderers) : Admits(h, r) # {}}
<1>1. PICK o : IsOrderOf(o, h) /\ types = [k \in DOMAIN h |-> Parsed(h, o[k])]
  BY ParsedIs
<1>2. Len(h) \in Nat /\ DOMAIN h = 1 .. Len(h) /\ \A i \in DOMAIN h : Weight(h[i]) \in Nat
  BY HeaderFields
<1>3. ASSUME NEW r
      PROVE  /\ ComesWith(r, types) = 0 <=> Admits(h, r) = {}
             /\ ComesWith(r, types) # 0 =>
                   /\ ComesWith(r, types) \in DOMAIN h /\ o[ComesWith(r, types)] = BestEntry(h, r)
                   /\ FullType(types[ComesWith(r, types)]) = FullType(h[BestEntry(h, r)])
                   /\ IsNamed(r, types) <=> Direct(r, h[BestEntry(h, r)])
  BY <1>1, ComesWithBest
<1>4. able = Able(types)
  BY <1>3 DEF Able
<1>5. /\ o \in [DOMAIN h -> DOMAIN h]
      /\ \A i, j \in DOMAIN h : i < j => BetterEntry(h, o[i], o[j])
  BY <1>1 DEF IsOrderOf
<1>6. LeftInOrder(left, broken, types) /\ as = ContentType(by, types)
  OBVIOUS
<1> HIDE DEF types, by, as, able
<1>7. CASE able = {}
  <2>1. by = DefaultRenderer
    BY <1>4, <1>6, <1>7 DEF LeftInOrder, by
  <2>2. ComesWith(by, types) = 0
    <3>1. CASE DefaultRenderer \in ToSet(Renderers)
      BY <1>3, <1>7, <2>1, <3>1 DEF able
    <3>2. CASE RendererTypes[DefaultRenderer] = <<>>
      <4>1. DOMAIN RendererTypes[by] = {}
        <5>1. RendererTypes[by] = <<>>
          BY <2>1, <3>2
        <5>2. RendererTypes[by] \in Seq({}) /\ Len(RendererTypes[by]) = 0
          BY <5>1, EmptySeq
        <5> QED BY <5>2, LenProperties
      <4>2. Admits(h, by) = {}
        BY <4>1 DEF Admits, Supports
      <4> QED BY <1>3, <4>2
    <3> QED BY <3>1, <3>2, NegotiationAssumption
  <2>3. as = DefaultTypeOf[DefaultRenderer]
    BY <1>6, <2>1, <2>2 DEF ContentType
  <2> QED BY <1>7, <2>1, <2>3 DEF Answers, able, by, as, types
<1>8. CASE able # {}
  <2> DEFINE entry == BestEntry(h, by)
             n == Len(left)
  <2>1. /\ n > 0 /\ n \in Nat /\ \A i \in 1 .. n : left[i] \in able
        /\ \A r \in able \ broken : \E i \in 1 .. n : left[i] = r
        /\ \A i, j \in 1 .. n : i < j => AsSoon(left[i], left[j], types)
    <3>1. left \in Seq(DOMAIN RendererTypes)
      BY <1>6 DEF LeftInOrder
    <3>2. n \in Nat
      BY <3>1, LenProperties
    <3> QED BY <1>4, <1>6, <1>8, <3>2 DEF LeftInOrder
  <2>2. by \in able
    BY <2>1 DEF by
  <2>3. ComesWith(by, types) # 0
    BY <1>4, <2>2 DEF Able
  <2> HIDE DEF n
  <2>4. as \in {FullType(h[entry]), DefaultTypeOf[by]}
    <3>1. as \in {FullType(types[ComesWith(by, types)]), DefaultTypeOf[by]}
      BY <1>6 DEF ContentType
    <3> QED BY <1>3, <2>3, <3>1
  <2> HIDE DEF entry
  <2>5. ASSUME NEW r \in able \ broken
        PROVE  /\ ~BetterEntry(h, BestEntry(h, r), entry)
               /\ BestEntry(h, r) = entry /\ Direct(r, h[entry]) => Direct(by, h[entry])
    <3>1. PICK i \in 1 .. n : left[i] = r
      BY <2>1
    <3>2. ComesWith(r, types) # 0
      BY <1>4 DEF Able
    <3>3. r = by \/ AsSoon(by, r, types)
      <4>1. i = 1 \/ 1 < i
        BY <2>1, <3>1
      <4>2. 1 \in 1 .. n
        BY <2>1
      <4> QED BY <2>1, <3>1, <4>1, <4>2 DEF by
    <3> DEFINE c == ComesWith(by, types)
               d == ComesWith(r, types)
               e == BestEntry(h, r)
    <3>4. /\ c \in DOMAIN h /\ o[c] = entry /\ d \in DOMAIN h /\ o[d] = e /\ entry \in DOMAIN h /\ e \in DOMAIN h
      <4>1. c \in DOMAIN h /\ o[c] = entry
        BY <1>3, <2>3 DEF entry
      <4>2. d \in DOMAIN h /\ o[d] = e
        BY <1>3, <3>2
      <4> HIDE DEF c, d, e
      <4> QED BY <1>5, <4>1, <4>2
    <3>5. (IsNamed(by, types) <=> Direct(by, h[entry])) /\ (IsNamed(r, types) <=> Direct(r, h[e]))
      BY <1>3, <2>3, <3>2 DEF entry
    <3>6. ~BetterEntry(h, entry, entry)
      BY <1>2, <3>4 DEF BetterEntry
    <3>7. AsSoon(by, r, types) <=> c < d \/ (c = d /\ (IsNamed(r, types) => IsNamed(by, types)))
      BY DEF AsSoon
    <3> HIDE DEF c, d
    <3>8. CASE r = by
      BY <3>6, <3>8 DEF entry
    <3>9. CASE c < d
      <4>1. BetterEntry(h, entry, e)
        BY <1>5, <3>4, <3>9
      <4>2. ~BetterEntry(h, e, entry)
        BY <1>2, <3>4, <4>1 DEF BetterEntry
      <4>3. e # entry
        BY <3>6, <4>1
      <4> QED BY <4>2, <4>3
    <3>10. CASE c = d /\ (IsNamed(r, types) => IsNamed(by, types))
      <4>1. e = entry
        BY <3>4, <3>10
      <4> QED BY <3>5, <3>6, <3>10, <4>1
    <3> QED BY <3>3, <3>7, <3>8, <3>9, <3>10
  <2> QED BY <1>8, <2>2, <2>4, <2>5 DEF Answers, able, entry, by, as, types
<1> QED BY <1>7, <1>8

(* Negotiation: what is left of a selection is in order.                     *)
Askings == [pc : {"selected", "failed"}, header : AcceptHeaders, types : {Parse(h) : h \in AcceptHeaders},
            left : Seq(DOMAIN RendererTypes), broken : SUBSET DOMAIN RendererTypes]
NegotiationInv ==
    /\ asking.pc = "selected" =>
          /\ asking.header \in AcceptHeaders /\ asking.types = Parse(asking.header)
          /\ asking \in Askings
          /\ LeftInOrder(asking.left, asking.broken, asking.types)
    /\ BestRendererAnswers

LEMMA NegotiationBegins == NegotiationInit => NegotiationInv
<1> SUFFICES ASSUME NegotiationInit PROVE NegotiationInv
  OBVIOUS
<1>1. asking.pc = "idle"
  BY DEF NegotiationInit, Idle
<1> QED BY <1>1 DEF NegotiationInv, BestRendererAnswers

LEMMA SelectStep ==
    ASSUME NegotiationInv, NEW h \in AcceptHeaders, Select(h)
    PROVE  NegotiationInv'
<1> DEFINE types == Parse(h)
           selection == Selection(types)
<1>1. asking' = [pc |-> "selected", header |-> h, types |-> types, left |-> selection, broken |-> {}]
  BY DEF Select
<1>2. LeftInOrder(selection, {}, types)
  BY SelectionFits
<1> HIDE DEF selection
<1>3. /\ asking'.pc = "selected" /\ asking'.header = h /\ asking'.types = Parse(asking'.header)
      /\ asking'.header \in AcceptHeaders /\ asking' \in Askings
      /\ LeftInOrder(asking'.left, asking'.broken, asking'.types)
  <2>1. selection \in Seq(DOMAIN RendererTypes) /\ types \in {Parse(g) : g \in AcceptHeaders}
    BY <1>2 DEF LeftInOrder
  <2>2. asking' \in Askings
    BY <1>1, <2>1 DEF Askings
  <2> QED BY <1>1, <1>2, <2>2
<1>4. BestRendererAnswers'
  BY <1>3 DEF BestRendererAnswers
<1> QED BY <1>3, <1>4 DEF NegotiationInv

LEMMA InjectFailsStep ==
    ASSUME NegotiationInv, InjectFails
    PROVE  NegotiationInv'
<1> DEFINE h == asking.header
           types == asking.types
           left == asking.left
           broken == asking.broken
           rest == Tail(left)
           passed == broken \cup {left[1]}
           n == Len(left)
<1>1. /\ h \in AcceptHeaders /\ types = Parse(h) /\ LeftInOrder(left, broken, types)
      /\ asking \in Askings /\ asking.pc = "selected"
  BY DEF NegotiationInv, InjectFails
<1>3. /\ asking' \in Askings /\ asking'.header = h /\ asking'.types = types
      /\ asking'.left = rest /\ asking'.broken = passed /\ asking'.pc = IF n = 1 THEN "failed" ELSE "selected"
  <2>1. asking' = [asking EXCEPT !.left = Tail(@), !.broken = @ \cup {Head(left)},
                                 !.pc = IF n = 1 THEN "failed" ELSE "selected"]
    BY DEF InjectFails
  <2>2. left \in Seq(DOMAIN RendererTypes) /\ n > 0
    BY <1>1 DEF LeftInOrder
  <2>3. left # <<>>
    BY <2>2, EmptySeq
  <2>4. Head(left) = left[1] /\ Tail(left) \in Seq(DOMAIN RendererTypes) /\ left[1] \in DOMAIN RendererTypes
    <3>1. Tail(left) \in Seq(DOMAIN RendererTypes)
      BY <2>2, <2>3, HeadTailProperties
    <3>2. left[1] \in DOMAIN RendererTypes
      BY <2>2, LenProperties, ElementOfSeq
    <3>3. Head(left) = left[1]
      BY <2>2, <2>3
    <3> QED BY <3>1, <3>2, <3>3
  <2> DEFINE pc == IF n = 1 THEN "failed" ELSE "selected"
  <2>5. asking' = [asking EXCEPT !.left = rest, !.broken = passed, !.pc = pc]
    BY <2>1, <2>4
  <2>6. pc \in {"selected", "failed"} /\ rest \in Seq(DOMAIN RendererTypes) /\ passed \in SUBSET DOMAIN RendererTypes
    BY <1>1, <2>4 DEF Askings
  <2> HIDE DEF pc, rest, passed
  <2>7. asking' \in Askings
    BY <1>1, <2>5, <2>6 DEF Askings
  <2>8. /\ asking'.header = h /\ asking'.types = types
        /\ asking'.left = rest /\ asking'.broken = passed /\ asking'.pc = pc
    BY <1>1, <2>5 DEF Askings
  <2> QED BY <2>7, <2>8 DEF pc
<1> HIDE DEF h, types, left, broken
<1>4. left \in Seq(DOMAIN RendererTypes) /\ n > 0 /\ n \in Nat /\ left # <<>>
  <2>1. left \in Seq(DOMAIN RendererTypes) /\ n > 0
    BY <1>1 DEF LeftInOrder
  <2> QED BY <2>1, LenProperties, EmptySeq
<1>5. rest \in Seq(DOMAIN RendererTypes) /\ Len(rest) = n - 1 /\ \A i \in 1 .. n - 1 : rest[i] = left[i + 1]
  BY <1>4, HeadTailProperties
<1> HIDE DEF rest, n
<1>6. Able(types) # {} =>
          /\ \A i \in 1 .. n : left[i] \in Able(types)
          /\ \A r \in Able(types) \ broken : \E i \in 1 .. n : left[i] = r
          /\ \A i, j \in 1 .. n : i < j => AsSoon(left[i], left[j], types)
  BY <1>1 DEF LeftInOrder, n
<1>7. Able(types) = {} => n = 1
  BY <1>1 DEF LeftInOrder, n
<1>8. \A r \in Able(types) \ passed : \E i \in 1 .. n - 1 : rest[i] = r
  <2> SUFFICES ASSUME NEW r \in Able(types) \ passed PROVE \E i \in 1 .. n - 1 : rest[i] = r
    OBVIOUS
  <2>1. PICK i \in 1 .. n : left[i] = r
    BY <1>6
  <2>2. i # 1
    BY <2>1
  <2>3. i - 1 \in 1 .. n - 1 /\ (i - 1) + 1 = i
    BY <1>4, <2>2
  <2> QED BY <1>5, <2>1, <2>3
<1>10. CASE n = 1
  <2>1. asking'.pc = "failed" /\ asking'.header = h /\ asking'.broken = passed
    BY <1>3, <1>10
  <2>2. Able(types) \subseteq passed
    BY <1>8, <1>10
  <2>3. Able(types) = {r \in ToSet(Renderers) : Admits(h, r) # {}}
    <3>1. PICK o : IsOrderOf(o, h) /\ Parse(h) = [k \in DOMAIN h |-> Parsed(h, o[k])]
      BY <1>1, ParsedIs
    <3>2. \A r : ComesWith(r, Parse(h)) = 0 <=> Admits(h, r) = {}
      BY <1>1, <3>1, ComesWithBest
    <3> QED BY <1>1, <3>2 DEF Able
  <2> HIDE DEF passed
  <2>4. BestRendererAnswers'
    BY <2>1, <2>2, <2>3 DEF BestRendererAnswers
  <2> QED BY <2>1, <2>4 DEF NegotiationInv
<1>11. CASE n # 1
  <2>1. asking'.pc = "selected"
    BY <1>3, <1>11
  <2>2. Able(types) # {} /\ Len(rest) > 0
    BY <1>4, <1>5, <1>7, <1>11
  <2>3. \A i \in 1 .. n - 1 : i + 1 \in 1 .. n /\ rest[i] = left[i + 1]
    BY <1>4, <1>5
  <2>4. \A i \in 1 .. n - 1 : rest[i] \in Able(types)
    BY <1>6, <2>2, <2>3
  <2>5. \A i, j \in 1 .. n - 1 : i < j => AsSoon(rest[i], rest[j], types)
    <3> SUFFICES ASSUME NEW i \in 1 .. n - 1, NEW j \in 1 .. n - 1, i < j PROVE AsSoon(rest[i], rest[j], types)
      OBVIOUS
    <3>1. i + 1 < j + 1
      BY <1>4
    <3> QED BY <1>6, <2>2, <2>3, <3>1
  <2> HIDE DEF passed
  <2>6. LeftInOrder(rest, passed, types)
    BY <1>5, <1>8, <2>2, <2>4, <2>5 DEF LeftInOrder
  <2>7. /\ asking'.pc = "selected" /\ asking'.header = h /\ asking'.types = types
        /\ asking'.left = rest /\ asking'.broken = passed
    BY <1>3, <2>1
  <2>8. BestRendererAnswers'
    BY <2>7 DEF BestRendererAnswers
  <2> QED BY <1>1, <1>3, <2>6, <2>7, <2>8 DEF NegotiationInv
<1> QED BY <1>10, <1>11

LEMMA RenderStep ==
    ASSUME NegotiationInv, Render
    PROVE  NegotiationInv'
<1> DEFINE h == asking.header
           left == asking.left
           broken == asking.broken
<1>1. h \in AcceptHeaders /\ asking.types = Parse(h) /\ LeftInOrder(left, broken, Parse(h))
  BY DEF NegotiationInv, Render
<1>2. Head(left) = left[1]
  <2>1. left \in Seq(DOMAIN RendererTypes) /\ Len(left) > 0
    BY <1>1 DEF LeftInOrder
  <2> QED BY <2>1, EmptySeq
<1>4. asking' = [pc |-> "rendered", header |-> h, broken |-> broken, by |-> left[1], as |-> ContentType(left[1], Parse(h))]
  BY <1>1, <1>2 DEF Render
<1> HIDE DEF h, left, broken
<1>5. /\ asking'.pc = "rendered" /\ asking'.header = h /\ asking'.broken = broken /\ asking'.by = left[1]
      /\ asking'.as = ContentType(left[1], Parse(h))
  BY <1>4
<1>6. BestRendererAnswers'
  <2>1. Answers(h, broken, left[1], ContentType(left[1], Parse(h)))
    BY <1>1, FirstIsBest
  <2> QED BY <1>5, <2>1 DEF BestRendererAnswers, Answers
<1> QED BY <1>5, <1>6 DEF NegotiationInv

(* Negotiation: whatever types renderers render and requests accept, with    *)
(* whatever weights, and whichever renderers cannot be injected: the renderer*)
(* that answers is one that could be injected and that no other such one     *)
(* precedes in what the request prefers, and the content type is the entry   *)
(* of the header that prefers it, or the renderer's default.                 *)
THEOREM BestRendererAnswersAlways == NegotiationSpec => []BestRendererAnswers
<1>1. NegotiationInit => NegotiationInv
  BY NegotiationBegins
<1>2. NegotiationInv /\ [NegotiationNext]_negotiationVars => NegotiationInv'
  <2> SUFFICES ASSUME NegotiationInv, [NegotiationNext]_negotiationVars PROVE NegotiationInv'
    OBVIOUS
  <2>1. CASE \E header \in AcceptHeaders : Select(header)
    BY <2>1, SelectStep
  <2>2. CASE InjectFails
    BY <2>2, InjectFailsStep
  <2>3. CASE Render
    BY <2>3, RenderStep
  <2>4. CASE UNCHANGED negotiationVars
    BY <2>4 DEF NegotiationInv, BestRendererAnswers, negotiationVars
  <2> QED BY <2>1, <2>2, <2>3, <2>4 DEF NegotiationNext
<1>3. NegotiationInv => BestRendererAnswers
  BY DEF NegotiationInv
<1> QED BY <1>1, <1>2, <1>3, PTL DEF NegotiationSpec
-------------------------------------------------------------------------------
(* Bodies.  The results of a form after each of its entries.                 *)
AfterEntry(entries, n, f) == IF n = 0 THEN <<>> ELSE AddEntry(f[n - 1], entries[n])
FormResults(entries, m, f) == f = [n \in 0 .. m |-> AfterEntry(entries, n, f)]

LEMMA ResultsExist ==
    ASSUME NEW entries, NEW m \in Nat
    PROVE  \E f : FormResults(entries, m, f)
<1> DEFINE S == {k \in Nat : \E f : FormResults(entries, k, f)}
<1>1. 0 \in S
  <2> DEFINE f == [n \in 0 .. 0 |-> <<>>]
  <2>1. f = [n \in 0 .. 0 |-> AfterEntry(entries, n, f)]
    BY DEF AfterEntry
  <2>2. FormResults(entries, 0, f)
    BY <2>1 DEF FormResults
  <2> QED BY <2>2
<1>2. ASSUME NEW k \in Nat, k \in S PROVE k + 1 \in S
  <2>1. PICK g : g = [n \in 0 .. k |-> AfterEntry(entries, n, g)]
    BY <1>2 DEF FormResults
  <2> DEFINE f == [n \in 0 .. k + 1 |-> IF n = k + 1 THEN AfterEntry(entries, n, g) ELSE g[n]]
  <2>2. \A n \in 0 .. k + 1 : f[n] = AfterEntry(entries, n, g)
    BY <1>2, <2>1
  <2>3. \A n \in 0 .. k + 1 : n # 0 => f[n - 1] = g[n - 1]
    BY <1>2
  <2>4. f = [n \in 0 .. k + 1 |-> f[n]]
    OBVIOUS
  <2> HIDE DEF f
  <2>5. \A n \in 0 .. k + 1 : AfterEntry(entries, n, f) = AfterEntry(entries, n, g)
    BY <2>3 DEF AfterEntry
  <2>6. f = [n \in 0 .. k + 1 |-> AfterEntry(entries, n, f)]
    BY <2>2, <2>4, <2>5
  <2>7. FormResults(entries, k + 1, f) /\ k + 1 \in Nat
    BY <2>6 DEF FormResults
  <2> QED BY <2>7
<1> HIDE DEF S
<1>3. Nat \subseteq S
  BY <1>1, <1>2, NatSetInduction
<1>4. m \in S
  BY <1>3
<1> QED BY <1>4 DEF S

(* The entries of a key with a value, up to n, and the values that are kept. *)
SentUpTo(entries, k, n) == {i \in 1 .. n : KeyOf(entries[i]) = k /\ ValueOf(entries[i]) # EmptyText}
ValuesIn(s) == {j \in DOMAIN s : s[j] # EmptyText}
PlacedBy(place, entries, k, n, s) ==
    /\ place \in [SentUpTo(entries, k, n) -> ValuesIn(s)]
    /\ \A j \in ValuesIn(s) : \E i \in SentUpTo(entries, k, n) : place[i] = j
    /\ \A i, j \in SentUpTo(entries, k, n) : i < j => place[i] < place[j]
    /\ \A i \in SentUpTo(entries, k, n) : s[place[i]] = ValueOf(entries[i])
Placed(entries, k, n, s) == \E place : PlacedBy(place, entries, k, n, s)

(* The first value of a key is placed.                                       *)
LEMMA FirstIsPlaced ==
    ASSUME NEW T, NEW entries, NEW n \in Nat, ValueOf(entries[n + 1]) \in T,
           SentUpTo(entries, KeyOf(entries[n + 1]), n) = {}
    PROVE  Placed(entries, KeyOf(entries[n + 1]), n + 1, <<ValueOf(entries[n + 1])>>)
<1> DEFINE k == KeyOf(entries[n + 1])
           v == ValueOf(entries[n + 1])
           s == <<v>>
           place == [i \in SentUpTo(entries, k, n + 1) |-> 1]
<1>1. DOMAIN s = {1} /\ s[1] = v
  BY Single
<1>2. \A i \in SentUpTo(entries, k, n + 1) : i = n + 1
  <2> SUFFICES ASSUME NEW i \in SentUpTo(entries, k, n + 1), i # n + 1 PROVE FALSE
    OBVIOUS
  <2>1. i \in 1 .. n /\ KeyOf(entries[i]) = k /\ ValueOf(entries[i]) # EmptyText
    BY DEF SentUpTo
  <2> QED BY <2>1 DEF SentUpTo
<1>3. SentUpTo(entries, k, n + 1) = {i \in {n + 1} : v # EmptyText}
  <2>1. n + 1 \in 1 .. n + 1
    OBVIOUS
  <2>2. \A i \in SentUpTo(entries, k, n + 1) : i = n + 1 /\ v # EmptyText
    BY <1>2 DEF SentUpTo
  <2>3. v # EmptyText => n + 1 \in SentUpTo(entries, k, n + 1)
    BY <2>1 DEF SentUpTo
  <2> QED BY <2>2, <2>3
<1>4. ValuesIn(s) = {j \in {1} : v # EmptyText}
  <2> HIDE DEF s
  <2> QED BY <1>1 DEF ValuesIn
<1> HIDE DEF s, v, k
<1>5. place \in [SentUpTo(entries, k, n + 1) -> ValuesIn(s)]
  BY <1>3, <1>4
<1>6. \A j \in ValuesIn(s) : \E i \in SentUpTo(entries, k, n + 1) : place[i] = j
  BY <1>3, <1>4
<1>7. \A i, j \in SentUpTo(entries, k, n + 1) : ~(i < j)
  BY <1>3
<1>8. \A i \in SentUpTo(entries, k, n + 1) : s[place[i]] = ValueOf(entries[i])
  BY <1>1, <1>3 DEF v
<1> HIDE DEF place
<1>9. PlacedBy(place, entries, k, n + 1, s)
  BY <1>5, <1>6, <1>7, <1>8 DEF PlacedBy
<1> QED BY <1>9 DEF Placed, k, s, v

(* A later value of a key is placed after those before it.                   *)
LEMMA LaterIsPlaced ==
    ASSUME NEW T, NEW entries, NEW n \in Nat, ValueOf(entries[n + 1]) \in T,
           NEW s \in Seq(T), Placed(entries, KeyOf(entries[n + 1]), n, s)
    PROVE  Placed(entries, KeyOf(entries[n + 1]), n + 1, Append(s, ValueOf(entries[n + 1])))
<1> DEFINE k == KeyOf(entries[n + 1])
           v == ValueOf(entries[n + 1])
           l == Len(s)
           t == Append(s, v)
           before == SentUpTo(entries, k, n)
           upToNow == SentUpTo(entries, k, n + 1)
<1>1. /\ l \in Nat /\ DOMAIN s = 1 .. l /\ DOMAIN t = 1 .. l + 1 /\ t[l + 1] = v
      /\ \A j \in 1 .. l : t[j] = s[j]
  BY AppendProperties, LenProperties
<1>2. PICK place : PlacedBy(place, entries, k, n, s)
  BY DEF Placed
<1>3. upToNow = before \cup {i \in {n + 1} : v # EmptyText} /\ before \subseteq 1 .. n
  <2>1. \A i \in upToNow : i \in before \/ (i = n + 1 /\ v # EmptyText)
    BY DEF SentUpTo
  <2>2. \A i \in before : i \in upToNow /\ i \in 1 .. n
    BY DEF SentUpTo
  <2>3. v # EmptyText => n + 1 \in upToNow
    BY DEF SentUpTo
  <2> QED BY <2>1, <2>2, <2>3
<1> HIDE DEF t, l
<1>4. ValuesIn(t) = ValuesIn(s) \cup {j \in {l + 1} : v # EmptyText} /\ ValuesIn(s) \subseteq 1 .. l
  <2>1. \A j \in ValuesIn(t) : j \in ValuesIn(s) \/ (j = l + 1 /\ v # EmptyText)
    BY <1>1 DEF ValuesIn
  <2>2. \A j \in ValuesIn(s) : j \in ValuesIn(t) /\ j \in 1 .. l
    BY <1>1 DEF ValuesIn
  <2>3. v # EmptyText => l + 1 \in ValuesIn(t)
    BY <1>1 DEF ValuesIn
  <2> QED BY <2>1, <2>2, <2>3
<1>5. /\ place \in [before -> ValuesIn(s)]
      /\ \A j \in ValuesIn(s) : \E i \in before : place[i] = j
      /\ \A i, j \in before : i < j => place[i] < place[j]
      /\ \A i \in before : s[place[i]] = ValueOf(entries[i])
  BY <1>2 DEF PlacedBy
<1> DEFINE more == [i \in upToNow |-> IF i = n + 1 THEN l + 1 ELSE place[i]]
<1>6. v = ValueOf(entries[n + 1])
  OBVIOUS
<1> HIDE DEF v, k, before, upToNow
<1>7. \A i \in before : i \in upToNow /\ i # n + 1 /\ more[i] = place[i] /\ place[i] \in ValuesIn(s) /\ place[i] \in 1 .. l
  <2> SUFFICES ASSUME NEW i \in before PROVE i \in upToNow /\ i # n + 1 /\ more[i] = place[i] /\ place[i] \in ValuesIn(s) /\ place[i] \in 1 .. l
    OBVIOUS
  <2>1. i \in upToNow /\ i \in 1 .. n /\ i # n + 1
    BY <1>3
  <2>2. place[i] \in ValuesIn(s)
    BY <1>5
  <2>3. more[i] = place[i]
    BY <2>1
  <2> HIDE DEF more
  <2> QED BY <1>4, <2>1, <2>2, <2>3
<1>8. \A i \in upToNow : i \in before \/ (i = n + 1 /\ v # EmptyText /\ more[i] = l + 1)
  BY <1>3
<1>9. more \in [upToNow -> ValuesIn(t)]
  <2>1. ASSUME NEW i \in upToNow PROVE more[i] \in ValuesIn(t)
    BY <1>4, <1>7, <1>8
  <2> QED BY <2>1
<1>10. ASSUME NEW j \in ValuesIn(t) PROVE \E i \in upToNow : more[i] = j
  <2>1. CASE j \in ValuesIn(s)
    BY <1>5, <1>7, <2>1
  <2>2. CASE j = l + 1 /\ v # EmptyText
    <3>1. n + 1 \in upToNow /\ more[n + 1] = l + 1
      BY <1>3, <2>2
    <3> QED BY <2>2, <3>1
  <2> QED BY <1>4, <2>1, <2>2
<1> HIDE DEF more
<1>11. ASSUME NEW i \in upToNow, NEW j \in upToNow, i < j PROVE more[i] < more[j]
  <2>0. i \in before
    BY <1>1, <1>3, <1>8, <1>11
  <2>1. CASE j \in before
    BY <1>5, <1>7, <1>11, <2>0, <2>1
  <2>2. CASE j = n + 1 /\ more[j] = l + 1
    <3>1. more[i] \in 1 .. l
      BY <1>7, <2>0
    <3> QED BY <1>1, <2>2, <3>1
  <2> QED BY <1>8, <2>1, <2>2
<1>12. ASSUME NEW i \in upToNow PROVE t[more[i]] = ValueOf(entries[i])
  BY <1>1, <1>5, <1>6, <1>7, <1>8
<1>13. PlacedBy(more, entries, k, n + 1, t)
  BY <1>9, <1>10, <1>11, <1>12 DEF PlacedBy, upToNow
<1> QED BY <1>13 DEF Placed, k, t, v
(* What the results have: the keys, and their values placed.                 *)
FormHolds(T, r, entries, n) ==
    /\ DOMAIN r = {KeyOf(entries[i]) : i \in 1 .. n}
    /\ \A k \in DOMAIN r : r[k] \in Seq(T) /\ Placed(entries, k, n, r[k])

LEMMA EntryAdded ==
    ASSUME NEW T, NEW entries, NEW n \in Nat, ValueOf(entries[n + 1]) \in T, NEW r, FormHolds(T, r, entries, n)
    PROVE  FormHolds(T, AddEntry(r, entries[n + 1]), entries, n + 1)
<1> DEFINE e == entries[n + 1]
           added == AddEntry(r, e)
<1>1. DOMAIN added = DOMAIN r \cup {KeyOf(e)}
  BY DEF AddEntry
<1>2. \A k \in DOMAIN added : added[k] = IF k # KeyOf(e) THEN r[k]
         ELSE IF k \in DOMAIN r /\ r[k] # <<EmptyText>> THEN Append(r[k], ValueOf(e)) ELSE <<ValueOf(e)>>
  BY DEF AddEntry
<1>3. e = entries[n + 1] /\ ValueOf(e) \in T
  OBVIOUS
<1> HIDE DEF added, e
<1>4. DOMAIN added = {KeyOf(entries[i]) : i \in 1 .. n + 1}
  <2>1. 1 .. n + 1 = (1 .. n) \cup {n + 1}
    OBVIOUS
  <2> QED BY <1>1, <1>3, <2>1 DEF FormHolds
<1>5. ASSUME NEW k \in DOMAIN added PROVE added[k] \in Seq(T) /\ Placed(entries, k, n + 1, added[k])
  <2>1. CASE k # KeyOf(e)
    <3>1. k \in DOMAIN r /\ added[k] = r[k]
      BY <1>1, <1>2, <2>1
    <3>2. r[k] \in Seq(T) /\ Placed(entries, k, n, r[k])
      BY <3>1 DEF FormHolds
    <3>3. SentUpTo(entries, k, n + 1) = SentUpTo(entries, k, n)
      <4>1. \A i \in 1 .. n + 1 : KeyOf(entries[i]) = k => i \in 1 .. n
        BY <1>3, <2>1
      <4>2. 1 .. n \subseteq 1 .. n + 1
        OBVIOUS
      <4> QED BY <4>1, <4>2 DEF SentUpTo
    <3>4. Placed(entries, k, n + 1, r[k])
      BY <3>2, <3>3 DEF Placed, PlacedBy
    <3> QED BY <3>1, <3>2, <3>4
  <2>2. CASE k = KeyOf(e) /\ k \in DOMAIN r /\ r[k] # <<EmptyText>>
    <3>1. added[k] = Append(r[k], ValueOf(e))
      BY <1>2, <2>2
    <3>2. r[k] \in Seq(T) /\ Placed(entries, k, n, r[k])
      BY <2>2 DEF FormHolds
    <3>3. Placed(entries, k, n + 1, Append(r[k], ValueOf(e)))
      BY <1>3, <2>2, <3>2, LaterIsPlaced
    <3>4. Append(r[k], ValueOf(e)) \in Seq(T)
      BY <1>3, <3>2, AppendProperties
    <3> QED BY <3>1, <3>3, <3>4
  <2>3. CASE k = KeyOf(e) /\ ~(k \in DOMAIN r /\ r[k] # <<EmptyText>>)
    <3>1. added[k] = <<ValueOf(e)>>
      BY <1>2, <2>3
    <3>2. SentUpTo(entries, k, n) = {}
      <4>1. CASE k \notin DOMAIN r
        BY <4>1 DEF FormHolds, SentUpTo
      <4>2. CASE k \in DOMAIN r /\ r[k] = <<EmptyText>>
        <5>1. PICK place : PlacedBy(place, entries, k, n, r[k])
          BY <4>2 DEF FormHolds, Placed
        <5>2. DOMAIN <<EmptyText>> = {1} /\ <<EmptyText>>[1] = EmptyText
          <6>1. EmptyText \in {EmptyText}
            OBVIOUS
          <6> QED BY <6>1, Single
        <5>3. ValuesIn(r[k]) = {}
          BY <4>2, <5>2 DEF ValuesIn
        <5> QED BY <5>1, <5>3 DEF PlacedBy
      <4> QED BY <2>3, <4>1, <4>2
    <3>3. Placed(entries, k, n + 1, <<ValueOf(e)>>)
      BY <1>3, <2>3, <3>2, FirstIsPlaced
    <3>4. <<ValueOf(e)>> \in Seq(T)
      BY <1>3, Single
    <3> QED BY <3>1, <3>3, <3>4
  <2> QED BY <2>1, <2>2, <2>3
<1>6. FormHolds(T, added, entries, n + 1)
  BY <1>4, <1>5 DEF FormHolds
<1> QED BY <1>6 DEF added, e

(* A form has the keys that were sent, and their values placed.              *)
LEMMA FormParsed ==
    ASSUME NEW entries, entries \in Seq(ToSet(entries))
    PROVE  \E T : FormHolds(T, ParseForm(entries), entries, Len(entries))
<1> DEFINE m == Len(entries)
<1> DEFINE T == {ValueOf(entries[i]) : i \in 1 .. m}
<1>1. m \in Nat
  BY LenProperties
<1>0. \A i \in 1 .. m : ValueOf(entries[i]) \in T
  OBVIOUS
<1> HIDE DEF T
<1> DEFINE after == CHOOSE f : FormResults(entries, m, f)
<1>2. FormResults(entries, m, after)
  <2> HIDE DEF m
  <2> QED BY <1>1, ResultsExist
<1>3. ParseForm(entries) = (CHOOSE f : f = [n \in 0 .. m |-> IF n = 0 THEN <<>> ELSE AddEntry(f[n - 1], entries[n])])[m]
  BY DEF ParseForm
<1>4. ParseForm(entries) = after[m]
  BY <1>3 DEF FormResults, AfterEntry
<1>5. \A n \in 0 .. m : after[n] = AfterEntry(entries, n, after)
  BY <1>2 DEF FormResults
<1> HIDE DEF after, m
<1> DEFINE S == {n \in Nat : n \in 0 .. m => FormHolds(T, after[n], entries, n)}
<1>6. 0 \in S
  <2>1. after[0] = <<>>
    BY <1>1, <1>5 DEF AfterEntry
  <2>2. DOMAIN <<>> = {} /\ 1 .. 0 = {}
    BY Empty
  <2>3. FormHolds(T, <<>>, entries, 0)
    BY <2>2 DEF FormHolds
  <2> QED BY <2>1, <2>3
<1>7. ASSUME NEW n \in Nat, n \in S PROVE n + 1 \in S
  <2>1. SUFFICES ASSUME n + 1 \in 0 .. m PROVE FormHolds(T, after[n + 1], entries, n + 1)
    BY DEF S
  <2>2. n \in 0 .. m /\ n + 1 \in 1 .. m /\ n + 1 # 0 /\ (n + 1) - 1 = n
    BY <1>1, <2>1
  <2>3. FormHolds(T, after[n], entries, n)
    BY <1>7, <2>2 DEF S
  <2>4. after[n + 1] = AddEntry(after[n], entries[n + 1])
    BY <1>5, <2>2 DEF AfterEntry
  <2>5. ValueOf(entries[n + 1]) \in T
    BY <1>0, <2>2
  <2>6. FormHolds(T, AddEntry(after[n], entries[n + 1]), entries, n + 1)
    BY <2>3, <2>5, EntryAdded
  <2> QED BY <2>4, <2>6
<1> HIDE DEF S
<1>8. m \in S
  BY <1>1, <1>6, <1>7, NatSetInduction
<1>9. m \in 0 .. m
  BY <1>1
<1>10. FormHolds(T, after[m], entries, m)
  BY <1>8, <1>9 DEF S
<1> QED BY <1>4, <1>10 DEF m

-------------------------------------------------------------------------------
(* The results of the parts, assigned after each.                            *)
AfterPart(results, n, f) == IF n = 0 THEN <<>> ELSE Assign(f[n - 1], results[n])
Assignments(results, m, f) == f = [n \in 0 .. m |-> AfterPart(results, n, f)]

LEMMA AssignmentsExist ==
    ASSUME NEW results, NEW m \in Nat
    PROVE  \E f : Assignments(results, m, f)
<1> DEFINE S == {k \in Nat : \E f : Assignments(results, k, f)}
<1>1. 0 \in S
  <2> DEFINE f == [n \in 0 .. 0 |-> <<>>]
  <2>1. f = [n \in 0 .. 0 |-> AfterPart(results, n, f)]
    BY DEF AfterPart
  <2>2. Assignments(results, 0, f)
    BY <2>1 DEF Assignments
  <2> QED BY <2>2
<1>2. ASSUME NEW k \in Nat, k \in S PROVE k + 1 \in S
  <2>1. PICK g : g = [n \in 0 .. k |-> AfterPart(results, n, g)]
    BY <1>2 DEF Assignments
  <2> DEFINE f == [n \in 0 .. k + 1 |-> IF n = k + 1 THEN AfterPart(results, n, g) ELSE g[n]]
  <2>2. \A n \in 0 .. k + 1 : f[n] = AfterPart(results, n, g)
    BY <1>2, <2>1
  <2>3. \A n \in 0 .. k + 1 : n # 0 => f[n - 1] = g[n - 1]
    BY <1>2
  <2>4. f = [n \in 0 .. k + 1 |-> f[n]]
    OBVIOUS
  <2> HIDE DEF f
  <2>5. \A n \in 0 .. k + 1 : AfterPart(results, n, f) = AfterPart(results, n, g)
    BY <2>3 DEF AfterPart
  <2>6. f = [n \in 0 .. k + 1 |-> AfterPart(results, n, f)]
    BY <2>2, <2>4, <2>5
  <2>7. Assignments(results, k + 1, f) /\ k + 1 \in Nat
    BY <2>6 DEF Assignments
  <2> QED BY <2>7
<1> HIDE DEF S
<1>3. Nat \subseteq S
  BY <1>1, <1>2, NatSetInduction
<1>4. m \in S
  BY <1>3
<1> QED BY <1>4 DEF S

(* Of results with a key, the last counts.                                   *)
KeysOfResult(result) == DOMAIN Spread(result)
KeysHold(r, results, n) ==
    /\ \A k : k \in DOMAIN r <=> \E i \in 1 .. n : k \in KeysOfResult(results[i])
    /\ \A i \in 1 .. n : \A k \in KeysOfResult(results[i]) :
         (\A j \in 1 .. n : i < j => k \notin KeysOfResult(results[j])) => r[k] = Spread(results[i])[k]

LEMMA PartAssigned ==
    ASSUME NEW results, NEW n \in Nat, NEW r, KeysHold(r, results, n)
    PROVE  KeysHold(Assign(r, results[n + 1]), results, n + 1)
<1> DEFINE a == Assign(r, results[n + 1])
           last == results[n + 1]
<1>1. /\ DOMAIN a = DOMAIN r \cup KeysOfResult(last)
      /\ \A k \in DOMAIN a : a[k] = IF k \in KeysOfResult(last) THEN Spread(last)[k] ELSE r[k]
  BY DEF Assign, KeysOfResult
<1>2. last = results[n + 1]
  OBVIOUS
<1> HIDE DEF a, last
<1>3. 1 .. n + 1 = (1 .. n) \cup {n + 1}
  OBVIOUS
<1>4. \A k : k \in DOMAIN a <=> \E i \in 1 .. n + 1 : k \in KeysOfResult(results[i])
  BY <1>1, <1>2, <1>3 DEF KeysHold
<1>5. ASSUME NEW i \in 1 .. n + 1, NEW k \in KeysOfResult(results[i]), \A j \in 1 .. n + 1 : i < j => k \notin KeysOfResult(results[j])
      PROVE  a[k] = Spread(results[i])[k]
  <2>0. k \in DOMAIN a
    BY <1>4
  <2>1. CASE i = n + 1
    BY <1>1, <1>2, <2>0, <2>1
  <2>2. CASE i \in 1 .. n
    <3>1. i < n + 1 /\ n + 1 \in 1 .. n + 1
      BY <2>2
    <3>2. k \notin KeysOfResult(last)
      BY <1>2, <1>5, <3>1
    <3>3. \A j \in 1 .. n : i < j => k \notin KeysOfResult(results[j])
      BY <1>3, <1>5
    <3>4. r[k] = Spread(results[i])[k]
      BY <2>2, <3>3 DEF KeysHold
    <3> QED BY <1>1, <2>0, <3>2, <3>4
  <2> QED BY <1>3, <2>1, <2>2
<1>6. KeysHold(a, results, n + 1)
  BY <1>4, <1>5 DEF KeysHold
<1> QED BY <1>2, <1>6 DEF a

LEMMA AllAssigned ==
    ASSUME NEW R, NEW results \in Seq(R)
    PROVE  KeysHold(Assigned(results), results, Len(results))
<1> DEFINE m == Len(results)
<1>1. m \in Nat
  BY LenProperties
<1> DEFINE after == CHOOSE f : Assignments(results, m, f)
<1>2. Assignments(results, m, after)
  <2> HIDE DEF m
  <2> QED BY <1>1, AssignmentsExist
<1>3. Assigned(results) = (CHOOSE f : f = [n \in 0 .. m |-> IF n = 0 THEN <<>> ELSE Assign(f[n - 1], results[n])])[m]
  BY DEF Assigned
<1>4. Assigned(results) = after[m]
  BY <1>3 DEF Assignments, AfterPart
<1>5. \A n \in 0 .. m : after[n] = AfterPart(results, n, after)
  BY <1>2 DEF Assignments
<1> HIDE DEF after, m
<1> DEFINE S == {n \in Nat : n \in 0 .. m => KeysHold(after[n], results, n)}
<1>6. 0 \in S
  <2>1. after[0] = <<>>
    BY <1>1, <1>5 DEF AfterPart
  <2>2. DOMAIN <<>> = {} /\ 1 .. 0 = {}
    BY Empty
  <2>3. KeysHold(<<>>, results, 0)
    BY <2>2 DEF KeysHold
  <2> QED BY <2>1, <2>3
<1>7. ASSUME NEW n \in Nat, n \in S PROVE n + 1 \in S
  <2>1. SUFFICES ASSUME n + 1 \in 0 .. m PROVE KeysHold(after[n + 1], results, n + 1)
    BY DEF S
  <2>2. n \in 0 .. m /\ n + 1 \in 1 .. m /\ n + 1 # 0 /\ (n + 1) - 1 = n
    BY <1>1, <2>1
  <2>3. KeysHold(after[n], results, n)
    BY <1>7, <2>2 DEF S
  <2>4. after[n + 1] = Assign(after[n], results[n + 1])
    BY <1>5, <2>1, <2>2 DEF AfterPart
  <2>5. KeysHold(Assign(after[n], results[n + 1]), results, n + 1)
    BY <2>3, PartAssigned
  <2> QED BY <2>4, <2>5
<1> HIDE DEF S
<1>8. m \in S
  BY <1>1, <1>6, <1>7, NatSetInduction
<1>9. m \in 0 .. m
  BY <1>1
<1>10. KeysHold(after[m], results, m)
  BY <1>8, <1>9 DEF S
<1> QED BY <1>4, <1>10 DEF m
-------------------------------------------------------------------------------
(* What a part of a form gives: the parser is the one for the part's type,   *)
(* remembered or not.                                                        *)
PartType(part) == HeaderOf(part, "contentType", TextPlain).value
Content(part) == ParseWith(BodyParsers[Matching(PartType(part))], ContentOf(part))
PartGives(part) == ComposeFromDisposition(HeaderOf(part, "contentDisposition", NoDisposition), Content(part))
FieldContent(part) == ParseWith(BodyParsers[Matching(TypeOf(part))], part[2])

GoodPart(part) ==
    /\ part \in Seq(ToSet(part))
    /\ \A b \in DOMAIN part :
         /\ "entries" \in DOMAIN part[b] => part[b].entries \in Seq(ToSet(part[b].entries))
         /\ "headers" \in DOMAIN part[b] => \A name \in DOMAIN part[b].headers :
              part[b].headers[name].directives \in Seq(ToSet(part[b].headers[name].directives))
FieldsSurvive(parts, result) ==
    /\ \A i \in DOMAIN parts :
         IsField(parts[i]) /\ (\A j \in DOMAIN parts : i < j => NameOf(parts[i]) \notin MayAdd(parts[j])) =>
           NameOf(parts[i]) \in DOMAIN result /\ result[NameOf(parts[i])] = FieldContent(parts[i])
    /\ \A k \in DOMAIN result : \E i \in DOMAIN parts : k \in MayAdd(parts[i])
MessageSurvives(m, result) ==
    /\ "parts" \in DOMAIN m.body /\ m.contentType.value = "multipart/form-data" => FieldsSurvive(m.body.parts, result)
    /\ "entries" \in DOMAIN m.body /\ m.contentType.value = "application/x-www-form-urlencoded" =>
         m.body.entries \in Seq(ToSet(m.body.entries)) /\ result = ParseForm(m.body.entries)

(* What is remembered for a content type is what would be selected, so every *)
(* part gives what its own type says, whichever is parsed first.             *)
ParsersInv ==
    \A key \in DOMAIN parserCache : Matching(key[2]) # 0 /\ parserCache[key] = BodyParsers[Matching(key[2])]
PartsInv ==
    parsing.pc = "parts" =>
      /\ parsing.message \in Bodies /\ parsing.message.contentType.value = "multipart/form-data"
      /\ \A i \in DOMAIN partResults :
           /\ partResults[i] # Failure /\ partResults[i] = PartGives(parsing.message.body.parts[i])
           /\ ~PartFailsEarly(parsing.message.body.parts[i])
ParsedInv == parsing.pc = "parsed" => MessageSurvives(parsing.message, parsing.result)
BodyInv == ParsersInv /\ PartsInv /\ ParsedInv

LEMMA MatchingIs ==
    ASSUME NEW type, Matching(type) # 0
    PROVE  Matching(type) \in 1 .. Len(BodyParsers) /\ ParserType[BodyParsers[Matching(type)]] = type
<1> DEFINE I == {i \in 1 .. Len(BodyParsers) : ParserType[BodyParsers[i]] = type}
<1>1. Matching(type) = IF I # {} THEN Min(I) ELSE 0
  BY DEF Matching, SelectInSeq
<1>2. I \subseteq Nat
  OBVIOUS
<1>3. Min(I) \in I
  <2>1. I # {}
    BY <1>1
  <2> HIDE DEF I
  <2> QED BY <1>2, <2>1, Smallest
<1> QED BY <1>1, <1>3

(* A parser that is found is the first for the type, and is remembered.      *)
LEMMA ParserForIs ==
    ASSUME ParsersInv, NEW path, NEW type, ParserFor(path, type) # "none"
    PROVE  /\ Matching(type) # 0 /\ ParserFor(path, type) = BodyParsers[Matching(type)]
           /\ ParserType[ParserFor(path, type)] = type
<1>1. Matching(type) # 0 /\ ParserFor(path, type) = BodyParsers[Matching(type)]
  <2>1. CASE <<path, type>> \in DOMAIN parserCache
    <3>1. <<path, type>>[2] = type
      OBVIOUS
    <3> QED BY <2>1, <3>1 DEF ParsersInv, ParserFor
  <2>2. CASE <<path, type>> \notin DOMAIN parserCache
    BY <2>2 DEF ParserFor
  <2> QED BY <2>1, <2>2
<1> QED BY <1>1, MatchingIs

LEMMA RememberedIs ==
    ASSUME ParsersInv, NEW path, NEW type, parserCache' = Remembered(path, type)
    PROVE  ParsersInv'
<1>1. CASE ParserFor(path, type) = "none"
  BY <1>1 DEF Remembered, ParsersInv
<1>2. CASE ParserFor(path, type) # "none"
  <2> DEFINE added == <<path, type>>
  <2>1. added[2] = type
    OBVIOUS
  <2>2. Matching(type) # 0 /\ ParserFor(path, type) = BodyParsers[Matching(type)]
    BY <1>2, ParserForIs
  <2>3. /\ DOMAIN parserCache' = DOMAIN parserCache \cup {added}
        /\ \A k \in DOMAIN parserCache' : parserCache'[k] = IF k = added THEN ParserFor(path, type) ELSE parserCache[k]
    BY <1>2 DEF Remembered
  <2> HIDE DEF added
  <2>4. ASSUME NEW k \in DOMAIN parserCache' PROVE Matching(k[2]) # 0 /\ parserCache'[k] = BodyParsers[Matching(k[2])]
    BY <2>1, <2>2, <2>3, <2>4 DEF ParsersInv
  <2> QED BY <2>4 DEF ParsersInv
<1> QED BY <1>1, <1>2

LEMMA NoParserFails ==
    ASSUME NEW parser, NEW body, ParseWith(parser, body) # Failure
    PROVE  parser # "none"
BY DEF ParseWith

LEMMA FormIsParsed ==
    ASSUME NEW body, NEW parser, ParserType[parser] = "application/x-www-form-urlencoded", parser # "none",
           ParseWith(parser, body) # Failure
    PROVE  ParseWith(parser, body).value = ParseForm(body.entries)
<1> DEFINE parsed == ParseForm(body.entries)
<1> HIDE DEF parsed
<1>1. ParseWith(parser, body) = [kind |-> "object", value |-> parsed]
  BY DEF ParseWith, parsed
<1> QED BY <1>1 DEF parsed

(* The directives of a header that are kept: those up to the first colon.    *)
KeptOf(header, first) ==
    Append(SubSeq(header.directives, 1, first - 1),
           [name |-> header.directives[first].name, value |-> StartOf(header.directives[first].value), colon |-> FALSE])
LEMMA UpToColonIs ==
    ASSUME NEW header, header.directives \in Seq(ToSet(header.directives))
    PROVE  /\ UpToColon(header).value = header.value
           /\ \/ UpToColon(header) = header /\ \A i \in DOMAIN header.directives : ~HasColon(header.directives[i])
              \/ \E first \in DOMAIN header.directives :
                   /\ HasColon(header.directives[first]) /\ \A j \in 1 .. first - 1 : ~HasColon(header.directives[j])
                   /\ DOMAIN UpToColon(header).directives = 1 .. first
                   /\ \A j \in 1 .. first - 1 : UpToColon(header).directives[j] = header.directives[j]
                   /\ UpToColon(header).directives[first].name = header.directives[first].name
                   /\ UpToColon(header).directives[first].value = StartOf(header.directives[first].value)
<1> DEFINE ds == header.directives
<1>1. CASE \A i \in DOMAIN ds : ~HasColon(ds[i])
  BY <1>1 DEF UpToColon
<1>2. CASE ~\A i \in DOMAIN ds : ~HasColon(ds[i])
  <2> DEFINE I == {i \in DOMAIN ds : HasColon(ds[i])}
             first == CHOOSE i \in DOMAIN ds : HasColon(ds[i]) /\ \A j \in 1 .. (i - 1) : ~HasColon(ds[j])
             d == [name |-> ds[first].name, value |-> StartOf(ds[first].value), colon |-> FALSE]
             head == SubSeq(ds, 1, first - 1)
  <2>1. Len(ds) \in Nat /\ DOMAIN ds = 1 .. Len(ds)
    BY LenProperties
  <2>2. I \subseteq Nat /\ I # {}
    BY <1>2, <2>1
  <2>3. Min(I) \in I /\ \A n \in I : Min(I) <= n
    <3> HIDE DEF I
    <3> QED BY <2>2, Smallest
  <2>4. HasColon(ds[Min(I)]) /\ \A j \in 1 .. (Min(I) - 1) : ~HasColon(ds[j])
    <3>1. ASSUME NEW i \in 1 .. Len(ds), i \in I, \A k \in I : i <= k, NEW j \in 1 .. (i - 1)
          PROVE  j \in DOMAIN ds /\ j \notin I
      <4> HIDE DEF I
      <4> QED BY <2>1, <3>1
    <3>2. Min(I) \in 1 .. Len(ds)
      BY <2>1, <2>3
    <3>3. \A j \in 1 .. (Min(I) - 1) : j \in DOMAIN ds /\ j \notin I
      BY <2>3, <3>1, <3>2
    <3> QED BY <2>3, <3>3
  <2>5. first \in DOMAIN ds /\ HasColon(ds[first]) /\ \A j \in 1 .. (first - 1) : ~HasColon(ds[j])
    BY <2>3, <2>4
  <2>6. UpToColon(header) = [value |-> header.value, directives |-> Append(head, d)]
    BY <1>2 DEF UpToColon
  <2> HIDE DEF first, I
  <2>7. first \in 1 .. Len(ds)
    BY <2>1, <2>5
  <2>8. head \in Seq(ToSet(ds) \cup {d}) /\ Len(head) = first - 1 /\ \A j \in 1 .. first - 1 : head[j] = ds[j]
    <3>1. \A j \in 1 .. first - 1 : ds[j] \in ToSet(ds) \cup {d}
      BY <2>1, <2>7, ElementOfSeq
    <3>2. first - 1 \in Int /\ first - 1 >= 0
      BY <2>1, <2>7
    <3> HIDE DEF ds, d
    <3> QED BY <3>1, <3>2, SubSeqProperties
  <2>9. d.name = ds[first].name /\ d.value = StartOf(ds[first].value) /\ d \in ToSet(ds) \cup {d}
    OBVIOUS
  <2> HIDE DEF d, head
  <2>10. /\ DOMAIN Append(head, d) = 1 .. first /\ Append(head, d)[first] = d
         /\ \A j \in 1 .. first - 1 : Append(head, d)[j] = head[j]
    <3>1. /\ Len(Append(head, d)) = Len(head) + 1 /\ Append(head, d) \in Seq(ToSet(ds) \cup {d})
          /\ \A j \in 1 .. Len(head) : Append(head, d)[j] = head[j] /\ Append(head, d)[Len(head) + 1] = d
          /\ Append(head, d)[Len(head) + 1] = d
      <4> HIDE DEF ds
      <4> QED BY <2>8, <2>9, AppendProperties
    <3>2. DOMAIN Append(head, d) = 1 .. Len(head) + 1
      BY <3>1, <2>7, <2>8, LenProperties
    <3> QED BY <2>7, <2>8, <3>1, <3>2
  <2>11. UpToColon(header).value = header.value /\ UpToColon(header).directives = Append(head, d)
    BY <2>6
  <2>12. \A j \in 1 .. first - 1 : UpToColon(header).directives[j] = ds[j]
    BY <2>8, <2>10, <2>11
  <2> QED BY <2>5, <2>9, <2>10, <2>11, <2>12
<1> QED BY <1>1, <1>2

LEMMA Largest ==
    ASSUME NEW n \in Nat, NEW I, I \subseteq 1 .. n, I # {}
    PROVE  \E i \in I : \A j \in I : j <= i
<1> DEFINE D == {d \in Nat : \E i \in I : d = n - i}
<1>1. D \subseteq Nat /\ D # {}
  <2>1. PICK i \in I : TRUE
    OBVIOUS
  <2>2. n - i \in Nat
    OBVIOUS
  <2> QED BY <2>2
<1>2. Min(D) \in D /\ \A d \in D : Min(D) <= d
  <2> HIDE DEF D
  <2> QED BY <1>1, Smallest
<1>3. PICK i \in I : Min(D) = n - i
  BY <1>2
<1>4. ASSUME NEW j \in I PROVE j <= i
  <2>1. n - j \in D
    OBVIOUS
  <2>2. n - i <= n - j
    BY <1>2, <1>3, <2>1
  <2>3. i \in Int /\ j \in Int
    OBVIOUS
  <2> QED BY <2>2, <2>3
<1> QED BY <1>4

(* A directive that is there has the value of one with its name.             *)
LEMMA DirectiveIs ==
    ASSUME NEW header, NEW n \in Nat, DOMAIN header.directives = 1 .. n, Directive(header, "name") # "none"
    PROVE  \E i \in 1 .. n : header.directives[i].name = "name" /\ Directive(header, "name") = header.directives[i].value
<1> DEFINE given == {i \in DOMAIN header.directives : header.directives[i].name = "name"}
           last == CHOOSE i \in given : \A j \in given : j <= i
<1>1. given # {} /\ Directive(header, "name") = header.directives[last].value
  BY DEF Directive
<1>2. given \subseteq 1 .. n
  OBVIOUS
<1>3. \E i \in given : \A j \in given : j <= i
  <2> HIDE DEF given
  <2> QED BY <1>1, <1>2, Largest
<1>4. last \in given
  BY <1>3
<1> QED BY <1>1, <1>2, <1>4

(* A name before any colon is kept.                                          *)
LEMMA NameIsKept ==
    ASSUME NEW header, header.directives \in Seq(ToSet(header.directives)), NEW k \in DOMAIN header.directives,
           {j \in DOMAIN header.directives : header.directives[j].name = "name"} = {k},
           \A j \in 1 .. k : ~HasColon(header.directives[j])
    PROVE  Directive(UpToColon(header), "name") = header.directives[k].value
<1> DEFINE ds == header.directives
           us == UpToColon(header).directives
           given == {j \in DOMAIN us : us[j].name = "name"}
<1>1. DOMAIN ds = 1 .. Len(ds) /\ Len(ds) \in Nat
  BY LenProperties
<1>2. \A j \in DOMAIN ds : ds[j].name = "name" <=> j = k
  OBVIOUS
<1>3. given = {k} /\ us[k] = ds[k]
  <2>1. CASE UpToColon(header) = header
    BY <1>2, <2>1
  <2>2. CASE UpToColon(header) # header
    <3>1. PICK first \in DOMAIN ds :
            /\ HasColon(ds[first]) /\ DOMAIN us = 1 .. first
            /\ \A j \in 1 .. first - 1 : us[j] = ds[j]
            /\ us[first].name = ds[first].name
      BY <2>2, UpToColonIs
    <3> HIDE DEF us, ds
    <3>2. k < first /\ k \in 1 .. first - 1
      BY <1>1, <3>1 DEF ds
    <3>3. \A j \in 1 .. first : us[j].name = ds[j].name /\ j \in DOMAIN ds
      BY <1>1, <3>1
    <3>4. \A j \in 1 .. first : us[j].name = "name" <=> j = k
      BY <1>2, <3>3
    <3>5. k \in 1 .. first
      BY <1>1, <3>1, <3>2
    <3> QED BY <3>1, <3>2, <3>4, <3>5
  <2> QED BY <2>1, <2>2
<1> HIDE DEF ds, us
<1>4. Directive(UpToColon(header), "name") = us[CHOOSE i \in given : \A j \in given : j <= i].value
  BY <1>3 DEF Directive, us
<1>5. k \in Nat
  BY <1>1 DEF ds
<1>6. (CHOOSE i \in given : \A j \in given : j <= i) = k
  BY <1>3, <1>5
<1> QED BY <1>3, <1>4, <1>6 DEF ds

(* What the first block of a part is, and its content.                       *)
LEMMA FirstIs ==
    ASSUME NEW part, GoodPart(part), Held(part) # {}
    PROVE  /\ First(part) \in Held(part) /\ \A c \in Held(part) : First(part) <= c
           /\ \E b \in DOMAIN part : ContentOf(part) = part[b]
<1>1. DOMAIN part = 1 .. Len(part) /\ Len(part) \in Nat
  BY LenProperties DEF GoodPart
<1>2. Held(part) \subseteq Nat /\ Held(part) \subseteq DOMAIN part
  BY <1>1 DEF Held
<1>3. Min(Held(part)) \in Held(part) /\ \A c \in Held(part) : Min(Held(part)) <= c
  BY <1>2, Smallest
<1>4. First(part) \in Held(part) /\ \A c \in Held(part) : First(part) <= c
  BY <1>3 DEF First
<1>5. CASE IsSingle(part)
  BY <1>2, <1>4, <1>5 DEF ContentOf
<1>6. CASE ~IsSingle(part)
  <2>1. PICK b \in Held(part) : b # First(part)
    BY <1>6 DEF IsSingle
  <2>2. First(part) + 1 \in DOMAIN part
    BY <1>1, <1>2, <1>4, <2>1
  <2> QED BY <1>4, <1>6, <2>2 DEF ContentOf
<1> QED BY <1>4, <1>5, <1>6

LEMMA FieldIsPrepared ==
    ASSUME NEW part, GoodPart(part), IsField(part)
    PROVE  /\ Held(part) # {} /\ ContentOf(part) = part[2] /\ ContentOf(part) # Blank
           /\ PartHeaders(part) = part[1].headers /\ 1 \in DOMAIN part
<1>1. DOMAIN part = 1 .. Len(part) /\ Len(part) \in Nat
  BY LenProperties DEF GoodPart
<1>2. 1 \in DOMAIN part /\ 2 \in DOMAIN part /\ part[2] # Blank /\ "headers" \in DOMAIN part[1]
  BY DEF IsField
<1>3. part[1] # Blank
  BY <1>2 DEF Blank
<1>4. 1 \in Held(part) /\ 2 \in Held(part)
  BY <1>2, <1>3 DEF Held
<1>5. First(part) = 1
  <2>1. First(part) \in Held(part) /\ First(part) <= 1
    BY <1>4, FirstIs
  <2> QED BY <1>1, <2>1 DEF Held
<1>6. ~IsSingle(part)
  BY <1>4, <1>5 DEF IsSingle
<1>7. ContentOf(part) = part[2]
  BY <1>5, <1>6 DEF ContentOf
<1>8. PartHeaders(part) = part[1].headers
  BY <1>2, <1>5, <1>6 DEF PartHeaders
<1> QED BY <1>2, <1>4, <1>7, <1>8

(* A field gives its content under its name.                                 *)
LEMMA FieldGives ==
    ASSUME NEW part, GoodPart(part), IsField(part), PartGives(part) # Failure
    PROVE  /\ KeysOfResult(PartGives(part)) = {NameOf(part)}
           /\ Spread(PartGives(part))[NameOf(part)] = FieldContent(part)
<1> DEFINE d == Disposition(part)
           content == FieldContent(part)
           name == NameOf(part)
<1>1. /\ ContentOf(part) = part[2] /\ PartHeaders(part) = part[1].headers /\ 1 \in DOMAIN part
  BY FieldIsPrepared
<1>2. /\ "headers" \in DOMAIN part[1] /\ "contentDisposition" \in DOMAIN part[1].headers /\ d.value = "form-data"
  BY DEF IsField
<1>3. d.directives \in Seq(ToSet(d.directives))
  BY <1>1, <1>2 DEF GoodPart, Disposition
<1>4. PICK k \in DOMAIN d.directives :
        /\ NamedAt(part) = {k} /\ \A j \in 1 .. k : ~HasColon(d.directives[j])
        /\ d.directives[k].value \notin {"none", EmptyText}
  BY DEF IsField
<1>5. name = d.directives[k].value
  BY <1>4 DEF NameOf
<1>6. Directive(UpToColon(d), "name") = d.directives[k].value
  <2>1. {j \in DOMAIN d.directives : d.directives[j].name = "name"} = {k}
    BY <1>4 DEF NamedAt
  <2> HIDE DEF d
  <2> QED BY <1>3, <1>4, <2>1, NameIsKept
<1>7. UpToColon(d).value = "form-data"
  <2> HIDE DEF d
  <2> QED BY <1>2, <1>3, UpToColonIs
<1>8. HeaderOf(part, "contentDisposition", NoDisposition) = UpToColon(d)
  BY <1>1, <1>2 DEF HeaderOf, Disposition
<1>9. PartType(part) = TypeOf(part)
  <2>1. CASE "contentType" \in DOMAIN part[1].headers
    <3> DEFINE h == part[1].headers["contentType"]
    <3>1. h.directives \in Seq(ToSet(h.directives))
      BY <1>1, <1>2, <2>1 DEF GoodPart
    <3>2. PartType(part) = UpToColon(h).value /\ TypeOf(part) = h.value
      BY <1>1, <2>1 DEF PartType, HeaderOf, TypeOf
    <3> HIDE DEF h
    <3> QED BY <3>1, <3>2, UpToColonIs
  <2>2. CASE "contentType" \notin DOMAIN part[1].headers
    BY <1>1, <2>2 DEF PartType, HeaderOf, TypeOf, TextPlain
  <2> QED BY <2>1, <2>2
<1>10. Content(part) = content
  BY <1>1, <1>9 DEF Content, FieldContent
<1> HIDE DEF content, d, name
<1>11. PartGives(part) = ComposeFromDisposition(UpToColon(d), content)
  BY <1>8, <1>10 DEF PartGives
<1>12. content # Failure
  BY <1>11 DEF ComposeFromDisposition
<1>13. Directive(UpToColon(d), "name") = name /\ name \notin {"none", EmptyText}
  BY <1>4, <1>5, <1>6
<1>14. PartGives(part) = [kind |-> "object", value |-> [n \in {name} |-> content]]
  BY <1>7, <1>11, <1>12, <1>13 DEF ComposeFromDisposition
<1>15. Spread(PartGives(part)) = [n \in {name} |-> content]
  BY <1>14 DEF Spread
<1> QED BY <1>15 DEF KeysOfResult, name, content

(* A part that is no such field adds nothing that it does not have.          *)
LEMMA ParsedKeys ==
    ASSUME NEW parser, NEW body, "entries" \in DOMAIN body => body.entries \in Seq(ToSet(body.entries)),
           ParseWith(parser, body) # Failure
    PROVE  KeysOfResult(ParseWith(parser, body)) \subseteq {"0"} \cup KeysIn(body)
<1> DEFINE result == ParseWith(parser, body)
<1>1. CASE ParserType[parser] = "text/plain"
  <2>1. result = [kind |-> "text", value |-> body]
    BY <1>1 DEF ParseWith
  <2> HIDE DEF result
  <2>2. KeysOfResult(result) = {"0"}
    BY <2>1 DEF KeysOfResult, Spread
  <2> QED BY <2>2 DEF result
<1>2. CASE ParserType[parser] = "application/json"
  <2>1. result = [kind |-> "object", value |-> body.json] /\ "json" \in DOMAIN body
    BY <1>2 DEF ParseWith
  <2> HIDE DEF result
  <2>2. KeysOfResult(result) = DOMAIN body.json
    BY <2>1 DEF KeysOfResult, Spread
  <2>3. DOMAIN body.json \subseteq KeysIn(body)
    BY <2>1 DEF KeysIn
  <2> QED BY <2>2, <2>3 DEF result
<1>3. CASE ParserType[parser] \notin {"text/plain", "application/json"}
  <2> DEFINE parsed == ParseForm(body.entries)
  <2>1. PICK T : FormHolds(T, parsed, body.entries, Len(body.entries)) /\ "entries" \in DOMAIN body
    <3>1. "entries" \in DOMAIN body
      BY <1>3 DEF ParseWith
    <3> QED BY <3>1, FormParsed
  <2>2. DOMAIN parsed = {KeyOf(body.entries[i]) : i \in DOMAIN body.entries}
    <3>1. DOMAIN body.entries = 1 .. Len(body.entries)
      BY <2>1, LenProperties
    <3> QED BY <2>1, <3>1 DEF FormHolds
  <2>3. DOMAIN parsed \subseteq KeysIn(body)
    BY <2>1, <2>2 DEF KeysIn
  <2> HIDE DEF parsed
  <2>4. result = [kind |-> "object", value |-> parsed]
    BY <1>3, <2>1 DEF ParseWith, parsed
  <2> HIDE DEF result
  <2>5. KeysOfResult(result) = DOMAIN parsed
    BY <2>4 DEF KeysOfResult, Spread
  <2> QED BY <2>3, <2>5 DEF result
<1> QED BY <1>1, <1>2, <1>3

WholeNames(ds) == {ds[k].value : k \in {k \in DOMAIN ds : ds[k].name = "name" /\ "value" \in DOMAIN ds[k] /\ ~HasColon(ds[k])}}
CutNames(ds) == {StartOf(ds[k].value) : k \in {k \in DOMAIN ds : ds[k].name = "name" /\ HasColon(ds[k])}}
LEMMA KeptName ==
    ASSUME NEW h, h.directives \in Seq(ToSet(h.directives)), ~ParseFails(UpToColon(h)),
           Directive(UpToColon(h), "name") # "none"
    PROVE  Directive(UpToColon(h), "name") \in WholeNames(h.directives) \cup CutNames(h.directives)
<1> DEFINE ds == h.directives
           u == UpToColon(h)
<1>1. Len(ds) \in Nat /\ DOMAIN ds = 1 .. Len(ds)
  BY LenProperties
<1>2. \A i \in DOMAIN u.directives : "value" \in DOMAIN u.directives[i]
  BY DEF ParseFails
<1>3. CASE u = h /\ \A i \in DOMAIN ds : ~HasColon(ds[i])
  <2>1. PICK i \in 1 .. Len(ds) : ds[i].name = "name" /\ Directive(h, "name") = ds[i].value
    BY <1>1, <1>3, DirectiveIs
  <2>2. "value" \in DOMAIN ds[i] /\ i \in DOMAIN ds /\ ~HasColon(ds[i])
    BY <1>1, <1>2, <1>3
  <2> QED BY <1>3, <2>1, <2>2 DEF WholeNames
<1>4. CASE ~(u = h /\ \A i \in DOMAIN ds : ~HasColon(ds[i]))
  <2>1. PICK first \in DOMAIN ds :
          /\ HasColon(ds[first]) /\ \A j \in 1 .. first - 1 : ~HasColon(ds[j])
          /\ DOMAIN u.directives = 1 .. first
          /\ \A j \in 1 .. first - 1 : u.directives[j] = ds[j]
          /\ u.directives[first].name = ds[first].name
          /\ u.directives[first].value = StartOf(ds[first].value)
    BY <1>4, UpToColonIs
  <2>2. first \in Nat /\ Directive(u, "name") # "none"
    BY <1>1
  <2> HIDE DEF u, ds
  <2>3. PICK i \in 1 .. first : u.directives[i].name = "name" /\ Directive(u, "name") = u.directives[i].value
    BY <2>1, <2>2, DirectiveIs
  <2>4. CASE i = first
    BY <2>1, <2>3, <2>4 DEF CutNames, ds, u
  <2>5. CASE i \in 1 .. first - 1
    <3>1. u.directives[i] = ds[i] /\ ~HasColon(ds[i]) /\ i \in DOMAIN ds /\ "value" \in DOMAIN u.directives[i]
      BY <1>1, <1>2, <2>1, <2>5
    <3>2. Directive(u, "name") = ds[i].value /\ ds[i].name = "name" /\ "value" \in DOMAIN ds[i]
      BY <2>3, <3>1
    <3> QED BY <3>1, <3>2 DEF WholeNames, ds, u
  <2> QED BY <2>2, <2>4, <2>5
<1> QED BY <1>3, <1>4

LEMMA NameIsThere ==
    ASSUME NEW part, GoodPart(part), Held(part) # {}, ~PartFailsEarly(part),
           NEW d, d = HeaderOf(part, "contentDisposition", NoDisposition), d.value = "form-data",
           Directive(d, "name") # "none"
    PROVE  \E b \in DOMAIN part : Directive(d, "name") \in NamesIn(part[b])
<1> DEFINE b == First(part)
           h == PartHeaders(part)["contentDisposition"]
<1>1. "contentDisposition" \in DOMAIN PartHeaders(part) /\ d = UpToColon(h)
  BY DEF HeaderOf, NoDisposition
<1>2. PartHeaders(part) # <<>>
  BY <1>1, Empty
<1>3. b \in DOMAIN part /\ "headers" \in DOMAIN part[b] /\ PartHeaders(part) = part[b].headers
  BY <1>2, FirstIs DEF PartHeaders, Held
<1>4. h.directives \in Seq(ToSet(h.directives)) /\ ~ParseFails(UpToColon(h))
  BY <1>1, <1>3 DEF GoodPart, PartFailsEarly
<1>5. NamesIn(part[b]) = WholeNames(h.directives) \cup CutNames(h.directives)
  BY <1>1, <1>3 DEF NamesIn, WholeNames, CutNames
<1> HIDE DEF h, b
<1>6. Directive(UpToColon(h), "name") \in WholeNames(h.directives) \cup CutNames(h.directives)
  <2>1. Directive(UpToColon(h), "name") # "none"
    BY <1>1
  <2> QED BY <1>4, <2>1, KeptName
<1> QED BY <1>1, <1>3, <1>5, <1>6

LEMMA PartAdds ==
    ASSUME NEW part, GoodPart(part), Held(part) # {}, ~PartFailsEarly(part), PartGives(part) # Failure
    PROVE  KeysOfResult(PartGives(part)) \subseteq MayAdd(part)
<1> DEFINE d == HeaderOf(part, "contentDisposition", NoDisposition)
           content == Content(part)
           name == Directive(d, "name")
<1>1. CASE IsField(part)
  BY <1>1, FieldGives DEF MayAdd
<1>2. CASE ~IsField(part)
  <2>1. MayAdd(part) = {"0"} \cup UNION {KeysIn(part[b]) \cup NamesIn(part[b]) : b \in DOMAIN part}
    BY <1>2 DEF MayAdd
  <2>2. PICK c \in DOMAIN part : ContentOf(part) = part[c]
    BY FirstIs
  <2>3. PartGives(part) = ComposeFromDisposition(d, content)
    BY DEF PartGives
  <2>4. CASE d.value # "form-data" \/ name \in {"none", EmptyText}
    <3>1. PartGives(part) = content
      <4> HIDE DEF content, d
      <4> QED BY <2>3, <2>4 DEF ComposeFromDisposition
    <3>2. content = ParseWith(BodyParsers[Matching(PartType(part))], part[c])
      BY <2>2 DEF Content
    <3>3. "entries" \in DOMAIN part[c] => part[c].entries \in Seq(ToSet(part[c].entries))
      BY DEF GoodPart
    <3>4. KeysOfResult(content) \subseteq {"0"} \cup KeysIn(part[c])
      <4> HIDE DEF content
      <4> QED BY <3>1, <3>2, <3>3, ParsedKeys
    <3> HIDE DEF content
    <3> QED BY <2>1, <2>2, <3>1, <3>4
  <2>5. CASE ~(d.value # "form-data" \/ name \in {"none", EmptyText})
    <3> HIDE DEF content
    <3>1. content # Failure
      <4> HIDE DEF d
      <4> QED BY <2>3 DEF ComposeFromDisposition
    <3>2. PICK b \in DOMAIN part : name \in NamesIn(part[b])
      BY <2>5, NameIsThere
    <3>3. PartGives(part) = [kind |-> "object", value |-> [n \in {name} |-> content]]
      <4> HIDE DEF d
      <4> QED BY <2>3, <2>5, <3>1 DEF ComposeFromDisposition
    <3> HIDE DEF name
    <3>4. KeysOfResult(PartGives(part)) = {name}
      BY <3>3 DEF KeysOfResult, Spread
    <3> QED BY <2>1, <3>2, <3>4
  <2> QED BY <2>4, <2>5
<1> QED BY <1>1, <1>2

LEMMA ReceiveStep ==
    ASSUME BodyInv, NEW path \in BodyPaths, NEW m \in Bodies, ReceiveBody(path, m)
    PROVE  BodyInv'
<1> DEFINE type == m.contentType.value
           parser == ParserFor(path, type)
           result == ParseWith(parser, m.body)
           fails == ParseFails(m.contentType) \/ parser = "none"
<1>0. partResults' = <<>> /\ DOMAIN <<>> = {}
  BY Empty DEF ReceiveBody
<1>1. CASE fails
  <2>1. parsing'.pc = "failed" /\ parserCache' = parserCache
    BY <1>1 DEF ReceiveBody
  <2> QED BY <2>1 DEF BodyInv, ParsersInv, PartsInv, ParsedInv
<1>2. CASE ~fails
  <2>1. /\ parserCache' = Remembered(path, type)
        /\ parsing' = IF ParserType[parser] = "multipart/form-data"
                      THEN IF Directive(m.contentType, "boundary") = "none" THEN [pc |-> "failed", message |-> m]
                           ELSE [pc |-> "parts", message |-> m, path |-> path]
                      ELSE IF result = Failure THEN [pc |-> "failed", message |-> m]
                      ELSE [pc |-> "parsed", message |-> m, result |-> result.value]
    BY <1>2 DEF ReceiveBody
  <2>2. parser # "none"
    BY <1>2
  <2>3. ParserType[parser] = type
    BY <2>2, ParserForIs DEF BodyInv
  <2>4. ParsersInv'
    BY <2>1, RememberedIs DEF BodyInv
  <2>5. result.value = result.value /\ type = m.contentType.value
    OBVIOUS
  <2>6. ASSUME "entries" \in DOMAIN m.body, type = "application/x-www-form-urlencoded", result # Failure
        PROVE  m.body.entries \in Seq(ToSet(m.body.entries)) /\ result.value = ParseForm(m.body.entries)
    <3>1. m.body.entries \in Seq(ToSet(m.body.entries))
      BY <2>6, BodiesAssumption
    <3> HIDE DEF parser
    <3> QED BY <2>2, <2>3, <2>6, <3>1, FormIsParsed
  <2> HIDE DEF parser, result, type
  <2>7. PartsInv'
    <3>1. parsing'.pc = "parts" => parsing'.message = m /\ type = "multipart/form-data"
      BY <2>1, <2>3
    <3> QED BY <1>0, <2>5, <3>1 DEF PartsInv
  <2>8. ParsedInv'
    <3>1. parsing'.pc = "parsed" => /\ parsing'.message = m /\ parsing'.result = result.value
                                    /\ type # "multipart/form-data" /\ result # Failure
      BY <2>1, <2>3
    <3> SUFFICES ASSUME parsing'.pc = "parsed" PROVE MessageSurvives(parsing'.message, parsing'.result)
      BY DEF ParsedInv
    <3>2. parsing'.message = m /\ parsing'.result = result.value /\ type # "multipart/form-data" /\ result # Failure
      BY <3>1
    <3>3. MessageSurvives(m, result.value)
      BY <2>5, <2>6, <3>2 DEF MessageSurvives
    <3> QED BY <3>2, <3>3
  <2> QED BY <2>4, <2>7, <2>8 DEF BodyInv
<1> QED BY <1>1, <1>2

LEMMA ParsePartStep ==
    ASSUME BodyInv, NEW i, ParsePart(i)
    PROVE  BodyInv'
<1> DEFINE part == parsing.message.body.parts[i]
           type == HeaderOf(part, "contentType", TextPlain).value
           parser == ParserFor(parsing.path, type)
           parsed == ParseWith(parser, ContentOf(part))
           disposition == HeaderOf(part, "contentDisposition", NoDisposition)
           result == ComposeFromDisposition(disposition, parsed)
           fails == PartFailsEarly(part) \/ result = Failure
<1>0. parsing.pc = "parts"
  BY DEF ParsePart
<1>1. CASE fails
  <2>1. parsing'.pc = "failed" /\ parserCache' = parserCache
    BY <1>1 DEF ParsePart
  <2> QED BY <2>1 DEF BodyInv, ParsersInv, PartsInv, ParsedInv
<1>2. CASE ~fails
  <2>1. /\ parserCache' = Remembered(parsing.path, type)
        /\ partResults' = [j \in DOMAIN partResults \cup {i} |-> IF j = i THEN result ELSE partResults[j]]
        /\ parsing' = parsing
    BY <1>2 DEF ParsePart
  <2>2. ParsersInv'
    <3> HIDE DEF type
    <3> QED BY <2>1, RememberedIs DEF BodyInv
  <2>3. result # Failure /\ type = PartType(part)
    BY <1>2 DEF PartType
  <2>4. parsed # Failure
    <3> HIDE DEF parsed, disposition
    <3> QED BY <2>3 DEF ComposeFromDisposition
  <2>5. parser # "none"
    <3> HIDE DEF parser
    <3> QED BY <2>4, NoParserFails
  <2>6. parser = BodyParsers[Matching(type)]
    <3> HIDE DEF type
    <3> QED BY <2>5, ParserForIs DEF BodyInv
  <2>7. result = PartGives(part)
    BY <2>6 DEF PartGives, Content, PartType
  <2> HIDE DEF result, part
  <2>8. /\ DOMAIN partResults' = DOMAIN partResults \cup {i}
        /\ \A j \in DOMAIN partResults' : partResults'[j] = IF j = i THEN result ELSE partResults[j]
    BY <2>1
  <2>9. \A j \in DOMAIN partResults :
          /\ partResults[j] # Failure /\ partResults[j] = PartGives(parsing.message.body.parts[j])
          /\ ~PartFailsEarly(parsing.message.body.parts[j])
    BY <1>0 DEF BodyInv, PartsInv
  <2>10. result = PartGives(parsing.message.body.parts[i]) /\ ~PartFailsEarly(parsing.message.body.parts[i])
    BY <1>2, <2>7 DEF part
  <2>11. \A j \in DOMAIN partResults' :
           /\ partResults'[j] # Failure /\ partResults'[j] = PartGives(parsing.message.body.parts[j])
           /\ ~PartFailsEarly(parsing.message.body.parts[j])
    BY <2>3, <2>8, <2>9, <2>10
  <2>12. PartsInv'
    BY <1>0, <2>1, <2>11 DEF BodyInv, PartsInv
  <2>13. ParsedInv'
    BY <1>0, <2>1 DEF ParsedInv
  <2> QED BY <2>2, <2>12, <2>13 DEF BodyInv
<1> QED BY <1>1, <1>2

LEMMA PartsParsedStep ==
    ASSUME BodyInv, PartsParsed
    PROVE  BodyInv'
<1> DEFINE m == parsing.message
           parts == m.body.parts
           inOrder == [i \in DOMAIN parts |-> IF i \in DOMAIN partResults THEN partResults[i]
                                              ELSE [kind |-> "object", value |-> <<>>]]
           n == Len(parts)
           R == {inOrder[i] : i \in DOMAIN parts}
<1>1. /\ parsing.pc = "parts" /\ DOMAIN partResults = Prepared(parts) /\ UNCHANGED <<parserCache, partResults>>
      /\ parsing' = [pc |-> "parsed", message |-> m, result |-> Assigned(inOrder)]
  BY DEF PartsParsed
<1>2. /\ m \in Bodies /\ m.contentType.value = "multipart/form-data"
      /\ \A i \in DOMAIN partResults :
           partResults[i] # Failure /\ partResults[i] = PartGives(parts[i]) /\ ~PartFailsEarly(parts[i])
  BY <1>1 DEF BodyInv, PartsInv
<1>3. ASSUME "parts" \in DOMAIN m.body
      PROVE  FieldsSurvive(parts, Assigned(inOrder))
  <2>1. parts \in Seq(ToSet(parts)) /\ \A i \in DOMAIN parts : GoodPart(parts[i])
    BY <1>2, <1>3, BodiesAssumption DEF GoodPart
  <2> HIDE DEF parts
  <2>2. n \in Nat /\ DOMAIN parts = 1 .. n
    BY <2>1, LenProperties
  <2> HIDE DEF n
  <2>3. inOrder \in [1 .. n -> R]
    <3>1. DOMAIN inOrder = 1 .. n /\ \A i \in 1 .. n : inOrder[i] \in R
      BY <2>2
    <3>2. inOrder = [i \in 1 .. n |-> inOrder[i]]
      BY <2>2
    <3> HIDE DEF inOrder, R
    <3> QED BY <3>1, <3>2
  <2>4. \A i \in 1 .. n : inOrder[i] = IF i \in DOMAIN partResults THEN partResults[i] ELSE [kind |-> "object", value |-> <<>>]
    BY <2>2
  <2> HIDE DEF inOrder, R
  <2>5. inOrder \in Seq(R) /\ DOMAIN inOrder = 1 .. n
    BY <2>2, <2>3, AsSequence
  <2>6. Len(inOrder) = n
    BY <2>2, <2>5, LenProperties
  <2>7. KeysHold(Assigned(inOrder), inOrder, n)
    BY <2>5, <2>6, AllAssigned
  <2>8. ASSUME NEW i \in 1 .. n PROVE KeysOfResult(inOrder[i]) \subseteq MayAdd(parts[i])
    <3>1. CASE i \in DOMAIN partResults
      <4>1. inOrder[i] = PartGives(parts[i]) /\ inOrder[i] # Failure /\ ~PartFailsEarly(parts[i])
        BY <1>2, <2>4, <3>1
      <4>2. Held(parts[i]) # {}
        BY <1>1, <3>1 DEF Prepared
      <4> QED BY <2>1, <2>2, <4>1, <4>2, PartAdds
    <3>2. CASE i \notin DOMAIN partResults
      <4>1. inOrder[i] = [kind |-> "object", value |-> <<>>]
        BY <2>4, <3>2
      <4>2. KeysOfResult(inOrder[i]) = DOMAIN <<>>
        BY <4>1 DEF KeysOfResult, Spread
      <4> QED BY <4>2, Empty
    <3> QED BY <3>1, <3>2
  <2>9. ASSUME NEW i \in 1 .. n, IsField(parts[i])
        PROVE  /\ KeysOfResult(inOrder[i]) = {NameOf(parts[i])}
               /\ Spread(inOrder[i])[NameOf(parts[i])] = FieldContent(parts[i])
    <3>1. GoodPart(parts[i])
      BY <2>1, <2>2
    <3>2. i \in DOMAIN partResults
      BY <1>1, <2>2, <2>9, <3>1, FieldIsPrepared DEF Prepared
    <3>3. inOrder[i] = PartGives(parts[i]) /\ inOrder[i] # Failure
      BY <1>2, <2>4, <3>2
    <3> QED BY <2>9, <3>1, <3>3, FieldGives
  <2> DEFINE result == Assigned(inOrder)
  <2> HIDE DEF result
  <2>10. KeysHold(result, inOrder, n)
    BY <2>7 DEF result
  <2>11. ASSUME NEW i \in 1 .. n, IsField(parts[i]), \A j \in 1 .. n : i < j => NameOf(parts[i]) \notin MayAdd(parts[j])
         PROVE  NameOf(parts[i]) \in DOMAIN result /\ result[NameOf(parts[i])] = FieldContent(parts[i])
    <3>1. NameOf(parts[i]) \in KeysOfResult(inOrder[i]) /\ Spread(inOrder[i])[NameOf(parts[i])] = FieldContent(parts[i])
      BY <2>9, <2>11
    <3>2. \A j \in 1 .. n : i < j => NameOf(parts[i]) \notin KeysOfResult(inOrder[j])
      BY <2>8, <2>11
    <3> QED BY <2>10, <3>1, <3>2 DEF KeysHold
  <2>12. ASSUME NEW k \in DOMAIN result PROVE \E i \in 1 .. n : k \in MayAdd(parts[i])
    <3>1. PICK i \in 1 .. n : k \in KeysOfResult(inOrder[i])
      BY <2>10 DEF KeysHold
    <3> QED BY <2>8, <3>1
  <2>13. FieldsSurvive(parts, result)
    BY <2>2, <2>11, <2>12 DEF FieldsSurvive
  <2> QED BY <2>13 DEF result
<1> HIDE DEF inOrder
<1>4. ParsersInv' /\ PartsInv'
  BY <1>1 DEF BodyInv, ParsersInv, PartsInv
<1>5. MessageSurvives(m, Assigned(inOrder))
  BY <1>2, <1>3 DEF MessageSurvives
<1>6. ParsedInv'
  <2>1. parsing'.message = m /\ parsing'.result = Assigned(inOrder)
    BY <1>1
  <2> HIDE DEF m
  <2> QED BY <1>5, <2>1 DEF ParsedInv
<1> QED BY <1>4, <1>6 DEF BodyInv

LEMMA BodyStep == BodyInv /\ [BodyNext]_bodyVars => BodyInv'
<1> SUFFICES ASSUME BodyInv, [BodyNext]_bodyVars PROVE BodyInv'
  OBVIOUS
<1>1. ASSUME NEW path \in BodyPaths, NEW m \in Bodies, ReceiveBody(path, m) PROVE BodyInv'
  BY <1>1, ReceiveStep
<1>2. ASSUME NEW i, ParsePart(i) PROVE BodyInv'
  BY <1>2, ParsePartStep
<1>3. CASE PartsParsed
  BY <1>3, PartsParsedStep
<1>4. CASE UNCHANGED bodyVars
  BY <1>4 DEF bodyVars, BodyInv, ParsersInv, PartsInv, ParsedInv
<1> QED BY <1>1, <1>2, <1>3, <1>4 DEF BodyNext

LEMMA BodyBegins == BodyInit => BodyInv
<1> SUFFICES ASSUME BodyInit PROVE BodyInv
  OBVIOUS
<1>1. parserCache = <<>> /\ parsing.pc = "waiting"
  BY DEF BodyInit, Waiting
<1>2. DOMAIN parserCache = {}
  BY <1>1, Empty
<1> QED BY <1>1, <1>2 DEF BodyInv, ParsersInv, PartsInv, ParsedInv

LEMMA BodyInvImplies == ASSUME BodyInv PROVE BodiesSurvive
<1> DEFINE m == parsing.message
           r == parsing.result
<1> SUFFICES ASSUME parsing.pc = "parsed"
             PROVE  /\ ("parts" \in DOMAIN m.body /\ m.contentType.value = "multipart/form-data") =>
                         FieldsSurvive(m.body.parts, r)
                    /\ ("entries" \in DOMAIN m.body /\ m.contentType.value = "application/x-www-form-urlencoded") =>
                         LET Sent(k) == {i \in DOMAIN m.body.entries :
                                            KeyOf(m.body.entries[i]) = k /\ ValueOf(m.body.entries[i]) # EmptyText}
                             Kept(k) == {j \in DOMAIN r[k] : r[k][j] # EmptyText}
                         IN /\ DOMAIN r = {KeyOf(m.body.entries[i]) : i \in DOMAIN m.body.entries}
                            /\ \A k \in DOMAIN r : \E place \in [Sent(k) -> Kept(k)] :
                                 /\ \A j \in Kept(k) : \E i \in Sent(k) : place[i] = j
                                 /\ \A i, j \in Sent(k) : i < j => place[i] < place[j]
                                 /\ \A i \in Sent(k) : r[k][place[i]] = ValueOf(m.body.entries[i])
  BY DEF BodiesSurvive, FieldsSurvive, FieldContent
<1>1. MessageSurvives(m, r)
  BY DEF BodyInv, ParsedInv
<1> HIDE DEF m, r
<1>2. ASSUME "parts" \in DOMAIN m.body, m.contentType.value = "multipart/form-data"
      PROVE  FieldsSurvive(m.body.parts, r)
  BY <1>1, <1>2 DEF MessageSurvives
<1>3. ASSUME "entries" \in DOMAIN m.body, m.contentType.value = "application/x-www-form-urlencoded"
      PROVE  /\ m.body.entries \in Seq(ToSet(m.body.entries))
             /\ \E T : FormHolds(T, r, m.body.entries, Len(m.body.entries))
  <2>1. m.body.entries \in Seq(ToSet(m.body.entries)) /\ r = ParseForm(m.body.entries)
    BY <1>1, <1>3 DEF MessageSurvives
  <2> QED BY <2>1, FormParsed
<1>4. ASSUME NEW entries, entries \in Seq(ToSet(entries)), NEW T, FormHolds(T, r, entries, Len(entries))
      PROVE  LET Sent(k) == {i \in DOMAIN entries : KeyOf(entries[i]) = k /\ ValueOf(entries[i]) # EmptyText}
                 Kept(k) == {j \in DOMAIN r[k] : r[k][j] # EmptyText}
             IN /\ DOMAIN r = {KeyOf(entries[i]) : i \in DOMAIN entries}
                /\ \A k \in DOMAIN r : \E place \in [Sent(k) -> Kept(k)] :
                     /\ \A j \in Kept(k) : \E i \in Sent(k) : place[i] = j
                     /\ \A i, j \in Sent(k) : i < j => place[i] < place[j]
                     /\ \A i \in Sent(k) : r[k][place[i]] = ValueOf(entries[i])
  <2>1. DOMAIN entries = 1 .. Len(entries)
    BY LenProperties
  <2>2. DOMAIN r = {KeyOf(entries[i]) : i \in DOMAIN entries}
    BY <1>4, <2>1 DEF FormHolds
  <2>3. ASSUME NEW k \in DOMAIN r
        PROVE  \E place : PlacedBy(place, entries, k, Len(entries), r[k])
    BY <1>4, <2>3 DEF FormHolds, Placed
  <2>4. ASSUME NEW k \in DOMAIN r
        PROVE  LET Sent == {i \in DOMAIN entries : KeyOf(entries[i]) = k /\ ValueOf(entries[i]) # EmptyText}
                   Kept == {j \in DOMAIN r[k] : r[k][j] # EmptyText}
               IN \E place \in [Sent -> Kept] :
                     /\ \A j \in Kept : \E i \in Sent : place[i] = j
                     /\ \A i, j \in Sent : i < j => place[i] < place[j]
                     /\ \A i \in Sent : r[k][place[i]] = ValueOf(entries[i])
    <3> DEFINE Sent == {i \in DOMAIN entries : KeyOf(entries[i]) = k /\ ValueOf(entries[i]) # EmptyText}
               Kept == {j \in DOMAIN r[k] : r[k][j] # EmptyText}
    <3>1. PICK place : PlacedBy(place, entries, k, Len(entries), r[k])
      BY <2>3
    <3>2. Sent = SentUpTo(entries, k, Len(entries)) /\ Kept = ValuesIn(r[k])
      BY <2>1 DEF SentUpTo, ValuesIn
    <3> HIDE DEF Sent, Kept
    <3>3. /\ place \in [Sent -> Kept]
          /\ \A j \in Kept : \E i \in Sent : place[i] = j
          /\ \A i, j \in Sent : i < j => place[i] < place[j]
          /\ \A i \in Sent : r[k][place[i]] = ValueOf(entries[i])
      BY <3>1, <3>2 DEF PlacedBy
    <3> QED BY <3>3 DEF Sent, Kept
  <2> QED BY <2>2, <2>4, Zenon
<1> QED BY <1>2, <1>3, <1>4, Zenon

(* For any bodies and parsers, in whatever order parts are parsed and whatever*)
(* was parsed before: a field with content arrives as its own type reads it, *)
(* unless a later part adds its name, whatever broken parts are beside it;   *)
(* nothing arrives that no part has; and a form gives each key, as it was    *)
(* sent, all its values that are not empty, up to a second "=", in order.    *)
THEOREM BodiesSurviveAlways == BodySpec => []BodiesSurvive
<1>1. BodySpec => []BodyInv
  BY BodyBegins, BodyStep, PTL DEF BodySpec
<1> QED BY <1>1, BodyInvImplies, PTL
===============================================================================
