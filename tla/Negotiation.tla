----------------------------- MODULE Negotiation -----------------------------
(* How the HTTP pipeline chooses a renderer and a content type for what a     *)
(* request accepts: parseMimeTypes, selectRenderers, the renderers that are   *)
(* tried one after another, and determineContentType.  (The cache of renderers *)
(* is a provider of what it is injected into, so that it is empty whenever it  *)
(* is asked: every request selects anew.)                                      *)
(*                                                                            *)
(* An entry of an Accept header is [type, subtype, q]; q is the weight in     *)
(* tenths and whether it is written with a decimal point.                     *)
EXTENDS Naturals, Sequences, SequencesExt

CONSTANTS Renderers,     \* in the order of registration
          RendererTypes, \* the types given to the decorator of each
          DefaultTypeOf, \* defaultContentType of each
          DefaultRenderer,
          AcceptHeaders, \* sequences of entries; <<>> when there is no header
          MaxRendered    \* bound: requests rendered

(* A class that is not decorated as a renderer renders no type.                *)
ASSUME NegotiationAssumption ==
  /\ Renderers \in Seq(DOMAIN RendererTypes) /\ DefaultRenderer \in DOMAIN RendererTypes
  /\ DefaultRenderer \in ToSet(Renderers) \/ RendererTypes[DefaultRenderer] = <<>>
  /\ AcceptHeaders \subseteq Seq([type : STRING, subtype : STRING, q : [tenths : Nat, dotted : BOOLEAN]])

VARIABLES asking,        \* the request being rendered
          rendered       \* requests rendered so far
negotiationVars == <<asking, rendered>>

-----------------------------------------------------------------------------
(* A weight counts only if it is written with a decimal point: q=0 is read as  *)
(* q=1, and q=0.0 does not exclude a type.                                     *)
Weight(e) == IF e.q.dotted THEN e.q.tenths ELSE 10

\* Heavier with a mistake: ascending weights.
Lighter(a, b) == a.weight < b.weight \/ (a.weight = b.weight /\ a.index < b.index)

Heavier(a, b) == a.weight > b.weight \/ (a.weight = b.weight /\ a.index < b.index)

(* Array.sort: a set in an order of its elements, given by its pairs.          *)
ArrangedBy(S, order) ==
  CHOOSE s \in SetToSeqs(S) : \A i, j \in DOMAIN s : i < j => <<s[i], s[j]>> \in order

(* parseMimeTypes: by weight, then as written.                                 *)
Parsed(header, i) == [type |-> header[i].type, subtype |-> header[i].subtype,
                      weight |-> Weight(header[i]), index |-> i]
Parse(header) ==
  LET places == DOMAIN header
      order == ArrangedBy(places, {p \in places \X places : Heavier(Parsed(header, p[1]), Parsed(header, p[2]))})
  IN [k \in DOMAIN order |-> Parsed(header, order[k])]
FullType(t) == <<t.type, t.subtype>>

Compatible(allowed, target) ==
  /\ allowed.type \in {"*", target.type}
  /\ allowed.subtype \in {"*", target.subtype}
Identical(a, b) == FullType(a) = FullType(b)

Supports(r, t) == \E i \in DOMAIN RendererTypes[r] : Compatible(t, RendererTypes[r][i])
Direct(r, t) == \E i \in DOMAIN RendererTypes[r] : Identical(t, RendererTypes[r][i])

(* selectRenderers: a renderer comes with the first accepted type it supports, *)
(* among others those that are named by that type before those that a wildcard *)
(* admits, then in the order of registration.                                  *)
ComesWith(r, types) == SelectInSeq(types, LAMBDA t : Supports(r, t))
IsNamed(r, types) == Direct(r, types[ComesWith(r, types)])
Sooner(i, j, types) ==
  LET a == Renderers[i]
      b == Renderers[j]
  IN \/ ComesWith(a, types) < ComesWith(b, types)
     \/ /\ ComesWith(a, types) = ComesWith(b, types)
        /\ (IsNamed(a, types) /\ ~IsNamed(b, types)) \/ (IsNamed(a, types) = IsNamed(b, types) /\ i < j)
SelectRenderers(types) ==
  LET able == {i \in DOMAIN Renderers : ComesWith(Renderers[i], types) # 0}
      chosen == ArrangedBy(able, {p \in able \X able : Sooner(p[1], p[2], types)})
  IN [k \in DOMAIN chosen |-> Renderers[chosen[k]]]

(* An absent header is parsed as an empty type, which nothing supports.        *)
Selection(types) == IF SelectRenderers(types) = <<>> THEN <<DefaultRenderer>> ELSE SelectRenderers(types)

(* determineContentType: the accepted type itself, even with a wildcard in it, *)
(* unless it is any type.                                                      *)
ContentType(r, types) ==
  LET i == ComesWith(r, types)
  IN IF i = 0 \/ FullType(types[i]) = <<"*", "*">> THEN DefaultTypeOf[r] ELSE FullType(types[i])

-----------------------------------------------------------------------------
Idle == [pc |-> "idle"]
NegotiationInit == asking = Idle /\ rendered = 0

Select(header) ==
  /\ asking.pc \in {"idle", "rendered", "failed"} /\ rendered < MaxRendered
  /\ asking' = [pc |-> "selected", header |-> header, types |-> Parse(header),
                left |-> Selection(Parse(header)), broken |-> {}]
  /\ rendered' = rendered + 1

(* A renderer that cannot be injected is passed over.                          *)
InjectFails ==
  /\ asking.pc = "selected"
  /\ asking' = [asking EXCEPT !.left = Tail(@), !.broken = @ \cup {Head(asking.left)},
                              !.pc = IF Len(asking.left) = 1 THEN "failed" ELSE "selected"]
  /\ UNCHANGED rendered

Render ==
  /\ asking.pc = "selected"
  /\ asking' = [pc |-> "rendered", header |-> asking.header, broken |-> asking.broken, by |-> Head(asking.left),
                as |-> ContentType(Head(asking.left), asking.types)]
  /\ UNCHANGED rendered

NegotiationNext ==
  (\E header \in AcceptHeaders : Select(header)) \/ InjectFails \/ Render
NegotiationSpec == NegotiationInit /\ [][NegotiationNext]_negotiationVars

-----------------------------------------------------------------------------
(* The highest weight, then the first place, at which a header admits what a   *)
(* renderer renders: a renderer is preferred by it.                            *)
Admits(header, r) == {i \in DOMAIN header : Supports(r, header[i])}
BetterEntry(header, i, j) ==
  Weight(header[i]) > Weight(header[j]) \/ (Weight(header[i]) = Weight(header[j]) /\ i < j)
BestEntry(header, r) == CHOOSE i \in Admits(header, r) : \A j \in Admits(header, r) \ {i} : BetterEntry(header, i, j)

(* Whichever renderers fail to be injected, a response is rendered by one the  *)
(* request admits, if one is, and that can be injected; none of those that     *)
(* could is admitted by an entry of higher preference, nor names the type of   *)
(* the same entry when the chosen one does not; and the content type is that   *)
(* entry, or the default one of the renderer.  No request fails while one it   *)
(* admits has not been tried.                                                  *)
BestRendererAnswers ==
  LET h == asking.header
      able == {r \in ToSet(Renderers) : Admits(h, r) # {}}
  IN /\ asking.pc = "failed" => able \subseteq asking.broken
     /\ asking.pc = "rendered" =>
          LET entry == BestEntry(h, asking.by)
          IN IF able = {} THEN asking.by = DefaultRenderer /\ asking.as = DefaultTypeOf[DefaultRenderer]
             ELSE /\ asking.by \in able
                  /\ asking.as \in {FullType(h[entry]), DefaultTypeOf[asking.by]}
                  /\ \A r \in able \ asking.broken :
                       /\ ~BetterEntry(h, BestEntry(h, r), entry)
                       /\ BestEntry(h, r) = entry /\ Direct(r, h[entry]) => Direct(asking.by, h[entry])
==============================================================================
