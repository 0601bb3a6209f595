---------------------------- MODULE RouteRequests ----------------------------
(* Requests to the routes of Routing, on Express: the binding that matches, the *)
(* authorization of the caller, and CORS: which requests are preflights or from *)
(* another origin, what the route and its siblings allow, the response headers. *)
(*                                                                            *)
(* An origin is [web, host]: web says that it starts with http:// or https://. *)
(* A caller is [scheme, known, satisfies]: the scheme of its Authorization      *)
(* header or "", whether the scheme's service knows it, the conditions on its   *)
(* request's parameters that hold.                                             *)
EXTENDS Routing

CONSTANTS GlobalCors,       \* settings of HttpPipelineModule.cors, as in a configuration
          SafelistHeaders,  \* CORS_SAFELIST_HEADERS
          PartOf,           \* pairs of header names, the first part of the second
          Schemes,          \* schemes that have an AuthorizationService
          Origins, Hosts, Callers, RequestPaths, RequestMethods, RequestHeaders,
          MaxRequests       \* bound: requests
ASSUME SafelistAssumption == IsFiniteSet(SafelistHeaders)

VARIABLES request,          \* the request last answered
          answer,           \* [outcome, route, cors]; cors: the response's CORS headers
          requests          \* requests so far
requestVars == <<request, answer, requests>>

NoOrigin == [web |-> TRUE, host |-> ""]
NoHeaders == [origin |-> NoOrigin, methods |-> {}, headers |-> {}, credentials |-> FALSE]
NoAnswer == [outcome |-> "none", cors |-> NoHeaders]

-----------------------------------------------------------------------------
(* generateCorsProviders: which settings of a route become providers.  Not the  *)
(* headers that it allows, and credentials only if it allows them.             *)
OwnProviders(values) ==
  {s \in DOMAIN values \ {"allowHeaders"} : s = "allowCredentials" => values[s] = TRUE}
(* The settings a route's requests see: its own before the global ones.         *)
Settings(route) == [s \in OwnProviders(route.cors.values) |-> route.cors.values[s]] @@ GlobalCors
Setting(route, s, default) == IF s \in DOMAIN Settings(route) THEN Settings(route)[s] ELSE default

(* CorsOriginWhitelistProvider: the origin itself if an entry matches it.       *)
AllowOrigin(route, q) == IF q.origin \in Setting(route, "allowOrigin", {}) THEN q.origin ELSE NoOrigin
AllowHeaders == SafelistHeaders \cup (IF "allowHeaders" \in DOMAIN GlobalCors THEN GlobalCors.allowHeaders ELSE {})

(* CorsHeaderValues, for the methods provided.                                 *)
CorsHeaderValues(route, q, methods) ==
  [origin |-> AllowOrigin(route, q), methods |-> methods, headers |-> AllowHeaders,
   credentials |-> Setting(route, "allowCredentials", FALSE)]

(* corsRequestAllowed; a preflight names the headers of the request to come, and *)
(* the test for one looks for its name in the joined list of allowed ones.      *)
Asked(q) == IF q.method = "OPTIONS" THEN q.requestHeaders ELSE {}
CorsRequestAllowed(cors, q) ==
  /\ cors.origin # NoOrigin /\ cors.methods # {}
  /\ \A h \in Asked(q) : \E a \in cors.headers : h = a \/ <<h, a>> \in PartOf

\* DetermineAllowedMethods with a mistake: the route's origins decide for its siblings.
AllowedAlike(route, q) ==
  {s.httpMethod : s \in {t \in SiblingRoutes(route) : CorsRequestAllowed(CorsHeaderValues(route, q, {"any"}), q)}}

(* determineAllowedMethods: the methods of the siblings that allow the request, *)
(* siblings without CORS included, by the global settings.                     *)
DetermineAllowedMethods(route, q) ==
  {s.httpMethod : s \in {t \in SiblingRoutes(route) : CorsRequestAllowed(CorsHeaderValues(t, q, {t.httpMethod}), q)}}

(* The CORS providers of a route for a request.                                *)
CorsHeaders(route, q) ==
  CorsHeaderValues(route, q, IF route.cors.kind = "none" THEN {} ELSE DetermineAllowedMethods(route, q))

(* isCorsRequest: the match is destructured even if there is none.             *)
IsCorsRequest(q) == q.origin # NoOrigin /\ q.origin.host # q.host
IsCorsFails(q) == q.origin # NoOrigin /\ ~q.origin.web

-----------------------------------------------------------------------------
(* The conditions of a route, evaluated for the caller; not for OPTIONS, whose  *)
(* requests have no authorization providers.  IsAuthorized needs the user, the  *)
(* user the service of the header's scheme.                                    *)
Authorization(route, q) ==
  IF q.method = "OPTIONS" THEN "allowed"
  ELSE IF "IsAuthorized" \in route.authorization /\ q.caller.scheme = "" THEN "unauthorized"
  ELSE IF "IsAuthorized" \in route.authorization /\ q.caller.scheme \notin Schemes THEN "failed"
  ELSE IF "IsAuthorized" \in route.authorization /\ ~q.caller.known THEN "forbidden"
  ELSE IF route.authorization \ {"IsAuthorized"} \subseteq q.caller.satisfies THEN "allowed"
  ELSE "forbidden"

Bound(q) == SelectInSeq(bindings, LAMBDA b : b.httpMethod = q.method /\ b.path = q.path)

(* execRoute: authorization, then the pipeline, whose preparer asks whether     *)
(* this is a CORS request and whose transformer adds the CORS headers.          *)
Outcome(route, q) ==
  IF Authorization(route, q) # "allowed" THEN Authorization(route, q)
  ELSE IF IsCorsFails(q) THEN "failed"
  ELSE IF IsCorsRequest(q) /\ ~CorsRequestAllowed(CorsHeaders(route, q), q) THEN "denied"
  ELSE "handled"
HeadersOf(route, q) ==
  IF Outcome(route, q) = "handled" /\ (IsCorsRequest(q) \/ route.class = "CorsHandler")
    THEN CorsHeaders(route, q) ELSE NoHeaders

Request(q) ==
  /\ phase = "mapped" /\ requests < MaxRequests
  /\ requests' = requests + 1 /\ request' = q
  /\ answer' = IF Bound(q) = 0 THEN [NoAnswer EXCEPT !.outcome = "not found"]
               ELSE [outcome |-> Outcome(bindings[Bound(q)], q), cors |-> HeadersOf(bindings[Bound(q)], q)]
  /\ UNCHANGED routingVars

RequestSet ==
  [path : RequestPaths, method : RequestMethods, origin : Origins \cup {NoOrigin}, host : Hosts,
   caller : Callers, requestHeaders : RequestHeaders]

RequestsInit == RoutingInit /\ request = [method |-> "none"] /\ answer = NoAnswer /\ requests = 0
RequestsNext ==
  \/ RoutingNext /\ UNCHANGED requestVars
  \/ \E q \in RequestSet : Request(q)
RequestsSpec == RequestsInit /\ [][RequestsNext]_<<routingVars, requestVars>>

-----------------------------------------------------------------------------
\* What the same page would get from its preflight, and then from its request.
Preflight(q, method) == [q EXCEPT !.method = "OPTIONS"]
PreflightAnswer(q) ==
  LET b == Bound(Preflight(q, q.method))
  IN IF b = 0 \/ bindings[b].class # "CorsHandler" THEN NoHeaders ELSE HeadersOf(bindings[b], Preflight(q, q.method))
Permits(cors, q) ==
  cors.origin = q.origin /\ q.method \in cors.methods /\ q.requestHeaders \subseteq cors.headers
RoutesAt(path) == {r \in ToSet(routes) : r.path = path}
Alike(path) == \A r, s \in RoutesAt(path) : r.cors = s.cors /\ r.httpMethod # "OPTIONS"

SameCors(path, cors) == \A r \in RoutesAt(path) : r.cors.kind # "none" => r.cors = cors

(* A request that is not a preflight is handled only if every condition that    *)
(* the decorators declare for its member and class holds for the caller.        *)
(* A preflight and the request it is for agree, if the route has CORS of its    *)
(* own: what the preflight permits is not denied for CORS, and is answered with *)
(* the same origin; and with the same credentials, if the routes of the path    *)
(* that have CORS have the same.  (If not, the preflight's are those of the     *)
(* route that was mapped first.)  If all routes of the path have the same CORS, *)
(* and none is for OPTIONS, what is handled has been permitted.  An origin that *)
(* is no web URL never gets to a handler: with no preflight, nor without one.   *)
ServedAsDeclared ==
  LET q == request
      b == Bound(q)
      cross == IsCorsRequest(q) /\ q.origin.web
  IN requests > 0 /\ b # 0 /\ q.method # "OPTIONS" =>
       LET route == bindings[b]
           declared == UNION {ToSet(a.conditions) : a \in Declared(route.class, route.member, "authorized")}
           permitted == Permits(PreflightAnswer(q), q)
       IN /\ answer.outcome = "handled" =>
               declared \subseteq q.caller.satisfies \cup (IF q.caller.known THEN {"IsAuthorized"} ELSE {})
          /\ cross /\ permitted /\ route.cors.kind # "none" =>
               /\ answer.outcome # "denied"
               /\ answer.outcome = "handled" =>
                    /\ answer.cors.origin = q.origin
                    /\ SameCors(q.path, route.cors) => answer.cors.credentials = PreflightAnswer(q).credentials
          /\ cross /\ Alike(q.path) /\ answer.outcome = "handled"
               /\ q.requestHeaders \subseteq AllowHeaders => permitted
          /\ answer.outcome = "denied" => IsCorsRequest(q)
          /\ IsCorsFails(q) => answer.outcome # "handled" /\ ~permitted
=============================================================================
