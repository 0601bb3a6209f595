------------------------------- MODULE Routing -------------------------------
(* Where the routes of an MVC application come from: decorators that run one   *)
(* by one while the controller classes are loaded and leave metadata, the      *)
(* routes generated from it, and their bindings in the Express application.    *)
(*                                                                            *)
(* A path is a sequence of segments and slashes.  A CORS configuration is      *)
(* [kind, values], where kind is "none", "true" or "config" and values has the *)
(* settings given.                                                            *)
EXTENDS Naturals, Sequences, SequencesExt, FiniteSets, Functions, TLC

CONSTANTS Applications,  \* sets of decorations [class, member, kind, ...]; member Itself is the class
          Slash

Itself == ""   \* the member of a decoration of a class itself
(* What decorators say; a class is registered as a controller at most once.    *)
DecorationSet ==
  [class : STRING, member : {Itself}, kind : {"controller"}, path : Seq(STRING)]
  \cup [class : STRING, member : STRING \ {Itself}, kind : {"http"}, method : STRING, path : Seq(STRING)]
  \cup [class : STRING, member : STRING, kind : {"authorized"}, conditions : Seq(STRING)]
IsCorsDecoration(d) ==
  /\ DOMAIN d = {"class", "member", "kind", "cors"} /\ d.class \in STRING /\ d.member \in STRING
  /\ d.kind = "cors" /\ d.cors.kind # "none"
ASSUME ApplicationsAssumption ==
  \A ds \in Applications :
    /\ \A d \in ds : (d \in DecorationSet \/ IsCorsDecoration(d)) /\ d.class # "CorsHandler"
    /\ \A d, e \in ds : d.kind = "controller" /\ e.kind = "controller" /\ d.class = e.class => d = e

VARIABLES decorations,   \* the decorations of the application's classes
          applied,       \* the decorations that have run
          controllers,   \* classes in the repository of controllers, in order
          meta,          \* controller metadata: class to [path, cors, authorization, routeMap]
          phase,         \* "decorating", "generated", "mapped" or "error"
          routes,        \* what generateRoutes returned
          bindings,      \* routes as bound in the Express application, in order
          corsRoutes     \* paths that have their CORS route
routingVars == <<decorations, applied, controllers, meta, phase, routes, bindings, corsRoutes>>

NoCors == [kind |-> "none", values |-> <<>>]

-----------------------------------------------------------------------------
(* Metadata of a member: its index in the routeMap, made if need be.  Made by  *)
(* @Authorized or a condition, it has no routePaths until an HTTP or @Cors     *)
(* decorator adds them.                                                       *)
EntryFor(c, member) == SelectInSeq(meta[c].routeMap, LAMBDA e : e.member = member)
NewEntry(member) == [member |-> member, routed |-> FALSE, paths |-> <<>>, cors |-> NoCors, authorization |-> <<>>]
MethodEntry(c, member) == IF EntryFor(c, member) = 0 THEN NewEntry(member) ELSE meta[c].routeMap[EntryFor(c, member)]

WithEntry(c, entry) ==
  LET i == EntryFor(c, entry.member)
  IN [meta EXCEPT ![c].routeMap = IF i = 0 THEN Append(@, entry) ELSE [@ EXCEPT ![i] = entry]]

(* entryMethods.add: a method once, in the set of its path.                    *)
WithMethod(paths, path, method) ==
  LET i == SelectInSeq(paths, LAMBDA p : p.path = path)
  IN IF i = 0 THEN Append(paths, [path |-> path, methods |-> <<method>>])
     ELSE IF method \in ToSet(paths[i].methods) THEN paths
     ELSE [paths EXCEPT ![i].methods = Append(@, method)]

-----------------------------------------------------------------------------
RoutingInit ==
  /\ decorations \in Applications /\ applied = {} /\ controllers = <<>> /\ phase = "decorating"
  /\ meta = [c \in {d.class : d \in decorations} |-> [path |-> <<>>, cors |-> NoCors, authorization |-> <<>>, routeMap |-> <<>>]]
  /\ routes = <<>> /\ bindings = <<>> /\ corsRoutes = {}

(* Decorators of members run before those of their class.                      *)
Runs(d) ==
  /\ phase = "decorating" /\ d \notin applied
  /\ d.member = Itself => {e \in decorations : e.class = d.class /\ e.member # Itself} \subseteq applied
  /\ applied' = applied \cup {d}
  /\ UNCHANGED <<decorations, phase, routes, bindings, corsRoutes>>

HttpMethodDecorator(d) ==
  /\ d.kind = "http" /\ Runs(d)
  /\ meta' = WithEntry(d.class,
       [MethodEntry(d.class, d.member) EXCEPT !.routed = TRUE, !.paths = WithMethod(@, d.path, d.method)])
  /\ UNCHANGED controllers

Cors(d) ==
  /\ d.kind = "cors" /\ Runs(d)
  /\ meta' = IF d.member = Itself THEN [meta EXCEPT ![d.class].cors = d.cors]
             ELSE WithEntry(d.class, [MethodEntry(d.class, d.member) EXCEPT !.routed = TRUE, !.cors = d.cors])
  /\ UNCHANGED controllers

(* @Authorized, and the conditions of parameters.                              *)
AuthorizedDecorator(d) ==
  /\ d.kind = "authorized" /\ Runs(d)
  /\ meta' = IF d.member = Itself THEN [meta EXCEPT ![d.class].authorization = @ \o d.conditions]
             ELSE WithEntry(d.class, [MethodEntry(d.class, d.member) EXCEPT !.authorization = @ \o d.conditions])
  /\ UNCHANGED controllers

ControllerDecorator(d) ==
  /\ d.kind = "controller" /\ Runs(d)
  /\ meta' = [meta EXCEPT ![d.class].path = d.path]
  /\ controllers' = Append(controllers, d.class)

-----------------------------------------------------------------------------
(* A path of slashes only in part: '' and 'x' make '//x'.                       *)
NormalizePath(a, b) ==
  (IF IsPrefix(<<Slash>>, a) THEN a ELSE <<Slash>> \o a)
    \o (IF ~IsSuffix(<<Slash>>, a) /\ b # <<>> THEN <<Slash>> ELSE <<>>)
    \o (IF IsPrefix(<<Slash>>, b) THEN Tail(b) ELSE b)

GetCorsConfig(controllerCors, methodCors) ==
  IF controllerCors.kind = "none" THEN methodCors
  ELSE IF methodCors.kind = "none" THEN controllerCors
  ELSE IF controllerCors.kind = "true" /\ methodCors.kind = "true" THEN controllerCors
  ELSE [kind |-> "config", values |-> methodCors.values @@ controllerCors.values]

\* MergeAuthorization with a mistake: a member's conditions hide those of its class.
OwnAuthorization(m, e) == ToSet(IF e.authorization = <<>> THEN m.authorization ELSE e.authorization)

(* The conditions of both, each once.                                          *)
MergeAuthorization(m, e) == ToSet(m.authorization) \cup ToSet(e.authorization)

RoutesOf(c, e) ==
  FlattenSeq([p \in DOMAIN e.paths |-> [h \in DOMAIN e.paths[p].methods |->
    [httpMethod |-> e.paths[p].methods[h], path |-> NormalizePath(meta[c].path, e.paths[p].path),
     class |-> c, member |-> e.member, cors |-> GetCorsConfig(meta[c].cors, e.cors),
     authorization |-> MergeAuthorization(meta[c], e)]]])
Candidates ==
  FlattenSeq([i \in DOMAIN controllers |-> LET c == controllers[i] IN
    FlattenSeq([j \in DOMAIN meta[c].routeMap |-> RoutesOf(c, meta[c].routeMap[j])])])

Unrouted == \E c \in ToSet(controllers) : \E e \in ToSet(meta[c].routeMap) : ~e.routed
Conflicting(rs) ==
  \E i, j \in DOMAIN rs : i # j /\ rs[i].path = rs[j].path /\ rs[i].httpMethod = rs[j].httpMethod

(* generateRoutes, when the application asks for its routes, all classes being *)
(* loaded; the siblings of a route are the routes of its path.                 *)
GenerateRoutes ==
  /\ phase = "decorating" /\ applied = decorations
  /\ IF Unrouted \/ Conflicting(Candidates) THEN phase' = "error" /\ routes' = <<>>
     ELSE phase' = "generated" /\ routes' = Candidates
  /\ UNCHANGED <<decorations, applied, controllers, meta, bindings, corsRoutes>>
SiblingRoutes(route) == {s \in ToSet(routes) : s.path = route.path}

(* mapRoute: the first CORS route of a path brings an OPTIONS route with its   *)
(* configuration, unless it is one and has a configuration of its own.         *)
OptionsRoute(route) == [route EXCEPT !.httpMethod = "OPTIONS", !.class = "CorsHandler", !.member = "handleOptionsRequest"]
MapRoute ==
  /\ phase = "generated" /\ routes # <<>>
  /\ LET mapped == Cardinality({i \in DOMAIN bindings : bindings[i].class # "CorsHandler"})
         route == routes[mapped + 1]
         first == route.cors.kind # "none" /\ route.path \notin corsRoutes
     IN /\ corsRoutes' = IF first THEN corsRoutes \cup {route.path} ELSE corsRoutes
        /\ bindings' = bindings
             \o (IF first /\ ~(route.cors.kind = "config" /\ route.httpMethod = "OPTIONS")
                 THEN <<OptionsRoute(route)>> ELSE <<>>)
             \o <<route>>
        /\ phase' = IF mapped + 1 = Len(routes) THEN "mapped" ELSE "generated"
  /\ UNCHANGED <<decorations, applied, controllers, meta, routes>>

RoutingNext ==
  \/ \E d \in decorations :
       HttpMethodDecorator(d) \/ Cors(d) \/ AuthorizedDecorator(d) \/ ControllerDecorator(d)
  \/ GenerateRoutes
  \/ MapRoute
RoutingSpec == RoutingInit /\ [][RoutingNext]_routingVars

-----------------------------------------------------------------------------
\* What the decorators of d's class and member say, in whatever order they ran.
Declared(c, member, kind) == {d \in applied : d.class = c /\ d.member \in {member, Itself} /\ d.kind = kind}

(* In whatever order decorators run, every HTTP decorator of a registered      *)
(* controller gives one route, with every condition declared for its member or *)
(* its class and CORS if either asks for it; there are no other routes; and    *)
(* generation fails only if two decorators claim one path and method, or a     *)
(* member has conditions and no HTTP or @Cors decorator.                       *)
RoutesAsDeclared ==
  LET https == {d \in applied : d.kind = "http" /\ d.class \in ToSet(controllers)}
      ClassPath(c) == (CHOOSE d \in applied : d.class = c /\ d.kind = "controller").path
      RouteOf(d) == SelectInSeq(routes, LAMBDA r : r.httpMethod = d.method /\ r.class = d.class /\
                      r.member = d.member /\ r.path = NormalizePath(ClassPath(d.class), d.path))
  IN /\ phase \in {"generated", "mapped"} =>
          /\ Len(routes) = Cardinality(https)
          /\ \A d \in https :
               /\ RouteOf(d) # 0
               /\ LET r == routes[RouteOf(d)] IN
                  /\ r.authorization = UNION {ToSet(a.conditions) : a \in Declared(d.class, d.member, "authorized")}
                  /\ (r.cors.kind # "none") = (Declared(d.class, d.member, "cors") # {})
     /\ phase = "error" =>
          \/ \E d, e \in https : d # e /\ d.method = e.method
               /\ NormalizePath(ClassPath(d.class), d.path) = NormalizePath(ClassPath(e.class), e.path)
          \/ \E a \in applied : a.kind = "authorized" /\ a.member # Itself /\ a.class \in ToSet(controllers)
               /\ ~\E d \in applied : d.class = a.class /\ d.member = a.member /\ d.kind \in {"http", "cors"}
     /\ phase = "mapped" => \A r \in ToSet(routes) : r \in ToSet(bindings)
=============================================================================
