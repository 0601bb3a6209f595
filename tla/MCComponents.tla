------------------------------- MODULE MCComponents ------------------------------
(* Instances of the components that requests pass through, added to those of  *)
(* MCServices: one run checks them all, each by itself.                       *)
EXTENDS MCServices, PipelinePreparers, Negotiation, BodyParsing, RouteRequests, Models, ViewResolver, MCHalComposer

-----------------------------------------------------------------------------
(* A chain configured with its last first or last, a preparer configured twice, *)
(* a preparer that two others depend on: asked for by both at once, or before.  *)
MCPreparerClasses == {"A", "B", "C", "D"}
PipelineOf(before, a, b, c) == [before |-> before, deps |-> [A |-> a, B |-> b, C |-> c, D |-> <<>>]]
SimplePipeline == PipelineOf(<<"A", "D">>, <<"B">>, <<"D">>, <<>>)
MCPipelineConfigs ==
  {SimplePipeline,
   PipelineOf(<<"D", "A", "B", "A">>, <<"B", "C">>, <<"D">>, <<>>),
   PipelineOf(<<"A", "C">>, <<"B", "C">>, <<"D">>, <<"D">>),
   PipelineOf(<<"D", "A">>, <<"B", "C">>, <<"D">>, <<"D">>)}

-----------------------------------------------------------------------------
(* Renderers that share types; headers with wildcards, weights in and out of   *)
(* order, the same types with other weights, a type nobody renders, none.      *)
MT(t, s) == [type |-> t, subtype |-> s]
Entry(t, s, n, dotted) == [type |-> t, subtype |-> s, q |-> [tenths |-> n, dotted |-> dotted]]
MCRenderers == <<"json", "html", "plain">>
MCRendererTypes ==
  [json |-> <<MT("application", "json"), MT("text", "json")>>, html |-> <<MT("text", "html")>>,
   plain |-> <<MT("text", "plain"), MT("text", "html")>>]
MCDefaultTypeOf == [json |-> <<"application", "json">>, html |-> <<"text", "html">>, plain |-> <<"text", "plain">>]
MCAcceptHeaders ==
  {<<>>,
   <<Entry("text", "*", 10, TRUE), Entry("text", "html", 9, TRUE)>>,
   <<Entry("text", "*", 5, TRUE), Entry("text", "html", 9, TRUE)>>,
   <<Entry("application", "json", 5, TRUE), Entry("text", "html", 10, FALSE), Entry("text", "plain", 8, TRUE)>>,
   <<Entry("text", "plain", 0, TRUE), Entry("*", "*", 1, TRUE)>>,
   <<Entry("text", "plain", 0, FALSE), Entry("*", "*", 1, TRUE)>>,
   <<Entry("*", "*", 10, FALSE), Entry("text", "json", 10, FALSE)>>,
   <<Entry("image", "png", 10, FALSE)>>,
   <<Entry("image", "png", 10, FALSE), Entry("text", "html", 1, TRUE)>>}

-----------------------------------------------------------------------------
(* Bodies of each kind, good and broken; forms with a field sent twice, without *)
(* a name, without content, without headers, of unknown types, with colons and  *)
(* bare directives in headers, with blank lines; entries with more or fewer     *)
(* signs "=" than one, that cannot be decoded, with a key that could be.        *)
MCBodyParsers == <<"text", "json", "form", "multipart">>
MCParserType == [text |-> "text/plain", json |-> "application/json",
                 form |-> "application/x-www-form-urlencoded", multipart |-> "multipart/form-data"]
Header(value, directives) == [value |-> value, directives |-> directives]
Directed(n, v) == [name |-> n, value |-> v, colon |-> FALSE]
Colon(n, v) == [name |-> n, value |-> v, colon |-> TRUE]
FormData(directives) == Header("form-data", directives)
Named(n) == FormData(<<Directed("name", n)>>)
TextBody(t) == [text |-> t]
JsonBody(t) == [json |-> [value |-> t]]
Broken == [broken |-> TRUE]
Part(headers, blocks) == <<[headers |-> headers]>> \o blocks
TextField(n, t) == Part([contentDisposition |-> Named(n)], <<TextBody(t)>>)
JsonField(n, b) == Part([contentDisposition |-> Named(n), contentType |-> Header("application/json", <<>>)], <<b>>)
Multipart(parts) == [contentType |-> Header("multipart/form-data", <<Directed("boundary", "b")>>), body |-> [parts |-> parts]]
Text1(t) == [raw |-> t, text |-> t]
PairOf(k, v) == <<Text1(k), Text1(v)>>
Form(entries) == [contentType |-> Header("application/x-www-form-urlencoded", <<>>), body |-> [entries |-> entries]]
MCBodies ==
  {Multipart(<<TextField("a", "1"), JsonField("b", JsonBody("2"))>>),
   Multipart(<<TextField("a", "1"), JsonField("b", JsonBody("2")), TextField("a", "3")>>),
   Multipart(<<TextField("a", "1"), JsonField("b", Broken)>>),
   Multipart(<<Part([contentDisposition |-> Named("a")], <<TextBody("1"), TextBody("2")>>), <<>>, <<Blank>>,
               Part([contentDisposition |-> FormData(<<>>)], <<TextBody("3")>>)>>),
   Multipart(<<Part([contentDisposition |-> FormData(<<Colon("filename", "c"), Directed("name", "a")>>)], <<TextBody("1")>>)>>),
   Multipart(<<Part([contentDisposition |-> FormData(<<Directed("name", "a"), Colon("filename", "c")>>)], <<TextBody("1")>>),
               Part([contentDisposition |-> Named("b")], <<>>), Part([contentDisposition |-> Named("c")], <<Blank, TextBody("2")>>)>>),
   Multipart(<<Part([contentDisposition |-> Named("a")], <<Blank>>), TextField("0", "1"), <<TextBody("2"), TextBody("3")>>,
               <<Blank>> \o TextField("a", "4")>>),
   Multipart(<<TextField("value", "1"), TextField("a", "2"), Part([contentType |-> Header("application/json", <<>>)], <<JsonBody("2")>>),
               Part([contentDisposition |-> Named(EmptyText)], <<TextBody("1")>>)>>),
   Multipart(<<Part([contentType |-> Header("application/x-www-form-urlencoded", <<>>)], <<[entries |-> <<PairOf("a", "1")>>]>>),
               TextField("a", "2")>>),
   Multipart(<<Part([contentDisposition |-> FormData(<<Colon("filename", "c"), [name |-> "bare"]>>)], <<TextBody("1")>>),
               Part([contentDisposition |-> FormData(<<[name |-> "bare"]>>)], <<TextBody("1")>>)>>),
   Multipart(<<Part([contentDisposition |-> Named("a"), contentType |-> Header("image/png", <<>>)], <<TextBody("1")>>)>>),
   [contentType |-> Header("multipart/form-data", <<>>), body |-> [parts |-> <<TextField("a", "1")>>]],
   [contentType |-> Header("application/json", <<Directed("charset", "utf-8")>>), body |-> JsonBody("1")],
   [contentType |-> Header("application/json", <<>>), body |-> Broken],
   [contentType |-> Header("image/png", <<>>), body |-> TextBody("1")],
   Form(<<PairOf("a", ""), PairOf("a", "1"), PairOf("b", "1"), PairOf("a", "2"), PairOf("a", "")>>),
   Form(<<<<Text1("a"), Text1("1"), Text1("2")>>, <<Text1("b")>>, <<[raw |-> "%61", text |-> "a"], Text1("3")>>, <<Text1(EmptyText)>>>>),
   Form(<<PairOf("b", "1"), <<Text1("a"), [raw |-> "%"]>>>>)}

-----------------------------------------------------------------------------
(* Classes and members with paths, conditions and CORS of their own or not,    *)
(* two decorators for one route, a member with conditions that is no route.    *)
OriginA == [web |-> TRUE, host |-> "a"]
OriginB == [web |-> TRUE, host |-> "b"]
OddOrigin == [web |-> FALSE, host |-> "null"]
CorsFor(origins, credentials) ==
  [kind |-> "config", values |-> ("allowOrigin" :> origins @@ "allowCredentials" :> credentials)]
Decoration(c, m, kind) == [class |-> c, member |-> m, kind |-> kind]
ControllerAt(c, path) == Decoration(c, "", "controller") @@ [path |-> path]
HttpAt(c, m, method, path) == Decoration(c, m, "http") @@ [method |-> method, path |-> path]
AuthorizedBy(c, m, conditions) == Decoration(c, m, "authorized") @@ [conditions |-> conditions]
CorsOf(c, m, cors) == Decoration(c, m, "cors") @@ [cors |-> cors]
SimpleApplication ==
  {ControllerAt("X", <<"x">>), HttpAt("X", "get", "GET", <<>>), AuthorizedBy("X", "lone", <<"Owned">>)}
MCApplications ==
  {SimpleApplication,
   {ControllerAt("X", <<"x">>), HttpAt("X", "get", "GET", <<>>), HttpAt("X", "get2", "GET", <<>>),
    AuthorizedBy("X", "get2", <<"Owned">>)},
   {ControllerAt("X", <<"x">>), AuthorizedBy("X", "", <<"IsAuthorized">>), CorsOf("X", "", CorsFor({OriginA}, TRUE)),
    HttpAt("X", "get", "GET", <<>>), CorsOf("X", "get", CorsFor({OriginA, OriginB}, FALSE)),
    HttpAt("X", "put", "PUT", <<>>), AuthorizedBy("X", "put", <<"Owned">>),
    ControllerAt("Y", <<"/", "y">>), HttpAt("Y", "all", "GET", <<"/", "z">>), HttpAt("Y", "all", "POST", <<"/", "z">>),
    CorsOf("Y", "all", [kind |-> "true", values |-> <<>>])},
   {ControllerAt("X", <<"x">>), CorsOf("X", "", CorsFor({OriginA}, TRUE)), HttpAt("X", "get", "GET", <<>>),
    HttpAt("X", "put", "PUT", <<>>), HttpAt("X", "own", "OPTIONS", <<>>), CorsOf("X", "put", CorsFor({OriginA}, TRUE)),
    AuthorizedBy("X", "get", <<"Owned">>)}}
MCGlobalCors == [allowHeaders |-> {"x-a"}]
MCOrigins == {OriginA, OriginB, OddOrigin}
MCRequestPaths == {<<"/", "x">>, <<"/", "y", "/", "z">>}
CallerOf(scheme, known, satisfies) == [scheme |-> scheme, known |-> known, satisfies |-> satisfies]
MCCallers == {CallerOf("", FALSE, {}), CallerOf("Bearer", TRUE, {}), CallerOf("Bearer", TRUE, {"Owned"}),
              CallerOf("Basic", FALSE, {"Owned"})}

-----------------------------------------------------------------------------
(* A class and one that extends it, decorated on either side, with members of  *)
(* every kind of type; sources that fit, that do not, and that lack members.   *)
Deco(c, member, facet, v) == [class |-> c, member |-> member, meta |-> (facet :> v)]
Decos(c, member, m) == [class |-> c, member |-> member, meta |-> m]
Num(n) == [kind |-> "number", number |-> n]
Text(t) == [kind |-> "text", text |-> t]
Items(l) == [kind |-> "list", items |-> l]
Obj(f) == [kind |-> "object", fields |-> f]
MCBaseOf == [Item |-> "", Task |-> "Item", Note |-> ""]
SimpleModels == {Deco("Item", "id", "type", "Number")}
MCModelDecorations ==
  {SimpleModels,
   {Deco("Item", "id", "type", "Number"), Deco("Item", "id", "minValue", 1), Deco("Item", "id", "required", TRUE),
    Decos("Task", "tags", [type |-> "Array", valueType |-> "Boolean"]), Deco("Task", "tags", "minLength", 1)},
   {Deco("Item", "id", "type", "Number"), Deco("Task", "id", "required", TRUE), Deco("Note", "of", "type", "Task"),
    Decos("Note", "some", [type |-> "OneOf", oneOf |-> <<"Boolean", "Item", "Number">>])},
   {Decos("Note", "by", [type |-> "Map", keyType |-> "Number", valueType |-> "Item"]),
    Deco("Item", "id", "sourceAccessor", <<"of", "id">>),
    Decos("Note", "set", [type |-> "Set", valueType |-> "Number", maxLength |-> 2])}}
MCNumberOf == ("" :> 0) @@ ("0" :> 0) @@ ("2" :> 2)
BodyOf(c, source) == [class |-> c, source |-> source]
MCBodySources ==
  {BodyOf("Task", Obj([id |-> i, tags |-> t])) :
     i \in {Text(""), Text("2"), Undefined}, t \in {Items(<<>>), Items(<<Text("true")>>), Text("x")}}
  \cup {BodyOf("Item", Obj([of |-> Obj([id |-> Text("2")])])), BodyOf("Item", Undefined)}
  \cup {BodyOf("Note", Obj([of |-> o, some |-> s, by |-> Undefined])) :
     o \in {Text("x"), Obj([id |-> Text("2")])}, s \in {Num(1), Obj([id |-> Text("x")])}}
  \cup {BodyOf("Note", Obj([by |-> Obj(k :> Obj([of |-> Text("2")]))])) : k \in {"2", "x"}}
  \cup {BodyOf("Note", Obj([by |-> Items([i \in 1..n |-> Obj([of |-> Text("2")])])])) : n \in 1..2}
  \cup {BodyOf("Note", Obj([set |-> Items(<<Num(1)>>)]))}
MCFlatSources ==
  {<< <<<<"a", "b">>, v>>, <<<<"a", "c", "d">>, u>>, <<<<"e">>, v>>, <<<<"a", "c", "f">>, v>> >> : u, v \in {Num(0), Num(1)}}
MCParamMeta == {[meta |-> [type |-> "Number", maxValue |-> 1], optional |-> TRUE],
                [meta |-> [type |-> "Boolean"], optional |-> FALSE]}
MCParamValues == {Undefined, Text(""), Text("2"), Text("true")}

-----------------------------------------------------------------------------
(* Engines with and without a priority, two for one extension; views with and  *)
(* without a filter and an extension; errors with and without a template.      *)
Engine(extension, priority) == [extension |-> extension, priority |-> priority]
View(base, ext) == [base |-> base, ext |-> ext]
MCNoPriority == -1
MCViewConfigs == <<Engine("pug", MCNoPriority), Engine("ejs", 2), Engine("ejs", 1)>>
MCRouteViews == <<[path |-> View("a", <<"ejs">>), accepts |-> {"xml"}], [path |-> View("a", <<>>), accepts |-> {}]>>
MCErrorTemplates == "404" :> View("e", <<>>)
Rendered(error, status, accept) == [error |-> error, status |-> status, accept |-> accept]
MCRequestsRendered ==
  {Rendered(FALSE, "200", "html"), Rendered(FALSE, "200", "xml"), Rendered(TRUE, "404", "html"), Rendered(TRUE, "none", "html")}
MCTemplates == {View("a", <<"ejs">>), View("a", <<"pug">>), View("a", <<"ejs", "ejs">>), View("e", <<"pug">>)}

-----------------------------------------------------------------------------
handlingVars == <<preparerVars, negotiationVars, bodyVars, routingVars, requestVars, modelVars, viewVars, halVars>>

HandlingInit ==
  /\ PreparersInit /\ NegotiationInit /\ BodyInit /\ RequestsInit /\ ModelsInit /\ ViewInit /\ HalInit
  /\ which # "prepare" => pipelineConfig = SimplePipeline
  /\ which # "routes" => decorations = SimpleApplication
  /\ which # "models" => modelDecorations = SimpleModels
  /\ which # "hal" => asked = <<>>

HandlingNext ==
  \/ which = "prepare" /\ PreparersNext
       /\ UNCHANGED <<negotiationVars, bodyVars, routingVars, requestVars, modelVars, viewVars, halVars>>
  \/ which = "render" /\ NegotiationNext
       /\ UNCHANGED <<preparerVars, bodyVars, routingVars, requestVars, modelVars, viewVars, halVars>>
  \/ which = "body" /\ BodyNext
       /\ UNCHANGED <<preparerVars, negotiationVars, routingVars, requestVars, modelVars, viewVars, halVars>>
  \/ which = "routes" /\ RequestsNext
       /\ UNCHANGED <<preparerVars, negotiationVars, bodyVars, modelVars, viewVars, halVars>>
  \/ which = "models" /\ ModelsNext
       /\ UNCHANGED <<preparerVars, negotiationVars, bodyVars, routingVars, requestVars, viewVars, halVars>>
  \/ which = "view" /\ ViewNext
       /\ UNCHANGED <<preparerVars, negotiationVars, bodyVars, routingVars, requestVars, modelVars, halVars>>
  \/ which = "hal" /\ HalNext
       /\ UNCHANGED <<preparerVars, negotiationVars, bodyVars, routingVars, requestVars, modelVars, viewVars>>

-----------------------------------------------------------------------------
ComponentsInit ==
  /\ which \in {"replay", "cache", "scopes", "build", "prepare", "render", "body", "routes", "models", "view", "hal"}
  /\ ServicesInit /\ HandlingInit

ComponentsNext ==
  /\ UNCHANGED which
  /\ \/ ServicesNext /\ UNCHANGED handlingVars
     \/ HandlingNext /\ UNCHANGED servicesVars

ComponentsSpec == ComponentsInit /\ [][ComponentsNext]_<<which, servicesVars, handlingVars>>
================================================================================
