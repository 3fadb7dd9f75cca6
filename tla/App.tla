-------------------------------- MODULE App ---------------------------------
(***************************************************************************)
(* The application builder and what is built from it: registration of      *)
(* routes, groups and layers, the cached OpenAPI document and Swagger page,*)
(* build() (app.rs, group.rs, openapi/config.rs), and then the way of a    *)
(* request through the layers to a route (runtime.rs, middleware.rs).      *)
(*                                                                         *)
(* A registration that panics (a duplicate route, a path without a slash)  *)
(* ends the program and is not a step.  The document is abstracted to what it is computed from.    *)
(***************************************************************************)
EXTENDS Router

CONSTANTS Methods,    \* the methods routes are registered for
          Requested,  \* the methods requests come with
          Templates,  \* the paths routes are registered with
          Prefixed,   \* the patterns of groups and layers
          Paths,      \* the paths of requests
          Probes,     \* the paths looked up in the trie for BestMatch
          DocPaths,   \* the paths given to the document and to the page
          Schemes,    \* names of security schemes
          Tags,       \* texts of the document: tags of routes, its title
          MaxRoutes,  \* bound: routes registered
          MaxLayers,  \* bound: layers registered
          MaxNesting  \* bound: groups within groups

ASSUME AppAssumption ==
    /\ None \notin Methods \union Schemes \union Tags
    /\ Templates \union DocPaths \subseteq [segments : Seq(Segment), slashes : Seq(Nat)]
    /\ Paths \union Probes \subseteq [segments : Seq(Text), slashes : Seq(Nat)]
    /\ \A path \in Paths \union Probes : Rooted(path)
    /\ Prefixed \subseteq Seq(Segment)
    /\ DocPaths = {} \/ Tags = {} => DocPaths \union Tags \union Schemes = {}
    /\ {MaxRoutes, MaxLayers, MaxNesting} \subseteq Nat

VARIABLES
    metadata,       \* App::metadata: the routes, in order of registration
    static,         \* App::static_routes: path -> RouteSet
    dynamic,        \* App::dynamic_routes: the trie
    lastRoute,      \* App::last_route
    routeError,     \* App::route_error is set
    dropped,        \* history: the route registered last was not kept
    middleware,     \* App::middleware, with the place a layer was added at
    groups,         \* the prefixes of the groups whose closures are running
    openapiConfig, openapiBytes, swaggerConfig, swaggerBytes,
    phase,          \* "building", "failed" (build returned an error), "serving"
    request         \* the request in the chain of layers, or None

routeVars == <<metadata, static, dynamic, lastRoute, routeError, dropped>>
docVars == <<openapiConfig, openapiBytes, swaggerConfig, swaggerBytes>>
vars == <<routeVars, middleware, groups, docVars, phase, request>>

Patterns == Seq(Segment)
Config == [path : DocPaths, title : Tags, schemes : SUBSET Schemes,
           default : SUBSET Schemes]

TypeOK ==
    /\ \A i \in DOMAIN metadata :
           /\ metadata[i].method \in Methods \union {"GET"}
           /\ metadata[i].tag \in Tags \union {None}
           /\ metadata[i].template.segments \in Patterns
    /\ \A p \in DOMAIN static : \A m \in DOMAIN static[p] :
           static[p][m] \in DOMAIN metadata
    /\ \A n \in DOMAIN dynamic : \A m \in DOMAIN dynamic[n] :
           dynamic[n][m] \in DOMAIN metadata
    /\ lastRoute \in DOMAIN metadata \union {None}
    /\ routeError \in BOOLEAN
    /\ dropped \in BOOLEAN
    /\ openapiConfig \in Config \union {None}
    /\ swaggerConfig \in DocPaths \union {None}
    /\ groups \in Seq(Patterns)
    /\ phase \in {"building", "failed", "serving"}

Init == /\ metadata = <<>>
        /\ static = [p \in {} |-> NoRoutes]
        /\ dynamic = EmptyTrie
        /\ lastRoute = None
        /\ routeError = FALSE
        /\ dropped = FALSE
        /\ middleware = <<>>
        /\ groups = <<>>
        /\ openapiConfig = None /\ openapiBytes = None
        /\ swaggerConfig = None /\ swaggerBytes = None
        /\ phase = "building"
        /\ request = None

-----------------------------------------------------------------------------
(* Registration of routes.                                                  *)

Building == phase = "building"
Prefix == Last(groups)

(* Group::get and its like prefix the path.                                 *)
Template(path) == IF groups = <<>> THEN path ELSE Join(Prefix, path)

Route(method, template, builtin) ==
    [method |-> method, template |-> template, builtin |-> builtin,
     tag |-> None, security |-> None, groups |-> groups]

(* The assertions: no such route yet, by its text or by its place.          *)
Duplicate(method, template) ==
    \/ \E i \in DOMAIN metadata : /\ metadata[i].method = method
                                  /\ metadata[i].template = template
    \/ /\ ~IsStatic(template.segments)
       /\ template.segments \in DOMAIN dynamic
       /\ method \in DOMAIN dynamic[template.segments]

InsertStatic(routes, path, method, index) ==
    [p \in DOMAIN routes \union {path} |->
        IF p # path THEN routes[p]
        ELSE Insert(IF p \in DOMAIN routes THEN routes[p] ELSE NoRoutes,
                    method, index)]

Install(method, template) ==
    LET index == Len(metadata) + 1
    IN /\ IF IsStatic(template.segments)
          THEN /\ static' = InsertStatic(static, template, method, index)
               /\ UNCHANGED dynamic
          ELSE /\ dynamic' = InsertRoute(dynamic, template.segments, method, index)
               /\ UNCHANGED static
       /\ metadata' = Append(metadata, Route(method, template, FALSE))
       /\ lastRoute' = index
       /\ dropped' = FALSE
       /\ openapiBytes' = None

(* add_route and add_raw_route: a route with too many captures is only      *)
(* remembered for build(), and the last route stays the last one.           *)
AddRoute(method, path) ==
    LET template == Template(path)
    IN /\ Building
       /\ Len(metadata) < MaxRoutes
       /\ Rooted(template)
       /\ ~Duplicate(method, template)
       /\ IF Captures(template.segments) > MaxCaptures
          THEN /\ routeError' = TRUE
               /\ dropped' = TRUE
               /\ UNCHANGED <<metadata, static, dynamic, lastRoute, openapiBytes>>
          ELSE /\ Install(method, template)
               /\ UNCHANGED routeError
       /\ UNCHANGED <<middleware, groups, openapiConfig, swaggerConfig, swaggerBytes,
                      phase, request>>

(* static_text, static_json.                                                *)
AddStaticRoute(path) ==
    LET template == Template(path)
    IN /\ Building
       /\ Len(metadata) < MaxRoutes
       /\ Rooted(template)
       /\ IsStatic(template.segments)
       /\ ~Duplicate("GET", template)
       /\ Install("GET", template)
       /\ UNCHANGED <<routeError, middleware, groups, openapiConfig, swaggerConfig,
                      swaggerBytes, phase, request>>

(* App::group, Group::group: the closure runs between the two steps.        *)
OpenGroup(pattern) ==
    /\ Building
    /\ Len(groups) < MaxNesting
    /\ groups' = Append(groups, IF groups = <<>> THEN pattern ELSE Prefix \o pattern)
    /\ UNCHANGED <<routeVars, middleware, docVars, phase, request>>

CloseGroup ==
    /\ groups # <<>>
    /\ groups' = Front(groups)
    /\ UNCHANGED <<routeVars, middleware, docVars, phase, request>>

-----------------------------------------------------------------------------
(* Layers.  "by" is the call that added the layer and, for a route_layer,   *)
(* "route" the one it was meant for: the route registered last, if kept.    *)

AddLayer(scope, by, route) ==
    /\ Building
    /\ Len(middleware) < MaxLayers
    /\ middleware' = Append(middleware, [scope |-> scope, by |-> by,
                                         route |-> route, groups |-> groups])
    /\ UNCHANGED <<routeVars, groups, docVars, phase, request>>

Layer == /\ groups = <<>>
         /\ AddLayer(ScopeAll, "app", None)

GroupLayer == /\ groups # <<>>
              /\ AddLayer(ScopePrefix(Prefix), "group", None)

LayerFor(pattern) ==
    AddLayer(ScopePrefix(IF groups = <<>> THEN pattern ELSE Prefix \o pattern),
             "layer_for", None)

RouteLayer ==
    /\ lastRoute # None
    /\ LET route == metadata[lastRoute]
       IN AddLayer(ScopeRoute(route.method, route.template.segments),
                   "route_layer", IF dropped THEN None ELSE lastRoute)

-----------------------------------------------------------------------------
(* The document.  It is cached by build() and, on a builder under test, by  *)
(* oneshot(); whatever it is computed from drops the cached bytes.          *)

Documented == Restrict(metadata, {i \in DOMAIN metadata : ~metadata[i].builtin})
Document == <<openapiConfig, Documented>>
Page == IF openapiConfig = None THEN None ELSE openapiConfig.path

InvalidateOpenapiCache == openapiBytes' = None /\ swaggerBytes' = None

PrepareOpenapi ==
    openapiBytes' = IF openapiConfig # None /\ openapiBytes = None
                    THEN Document ELSE openapiBytes

PrepareSwagger ==
    swaggerBytes' = IF swaggerConfig # None /\ swaggerBytes = None
                    THEN <<Page>> ELSE swaggerBytes

(* Mutant: the cached document is kept.                                     *)
DescribeKeeps(operation) ==
    /\ Building
    /\ lastRoute # None
    /\ metadata' = [metadata EXCEPT ![lastRoute] = operation]
    /\ UNCHANGED <<static, dynamic, lastRoute, routeError, dropped, middleware, groups,
                   openapiConfig, openapiBytes, swaggerConfig, swaggerBytes, phase,
                   request>>

Describe(operation) ==
    /\ Building
    /\ lastRoute # None
    /\ metadata' = [metadata EXCEPT ![lastRoute] = operation]
    /\ InvalidateOpenapiCache
    /\ UNCHANGED <<static, dynamic, lastRoute, routeError, dropped, middleware, groups,
                   openapiConfig, swaggerConfig, phase, request>>

(* tag, summary, problem_responses: the last route gets a text.             *)
Tag(tag) == lastRoute # None /\ Describe([metadata[lastRoute] EXCEPT !.tag = tag])

(* security adds an alternative, public leaves none.                        *)
Security(scheme) ==
    lastRoute # None /\
    Describe([metadata[lastRoute] EXCEPT
                 !.security = (IF @ = None THEN {} ELSE @) \union {scheme}])

Public == lastRoute # None /\ Describe([metadata[lastRoute] EXCEPT !.security = {}])

DefaultConfig == [path |-> CHOOSE p \in DocPaths : TRUE, title |-> CHOOSE t \in Tags : TRUE,
                  schemes |-> {}, default |-> {}]

(* App::openapi and one setter of the options it returns.                   *)
Options == IF openapiConfig = None THEN DefaultConfig ELSE openapiConfig

Configure(options) ==
    /\ Building
    /\ groups = <<>>
    /\ openapiConfig' = options
    /\ InvalidateOpenapiCache
    /\ UNCHANGED <<routeVars, middleware, groups, swaggerConfig, phase, request>>

OpenApiPath(path) == Configure([Options EXCEPT !.path = path])
OpenApiTitle(title) == Configure([Options EXCEPT !.title = title])
SecurityScheme(name) == Configure([Options EXCEPT !.schemes = @ \union {name}])
DefaultSecurity(name) == Configure([Options EXCEPT !.default = @ \union {name}])

Swagger(path) == /\ Building
                 /\ groups = <<>>
                 /\ swaggerConfig' = path
                 /\ swaggerBytes' = None
                 /\ UNCHANGED <<routeVars, middleware, groups, openapiConfig,
                                openapiBytes, phase, request>>

(* A request to the builder itself, in a test.                              *)
OneShot == /\ Building
           /\ groups = <<>>
           /\ PrepareOpenapi
           /\ PrepareSwagger
           /\ UNCHANGED <<routeVars, middleware, groups, openapiConfig, swaggerConfig,
                          phase, request>>

-----------------------------------------------------------------------------
(* build().                                                                 *)

Referenced ==
    openapiConfig.default \union
    UNION {metadata[i].security : i \in {j \in DOMAIN metadata :
                                            metadata[j].security # None}}

UnknownScheme == openapiConfig # None /\ ~(Referenced \subseteq openapiConfig.schemes)

GeneratedPaths ==
    (IF openapiConfig = None THEN <<>> ELSE <<openapiConfig.path>>)
    \o (IF swaggerConfig = None THEN <<>> ELSE <<swaggerConfig>>)

(* InvalidGeneratedPath or RouteConflict, with a route or between the two.  *)
(* Nothing asks for a slash in front of a generated path.                   *)
GeneratedConflict ==
    \E i \in DOMAIN GeneratedPaths :
        LET path == GeneratedPaths[i]
        IN \/ ~IsStatic(path.segments)
           \/ path \in DOMAIN static /\ "GET" \in DOMAIN static[path]
           \/ \E j \in 1 .. i - 1 : GeneratedPaths[j] = path

(* Mutant: a route that was not kept is forgotten.                          *)
BuildFailsForgetful(conflict) == conflict \/ UnknownScheme \/ GeneratedConflict

(* conflict stands for two types with one schema name.                      *)
BuildFails(conflict) == routeError \/ conflict \/ UnknownScheme \/ GeneratedConflict

Generated(path) == Route("GET", path, TRUE)

InstallGeneratedRoutes ==
    LET first == Len(metadata)
        n == Len(GeneratedPaths)
        with[i \in 0 .. n] ==
            IF i = 0 THEN static
            ELSE InsertStatic(with[i - 1], GeneratedPaths[i], "GET", first + i)
    IN /\ static' = with[n]
       /\ metadata' = metadata \o [i \in 1 .. n |-> Generated(GeneratedPaths[i])]

Build(conflict) ==
    /\ Building
    /\ groups = <<>>
    /\ IF BuildFails(conflict)
       THEN phase' = "failed" /\ UNCHANGED <<metadata, static, openapiBytes, swaggerBytes>>
       ELSE /\ phase' = "serving"
            /\ PrepareOpenapi
            /\ PrepareSwagger
            /\ InstallGeneratedRoutes
    /\ UNCHANGED <<dynamic, lastRoute, routeError, dropped, middleware, groups,
                   openapiConfig, swaggerConfig, request>>

-----------------------------------------------------------------------------
(* A request to what was built.  "next" is Next::index: the layers already  *)
(* passed or skipped; "ran" are those that ran, "since" the last of them    *)
(* that handed on another request than it got.                              *)

Matching(method, path) ==
    {i \in DOMAIN middleware : ScopeMatches(middleware[i].scope, method, path)}

(* Next::run: the next layer that covers the request, or the route.         *)
Run(method, path, index, ran, since) ==
    LET layers == {i \in Matching(method, path) : i > index}
    IN IF layers = {}
       THEN [method |-> method, path |-> path, next |-> Len(middleware), ran |-> ran,
             since |-> since, response |-> Dispatch(static, dynamic, method, path)]
       ELSE [method |-> method, path |-> path, next |-> Min(layers),
             ran |-> Append(ran, Min(layers)), since |-> since, response |-> None]

(* prepare: with no layer to run, the request goes to its route directly.   *)
Receive(method, path) ==
    /\ phase = "serving"
    /\ request = None
    /\ request' = Run(method, path, 0, <<>>, 0)
    /\ UNCHANGED <<routeVars, middleware, groups, docVars, phase>>

InLayer == request # None /\ request.response = None

(* The layer's own code: it hands the request on, as it is or another one,  *)
(* or it answers.                                                           *)
PassOn(method, path) ==
    /\ InLayer
    /\ request' = Run(method, path, request.next, request.ran,
                      IF method = request.method /\ path = request.path
                      THEN request.since ELSE request.next)
    /\ UNCHANGED <<routeVars, middleware, groups, docVars, phase>>

Answer == /\ InLayer
          /\ request' = [request EXCEPT !.response = Response("layer", None)]
          /\ UNCHANGED <<routeVars, middleware, groups, docVars, phase>>

Respond == /\ request # None
           /\ request.response # None
           /\ request' = None
           /\ UNCHANGED <<routeVars, middleware, groups, docVars, phase>>

-----------------------------------------------------------------------------
Register == \/ \E m \in Methods, p \in Templates : AddRoute(m, p)
            \/ \E p \in Templates : AddStaticRoute(p)
            \/ \E g \in Prefixed : OpenGroup(g)
            \/ CloseGroup

RegisterLayer == Layer \/ GroupLayer \/ RouteLayer \/ \E g \in Prefixed : LayerFor(g)

Documentation == \/ \E t \in Tags : Tag(t) \/ OpenApiTitle(t)
             \/ \E s \in Schemes : Security(s) \/ SecurityScheme(s) \/ DefaultSecurity(s)
             \/ Public
             \/ \E p \in DocPaths : OpenApiPath(p) \/ Swagger(p)
             \/ OneShot

Serve == \/ \E m \in Requested, p \in Paths : Receive(m, p)
         \/ \E m \in Requested, p \in Paths : PassOn(m, p)
         \/ Answer
         \/ Respond

Next == Register \/ RegisterLayer \/ Documentation \/ (\E c \in BOOLEAN : Build(c)) \/ Serve

Spec == Init /\ [][Next]_vars

-----------------------------------------------------------------------------
(* Properties.                                                              *)

Fits(pattern, parts) ==
    /\ Len(pattern) = Len(parts)
    /\ \A i \in DOMAIN pattern :
           pattern[i] = parts[i] \/ (pattern[i] = Capture /\ parts[i] \notin Malformed)

(* Where two patterns part, the first has the literal.                      *)
Precedes(p, q) ==
    \E i \in DOMAIN p : /\ p[i] # q[i]
                        /\ q[i] = Capture
                        /\ \A j \in 1 .. i - 1 : p[j] = q[j]

(* Of all the dynamic routes a path fits, the trie finds the one with the   *)
(* leftmost literals, and it finds one whenever there is one: a static      *)
(* branch that leads nowhere is given up for the capture beside it.         *)
BestMatch ==
    phase = "serving" => \A path \in Probes :
        LET patterns == {metadata[i].template.segments : i \in DOMAIN metadata}
            fitting == {p \in patterns : ~IsStatic(p) /\ Fits(p, path.segments)}
            found == Find(dynamic, path.segments)
        IN IF fitting = {} THEN found = None
           ELSE /\ found \in fitting
                /\ \A p \in fitting \ {found} : Precedes(found, p)

(* What build() lets through can be reached: a request for a route's own    *)
(* template, with a text no template has for each capture, is answered by   *)
(* that route, whatever was registered before and after it, in groups or    *)
(* not.  This includes the document and the page if their paths begin with  *)
(* a slash; those that do not are served to no one, and build() is silent.  *)
RoutesReachable ==
    phase = "serving" =>
        \A i \in DOMAIN metadata, text \in Plain :
            LET template == metadata[i].template
                parts == [j \in DOMAIN template.segments |->
                             IF template.segments[j] = Capture THEN text
                             ELSE template.segments[j]]
            IN /\ Rooted(template) \/ metadata[i].builtin
               /\ (/\ Rooted(template)
                   /\ \A k \in DOMAIN metadata :
                          text \notin Range(metadata[k].template.segments))
                     => Dispatch(static, dynamic, metadata[i].method,
                                 Path(parts, template.slashes)) = Response("handler", i)

(* The cached document and page are what they would be if made now, however *)
(* registrations, settings and requests to the builder alternate.           *)
DocumentFresh ==
    /\ openapiBytes # None => openapiBytes = Document
    /\ swaggerBytes # None => swaggerBytes = <<Page>>

(* The layers that had to run before the route that answered: those after   *)
(* the last layer that exchanged the request.                               *)
Answered == request # None /\ request.response # None /\ request.response.kind = "handler"
Missed(layer) == layer > request.since /\ layer \notin Range(request.ran)

(* A route_layer runs for every request its route answers: HEAD answered by *)
(* GET, and a capture however it is encoded.                                *)
RouteLayersRun ==
    Answered =>
        \A i \in DOMAIN middleware :
            (/\ middleware[i].by = "route_layer"
             /\ middleware[i].route = request.response.route) => ~Missed(i)

(* A group's layer runs for every request answered by a route registered in *)
(* that group or in one within it, before or after the layer.               *)
GroupLayersRun ==
    Answered =>
        \A i \in DOMAIN middleware :
            (/\ middleware[i].by = "group"
             /\ IsPrefix(middleware[i].groups,
                         metadata[request.response.route].groups)) => ~Missed(i)

LayersRun == RouteLayersRun /\ GroupLayersRun

(* A route_layer of an application that serves is on the route it was added *)
(* after.  When that one was not kept, for its captures, last_route is the  *)
(* route before it, and build() has to fail whatever came later.            *)
LayersPlaced ==
    phase = "serving" =>
        \A i \in DOMAIN middleware :
            middleware[i].by = "route_layer" =>
                \E route \in DOMAIN metadata :
                    /\ middleware[i].route = route
                    /\ middleware[i].scope = ScopeRoute(metadata[route].method,
                                                       metadata[route].template.segments)

(* A scope is not narrower than what handlers see: when the values a        *)
(* handler is given, its captures decoded, lie under a layer's prefix, the  *)
(* layer has run.                                                           *)
Seen == LET template == metadata[request.response.route].template.segments
        IN [i \in DOMAIN template |->
               IF template[i] = Capture THEN Decoded(request.path.segments[i])
               ELSE template[i]]

PrefixesSeeDecoded ==
    Answered =>
        \A i \in DOMAIN middleware :
            LET pattern == middleware[i].scope.pattern
            IN (/\ middleware[i].scope.kind = "prefix"
                /\ Len(pattern) <= Len(Seen)
                /\ \A j \in DOMAIN pattern : pattern[j] \in {Capture, Seen[j]}) => ~Missed(i)
=============================================================================
