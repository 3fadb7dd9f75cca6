------------------------------- MODULE Router -------------------------------
(***************************************************************************)
(* Paths, the trie of dynamic routes, the choice of a route (path.rs,      *)
(* router/mod.rs) and the scopes of layers (middleware.rs), as operators.  *)
(*                                                                         *)
(* A path is its segments and the number of slashes before each of them:   *)
(* "/a/b", "//a/b" and "a/b" have the same segments but are different      *)
(* texts.  Trailing slashes are gone: both templates and requests lose them*)
(* before anything else.                                                   *)
(***************************************************************************)
EXTENDS Naturals, FiniteSets, SequencesExt

CONSTANTS Plain,        \* segment texts without a percent sign
          Encoded,      \* segment texts with one
          Malformed,    \* those of them a capture does not accept
          Decode,       \* what the others decode to: a text, or None
          Capture,      \* a {name} segment of a template or a scope
          None,
          MaxCaptures   \* MAX_CAPTURE_PARAMS

Text == Plain \union Encoded
Segment == Text \union {Capture}

ASSUME RouterAssumption ==
    /\ Malformed \subseteq Encoded
    /\ Plain \intersect Encoded = {}
    /\ Capture \notin Text
    /\ None \notin Segment \union Nat \union Seq(Segment)
    /\ DOMAIN Decode = Encoded \ Malformed
    /\ \A t \in DOMAIN Decode : Decode[t] \in Text \union {None}
    /\ MaxCaptures \in Nat

(* normalize_path, normalize_request_path: what is left of the slashes.     *)
Path(segments, slashes) == [segments |-> segments, slashes |-> slashes]

(* assert_route_path.                                                       *)
Rooted(path) == path.segments = <<>> \/ path.slashes[1] > 0

(* Joining a group's prefix, written with single slashes, and a path leaves *)
(* one slash where they meet, and those inside the path as they are.        *)
Join(prefix, path) ==
    LET single == [i \in DOMAIN prefix |-> 1]
        inner == IF path.segments = <<>> THEN <<>> ELSE [path.slashes EXCEPT ![1] = 1]
    IN Path(prefix \o path.segments,
            IF prefix \o path.segments = <<>> THEN <<1>> ELSE single \o inner)

Captures(pattern) == Cardinality({i \in DOMAIN pattern : pattern[i] = Capture})
IsStatic(pattern) == Captures(pattern) = 0

Decoded(text) == IF text \in Plain THEN text
                 ELSE IF text \in Malformed THEN None ELSE Decode[text]

-----------------------------------------------------------------------------
(* A RouteSet: the route of each method registered for a path.              *)

NoRoutes == [m \in {} |-> 0]

Insert(routes, method, route) ==
    [m \in DOMAIN routes \union {method} |->
        IF m = method THEN route ELSE routes[m]]

RouteIndex(routes, method) ==
    IF method \in DOMAIN routes THEN routes[method]
    ELSE IF method = "HEAD" /\ "GET" \in DOMAIN routes THEN routes["GET"]
    ELSE None

Response(kind, route) == [kind |-> kind, route |-> route]

(* A request is answered by a route, or by 204 and 405 with the methods.    *)
ResolveRouteSet(routes, method) ==
    LET route == RouteIndex(routes, method)
    IN IF route # None THEN Response("handler", route)
       ELSE Response(IF method = "OPTIONS" THEN "options" ELSE "notAllowed", None)

-----------------------------------------------------------------------------
(* The trie.  A node is the pattern that leads to it; dynamic[node] is its  *)
(* RouteSet.                                                                *)

EmptyTrie == [node \in {<<>>} |-> NoRoutes]

(* Mutant: the nodes on the way are made anew.                              *)
InsertRouteAnew(dynamic, pattern, method, route) ==
    LET old == [node \in DOMAIN dynamic \union Prefixes(pattern) |->
                   IF node \in DOMAIN dynamic \ Prefixes(pattern)
                   THEN dynamic[node] ELSE NoRoutes]
    IN [old EXCEPT ![pattern] = Insert(@, method, route)]

InsertRoute(dynamic, pattern, method, route) ==
    LET old == [node \in DOMAIN dynamic \union Prefixes(pattern) |->
                   IF node \in DOMAIN dynamic THEN dynamic[node] ELSE NoRoutes]
    IN [old EXCEPT ![pattern] = Insert(@, method, route)]

(* Mutant: a static branch that fails deeper down is not given up.          *)
FindCommits(dynamic, parts) ==
    LET find[node \in DOMAIN dynamic] ==
        IF Len(node) = Len(parts)
        THEN IF dynamic[node] = NoRoutes THEN None ELSE node
        ELSE LET part == parts[Len(node) + 1]
             IN IF Append(node, part) \in DOMAIN dynamic
                THEN find[Append(node, part)]
                ELSE IF /\ Captures(node) < MaxCaptures
                        /\ part \notin Malformed
                        /\ Append(node, Capture) \in DOMAIN dynamic
                     THEN find[Append(node, Capture)]
                     ELSE None
    IN find[<<>>]

(* find_node: static branches first, the capture branch if they fail.       *)
Find(dynamic, parts) ==
    LET find[node \in DOMAIN dynamic] ==
        LET part == parts[Len(node) + 1]
            static == IF Append(node, part) \in DOMAIN dynamic
                      THEN find[Append(node, part)] ELSE None
            capture == IF /\ Captures(node) < MaxCaptures
                          /\ part \notin Malformed
                          /\ Append(node, Capture) \in DOMAIN dynamic
                       THEN find[Append(node, Capture)] ELSE None
        IN IF Len(node) = Len(parts)
           THEN IF dynamic[node] = NoRoutes THEN None ELSE node
           ELSE IF static # None THEN static ELSE capture
    IN find[<<>>]

(* Static routes are looked up by their text, before the trie.              *)
Dispatch(static, dynamic, method, path) ==
    IF path \in DOMAIN static THEN ResolveRouteSet(static[path], method)
    ELSE LET node == Find(dynamic, path.segments)
         IN IF node = None THEN Response("notFound", None)
            ELSE ResolveRouteSet(dynamic[node], method)

-----------------------------------------------------------------------------
(* Scopes.                                                                  *)

ScopeAll == [kind |-> "all", method |-> None, pattern |-> <<>>]
ScopePrefix(pattern) == [kind |-> "prefix", method |-> None, pattern |-> pattern]
ScopeRoute(method, pattern) ==
    [kind |-> "route", method |-> method, pattern |-> pattern]

(* Mutant: segments are compared as they were sent.                         *)
SegmentsMatchRaw(pattern, parts) ==
    /\ Len(pattern) <= Len(parts)
    /\ \A i \in DOMAIN pattern : pattern[i] \in {Capture, parts[i]}

SegmentsMatch(pattern, parts) ==
    /\ Len(pattern) <= Len(parts)
    /\ \A i \in DOMAIN pattern : pattern[i] \in {Capture, parts[i], Decoded(parts[i])}

(* Mutant: HEAD is not covered by the layer of a GET route.                 *)
ScopeMatchesExactly(scope, method, path) ==
    /\ SegmentsMatch(scope.pattern, path.segments)
    /\ scope.kind = "route" => /\ scope.method = method
                               /\ Len(scope.pattern) = Len(path.segments)

ScopeMatches(scope, method, path) ==
    /\ SegmentsMatch(scope.pattern, path.segments)
    /\ scope.kind = "route" =>
           /\ scope.method = method \/ (scope.method = "GET" /\ method = "HEAD")
           /\ Len(scope.pattern) = Len(path.segments)
=============================================================================
