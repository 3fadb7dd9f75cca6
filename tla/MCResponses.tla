---------------------------- MODULE MCResponses -----------------------------
(* A small instance of Responses for TLC.                                   *)
EXTENDS Responses

OneLayer(kind) == [kind |-> kind]
Layers == {[kind |-> "bearer", exempt |-> {"missing"}]}
            \union {[kind |-> "compress", min |-> m] : m \in 1 .. 2}
            \union {OneLayer(k) : k \in Simple}
(* As Compress is by default: the errors are too small for it.              *)
SparingLayers == {l \in Layers : l.kind = "compress" => l.min > Tiny}

AllTexts ==
    {"GET", "HEAD", "POST", "OPTIONS", "DELETE", "route", "upload", "missing", "file",
     "good", "bad", "client", "unusable", "generated", "app", "other", "x", "*",
     "text", "json", "image", "weak", "strong", "br", "gzip", "x-gzip", "content-type",
     "Origin", "Request-Method", "Request-Headers", "Accept-Encoding",
     "allow", "www-authenticate", "retry-after", "connection", "sec-websocket-version"}

CorsOrigins == {"app"}
CorsMethods == {{"GET", "DELETE"}}

(* What handlers return: plain values, and responses built by hand.         *)
Handlers ==
    {ResponseText(200, 1), ResponseText(200, 2), ResponseText(200, 3),
     ResponseJson(201, 2), StreamResponse(3), Bodiless(204), Bodiless(304),
     ApiError(400), UpgradeRequired, Panicking,
     [ResponseText(200, 2) EXCEPT !.vary = {"*"}],
     [ResponseText(200, 2) EXCEPT !.etag = "strong", !.noTransform = TRUE],
     [ResponseJson(200, 2) EXCEPT !.etag = "strong", !.vary = {"Origin"}],
     [ResponseText(206, 2) EXCEPT !.etag = "strong"],
     [ResponseText(416, 2) EXCEPT !.range = TRUE],
     [StreamResponse(2) EXCEPT !.type = "text"],
     [ResponseText(200, 2) EXCEPT !.coding = "gzip", !.length.coding = "gzip",
                                  !.body.coding = "gzip"]}

(* Accept-Encoding: none, gzip, anything but gzip, brotli as good as gzip.  *)
Entry(coding, quality) == [coding |-> coding, quality |-> quality]
Accepts == {<<>>, <<Entry("x-gzip", 2)>>,
            <<Entry("*", 1), Entry("gzip", 0)>>,
            <<Entry("gzip", 1), Entry("br", 1)>>}

Plain ==
    [method |-> "GET", path |-> "route", origin |-> None, accepts |-> <<>>,
     token |-> "good", asks |-> None, id |-> None, fresh |-> FALSE,
     handler |-> ResponseText(200, 2), file |-> [type |-> "text", size |-> 2],
     upload |-> "complete", limited |-> FALSE, pool |-> TRUE]

Senders == {None, "app", "other"}
Gzip == <<Entry("x-gzip", 2)>>

Fetches ==
    {[Plain EXCEPT !.method = m, !.origin = o, !.accepts = a, !.handler = h] :
        m \in {"GET", "HEAD"}, o \in Senders, a \in Accepts, h \in Handlers}

Files ==
    {[Plain EXCEPT !.method = m, !.path = "file", !.origin = o, !.accepts = a,
                   !.file = [type |-> t, size |-> s], !.fresh = f] :
        m \in {"GET", "HEAD"}, o \in {None, "app"}, a \in {<<>>, Gzip},
        t \in {"text", "image"}, s \in {0, 2, 3}, f \in BOOLEAN}

NoPool == {[Plain EXCEPT !.accepts = Gzip, !.pool = FALSE,
                         !.handler = ResponseText(200, s)] : s \in {2, 3}}

(* How a request may fare before and after it reaches its handler.          *)
Faring(req) == {req, [req EXCEPT !.token = None], [req EXCEPT !.token = "bad"],
                [req EXCEPT !.limited = TRUE]}
Failing(req) == {[req EXCEPT !.upload = "slow"], [req EXCEPT !.handler = Panicking]}

Misses ==
    UNION {Faring([Plain EXCEPT !.method = m, !.path = p, !.origin = o,
                                !.accepts = a]) :
        m \in {"GET", "HEAD", "OPTIONS"}, p \in {"missing", "upload"},
        o \in {None, "app"}, a \in {<<>>, Gzip}}

Uploads ==
    {[Plain EXCEPT !.method = "POST", !.path = "upload", !.origin = o,
                   !.upload = u, !.handler = h, !.id = i] :
        o \in {None, "app"}, h \in {ResponseJson(200, 1), Panicking},
        u \in {"complete", "announced", "overrun", "slow", "broken"},
        i \in {None, "client", "unusable"}}

PreflightOf(p, o, asks) ==
    [Plain EXCEPT !.method = "OPTIONS", !.path = p, !.origin = o, !.asks = asks]
Preflights ==
    UNION {LET req == PreflightOf(p, o, [method |-> m, headers |-> s])
           IN Faring(req) \union Failing(req) :
        p \in {"route", "upload", "missing", "file"}, o \in {"app", "other"},
        m \in {"GET", "POST"}, s \in {{}, {"x"}}}

NotByDefault ==
    {PreflightOf("route", "app", [method |-> "DELETE", headers |-> s]) :
        s \in {{}, {"content-type"}}}

Arriving == Fetches \union Files \union NoPool \union Misses \union Uploads
              \union Preflights \union NotByDefault

(* Cors as two calls of its builder leave it, one naming an origin or every *)
(* one; in three layers only two kinds, with credentials and for everyone.  *)
Settings(c) == Cardinality({f \in DOMAIN CorsNew : c[f] # CorsNew[f]})
Usual == {AllowCredentials(AllowOrigin(CorsNew, "app"), TRUE),
          AllowAnyHeader(AllowAnyOrigin(CorsNew))}
Explored ==
    /\ cors # None => Settings(cors) <= 2
    /\ \A i \in DOMAIN stack : stack[i].kind = "cors" =>
           /\ stack[i].any \/ stack[i].origins # {}
           /\ Len(stack) = MaxLayers /\ MaxLayers > 2 => stack[i] \in Usual
=============================================================================
