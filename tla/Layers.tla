------------------------------- MODULE Layers -------------------------------
(***************************************************************************)
(* What is answered to a request: the responses that handlers, the router  *)
(* and the body reader make (response.rs, runtime.rs), and what each       *)
(* built-in middleware makes of the response of the layers inside it.      *)
(*                                                                         *)
(* A request is a record: method, path, origin, accepts (the entries of    *)
(* Accept-Encoding), token, asks (the Access-Control-Request headers), id, *)
(* fresh (it revalidates a current copy) and what befalls it: the answer   *)
(* of the route's handler, the file it names, how the upload goes, whether *)
(* its rate limit is used up and the pool of blocking threads runs jobs.   *)
(*                                                                         *)
(* Sizes are classes that the least size of a Compress, Blocking and       *)
(* WholeFile separate; the length of a compressed body is not known, only  *)
(* which body it is of.  A header is a field; its text is left out.        *)
(***************************************************************************)
EXTENDS Values, Integers, Sequences, FiniteSets

CONSTANTS Blocking,  \* BLOCKING_THRESHOLD: larger bodies go to the pool
          WholeFile, \* SMALL_FILE: larger files are streamed
          Tiny,      \* size of an error document and of "Not Found"
          Texts      \* the texts of methods, paths and headers

ASSUME SizeAssumption == {Blocking, WholeFile, Tiny} \subseteq Nat /\ 0 < Tiny

ASSUME TextsAssumption ==
    /\ None \notin Texts
    /\ {"GET", "HEAD", "POST", "OPTIONS", "text", "json", "weak", "br", "gzip", "x-gzip",
        "generated", "*", "Origin", "Request-Method", "Request-Headers",
        "Accept-Encoding", "allow", "www-authenticate", "retry-after", "connection",
        "sec-websocket-version", "content-type"} \subseteq Texts

-----------------------------------------------------------------------------
(* Bodies and responses.                                                    *)

Whole(size) == [kind |-> "full", size |-> size, coding |-> None]
Chunks(size) == [kind |-> "stream", size |-> size, coding |-> None]
LengthOf(body) == [size |-> body.size, coding |-> body.coding]

(* The length a body knows by itself.                                       *)
SizeHint(body) == IF body.kind = "full" THEN LengthOf(body) ELSE None

Blank ==
    [status      |-> 200,
     type        |-> None,   \* Content-Type
     length      |-> None,   \* Content-Length
     coding      |-> None,   \* Content-Encoding
     etag        |-> None,
     vary        |-> {},
     allowOrigin |-> None,   \* Access-Control-Allow-Origin: "*" or an origin
     credentials |-> FALSE,
     exposed     |-> FALSE,
     granted     |-> FALSE,  \* Access-Control-Allow-Methods, of a preflight
     notes       |-> {},     \* the headers that explain a refusal
     range       |-> FALSE,  \* Content-Range
     noTransform |-> FALSE,
     id          |-> None,   \* X-Request-Id
     info        |-> FALSE,  \* the ErrorInfo extension
     traced      |-> {},     \* the statuses that sinks of Trace saw
     body        |-> Whole(0)]

(* A panic that unwinds in place of a response.                             *)
Panicking == [Blank EXCEPT !.status = 0]

ResponseText(status, size) ==
    [Blank EXCEPT !.status = status, !.type = "text", !.body = Whole(size),
                  !.length = LengthOf(Whole(size))]

ResponseJson(status, size) ==
    [Blank EXCEPT !.status = status, !.type = "json", !.body = Whole(size)]

StreamResponse(size) == [Blank EXCEPT !.body = Chunks(size)]

Bodiless(status) ==
    [Blank EXCEPT !.status = status, !.length = LengthOf(Whole(0))]

ApiError(status) == [ResponseJson(status, Tiny) EXCEPT !.info = TRUE]
NotFound == [ResponseText(404, Tiny) EXCEPT !.info = TRUE]
OptionsResponse == [Bodiless(204) EXCEPT !.notes = {"allow"}]
MethodNotAllowed == [Bodiless(405) EXCEPT !.notes = {"allow"}, !.info = TRUE]
RequestTimeout == [ApiError(408) EXCEPT !.notes = {"connection"}]

(* WebSocketUpgrade::on_upgrade, for a version of the protocol but 13.      *)
UpgradeRequired == [ApiError(426) EXCEPT !.notes = {"sec-websocket-version"}]

(* maybe_head_flag.                                                         *)
MaybeHead(isHead, r) ==
    IF ~isHead THEN r
    ELSE [r EXCEPT !.body = Whole(0),
                   !.length = IF @ = None THEN SizeHint(r.body) ELSE @]

(* What there is: statuses are 100 and up, but for the panic.               *)
Name == Texts \union {None}
Length == [size : Nat, coding : Name]
Body == [kind : {"full", "stream"}, size : Nat, coding : Name]

ASSUME LengthAssumption == None \notin Length

ResponseSet ==
    [status : Nat, type : Name, length : Length \union {None}, coding : Name,
     etag : Name, vary : SUBSET Texts, allowOrigin : Name, credentials : BOOLEAN,
     exposed : BOOLEAN, granted : BOOLEAN, notes : SUBSET Texts,
     range : BOOLEAN, noTransform : BOOLEAN, id : Name, info : BOOLEAN, traced : SUBSET Nat, body : Body]

RequestSet ==
    [method : Texts, path : Texts, origin : Name,
     accepts : Seq([coding : Texts, quality : Nat]), token : Name,
     asks : [method : Texts, headers : SUBSET Texts] \union {None},
     id : Name, fresh : BOOLEAN, handler : ResponseSet,
     file : [type : Name, size : Nat], limited : BOOLEAN, pool : BOOLEAN,
     upload : {"complete", "announced", "overrun", "slow", "broken"}]

-----------------------------------------------------------------------------
(* The end of the chain.  "route" takes GET, "upload" takes POST with a     *)
(* buffered body, "missing" is no route, nor is a "file" of ServeDir.       *)

TakenBy(path) == CASE path = "route" -> {"GET", "HEAD"}
                   [] path = "upload" -> {"POST"}
                   [] OTHER -> {}

(* prepare_matched, body mode Buffered, as the upload goes.                 *)
Upload(req) ==
    CASE req.upload = "complete" -> req.handler
      [] req.upload \in {"announced", "overrun"} -> ApiError(413)
      [] req.upload = "slow" -> RequestTimeout
      [] req.upload = "broken" -> ApiError(400)

Dispatch(req) ==
    IF TakenBy(req.path) = {} THEN NotFound
    ELSE IF req.method \notin TakenBy(req.path)
    THEN IF req.method = "OPTIONS" THEN OptionsResponse ELSE MethodNotAllowed
    ELSE IF req.path = "upload" THEN Upload(req)
    ELSE IF req.handler = Panicking THEN Panicking
    ELSE MaybeHead(req.method = "HEAD", req.handler)

-----------------------------------------------------------------------------
(* Cors: its builder, where the two calls that browsers refuse together     *)
(* panic (Refused), whichever comes first.                                  *)

Refused == [kind |-> "refused"]

CorsNew == [kind |-> "cors", any |-> FALSE, origins |-> {},
            methods |-> {"GET", "HEAD", "POST"}, headers |-> {"content-type"},
            mirror |-> FALSE, credentials |-> FALSE, exposes |-> FALSE]

AllowOrigin(c, origin) == [c EXCEPT !.origins = @ \union {origin}]
(* Mutant: the later call does not look at the earlier one.                 *)
AllowAnyOriginAnyway(c) == [c EXCEPT !.any = TRUE]

AllowAnyOrigin(c) == IF c.credentials THEN Refused ELSE [c EXCEPT !.any = TRUE]
AllowCredentials(c, allow) ==
    IF allow /\ c.any THEN Refused ELSE [c EXCEPT !.credentials = allow]
AllowMethods(c, methods) == [c EXCEPT !.methods = methods]
AllowHeaders(c, headers) == [c EXCEPT !.headers = headers, !.mirror = FALSE]
AllowAnyHeader(c) == [c EXCEPT !.mirror = TRUE]
ExposeHeaders(c) == [c EXCEPT !.exposes = TRUE]

AllowsOrigin(c, origin) == c.any \/ origin \in c.origins
OriginValue(c, origin) == IF c.any THEN "*" ELSE origin
AllowsHeaders(c, headers) == c.mirror \/ headers \subseteq c.headers

CorsVary(c, vary, extra) ==
    IF "*" \in vary THEN vary
    ELSE vary \union extra \union (IF c.any THEN {} ELSE {"Origin"})

IsPreflight(req) ==
    req.method = "OPTIONS" /\ req.origin # None /\ req.asks # None

Grants(c, req) == /\ AllowsOrigin(c, req.origin)
                  /\ req.asks.method \in c.methods
                  /\ AllowsHeaders(c, req.asks.headers)

Preflight(c, req) ==
    LET granted == Grants(c, req)
    IN [Bodiless(204) EXCEPT
            !.granted = granted,
            !.allowOrigin = IF granted THEN OriginValue(c, req.origin) ELSE None,
            !.credentials = granted /\ c.credentials,
            !.vary = CorsVary(c, {}, {"Request-Method", "Request-Headers"})]

(* Mutant: a response that needs no CORS header is not marked.              *)
DecorateAllowed(c, origin, r) ==
    LET allowed == origin # None /\ AllowsOrigin(c, origin)
    IN [r EXCEPT
            !.allowOrigin = IF allowed THEN OriginValue(c, origin)
                            ELSE IF c.any THEN "*" ELSE @,
            !.credentials = @ \/ (allowed /\ c.credentials),
            !.exposed = @ \/ (allowed /\ c.exposes),
            !.vary = IF allowed THEN CorsVary(c, @, {}) ELSE @]

(* Mutant: errors stay undecorated.                                         *)
DecorateSuccess(c, origin, r) ==
    IF r.status < 400 THEN DecorateAllowed(c, origin, r) ELSE r

Decorate(c, origin, r) ==
    LET allowed == origin # None /\ AllowsOrigin(c, origin)
    IN [r EXCEPT
            !.allowOrigin = IF allowed THEN OriginValue(c, origin)
                            ELSE IF c.any THEN "*" ELSE @,
            !.credentials = @ \/ (allowed /\ c.credentials),
            !.exposed = @ \/ (allowed /\ c.exposes),
            !.vary = CorsVary(c, @, {})]

-----------------------------------------------------------------------------
(* Compress.  Its min is what Compress::min_size and MIN_COMPRESSIBLE come  *)
(* to, the larger of the two.                                               *)

(* The quality of the last entry for one of the names, else of "*".         *)
QualityOf(accepts, names) ==
    LET Last(hits) == accepts[CHOOSE i \in hits : \A j \in hits : j <= i].quality
        named == {i \in DOMAIN accepts : accepts[i].coding \in names}
        any == {i \in DOMAIN accepts : accepts[i].coding = "*"}
    IN IF named # {} THEN Last(named) ELSE IF any # {} THEN Last(any) ELSE 0

(* The highest quality above 0; brotli wins a tie.                          *)
Negotiate(accepts) ==
    LET br == QualityOf(accepts, {"br"})
        gzip == QualityOf(accepts, {"gzip", "x-gzip"})
    IN IF gzip > br THEN "gzip" ELSE IF br > 0 THEN "br" ELSE None

Compressible(type) == type \in {"text", "json"}

CompressVary(vary) == IF "*" \in vary THEN vary ELSE vary \union {"Accept-Encoding"}

WeakenEtag(etag) == IF etag = None THEN None ELSE "weak"

Encoded(r, coding) == [r EXCEPT !.coding = coding, !.etag = WeakenEtag(@)]

(* What a HEAD says of the body its GET would have.  Mutant: nothing.       *)
DescribeNothing(min, r, coding) == r

DescribeEncoded(min, r, coding) ==
    IF r.length # None /\ r.length.size >= min
    THEN [Encoded(r, coding) EXCEPT !.length = None]
    ELSE r

EncodeBody(min, r, coding, pool) ==
    LET body == [r.body EXCEPT !.coding = coding]
    IN IF /\ r.body.kind = "full"
          /\ r.body.size >= min
          /\ r.body.size > Blocking => pool
       THEN [Encoded(r, coding) EXCEPT !.body = body,
                                       !.length = IF @ = None THEN None ELSE LengthOf(body)]
       ELSE r

Untouchable(r) ==
    r.noTransform \/ r.status \in 100 .. 199 \union {204, 206, 304} \/ r.range

Compressed(l, req, r) ==
    LET coding == Negotiate(req.accepts)
        varied == [r EXCEPT !.vary = CompressVary(@)]
    IN IF r.coding # None \/ ~Compressible(r.type) THEN r
       ELSE IF coding = None \/ Untouchable(r) THEN varied
       ELSE IF req.method = "HEAD" THEN DescribeEncoded(l.min, varied, coding)
       ELSE EncodeBody(l.min, varied, coding, req.pool)

-----------------------------------------------------------------------------
(* ErrorFormat: the hook answers with a document of its own.  Mutant: the   *)
(* headers that ErrorFormat was first written for.                          *)
CarriedFirst == {"allow", "www-authenticate", "retry-after"}

Carried == {"allow", "www-authenticate", "retry-after", "connection",
            "sec-websocket-version"}

Reformat(req, r) ==
    IF ~r.info THEN r
    ELSE MaybeHead(req.method = "HEAD",
                   [ResponseJson(r.status, Tiny) EXCEPT
                        !.notes = r.notes \intersect Carried,
                        !.traced = r.traced])

(* BearerAuth: no token, one the validator refuses, or one it accepts.      *)
Unauthorized(req) ==
    IF req.token = None
    THEN [ApiError(401) EXCEPT !.notes = {"www-authenticate"}]
    ELSE ApiError(401)

TooManyRequests == [ApiError(429) EXCEPT !.notes = {"retry-after"}]

(* ServeDir, with a file that stays as it is (StaticFiles has the others).  *)
FileResponse(req) ==
    LET described == [Blank EXCEPT !.type = req.file.type, !.etag = "weak"]
        size == req.file.size
        body == IF size <= WholeFile THEN Whole(size) ELSE Chunks(size)
    IN IF req.fresh THEN [described EXCEPT !.status = 304]
       ELSE [described EXCEPT
                !.length = LengthOf(body),
                !.body = IF req.method = "HEAD" THEN Whole(0) ELSE body]

-----------------------------------------------------------------------------
(* One layer around the rest: it hands on the request (Forward), or answers *)
(* itself (Answers, Own), or makes something of the response (After).       *)

(* RequestId keeps an id the client sent and it can use.                    *)
Forward(l, req) ==
    IF l.kind = "requestId" /\ req.id \notin {"client", "generated"}
    THEN [req EXCEPT !.id = "generated"] ELSE req

Answers(l, req) ==
    \/ l.kind = "cors" /\ IsPreflight(req)
    \/ l.kind = "bearer" /\ req.path \notin l.exempt /\ req.token # "good"
    \/ l.kind = "rateLimit" /\ req.limited
    \/ l.kind = "serveDir" /\ req.method \in {"GET", "HEAD"} /\ req.path = "file"

Own(l, req) == CASE l.kind = "cors" -> Preflight(l, req)
                 [] l.kind = "bearer" -> Unauthorized(req)
                 [] l.kind = "rateLimit" -> TooManyRequests
                 [] l.kind = "serveDir" -> FileResponse(req)

After(l, req, r) ==
    CASE l.kind = "cors" -> Decorate(l, req.origin, r)
      [] l.kind = "compress" -> Compressed(l, req, r)
      [] l.kind = "errorFormat" -> Reformat(req, r)
      [] l.kind = "requestId" -> [r EXCEPT !.id = Forward(l, req).id]
      [] l.kind = "trace" -> [r EXCEPT !.traced = @ \union {r.status}]
      [] OTHER -> r

(* A panic unwinds through every layer but CatchPanic.                      *)
Around(l, req, inner) ==
    IF Answers(l, req) THEN Own(l, req)
    ELSE IF inner # Panicking THEN After(l, req, inner)
    ELSE IF l.kind = "catchPanic" THEN ApiError(500)
    ELSE Panicking

(* The request as it reaches each layer, and the response of each layer,    *)
(* the first one outermost.                                                 *)
Respond(stack, req) ==
    LET end == Len(stack) + 1
        reaching[i \in 1 .. end] ==
            IF i = 1 THEN req ELSE Forward(stack[i - 1], reaching[i - 1])
        from[i \in 1 .. end] ==
            IF i = end THEN Dispatch(reaching[i])
            ELSE Around(stack[i], reaching[i], from[i + 1])
    IN from[1]
=============================================================================
