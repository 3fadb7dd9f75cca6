----------------------------- MODULE Responses ------------------------------
(***************************************************************************)
(* An application as a stack of layers around its routes, and what its     *)
(* clients - browsers, shared caches, HEAD requests - make of the answers. *)
(***************************************************************************)
EXTENDS Layers

CONSTANTS Registered,  \* the layers that may be registered, besides Cors
          Requests,    \* the requests that may arrive
          Origins,     \* the origins given to Cors
          MethodLists, \* the methods given to it
          HeaderLists, \* the headers given to it
          MaxLayers    \* bound: layers registered

(* A refusal says what to do about it.                                      *)
Explained(req, r) ==
    /\ r.status = 408 => "connection" \in r.notes
    /\ r.status = 405 => "allow" \in r.notes
    /\ r.status = 429 => "retry-after" \in r.notes
    /\ r.status = 401 /\ req.token = None => "www-authenticate" \in r.notes
    /\ r.status = 426 => "sec-websocket-version" \in r.notes

(* Handlers leave CORS to Cors, give a body no other length than it has and *)
(* explain their own refusals; allow_origin panics at "*".                  *)
WellBehaved(req) ==
    LET r == req.handler
    IN \/ r = Panicking
       \/ /\ r.status # 0
          /\ r.allowOrigin = None /\ ~r.credentials /\ ~r.granted
          /\ r.length \in {None, LengthOf(r.body)}
          /\ Explained(req, r)

Bearers == [kind : {"bearer"}, exempt : SUBSET Texts]
Compressors == [kind : {"compress"}, min : Nat \ {0}]
Simple == {"errorFormat", "catchPanic", "trace", "requestId", "rateLimit", "serveDir"}

ASSUME ResponsesAssumption ==
    /\ Registered \subseteq Bearers \union Compressors \union [kind : Simple]
    /\ Requests \subseteq RequestSet
    /\ \A req \in Requests : req.origin # "*" /\ WellBehaved(req)
    /\ Origins \subseteq Texts \ {"*"}
    /\ MethodLists \union HeaderLists \subseteq SUBSET Texts
    /\ MaxLayers \in Nat

VARIABLES cors,     \* the Cors being built, or None
          stack,    \* the layers in the order of App::layer
          exchange  \* the last request with its answer, or None

vars == <<cors, stack, exchange>>

Init == cors = None /\ stack = <<>> /\ exchange = None

(* Cors::new, and a call of its builder that does not panic.                *)
NewCors == /\ exchange = None
           /\ cors = None
           /\ cors' = CorsNew
           /\ UNCHANGED <<stack, exchange>>

Calls(c) == {AllowOrigin(c, origin) : origin \in Origins}
            \union {AllowCredentials(c, allow) : allow \in BOOLEAN}
            \union {AllowMethods(c, methods) : methods \in MethodLists}
            \union {AllowHeaders(c, headers) : headers \in HeaderLists}
            \union {AllowAnyOrigin(c), AllowAnyHeader(c), ExposeHeaders(c)}

EditCors == /\ cors # None
            /\ \E c \in Calls(cors) \ {Refused} : cors' = c
            /\ UNCHANGED <<stack, exchange>>

(* App::layer, before the application is built; a kind may come again.      *)
AddLayer(l) == /\ exchange = None
               /\ Len(stack) < MaxLayers
               /\ stack' = Append(stack, l)
               /\ UNCHANGED exchange

Layer(l) == cors = None /\ AddLayer(l) /\ UNCHANGED cors
LayerCors == cors # None /\ AddLayer(cors) /\ cors' = None

Ask(req) == /\ exchange = None
            /\ cors = None
            /\ exchange' = [request |-> req, answer |-> Respond(stack, req)]
            /\ UNCHANGED <<cors, stack>>

Send == /\ exchange # None
        /\ exchange' = None
        /\ UNCHANGED <<cors, stack>>

Next == \/ NewCors \/ EditCors \/ LayerCors
        \/ \E l \in Registered : Layer(l)
        \/ \E req \in Requests : Ask(req)
        \/ Send
Spec == Init /\ [][Next]_vars

-----------------------------------------------------------------------------
Answered == exchange # None /\ exchange.answer # Panicking
Request == exchange.request
Answer == exchange.answer

Position(kind) == {i \in DOMAIN stack : stack[i].kind = kind}

(* The outermost Cors has no layer of these kinds in front of it.           *)
CorsBefore(kinds) ==
    \E k \in Position("cors") :
        \A j \in 1 .. k - 1 : stack[j].kind \notin kinds \union {"cors"}

(* What the headers say of a body, but for its length.                      *)
Headers(r) == [r EXCEPT !.length = None, !.body = None]

(* A length, where there is one, is that of the body a GET sends.           *)
Measures(length, get) == length = None \/ length = LengthOf(get.body)

Agrees(head, get) == /\ Headers(head) = Headers(get)
                     /\ get.status # 304 => Measures(head.length, get)
                     /\ get.status # 304 => Measures(get.length, get)

AsGet(req) == [req EXCEPT !.method = "GET"]

(* A stream with a length announced: what ServeDir makes of a large file.   *)
MeasuredStream(r) == r.body.kind = "stream" /\ r.length # None

(* An error that a layer answered to a HEAD: a body, and no length of it.   *)
UnmeasuredError(r) == r.info /\ r.length = None /\ r.coding = None

(* A Compress whose min_size does not spare the errors.                     *)
EncodesErrors == \E i \in Position("compress") : stack[i].min <= Tiny

(* Through any layers a HEAD has the status and the headers of the GET, and *)
(* a Content-Length, of either, is that of the body the GET sends: the      *)
(* router drops the body of a HEAD before Compress and ErrorFormat see it,  *)
(* and both have to say what they would have made of it.  Three exceptions: *)
(* the pool fails Compress; a large file (HeadAlwaysAgrees); and, where     *)
(* min_size is set as low as an error document is small, an error that a    *)
(* layer answers itself: Compress encodes it for the GET, but for the HEAD, *)
(* without a Content-Length to go by, leaves it as it is.                   *)
HeadAgrees ==
    Answered /\ Request.method = "HEAD" /\ Request.pool =>
        LET get == Respond(stack, AsGet(Request))
        IN \/ MeasuredStream(get)
           \/ EncodesErrors /\ UnmeasuredError(Answer)
           \/ Agrees(Answer, get)

(* compress.rs says so of every HEAD.                                       *)
HeadAlwaysAgrees ==
    Answered /\ Request.method = "HEAD" /\ Request.pool =>
        Agrees(Answer, Respond(stack, AsGet(Request)))

-----------------------------------------------------------------------------
(* A shared cache that keeps the answer to one GET and gives it to another  *)
(* one that agrees in the headers Vary names (and in its credentials) gives *)
(* it what the server would: the coding it accepts, and the leave to read   *)
(* it across origins or the lack of it.                                     *)
Selects(vary, q1, q2) == /\ "*" \notin vary
                         /\ "Origin" \in vary => q1.origin = q2.origin
                         /\ "Accept-Encoding" \in vary => q1.accepts = q2.accepts

Selectors == {[origin |-> q.origin, accepts |-> q.accepts] : q \in Requests}

Others(req) ==
    {[req EXCEPT !.origin = s.origin, !.accepts = s.accepts] : s \in Selectors}

RightVariant ==
    Answered /\ Request.method = "GET" /\ Request.pool =>
        \A q \in Others(Request) :
            Selects(Answer.vary, Request, q) =>
                LET r == Respond(stack, q)
                IN /\ r.coding = Answer.coding
                   /\ r.allowOrigin = Answer.allowOrigin

-----------------------------------------------------------------------------
(* What a browser lets a page of this origin read, with credentials or not. *)
Readable(r, origin) == r.allowOrigin \in {"*", origin}
ReadableWithCredentials(r, origin) == r.allowOrigin = origin /\ r.credentials

(* The request that a preflight asks for.                                   *)
AskedFor(req) == [req EXCEPT !.method = req.asks.method, !.asks = None]

(* A preflight that is granted is a promise: the request it asks for gets   *)
(* an answer the page may read, and with credentials if the preflight said  *)
(* so, whatever becomes of it: refused for its token or rate, too slow, not *)
(* found, a panic that is caught.  The outermost Cors must be in front of   *)
(* the layers that answer in place of others, or of the requests it granted *)
(* (README, divergences).                                                   *)
GrantedIsReadable ==
    /\ Answered /\ IsPreflight(Request) /\ Answer.granted
    /\ CorsBefore({"errorFormat", "catchPanic", "serveDir"})
    => LET r == Respond(stack, AskedFor(Request))
       IN /\ r # Panicking => Readable(r, Request.origin)
          /\ r # Panicking /\ Answer.credentials =>
                 ReadableWithCredentials(r, Request.origin)

(* No browser is told that everyone may read with credentials, by a stack   *)
(* with one Cors: its builder refuses one of the two, whichever is asked    *)
(* for first, and no layer adds the other.  App::layer takes a second Cors, *)
(* and then it may be told: one for everyone sets the origin and leaves the *)
(* credentials that a Cors inside it allowed.                               *)
NoWildcardCredentials ==
    Answered /\ (\A i, j \in Position("cors") : i = j) =>
        ~(Answer.allowOrigin = "*" /\ Answer.credentials)

-----------------------------------------------------------------------------
(* A refusal keeps the header that says what to do about it, through any    *)
(* layers: a 408 ends the connection, on which the rest of the upload is    *)
(* still to come, a 405 names the methods, a 429 the time, a 401 for a      *)
(* missing token the scheme, and a 426 the version to upgrade to.           *)
RefusalExplained == Answered => Explained(Request, Answer)
=============================================================================
