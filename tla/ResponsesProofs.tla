-------------------------- MODULE ResponsesProofs ---------------------------
(***************************************************************************)
(* The answers of a stack of layers.  Respond is a recursion over the      *)
(* stack: the layers are followed from the last to the first, with a       *)
(* relation between the answers to one request, or to two requests that    *)
(* belong together, that every layer keeps.                                *)
(***************************************************************************)
EXTENDS Responses, SequenceTheorems, Induction, TLAPS

-----------------------------------------------------------------------------
(* Types.                                                                   *)

CorsSet == [kind : {"cors"}, any : BOOLEAN, origins : SUBSET (Texts \ {"*"}),
            methods : SUBSET Texts, headers : SUBSET Texts, mirror : BOOLEAN,
            credentials : BOOLEAN, exposes : BOOLEAN]
LayerSet == CorsSet \union Bearers \union Compressors \union [kind : Simple]

(* The blank response is one.                                               *)
LEMMA BlankType == Blank \in ResponseSet
<1>1. Whole(0) \in Body
  BY DEF Whole, Body, Name
<1>2. None \in Name /\ None \in Length \union {None} /\ {} \in SUBSET Texts /\ {} \in SUBSET Nat
  BY DEF Name
<1> QED
  BY <1>1, <1>2 DEF Blank, ResponseSet

(* A whole body and its length.                                             *)
LEMMA WholeType ==
    ASSUME NEW size \in Nat
    PROVE  /\ Whole(size) \in Body /\ Whole(size).kind = "full" /\ Whole(size).size = size
           /\ Whole(size).coding = None
           /\ LengthOf(Whole(size)) = [size |-> size, coding |-> None]
           /\ LengthOf(Whole(size)) \in Length
  BY DEF Whole, Body, Name, LengthOf, Length

(* The texts that the layers write themselves.                              *)
LEMMA NamesType ==
    /\ None \in Name /\ Texts \subseteq Name
    /\ None \in Length \union {None} /\ Length \subseteq Length \union {None}
    /\ {"allow"} \in SUBSET Texts /\ {"www-authenticate"} \in SUBSET Texts
    /\ {"retry-after"} \in SUBSET Texts /\ {"connection"} \in SUBSET Texts
    /\ {} \in SUBSET Texts /\ {"Accept-Encoding"} \in SUBSET Texts
    /\ "text" \in Name /\ "json" \in Name /\ "weak" \in Name /\ "generated" \in Name
    /\ "*" \in Name /\ "br" \in Name /\ "gzip" \in Name
  BY TextsAssumption DEF Name

(* What the constructors of response.rs make are responses.                 *)
LEMMA MadeType ==
    ASSUME NEW status \in Nat, NEW size \in Nat
    PROVE  /\ ResponseText(status, size) \in ResponseSet
           /\ ResponseJson(status, size) \in ResponseSet
           /\ Bodiless(status) \in ResponseSet
           /\ Panicking \in ResponseSet
<1>1. Whole(size) \in Body /\ LengthOf(Whole(size)) \in Length \union {None}
  BY WholeType
<1>2. LengthOf(Whole(0)) \in Length \union {None}
  BY WholeType
<1>3. "text" \in Name /\ "json" \in Name
  BY NamesType
<1>4. ResponseText(status, size) \in ResponseSet
  BY <1>1, <1>3, BlankType DEF ResponseText, ResponseSet
<1>5. ResponseJson(status, size) \in ResponseSet
  BY <1>1, <1>3, BlankType DEF ResponseJson, ResponseSet
<1>6. Bodiless(status) \in ResponseSet
  BY <1>2, BlankType DEF Bodiless, ResponseSet
<1>7. Panicking \in ResponseSet
  BY BlankType DEF Panicking, ResponseSet
<1> QED
  BY <1>4, <1>5, <1>6, <1>7

(* So is what the router and the layers answer themselves.                  *)
LEMMA OwnTypes ==
    ASSUME NEW status \in Nat
    PROVE  /\ ApiError(status) \in ResponseSet
           /\ NotFound \in ResponseSet /\ OptionsResponse \in ResponseSet
           /\ MethodNotAllowed \in ResponseSet /\ RequestTimeout \in ResponseSet
           /\ TooManyRequests \in ResponseSet
           /\ \A req : Unauthorized(req) \in ResponseSet
<1>1. Tiny \in Nat
  BY SizeAssumption
<1>2. ASSUME NEW n \in Nat
      PROVE  ApiError(n) \in ResponseSet
  <2>1. ResponseJson(n, Tiny) \in ResponseSet
    BY <1>1, MadeType
  <2> QED
    BY <2>1 DEF ApiError, ResponseSet
<1>3. ASSUME NEW r \in ResponseSet, NEW notes \in SUBSET Texts
      PROVE  [r EXCEPT !.notes = notes] \in ResponseSet
  BY DEF ResponseSet
<1>10. ASSUME NEW r \in ResponseSet
       PROVE  [r EXCEPT !.info = TRUE] \in ResponseSet
  BY DEF ResponseSet
<1>11. ASSUME NEW r \in ResponseSet, NEW notes \in SUBSET Texts
       PROVE  [r EXCEPT !.notes = notes, !.info = TRUE] \in ResponseSet
  BY DEF ResponseSet
<1>4. NotFound \in ResponseSet
  <2>1. ResponseText(404, Tiny) \in ResponseSet
    BY <1>1, MadeType
  <2> QED
    BY <1>10, <2>1 DEF NotFound
<1>5. OptionsResponse \in ResponseSet
  BY <1>3, MadeType, NamesType DEF OptionsResponse
<1>6. MethodNotAllowed \in ResponseSet
  <2>1. Bodiless(405) \in ResponseSet /\ {"allow"} \in SUBSET Texts
    BY MadeType, NamesType
  <2> QED
    BY <1>11, <2>1 DEF MethodNotAllowed
<1>7. RequestTimeout \in ResponseSet
  BY <1>2, <1>3, NamesType DEF RequestTimeout
<1>8. TooManyRequests \in ResponseSet
  BY <1>2, <1>3, NamesType DEF TooManyRequests
<1>9. \A req : Unauthorized(req) \in ResponseSet
  BY <1>2, <1>3, NamesType DEF Unauthorized
<1> QED
  BY <1>2, <1>4, <1>5, <1>6, <1>7, <1>8, <1>9

(* The answer of Cors to a preflight is a response.                         *)
LEMMA PreflightType ==
    ASSUME NEW c \in CorsSet, NEW req \in RequestSet, IsPreflight(req)
    PROVE  Preflight(c, req) \in ResponseSet
<1> DEFINE g == Grants(c, req)
           a == IF g THEN OriginValue(c, req.origin) ELSE None
           b == g /\ c.credentials
           v == CorsVary(c, {}, {"Request-Method", "Request-Headers"})
<1>1. g \in BOOLEAN
  BY DEF Grants, AllowsOrigin, AllowsHeaders
<1>2. a \in Name
  <2>1. req.origin \in Name
    BY DEF RequestSet
  <2> QED
    BY <2>1, NamesType DEF OriginValue
<1>3. b \in BOOLEAN
  BY <1>1
<1>4. v \in SUBSET Texts
  BY TextsAssumption DEF CorsVary
<1>5. Bodiless(204) \in ResponseSet
  BY MadeType
<1>6. Preflight(c, req) =
          [Bodiless(204) EXCEPT !.granted = g, !.allowOrigin = a, !.credentials = b, !.vary = v]
  BY DEF Preflight
<1> HIDE DEF g, a, b, v
<1>7. ASSUME NEW r \in ResponseSet
      PROVE  [r EXCEPT !.granted = g, !.allowOrigin = a, !.credentials = b, !.vary = v]
                 \in ResponseSet
  BY <1>1, <1>2, <1>3, <1>4 DEF ResponseSet
<1> QED
  BY <1>5, <1>6, <1>7

(* What Cors makes of a response is one.                                    *)
LEMMA DecorateType ==
    ASSUME NEW c \in CorsSet, NEW origin \in Name, NEW r \in ResponseSet
    PROVE  Decorate(c, origin, r) \in ResponseSet
<1> DEFINE allowed == origin # None /\ AllowsOrigin(c, origin)
           a == IF allowed THEN OriginValue(c, origin)
                ELSE IF c.any THEN "*" ELSE r.allowOrigin
           b == r.credentials \/ (allowed /\ c.credentials)
           e == r.exposed \/ (allowed /\ c.exposes)
           v == CorsVary(c, r.vary, {})
<1>1. a \in Name
  <2>1. r.allowOrigin \in Name
    BY DEF ResponseSet
  <2> QED
    BY <2>1, NamesType DEF OriginValue
<1>2. b \in BOOLEAN /\ e \in BOOLEAN
  BY DEF ResponseSet
<1>3. v \in SUBSET Texts
  <2>1. r.vary \in SUBSET Texts
    BY DEF ResponseSet
  <2> QED
    BY <2>1, TextsAssumption DEF CorsVary
<1>4. Decorate(c, origin, r) =
          [r EXCEPT !.allowOrigin = a, !.credentials = b, !.exposed = e, !.vary = v]
  BY DEF Decorate
<1> HIDE DEF a, b, e, v
<1>5. [r EXCEPT !.allowOrigin = a, !.credentials = b, !.exposed = e, !.vary = v]
          \in ResponseSet
  BY <1>1, <1>2, <1>3 DEF ResponseSet
<1> QED
  BY <1>4, <1>5

(* The length of a body, known or not.                                      *)
LEMMA HintType ==
    ASSUME NEW body \in Body
    PROVE  SizeHint(body) \in Length \union {None} /\ LengthOf(body) \in Length
  BY DEF SizeHint, LengthOf, Length, Body

(* A response without its body, for a HEAD, is one.                         *)
LEMMA MaybeHeadType ==
    ASSUME NEW isHead \in BOOLEAN, NEW r \in ResponseSet
    PROVE  MaybeHead(isHead, r) \in ResponseSet
<1> DEFINE l == IF r.length = None THEN SizeHint(r.body) ELSE r.length
           w == Whole(0)
<1>1. l \in Length \union {None}
  <2>1. r.length \in Length \union {None} /\ r.body \in Body
    BY DEF ResponseSet
  <2> QED
    BY <2>1, HintType
<1>2. w \in Body
  BY WholeType
<1>3. MaybeHead(isHead, r) = IF ~isHead THEN r ELSE [r EXCEPT !.body = w, !.length = l]
  BY DEF MaybeHead
<1> HIDE DEF l, w
<1>4. [r EXCEPT !.body = w, !.length = l] \in ResponseSet
  BY <1>1, <1>2 DEF ResponseSet
<1> QED
  BY <1>3, <1>4

(* Compress chooses brotli, gzip or nothing.                                *)
LEMMA NegotiateType ==
    ASSUME NEW accepts PROVE Negotiate(accepts) \in {"br", "gzip", None}
  BY DEF Negotiate

(* The headers of an encoded response.                                      *)
LEMMA EncodedType ==
    ASSUME NEW r \in ResponseSet, NEW coding \in {"br", "gzip"}
    PROVE  Encoded(r, coding) \in ResponseSet
<1>1. coding \in Name /\ WeakenEtag(r.etag) \in Name
  BY NamesType DEF WeakenEtag
<1>2. ASSUME NEW e \in Name, NEW cod \in Name
      PROVE  [r EXCEPT !.coding = cod, !.etag = e] \in ResponseSet
  BY DEF ResponseSet
<1> QED
  BY <1>1, <1>2 DEF Encoded

(* What Compress says to a HEAD is a response.                              *)
LEMMA DescribeEncodedType ==
    ASSUME NEW min, NEW r \in ResponseSet, NEW coding \in {"br", "gzip"}
    PROVE  DescribeEncoded(min, r, coding) \in ResponseSet
<1>1. Encoded(r, coding) \in ResponseSet
  BY EncodedType
<1>2. ASSUME NEW s \in ResponseSet
      PROVE  [s EXCEPT !.length = None] \in ResponseSet
  BY DEF ResponseSet
<1> QED
  BY <1>1, <1>2 DEF DescribeEncoded

(* What Compress makes of a body is a response.                             *)
LEMMA EncodeBodyType ==
    ASSUME NEW min, NEW r \in ResponseSet, NEW coding \in {"br", "gzip"}, NEW pool
    PROVE  EncodeBody(min, r, coding, pool) \in ResponseSet
<1> DEFINE body == [r.body EXCEPT !.coding = coding]
           len == IF Encoded(r, coding).length = None THEN None ELSE LengthOf(body)
<1>1. Encoded(r, coding) \in ResponseSet
  BY EncodedType
<1>2. body \in Body
  <2>1. r.body \in Body /\ coding \in Name
    BY NamesType DEF ResponseSet
  <2> QED
    BY <2>1 DEF Body
<1>3. len \in Length \union {None}
  BY <1>2, HintType
<1>4. ASSUME NEW s \in ResponseSet, NEW b \in Body, NEW l \in Length \union {None}
      PROVE  [s EXCEPT !.body = b, !.length = l] \in ResponseSet
  BY DEF ResponseSet
<1>5. EncodeBody(min, r, coding, pool) \in
          {r, [Encoded(r, coding) EXCEPT !.body = body, !.length = len]}
  BY DEF EncodeBody
<1> HIDE DEF body, len
<1> QED
  BY <1>1, <1>2, <1>3, <1>4, <1>5

(* What Compress makes of a response is one.                                *)
LEMMA CompressedType ==
    ASSUME NEW l, NEW req \in RequestSet, NEW r \in ResponseSet
    PROVE  Compressed(l, req, r) \in ResponseSet
<1> DEFINE v == CompressVary(r.vary)
           varied == [r EXCEPT !.vary = v]
           coding == Negotiate(req.accepts)
<1>1. v \in SUBSET Texts
  <2>1. r.vary \in SUBSET Texts
    BY DEF ResponseSet
  <2> QED
    BY <2>1, NamesType DEF CompressVary
<1>2. varied \in ResponseSet
  <2> HIDE DEF v
  <2> QED
    BY <1>1 DEF ResponseSet
<1>3. coding \in {"br", "gzip", None}
  BY NegotiateType
<1>4. \/ Compressed(l, req, r) \in {r, varied}
      \/ /\ coding # None
         /\ Compressed(l, req, r) \in {DescribeEncoded(l.min, varied, coding),
                                      EncodeBody(l.min, varied, coding, req.pool)}
  BY DEF Compressed
<1> HIDE DEF varied, coding
<1> QED
  BY <1>2, <1>3, <1>4, DescribeEncodedType, EncodeBodyType

(* What ErrorFormat makes of a response is one.                             *)
LEMMA ReformatType ==
    ASSUME NEW req \in RequestSet, NEW r \in ResponseSet
    PROVE  Reformat(req, r) \in ResponseSet
<1> DEFINE n == r.notes \intersect Carried
           made == [ResponseJson(r.status, Tiny) EXCEPT !.notes = n, !.traced = r.traced]
           isHead == req.method = "HEAD"
<1>1. n \in SUBSET Texts /\ r.traced \in SUBSET Nat /\ r.status \in Nat
  BY DEF ResponseSet
<1>2. ResponseJson(r.status, Tiny) \in ResponseSet
  BY <1>1, MadeType, SizeAssumption
<1>3. ASSUME NEW s \in ResponseSet, NEW m \in SUBSET Texts, NEW t \in SUBSET Nat
      PROVE  [s EXCEPT !.notes = m, !.traced = t] \in ResponseSet
  BY DEF ResponseSet
<1>4. made \in ResponseSet
  BY <1>1, <1>2, <1>3
<1>5. isHead \in BOOLEAN
  OBVIOUS
<1>6. Reformat(req, r) \in {r, MaybeHead(isHead, made)}
  BY DEF Reformat
<1> HIDE DEF made, isHead
<1> QED
  BY <1>4, <1>5, <1>6, MaybeHeadType

(* What ServeDir answers is a response.                                     *)
LEMMA FileType ==
    ASSUME NEW req \in RequestSet
    PROVE  FileResponse(req) \in ResponseSet
<1> DEFINE described == [Blank EXCEPT !.type = req.file.type, !.etag = "weak"]
           size == req.file.size
           body == IF size <= WholeFile THEN Whole(size) ELSE Chunks(size)
           sent == IF req.method = "HEAD" THEN Whole(0) ELSE body
           len == LengthOf(body)
<1>1. req.file.type \in Name /\ size \in Nat
  BY DEF RequestSet
<1>2. "weak" \in Name
  BY NamesType
<1>3. ASSUME NEW r \in ResponseSet, NEW t \in Name, NEW e \in Name
      PROVE  [r EXCEPT !.type = t, !.etag = e] \in ResponseSet
  BY DEF ResponseSet
<1>4. described \in ResponseSet
  BY <1>1, <1>2, <1>3, BlankType
<1>5. body \in Body
  <2>1. Whole(size) \in Body
    BY <1>1, WholeType
  <2>2. Chunks(size) \in Body
    BY <1>1 DEF Chunks, Body, Name
  <2> QED
    BY <2>1, <2>2
<1>6. sent \in Body
  BY <1>5, WholeType
<1>7. len \in Length \union {None}
  BY <1>5, HintType
<1>8. FileResponse(req) \in {[described EXCEPT !.status = 304],
                             [described EXCEPT !.length = len, !.body = sent]}
  BY DEF FileResponse
<1> HIDE DEF described, body, sent, len
<1>9. ASSUME NEW r \in ResponseSet, NEW l \in Length \union {None}, NEW b \in Body
      PROVE  [r EXCEPT !.length = l, !.body = b] \in ResponseSet
  BY DEF ResponseSet
<1>10. ASSUME NEW r \in ResponseSet
       PROVE  [r EXCEPT !.status = 304] \in ResponseSet
  BY DEF ResponseSet
<1>11. [described EXCEPT !.length = len, !.body = sent] \in ResponseSet
  BY <1>4, <1>6, <1>7, <1>9
<1>12. [described EXCEPT !.status = 304] \in ResponseSet
  BY <1>4, <1>10
<1> QED
  BY <1>8, <1>11, <1>12

(* The end of the chain answers with a response.                            *)
LEMMA DispatchType ==
    ASSUME NEW req \in RequestSet
    PROVE  Dispatch(req) \in ResponseSet
<1>1. req.handler \in ResponseSet
  BY DEF RequestSet
<1>2. Upload(req) \in ResponseSet
  <2>1. Upload(req) \in {req.handler, ApiError(413), RequestTimeout, ApiError(400)}
    BY DEF Upload, RequestSet
  <2> QED
    BY <1>1, <2>1, OwnTypes
<1> DEFINE isHead == req.method = "HEAD"
<1>3. isHead \in BOOLEAN
  OBVIOUS
<1>4. Dispatch(req) \in {NotFound, OptionsResponse, MethodNotAllowed, Upload(req), Panicking,
                         MaybeHead(isHead, req.handler)}
  BY DEF Dispatch
<1> HIDE DEF isHead
<1> QED
  BY <1>1, <1>2, <1>3, <1>4, OwnTypes, MadeType, MaybeHeadType

(* A layer hands on the request it got, but for the id.                     *)
LEMMA ForwardType ==
    ASSUME NEW l \in LayerSet, NEW req \in RequestSet
    PROVE  /\ Forward(l, req) \in RequestSet
           /\ Forward(l, req) = [req EXCEPT !.id = Forward(l, req).id]
           /\ Forward(l, req).id \in Name
<1>1. "generated" \in Name
  BY NamesType
<1>2. ASSUME NEW x \in Name
      PROVE  [req EXCEPT !.id = x] \in RequestSet /\ [req EXCEPT !.id = x].id = x
  BY DEF RequestSet
<1>3. [req EXCEPT !.id = req.id] = req /\ req.id \in Name
  BY DEF RequestSet
<1>4. CASE l.kind = "requestId" /\ req.id \notin {"client", "generated"}
  BY <1>1, <1>2, <1>4 DEF Forward
<1>5. CASE ~(l.kind = "requestId" /\ req.id \notin {"client", "generated"})
  BY <1>3, <1>5 DEF Forward
<1> QED
  BY <1>4, <1>5

(* A layer is a Cors if its kind says so.                                   *)
LEMMA LayerKinds ==
    ASSUME NEW l \in LayerSet
    PROVE  /\ l.kind \in Simple \union {"cors", "bearer", "compress"}
           /\ l.kind = "cors" <=> l \in CorsSet
           /\ l.kind = "compress" => l.min \in Nat \ {0}
  BY DEF LayerSet, CorsSet, Bearers, Compressors, Simple

(* Every layer answers with a response.                                     *)
LEMMA AroundType ==
    ASSUME NEW l \in LayerSet, NEW req \in RequestSet, NEW r \in ResponseSet
    PROVE  Around(l, req, r) \in ResponseSet
<1>1. CASE Answers(l, req)
  <2>1. Own(l, req) \in ResponseSet
    <3>1. CASE l.kind = "cors"
      BY <1>1, <3>1, LayerKinds, PreflightType DEF Answers, Own
    <3>2. CASE l.kind = "bearer"
      BY <3>2, OwnTypes DEF Own
    <3>3. CASE l.kind = "rateLimit"
      BY <3>3, OwnTypes DEF Own
    <3>4. CASE l.kind = "serveDir"
      BY <3>4, FileType DEF Own
    <3> QED
      BY <1>1, <3>1, <3>2, <3>3, <3>4 DEF Answers
  <2> QED
    BY <1>1, <2>1 DEF Around
<1>2. CASE ~Answers(l, req)
  <2>1. After(l, req, r) \in ResponseSet
    <3>1. CASE l.kind = "cors"
      <4>1. req.origin \in Name
        BY DEF RequestSet
      <4> QED
        BY <3>1, <4>1, LayerKinds, DecorateType DEF After
    <3>2. CASE l.kind = "compress"
      BY <3>2, CompressedType DEF After
    <3>3. CASE l.kind = "errorFormat"
      BY <3>3, ReformatType DEF After
    <3>4. CASE l.kind = "requestId"
      <4>1. ASSUME NEW x \in Name
            PROVE  [r EXCEPT !.id = x] \in ResponseSet
        BY DEF ResponseSet
      <4> QED
        BY <3>4, <4>1, ForwardType DEF After
    <3>5. CASE l.kind = "trace"
      <4>1. ASSUME NEW x \in SUBSET Nat
            PROVE  [r EXCEPT !.traced = x] \in ResponseSet
        BY DEF ResponseSet
      <4>2. r.traced \union {r.status} \in SUBSET Nat
        BY DEF ResponseSet
      <4> QED
        BY <3>5, <4>1, <4>2 DEF After
    <3>6. CASE l.kind \notin {"cors", "compress", "errorFormat", "requestId", "trace"}
      BY <3>6 DEF After
    <3> QED
      BY <3>1, <3>2, <3>3, <3>4, <3>5, <3>6
  <2> QED
    BY <1>2, <2>1, OwnTypes, MadeType DEF Around
<1> QED
  BY <1>1, <1>2

-----------------------------------------------------------------------------
(* The recursion of Respond.                                                *)

(* The requests and the responses along a stack.                            *)
Along(st, req, reach, from) ==
    /\ reach \in [1 .. Len(st) + 1 -> RequestSet]
    /\ from \in [1 .. Len(st) + 1 -> ResponseSet]
    /\ reach[1] = req
    /\ \A i \in 1 .. Len(st) : reach[i + 1] = Forward(st[i], reach[i])
    /\ from[Len(st) + 1] = Dispatch(reach[Len(st) + 1])
    /\ \A i \in 1 .. Len(st) : from[i] = Around(st[i], reach[i], from[i + 1])

Reaches(st, req, f) ==
    [i \in 1 .. Len(st) + 1 |-> IF i = 1 THEN req ELSE Forward(st[i - 1], f[i - 1])]
Answering(st, reach, f) ==
    [i \in 1 .. Len(st) + 1 |-> IF i = Len(st) + 1 THEN Dispatch(reach[i])
                                ELSE Around(st[i], reach[i], f[i + 1])]

(* There is a sequence of requests that reach the layers, one after the     *)
(* other.                                                                   *)
LEMMA ReachExists ==
    ASSUME NEW st \in Seq(LayerSet), NEW req \in RequestSet
    PROVE  \E f \in [1 .. Len(st) + 1 -> RequestSet] : f = Reaches(st, req, f)
<1> DEFINE S == 1 .. Len(st) + 1
           T == RequestSet
           e(f) == Reaches(st, req, f)
           rank == [i \in S |-> i]
           step == [f \in [S -> T] |-> e(f)]
<1>1. Len(st) \in Nat /\ \A i \in 1 .. Len(st) : st[i] \in LayerSet
  BY LenProperties, ElementOfSeq
<1>2. \A f \in [S -> T] : e(f) \in [S -> T]
  <2> SUFFICES ASSUME NEW f \in [S -> T], NEW i \in S
               PROVE  (IF i = 1 THEN req ELSE Forward(st[i - 1], f[i - 1])) \in T
    BY DEF Reaches
  <2>1. CASE i = 1
    BY <2>1
  <2>2. CASE i # 1
    <3>1. i - 1 \in 1 .. Len(st) /\ i - 1 \in S
      BY <1>1, <2>2
    <3>2. st[i - 1] \in LayerSet /\ f[i - 1] \in RequestSet
      BY <1>1, <3>1
    <3> QED
      BY <2>2, <3>2, ForwardType
  <2> QED
    BY <2>1, <2>2
<1>3. step \in [[S -> T] -> [S -> T]] /\ \A f \in [S -> T] : step[f] = e(f)
  <2> HIDE DEF S, T, e
  <2> QED
    BY <1>2
<1>4. rank \in [S -> 0 .. Len(st) + 1]
  BY <1>1
<1>5. ASSUME NEW x \in S, NEW f \in [S -> T], NEW g \in [S -> T],
             \A y \in S : rank[y] < rank[x] => f[y] = g[y]
      PROVE  step[f][x] = step[g][x]
  <2>1. x # 1 => f[x - 1] = g[x - 1]
    BY <1>1, <1>5
  <2>2. e(f)[x] = e(g)[x]
    BY <2>1 DEF Reaches
  <2> HIDE DEF S, T, e, step
  <2> QED
    BY <1>3, <2>2
<1>6. Recursion(S, T, Len(st) + 1, rank, step)
  <2>1. Len(st) + 1 \in Nat
    BY <1>1
  <2> HIDE DEF S, T, e, rank, step
  <2> QED
    BY <1>3, <1>4, <1>5, <2>1 DEF Recursion
<1>7. PICK first \in [S -> T] : TRUE
  <2>1. [i \in S |-> req] \in [S -> T]
    OBVIOUS
  <2> HIDE DEF S, T
  <2> QED
    BY <2>1
<1>8. \E f \in [S -> T] : f = step[f]
  <2> HIDE DEF S, T, e, rank, step
  <2> QED
    BY <1>6, FixedPoint
<1> HIDE DEF e, rank, step
<1>9. \E f \in [S -> T] : f = e(f)
  BY <1>3, <1>8
<1> QED
  BY <1>9 DEF e

(* There is a sequence of responses of the layers, from the last to the     *)
(* first.                                                                   *)
LEMMA FromExists ==
    ASSUME NEW st \in Seq(LayerSet), NEW reach \in [1 .. Len(st) + 1 -> RequestSet]
    PROVE  \E f \in [1 .. Len(st) + 1 -> ResponseSet] : f = Answering(st, reach, f)
<1> DEFINE end == Len(st) + 1
           S == 1 .. Len(st) + 1
           T == ResponseSet
           e(f) == Answering(st, reach, f)
           rank == [i \in S |-> end - i]
           step == [f \in [S -> T] |-> e(f)]
<1>1. Len(st) \in Nat /\ \A i \in 1 .. Len(st) : st[i] \in LayerSet
  BY LenProperties, ElementOfSeq
<1>2. \A f \in [S -> T] : e(f) \in [S -> T]
  <2> SUFFICES ASSUME NEW f \in [S -> T], NEW i \in S
               PROVE  (IF i = end THEN Dispatch(reach[i])
                       ELSE Around(st[i], reach[i], f[i + 1])) \in T
    BY DEF Answering
  <2>0. reach[i] \in RequestSet
    OBVIOUS
  <2>1. CASE i = end
    BY <2>0, <2>1, DispatchType
  <2>2. CASE i # end
    <3>1. i \in 1 .. Len(st) /\ i + 1 \in S
      BY <1>1, <2>2
    <3>2. st[i] \in LayerSet /\ f[i + 1] \in ResponseSet
      BY <1>1, <3>1
    <3>3. Around(st[i], reach[i], f[i + 1]) \in ResponseSet
      BY <2>0, <3>2, AroundType
    <3> QED
      BY <2>2, <3>3
  <2> QED
    BY <2>1, <2>2
<1>3. step \in [[S -> T] -> [S -> T]] /\ \A f \in [S -> T] : step[f] = e(f)
  <2> HIDE DEF S, T, e
  <2> QED
    BY <1>2
<1>4. rank \in [S -> 0 .. Len(st) + 1]
  BY <1>1
<1>5. ASSUME NEW x \in S, NEW f \in [S -> T], NEW g \in [S -> T],
             \A y \in S : rank[y] < rank[x] => f[y] = g[y]
      PROVE  step[f][x] = step[g][x]
  <2>1. x # end => f[x + 1] = g[x + 1]
    BY <1>1, <1>5
  <2>2. e(f)[x] = e(g)[x]
    BY <2>1 DEF Answering
  <2> HIDE DEF S, T, e, step
  <2> QED
    BY <1>3, <2>2
<1>6. Recursion(S, T, Len(st) + 1, rank, step)
  <2>1. Len(st) + 1 \in Nat
    BY <1>1
  <2> HIDE DEF S, T, e, rank, step
  <2> QED
    BY <1>3, <1>4, <1>5, <2>1 DEF Recursion
<1>7. PICK first \in [S -> T] : TRUE
  <2>1. [i \in S |-> Blank] \in [S -> T]
    BY BlankType
  <2> HIDE DEF S, T
  <2> QED
    BY <2>1
<1>8. \E f \in [S -> T] : f = step[f]
  <2> HIDE DEF S, T, e, rank, step
  <2> QED
    BY <1>6, FixedPoint
<1> HIDE DEF e, rank, step
<1>9. \E f \in [S -> T] : f = e(f)
  BY <1>3, <1>8
<1> QED
  BY <1>9 DEF e

(* The requests that reach the layers are determined.                       *)
LEMMA ReachesAgree ==
    ASSUME NEW st \in Seq(LayerSet), NEW req \in RequestSet,
           NEW f, NEW g, f = Reaches(st, req, f), g = Reaches(st, req, g)
    PROVE  f = g
<1>1. Len(st) \in Nat
  BY LenProperties
<1> DEFINE S == 1 .. Len(st) + 1
           A == {n \in Nat : n + 1 \in S => f[n + 1] = g[n + 1]}
<1>2. 0 \in A
  BY <1>1 DEF Reaches
<1>3. ASSUME NEW n \in Nat, n \in A
      PROVE  n + 1 \in A
  <2>1. CASE (n + 1) + 1 \in S
    <3>1. n + 1 \in S /\ (n + 1) + 1 # 1 /\ ((n + 1) + 1) - 1 = n + 1
      BY <1>1, <2>1
    <3>2. /\ f[(n + 1) + 1] = Forward(st[n + 1], f[n + 1])
          /\ g[(n + 1) + 1] = Forward(st[n + 1], g[n + 1])
      BY <2>1, <3>1 DEF Reaches
    <3> QED
      BY <1>3, <3>1, <3>2
  <2> QED
    BY <2>1
<1>4. Nat \subseteq A
  <2> HIDE DEF A
  <2> QED
    BY <1>2, <1>3, NatInSet
<1>5. \A i \in S : f[i] = g[i]
  <2> SUFFICES ASSUME NEW i \in S
               PROVE  f[i] = g[i]
    OBVIOUS
  <2>0. i - 1 \in Nat /\ (i - 1) + 1 = i
    BY <1>1
  <2>1. i - 1 \in A
    BY <1>4, <2>0
  <2> QED
    BY <2>0, <2>1
<1> QED
  BY <1>5 DEF Reaches

(* Down a stack: a set of positions that has the last and with each one the *)
(* one before it.                                                           *)
LEMMA Downward ==
    ASSUME NEW N \in Nat, NEW A, N + 1 \in A, \A i \in 1 .. N : i + 1 \in A => i \in A
    PROVE  \A i \in 1 .. N + 1 : i \in A
<1> DEFINE B == {n \in Nat : n <= N => (N + 1) - n \in A}
<1>1. 0 \in B
  OBVIOUS
<1>2. ASSUME NEW n \in Nat, n \in B
      PROVE  n + 1 \in B
  <2>1. CASE n + 1 <= N
    <3>1. N - n \in 1 .. N /\ (N - n) + 1 = (N + 1) - n /\ (N + 1) - (n + 1) = N - n /\ n <= N
      BY <2>1
    <3> QED
      BY <1>2, <3>1
  <2> QED
    BY <2>1
<1>3. Nat \subseteq B
  <2> HIDE DEF B
  <2> QED
    BY <1>1, <1>2, NatInSet
<1> SUFFICES ASSUME NEW i \in 1 .. N + 1
             PROVE  i \in A
  OBVIOUS
<1>4. (N + 1) - i \in Nat /\ (N + 1) - i <= N /\ (N + 1) - ((N + 1) - i) = i
  OBVIOUS
<1> QED
  BY <1>3, <1>4

(* Up a stack: a set of positions that has the first and with each one the  *)
(* one after it.                                                            *)
LEMMA Upward ==
    ASSUME NEW N \in Nat, NEW A, 1 \in A, \A i \in 1 .. N : i \in A => i + 1 \in A
    PROVE  \A i \in 1 .. N + 1 : i \in A
<1> DEFINE B == {n \in Nat : n <= N => n + 1 \in A}
<1>1. 0 \in B
  OBVIOUS
<1>2. ASSUME NEW n \in Nat, n \in B
      PROVE  n + 1 \in B
  <2>1. CASE n + 1 <= N
    <3>1. n + 1 \in 1 .. N /\ n + 1 \in A
      BY <1>2, <2>1
    <3> QED
      BY <3>1
  <2> QED
    BY <2>1
<1>3. Nat \subseteq B
  <2> HIDE DEF B
  <2> QED
    BY <1>1, <1>2, NatInSet
<1> SUFFICES ASSUME NEW i \in 1 .. N + 1
             PROVE  i \in A
  OBVIOUS
<1>4. i - 1 \in Nat /\ i - 1 <= N /\ (i - 1) + 1 = i
  OBVIOUS
<1> QED
  BY <1>3, <1>4

(* Respond answers with the first response of such a sequence.              *)
LEMMA RespondAlong ==
    ASSUME NEW st \in Seq(LayerSet), NEW req \in RequestSet
    PROVE  \E reach, from : Along(st, req, reach, from) /\ Respond(st, req) = from[1]
<1> DEFINE S == 1 .. Len(st) + 1
           reach == CHOOSE f : f = Reaches(st, req, f)
           from == CHOOSE f : f = Answering(st, reach, f)
<1>1. Len(st) \in Nat
  BY LenProperties
<1>2. reach = Reaches(st, req, reach)
  BY ReachExists
<1>3. reach \in [S -> RequestSet]
  <2>1. PICK f \in [S -> RequestSet] : f = Reaches(st, req, f)
    BY ReachExists
  <2> HIDE DEF reach
  <2>2. f = reach
    BY <1>2, <2>1, ReachesAgree
  <2> QED
    BY <2>1, <2>2
<1>4. Respond(st, req) = from[1]
  BY DEF Respond, Reaches, Answering
<1> HIDE DEF reach
<1>5. from = Answering(st, reach, from)
  BY <1>3, FromExists
<1>6. PICK g \in [S -> ResponseSet] : g = Answering(st, reach, g)
  BY <1>3, FromExists
<1> HIDE DEF from
<1>7. \A i \in S : from[i] = g[i]
  <2> DEFINE A == {i \in S : from[i] = g[i]}
  <2>1. Len(st) + 1 \in A
    BY <1>1, <1>5, <1>6 DEF Answering
  <2>2. ASSUME NEW i \in 1 .. Len(st), i + 1 \in A
        PROVE  i \in A
    <3>1. i \in S /\ i # Len(st) + 1
      BY <1>1
    <3>2. /\ from[i] = Around(st[i], reach[i], from[i + 1])
          /\ g[i] = Around(st[i], reach[i], g[i + 1])
      BY <1>5, <1>6, <3>1 DEF Answering
    <3> QED
      BY <2>2, <3>1, <3>2
  <2>3. \A i \in S : i \in A
    <3> HIDE DEF A
    <3> QED
      BY <1>1, <2>1, <2>2, Downward
  <2> QED
    BY <2>3
<1>8. from = g
  BY <1>5, <1>6, <1>7 DEF Answering
<1>9. from \in [S -> ResponseSet]
  BY <1>8
<1>10. reach[1] = req
  BY <1>1, <1>2 DEF Reaches
<1>11. ASSUME NEW i \in 1 .. Len(st)
       PROVE  reach[i + 1] = Forward(st[i], reach[i])
  <2>1. i + 1 \in S /\ i + 1 # 1 /\ (i + 1) - 1 = i
    BY <1>1
  <2> QED
    BY <1>2, <2>1 DEF Reaches
<1>12. from[Len(st) + 1] = Dispatch(reach[Len(st) + 1])
  <2>1. Len(st) + 1 \in S
    BY <1>1
  <2> QED
    BY <1>5, <2>1 DEF Answering
<1>13. ASSUME NEW i \in 1 .. Len(st)
       PROVE  from[i] = Around(st[i], reach[i], from[i + 1])
  <2>1. i \in S /\ i # Len(st) + 1
    BY <1>1
  <2> QED
    BY <1>5, <2>1 DEF Answering
<1>14. Along(st, req, reach, from)
  BY <1>3, <1>9, <1>10, <1>11, <1>12, <1>13 DEF Along
<1> QED
  BY <1>4, <1>14

(* The requests that reach the layers differ in the id only, and alike for  *)
(* two that come with the same.                                             *)
LEMMA ReachSame ==
    ASSUME NEW st \in Seq(LayerSet), NEW req \in RequestSet, NEW reach, NEW from,
           Along(st, req, reach, from)
    PROVE  \A i \in 1 .. Len(st) + 1 :
               reach[i] \in RequestSet /\ reach[i] = [req EXCEPT !.id = reach[i].id]
<1> DEFINE A == {i \in 1 .. Len(st) + 1 : reach[i] = [req EXCEPT !.id = reach[i].id]}
<1>1. Len(st) \in Nat /\ \A i \in 1 .. Len(st) : st[i] \in LayerSet
  BY LenProperties, ElementOfSeq
<1>2. 1 \in A
  BY <1>1 DEF Along, RequestSet
<1>3. ASSUME NEW i \in 1 .. Len(st), i \in A
      PROVE  i + 1 \in A
  <2>1. reach[i + 1] = Forward(st[i], reach[i]) /\ st[i] \in LayerSet /\ reach[i] \in RequestSet
    BY <1>1, <1>3 DEF Along
  <2>2. reach[i + 1] = [reach[i] EXCEPT !.id = reach[i + 1].id]
    BY <2>1, ForwardType
  <2>3. \A q, x : q = [req EXCEPT !.id = q.id] =>
                  [q EXCEPT !.id = x] = [req EXCEPT !.id = x]
    BY DEF RequestSet
  <2>4. reach[i] = [req EXCEPT !.id = reach[i].id]
    BY <1>3
  <2>5. reach[i + 1] = [req EXCEPT !.id = reach[i + 1].id]
    BY <2>2, <2>3, <2>4
  <2> QED
    BY <1>1, <2>5
<1>4. \A i \in 1 .. Len(st) + 1 : i \in A
  <2> HIDE DEF A
  <2> QED
    BY <1>1, <1>2, <1>3, Upward
<1>5. \A i \in 1 .. Len(st) + 1 : reach[i] \in RequestSet
  BY DEF Along
<1> QED
  BY <1>4, <1>5

(* Two requests with the same id have the same id before every layer.       *)
LEMMA ReachAlike ==
    ASSUME NEW st \in Seq(LayerSet), NEW req \in RequestSet, NEW req2 \in RequestSet,
           NEW reach, NEW from, NEW reach2, NEW from2,
           Along(st, req, reach, from), Along(st, req2, reach2, from2),
           req.id = req2.id
    PROVE  \A i \in 1 .. Len(st) + 1 : reach[i].id = reach2[i].id
<1> DEFINE A == {i \in 1 .. Len(st) + 1 : reach[i].id = reach2[i].id}
<1>1. Len(st) \in Nat /\ \A i \in 1 .. Len(st) : st[i] \in LayerSet
  BY LenProperties, ElementOfSeq
<1>2. 1 \in A
  BY <1>1 DEF Along
<1>3. ASSUME NEW i \in 1 .. Len(st), i \in A
      PROVE  i + 1 \in A
  <2>1. /\ reach[i + 1] = Forward(st[i], reach[i]) /\ reach[i] \in RequestSet
        /\ reach2[i + 1] = Forward(st[i], reach2[i]) /\ reach2[i] \in RequestSet
        /\ reach[i].id = reach2[i].id
    BY <1>1, <1>3 DEF Along
  <2>2. ASSUME NEW q \in RequestSet
        PROVE  Forward(st[i], q).id =
                   IF st[i].kind = "requestId" /\ q.id \notin {"client", "generated"}
                   THEN "generated" ELSE q.id
    BY DEF Forward, RequestSet
  <2>3. reach[i + 1].id = reach2[i + 1].id
    BY <2>1, <2>2
  <2> QED
    BY <1>1, <2>3
<1>4. \A i \in 1 .. Len(st) + 1 : i \in A
  <2> HIDE DEF A
  <2> QED
    BY <1>1, <1>2, <1>3, Upward
<1> QED
  BY <1>4

-----------------------------------------------------------------------------
(* What the layers do to the fields.                                        *)

(* Nothing said to pages of other origins.                                  *)
Shut(r) == r.allowOrigin = None /\ ~r.credentials /\ ~r.granted

(* What the router and the layers answer says nothing to pages of other     *)
(* origins, and keeps the headers of its status.                            *)
LEMMA OwnFields ==
    ASSUME NEW status
    PROVE  /\ ApiError(status).status = status /\ Shut(ApiError(status))
           /\ NotFound.status = 404 /\ Shut(NotFound)
           /\ OptionsResponse.status = 204 /\ Shut(OptionsResponse)
           /\ MethodNotAllowed.status = 405 /\ Shut(MethodNotAllowed)
           /\ MethodNotAllowed.notes = {"allow"}
           /\ RequestTimeout.status = 408 /\ Shut(RequestTimeout)
           /\ RequestTimeout.notes = {"connection"}
           /\ TooManyRequests.status = 429 /\ Shut(TooManyRequests)
           /\ TooManyRequests.notes = {"retry-after"}
           /\ Panicking.status = 0 /\ Shut(Panicking)
  BY DEF ApiError, NotFound, OptionsResponse, MethodNotAllowed, RequestTimeout, TooManyRequests,
         Panicking, ResponseText, ResponseJson, Bodiless, Blank, Shut

(* A 401 for a missing token names the scheme.                              *)
LEMMA UnauthorizedFields ==
    ASSUME NEW req
    PROVE  /\ Unauthorized(req).status = 401 /\ Shut(Unauthorized(req))
           /\ req.token = None => Unauthorized(req).notes = {"www-authenticate"}
  BY DEF Unauthorized, ApiError, ResponseJson, Blank, Shut

(* ServeDir answers 200 or 304, and leaves CORS to Cors.                    *)
LEMMA FileFields ==
    ASSUME NEW req
    PROVE  /\ FileResponse(req).status \in {200, 304} /\ Shut(FileResponse(req))
  BY DEF FileResponse, Blank, Shut

(* What a preflight is told.                                                *)
LEMMA PreflightFields ==
    ASSUME NEW c, NEW req
    PROVE  /\ Preflight(c, req).status = 204
           /\ Preflight(c, req).granted = Grants(c, req)
           /\ Preflight(c, req).allowOrigin =
                  IF Grants(c, req) THEN OriginValue(c, req.origin) ELSE None
           /\ Preflight(c, req).credentials = (Grants(c, req) /\ c.credentials)
  BY DEF Preflight, Bodiless, Blank

(* Cors sets the CORS headers and Vary, and nothing else.                   *)
LEMMA DecorateFields ==
    ASSUME NEW c \in CorsSet, NEW origin, NEW r \in ResponseSet
    PROVE  LET d == Decorate(c, origin, r)
               allowed == origin # None /\ AllowsOrigin(c, origin)
           IN /\ d.status = r.status /\ d.type = r.type /\ d.length = r.length
              /\ d.coding = r.coding /\ d.etag = r.etag /\ d.notes = r.notes
              /\ d.noTransform = r.noTransform /\ d.id = r.id /\ d.info = r.info
              /\ d.range = r.range /\ d.traced = r.traced /\ d.body = r.body
              /\ d.granted = r.granted
              /\ d.allowOrigin = IF allowed THEN OriginValue(c, origin)
                                 ELSE IF c.any THEN "*" ELSE r.allowOrigin
              /\ d.credentials = (r.credentials \/ (allowed /\ c.credentials))
              /\ d.exposed = (r.exposed \/ (allowed /\ c.exposes))
              /\ d.vary = CorsVary(c, r.vary, {})
  BY DEF Decorate, ResponseSet

(* Encoding sets Content-Encoding and the etag, and nothing else.           *)
LEMMA EncodedFields ==
    ASSUME NEW r \in ResponseSet, NEW coding
    PROVE  LET e == Encoded(r, coding)
           IN /\ e.status = r.status /\ e.type = r.type /\ e.length = r.length
              /\ e.coding = coding /\ e.etag = WeakenEtag(r.etag) /\ e.notes = r.notes
              /\ e.noTransform = r.noTransform /\ e.id = r.id /\ e.info = r.info
              /\ e.range = r.range /\ e.traced = r.traced /\ e.body = r.body
              /\ e.granted = r.granted
              /\ e.allowOrigin = r.allowOrigin /\ e.credentials = r.credentials
              /\ e.exposed = r.exposed /\ e.vary = r.vary
  BY DEF Encoded, ResponseSet

(* Compress leaves these as they are.                                       *)
Beside(r, s) == /\ s.status = r.status /\ s.type = r.type /\ s.notes = r.notes
                /\ s.range = r.range
                /\ s.noTransform = r.noTransform /\ s.id = r.id /\ s.info = r.info
                /\ s.traced = r.traced /\ s.granted = r.granted
                /\ s.allowOrigin = r.allowOrigin /\ s.credentials = r.credentials
                /\ s.exposed = r.exposed

(* Compress sets only Vary, Content-Encoding, the etag, the length and the  *)
(* body.                                                                    *)
LEMMA CompressedFields ==
    ASSUME NEW l, NEW req \in RequestSet, NEW r \in ResponseSet
    PROVE  Beside(r, Compressed(l, req, r))
<1> DEFINE varied == [r EXCEPT !.vary = CompressVary(@)]
           coding == Negotiate(req.accepts)
<1>1. varied \in ResponseSet
  <2>1. CompressVary(r.vary) \in SUBSET Texts
    <3>1. r.vary \in SUBSET Texts
      BY DEF ResponseSet
    <3> QED
      BY <3>1, NamesType DEF CompressVary
  <2> QED
    BY <2>1 DEF ResponseSet
<1>2. Beside(r, r) /\ Beside(r, varied)
  BY DEF Beside, ResponseSet
<1>3. ASSUME NEW s \in ResponseSet
      PROVE  Beside(s, DescribeEncoded(l.min, s, coding))
  <2>1. coding \in {"br", "gzip", None}
    BY NegotiateType
  <2>2. Beside(s, s) /\ Beside(s, Encoded(s, coding))
    BY EncodedFields DEF Beside
  <2> HIDE DEF coding
  <2>3. Beside(s, [Encoded(s, coding) EXCEPT !.length = None])
    BY DEF Beside, Encoded, ResponseSet
  <2> QED
    BY <2>2, <2>3 DEF DescribeEncoded
<1>4. ASSUME NEW s \in ResponseSet
      PROVE  Beside(s, EncodeBody(l.min, s, coding, req.pool))
  <2> HIDE DEF coding
  <2>1. Beside(s, s)
    BY DEF Beside
  <2>2. \A b, n : Beside(s, [Encoded(s, coding) EXCEPT !.body = b, !.length = n])
    BY DEF Beside, Encoded, ResponseSet
  <2> QED
    BY <2>1, <2>2 DEF EncodeBody
<1>5. Compressed(l, req, r) \in {r, varied, DescribeEncoded(l.min, varied, coding),
                              EncodeBody(l.min, varied, coding, req.pool)}
  BY DEF Compressed
<1>6. Beside(varied, DescribeEncoded(l.min, varied, coding))
      /\ Beside(varied, EncodeBody(l.min, varied, coding, req.pool))
  BY <1>1, <1>3, <1>4
<1> HIDE DEF varied, coding
<1>7. \A a, b, c : Beside(a, b) /\ Beside(b, c) => Beside(a, c)
  BY DEF Beside
<1> QED
  BY <1>2, <1>5, <1>6, <1>7

(* A HEAD loses the body of its response and keeps the headers.             *)
LEMMA MaybeHeadFields ==
    ASSUME NEW isHead, NEW r \in ResponseSet
    PROVE  LET m == MaybeHead(isHead, r)
           IN /\ m.status = r.status /\ m.type = r.type /\ m.coding = r.coding
              /\ m.etag = r.etag /\ m.vary = r.vary /\ m.allowOrigin = r.allowOrigin
              /\ m.credentials = r.credentials /\ m.exposed = r.exposed
              /\ m.granted = r.granted /\ m.notes = r.notes
              /\ m.noTransform = r.noTransform /\ m.id = r.id /\ m.info = r.info
              /\ m.range = r.range /\ m.traced = r.traced
  BY DEF MaybeHead, ResponseSet

(* ErrorFormat makes a new response of an error and keeps its status, the   *)
(* carried headers and what Trace saw.                                      *)
LEMMA ReformatFields ==
    ASSUME NEW req \in RequestSet, NEW r \in ResponseSet
    PROVE  \/ ~r.info /\ Reformat(req, r) = r
           \/ /\ r.info
              /\ Reformat(req, r).status = r.status
              /\ Reformat(req, r).notes = r.notes \intersect Carried
              /\ Reformat(req, r).traced = r.traced
              /\ Shut(Reformat(req, r))
<1> DEFINE n == r.notes \intersect Carried
           made == [ResponseJson(r.status, Tiny) EXCEPT !.notes = n, !.traced = r.traced]
           isHead == req.method = "HEAD"
<1>1. n \in SUBSET Texts /\ r.traced \in SUBSET Nat /\ r.status \in Nat
  BY DEF ResponseSet
<1>2. ResponseJson(r.status, Tiny) \in ResponseSet
  BY <1>1, MadeType, SizeAssumption
<1>3. ASSUME NEW s \in ResponseSet, NEW m \in SUBSET Texts, NEW t \in SUBSET Nat
      PROVE  [s EXCEPT !.notes = m, !.traced = t] \in ResponseSet
  BY DEF ResponseSet
<1>4. made \in ResponseSet
  BY <1>1, <1>2, <1>3
<1>5. made.status = r.status /\ made.notes = n /\ made.traced = r.traced /\ Shut(made)
  BY DEF ResponseJson, Blank, Shut
<1>6. ~r.info => Reformat(req, r) = r
  BY DEF Reformat
<1>7. r.info => Reformat(req, r) = MaybeHead(isHead, made)
  BY DEF Reformat
<1> HIDE DEF made
<1>8. /\ MaybeHead(isHead, made).status = r.status
      /\ MaybeHead(isHead, made).notes = n
      /\ MaybeHead(isHead, made).traced = r.traced
      /\ Shut(MaybeHead(isHead, made))
  BY <1>4, <1>5, MaybeHeadFields DEF Shut
<1> HIDE DEF isHead
<1> QED
  BY <1>6, <1>7, <1>8

-----------------------------------------------------------------------------
(* The applications there are.                                              *)
SafeCors(c) == c \in CorsSet /\ ~(c.any /\ c.credentials)

Stacked(st) ==
    /\ st \in Seq(LayerSet)
    /\ \A i \in 1 .. Len(st) : st[i].kind = "cors" => SafeCors(st[i])

StackInv ==
    /\ cors = None \/ SafeCors(cors)
    /\ Stacked(stack)
    /\ exchange = None \/
       \E req \in Requests : exchange = [request |-> req, answer |-> Respond(stack, req)]

(* No call of the builder of Cors that returns leaves everyone with         *)
(* credentials.                                                             *)
LEMMA BuilderSafe ==
    ASSUME NEW c, SafeCors(c), NEW d \in Calls(c) \ {Refused}
    PROVE  SafeCors(d)
<1>1. CASE \E origin \in Origins : d = AllowOrigin(c, origin)
  <2>1. PICK origin \in Origins : d = AllowOrigin(c, origin)
    BY <1>1
  <2>2. origin \in Texts \ {"*"}
    BY ResponsesAssumption
  <2> QED
    BY <2>1, <2>2 DEF AllowOrigin, SafeCors, CorsSet
<1>2. CASE \E allow \in BOOLEAN : d = AllowCredentials(c, allow)
  <2>1. PICK allow \in BOOLEAN : d = AllowCredentials(c, allow)
    BY <1>2
  <2>2. ~(allow /\ c.any) /\ d = [c EXCEPT !.credentials = allow]
    BY <2>1 DEF AllowCredentials
  <2> QED
    BY <2>2 DEF SafeCors, CorsSet
<1>3. CASE \E methods \in MethodLists : d = AllowMethods(c, methods)
  <2>1. PICK methods \in SUBSET Texts : d = AllowMethods(c, methods)
    BY <1>3, ResponsesAssumption
  <2> QED
    BY <2>1 DEF AllowMethods, SafeCors, CorsSet
<1>4. CASE \E headers \in HeaderLists : d = AllowHeaders(c, headers)
  <2>1. PICK headers \in SUBSET Texts : d = AllowHeaders(c, headers)
    BY <1>4, ResponsesAssumption
  <2> QED
    BY <2>1 DEF AllowHeaders, SafeCors, CorsSet
<1>5. CASE d = AllowAnyOrigin(c)
  BY <1>5 DEF AllowAnyOrigin, SafeCors, CorsSet
<1>6. CASE d = AllowAnyHeader(c)
  BY <1>6 DEF AllowAnyHeader, SafeCors, CorsSet
<1>7. CASE d = ExposeHeaders(c)
  BY <1>7 DEF ExposeHeaders, SafeCors, CorsSet
<1> QED
  BY <1>1, <1>2, <1>3, <1>4, <1>5, <1>6, <1>7 DEF Calls

(* Another layer leaves the stack in order.                                 *)
LEMMA StackedAppend ==
    ASSUME Stacked(stack), NEW l \in LayerSet, l.kind = "cors" => SafeCors(l)
    PROVE  Stacked(Append(stack, l))
<1> DEFINE st == Append(stack, l)
<1>1. /\ stack \in Seq(LayerSet) /\ Len(stack) \in Nat /\ DOMAIN stack = 1 .. Len(stack)
  BY LenProperties DEF Stacked
<1>2. /\ st \in Seq(LayerSet) /\ Len(st) = Len(stack) + 1
      /\ \A i \in 1 .. Len(stack) : st[i] = stack[i]
      /\ st[Len(stack) + 1] = l
  BY <1>1, AppendProperties
<1> HIDE DEF st
<1>3. ASSUME NEW i \in 1 .. Len(st), st[i].kind = "cors"
      PROVE  SafeCors(st[i])
  <2>1. i \in 1 .. Len(stack) \/ i = Len(stack) + 1
    BY <1>1, <1>2
  <2> QED
    BY <1>2, <1>3, <2>1 DEF Stacked
<1> QED
  BY <1>2, <1>3 DEF Stacked, st

(* Whatever is registered in whatever order, and however often, the builder *)
(* of Cors never leaves one that lets everyone read with credentials, and   *)
(* what is answered is what the stack makes of the request.                 *)
THEOREM StackInvariance == Spec => []StackInv
<1>1. Init => StackInv
  <2> SUFFICES ASSUME Init
               PROVE  StackInv
    OBVIOUS
  <2>1. stack = <<>> /\ stack \in Seq(LayerSet) /\ Len(stack) = 0
    BY EmptySeq DEF Init
  <2>2. Stacked(stack)
    BY <2>1 DEF Stacked
  <2> QED
    BY <2>2 DEF Init, StackInv
<1>2. StackInv /\ [Next]_vars => StackInv'
  <2> SUFFICES ASSUME StackInv, [Next]_vars
               PROVE  StackInv'
    OBVIOUS
  <2>a. ASSUME NEW l \in LayerSet, l.kind = "cors" => SafeCors(l), AddLayer(l)
        PROVE  Stacked(stack') /\ exchange' = None
    <3>1. stack' = Append(stack, l) /\ exchange' = None
      BY <2>a DEF AddLayer
    <3>2. Stacked(Append(stack, l))
      BY <2>a, StackedAppend DEF AddLayer, StackInv
    <3> QED
      BY <3>1, <3>2
  <2>1. CASE NewCors
    <3>1. SafeCors(CorsNew)
      BY TextsAssumption DEF SafeCors, CorsNew, CorsSet
    <3> QED
      BY <2>1, <3>1 DEF NewCors, StackInv, Stacked
  <2>2. CASE EditCors
    <3>1. PICK c \in Calls(cors) \ {Refused} : cors' = c
      BY <2>2 DEF EditCors
    <3>2. SafeCors(cors')
      BY <2>2, <3>1, BuilderSafe DEF StackInv, EditCors
    <3>3. stack' = stack /\ exchange' = exchange
      BY <2>2 DEF EditCors
    <3> QED
      BY <3>2, <3>3 DEF StackInv, Stacked
  <2>3. CASE LayerCors
    <3>1. cors \in LayerSet /\ SafeCors(cors) /\ AddLayer(cors) /\ cors' = None
      BY <2>3 DEF LayerCors, StackInv, SafeCors, LayerSet
    <3>2. Stacked(stack') /\ exchange' = None
      BY <2>a, <3>1
    <3> QED
      BY <3>1, <3>2 DEF StackInv, Stacked
  <2>4. ASSUME NEW l \in Registered, Layer(l)
        PROVE  StackInv'
    <3>1. l \in Bearers \union Compressors \union [kind : Simple]
      BY ResponsesAssumption
    <3>2. l \in LayerSet /\ l.kind # "cors"
      BY <3>1 DEF LayerSet, Bearers, Compressors, Simple
    <3>3. Stacked(stack') /\ exchange' = None
      BY <2>a, <2>4, <3>2 DEF Layer
    <3>4. cors' = cors
      BY <2>4 DEF Layer
    <3> QED
      BY <3>3, <3>4 DEF StackInv, Stacked
  <2>5. ASSUME NEW req \in Requests, Ask(req)
        PROVE  StackInv'
    BY <2>5 DEF Ask, StackInv, Stacked
  <2>6. CASE Send
    BY <2>6 DEF Send, StackInv, Stacked
  <2>7. CASE UNCHANGED vars
    BY <2>7 DEF vars, StackInv, Stacked
  <2> QED
    BY <2>1, <2>2, <2>3, <2>4, <2>5, <2>6, <2>7 DEF Next
<1> QED
  BY <1>1, <1>2, PTL DEF Spec

-----------------------------------------------------------------------------
(* CORS headers.                                                            *)

(* What a layer that is not Cors makes of the leave to read a response.     *)
SameLeave(r, s) == /\ s.allowOrigin = r.allowOrigin /\ s.credentials = r.credentials
                   /\ s.granted = r.granted

(* Any layer but Cors keeps the leave to read a response, or answers        *)
(* without one.                                                             *)
LEMMA LeaveKept ==
    ASSUME NEW l \in LayerSet, NEW req \in RequestSet, NEW r \in ResponseSet,
           l.kind # "cors"
    PROVE  Shut(Around(l, req, r)) \/ SameLeave(r, Around(l, req, r))
<1>1. SameLeave(r, r)
  BY DEF SameLeave
<1>2. CASE Answers(l, req)
  <2>1. Around(l, req, r) = Own(l, req)
    BY <1>2 DEF Around
  <2>2. Own(l, req) \in {Unauthorized(req), TooManyRequests, FileResponse(req)}
    BY <1>2 DEF Answers, Own
  <2> QED
    BY <2>1, <2>2, UnauthorizedFields, OwnFields, FileFields
<1>3. CASE ~Answers(l, req) /\ r = Panicking
  <2>1. Around(l, req, r) \in {ApiError(500), Panicking}
    BY <1>3 DEF Around
  <2> QED
    BY <2>1, OwnFields
<1>4. CASE ~Answers(l, req) /\ r # Panicking
  <2>1. Around(l, req, r) = After(l, req, r)
    BY <1>4 DEF Around
  <2>2. CASE l.kind = "compress"
    <3>1. After(l, req, r) = Compressed(l, req, r)
      BY <2>2 DEF After
    <3> QED
      BY <2>1, <3>1, CompressedFields DEF Beside, SameLeave
  <2>3. CASE l.kind = "errorFormat"
    <3>1. After(l, req, r) = Reformat(req, r)
      BY <2>3 DEF After
    <3> QED
      BY <1>1, <2>1, <3>1, ReformatFields
  <2>4. CASE l.kind = "requestId"
    <3>1. \A x : SameLeave(r, [r EXCEPT !.id = x])
      BY DEF SameLeave, ResponseSet
    <3>2. After(l, req, r) = [r EXCEPT !.id = Forward(l, req).id]
      BY <2>4 DEF After
    <3> QED
      BY <2>1, <3>1, <3>2
  <2>5. CASE l.kind = "trace"
    <3>1. \A x : SameLeave(r, [r EXCEPT !.traced = x])
      BY DEF SameLeave, ResponseSet
    <3>2. After(l, req, r) = [r EXCEPT !.traced = r.traced \union {r.status}]
      BY <2>5 DEF After
    <3> QED
      BY <2>1, <3>1, <3>2
  <2>6. CASE l.kind \notin {"compress", "errorFormat", "requestId", "trace"}
    <3>1. After(l, req, r) = r
      BY <2>6 DEF After
    <3> QED
      BY <1>1, <2>1, <3>1
  <2> QED
    BY <2>2, <2>3, <2>4, <2>5, <2>6
<1> QED
  BY <1>2, <1>3, <1>4

(* What the end of the chain answers.                                       *)
LEMMA DispatchCases ==
    ASSUME NEW req \in RequestSet
    PROVE  \/ Dispatch(req) \in {NotFound, OptionsResponse, MethodNotAllowed, Panicking,
                                 ApiError(413), RequestTimeout, ApiError(400)}
           \/ Dispatch(req) = req.handler
           \/ Dispatch(req) = MaybeHead(req.method = "HEAD", req.handler)
  BY DEF Dispatch, Upload, RequestSet

(* The id does not matter to what handlers promise.                         *)
LEMMA WellBehavedSame ==
    ASSUME NEW req \in RequestSet, WellBehaved(req), req.origin # "*", NEW x
    PROVE  /\ WellBehaved([req EXCEPT !.id = x]) /\ [req EXCEPT !.id = x].origin # "*"
           /\ [req EXCEPT !.id = x].token = req.token
  BY DEF WellBehaved, Explained, RequestSet

(* Behind Cors nothing is said to pages of other origins.                   *)
LEMMA DispatchShut ==
    ASSUME NEW req \in RequestSet, WellBehaved(req)
    PROVE  Shut(Dispatch(req))
<1>1. req.handler \in ResponseSet
  BY DEF RequestSet
<1>2. Shut(req.handler)
  <2>1. CASE req.handler = Panicking
    BY <2>1, OwnFields
  <2>2. CASE req.handler # Panicking
    BY <2>2 DEF WellBehaved, Shut
  <2> QED
    BY <2>1, <2>2
<1> DEFINE isHead == req.method = "HEAD"
<1>3. Dispatch(req) = MaybeHead(isHead, req.handler) => Shut(Dispatch(req))
  <2> HIDE DEF isHead
  <2> QED
    BY <1>1, <1>2, MaybeHeadFields DEF Shut
<1> QED
  BY <1>2, <1>3, DispatchCases, OwnFields

NoWildcard(r) == ~(r.allowOrigin = "*" /\ r.credentials)

(* A response that says nothing to other origins is no wildcard.            *)
LEMMA ShutNoWildcard == ASSUME NEW r, Shut(r) PROVE NoWildcard(r)
  BY TextsAssumption DEF Shut, NoWildcard

(* Cors over a response without CORS headers, for a request from no "*".    *)
LEMMA CorsNoWildcard ==
    ASSUME NEW c, SafeCors(c), c.kind = "cors", NEW req \in RequestSet, req.origin # "*",
           NEW r \in ResponseSet, Shut(r)
    PROVE  NoWildcard(Around(c, req, r))
<1>0. c \in CorsSet /\ "*" # None
  BY TextsAssumption DEF SafeCors
<1>1. CASE Answers(c, req)
  <2>1. Around(c, req, r) = Preflight(c, req)
    BY <1>1 DEF Around, Own
  <2>2. c.any => ~c.credentials
    BY DEF SafeCors
  <2>3. c.any => ~Preflight(c, req).credentials
    BY <2>2, PreflightFields
  <2>4. ~c.any => Preflight(c, req).allowOrigin # "*"
    BY <1>0, PreflightFields DEF OriginValue
  <2> QED
    BY <2>1, <2>3, <2>4 DEF NoWildcard
<1>2. CASE ~Answers(c, req) /\ r = Panicking
  <2>1. Around(c, req, r) \in {ApiError(500), Panicking}
    BY <1>2 DEF Around
  <2> QED
    BY <2>1, OwnFields, ShutNoWildcard
<1>3. CASE ~Answers(c, req) /\ r # Panicking
  <2>1. Around(c, req, r) = Decorate(c, req.origin, r)
    BY <1>3 DEF Around, After
  <2> DEFINE d == Decorate(c, req.origin, r)
  <2>2. c.any => ~d.credentials
    <3>1. c.any => ~c.credentials
      BY DEF SafeCors
    <3>2. ~r.credentials
      BY DEF Shut
    <3> QED
      BY <1>0, <3>1, <3>2, DecorateFields
  <2>3. ~c.any => d.allowOrigin # "*"
    <3>1. ~c.any => d.allowOrigin \in {req.origin, None}
      BY <1>0, DecorateFields DEF OriginValue, Shut
    <3> QED
      BY <1>0, <3>1
  <2> HIDE DEF d
  <2>4. NoWildcard(d)
    BY <2>2, <2>3 DEF NoWildcard
  <2> QED
    BY <2>1, <2>4 DEF d
<1> QED
  BY <1>1, <1>2, <1>3

(* What every request along a stack is.                                     *)
LEMMA ReachWell ==
    ASSUME NEW st \in Seq(LayerSet), NEW req \in Requests, NEW reach, NEW from,
           Along(st, req, reach, from)
    PROVE  /\ req \in RequestSet /\ Len(st) \in Nat
           /\ \A i \in 1 .. Len(st) : st[i] \in LayerSet
           /\ \A i \in 1 .. Len(st) + 1 :
                  /\ reach[i] \in RequestSet /\ WellBehaved(reach[i])
                  /\ reach[i].origin # "*" /\ reach[i].token = req.token
                  /\ from[i] \in ResponseSet
<1>1. req \in RequestSet /\ req.origin # "*" /\ WellBehaved(req)
  BY ResponsesAssumption
<1>2. Len(st) \in Nat /\ \A i \in 1 .. Len(st) : st[i] \in LayerSet
  BY LenProperties, ElementOfSeq
<1>3. ASSUME NEW i \in 1 .. Len(st) + 1
      PROVE  /\ reach[i] \in RequestSet /\ WellBehaved(reach[i])
             /\ reach[i].origin # "*" /\ reach[i].token = req.token
             /\ from[i] \in ResponseSet
  <2>1. reach[i] \in RequestSet /\ reach[i] = [req EXCEPT !.id = reach[i].id]
    BY <1>1, ReachSame
  <2>2. from[i] \in ResponseSet
    BY DEF Along
  <2>3. \A x : /\ WellBehaved([req EXCEPT !.id = x]) /\ [req EXCEPT !.id = x].origin # "*"
               /\ [req EXCEPT !.id = x].token = req.token
    BY <1>1, WellBehavedSame
  <2> QED
    BY <2>1, <2>2, <2>3
<1> QED
  BY <1>1, <1>2, <1>3

(* No stack with one Cors answers with a wildcard and credentials: behind   *)
(* it nothing is said, and it says one of the two.                          *)
LEMMA RespondNoWildcard ==
    ASSUME NEW st, Stacked(st), NEW req \in Requests,
           \A i, j \in 1 .. Len(st) : st[i].kind = "cors" /\ st[j].kind = "cors" => i = j
    PROVE  NoWildcard(Respond(st, req))
<1>1. st \in Seq(LayerSet) /\ req \in RequestSet
  BY ResponsesAssumption DEF Stacked
<1>2. PICK reach, from : Along(st, req, reach, from) /\ Respond(st, req) = from[1]
  BY <1>1, RespondAlong
<1>3. /\ Len(st) \in Nat
      /\ \A i \in 1 .. Len(st) : st[i] \in LayerSet
      /\ \A i \in 1 .. Len(st) + 1 : /\ reach[i] \in RequestSet /\ WellBehaved(reach[i])
                                     /\ reach[i].origin # "*" /\ from[i] \in ResponseSet
  BY <1>1, <1>2, ReachWell
<1> DEFINE Below(i) == \A j \in 1 .. Len(st) : j >= i => st[j].kind # "cors"
           A == {i \in 1 .. Len(st) + 1 : NoWildcard(from[i]) /\ (Below(i) => Shut(from[i]))}
<1>4. Len(st) + 1 \in A
  <2>1. Len(st) + 1 \in 1 .. Len(st) + 1
    BY <1>3
  <2>2. Shut(Dispatch(reach[Len(st) + 1]))
    BY <1>3, <2>1, DispatchShut
  <2>3. Shut(from[Len(st) + 1])
    BY <1>2, <2>2 DEF Along
  <2>4. NoWildcard(from[Len(st) + 1])
    BY <2>3, ShutNoWildcard
  <2> HIDE DEF Below
  <2> QED
    BY <2>1, <2>3, <2>4
<1>5. ASSUME NEW i \in 1 .. Len(st), i + 1 \in A
      PROVE  i \in A
  <2>1. /\ i \in 1 .. Len(st) + 1 /\ i + 1 \in 1 .. Len(st) + 1
        /\ from[i] = Around(st[i], reach[i], from[i + 1])
    BY <1>2, <1>3 DEF Along
  <2>2. /\ st[i] \in LayerSet /\ reach[i] \in RequestSet /\ from[i + 1] \in ResponseSet
        /\ reach[i].origin # "*"
    BY <1>3, <2>1
  <2>3. CASE st[i].kind # "cors"
    <3>1. Shut(from[i]) \/ SameLeave(from[i + 1], from[i])
      BY <2>1, <2>2, <2>3, LeaveKept
    <3>2. Below(i) => Below(i + 1)
      BY <1>3
    <3>3. NoWildcard(from[i + 1]) /\ (Below(i + 1) => Shut(from[i + 1]))
      BY <1>5
    <3>4. NoWildcard(from[i])
      <4>1. SameLeave(from[i + 1], from[i]) => NoWildcard(from[i])
        BY <3>3 DEF SameLeave, NoWildcard
      <4> QED
        BY <3>1, <4>1, ShutNoWildcard
    <3>5. Below(i) => Shut(from[i])
      <4> HIDE DEF Below
      <4> QED
        BY <3>1, <3>2, <3>3 DEF SameLeave, Shut
    <3> HIDE DEF Below
    <3> QED
      BY <2>1, <3>4, <3>5
  <2>4. CASE st[i].kind = "cors"
    <3>1. SafeCors(st[i])
      BY <2>4 DEF Stacked
    <3>2. Below(i + 1)
      <4> SUFFICES ASSUME NEW j \in 1 .. Len(st), j >= i + 1
                   PROVE  st[j].kind # "cors"
        OBVIOUS
      <4>1. j # i
        OBVIOUS
      <4> QED
        BY <2>4, <4>1
    <3>3. Shut(from[i + 1])
      BY <1>5, <3>2
    <3>4. NoWildcard(from[i])
      BY <2>1, <2>2, <2>4, <3>1, <3>3, CorsNoWildcard
    <3>5. ~Below(i)
      BY <2>4
    <3> HIDE DEF Below
    <3> QED
      BY <2>1, <3>4, <3>5
  <2> QED
    BY <2>3, <2>4
<1>6. 1 \in A
  <2> HIDE DEF A
  <2>1. \A i \in 1 .. Len(st) + 1 : i \in A
    BY <1>3, <1>4, <1>5, Downward
  <2> QED
    BY <1>3, <2>1
<1>7. NoWildcard(from[1])
  <2> HIDE DEF Below
  <2> QED
    BY <1>6
<1> QED
  BY <1>2, <1>7

(* With one Cors no answer says both "*" and credentials, however its       *)
(* builder was called: allow_any_origin and allow_credentials each look at  *)
(* the other.                                                               *)
THEOREM NeverWildcardCredentials == Spec => []NoWildcardCredentials
<1>1. StackInv => NoWildcardCredentials
  <2> SUFFICES ASSUME StackInv, exchange # None, \A i, j \in Position("cors") : i = j
               PROVE  ~(Answer.allowOrigin = "*" /\ Answer.credentials)
    BY DEF NoWildcardCredentials, Answered
  <2>1. PICK req \in Requests : exchange = [request |-> req, answer |-> Respond(stack, req)]
    BY DEF StackInv
  <2>2. Answer = Respond(stack, req)
    BY <2>1 DEF Answer
  <2>3. DOMAIN stack = 1 .. Len(stack) /\ Stacked(stack)
    BY LenProperties DEF StackInv, Stacked
  <2>4. \A i, j \in 1 .. Len(stack) :
            stack[i].kind = "cors" /\ stack[j].kind = "cors" => i = j
    BY <2>3 DEF Position
  <2>5. NoWildcard(Respond(stack, req))
    BY <2>3, <2>4, RespondNoWildcard
  <2> QED
    BY <2>2, <2>5 DEF NoWildcard
<1> QED
  BY <1>1, StackInvariance, PTL

-----------------------------------------------------------------------------
(* Refusals.                                                                *)
Told(req, r) == r = Panicking \/ (r.status # 0 /\ Explained(req, r))

(* A response that keeps the status and the carried headers stays           *)
(* explained.                                                               *)
LEMMA ToldAgain ==
    ASSUME NEW req, NEW r, NEW s, Told(req, r), r # Panicking,
           s.status = r.status, r.notes \intersect Carried \subseteq s.notes
    PROVE  Told(req, s)
  BY DEF Told, Explained, Carried

(* Every layer explains its refusals and keeps those of the layers inside   *)
(* it.                                                                      *)
LEMMA LayerTells ==
    ASSUME NEW l \in LayerSet, NEW req \in RequestSet, NEW r \in ResponseSet, Told(req, r)
    PROVE  Told(req, Around(l, req, r))
<1>1. CASE Answers(l, req)
  <2>1. Around(l, req, r) = Own(l, req)
    BY <1>1 DEF Around
  <2>2. Own(l, req) \in {Preflight(l, req), Unauthorized(req), TooManyRequests, FileResponse(req)}
    BY <1>1 DEF Answers, Own
  <2>3. Told(req, Preflight(l, req))
    BY PreflightFields DEF Told, Explained
  <2>4. Told(req, Unauthorized(req))
    BY UnauthorizedFields DEF Told, Explained
  <2>5. Told(req, TooManyRequests)
    BY OwnFields DEF Told, Explained
  <2>6. Told(req, FileResponse(req))
    BY FileFields DEF Told, Explained
  <2> QED
    BY <2>1, <2>2, <2>3, <2>4, <2>5, <2>6
<1>2. CASE ~Answers(l, req) /\ r = Panicking
  <2>1. Around(l, req, r) \in {ApiError(500), Panicking}
    BY <1>2 DEF Around
  <2>2. ApiError(500).status = 500
    BY OwnFields
  <2> QED
    BY <2>1, <2>2 DEF Told, Explained
<1>3. CASE ~Answers(l, req) /\ r # Panicking
  <2>1. Around(l, req, r) = After(l, req, r)
    BY <1>3 DEF Around
  <2>2. CASE l.kind = "compress"
    <3>1. After(l, req, r) = Compressed(l, req, r)
      BY <2>2 DEF After
    <3>2. Compressed(l, req, r).status = r.status /\ Compressed(l, req, r).notes = r.notes
      BY CompressedFields DEF Beside
    <3> QED
      BY <1>3, <2>1, <3>1, <3>2, ToldAgain
  <2>3. CASE l.kind = "errorFormat"
    <3>1. After(l, req, r) = Reformat(req, r)
      BY <2>3 DEF After
    <3>2. /\ Reformat(req, r).status = r.status
          /\ r.notes \intersect Carried \subseteq Reformat(req, r).notes
      BY ReformatFields
    <3> QED
      BY <1>3, <2>1, <3>1, <3>2, ToldAgain
  <2>4. CASE l.kind = "requestId"
    <3>1. \A x : [r EXCEPT !.id = x].status = r.status /\ [r EXCEPT !.id = x].notes = r.notes
      BY DEF ResponseSet
    <3>2. After(l, req, r) = [r EXCEPT !.id = Forward(l, req).id]
      BY <2>4 DEF After
    <3> QED
      BY <1>3, <2>1, <3>1, <3>2, ToldAgain
  <2>5. CASE l.kind = "trace"
    <3>1. \A x : /\ [r EXCEPT !.traced = x].status = r.status
                 /\ [r EXCEPT !.traced = x].notes = r.notes
      BY DEF ResponseSet
    <3>2. After(l, req, r) = [r EXCEPT !.traced = r.traced \union {r.status}]
      BY <2>5 DEF After
    <3> QED
      BY <1>3, <2>1, <3>1, <3>2, ToldAgain
  <2>6. CASE l.kind = "cors"
    <3>1. After(l, req, r) = Decorate(l, req.origin, r) /\ l \in CorsSet
      BY <2>6, LayerKinds DEF After
    <3>2. /\ Decorate(l, req.origin, r).status = r.status
          /\ Decorate(l, req.origin, r).notes = r.notes
      BY <3>1, DecorateFields
    <3> QED
      BY <1>3, <2>1, <3>1, <3>2, ToldAgain
  <2>7. CASE l.kind \notin {"compress", "errorFormat", "requestId", "trace", "cors"}
    BY <2>1, <2>7 DEF After
  <2> QED
    BY <2>2, <2>3, <2>4, <2>5, <2>6, <2>7
<1> QED
  BY <1>1, <1>2, <1>3

(* The router and the body reader explain their refusals.                   *)
LEMMA DispatchTells ==
    ASSUME NEW req \in RequestSet, WellBehaved(req)
    PROVE  Told(req, Dispatch(req))
<1>1. req.handler \in ResponseSet
  BY DEF RequestSet
<1>2. Told(req, req.handler)
  BY DEF WellBehaved, Told
<1> DEFINE isHead == req.method = "HEAD"
<1>3. req.handler # Panicking => Told(req, MaybeHead(isHead, req.handler))
  <2> HIDE DEF isHead
  <2>1. /\ MaybeHead(isHead, req.handler).status = req.handler.status
        /\ MaybeHead(isHead, req.handler).notes = req.handler.notes
    BY <1>1, MaybeHeadFields
  <2> QED
    BY <1>2, <2>1, ToldAgain
<1>4. /\ Told(req, NotFound) /\ Told(req, OptionsResponse) /\ Told(req, MethodNotAllowed)
      /\ Told(req, Panicking) /\ Told(req, RequestTimeout)
      /\ Told(req, ApiError(413)) /\ Told(req, ApiError(400))
  BY OwnFields DEF Told, Explained
<1>5. Dispatch(req) = MaybeHead(isHead, req.handler) /\ req.handler = Panicking =>
          Dispatch(req) \in {NotFound, OptionsResponse, MethodNotAllowed, Panicking,
                             ApiError(413), RequestTimeout, ApiError(400)}
          \/ Dispatch(req) = req.handler
  BY DEF Dispatch, Upload, RequestSet
<1> HIDE DEF isHead
<1> QED
  BY <1>2, <1>3, <1>4, <1>5, DispatchCases DEF isHead

(* No stack loses what a refusal says.                                      *)
LEMMA RespondTells ==
    ASSUME NEW st, Stacked(st), NEW req \in Requests
    PROVE  Told(req, Respond(st, req))
<1>1. st \in Seq(LayerSet) /\ req \in RequestSet
  BY ResponsesAssumption DEF Stacked
<1>2. PICK reach, from : Along(st, req, reach, from) /\ Respond(st, req) = from[1]
  BY <1>1, RespondAlong
<1>3. /\ Len(st) \in Nat
      /\ \A i \in 1 .. Len(st) : st[i] \in LayerSet
      /\ \A i \in 1 .. Len(st) + 1 : /\ reach[i] \in RequestSet /\ WellBehaved(reach[i])
                                     /\ reach[i].token = req.token /\ from[i] \in ResponseSet
  BY <1>1, <1>2, ReachWell
<1> DEFINE A == {i \in 1 .. Len(st) + 1 : Told(req, from[i])}
<1>4. ASSUME NEW i \in 1 .. Len(st) + 1, NEW r
      PROVE  Told(reach[i], r) = Told(req, r)
  BY <1>3 DEF Told, Explained
<1>5. Len(st) + 1 \in A
  <2>1. Len(st) + 1 \in 1 .. Len(st) + 1
    BY <1>3
  <2>2. Told(reach[Len(st) + 1], Dispatch(reach[Len(st) + 1]))
    BY <1>3, <2>1, DispatchTells
  <2>3. from[Len(st) + 1] = Dispatch(reach[Len(st) + 1])
    BY <1>2 DEF Along
  <2> QED
    BY <1>4, <2>1, <2>2, <2>3
<1>6. ASSUME NEW i \in 1 .. Len(st), i + 1 \in A
      PROVE  i \in A
  <2>1. /\ i \in 1 .. Len(st) + 1 /\ i + 1 \in 1 .. Len(st) + 1
        /\ from[i] = Around(st[i], reach[i], from[i + 1])
    BY <1>2, <1>3 DEF Along
  <2>2. Told(reach[i], from[i + 1])
    BY <1>4, <1>6, <2>1
  <2>3. Told(reach[i], from[i])
    BY <1>3, <2>1, <2>2, LayerTells
  <2> QED
    BY <1>4, <2>1, <2>3
<1>7. 1 \in A
  <2> HIDE DEF A
  <2>1. \A i \in 1 .. Len(st) + 1 : i \in A
    BY <1>3, <1>5, <1>6, Downward
  <2> QED
    BY <1>3, <2>1
<1> QED
  BY <1>2, <1>7

(* A 408 ends its connection, a 405 lists the methods, a 429 the time to    *)
(* wait, a 401 the scheme and a 426 the version, through any layers in any  *)
(* order: ErrorFormat carries those headers into the document it makes.     *)
THEOREM RefusalsExplained == Spec => []RefusalExplained
<1>1. StackInv => RefusalExplained
  <2> SUFFICES ASSUME StackInv, exchange # None, Answer # Panicking
               PROVE  Explained(Request, Answer)
    BY DEF RefusalExplained, Answered, Answer
  <2>1. PICK req \in Requests : exchange = [request |-> req, answer |-> Respond(stack, req)]
    BY DEF StackInv
  <2>2. Answer = Respond(stack, req) /\ Request = req
    BY <2>1 DEF Answer, Request
  <2>3. Told(req, Respond(stack, req))
    BY RespondTells DEF StackInv
  <2> QED
    BY <2>2, <2>3 DEF Told
<1> QED
  BY <1>1, StackInvariance, PTL

-----------------------------------------------------------------------------
(* Preflights.                                                              *)

(* Layers that leave the response as it was for a page.                     *)
Quiet == {"bearer", "rateLimit", "compress", "trace", "requestId"}

(* A quiet layer that does not answer leaves the response of the layers     *)
(* inside as it was for a page, or the panic.                               *)
LEMMA QuietLayer ==
    ASSUME NEW l \in LayerSet, NEW req \in RequestSet, NEW r \in ResponseSet,
           l.kind \in Quiet, ~Answers(l, req)
    PROVE  \/ r = Panicking /\ Around(l, req, r) = Panicking
           \/ r # Panicking /\ SameLeave(r, Around(l, req, r))
<1>1. CASE r = Panicking
  BY <1>1 DEF Around, Quiet
<1>2. CASE r # Panicking
  <2>1. Around(l, req, r) = After(l, req, r)
    BY <1>2 DEF Around
  <2>2. CASE l.kind = "compress"
    <3>1. After(l, req, r) = Compressed(l, req, r)
      BY <2>2 DEF After
    <3> QED
      BY <1>2, <2>1, <3>1, CompressedFields DEF Beside, SameLeave
  <2>3. CASE l.kind = "requestId"
    <3>1. \A x : SameLeave(r, [r EXCEPT !.id = x])
      BY DEF SameLeave, ResponseSet
    <3>2. After(l, req, r) = [r EXCEPT !.id = Forward(l, req).id]
      BY <2>3 DEF After
    <3> QED
      BY <1>2, <2>1, <3>1, <3>2
  <2>4. CASE l.kind = "trace"
    <3>1. \A x : SameLeave(r, [r EXCEPT !.traced = x])
      BY DEF SameLeave, ResponseSet
    <3>2. After(l, req, r) = [r EXCEPT !.traced = r.traced \union {r.status}]
      BY <2>4 DEF After
    <3> QED
      BY <1>2, <2>1, <3>1, <3>2
  <2>5. CASE l.kind \in {"bearer", "rateLimit"}
    <3>1. After(l, req, r) = r
      BY <2>5 DEF After
    <3> QED
      BY <1>2, <2>1, <3>1 DEF SameLeave
  <2> QED
    BY <2>2, <2>3, <2>4, <2>5 DEF Quiet
<1> QED
  BY <1>1, <1>2

(* A layer other than Cors that answers itself grants nothing.              *)
LEMMA AnswersShut ==
    ASSUME NEW l \in LayerSet, NEW req \in RequestSet, NEW r, l.kind # "cors",
           Answers(l, req)
    PROVE  Shut(Around(l, req, r))
<1>1. Around(l, req, r) = Own(l, req)
  BY DEF Around
<1>2. Own(l, req) \in {Unauthorized(req), TooManyRequests, FileResponse(req)}
  BY DEF Answers, Own
<1> QED
  BY <1>1, <1>2, UnauthorizedFields, OwnFields, FileFields

(* A granted preflight and the request it asks for, through a stack with    *)
(* Cors at k.                                                               *)
LEMMA GrantKept ==
    ASSUME NEW st, Stacked(st), NEW req \in Requests, IsPreflight(req),
           NEW reach, NEW from, Along(st, req, reach, from), from[1].granted,
           NEW k \in 1 .. Len(st), st[k].kind = "cors",
           \A i \in 1 .. k - 1 : st[i].kind \in Quiet
    PROVE  /\ \A i \in 1 .. k - 1 : ~Answers(st[i], reach[i])
           /\ Grants(st[k], req)
           /\ from[1].credentials => st[k].credentials
<1>1. st \in Seq(LayerSet) /\ req \in RequestSet
  BY ResponsesAssumption DEF Stacked
<1>2. /\ Len(st) \in Nat
      /\ \A i \in 1 .. Len(st) : st[i] \in LayerSet
      /\ \A i \in 1 .. Len(st) + 1 : reach[i] \in RequestSet /\ from[i] \in ResponseSet
  BY <1>1, ReachWell
<1>3. \A i \in 1 .. Len(st) + 1 : reach[i] = [req EXCEPT !.id = reach[i].id]
  BY <1>1, ReachSame
<1>4. k \in Nat /\ k - 1 \in Nat /\ (k - 1) + 1 = k /\ k <= Len(st)
  BY <1>2
<1> DEFINE A == {i \in 1 .. k : from[i].granted /\ (from[1].credentials => from[i].credentials)}
<1>5. 1 \in A
  BY <1>4
<1>6. ASSUME NEW i \in 1 .. k - 1, from[i].granted
      PROVE  SameLeave(from[i + 1], from[i]) /\ ~Answers(st[i], reach[i])
  <2>1. /\ i \in 1 .. Len(st) /\ i \in 1 .. Len(st) + 1 /\ i + 1 \in 1 .. Len(st) + 1
    BY <1>2, <1>4
  <2>2. from[i] = Around(st[i], reach[i], from[i + 1])
    BY <2>1 DEF Along
  <2>3. st[i].kind # "cors"
    BY <1>6 DEF Quiet
  <2>4. ~Shut(from[i])
    BY <1>6 DEF Shut
  <2>5. SameLeave(from[i + 1], from[i])
    BY <1>2, <2>1, <2>2, <2>3, <2>4, LeaveKept
  <2>6. ~Answers(st[i], reach[i])
    BY <1>2, <2>1, <2>2, <2>3, <2>4, AnswersShut
  <2> QED
    BY <2>5, <2>6
<1>7. ASSUME NEW i \in 1 .. k - 1, i \in A
      PROVE  i + 1 \in A
  <2>1. SameLeave(from[i + 1], from[i])
    BY <1>6, <1>7
  <2>2. i + 1 \in 1 .. k
    BY <1>4
  <2> QED
    BY <1>7, <2>1, <2>2 DEF SameLeave
<1>8. \A i \in 1 .. k : i \in A
  <2> HIDE DEF A
  <2> QED
    BY <1>4, <1>5, <1>7, Upward
<1>9. from[k].granted /\ (from[1].credentials => from[k].credentials)
  BY <1>4, <1>8
<1>10. ASSUME NEW i \in 1 .. k - 1
       PROVE  ~Answers(st[i], reach[i])
  <2>1. i \in A
    BY <1>4, <1>8
  <2> QED
    BY <1>6, <2>1
<1>11. /\ IsPreflight(reach[k]) /\ Grants(st[k], reach[k]) = Grants(st[k], req)
  <2>1. reach[k] = [req EXCEPT !.id = reach[k].id]
    BY <1>2, <1>3
  <2>2. \A x : IsPreflight([req EXCEPT !.id = x])
               /\ Grants(st[k], [req EXCEPT !.id = x]) = Grants(st[k], req)
    BY <1>1 DEF IsPreflight, Grants, RequestSet
  <2> QED
    BY <2>1, <2>2
<1>12. from[k] = Preflight(st[k], reach[k])
  <2>1. from[k] = Around(st[k], reach[k], from[k + 1])
    BY DEF Along
  <2> QED
    BY <1>11, <2>1 DEF Around, Answers, Own
<1>13. /\ from[k].granted = Grants(st[k], reach[k])
       /\ from[k].credentials = (Grants(st[k], reach[k]) /\ st[k].credentials)
  BY <1>12, PreflightFields
<1> QED
  BY <1>9, <1>10, <1>11, <1>13

(* The request that a preflight asks for is one, from the same origin, with *)
(* the same token and the same rate.                                        *)
LEMMA AskedWell ==
    ASSUME NEW req \in Requests, IsPreflight(req)
    PROVE  /\ AskedFor(req) \in RequestSet /\ AskedFor(req).asks = None
           /\ AskedFor(req).origin = req.origin /\ req.origin # None
           /\ AskedFor(req).id = req.id
           /\ AskedFor(req).path = req.path /\ AskedFor(req).token = req.token
           /\ AskedFor(req).limited = req.limited
<1>1. req \in RequestSet /\ req.asks # None
  BY ResponsesAssumption DEF IsPreflight
<1>2. req.asks.method \in Texts
  <2>1. req.asks \in [method : Texts, headers : SUBSET Texts]
    BY <1>1 DEF RequestSet
  <2> QED
    BY <2>1
<1>3. \A m \in Texts : [req EXCEPT !.method = m, !.asks = None] \in RequestSet
  BY <1>1 DEF RequestSet
<1>4. AskedFor(req) = [req EXCEPT !.method = req.asks.method, !.asks = None]
  BY DEF AskedFor
<1>5. AskedFor(req) \in RequestSet
  BY <1>2, <1>3, <1>4
<1>6. \A m : LET a == [req EXCEPT !.method = m, !.asks = None]
             IN /\ a.asks = None /\ a.origin = req.origin /\ a.id = req.id
                /\ a.path = req.path /\ a.token = req.token /\ a.limited = req.limited
  BY <1>1 DEF RequestSet
<1>7. req.origin # None
  BY DEF IsPreflight
<1> QED
  BY <1>4, <1>5, <1>6, <1>7

(* What the page may do with the answer, of a Cors.                         *)
ReadableBy(c, origin, r) ==
    r = Panicking \/ (/\ Readable(r, origin)
                      /\ c.credentials => ReadableWithCredentials(r, origin))

(* Cors lets the page read what it allowed, whatever the layers inside      *)
(* answered, or the panic goes on.                                          *)
LEMMA CorsReadable ==
    ASSUME NEW c, SafeCors(c), c.kind = "cors", NEW req \in RequestSet, req.asks = None,
           req.origin # None, AllowsOrigin(c, req.origin), NEW r \in ResponseSet
    PROVE  ReadableBy(c, req.origin, Around(c, req, r))
<1>1. c \in CorsSet /\ ~(c.any /\ c.credentials)
  BY DEF SafeCors
<1>2. ~Answers(c, req)
  BY DEF Answers, IsPreflight
<1>3. CASE r = Panicking
  BY <1>2, <1>3 DEF Around, ReadableBy
<1>4. CASE r # Panicking
  <2> DEFINE d == Decorate(c, req.origin, r)
  <2>1. Around(c, req, r) = d
    BY <1>2, <1>4 DEF Around, After
  <2>2. /\ d.allowOrigin = OriginValue(c, req.origin)
        /\ d.credentials = (r.credentials \/ c.credentials)
    <3>1. c.credentials \in BOOLEAN /\ r.credentials \in BOOLEAN
      BY <1>1 DEF CorsSet, ResponseSet
    <3> QED
      BY <1>1, <3>1, DecorateFields
  <2> HIDE DEF d
  <2>3. Readable(d, req.origin)
    BY <2>2 DEF Readable, OriginValue
  <2>4. c.credentials => ReadableWithCredentials(d, req.origin)
    BY <1>1, <2>2 DEF ReadableWithCredentials, OriginValue
  <2> QED
    BY <2>1, <2>3, <2>4 DEF ReadableBy
<1> QED
  BY <1>3, <1>4

(* The answer to the request that a granted preflight asked for is          *)
(* decorated by the same Cors, and no layer in front of it answers in its   *)
(* place.                                                                   *)
LEMMA GrantReadable ==
    ASSUME NEW st, Stacked(st), NEW req \in Requests, IsPreflight(req),
           NEW k \in 1 .. Len(st), st[k].kind = "cors",
           \A i \in 1 .. k - 1 : st[i].kind \in Quiet,
           NEW reach, NEW from, Along(st, req, reach, from), from[1].granted,
           NEW reach2, NEW from2, Along(st, AskedFor(req), reach2, from2)
    PROVE  ReadableBy(st[k], req.origin, from2[1])
<1> DEFINE ask == AskedFor(req)
           c == st[k]
<1>1. /\ st \in Seq(LayerSet) /\ ask \in RequestSet /\ ask.asks = None
      /\ ask.origin = req.origin /\ req.origin # None /\ ask.path = req.path
      /\ ask.token = req.token /\ ask.limited = req.limited
      /\ req \in RequestSet
  BY AskedWell, ResponsesAssumption DEF Stacked
<1> HIDE DEF ask
<1>2. /\ Len(st) \in Nat
      /\ \A i \in 1 .. Len(st) : st[i] \in LayerSet
  BY <1>1, LenProperties, ElementOfSeq
<1>3. k \in Nat /\ k - 1 \in Nat /\ (k - 1) + 1 = k /\ k <= Len(st)
  BY <1>2
<1>4. ASSUME NEW i \in 1 .. Len(st) + 1
      PROVE  /\ reach2[i] \in RequestSet /\ reach2[i].asks = None
             /\ reach2[i].origin = req.origin /\ reach2[i].path = req.path
             /\ reach2[i].token = req.token /\ reach2[i].limited = req.limited
             /\ from2[i] \in ResponseSet
             /\ reach[i].path = req.path /\ reach[i].token = req.token
             /\ reach[i].limited = req.limited
  <2>1. reach2[i] \in RequestSet /\ reach2[i] = [ask EXCEPT !.id = reach2[i].id]
    BY <1>1, ReachSame DEF ask
  <2>2. \A x : LET a == [ask EXCEPT !.id = x]
               IN /\ a.asks = ask.asks /\ a.origin = ask.origin /\ a.path = ask.path
                  /\ a.token = ask.token /\ a.limited = ask.limited
    BY <1>1 DEF RequestSet
  <2>3. reach[i] \in RequestSet /\ reach[i] = [req EXCEPT !.id = reach[i].id]
    BY <1>1, ReachSame
  <2>4. \A x : LET a == [req EXCEPT !.id = x]
               IN a.path = req.path /\ a.token = req.token /\ a.limited = req.limited
    BY <1>1 DEF RequestSet
  <2>5. from2[i] \in ResponseSet
    BY DEF Along
  <2>6. /\ reach2[i].asks = ask.asks /\ reach2[i].origin = ask.origin
        /\ reach2[i].path = ask.path /\ reach2[i].token = ask.token
        /\ reach2[i].limited = ask.limited
    BY <2>1, <2>2
  <2>7. reach[i].path = req.path /\ reach[i].token = req.token /\ reach[i].limited = req.limited
    BY <2>3, <2>4
  <2> QED
    BY <1>1, <2>1, <2>5, <2>6, <2>7
<1>5. /\ \A i \in 1 .. k - 1 : ~Answers(st[i], reach[i])
      /\ Grants(st[k], req)
  BY GrantKept
<1> DEFINE A == {i \in 1 .. k : ReadableBy(c, req.origin, from2[i])}
<1>6. k \in A
  <2>1. k \in 1 .. Len(st) + 1 /\ k + 1 \in 1 .. Len(st) + 1
    BY <1>2
  <2>2. from2[k] = Around(c, reach2[k], from2[k + 1])
    BY DEF Along
  <2>3. SafeCors(c) /\ c.kind = "cors"
    BY DEF Stacked
  <2>4. AllowsOrigin(c, req.origin)
    BY <1>5 DEF Grants
  <2>5. ReadableBy(c, reach2[k].origin, from2[k])
    BY <1>1, <1>4, <2>1, <2>2, <2>3, <2>4, CorsReadable
  <2>6. ReadableBy(c, req.origin, from2[k])
    BY <1>4, <2>1, <2>5
  <2> QED
    BY <1>3, <2>6
<1>7. ASSUME NEW i \in 1 .. k - 1, i + 1 \in A
      PROVE  i \in A
  <2>1. i \in 1 .. Len(st) /\ i \in 1 .. Len(st) + 1 /\ i + 1 \in 1 .. Len(st) + 1 /\ i \in 1 .. k
    BY <1>2, <1>3
  <2>2. from2[i] = Around(st[i], reach2[i], from2[i + 1])
    BY <2>1 DEF Along
  <2>3. ~Answers(st[i], reach2[i])
    <3>1. ~Answers(st[i], reach[i])
      BY <1>5
    <3>2. reach2[i].path = reach[i].path /\ reach2[i].token = reach[i].token
          /\ reach2[i].limited = reach[i].limited
      BY <1>4, <2>1
    <3>3. st[i].kind \in Quiet
      OBVIOUS
    <3> QED
      BY <3>1, <3>2, <3>3 DEF Answers, Quiet
  <2>4. \/ from2[i + 1] = Panicking /\ from2[i] = Panicking
        \/ from2[i + 1] # Panicking /\ SameLeave(from2[i + 1], from2[i])
    BY <1>2, <1>4, <2>1, <2>2, <2>3, QuietLayer
  <2>5. ReadableBy(c, req.origin, from2[i + 1])
    BY <1>7
  <2>6. ReadableBy(c, req.origin, from2[i])
    <3> HIDE DEF c
    <3> QED
      BY <2>4, <2>5 DEF SameLeave, ReadableBy, Readable, ReadableWithCredentials
  <2> QED
    BY <2>1, <2>6
<1>8. 1 \in A
  <2> HIDE DEF A
  <2>1. (k - 1) + 1 \in A
    BY <1>3, <1>6
  <2>2. \A i \in 1 .. (k - 1) + 1 : i \in A
    BY <1>3, <1>7, <2>1, Downward
  <2> QED
    BY <1>3, <2>2
<1> QED
  BY <1>8

(* A preflight that Cors granted is a promise: the request it asks for gets *)
(* an answer its page may read, with credentials where they were promised.  *)
THEOREM GrantsAreReadable == Spec => []GrantedIsReadable
<1>1. StackInv => GrantedIsReadable
  <2> SUFFICES ASSUME StackInv, Answered, IsPreflight(Request), Answer.granted,
                      CorsBefore({"errorFormat", "catchPanic", "serveDir"})
               PROVE  LET r == Respond(stack, AskedFor(Request))
                      IN /\ r # Panicking => Readable(r, Request.origin)
                         /\ r # Panicking /\ Answer.credentials =>
                                ReadableWithCredentials(r, Request.origin)
    BY DEF GrantedIsReadable
  <2>1. PICK req \in Requests : exchange = [request |-> req, answer |-> Respond(stack, req)]
    BY DEF StackInv, Answered
  <2>2. Answer = Respond(stack, req) /\ Request = req
    BY <2>1 DEF Answer, Request
  <2>3. /\ Stacked(stack) /\ stack \in Seq(LayerSet) /\ req \in RequestSet
        /\ IsPreflight(req) /\ AskedFor(req) \in RequestSet
    BY <2>2, ResponsesAssumption, AskedWell DEF StackInv, Stacked
  <2>4. PICK reach, from : Along(stack, req, reach, from) /\ Respond(stack, req) = from[1]
    BY <2>3, RespondAlong
  <2>5. PICK reach2, from2 : /\ Along(stack, AskedFor(req), reach2, from2)
                             /\ Respond(stack, AskedFor(req)) = from2[1]
    BY <2>3, RespondAlong
  <2>6. from[1].granted
    BY <2>2, <2>4
  <2>a. Len(stack) \in Nat /\ DOMAIN stack = 1 .. Len(stack)
    BY <2>3, LenProperties
  <2>7. PICK k \in 1 .. Len(stack) :
            /\ stack[k].kind = "cors"
            /\ \A j \in 1 .. k - 1 :
                   stack[j].kind \notin {"errorFormat", "catchPanic", "serveDir", "cors"}
    BY <2>a DEF CorsBefore, Position
  <2>8. ASSUME NEW i \in 1 .. k - 1
        PROVE  stack[i].kind \in Quiet
    <3>1. i \in 1 .. Len(stack)
      BY <2>a
    <3>2. stack[i] \in LayerSet
      BY <2>3, <3>1, ElementOfSeq
    <3>3. stack[i].kind \notin {"errorFormat", "catchPanic", "serveDir", "cors"}
      BY <2>7
    <3>4. stack[i].kind \in Simple \union {"cors", "bearer", "compress"}
      BY <3>2, LayerKinds
    <3> QED
      BY <3>3, <3>4 DEF Simple, Quiet
  <2>9. ReadableBy(stack[k], req.origin, from2[1])
    BY <2>3, <2>4, <2>5, <2>6, <2>7, <2>8, GrantReadable
  <2>10. from[1].credentials => stack[k].credentials
    BY <2>3, <2>4, <2>6, <2>7, <2>8, GrantKept
  <2> QED
    BY <2>2, <2>4, <2>5, <2>9, <2>10 DEF ReadableBy
<1> QED
  BY <1>1, StackInvariance, PTL

-----------------------------------------------------------------------------
(* HEAD and GET.                                                            *)

(* The two answers, to a HEAD and to its GET, at one place of the stack.    *)
SameHeaders(h, g) ==
    /\ h.status = g.status /\ h.type = g.type /\ h.coding = g.coding /\ h.etag = g.etag
    /\ h.vary = g.vary /\ h.allowOrigin = g.allowOrigin /\ h.credentials = g.credentials
    /\ h.exposed = g.exposed /\ h.granted = g.granted /\ h.notes = g.notes
    /\ h.range = g.range /\ h.noTransform = g.noTransform /\ h.id = g.id
    /\ h.info = g.info /\ h.traced = g.traced

Large(min, length) == length # None /\ length.size >= min
Encodable(min, r) == r.body.kind = "full" /\ r.body.size >= min

(* A Compress with one of these least sizes takes both for large, or none.  *)
BothLarge(mins, h, g) == \A min \in mins : Large(min, h.length) <=> Encodable(min, g)

Described(mins, h, g) ==
    /\ SameHeaders(h, g)
    /\ Measures(h.length, g) /\ Measures(g.length, g)
    /\ g.coding = None => BothLarge(mins, h, g)

(* The exceptions.                                                          *)
Unmeasured(mins, h) == UnmeasuredError(h) /\ \E min \in mins : min <= Tiny

Paired(mins, h, g) == MeasuredStream(g) \/ Described(mins, h, g) \/ Unmeasured(mins, h)

SameFate(h, g) ==
    /\ h.status # 0 /\ h.status = g.status /\ h.info = g.info /\ h.notes = g.notes
    /\ h.traced = g.traced

HeadPair(mins, h, g) == \/ h = Panicking /\ g = Panicking
                        \/ SameFate(h, g) /\ Paired(mins, h, g)

(* Responses that agree field by field have the same headers.               *)
LEMMA SameHeadersAgree ==
    ASSUME NEW h \in ResponseSet, NEW g \in ResponseSet, SameHeaders(h, g)
    PROVE  Headers(h) = Headers(g)
  BY DEF SameHeaders, Headers, ResponseSet

(* A response that is the same for both, and its length if it has one.      *)
LEMMA SamePair ==
    ASSUME NEW mins, NEW r \in ResponseSet, r.status # 0, Measures(r.length, r),
           BothLarge(mins, r, r)
    PROVE  HeadPair(mins, r, r)
  BY DEF HeadPair, Paired, SameFate, Described, SameHeaders

(* An error of a layer: Compress spares it, or it is an exception.          *)
LEMMA ErrorPair ==
    ASSUME NEW mins, mins \subseteq Nat, NEW r \in ResponseSet, r.status # 0, r.info,
           r.length = None, r.coding = None, r.body = Whole(Tiny)
    PROVE  HeadPair(mins, r, r)
<1>1. Tiny \in Nat
  BY SizeAssumption
<1>2. SameFate(r, r)
  BY DEF SameFate
<1>3. CASE \E min \in mins : min <= Tiny
  <2>1. Unmeasured(mins, r)
    BY <1>3 DEF Unmeasured, UnmeasuredError
  <2> QED
    BY <1>2, <2>1 DEF HeadPair, Paired
<1>4. CASE ~\E min \in mins : min <= Tiny
  <2>1. r.body.size = Tiny
    BY WholeType, <1>1
  <2>2. BothLarge(mins, r, r)
    BY <1>1, <1>4, <2>1 DEF BothLarge, Large, Encodable
  <2> QED
    BY <2>2, SamePair DEF Measures
<1> QED
  BY <1>3, <1>4

(* An answer of the router, which says how long it is.                      *)
LEMMA MeasuredPair ==
    ASSUME NEW mins, NEW size \in Nat, NEW r \in ResponseSet, r.status # 0,
           r.length = LengthOf(Whole(size)), r.body = Whole(size)
    PROVE  HeadPair(mins, r, r)
<1>1. r.body.size = size /\ r.body.kind = "full"
  BY WholeType
<1>2. r.length.size = size /\ r.length # None
  BY WholeType, LengthAssumption
<1>3. BothLarge(mins, r, r)
  BY <1>1, <1>2 DEF BothLarge, Large, Encodable
<1> QED
  BY <1>3, SamePair DEF Measures

(* What the router and the layers answer themselves agrees for both.        *)
LEMMA OwnPairs ==
    ASSUME NEW mins, mins \subseteq Nat
    PROVE  /\ HeadPair(mins, ApiError(500), ApiError(500))
           /\ HeadPair(mins, NotFound, NotFound)
           /\ HeadPair(mins, MethodNotAllowed, MethodNotAllowed)
           /\ HeadPair(mins, TooManyRequests, TooManyRequests)
           /\ \A req : HeadPair(mins, Unauthorized(req), Unauthorized(req))
<1>1. Tiny \in Nat /\ 500 \in Nat
  BY SizeAssumption
<1>2. /\ ApiError(500).length = None /\ ApiError(500).body = Whole(Tiny)
      /\ ApiError(500).info /\ ApiError(500).coding = None
  BY DEF ApiError, ResponseJson, Blank
<1>3. /\ TooManyRequests.length = None /\ TooManyRequests.body = Whole(Tiny)
      /\ TooManyRequests.info /\ TooManyRequests.coding = None
  BY DEF TooManyRequests, ApiError, ResponseJson, Blank
<1>4. ASSUME NEW req
      PROVE  /\ Unauthorized(req).length = None /\ Unauthorized(req).body = Whole(Tiny)
             /\ Unauthorized(req).info /\ Unauthorized(req).coding = None
  BY DEF Unauthorized, ApiError, ResponseJson, Blank
<1>5. NotFound.length = LengthOf(Whole(Tiny)) /\ NotFound.body = Whole(Tiny)
  BY DEF NotFound, ResponseText, Blank
<1>6. MethodNotAllowed.length = LengthOf(Whole(0)) /\ MethodNotAllowed.body = Whole(0)
  BY DEF MethodNotAllowed, Bodiless, Blank
<1>7. ApiError(500) \in ResponseSet /\ ApiError(500).status # 0
  BY <1>1, OwnTypes, OwnFields
<1>8. TooManyRequests \in ResponseSet /\ TooManyRequests.status # 0
  BY <1>1, OwnTypes, OwnFields
<1>9. NotFound \in ResponseSet /\ NotFound.status # 0
  BY <1>1, OwnTypes, OwnFields
<1>10. MethodNotAllowed \in ResponseSet /\ MethodNotAllowed.status # 0
  BY <1>1, OwnTypes, OwnFields
<1>11. HeadPair(mins, ApiError(500), ApiError(500))
  BY <1>2, <1>7, ErrorPair
<1>12. HeadPair(mins, NotFound, NotFound)
  BY <1>1, <1>5, <1>9, MeasuredPair
<1>13. HeadPair(mins, MethodNotAllowed, MethodNotAllowed)
  BY <1>6, <1>10, MeasuredPair
<1>14. HeadPair(mins, TooManyRequests, TooManyRequests)
  BY <1>3, <1>8, ErrorPair
<1>15. ASSUME NEW req
       PROVE  HeadPair(mins, Unauthorized(req), Unauthorized(req))
  <2>1. Unauthorized(req) \in ResponseSet /\ Unauthorized(req).status # 0
    BY <1>1, OwnTypes, UnauthorizedFields
  <2> QED
    BY <1>4, <2>1, ErrorPair
<1> QED
  BY <1>11, <1>12, <1>13, <1>14, <1>15

(* What the router makes of a response to a HEAD.                           *)
LEMMA MaybeHeadLength ==
    ASSUME NEW r \in ResponseSet
    PROVE  /\ MaybeHead(FALSE, r) = r
           /\ MaybeHead(TRUE, r).body = Whole(0)
           /\ MaybeHead(TRUE, r).length =
                  IF r.length = None THEN SizeHint(r.body) ELSE r.length
  BY DEF MaybeHead, ResponseSet

(* The router drops the body of a HEAD.                                     *)
LEMMA MaybeHeadPair ==
    ASSUME NEW mins, NEW r \in ResponseSet, r.status # 0, Measures(r.length, r)
    PROVE  HeadPair(mins, MaybeHead(TRUE, r), r)
<1> DEFINE h == MaybeHead(TRUE, r)
<1>1. SameHeaders(h, r)
  BY MaybeHeadFields DEF SameHeaders
<1>2. h.length = IF r.length = None THEN SizeHint(r.body) ELSE r.length
  BY MaybeHeadLength
<1> HIDE DEF h
<1>3. SameFate(h, r)
  BY <1>1 DEF SameFate, SameHeaders
<1>4. r.body \in Body
  BY DEF ResponseSet
<1>5. CASE MeasuredStream(r)
  BY <1>3, <1>5 DEF HeadPair, Paired, h
<1>6. CASE ~MeasuredStream(r)
  <2>1. Measures(h.length, r)
    BY <1>2 DEF Measures, SizeHint
  <2>2. ASSUME NEW min \in mins
        PROVE  Large(min, h.length) <=> Encodable(min, r)
    <3>1. CASE r.body.kind = "full"
      <4>1. h.length = LengthOf(r.body)
        BY <1>2, <3>1 DEF Measures, SizeHint
      <4>2. LengthOf(r.body).size = r.body.size
        BY DEF LengthOf
      <4>3. Large(min, h.length) <=> h.length # None /\ r.body.size >= min
        BY <4>1, <4>2 DEF Large
      <4>4. LengthOf(r.body) # None
        BY <1>4, HintType, LengthAssumption
      <4> QED
        BY <3>1, <4>1, <4>3, <4>4 DEF Encodable
    <3>2. CASE r.body.kind # "full"
      <4>1. r.body.kind = "stream"
        BY <1>4, <3>2 DEF Body
      <4>2. r.length = None
        BY <1>6, <4>1 DEF MeasuredStream
      <4>3. h.length = None
        BY <1>2, <3>2, <4>2 DEF SizeHint
      <4> QED
        BY <3>2, <4>3 DEF Large, Encodable
    <3> QED
      BY <3>1, <3>2
  <2>3. Described(mins, h, r)
    BY <1>1, <2>1, <2>2 DEF Described, BothLarge
  <2> QED
    BY <1>3, <2>3 DEF HeadPair, Paired, h
<1> QED
  BY <1>5, <1>6

Varied(r) == [r EXCEPT !.vary = CompressVary(@)]

(* Compress adds to Vary first.                                             *)
LEMMA VariedFields ==
    ASSUME NEW r \in ResponseSet
    PROVE  LET v == Varied(r)
           IN /\ v \in ResponseSet /\ Beside(r, v) /\ v.coding = r.coding /\ v.etag = r.etag
              /\ v.length = r.length /\ v.body = r.body /\ v.vary = CompressVary(r.vary)
<1>1. CompressVary(r.vary) \in SUBSET Texts
  <2>1. r.vary \in SUBSET Texts
    BY DEF ResponseSet
  <2> QED
    BY <2>1, NamesType DEF CompressVary
<1> DEFINE w == CompressVary(r.vary)
<1>2. Varied(r) = [r EXCEPT !.vary = w]
  BY DEF Varied
<1>3. w \in SUBSET Texts
  BY <1>1
<1> HIDE DEF w
<1>4. [r EXCEPT !.vary = w] \in ResponseSet
  BY <1>3 DEF ResponseSet
<1>5. LET v == [r EXCEPT !.vary = w]
      IN /\ Beside(r, v) /\ v.coding = r.coding /\ v.etag = r.etag
         /\ v.length = r.length /\ v.body = r.body /\ v.vary = w
  BY DEF Beside, ResponseSet
<1> QED
  BY <1>2, <1>4, <1>5 DEF w

Pooled(req) == req.pool
Coded(min, req, r, coding) == EncodeBody(min, r, coding, req.pool)

(* The branches of Compress.                                                *)
LEMMA CompressedCases ==
    ASSUME NEW l, NEW req, NEW r
    PROVE  LET coding == Negotiate(req.accepts)
               passes == r.coding # None \/ ~Compressible(r.type)
               stays == coding = None \/ Untouchable(r)
           IN /\ passes => Compressed(l, req, r) = r
              /\ ~passes /\ stays => Compressed(l, req, r) = Varied(r)
              /\ ~passes /\ ~stays /\ req.method = "HEAD" =>
                     Compressed(l, req, r) = DescribeEncoded(l.min, Varied(r), coding)
              /\ ~passes /\ ~stays /\ req.method # "HEAD" =>
                     Compressed(l, req, r) = Coded(l.min, req, Varied(r), coding)
  BY DEF Compressed, Varied, Coded

(* What Compress makes of a large body, where the pool runs jobs.           *)
LEMMA EncodeBodyFields ==
    ASSUME NEW min, NEW r \in ResponseSet, NEW coding, NEW req, Pooled(req)
    PROVE  LET e == Coded(min, req, r, coding)
               body == [r.body EXCEPT !.coding = coding]
           IN /\ Beside(r, e) /\ e.vary = r.vary
              /\ ~Encodable(min, r) => e = r
              /\ Encodable(min, r) => /\ e.coding = coding /\ e.etag = WeakenEtag(r.etag)
                            /\ e.body = body
                            /\ e.length = IF r.length = None THEN None ELSE LengthOf(body)
<1> DEFINE body == [r.body EXCEPT !.coding = coding]
           len == IF r.length = None THEN None ELSE LengthOf(body)
           made == [Encoded(r, coding) EXCEPT !.body = body, !.length = len]
<1>1. Encoded(r, coding).length = r.length
  BY EncodedFields
<1>2. Coded(min, req, r, coding) = IF Encodable(min, r) THEN made ELSE r
  BY <1>1 DEF Coded, Pooled, EncodeBody, Encodable
<1>3. \A b, l : LET m == [Encoded(r, coding) EXCEPT !.body = b, !.length = l]
                IN /\ Beside(r, m) /\ m.vary = r.vary /\ m.coding = coding
                   /\ m.etag = WeakenEtag(r.etag) /\ m.body = b /\ m.length = l
  BY DEF Beside, Encoded, ResponseSet
<1> HIDE DEF body, len
<1>4. /\ Beside(r, made) /\ made.vary = r.vary /\ made.coding = coding
      /\ made.etag = WeakenEtag(r.etag) /\ made.body = body /\ made.length = len
  BY <1>3
<1>5. Beside(r, r)
  BY DEF Beside
<1> HIDE DEF made
<1> QED
  BY <1>2, <1>4, <1>5 DEF body, len

(* What Compress leaves alone.                                              *)
LEMMA NotEncodable ==
    ASSUME NEW min, NEW r \in ResponseSet, NEW coding, NEW req, Pooled(req), ~Encodable(min, r)
    PROVE  Coded(min, req, r, coding) = r
  BY DEF Coded, EncodeBody, Encodable

(* What Compress says of a body it does not have.                           *)
LEMMA DescribeFields ==
    ASSUME NEW min, NEW r \in ResponseSet, NEW coding
    PROVE  LET e == DescribeEncoded(min, r, coding)
           IN /\ Beside(r, e) /\ e.vary = r.vary
              /\ ~Large(min, r.length) => e = r
              /\ Large(min, r.length) => /\ e.coding = coding /\ e.etag = WeakenEtag(r.etag)
                                    /\ e.length = None
<1>1. LET m == [Encoded(r, coding) EXCEPT !.length = None]
      IN /\ Beside(r, m) /\ m.vary = r.vary /\ m.coding = coding
         /\ m.etag = WeakenEtag(r.etag) /\ m.length = None
  BY DEF Beside, Encoded, ResponseSet
<1>2. Beside(r, r)
  BY DEF Beside
<1>3. DescribeEncoded(min, r, coding) =
          IF Large(min, r.length) THEN [Encoded(r, coding) EXCEPT !.length = None] ELSE r
  BY DEF DescribeEncoded, Large
<1> DEFINE m == [Encoded(r, coding) EXCEPT !.length = None]
<1> HIDE DEF m
<1>4. DescribeEncoded(min, r, coding) = IF Large(min, r.length) THEN m ELSE r
  BY <1>3 DEF m
<1>5. /\ Beside(r, m) /\ m.vary = r.vary /\ m.coding = coding
      /\ m.etag = WeakenEtag(r.etag) /\ m.length = None
  BY <1>1 DEF m
<1> QED
  BY <1>2, <1>4, <1>5

(* A HEAD that Compress describes has the headers of the GET it encodes.    *)
LEMMA EncodedPair ==
    ASSUME NEW mins, NEW min \in mins, NEW h \in ResponseSet, NEW g \in ResponseSet,
           Described(mins, h, g), g.coding = None,
           NEW coding \in {"br", "gzip"}, NEW req, Pooled(req)
    PROVE  Described(mins, DescribeEncoded(min, h, coding), Coded(min, req, g, coding))
<1> DEFINE h2 == DescribeEncoded(min, h, coding)
           g2 == Coded(min, req, g, coding)
<1>1. /\ SameHeaders(h, g) /\ Measures(h.length, g) /\ Measures(g.length, g)
      /\ Large(min, h.length) <=> Encodable(min, g)
  BY DEF Described, BothLarge
<1>2. CASE Encodable(min, g)
  <2>1. /\ Beside(h, h2) /\ h2.vary = h.vary /\ h2.coding = coding
        /\ h2.etag = WeakenEtag(h.etag) /\ h2.length = None
    BY <1>1, <1>2, DescribeFields
  <2>2. /\ Beside(g, g2) /\ g2.vary = g.vary /\ g2.coding = coding
        /\ g2.etag = WeakenEtag(g.etag)
        /\ g2.body = [g.body EXCEPT !.coding = coding]
        /\ g2.length = IF g.length = None THEN None
                       ELSE LengthOf([g.body EXCEPT !.coding = coding])
    BY <1>2, EncodeBodyFields
  <2> HIDE DEF h2, g2
  <2>3. SameHeaders(h2, g2)
    BY <1>1, <2>1, <2>2 DEF SameHeaders, Beside
  <2>4. Measures(h2.length, g2) /\ Measures(g2.length, g2)
    BY <2>1, <2>2 DEF Measures
  <2>5. g2.coding # None
    BY <2>2, TextsAssumption
  <2>6. Described(mins, h2, g2)
    BY <2>3, <2>4, <2>5 DEF Described
  <2> QED
    BY <2>6 DEF h2, g2
<1>3. CASE ~Encodable(min, g)
  <2>1. h2 = h
    BY <1>1, <1>3, DescribeFields
  <2>2. g2 = g
    BY <1>3, NotEncodable
  <2> QED
    BY <2>1, <2>2
<1> QED
  BY <1>2, <1>3

(* The same made of the two, beside body and length.                        *)
LEMMA DescribedAgain ==
    ASSUME NEW mins, NEW h, NEW g, NEW h2, NEW g2, Described(mins, h, g), SameHeaders(h2, g2),
           h2.length = h.length, g2.length = g.length, g2.body = g.body, g2.coding = g.coding
    PROVE  Described(mins, h2, g2)
  BY DEF Described, Measures, BothLarge, Encodable

(* Compress treats a HEAD as the GET.                                       *)
LEMMA CompressedPair ==
    ASSUME NEW mins, NEW l, l.min \in mins, NEW qh \in RequestSet, NEW qg \in RequestSet,
           qh.method = "HEAD", qg.method = "GET", qg.accepts = qh.accepts, Pooled(qg),
           NEW h \in ResponseSet, NEW g \in ResponseSet, SameFate(h, g), Paired(mins, h, g)
    PROVE  HeadPair(mins, Compressed(l, qh, h), Compressed(l, qg, g))
<1> DEFINE coding == Negotiate(qh.accepts)
           h2 == Compressed(l, qh, h)
           g2 == Compressed(l, qg, g)
<1>1. SameFate(h2, g2)
  <2>1. Beside(h, h2) /\ Beside(g, g2)
    BY CompressedFields
  <2> HIDE DEF h2, g2
  <2> QED
    BY <2>1 DEF Beside, SameFate
<1>2. CASE MeasuredStream(g)
  <2>1. g2 \in {g, Varied(g), Coded(l.min, qg, Varied(g), coding)}
    BY CompressedCases
  <2>2. /\ Varied(g) \in ResponseSet
        /\ Varied(g).body = g.body /\ Varied(g).length = g.length
    BY VariedFields
  <2>3. ~Encodable(l.min, Varied(g))
    BY <1>2, <2>2 DEF MeasuredStream, Encodable
  <2>4. Coded(l.min, qg, Varied(g), coding) = Varied(g)
    <3> HIDE DEF coding
    <3> QED
      BY <2>2, <2>3, NotEncodable
  <2>5. g2.body = g.body /\ g2.length = g.length
    BY <2>1, <2>2, <2>4
  <2>6. MeasuredStream(g2)
    BY <1>2, <2>5 DEF MeasuredStream
  <2> QED
    BY <1>1, <2>6 DEF HeadPair, Paired
<1>3. CASE Described(mins, h, g)
  <2>1. SameHeaders(h, g)
    BY <1>3 DEF Described
  <2> DEFINE passes == g.coding # None \/ ~Compressible(g.type)
             stays == coding = None \/ Untouchable(g)
  <2>2. passes <=> h.coding # None \/ ~Compressible(h.type)
    BY <2>1 DEF SameHeaders
  <2>3. stays <=> coding = None \/ Untouchable(h)
    BY <2>1 DEF SameHeaders, Untouchable
  <2>4. CASE passes
    <3>1. h2 = h /\ g2 = g
      BY <2>2, <2>4, CompressedCases
    <3> QED
      BY <1>1, <1>3, <3>1 DEF HeadPair, Paired
  <2>5. Described(mins, Varied(h), Varied(g))
    <3>1. SameHeaders(Varied(h), Varied(g))
      BY <2>1, VariedFields DEF SameHeaders, Beside
    <3> QED
      BY <1>3, <3>1, VariedFields, DescribedAgain
  <2>6. CASE ~passes /\ stays
    <3>1. h2 = Varied(h) /\ g2 = Varied(g)
      BY <2>2, <2>3, <2>6, CompressedCases
    <3>2. Described(mins, h2, g2)
      BY <2>5, <3>1
    <3> QED
      BY <1>1, <3>2 DEF HeadPair, Paired
  <2>7. CASE ~passes /\ ~stays
    <3>1. h2 = DescribeEncoded(l.min, Varied(h), coding)
      BY <2>2, <2>3, <2>7, CompressedCases
    <3>2. g2 = Coded(l.min, qg, Varied(g), coding)
      BY <2>7, CompressedCases
    <3>3. coding \in {"br", "gzip"}
      BY <2>7, NegotiateType
    <3>4. Varied(h) \in ResponseSet /\ Varied(g) \in ResponseSet /\ Varied(g).coding = None
      BY <2>7, VariedFields
    <3> HIDE DEF coding
    <3>5. Described(mins, DescribeEncoded(l.min, Varied(h), coding),
                    Coded(l.min, qg, Varied(g), coding))
      BY <2>5, <3>3, <3>4, EncodedPair
    <3>6. Described(mins, h2, g2)
      BY <3>1, <3>2, <3>5
    <3> QED
      BY <1>1, <3>6 DEF HeadPair, Paired
  <2> QED
    BY <2>4, <2>6, <2>7
<1>4. CASE Unmeasured(mins, h)
  <2>1. h2 \in {h, Varied(h), DescribeEncoded(l.min, Varied(h), coding)}
    BY CompressedCases
  <2>2. /\ Varied(h) \in ResponseSet /\ Varied(h).length = h.length
        /\ Varied(h).coding = h.coding
    BY VariedFields
  <2>3. ~Large(l.min, Varied(h).length)
    BY <1>4, <2>2 DEF Unmeasured, UnmeasuredError, Large
  <2>4. DescribeEncoded(l.min, Varied(h), coding) = Varied(h)
    <3> HIDE DEF coding
    <3> QED
      BY <2>2, <2>3, DescribeFields
  <2>5. h2.length = h.length /\ h2.coding = h.coding
    BY <2>1, <2>2, <2>4
  <2>6. h2.info = h.info
    BY CompressedFields DEF Beside
  <2> HIDE DEF h2, g2
  <2>7. Unmeasured(mins, h2)
    BY <1>4, <2>5, <2>6 DEF Unmeasured, UnmeasuredError
  <2> QED
    BY <1>1, <2>7 DEF HeadPair, Paired, h2, g2
<1> QED
  BY <1>2, <1>3, <1>4 DEF Paired

(* Two requests that differ in the method alone, HEAD and GET.              *)
Twins(qh, qg) ==
    /\ qh.method = "HEAD" /\ qg.method = "GET" /\ qg.path = qh.path
    /\ qg.origin = qh.origin /\ qg.accepts = qh.accepts /\ qg.token = qh.token
    /\ qg.id = qh.id /\ qg.fresh = qh.fresh /\ qg.handler = qh.handler
    /\ qg.file = qh.file /\ qg.limited = qh.limited /\ Pooled(qg)

(* The router answers a HEAD as the GET.                                    *)
LEMMA DispatchPair ==
    ASSUME NEW mins, mins \subseteq Nat \ {0}, NEW qh \in RequestSet, NEW qg \in RequestSet,
           Twins(qh, qg), WellBehaved(qh)
    PROVE  HeadPair(mins, Dispatch(qh), Dispatch(qg))
<1> DEFINE r == qh.handler
<1>1. r \in ResponseSet /\ (r = Panicking \/ (r.status # 0 /\ Measures(r.length, r)))
  BY DEF RequestSet, WellBehaved, Measures
<1>2. CASE qh.path = "route"
  <2>1. CASE r = Panicking
    <3>1. Dispatch(qh) = Panicking /\ Dispatch(qg) = Panicking
      BY <1>2, <2>1 DEF Dispatch, TakenBy, Twins
    <3> QED
      BY <3>1 DEF HeadPair, Paired
  <2>2. CASE r # Panicking
    <3>1. Dispatch(qh) = MaybeHead(TRUE, r)
      BY <1>2, <2>2 DEF Dispatch, TakenBy, Twins, MaybeHead
    <3>2. Dispatch(qg) = r
      BY <1>2, <2>2 DEF Dispatch, TakenBy, Twins, MaybeHead
    <3> HIDE DEF r
    <3> QED
      BY <1>1, <2>2, <3>1, <3>2, MaybeHeadPair
  <2> QED
    BY <2>1, <2>2
<1>3. CASE qh.path = "upload"
  <2>1. Dispatch(qh) = MethodNotAllowed /\ Dispatch(qg) = MethodNotAllowed
    BY <1>3 DEF Dispatch, TakenBy, Twins
  <2>2. HeadPair(mins, MethodNotAllowed, MethodNotAllowed)
    BY OwnPairs
  <2> QED
    BY <2>1, <2>2
<1>4. CASE qh.path \notin {"route", "upload"}
  <2>1. Dispatch(qh) = NotFound /\ Dispatch(qg) = NotFound
    BY <1>4 DEF Dispatch, TakenBy, Twins
  <2>2. HeadPair(mins, NotFound, NotFound)
    BY OwnPairs
  <2> QED
    BY <2>1, <2>2
<1> QED
  BY <1>2, <1>3, <1>4

(* ServeDir answers a HEAD as the GET.                                      *)
LEMMA FilePair ==
    ASSUME NEW mins, mins \subseteq Nat \ {0}, NEW qh \in RequestSet, NEW qg \in RequestSet,
           Twins(qh, qg)
    PROVE  HeadPair(mins, FileResponse(qh), FileResponse(qg))
<1> DEFINE described == [Blank EXCEPT !.type = qh.file.type, !.etag = "weak"]
           size == qh.file.size
           body == IF size <= WholeFile THEN Whole(size) ELSE Chunks(size)
           cached == [described EXCEPT !.status = 304]
           h == [described EXCEPT !.length = LengthOf(body), !.body = Whole(0)]
           g == [described EXCEPT !.length = LengthOf(body), !.body = body]
<1>1. qh.file.type \in Name /\ size \in Nat
  BY DEF RequestSet
<1>2. CASE qh.fresh
  <2>1. FileResponse(qh) = cached /\ FileResponse(qg) = cached
    BY <1>2 DEF FileResponse, Twins
  <2>2. /\ cached.length = None /\ cached.body = Whole(0) /\ cached.status = 304
    BY DEF Blank
  <2>3. cached \in ResponseSet
    BY <2>1, FileType
  <2> HIDE DEF cached
  <2>4. Measures(cached.length, cached) /\ BothLarge(mins, cached, cached)
    BY <2>2 DEF Measures, BothLarge, Large, Encodable, Whole
  <2>5. HeadPair(mins, cached, cached)
    BY <2>2, <2>3, <2>4, SamePair
  <2> QED
    BY <2>1, <2>5
<1>3. CASE ~qh.fresh
  <2>1. FileResponse(qh) = h
    BY <1>3 DEF FileResponse, Twins
  <2>2. FileResponse(qg) = g
    BY <1>3 DEF FileResponse, Twins
  <2>3. SameHeaders(h, g) /\ h.status = 200
    BY DEF SameHeaders, Blank
  <2>4. /\ h.length = LengthOf(body) /\ g.length = LengthOf(body) /\ g.body = body
    BY DEF Blank
  <2>5. /\ LengthOf(body).size = size /\ body.size = size
        /\ body.kind = IF size <= WholeFile THEN "full" ELSE "stream"
    BY DEF LengthOf, Whole, Chunks
  <2>6. LengthOf(body) # None
    <3>1. LengthOf(body) \in Length
      BY <1>1 DEF LengthOf, Length, Whole, Chunks, Name
    <3> QED
      BY <3>1, LengthAssumption
  <2> HIDE DEF h, g, body, size
  <2>7. SameFate(h, g)
    BY <2>3 DEF SameFate, SameHeaders
  <2>8. MeasuredStream(g) \/ Described(mins, h, g)
    <3>1. CASE size <= WholeFile
      <4>1. Measures(h.length, g) /\ Measures(g.length, g)
        BY <2>4 DEF Measures
      <4>2. BothLarge(mins, h, g)
        BY <2>4, <2>5, <2>6, <3>1 DEF BothLarge, Large, Encodable
      <4> QED
        BY <2>3, <4>1, <4>2 DEF Described
    <3>2. CASE ~(size <= WholeFile)
      BY <2>4, <2>5, <2>6, <3>2 DEF MeasuredStream
    <3> QED
      BY <3>1, <3>2
  <2> QED
    BY <2>1, <2>2, <2>7, <2>8 DEF HeadPair, Paired
<1> QED
  BY <1>2, <1>3

(* Cors decorates both alike.                                               *)
LEMMA DecoratePair ==
    ASSUME NEW mins, NEW c \in CorsSet, NEW origin,
           NEW h \in ResponseSet, NEW g \in ResponseSet,
           SameFate(h, g), Paired(mins, h, g)
    PROVE  HeadPair(mins, Decorate(c, origin, h), Decorate(c, origin, g))
<1> DEFINE h2 == Decorate(c, origin, h)
           g2 == Decorate(c, origin, g)
<1>1. SameFate(h2, g2)
  BY DecorateFields DEF SameFate
<1>2. g2.length = g.length /\ g2.body = g.body /\ h2.length = h.length /\ g2.coding = g.coding
      /\ h2.coding = h.coding /\ h2.info = h.info
  BY DecorateFields
<1>3. SameHeaders(h, g) => SameHeaders(h2, g2)
  BY DecorateFields DEF SameHeaders
<1> HIDE DEF h2, g2
<1>4. CASE MeasuredStream(g)
  <2>1. MeasuredStream(g2)
    BY <1>2, <1>4 DEF MeasuredStream
  <2> QED
    BY <1>1, <2>1 DEF HeadPair, Paired, h2, g2
<1>5. CASE Described(mins, h, g)
  <2>1. Described(mins, h2, g2)
    BY <1>2, <1>3, <1>5, DescribedAgain DEF Described
  <2> QED
    BY <1>1, <2>1 DEF HeadPair, Paired, h2, g2
<1>6. CASE Unmeasured(mins, h)
  <2>1. Unmeasured(mins, h2)
    BY <1>2, <1>6 DEF Unmeasured, UnmeasuredError
  <2> QED
    BY <1>1, <2>1 DEF HeadPair, Paired, h2, g2
<1> QED
  BY <1>4, <1>5, <1>6 DEF Paired

(* ErrorFormat makes the same document of both.                             *)
LEMMA ReformatPair ==
    ASSUME NEW mins, NEW qh \in RequestSet, NEW qg \in RequestSet, Twins(qh, qg),
           NEW h \in ResponseSet, NEW g \in ResponseSet,
           SameFate(h, g), Paired(mins, h, g)
    PROVE  HeadPair(mins, Reformat(qh, h), Reformat(qg, g))
<1> DEFINE made == [ResponseJson(g.status, Tiny) EXCEPT
                        !.notes = g.notes \intersect Carried, !.traced = g.traced]
<1>1. CASE ~g.info
  <2>1. Reformat(qh, h) = h /\ Reformat(qg, g) = g
    BY <1>1, ReformatFields DEF SameFate
  <2> QED
    BY <2>1 DEF HeadPair, Paired
<1>2. CASE g.info
  <2>1. h.info /\ h.status = g.status /\ h.notes = g.notes /\ h.traced = g.traced
    BY <1>2 DEF SameFate
  <2>2. Reformat(qh, h) = MaybeHead(TRUE, made)
    BY <2>1 DEF Reformat, MaybeHead, Twins
  <2>3. Reformat(qg, g) = made
    BY <1>2 DEF Reformat, MaybeHead, Twins
  <2>4. made \in ResponseSet
    BY <2>3, ReformatType
  <2>5. made.status # 0 /\ made.length = None
    <3>1. made.status = g.status /\ made.length = None
      BY DEF ResponseJson, Blank
    <3> QED
      BY <3>1 DEF SameFate
  <2> HIDE DEF made
  <2>6. HeadPair(mins, MaybeHead(TRUE, made), made)
    BY <2>4, <2>5, MaybeHeadPair DEF Measures
  <2> QED
    BY <2>2, <2>3, <2>6
<1> QED
  BY <1>1, <1>2

(* One field set in both.                                                   *)
LEMMA SetPair ==
    ASSUME NEW mins, NEW h \in ResponseSet, NEW g \in ResponseSet,
           SameFate(h, g), Paired(mins, h, g)
    PROVE  /\ \A x : HeadPair(mins, [h EXCEPT !.id = x], [g EXCEPT !.id = x])
           /\ \A x : HeadPair(mins, [h EXCEPT !.traced = x], [g EXCEPT !.traced = x])
<1>1. ASSUME NEW x
      PROVE  HeadPair(mins, [h EXCEPT !.id = x], [g EXCEPT !.id = x])
  <2> DEFINE h2 == [h EXCEPT !.id = x]
             g2 == [g EXCEPT !.id = x]
  <2>1. /\ h2.length = h.length /\ g2.length = g.length /\ g2.body = g.body
        /\ g2.coding = g.coding /\ SameFate(h2, g2) /\ h2.coding = h.coding /\ h2.info = h.info
    BY DEF ResponseSet, SameFate
  <2>2. SameHeaders(h, g) => SameHeaders(h2, g2)
    BY DEF ResponseSet, SameHeaders
  <2> HIDE DEF h2, g2
  <2>3. MeasuredStream(g) => MeasuredStream(g2)
    BY <2>1 DEF MeasuredStream
  <2>4. Described(mins, h, g) => Described(mins, h2, g2)
    BY <2>1, <2>2, DescribedAgain DEF Described
  <2>5. Unmeasured(mins, h) => Unmeasured(mins, h2)
    BY <2>1 DEF Unmeasured, UnmeasuredError
  <2> QED
    BY <2>1, <2>3, <2>4, <2>5 DEF HeadPair, Paired, h2, g2
<1>2. ASSUME NEW x
      PROVE  HeadPair(mins, [h EXCEPT !.traced = x], [g EXCEPT !.traced = x])
  <2> DEFINE h2 == [h EXCEPT !.traced = x]
             g2 == [g EXCEPT !.traced = x]
  <2>1. /\ h2.length = h.length /\ g2.length = g.length /\ g2.body = g.body
        /\ g2.coding = g.coding /\ SameFate(h2, g2) /\ h2.coding = h.coding /\ h2.info = h.info
    BY DEF ResponseSet, SameFate
  <2>2. SameHeaders(h, g) => SameHeaders(h2, g2)
    BY DEF ResponseSet, SameHeaders
  <2> HIDE DEF h2, g2
  <2>3. MeasuredStream(g) => MeasuredStream(g2)
    BY <2>1 DEF MeasuredStream
  <2>4. Described(mins, h, g) => Described(mins, h2, g2)
    BY <2>1, <2>2, DescribedAgain DEF Described
  <2>5. Unmeasured(mins, h) => Unmeasured(mins, h2)
    BY <2>1 DEF Unmeasured, UnmeasuredError
  <2> QED
    BY <2>1, <2>3, <2>4, <2>5 DEF HeadPair, Paired, h2, g2
<1> QED
  BY <1>1, <1>2

(* Every layer takes a pair of answers to a pair.                           *)
LEMMA AroundPair ==
    ASSUME NEW mins, mins \subseteq Nat \ {0}, NEW l \in LayerSet,
           l.kind = "compress" => l.min \in mins,
           NEW qh \in RequestSet, NEW qg \in RequestSet, Twins(qh, qg),
           NEW h \in ResponseSet, NEW g \in ResponseSet, HeadPair(mins, h, g)
    PROVE  HeadPair(mins, Around(l, qh, h), Around(l, qg, g))
<1>1. Answers(l, qh) <=> Answers(l, qg)
  BY DEF Answers, Twins, IsPreflight
<1>2. CASE Answers(l, qh)
  <2>1. Around(l, qh, h) = Own(l, qh) /\ Around(l, qg, g) = Own(l, qg)
    BY <1>1, <1>2 DEF Around
  <2>2. CASE l.kind = "bearer"
    <3>1. Own(l, qh) = Unauthorized(qh) /\ Own(l, qg) = Unauthorized(qh)
      BY <2>2 DEF Own, Unauthorized, Twins
    <3> QED
      BY <2>1, <3>1, OwnPairs
  <2>3. CASE l.kind = "rateLimit"
    <3>1. Own(l, qh) = TooManyRequests /\ Own(l, qg) = TooManyRequests
      BY <2>3 DEF Own
    <3>2. HeadPair(mins, TooManyRequests, TooManyRequests)
      BY OwnPairs
    <3> QED
      BY <2>1, <3>1, <3>2
  <2>4. CASE l.kind = "serveDir"
    <3>1. Own(l, qh) = FileResponse(qh) /\ Own(l, qg) = FileResponse(qg)
      BY <2>4 DEF Own
    <3> QED
      BY <2>1, <3>1, FilePair
  <2> QED
    BY <1>2, <2>2, <2>3, <2>4 DEF Answers, IsPreflight, Twins
<1>3. CASE ~Answers(l, qh) /\ h = Panicking
  <2>1. g = Panicking
    <3>1. ~SameFate(h, g)
      BY <1>3, OwnFields DEF SameFate
    <3> QED
      BY <3>1 DEF HeadPair, Paired
  <2>2. \/ Around(l, qh, h) = ApiError(500) /\ Around(l, qg, g) = ApiError(500)
        \/ Around(l, qh, h) = Panicking /\ Around(l, qg, g) = Panicking
    BY <1>1, <1>3, <2>1 DEF Around
  <2>3. HeadPair(mins, ApiError(500), ApiError(500)) /\ HeadPair(mins, Panicking, Panicking)
    BY OwnPairs DEF HeadPair, Paired
  <2> QED
    BY <2>2, <2>3
<1>4. CASE ~Answers(l, qh) /\ h # Panicking
  <2>1. SameFate(h, g) /\ Paired(mins, h, g)
    BY <1>4 DEF HeadPair, Paired
  <2>2. g # Panicking
    BY <2>1, OwnFields DEF SameFate
  <2>3. Around(l, qh, h) = After(l, qh, h) /\ Around(l, qg, g) = After(l, qg, g)
    BY <1>1, <1>4, <2>2 DEF Around
  <2>4. HeadPair(mins, After(l, qh, h), After(l, qg, g))
    <3>1. CASE l.kind = "cors"
      <4>1. /\ After(l, qh, h) = Decorate(l, qh.origin, h)
            /\ After(l, qg, g) = Decorate(l, qh.origin, g)
            /\ l \in CorsSet
        BY <3>1, LayerKinds DEF After, Twins
      <4> QED
        BY <2>1, <4>1, DecoratePair
    <3>2. CASE l.kind = "compress"
      <4>1. After(l, qh, h) = Compressed(l, qh, h) /\ After(l, qg, g) = Compressed(l, qg, g)
        BY <3>2 DEF After
      <4> QED
        BY <2>1, <3>2, <4>1, CompressedPair DEF Twins
    <3>3. CASE l.kind = "errorFormat"
      <4>1. After(l, qh, h) = Reformat(qh, h) /\ After(l, qg, g) = Reformat(qg, g)
        BY <3>3 DEF After
      <4> QED
        BY <2>1, <4>1, ReformatPair
    <3>4. CASE l.kind = "requestId"
      <4>1. \A q \in RequestSet : Forward(l, q).id = IF q.id \notin {"client", "generated"}
                                                     THEN "generated" ELSE q.id
        BY <3>4 DEF Forward, RequestSet
      <4>2. Forward(l, qh).id = Forward(l, qg).id
        BY <4>1 DEF Twins
      <4>3. /\ After(l, qh, h) = [h EXCEPT !.id = Forward(l, qh).id]
            /\ After(l, qg, g) = [g EXCEPT !.id = Forward(l, qh).id]
        BY <3>4, <4>2 DEF After
      <4> QED
        BY <2>1, <4>3, SetPair
    <3>5. CASE l.kind = "trace"
      <4>1. /\ After(l, qh, h) = [h EXCEPT !.traced = h.traced \union {h.status}]
            /\ After(l, qg, g) = [g EXCEPT !.traced = h.traced \union {h.status}]
        BY <2>1, <3>5 DEF After, SameFate
      <4> DEFINE x == h.traced \union {h.status}
      <4> HIDE DEF x
      <4>2. After(l, qh, h) = [h EXCEPT !.traced = x] /\ After(l, qg, g) = [g EXCEPT !.traced = x]
        BY <4>1 DEF x
      <4>3. HeadPair(mins, [h EXCEPT !.traced = x], [g EXCEPT !.traced = x])
        BY <2>1, SetPair
      <4> QED
        BY <4>2, <4>3
    <3>6. CASE l.kind \notin {"cors", "compress", "errorFormat", "requestId", "trace"}
      <4>1. After(l, qh, h) = h /\ After(l, qg, g) = g
        BY <3>6 DEF After
      <4> QED
        BY <4>1
    <3> QED
      BY <3>1, <3>2, <3>3, <3>4, <3>5, <3>6
  <2> QED
    BY <2>3, <2>4
<1> QED
  BY <1>2, <1>3, <1>4

(* The least sizes of the Compress layers of a stack.                       *)
Mins(st) == {st[i].min : i \in {i \in 1 .. Len(st) : st[i].kind = "compress"}}

(* So the answers of a stack are a pair.                                    *)
LEMMA RespondPair ==
    ASSUME NEW st, Stacked(st), NEW req \in Requests, req.method = "HEAD", Pooled(req)
    PROVE  /\ HeadPair(Mins(st), Respond(st, req), Respond(st, AsGet(req)))
           /\ Respond(st, req) \in ResponseSet /\ Respond(st, AsGet(req)) \in ResponseSet
<1> DEFINE get == [req EXCEPT !.method = "GET"]
<1>1. st \in Seq(LayerSet) /\ req \in RequestSet
  BY ResponsesAssumption DEF Stacked
<1>2. get \in RequestSet /\ get.id = req.id
  BY <1>1, TextsAssumption DEF RequestSet
<1>3. AsGet(req) = get
  BY DEF AsGet
<1>4. PICK reach, from : Along(st, req, reach, from) /\ Respond(st, req) = from[1]
  BY <1>1, RespondAlong
<1>5. PICK reach2, from2 : Along(st, get, reach2, from2) /\ Respond(st, get) = from2[1]
  BY <1>1, <1>2, RespondAlong
<1>6. /\ Len(st) \in Nat
      /\ \A i \in 1 .. Len(st) : st[i] \in LayerSet
      /\ \A i \in 1 .. Len(st) + 1 : /\ reach[i] \in RequestSet /\ WellBehaved(reach[i])
                                     /\ from[i] \in ResponseSet
  BY <1>1, <1>4, ReachWell
<1>7. ASSUME NEW i \in 1 .. Len(st) + 1
      PROVE  reach2[i] \in RequestSet /\ Twins(reach[i], reach2[i]) /\ from2[i] \in ResponseSet
  <2>1. reach[i] = [req EXCEPT !.id = reach[i].id]
    BY <1>1, <1>4, ReachSame
  <2>2. reach2[i] \in RequestSet /\ reach2[i] = [get EXCEPT !.id = reach2[i].id]
    <3> HIDE DEF get
    <3> QED
      BY <1>1, <1>2, <1>5, ReachSame
  <2>3. reach[i].id = reach2[i].id
    <3> HIDE DEF get
    <3> QED
      BY <1>1, <1>2, <1>4, <1>5, ReachAlike
  <2>4. \A x : Twins([req EXCEPT !.id = x], [get EXCEPT !.id = x])
    BY <1>1 DEF Twins, RequestSet, Pooled
  <2>5. Twins(reach[i], reach2[i])
    <3> DEFINE x == reach[i].id
    <3>1. reach[i] = [req EXCEPT !.id = x] /\ reach2[i] = [get EXCEPT !.id = x]
      BY <2>1, <2>2, <2>3
    <3> HIDE DEF x, get
    <3> QED
      BY <2>4, <3>1
  <2>6. from2[i] \in ResponseSet
    BY <1>5 DEF Along
  <2> QED
    BY <2>2, <2>5, <2>6
<1> HIDE DEF get
<1>a. /\ Mins(st) \subseteq Nat \ {0}
      /\ \A i \in 1 .. Len(st) : st[i].kind = "compress" => st[i].min \in Mins(st)
  BY <1>6, LayerKinds DEF Mins
<1> DEFINE A == {i \in 1 .. Len(st) + 1 : HeadPair(Mins(st), from[i], from2[i])}
<1>8. Len(st) + 1 \in A
  <2>1. Len(st) + 1 \in 1 .. Len(st) + 1
    BY <1>6
  <2>2. HeadPair(Mins(st), Dispatch(reach[Len(st) + 1]), Dispatch(reach2[Len(st) + 1]))
    BY <1>6, <1>7, <1>a, <2>1, DispatchPair
  <2>3. /\ from[Len(st) + 1] = Dispatch(reach[Len(st) + 1])
        /\ from2[Len(st) + 1] = Dispatch(reach2[Len(st) + 1])
    BY <1>4, <1>5 DEF Along
  <2> QED
    BY <2>1, <2>2, <2>3
<1>9. ASSUME NEW i \in 1 .. Len(st), i + 1 \in A
      PROVE  i \in A
  <2>1. /\ i \in 1 .. Len(st) + 1 /\ i + 1 \in 1 .. Len(st) + 1
        /\ from[i] = Around(st[i], reach[i], from[i + 1])
        /\ from2[i] = Around(st[i], reach2[i], from2[i + 1])
    BY <1>4, <1>5, <1>6 DEF Along
  <2>2. HeadPair(Mins(st), from[i + 1], from2[i + 1])
    BY <1>9
  <2>3. /\ reach[i] \in RequestSet /\ reach2[i] \in RequestSet /\ Twins(reach[i], reach2[i])
        /\ from[i + 1] \in ResponseSet /\ from2[i + 1] \in ResponseSet /\ st[i] \in LayerSet
    BY <1>6, <1>7, <2>1
  <2>4. HeadPair(Mins(st), from[i], from2[i])
    BY <1>a, <2>1, <2>2, <2>3, AroundPair
  <2> QED
    BY <2>1, <2>4
<1>10. 1 \in A
  <2> HIDE DEF A
  <2>1. \A i \in 1 .. Len(st) + 1 : i \in A
    BY <1>6, <1>8, <1>9, Downward
  <2> QED
    BY <1>6, <2>1
<1>11. 1 \in 1 .. Len(st) + 1
  BY <1>6
<1>12. from[1] \in ResponseSet /\ from2[1] \in ResponseSet
  BY <1>6, <1>7, <1>11
<1> QED
  BY <1>3, <1>4, <1>5, <1>10, <1>12

(* A HEAD has the headers of its GET through any layers, and no length but  *)
(* that of the body the GET sends: what Compress and ErrorFormat say of a   *)
(* body they do not see is what they do to one they see.  Left out are      *)
(* large files and, under a Compress that takes bodies as small as they     *)
(* are, the errors that layers answer.                                      *)
THEOREM HeadsAgree == Spec => []HeadAgrees
<1>1. StackInv => HeadAgrees
  <2> SUFFICES ASSUME StackInv, Answered, Request.method = "HEAD", Request.pool
               PROVE  LET get == Respond(stack, AsGet(Request))
                      IN \/ MeasuredStream(get)
                         \/ EncodesErrors /\ UnmeasuredError(Answer)
                         \/ Agrees(Answer, get)
    BY DEF HeadAgrees
  <2>1. PICK req \in Requests : exchange = [request |-> req, answer |-> Respond(stack, req)]
    BY DEF StackInv, Answered
  <2>2. Answer = Respond(stack, req) /\ Request = req
    BY <2>1 DEF Answer, Request
  <2> DEFINE h == Respond(stack, req)
             g == Respond(stack, AsGet(req))
  <2>3. HeadPair(Mins(stack), h, g) /\ h \in ResponseSet /\ g \in ResponseSet
    BY <2>2, RespondPair DEF StackInv, Pooled
  <2>4. h # Panicking
    BY <2>2 DEF Answered, Answer
  <2> HIDE DEF h, g
  <2>5. MeasuredStream(g) \/ Described(Mins(stack), h, g) \/ Unmeasured(Mins(stack), h)
    BY <2>3, <2>4 DEF HeadPair, Paired
  <2>6. Described(Mins(stack), h, g) => Agrees(h, g)
    BY <2>3, SameHeadersAgree DEF Described, Agrees
  <2>7. Unmeasured(Mins(stack), h) => EncodesErrors /\ UnmeasuredError(h)
    <3>1. DOMAIN stack = 1 .. Len(stack)
      BY LenProperties DEF StackInv, Stacked
    <3> QED
      BY <3>1 DEF Unmeasured, EncodesErrors, Mins, Position
  <2> QED
    BY <2>2, <2>5, <2>6, <2>7 DEF h, g
<1> QED
  BY <1>1, StackInvariance, PTL

-----------------------------------------------------------------------------
(* Variants.                                                                *)

(* Two GETs that differ in their origin and in the codings they accept.     *)
Siblings(q1, q2) ==
    /\ q1.method = "GET" /\ q2.method = "GET" /\ q2.path = q1.path
    /\ q2.token = q1.token /\ q2.id = q1.id /\ q2.fresh = q1.fresh
    /\ q2.handler = q1.handler /\ q2.file = q1.file /\ q2.limited = q1.limited
    /\ q2.upload = q1.upload /\ Pooled(q1) /\ Pooled(q2)

Alike(r, s) == /\ s.type = r.type /\ s.coding = r.coding /\ s.vary = r.vary
               /\ s.allowOrigin = r.allowOrigin /\ s.noTransform = r.noTransform
               /\ s.body = r.body /\ s.range = r.range

Variants(r, s, q1, q2) ==
    \/ r = Panicking /\ s = Panicking
    \/ SameFate(r, s) /\ (Selects(r.vary, q1, q2) => Alike(r, s))

(* A response is its own variant.                                           *)
LEMMA SameVariants ==
    ASSUME NEW r, r.status # 0 \/ r = Panicking, NEW q1, NEW q2
    PROVE  Variants(r, r, q1, q2)
  BY DEF Variants, SameFate, Alike

(* The end of the chain looks at neither the origin nor the codings.        *)
LEMMA DispatchVariants ==
    ASSUME NEW q1 \in RequestSet, NEW q2 \in RequestSet, Siblings(q1, q2), WellBehaved(q1)
    PROVE  Variants(Dispatch(q1), Dispatch(q2), q1, q2)
<1>1. Dispatch(q1) = Dispatch(q2)
  BY DEF Dispatch, Upload, TakenBy, Siblings
<1>2. Dispatch(q1).status # 0 \/ Dispatch(q1) = Panicking
  BY DispatchTells DEF Told
<1> QED
  BY <1>1, <1>2, SameVariants

(* Where Cors answers one origin differently from another, Vary says so.    *)
LEMMA DecorateVariants ==
    ASSUME NEW c \in CorsSet, NEW q1, NEW q2, NEW r \in ResponseSet, NEW s \in ResponseSet,
           SameFate(r, s), Selects(r.vary, q1, q2) => Alike(r, s)
    PROVE  Variants(Decorate(c, q1.origin, r), Decorate(c, q2.origin, s), q1, q2)
<1> DEFINE r2 == Decorate(c, q1.origin, r)
           s2 == Decorate(c, q2.origin, s)
<1>1. SameFate(r2, s2)
  BY DecorateFields DEF SameFate
<1>2. r2.vary = CorsVary(c, r.vary, {})
  BY DecorateFields
<1>3. ASSUME Selects(r2.vary, q1, q2)
      PROVE  Alike(r2, s2)
  <2>1. Selects(r.vary, q1, q2) /\ "*" \notin r.vary /\ (~c.any => "Origin" \in r2.vary)
    BY <1>2, <1>3 DEF Selects, CorsVary
  <2>2. Alike(r, s)
    BY <2>1
  <2>3. ~c.any => q1.origin = q2.origin
    BY <1>3, <2>1 DEF Selects
  <2>4. r2.allowOrigin = s2.allowOrigin
    <3>1. CASE c.any
      <4>1. r2.allowOrigin = "*"
        BY <3>1, DecorateFields DEF OriginValue
      <4>2. s2.allowOrigin = "*"
        BY <3>1, DecorateFields DEF OriginValue
      <4> QED
        BY <4>1, <4>2
    <3>2. CASE ~c.any
      <4> DEFINE o == q1.origin
      <4>1. q2.origin = o
        BY <2>3, <3>2
      <4> HIDE DEF o
      <4>2. /\ r.allowOrigin = s.allowOrigin
            /\ Decorate(c, o, r).allowOrigin = Decorate(c, o, s).allowOrigin
        BY <2>2, DecorateFields DEF Alike
      <4> QED
        BY <4>1, <4>2 DEF o
    <3> QED
      BY <3>1, <3>2
  <2>5. /\ r2.type = r.type /\ r2.coding = r.coding /\ r2.noTransform = r.noTransform
        /\ r2.body = r.body /\ r2.range = r.range
    BY DecorateFields
  <2>6. /\ s2.type = s.type /\ s2.coding = s.coding /\ s2.noTransform = s.noTransform
        /\ s2.body = s.body /\ s2.range = s.range /\ s2.vary = CorsVary(c, s.vary, {})
    BY DecorateFields
  <2> HIDE DEF r2, s2
  <2> QED
    BY <1>2, <2>2, <2>4, <2>5, <2>6 DEF Alike
<1> HIDE DEF r2, s2
<1>4. Variants(r2, s2, q1, q2)
  BY <1>1, <1>3 DEF Variants
<1> QED
  BY <1>4 DEF r2, s2

(* Compress makes the same of the same.                                     *)
LEMMA CodedAlike ==
    ASSUME NEW min, NEW q1, NEW q2, Pooled(q1), Pooled(q2), NEW coding,
           NEW r \in ResponseSet, NEW s \in ResponseSet, Alike(r, s)
    PROVE  Alike(Coded(min, q1, r, coding), Coded(min, q2, s, coding))
<1>1. Encodable(min, r) <=> Encodable(min, s)
  BY DEF Encodable, Alike
<1>2. CASE Encodable(min, r)
  <2>1. /\ Beside(r, Coded(min, q1, r, coding)) /\ Coded(min, q1, r, coding).vary = r.vary
        /\ Coded(min, q1, r, coding).coding = coding
        /\ Coded(min, q1, r, coding).body = [r.body EXCEPT !.coding = coding]
    BY <1>2, EncodeBodyFields
  <2>2. /\ Beside(s, Coded(min, q2, s, coding)) /\ Coded(min, q2, s, coding).vary = s.vary
        /\ Coded(min, q2, s, coding).coding = coding
        /\ Coded(min, q2, s, coding).body = [s.body EXCEPT !.coding = coding]
    BY <1>1, <1>2, EncodeBodyFields
  <2> QED
    BY <2>1, <2>2 DEF Alike, Beside
<1>3. CASE ~Encodable(min, r)
  <2>1. Coded(min, q1, r, coding) = r
    BY <1>3, NotEncodable
  <2>2. Coded(min, q2, s, coding) = s
    BY <1>1, <1>3, NotEncodable
  <2> QED
    BY <2>1, <2>2
<1> QED
  BY <1>2, <1>3

(* Encoding leaves Vary as it is.                                           *)
LEMMA CodedVary ==
    ASSUME NEW min, NEW req, Pooled(req), NEW r \in ResponseSet, NEW coding
    PROVE  Coded(min, req, r, coding).vary = r.vary
<1>1. CASE Encodable(min, r)
  <2>1. /\ Beside(r, Coded(min, req, r, coding)) /\ Coded(min, req, r, coding).vary = r.vary
        /\ Coded(min, req, r, coding).coding = coding
        /\ Coded(min, req, r, coding).body = [r.body EXCEPT !.coding = coding]
    BY <1>1, EncodeBodyFields
  <2> QED
    BY <2>1
<1>2. CASE ~Encodable(min, r)
  BY <1>2, NotEncodable
<1> QED
  BY <1>1, <1>2

(* Compress adds to Vary wherever the codings make a difference.            *)
LEMMA CompressedVary ==
    ASSUME NEW l, NEW req \in RequestSet, req.method = "GET", Pooled(req), NEW r \in ResponseSet
    PROVE  Compressed(l, req, r).vary = IF r.coding # None \/ ~Compressible(r.type)
                                     THEN r.vary ELSE CompressVary(r.vary)
<1> DEFINE coding == Negotiate(req.accepts)
<1>1. CASE r.coding # None \/ ~Compressible(r.type)
  BY <1>1, CompressedCases
<1>2. CASE ~(r.coding # None \/ ~Compressible(r.type))
  <2>1. Varied(r) \in ResponseSet /\ Varied(r).vary = CompressVary(r.vary)
    BY VariedFields
  <2>2. Compressed(l, req, r) \in {Varied(r), Coded(l.min, req, Varied(r), coding)}
    BY <1>2, CompressedCases
  <2> HIDE DEF coding
  <2>3. Coded(l.min, req, Varied(r), coding).vary = Varied(r).vary
    BY <2>1, CodedVary
  <2> QED
    BY <1>2, <2>1, <2>2, <2>3
<1> QED
  BY <1>1, <1>2

(* Where Compress answers one client differently from another, Vary says    *)
(* so.                                                                      *)
LEMMA CompressedVariants ==
    ASSUME NEW l, NEW q1 \in RequestSet, NEW q2 \in RequestSet, Siblings(q1, q2),
           NEW r \in ResponseSet, NEW s \in ResponseSet,
           SameFate(r, s), Selects(r.vary, q1, q2) => Alike(r, s)
    PROVE  Variants(Compressed(l, q1, r), Compressed(l, q2, s), q1, q2)
<1> DEFINE r2 == Compressed(l, q1, r)
           s2 == Compressed(l, q2, s)
           passes == r.coding # None \/ ~Compressible(r.type)
<1>1. SameFate(r2, s2)
  <2>1. Beside(r, r2) /\ Beside(s, s2)
    BY CompressedFields
  <2> HIDE DEF r2, s2
  <2> QED
    BY <2>1 DEF Beside, SameFate
<1>2. r2.vary = IF passes THEN r.vary ELSE CompressVary(r.vary)
  BY CompressedVary DEF Siblings
<1>3. ASSUME Selects(r2.vary, q1, q2)
      PROVE  Alike(r2, s2)
  <2>1. Selects(r.vary, q1, q2) /\ (~passes => q1.accepts = q2.accepts)
    <3> HIDE DEF passes, r2
    <3> QED
      BY <1>2, <1>3 DEF Selects, CompressVary
  <2>2. Alike(r, s)
    BY <2>1
  <2>3. passes <=> s.coding # None \/ ~Compressible(s.type)
    BY <2>2 DEF Alike
  <2>4. Untouchable(r) <=> Untouchable(s)
    BY <2>2 DEF Alike, SameFate, Untouchable
  <2>5. CASE passes
    <3>1. r2 = r
      BY <2>5, CompressedCases
    <3>2. s2 = s
      BY <2>3, <2>5, CompressedCases
    <3> QED
      BY <2>2, <3>1, <3>2
  <2>6. CASE ~passes
    <3> DEFINE coding == Negotiate(q1.accepts)
    <3>1. coding = Negotiate(q2.accepts)
      BY <2>1, <2>6
    <3>2. Alike(Varied(r), Varied(s)) /\ Varied(r) \in ResponseSet /\ Varied(s) \in ResponseSet
      BY <2>2, VariedFields DEF Alike, Beside
    <3>3. CASE coding = None \/ Untouchable(r)
      <4>1. r2 = Varied(r)
        BY <2>6, <3>3, CompressedCases
      <4>2. s2 = Varied(s)
        BY <2>3, <2>4, <2>6, <3>1, <3>3, CompressedCases
      <4> QED
        BY <3>2, <4>1, <4>2
    <3>4. CASE ~(coding = None \/ Untouchable(r))
      <4>1. r2 = Coded(l.min, q1, Varied(r), coding)
        BY <2>6, <3>4, CompressedCases DEF Siblings
      <4>2. s2 = Coded(l.min, q2, Varied(s), coding)
        BY <2>3, <2>4, <2>6, <3>1, <3>4, CompressedCases DEF Siblings
      <4>3. Pooled(q1) /\ Pooled(q2)
        BY DEF Siblings
      <4> HIDE DEF coding, r2, s2
      <4> QED
        BY <3>2, <4>1, <4>2, <4>3, CodedAlike
    <3> QED
      BY <3>3, <3>4
  <2> QED
    BY <2>5, <2>6
<1> HIDE DEF r2, s2
<1>4. Variants(r2, s2, q1, q2)
  BY <1>1, <1>3 DEF Variants
<1> QED
  BY <1>4 DEF r2, s2

(* ErrorFormat forgets Vary, and with it everything that varied.            *)
LEMMA ReformatVariants ==
    ASSUME NEW q1 \in RequestSet, NEW q2 \in RequestSet, Siblings(q1, q2),
           NEW r \in ResponseSet, NEW s \in ResponseSet,
           SameFate(r, s), Selects(r.vary, q1, q2) => Alike(r, s)
    PROVE  Variants(Reformat(q1, r), Reformat(q2, s), q1, q2)
<1>1. CASE ~r.info
  <2>1. Reformat(q1, r) = r /\ Reformat(q2, s) = s
    BY <1>1 DEF Reformat, SameFate
  <2> QED
    BY <2>1 DEF Variants
<1>2. CASE r.info
  <2>1. Reformat(q1, r) = Reformat(q2, s)
    BY <1>2 DEF Reformat, MaybeHead, Siblings, SameFate
  <2>2. Reformat(q1, r).status # 0
    <3>1. Reformat(q1, r).status = r.status
      BY ReformatFields
    <3> QED
      BY <3>1 DEF SameFate
  <2> QED
    BY <2>1, <2>2, SameVariants
<1> QED
  BY <1>1, <1>2

(* The id and the statuses Trace saw do not vary.                           *)
LEMMA SetVariants ==
    ASSUME NEW r \in ResponseSet, NEW s \in ResponseSet, NEW q1, NEW q2,
           SameFate(r, s), Selects(r.vary, q1, q2) => Alike(r, s), NEW x
    PROVE  /\ Variants([r EXCEPT !.id = x], [s EXCEPT !.id = x], q1, q2)
           /\ Variants([r EXCEPT !.traced = x], [s EXCEPT !.traced = x], q1, q2)
<1>1. /\ SameFate([r EXCEPT !.id = x], [s EXCEPT !.id = x])
      /\ [r EXCEPT !.id = x].vary = r.vary
      /\ Alike(r, s) => Alike([r EXCEPT !.id = x], [s EXCEPT !.id = x])
  BY DEF ResponseSet, SameFate, Alike
<1>2. /\ SameFate([r EXCEPT !.traced = x], [s EXCEPT !.traced = x])
      /\ [r EXCEPT !.traced = x].vary = r.vary
      /\ Alike(r, s) => Alike([r EXCEPT !.traced = x], [s EXCEPT !.traced = x])
  BY DEF ResponseSet, SameFate, Alike
<1> QED
  BY <1>1, <1>2 DEF Variants

(* Every layer takes variants to variants.                                  *)
LEMMA AroundVariants ==
    ASSUME NEW l \in LayerSet, NEW q1 \in RequestSet, NEW q2 \in RequestSet, Siblings(q1, q2),
           NEW r \in ResponseSet, NEW s \in ResponseSet, Variants(r, s, q1, q2)
    PROVE  Variants(Around(l, q1, r), Around(l, q2, s), q1, q2)
<1>1. Answers(l, q1) <=> Answers(l, q2)
  BY DEF Answers, Siblings, IsPreflight
<1>2. CASE Answers(l, q1)
  <2>1. Around(l, q1, r) = Own(l, q1) /\ Around(l, q2, s) = Own(l, q2)
    BY <1>1, <1>2 DEF Around
  <2>2. CASE l.kind = "bearer"
    <3>1. Own(l, q1) = Unauthorized(q1) /\ Own(l, q2) = Unauthorized(q1)
      BY <2>2 DEF Own, Unauthorized, Siblings
    <3> QED
      BY <2>1, <3>1, UnauthorizedFields, SameVariants
  <2>3. CASE l.kind = "rateLimit"
    <3>1. Own(l, q1) = TooManyRequests /\ Own(l, q2) = TooManyRequests
      BY <2>3 DEF Own
    <3> QED
      BY <2>1, <3>1, OwnFields, SameVariants
  <2>4. CASE l.kind = "serveDir"
    <3>1. Own(l, q1) = FileResponse(q1) /\ Own(l, q2) = FileResponse(q1)
      BY <2>4 DEF Own, FileResponse, Siblings
    <3>2. FileResponse(q1).status # 0
      BY FileFields
    <3> QED
      BY <2>1, <3>1, <3>2, SameVariants
  <2> QED
    BY <1>2, <2>2, <2>3, <2>4 DEF Answers, IsPreflight, Siblings
<1>3. CASE ~Answers(l, q1) /\ r = Panicking
  <2>1. s = Panicking
    <3>1. ~SameFate(r, s)
      BY <1>3, OwnFields DEF SameFate
    <3> QED
      BY <3>1 DEF Variants
  <2>2. \/ Around(l, q1, r) = ApiError(500) /\ Around(l, q2, s) = ApiError(500)
        \/ Around(l, q1, r) = Panicking /\ Around(l, q2, s) = Panicking
    BY <1>1, <1>3, <2>1 DEF Around
  <2>3. ApiError(500).status # 0
    BY OwnFields
  <2> QED
    BY <2>2, <2>3, SameVariants
<1>4. CASE ~Answers(l, q1) /\ r # Panicking
  <2>1. SameFate(r, s) /\ (Selects(r.vary, q1, q2) => Alike(r, s))
    BY <1>4 DEF Variants
  <2>2. s # Panicking
    BY <2>1, OwnFields DEF SameFate
  <2>3. Around(l, q1, r) = After(l, q1, r) /\ Around(l, q2, s) = After(l, q2, s)
    BY <1>1, <1>4, <2>2 DEF Around
  <2>4. Variants(After(l, q1, r), After(l, q2, s), q1, q2)
    <3>1. CASE l.kind = "cors"
      <4>1. /\ After(l, q1, r) = Decorate(l, q1.origin, r)
            /\ After(l, q2, s) = Decorate(l, q2.origin, s)
            /\ l \in CorsSet
        BY <3>1, LayerKinds DEF After
      <4> QED
        BY <2>1, <4>1, DecorateVariants
    <3>2. CASE l.kind = "compress"
      <4>1. After(l, q1, r) = Compressed(l, q1, r) /\ After(l, q2, s) = Compressed(l, q2, s)
        BY <3>2 DEF After
      <4> QED
        BY <2>1, <4>1, CompressedVariants
    <3>3. CASE l.kind = "errorFormat"
      <4>1. After(l, q1, r) = Reformat(q1, r) /\ After(l, q2, s) = Reformat(q2, s)
        BY <3>3 DEF After
      <4> QED
        BY <2>1, <4>1, ReformatVariants
    <3>4. CASE l.kind = "requestId"
      <4>1. \A q \in RequestSet : Forward(l, q).id = IF q.id \notin {"client", "generated"}
                                                     THEN "generated" ELSE q.id
        BY <3>4 DEF Forward, RequestSet
      <4> DEFINE x == Forward(l, q1).id
      <4>2. Forward(l, q2).id = x
        BY <4>1 DEF Siblings
      <4>3. After(l, q1, r) = [r EXCEPT !.id = x] /\ After(l, q2, s) = [s EXCEPT !.id = x]
        BY <3>4, <4>2 DEF After
      <4> HIDE DEF x
      <4>4. Variants([r EXCEPT !.id = x], [s EXCEPT !.id = x], q1, q2)
        BY <2>1, SetVariants
      <4> QED
        BY <4>3, <4>4
    <3>5. CASE l.kind = "trace"
      <4> DEFINE x == r.traced \union {r.status}
      <4>1. After(l, q1, r) = [r EXCEPT !.traced = x] /\ After(l, q2, s) = [s EXCEPT !.traced = x]
        BY <2>1, <3>5 DEF After, SameFate
      <4> HIDE DEF x
      <4>2. Variants([r EXCEPT !.traced = x], [s EXCEPT !.traced = x], q1, q2)
        BY <2>1, SetVariants
      <4> QED
        BY <4>1, <4>2
    <3>6. CASE l.kind \notin {"cors", "compress", "errorFormat", "requestId", "trace"}
      <4>1. After(l, q1, r) = r /\ After(l, q2, s) = s
        BY <3>6 DEF After
      <4> QED
        BY <4>1
    <3> QED
      BY <3>1, <3>2, <3>3, <3>4, <3>5, <3>6
  <2> QED
    BY <2>3, <2>4
<1> QED
  BY <1>2, <1>3, <1>4

(* So the answers of a stack to two such requests are variants.             *)
LEMMA RespondVariants ==
    ASSUME NEW st, Stacked(st), NEW req \in Requests, req.method = "GET", Pooled(req),
           NEW q \in Others(req)
    PROVE  Variants(Respond(st, req), Respond(st, q), req, q)
<1>1. st \in Seq(LayerSet) /\ req \in RequestSet
  BY ResponsesAssumption DEF Stacked
<1>2. PICK other \in Requests : q = [req EXCEPT !.origin = other.origin, !.accepts = other.accepts]
  <2>1. PICK s \in Selectors : q = [req EXCEPT !.origin = s.origin, !.accepts = s.accepts]
    BY DEF Others
  <2>2. PICK other \in Requests : s = [origin |-> other.origin, accepts |-> other.accepts]
    BY <2>1 DEF Selectors
  <2> QED
    BY <2>1, <2>2
<1>3. other \in RequestSet
  BY ResponsesAssumption
<1>4. q \in RequestSet /\ q.id = req.id
  BY <1>1, <1>2, <1>3 DEF RequestSet
<1>5. PICK reach, from : Along(st, req, reach, from) /\ Respond(st, req) = from[1]
  BY <1>1, RespondAlong
<1>6. PICK reach2, from2 : Along(st, q, reach2, from2) /\ Respond(st, q) = from2[1]
  BY <1>1, <1>4, RespondAlong
<1>7. /\ Len(st) \in Nat
      /\ \A i \in 1 .. Len(st) : st[i] \in LayerSet
      /\ \A i \in 1 .. Len(st) + 1 : /\ reach[i] \in RequestSet /\ WellBehaved(reach[i])
                                     /\ from[i] \in ResponseSet
  BY <1>1, <1>5, ReachWell
<1>8. Siblings(req, q)
  BY <1>1, <1>2 DEF Siblings, RequestSet, Pooled
<1>9. ASSUME NEW i \in 1 .. Len(st) + 1
      PROVE  /\ reach2[i] \in RequestSet /\ from2[i] \in ResponseSet
             /\ Siblings(reach[i], reach2[i])
             /\ reach[i].origin = req.origin /\ reach[i].accepts = req.accepts
             /\ reach2[i].origin = q.origin /\ reach2[i].accepts = q.accepts
  <2>1. reach[i] = [req EXCEPT !.id = reach[i].id]
    BY <1>1, <1>5, ReachSame
  <2>2. reach2[i] \in RequestSet /\ reach2[i] = [q EXCEPT !.id = reach2[i].id]
    BY <1>1, <1>4, <1>6, ReachSame
  <2>3. reach[i].id = reach2[i].id
    BY <1>1, <1>4, <1>5, <1>6, ReachAlike
  <2> DEFINE x == reach[i].id
  <2>4. reach[i] = [req EXCEPT !.id = x] /\ reach2[i] = [q EXCEPT !.id = x]
    BY <2>1, <2>2, <2>3
  <2> HIDE DEF x
  <2>5. Siblings([req EXCEPT !.id = x], [q EXCEPT !.id = x])
    BY <1>1, <1>4, <1>8 DEF Siblings, RequestSet, Pooled
  <2>6. /\ [req EXCEPT !.id = x].origin = req.origin /\ [req EXCEPT !.id = x].accepts = req.accepts
        /\ [q EXCEPT !.id = x].origin = q.origin /\ [q EXCEPT !.id = x].accepts = q.accepts
    BY <1>1, <1>4 DEF RequestSet
  <2>7. from2[i] \in ResponseSet
    BY <1>6 DEF Along
  <2> QED
    BY <2>2, <2>4, <2>5, <2>6, <2>7
<1>10. ASSUME NEW i \in 1 .. Len(st) + 1, NEW r, NEW s
       PROVE  Variants(r, s, reach[i], reach2[i]) <=> Variants(r, s, req, q)
  BY <1>9 DEF Variants, Selects
<1> DEFINE A == {i \in 1 .. Len(st) + 1 : Variants(from[i], from2[i], req, q)}
<1>11. Len(st) + 1 \in A
  <2> DEFINE n == Len(st) + 1
  <2>1. n \in 1 .. Len(st) + 1
    BY <1>7
  <2>2. from[n] = Dispatch(reach[n]) /\ from2[n] = Dispatch(reach2[n])
    BY <1>5, <1>6 DEF Along
  <2>3. Variants(from[n], from2[n], reach[n], reach2[n])
    BY <1>7, <1>9, <2>1, <2>2, DispatchVariants
  <2> QED
    BY <1>10, <2>1, <2>3
<1>12. ASSUME NEW i \in 1 .. Len(st), i + 1 \in A
       PROVE  i \in A
  <2>1. /\ i \in 1 .. Len(st) + 1 /\ i + 1 \in 1 .. Len(st) + 1
        /\ from[i] = Around(st[i], reach[i], from[i + 1])
        /\ from2[i] = Around(st[i], reach2[i], from2[i + 1])
    BY <1>5, <1>6, <1>7 DEF Along
  <2>2. Variants(from[i + 1], from2[i + 1], reach[i], reach2[i])
    BY <1>10, <1>12, <2>1
  <2>3. /\ reach[i] \in RequestSet /\ reach2[i] \in RequestSet /\ Siblings(reach[i], reach2[i])
        /\ from[i + 1] \in ResponseSet /\ from2[i + 1] \in ResponseSet /\ st[i] \in LayerSet
    BY <1>7, <1>9, <2>1
  <2>4. Variants(from[i], from2[i], reach[i], reach2[i])
    BY <2>1, <2>2, <2>3, AroundVariants
  <2> QED
    BY <1>10, <2>1, <2>4
<1>13. 1 \in A
  <2> HIDE DEF A
  <2>1. \A i \in 1 .. Len(st) + 1 : i \in A
    BY <1>7, <1>11, <1>12, Downward
  <2> QED
    BY <1>7, <2>1
<1> QED
  BY <1>5, <1>6, <1>13

(* A cache that goes by Vary gives every client the coding it accepts and   *)
(* every page the leave it has: whatever a layer makes depend on the origin *)
(* or on the codings, it adds to Vary, and the layers outside never take    *)
(* from it.                                                                 *)
THEOREM CachesServeRightVariant == Spec => []RightVariant
<1>1. StackInv => RightVariant
  <2> SUFFICES ASSUME StackInv, Answered, Request.method = "GET", Request.pool,
                      NEW q \in Others(Request), Selects(Answer.vary, Request, q)
               PROVE  LET r == Respond(stack, q)
                      IN r.coding = Answer.coding /\ r.allowOrigin = Answer.allowOrigin
    BY DEF RightVariant
  <2>1. PICK req \in Requests : exchange = [request |-> req, answer |-> Respond(stack, req)]
    BY DEF StackInv, Answered
  <2>2. Answer = Respond(stack, req) /\ Request = req
    BY <2>1 DEF Answer, Request
  <2>3. Variants(Respond(stack, req), Respond(stack, q), req, q)
    BY <2>2, RespondVariants DEF StackInv, Pooled
  <2>4. Respond(stack, req) # Panicking
    BY <2>2 DEF Answered, Answer
  <2> QED
    BY <2>2, <2>3, <2>4 DEF Variants, Alike
<1> QED
  BY <1>1, StackInvariance, PTL
=============================================================================
