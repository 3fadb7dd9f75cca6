------------------------------- MODULE MCApp --------------------------------
(* A small instance of App for TLC.                                         *)
EXTENDS App, TLC

(* "%61" is an encoded a, "%ff" no UTF-8 text, "%zz" no encoding at all.    *)
PlainTexts == {"a", "b", "x"}
EncodedTexts == {"%61", "%ff", "%zz"}
MalformedTexts == {"%zz"}
Decoding == ("%61" :> "a") @@ ("%ff" :> None)

(* "/a/b", "//a/b" and "a/b".                                               *)
P(segments) == Path(segments, [i \in DOMAIN segments |-> 1])
PP(segments) == Path(segments, [i \in DOMAIN segments |-> IF i = 1 THEN 2 ELSE 1])
Relative(segments) == Path(segments, [i \in DOMAIN segments |-> IF i = 1 THEN 0 ELSE 1])

LayerTemplates == {P(<<"a">>), P(<<Capture>>)}
LayerPrefixes == {<<"a">>, <<Capture>>}
LayerPaths == {P(<<"%61">>), P(<<"%ff">>), P(<<"%61", "x">>), P(<<"x", "a">>),
               P(<<"x", "%61", "a">>)}

TrieTemplates == {P(<<"a", "b">>), P(<<"a", Capture>>), P(<<Capture, "b">>), P(<<Capture, Capture>>),
                  P(<<Capture>>), P(<<"a", "b", Capture>>), P(<<Capture, Capture, Capture>>), PP(<<"a", "b">>)}
TriePaths == {P(s) : s \in UNION {[1 .. n -> {"a", "b", "x", "%zz"}] : n \in 0 .. 3}}
FewPaths == {P(<<"a", "b">>), P(<<"a", "x", "b">>), PP(<<"a", "b">>)}

DocTemplates == {P(<<"a">>), P(<<"b", Capture>>)}
GeneratedAt == {P(<<"a">>), P(<<"x">>), Relative(<<"x">>)}

GroupTemplates == {P(<<"b">>), P(<<Capture, Capture>>), Path(<<"x", "b">>, <<0, 2>>)}

AllTemplates == TrieTemplates \union DocTemplates \union GroupTemplates

-----------------------------------------------------------------------------
(* Without layers, three parts of an application are explored side by side  *)
(* and not multiplied: three routes anywhere in the trie with no document,  *)
(* two routes in groups or not, and the document, the page and the settings *)
(* over two routes.                                                         *)

Registered == {i \in DOMAIN metadata : ~metadata[i].builtin}

Undocumented ==
    /\ openapiConfig = None /\ swaggerConfig = None
    /\ \A i \in Registered : metadata[i].tag = None /\ metadata[i].security = None

RoutesAlone ==
    /\ Undocumented
    /\ groups = <<>>
    /\ \A i \in Registered : metadata[i].template \in TrieTemplates

RoutesInGroups == Undocumented /\ Cardinality(Registered) <= 2

DocumentOfTwo ==
    /\ Cardinality(Registered) <= 2
    /\ request = None
    /\ groups = <<>>
    /\ \A i \in Registered : /\ metadata[i].method = "GET"
                             /\ metadata[i].template \in DocTemplates

Explored == RoutesAlone \/ RoutesInGroups \/ DocumentOfTwo
=============================================================================
