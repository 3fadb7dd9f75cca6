----------------------------- MODULE AppProofs ------------------------------
(***************************************************************************)
(* Proofs about App: the trie finds the best pattern, every route can be   *)
(* reached, the layers of routes and groups run, the cached document is    *)
(* fresh.                                                                  *)
(*                                                                         *)
(* find_node is recursive: FindRecurs shows, with the fixed point of       *)
(* Induction, that its definition has a value at every node, and FindBest  *)
(* goes up from the deepest nodes.  BuiltInv relates the tables to the     *)
(* routes, the routes to their groups and the layers to both; RequestInv   *)
(* follows a request through the layers.                                   *)
(***************************************************************************)
EXTENDS App, SequenceTheorems, FiniteSetTheorems, Induction, TLAPS

-----------------------------------------------------------------------------
(* Sequences.                                                               *)

(* Appending anything.                                                      *)
LEMMA AppendAny ==
    ASSUME NEW S, NEW s \in Seq(S), NEW e
    PROVE  /\ Len(Append(s, e)) = Len(s) + 1
           /\ \A i \in 1 .. Len(s) : Append(s, e)[i] = s[i]
           /\ Append(s, e)[Len(s) + 1] = e
<1> DEFINE U == S \union {e}
<1>1. s \in Seq(U) /\ e \in U
  BY SeqMonotonic
<1> HIDE DEF U
<1> QED
  BY <1>1, AppendProperties

(* The beginning of a sequence.                                             *)
LEMMA Beginning ==
    ASSUME NEW S, NEW s \in Seq(S), NEW k \in 0 .. Len(s)
    PROVE  /\ SubSeq(s, 1, k) \in Seq(S)
           /\ Len(SubSeq(s, 1, k)) = k
           /\ \A i \in 1 .. k : SubSeq(s, 1, k)[i] = s[i]
<1>1. Len(s) \in Nat
  BY LenProperties
<1>2. \A i \in 1 .. k : s[i] \in S
  BY <1>1, ElementOfSeq
<1>3. /\ SubSeq(s, 1, k) \in Seq(S)
      /\ Len(SubSeq(s, 1, k)) = IF 1 <= k THEN k - 1 + 1 ELSE 0
      /\ \A i \in 1 .. k - 1 + 1 : SubSeq(s, 1, k)[i] = s[1 + i - 1]
  BY <1>1, <1>2, SubSeqProperties
<1>4. k - 1 + 1 = k /\ \A i \in 1 .. k : 1 + i - 1 = i
  BY <1>1
<1>5. Len(SubSeq(s, 1, k)) = k
  BY <1>1, <1>3
<1> QED
  BY <1>3, <1>4, <1>5

(* s begins with t.                                                         *)
Begins(s, t) == Len(t) <= Len(s) /\ \A i \in 1 .. Len(t) : s[i] = t[i]

(* What begins with t and has x next begins with t and x, which is the      *)
(* sequence's beginning of that length.                                     *)
LEMMA BeginsNext ==
    ASSUME NEW S, NEW s \in Seq(S), NEW t \in Seq(S), Begins(s, t), Len(t) < Len(s)
    PROVE  /\ Append(t, s[Len(t) + 1]) = SubSeq(s, 1, Len(t) + 1)
           /\ Begins(s, Append(t, s[Len(t) + 1]))
<1> DEFINE k == Len(t) + 1
           a == Append(t, s[k])
           b == SubSeq(s, 1, k)
<1>1. Len(s) \in Nat /\ Len(t) \in Nat
  BY LenProperties
<1>2. k \in 0 .. Len(s) /\ k \in 1 .. Len(s)
  BY <1>1
<1>3. s[k] \in S
  BY <1>2, ElementOfSeq
<1>4. /\ a \in Seq(S) /\ Len(a) = k
      /\ \A i \in 1 .. Len(t) : a[i] = t[i]
      /\ a[k] = s[k]
  BY <1>3, AppendProperties
<1>5. b \in Seq(S) /\ Len(b) = k /\ \A i \in 1 .. k : b[i] = s[i]
  BY <1>2, Beginning
<1>6. \A i \in 1 .. k : a[i] = s[i]
  <2>1. \A i \in 1 .. k : i \in 1 .. Len(t) \/ i = k
    BY <1>1
  <2>2. \A i \in 1 .. Len(t) : s[i] = t[i]
    BY DEF Begins
  <2> HIDE DEF a, k
  <2> QED
    BY <1>4, <2>1, <2>2
<1>7. a = b
  <2> HIDE DEF a, b, k
  <2> QED
    BY <1>4, <1>5, <1>6, SeqEqual
<1>8. Begins(s, a)
  <2> HIDE DEF a, k
  <2> QED
    BY <1>1, <1>2, <1>4, <1>6 DEF Begins
<1> QED
  BY <1>7, <1>8

-----------------------------------------------------------------------------
(* The trie.                                                                *)

(* A set of nodes with the nodes on the way to them.                        *)
Trie(trie) ==
    /\ <<>> \in DOMAIN trie
    /\ DOMAIN trie \subseteq Patterns
    /\ \A p \in DOMAIN trie : \A k \in 0 .. Len(p) : SubSeq(p, 1, k) \in DOMAIN trie
    /\ \E depth \in Nat : \A p \in DOMAIN trie : Len(p) <= depth
    /\ \A p \in DOMAIN trie :
           trie[p] # NoRoutes => DOMAIN trie[p] # {} /\ Captures(p) <= MaxCaptures

(* find_node at a node, over what it returns further down.                  *)
FindAt(trie, parts, find, node) ==
    LET part == parts[Len(node) + 1]
        literal == IF Append(node, part) \in DOMAIN trie
                   THEN find[Append(node, part)] ELSE None
        capture == IF /\ Captures(node) < MaxCaptures
                      /\ part \notin Malformed
                      /\ Append(node, Capture) \in DOMAIN trie
                   THEN find[Append(node, Capture)] ELSE None
    IN IF Len(node) = Len(parts)
       THEN IF trie[node] = NoRoutes THEN None ELSE node
       ELSE IF literal # None THEN literal ELSE capture

(* Find is find_node from the root, which goes down, so it is well defined. *)
LEMMA FindRecurs ==
    ASSUME NEW trie, Trie(trie), NEW parts
    PROVE  \E find : /\ Find(trie, parts) = find[<<>>]
                     /\ \A node \in DOMAIN trie : find[node] = FindAt(trie, parts, find, node)
<1> DEFINE S == DOMAIN trie
           T == S \union {None}
           e(f) == [node \in S |-> FindAt(trie, parts, f, node)]
<1>1. PICK depth \in Nat : \A p \in S : Len(p) <= depth
  BY DEF Trie
<1>2. \A p \in S : Len(p) \in 0 .. depth
  <2>1. \A p \in S : p \in Seq(Segment)
    BY DEF Trie, Patterns
  <2>2. \A p \in S : Len(p) \in Nat
    BY <2>1, LenProperties
  <2> QED
    BY <1>1, <2>2
<1>3. PICK rank \in [S -> 0 .. depth] : \A p \in S : rank[p] = depth - Len(p)
  <2> DEFINE r == [p \in S |-> depth - Len(p)]
  <2>1. \A p \in S : depth - Len(p) \in 0 .. depth
    BY <1>2
  <2>2. r \in [S -> 0 .. depth] /\ \A p \in S : r[p] = depth - Len(p)
    BY <2>1
  <2> HIDE DEF r, S
  <2> QED
    BY <2>2
<1>4. \A f \in [S -> T] : e(f) \in [S -> T]
  <2>1. ASSUME NEW f \in [S -> T], NEW node \in S
        PROVE  FindAt(trie, parts, f, node) \in T
    BY DEF FindAt
  <2> HIDE DEF S, T
  <2> QED
    BY <2>1
<1>5. PICK step \in [[S -> T] -> [S -> T]] : \A f \in [S -> T] : step[f] = e(f)
  <2> DEFINE st == [f \in [S -> T] |-> e(f)]
  <2> HIDE DEF S, T, e
  <2>1. st \in [[S -> T] -> [S -> T]] /\ \A f \in [S -> T] : st[f] = e(f)
    BY <1>4
  <2> HIDE DEF st
  <2> QED
    BY <2>1
<1>6. PICK first \in [S -> T] : TRUE
  <2>1. [p \in S |-> None] \in [S -> T]
    OBVIOUS
  <2> HIDE DEF S, T
  <2> QED
    BY <2>1
<1>7. ASSUME NEW x \in S, NEW f \in [S -> T], NEW g \in [S -> T],
             \A y \in S : rank[y] < rank[x] => f[y] = g[y]
      PROVE  step[f][x] = step[g][x]
  <2>1. \A a : Append(x, a) \in S => f[Append(x, a)] = g[Append(x, a)]
    <3> SUFFICES ASSUME NEW a, Append(x, a) \in S
                 PROVE  f[Append(x, a)] = g[Append(x, a)]
      OBVIOUS
    <3>1. Len(Append(x, a)) = Len(x) + 1
      <4>1. x \in Seq(Segment)
        BY DEF Trie, Patterns
      <4> QED
        BY <4>1, AppendAny
    <3>2. rank[Append(x, a)] < rank[x]
      <4>1. /\ rank[Append(x, a)] = depth - Len(Append(x, a))
            /\ rank[x] = depth - Len(x)
            /\ Len(x) \in Nat
        <5>1. x \in S /\ Append(x, a) \in S
          OBVIOUS
        <5> HIDE DEF S, T, e
        <5>2. rank[x] = depth - Len(x)
          BY <1>3, <5>1
        <5>3. rank[Append(x, a)] = depth - Len(Append(x, a))
          BY <1>3, <5>1
        <5>4. Len(x) \in 0 .. depth
          BY <1>2, <5>1
        <5>5. Len(x) \in Nat
          BY <5>4
        <5> QED
          BY <5>2, <5>3, <5>5
      <4> QED
        BY <3>1, <4>1
    <3> QED
      BY <1>7, <3>2
  <2>2. FindAt(trie, parts, f, x) = FindAt(trie, parts, g, x)
    BY <2>1 DEF FindAt
  <2>3. step[f][x] = FindAt(trie, parts, f, x) /\ step[g][x] = FindAt(trie, parts, g, x)
    <3> HIDE DEF S, T
    <3> QED
      BY <1>5
  <2> QED
    BY <2>2, <2>3
<1>8. PICK f0 \in [S -> T] : f0 = step[f0]
  <2>1. \A x \in S : \A f, g \in [S -> T] :
            (\A y \in S : rank[y] < rank[x] => f[y] = g[y]) => step[f][x] = step[g][x]
    <3> HIDE DEF S, T, e
    <3> QED
      BY <1>7
  <2> HIDE DEF S, T, e
  <2>2. Recursion(S, T, depth, rank, step)
    BY <1>1, <1>3, <1>5, <2>1 DEF Recursion
  <2> QED
    BY <1>6, <2>2, FixedPoint
<1> DEFINE find == CHOOSE f : f = e(f)
<1>9. find = e(find)
  <2>1. \E f : f = e(f)
    <3> HIDE DEF S, T, e
    <3> QED
      BY <1>5, <1>8
  <2> HIDE DEF e
  <2> QED
    BY <2>1
<1>10. Find(trie, parts) = find[<<>>]
  BY DEF Find, FindAt
<1> HIDE DEF find
<1>11. \A node \in S : find[node] = FindAt(trie, parts, find, node)
  BY <1>9
<1> QED
  BY <1>10, <1>11

(* A pattern with a capture after the end of another, which it begins with, *)
(* has more captures.                                                       *)
LEMMA CapturesMore ==
    ASSUME NEW p \in Patterns, NEW t \in Patterns, Begins(p, t), Len(t) < Len(p),
           p[Len(t) + 1] = Capture
    PROVE  Captures(t) < Captures(p)
<1> DEFINE k == Len(t) + 1
           X == {i \in DOMAIN t : t[i] = Capture}
           Y == {i \in DOMAIN p : p[i] = Capture}
<1>1. /\ Len(p) \in Nat /\ Len(t) \in Nat
      /\ DOMAIN p = 1 .. Len(p) /\ DOMAIN t = 1 .. Len(t)
  BY LenProperties DEF Patterns
<1>2. IsFiniteSet(1 .. Len(p)) /\ IsFiniteSet(1 .. Len(t))
  BY <1>1, FS_Interval
<1>3. X \subseteq 1 .. Len(t) /\ Y \subseteq 1 .. Len(p)
  BY <1>1
<1>4. IsFiniteSet(X) /\ IsFiniteSet(Y)
  <2> HIDE DEF X, Y
  <2> QED
    BY <1>2, <1>3, FS_Subset
<1>5. k \notin X /\ X \union {k} \subseteq Y
  BY <1>1 DEF Begins
<1> HIDE DEF X, Y, k
<1>6. IsFiniteSet(X \union {k}) /\ Cardinality(X \union {k}) = Cardinality(X) + 1
  BY <1>4, <1>5, FS_AddElement
<1>7. Cardinality(X \union {k}) <= Cardinality(Y)
  BY <1>4, <1>5, FS_Subset
<1>8. Cardinality(X) \in Nat /\ Cardinality(Y) \in Nat
  BY <1>4, FS_CardinalityType
<1>9. Cardinality(X) < Cardinality(Y)
  BY <1>6, <1>7, <1>8
<1> QED
  BY <1>9 DEF Captures, X, Y

(* The number of captures is a number.                                      *)
LEMMA CapturesNat ==
    ASSUME NEW p \in Patterns
    PROVE  Captures(p) \in Nat
<1>1. DOMAIN p = 1 .. Len(p) /\ Len(p) \in Nat
  BY LenProperties DEF Patterns
<1> DEFINE X == {i \in DOMAIN p : p[i] = Capture}
<1>2. X \subseteq 1 .. Len(p)
  BY <1>1
<1>3. IsFiniteSet(1 .. Len(p))
  BY <1>1, FS_Interval
<1> HIDE DEF X
<1>4. IsFiniteSet(X)
  BY <1>2, <1>3, FS_Subset
<1>5. Cardinality(X) \in Nat
  BY <1>4, FS_CardinalityType
<1> QED
  BY <1>5 DEF Captures, X

FitsAt(s, x) == s = x \/ (s = Capture /\ x \notin Malformed)

(* The nodes with routes below a node that fit the rest of the path.        *)
Under(trie, parts, node) ==
    {p \in DOMAIN trie : /\ trie[p] # NoRoutes
                         /\ Begins(p, node)
                         /\ Len(p) = Len(parts)
                         /\ \A i \in Len(node) + 1 .. Len(p) : FitsAt(p[i], parts[i])}

Best(found, set) ==
    IF set = {} THEN found = None
    ELSE found \in set /\ \A p \in set \ {found} : Precedes(found, p)

(* The nodes below a child are those below the node that go on with it.     *)
LEMMA UnderChild ==
    ASSUME NEW trie, Trie(trie), NEW parts \in Seq(Text),
           NEW node \in DOMAIN trie, Len(node) < Len(parts),
           NEW x, Append(node, x) \in DOMAIN trie, FitsAt(x, parts[Len(node) + 1])
    PROVE  Under(trie, parts, Append(node, x))
               = {p \in Under(trie, parts, node) : p[Len(node) + 1] = x}
<1> DEFINE k == Len(node) + 1
           c == Append(node, x)
<1>1. node \in Seq(Segment) /\ Len(node) \in Nat /\ Len(parts) \in Nat
  BY LenProperties DEF Trie, Patterns
<1>2. /\ Len(c) = k
      /\ \A i \in 1 .. Len(node) : c[i] = node[i]
      /\ c[k] = x
  BY <1>1, AppendAny
<1>3. k \in Nat /\ Len(node) = k - 1
  BY <1>1
<1> HIDE DEF c
<1>4. ASSUME NEW p \in Under(trie, parts, c)
      PROVE  p \in Under(trie, parts, node) /\ p[k] = x
  <2>1. /\ p \in DOMAIN trie /\ trie[p] # NoRoutes /\ Len(p) = Len(parts)
        /\ Len(c) <= Len(p) /\ \A i \in 1 .. Len(c) : p[i] = c[i]
        /\ \A i \in Len(c) + 1 .. Len(p) : FitsAt(p[i], parts[i])
    BY DEF Under, Begins
  <2>2. p[k] = x
    BY <1>2, <1>3, <2>1
  <2>3. Begins(p, node)
    BY <1>1, <1>2, <2>1 DEF Begins
  <2>4. \A i \in k .. Len(p) : FitsAt(p[i], parts[i])
    <3>1. \A i \in k .. Len(p) : i = k \/ i \in k + 1 .. Len(p)
      BY <1>3, <2>1, <1>1
    <3> HIDE DEF k
    <3>2. FitsAt(p[k], parts[k])
      BY <2>2 DEF k
    <3>3. \A i \in k + 1 .. Len(p) : FitsAt(p[i], parts[i])
      BY <1>2, <2>1
    <3> QED
      BY <3>1, <3>2, <3>3
  <2> QED
    BY <2>1, <2>2, <2>3, <2>4 DEF Under
<1>5. ASSUME NEW p \in Under(trie, parts, node), p[k] = x
      PROVE  p \in Under(trie, parts, c)
  <2>1. /\ p \in DOMAIN trie /\ trie[p] # NoRoutes /\ Len(p) = Len(parts)
        /\ \A i \in 1 .. Len(node) : p[i] = node[i]
        /\ \A i \in k .. Len(p) : FitsAt(p[i], parts[i])
    BY DEF Under, Begins
  <2>2. Len(c) <= Len(p)
    BY <1>1, <1>2, <2>1
  <2>3. \A i \in 1 .. Len(c) : p[i] = c[i]
    <3>1. \A i \in 1 .. k : i \in 1 .. Len(node) \/ i = k
      BY <1>1
    <3> HIDE DEF k
    <3> QED
      BY <1>2, <1>5, <2>1, <3>1
  <2>4. \A i \in Len(c) + 1 .. Len(p) : i \in k .. Len(p)
    BY <1>1, <1>2
  <2>5. \A i \in Len(c) + 1 .. Len(p) : FitsAt(p[i], parts[i])
    BY <2>1, <2>4
  <2> QED
    BY <2>1, <2>2, <2>3, <2>5 DEF Under, Begins
<1> QED
  BY <1>4, <1>5 DEF c

(* find_node at a node, given that it finds the best further down.          *)
LEMMA FindStep ==
    ASSUME NEW trie, Trie(trie), NEW parts \in Seq(Text), NEW find,
           NEW node \in DOMAIN trie, Len(node) < Len(parts),
           find[node] = FindAt(trie, parts, find, node),
           \A x : Append(node, x) \in DOMAIN trie =>
                     Best(find[Append(node, x)], Under(trie, parts, Append(node, x)))
    PROVE  Best(find[node], Under(trie, parts, node))
<1> DEFINE k == Len(node) + 1
           part == parts[k]
           all == Under(trie, parts, node)
           lits == {p \in all : p[k] = part}
           caps == {p \in all : p[k] = Capture}
           lit == IF Append(node, part) \in DOMAIN trie THEN find[Append(node, part)] ELSE None
           cap == IF /\ Captures(node) < MaxCaptures
                     /\ part \notin Malformed
                     /\ Append(node, Capture) \in DOMAIN trie
                  THEN find[Append(node, Capture)] ELSE None
<1>1. /\ node \in Patterns /\ Len(node) \in Nat /\ Len(parts) \in Nat /\ k \in 1 .. Len(parts)
      /\ DOMAIN trie \subseteq Patterns
  BY LenProperties DEF Trie, Patterns
<1>2. part \in Text /\ part # Capture
  BY <1>1, ElementOfSeq, RouterAssumption
<1>3. find[node] = IF lit # None THEN lit ELSE cap
  BY <1>1 DEF FindAt
<1>4. \A p \in all : /\ p \in DOMAIN trie /\ trie[p] # NoRoutes /\ p \in Patterns
                     /\ Begins(p, node) /\ Len(node) < Len(p) /\ FitsAt(p[k], part)
                     /\ Append(node, p[k]) \in DOMAIN trie
  <2> SUFFICES ASSUME NEW p \in all
               PROVE  /\ p \in DOMAIN trie /\ trie[p] # NoRoutes /\ p \in Patterns
                      /\ Begins(p, node) /\ Len(node) < Len(p) /\ FitsAt(p[k], part)
                      /\ Append(node, p[k]) \in DOMAIN trie
    OBVIOUS
  <2>1. /\ p \in DOMAIN trie /\ trie[p] # NoRoutes /\ Begins(p, node) /\ Len(p) = Len(parts)
        /\ \A i \in k .. Len(p) : FitsAt(p[i], parts[i])
    BY DEF Under
  <2>2. p \in Patterns /\ Len(node) < Len(p) /\ k \in k .. Len(p) /\ k \in 0 .. Len(p)
    BY <1>1, <2>1
  <2>3. FitsAt(p[k], part)
    BY <2>1, <2>2
  <2>4. Append(node, p[k]) = SubSeq(p, 1, k)
    BY <1>1, <2>1, <2>2, BeginsNext DEF Patterns
  <2>5. Append(node, p[k]) \in DOMAIN trie
    BY <2>1, <2>2, <2>4 DEF Trie
  <2> QED
    BY <2>1, <2>2, <2>3, <2>5
<1>5. Best(lit, lits)
  <2>1. CASE Append(node, part) \in DOMAIN trie
    <3>1. FitsAt(part, part)
      BY DEF FitsAt
    <3>2. Under(trie, parts, Append(node, part)) = lits
      BY <1>1, <2>1, <3>1, UnderChild
    <3> QED
      BY <2>1, <3>2
  <2>2. CASE Append(node, part) \notin DOMAIN trie
    <3>1. lits = {}
      <4> HIDE DEF all, k, part
      <4> QED
        BY <1>4, <2>2
    <3> HIDE DEF lits
    <3> QED
      BY <2>2, <3>1 DEF Best
  <2> QED
    BY <2>1, <2>2
<1>6. Best(cap, caps)
  <2>1. CASE /\ Captures(node) < MaxCaptures /\ part \notin Malformed
             /\ Append(node, Capture) \in DOMAIN trie
    <3>1. FitsAt(Capture, part)
      BY <2>1 DEF FitsAt
    <3>2. Under(trie, parts, Append(node, Capture)) = caps
      BY <1>1, <2>1, <3>1, UnderChild
    <3> QED
      BY <2>1, <3>2
  <2>2. CASE ~(/\ Captures(node) < MaxCaptures /\ part \notin Malformed
               /\ Append(node, Capture) \in DOMAIN trie)
    <3>1. ASSUME NEW p \in caps
          PROVE  FALSE
      <4>1. p \in all /\ p[k] = Capture
        OBVIOUS
      <4> HIDE DEF all
      <4>2. part \notin Malformed /\ Append(node, Capture) \in DOMAIN trie
        BY <1>2, <1>4, <4>1 DEF FitsAt
      <4>3. Captures(node) < Captures(p)
        BY <1>1, <1>4, <4>1, CapturesMore
      <4>4. Captures(p) <= MaxCaptures
        BY <1>4, <4>1 DEF Trie
      <4>5. Captures(p) \in Int /\ Captures(node) \in Int /\ MaxCaptures \in Int
        BY <1>1, <1>4, <4>1, CapturesNat, RouterAssumption
      <4> QED
        BY <2>2, <4>2, <4>3, <4>4, <4>5
    <3>2. caps = {}
      BY <3>1
    <3>3. cap = None
      BY <2>2
    <3> HIDE DEF caps, cap
    <3> QED
      BY <3>2, <3>3 DEF Best
  <2> QED
    BY <2>1, <2>2
<1>7. all = lits \union caps
  <2>1. \A p \in all : p[k] = part \/ p[k] = Capture
    <3> HIDE DEF all, k, part
    <3> QED
      BY <1>4 DEF FitsAt
  <2> HIDE DEF all, k, part
  <2> QED
    BY <2>1
<1>8. \A p \in lits : p # None
  <2> HIDE DEF all, k, part
  <2> QED
    BY <1>4, RouterAssumption DEF Patterns
<1>9. ASSUME NEW p \in lits, NEW q \in caps
      PROVE  Precedes(p, q)
  <2>1. p \in all /\ q \in all /\ p[k] = part /\ q[k] = Capture
    OBVIOUS
  <2>2. Begins(p, node) /\ Begins(q, node) /\ Len(node) < Len(p) /\ p \in Patterns
    <3> HIDE DEF all
    <3> QED
      BY <1>4, <2>1
  <2>3. k \in DOMAIN p
    BY <1>1, <2>2, LenProperties DEF Patterns
  <2>4. \A j \in 1 .. k - 1 : p[j] = q[j]
    BY <1>1, <2>2 DEF Begins
  <2> HIDE DEF all, part, k
  <2> QED
    BY <1>2, <2>1, <2>3, <2>4 DEF Precedes
<1> HIDE DEF all, lits, caps, lit, cap
<1>10. CASE lits # {}
  <2>1. lit \in lits /\ \A p \in lits \ {lit} : Precedes(lit, p)
    BY <1>5, <1>10 DEF Best
  <2>2. find[node] = lit
    BY <1>3, <1>8, <2>1
  <2>3. \A p \in all \ {lit} : Precedes(lit, p)
    BY <1>7, <1>9, <2>1
  <2>4. lit \in all /\ all # {}
    BY <1>7, <2>1
  <2> QED
    BY <2>2, <2>3, <2>4 DEF Best, all
<1>11. CASE lits = {}
  <2>1. lit = None
    BY <1>5, <1>11 DEF Best
  <2>2. find[node] = cap /\ all = caps
    BY <1>3, <1>7, <1>11, <2>1
  <2> QED
    BY <1>6, <2>2 DEF all
<1> QED
  BY <1>10, <1>11

(* Find: of the nodes with routes that a path fits the one with the         *)
(* leftmost literals, and one whenever there is one.                        *)
LEMMA FindBest ==
    ASSUME NEW trie, Trie(trie), NEW parts \in Seq(Text)
    PROVE  Best(Find(trie, parts),
                {p \in DOMAIN trie : trie[p] # NoRoutes /\ Fits(p, parts)})
<1>1. PICK find : /\ Find(trie, parts) = find[<<>>]
                  /\ \A node \in DOMAIN trie : find[node] = FindAt(trie, parts, find, node)
  BY FindRecurs
<1>2. Len(parts) \in Nat /\ DOMAIN parts = 1 .. Len(parts)
  BY LenProperties
<1>3. \A p \in DOMAIN trie : p \in Seq(Segment) /\ Len(p) \in Nat /\ DOMAIN p = 1 .. Len(p)
  <2>1. \A p \in DOMAIN trie : p \in Seq(Segment)
    BY DEF Trie, Patterns
  <2> QED
    BY <2>1, LenProperties
<1> DEFINE A == {d \in Nat : \A node \in DOMAIN trie :
                     Len(node) + d = Len(parts) => Best(find[node], Under(trie, parts, node))}
<1>4. 0 \in A
  <2> SUFFICES ASSUME NEW node \in DOMAIN trie, Len(node) + 0 = Len(parts)
               PROVE  Best(find[node], Under(trie, parts, node))
    OBVIOUS
  <2>1. Len(node) = Len(parts) /\ node \in Seq(Segment) /\ node # None
    <3>1. node \in Seq(Segment)
      BY <1>3
    <3> QED
      BY <1>3, <1>2, <3>1, RouterAssumption
  <2>2. find[node] = IF trie[node] = NoRoutes THEN None ELSE node
    BY <1>1, <2>1 DEF FindAt
  <2>3. ASSUME NEW p \in DOMAIN trie, Begins(p, node), Len(p) = Len(parts)
        PROVE  p = node
    <3>1. p \in Seq(Segment) /\ Len(p) = Len(node) /\ \A i \in 1 .. Len(p) : p[i] = node[i]
      BY <1>3, <2>1, <2>3 DEF Begins
    <3> QED
      BY <2>1, <3>1, SeqEqual
  <2>4. Begins(node, node)
    BY <1>3 DEF Begins
  <2>5. \A i \in Len(node) + 1 .. Len(node) : FALSE
    BY <1>3
  <2>6. Under(trie, parts, node) = IF trie[node] = NoRoutes THEN {} ELSE {node}
    <3>1. \A p \in Under(trie, parts, node) : p = node /\ trie[p] # NoRoutes
      BY <2>3 DEF Under
    <3>2. trie[node] # NoRoutes => node \in Under(trie, parts, node)
      BY <2>1, <2>4, <2>5 DEF Under
    <3> QED
      BY <3>1, <3>2
  <2> QED
    BY <2>2, <2>6 DEF Best
<1>5. ASSUME NEW d \in Nat, d \in A
      PROVE  d + 1 \in A
  <2> SUFFICES ASSUME NEW node \in DOMAIN trie, Len(node) + (d + 1) = Len(parts)
               PROVE  Best(find[node], Under(trie, parts, node))
    OBVIOUS
  <2>1. Len(node) < Len(parts)
    BY <1>2, <1>3
  <2>2. ASSUME NEW x, Append(node, x) \in DOMAIN trie
        PROVE  Best(find[Append(node, x)], Under(trie, parts, Append(node, x)))
    <3>1. Len(Append(node, x)) = Len(node) + 1
      BY <1>3, AppendAny
    <3>2. Len(Append(node, x)) + d = Len(parts)
      BY <1>3, <3>1
    <3> QED
      BY <1>5, <2>2, <3>2
  <2>3. find[node] = FindAt(trie, parts, find, node)
    BY <1>1
  <2> HIDE DEF A
  <2> QED
    BY <2>1, <2>2, <2>3, FindStep
<1> HIDE DEF A
<1>6. Nat \subseteq A
  BY <1>4, <1>5, NatInSet
<1>7. <<>> \in DOMAIN trie /\ Len(<<>>) = 0
  BY DEF Trie
<1>8. Best(find[<<>>], Under(trie, parts, <<>>))
  <2>1. Len(parts) \in A /\ Len(<<>>) + Len(parts) = Len(parts)
    BY <1>2, <1>6, <1>7
  <2>2. \A node \in DOMAIN trie :
            Len(node) + Len(parts) = Len(parts) => Best(find[node], Under(trie, parts, node))
    BY <2>1 DEF A
  <2> QED
    BY <1>7, <2>1, <2>2
<1>9. \A p \in DOMAIN trie : Begins(p, <<>>)
  BY <1>3 DEF Begins
<1>10. ASSUME NEW p \in DOMAIN trie
       PROVE  (Len(p) = Len(parts) /\ \A i \in Len(<<>>) + 1 .. Len(p) : FitsAt(p[i], parts[i]))
                  <=> Fits(p, parts)
  <2>1. DOMAIN p = Len(<<>>) + 1 .. Len(p)
    BY <1>3, <1>7
  <2> QED
    BY <2>1 DEF Fits, FitsAt
<1>11. Under(trie, parts, <<>>)
           = {p \in DOMAIN trie : trie[p] # NoRoutes /\ Fits(p, parts)}
  BY <1>9, <1>10 DEF Under
<1> QED
  BY <1>1, <1>8, <1>11

-----------------------------------------------------------------------------
(* Answers of the router.                                                   *)

(* A request answered by a handler: by a route of the path's own text or of *)
(* a pattern the path fits, for its method or, for HEAD, for GET.           *)
Serves(routes, trie, method, path, route) ==
    \E m : /\ (m = method \/ (method = "HEAD" /\ m = "GET"))
          /\ \/ /\ path \in DOMAIN routes
                /\ m \in DOMAIN routes[path]
                /\ routes[path][m] = route
             \/ \E node \in DOMAIN trie :
                    /\ Fits(node, path.segments)
                    /\ m \in DOMAIN trie[node]
                    /\ trie[node][m] = route

(* A handler's answer names a route of the set.                             *)
LEMMA ResolvedServes ==
    ASSUME NEW routes, NEW method, NEW route,
           ResolveRouteSet(routes, method) = Response("handler", route)
    PROVE  \E m \in DOMAIN routes :
               (m = method \/ (method = "HEAD" /\ m = "GET")) /\ routes[m] = route
<1>1. RouteIndex(routes, method) # None
  <2>1. Response("handler", route).kind = "handler"
    BY DEF Response
  <2>2. \A r : /\ Response("options", r).kind = "options"
               /\ Response("notAllowed", r).kind = "notAllowed"
    BY DEF Response
  <2> QED
    BY <2>1, <2>2 DEF ResolveRouteSet
<1>2. RouteIndex(routes, method) = route
  <2>1. \A r : Response("handler", r).route = r
    BY DEF Response
  <2>2. Response("handler", RouteIndex(routes, method)) = Response("handler", route)
    BY <1>1 DEF ResolveRouteSet
  <2> QED
    BY <2>1, <2>2
<1> QED
  BY <1>1, <1>2 DEF RouteIndex

(* What the router answers with a handler is served by that route.          *)
LEMMA DispatchServes ==
    ASSUME NEW routes, NEW trie, Trie(trie), NEW method, NEW path,
           path.segments \in Seq(Text), NEW route,
           Dispatch(routes, trie, method, path) = Response("handler", route)
    PROVE  Serves(routes, trie, method, path, route)
<1>1. CASE path \in DOMAIN routes
  <2>1. ResolveRouteSet(routes[path], method) = Response("handler", route)
    BY <1>1 DEF Dispatch
  <2> QED
    BY <1>1, <2>1, ResolvedServes DEF Serves
<1>2. CASE path \notin DOMAIN routes
  <2> DEFINE node == Find(trie, path.segments)
             set == {p \in DOMAIN trie : trie[p] # NoRoutes /\ Fits(p, path.segments)}
  <2>1. Best(node, set)
    BY FindBest
  <2>2. node # None
    <3>1. Response("notFound", None).kind = "notFound" /\ Response("handler", route).kind = "handler"
      BY DEF Response
    <3> QED
      BY <1>2, <3>1 DEF Dispatch
  <2>3. ResolveRouteSet(trie[node], method) = Response("handler", route)
    BY <1>2, <2>2 DEF Dispatch
  <2> HIDE DEF node
  <2>4. node \in set
    BY <2>1, <2>2 DEF Best
  <2> QED
    BY <2>3, <2>4, ResolvedServes DEF Serves
<1> QED
  BY <1>1, <1>2

-----------------------------------------------------------------------------
(* Registration.                                                            *)

TemplateSet == [segments : Patterns, slashes : Seq(Nat)]

Routes == [method : Methods \union {"GET"}, template : TemplateSet, builtin : BOOLEAN,
           tag : Tags \union {None}, security : (SUBSET Schemes) \union {None},
           groups : Seq(Patterns)]

(* The tables and the routes are about each other.                          *)
TablesOf(routes, texts, trie) ==
    /\ Trie(trie)
    /\ \A p \in DOMAIN texts : DOMAIN texts[p] # {}
    /\ \A p \in DOMAIN texts : \A m \in DOMAIN texts[p] :
           /\ texts[p][m] \in DOMAIN routes
           /\ routes[texts[p][m]].method = m
           /\ routes[texts[p][m]].template = p
           /\ IsStatic(p.segments)
    /\ \A n \in DOMAIN trie : \A m \in DOMAIN trie[n] :
           /\ trie[n][m] \in DOMAIN routes
           /\ routes[trie[n][m]].method = m
           /\ routes[trie[n][m]].template.segments = n
           /\ ~IsStatic(n)
    /\ \A i \in DOMAIN routes :
           \/ /\ IsStatic(routes[i].template.segments)
              /\ routes[i].template \in DOMAIN texts
              /\ routes[i].method \in DOMAIN texts[routes[i].template]
              /\ texts[routes[i].template][routes[i].method] = i
           \/ /\ ~IsStatic(routes[i].template.segments)
              /\ routes[i].template.segments \in DOMAIN trie
              /\ routes[i].method \in DOMAIN trie[routes[i].template.segments]
              /\ trie[routes[i].template.segments][routes[i].method] = i

(* The tables after a route of a text was added.                            *)
LEMMA TextAdded ==
    ASSUME NEW routes \in Seq(Routes), NEW texts, NEW trie, TablesOf(routes, texts, trie),
           NEW r \in Routes, IsStatic(r.template.segments),
           ~(r.template \in DOMAIN texts /\ r.method \in DOMAIN texts[r.template])
    PROVE  TablesOf(Append(routes, r),
                    InsertStatic(texts, r.template, r.method, Len(routes) + 1), trie)
<1> DEFINE n == Len(routes) + 1
           more == Append(routes, r)
           t == r.template
           new == InsertStatic(texts, t, r.method, n)
<1>1. /\ Len(routes) \in Nat /\ DOMAIN routes = 1 .. Len(routes)
      /\ DOMAIN more = DOMAIN routes \union {n} /\ n \notin DOMAIN routes
      /\ more[n] = r /\ \A i \in DOMAIN routes : more[i] = routes[i]
  <2>1. Len(routes) \in Nat /\ DOMAIN routes = 1 .. Len(routes)
    BY LenProperties
  <2>2. /\ more \in Seq(Routes) /\ Len(more) = n
        /\ more[n] = r /\ \A i \in 1 .. Len(routes) : more[i] = routes[i]
    BY AppendProperties
  <2>3. DOMAIN more = 1 .. n
    <3> HIDE DEF more, n
    <3> QED
      BY <2>2, LenProperties
  <2> HIDE DEF more
  <2> QED
    BY <2>1, <2>2, <2>3
<1>2. /\ DOMAIN new = DOMAIN texts \union {t}
      /\ \A p \in DOMAIN texts \ {t} : new[p] = texts[p]
      /\ r.method \in DOMAIN new[t] /\ new[t][r.method] = n
      /\ t \in DOMAIN texts =>
             /\ DOMAIN new[t] = DOMAIN texts[t] \union {r.method}
             /\ \A m \in DOMAIN texts[t] : new[t][m] = texts[t][m]
      /\ t \notin DOMAIN texts => DOMAIN new[t] = {r.method}
  <2>1. /\ DOMAIN new = DOMAIN texts \union {t}
        /\ \A p \in DOMAIN texts \ {t} : new[p] = texts[p]
        /\ new[t] = Insert(IF t \in DOMAIN texts THEN texts[t] ELSE NoRoutes, r.method, n)
    BY DEF InsertStatic
  <2>2. DOMAIN NoRoutes = {}
    BY DEF NoRoutes
  <2>3. CASE t \in DOMAIN texts
    <3>1. new[t] = Insert(texts[t], r.method, n) /\ r.method \notin DOMAIN texts[t]
      BY <2>1, <2>3
    <3> HIDE DEF new, t, n
    <3>2. /\ DOMAIN new[t] = DOMAIN texts[t] \union {r.method}
          /\ new[t][r.method] = n
          /\ \A m \in DOMAIN texts[t] \ {r.method} : new[t][m] = texts[t][m]
      BY <3>1 DEF Insert
    <3> QED
      BY <2>1, <2>3, <3>1, <3>2
  <2>4. CASE t \notin DOMAIN texts
    <3>1. new[t] = Insert(NoRoutes, r.method, n)
      BY <2>1, <2>4
    <3> HIDE DEF new, t, n
    <3>2. DOMAIN new[t] = DOMAIN NoRoutes \union {r.method} /\ new[t][r.method] = n
      BY <3>1 DEF Insert
    <3> QED
      BY <2>1, <2>2, <2>4, <3>2
  <2> QED
    BY <2>3, <2>4
<1> HIDE DEF more, new, n, t
<1>3. \A p \in DOMAIN new : \A m \in DOMAIN new[p] :
           /\ new[p][m] \in DOMAIN more
           /\ more[new[p][m]].method = m
           /\ more[new[p][m]].template = p
           /\ IsStatic(p.segments)
  <2> SUFFICES ASSUME NEW p \in DOMAIN new, NEW m \in DOMAIN new[p]
               PROVE  /\ new[p][m] \in DOMAIN more
                      /\ more[new[p][m]].method = m
                      /\ more[new[p][m]].template = p
                      /\ IsStatic(p.segments)
    OBVIOUS
  <2>1. CASE p = t /\ m = r.method
    BY <1>1, <1>2, <2>1 DEF t
  <2>2. CASE ~(p = t /\ m = r.method)
    <3>1. p \in DOMAIN texts /\ m \in DOMAIN texts[p] /\ new[p][m] = texts[p][m]
      BY <1>2, <2>2
    <3>2. /\ texts[p][m] \in DOMAIN routes
          /\ routes[texts[p][m]].method = m
          /\ routes[texts[p][m]].template = p
          /\ IsStatic(p.segments)
      BY <3>1 DEF TablesOf
    <3> QED
      BY <1>1, <3>1, <3>2
  <2> QED
    BY <2>1, <2>2
<1>4. \A k \in DOMAIN trie : \A m \in DOMAIN trie[k] :
           /\ trie[k][m] \in DOMAIN more
           /\ more[trie[k][m]].method = m
           /\ more[trie[k][m]].template.segments = k
           /\ ~IsStatic(k)
  BY <1>1 DEF TablesOf
<1>5. ASSUME NEW i \in DOMAIN more
      PROVE  \/ /\ IsStatic(more[i].template.segments)
                /\ more[i].template \in DOMAIN new
                /\ more[i].method \in DOMAIN new[more[i].template]
                /\ new[more[i].template][more[i].method] = i
             \/ /\ ~IsStatic(more[i].template.segments)
                /\ more[i].template.segments \in DOMAIN trie
                /\ more[i].method \in DOMAIN trie[more[i].template.segments]
                /\ trie[more[i].template.segments][more[i].method] = i
  <2>1. CASE i = n
    BY <1>1, <1>2, <2>1 DEF t
  <2>2. CASE i # n
    <3>1. i \in DOMAIN routes /\ more[i] = routes[i]
      BY <1>1, <2>2
    <3> QED
      BY <1>2, <3>1 DEF TablesOf
  <2> QED
    BY <2>1, <2>2
<1>6. Trie(trie) /\ \A p \in DOMAIN new : DOMAIN new[p] # {}
  BY <1>2 DEF TablesOf
<1>7. TablesOf(more, new, trie)
  BY <1>3, <1>4, <1>5, <1>6 DEF TablesOf
<1> QED
  BY <1>7 DEF more, new, n, t

(* The trie with one more route.                                            *)
LEMMA TrieGrows ==
    ASSUME NEW trie, Trie(trie), NEW pattern \in Patterns, Captures(pattern) <= MaxCaptures,
           NEW method, NEW route
    PROVE  LET new == InsertRoute(trie, pattern, method, route)
               old == IF pattern \in DOMAIN trie THEN trie[pattern] ELSE NoRoutes
           IN /\ Trie(new)
              /\ DOMAIN trie \subseteq DOMAIN new
              /\ pattern \in DOMAIN new /\ new[pattern] = Insert(old, method, route)
              /\ \A k \in DOMAIN trie \ {pattern} : new[k] = trie[k]
              /\ \A k \in DOMAIN new \ DOMAIN trie : k # pattern => new[k] = NoRoutes
<1> DEFINE new == InsertRoute(trie, pattern, method, route)
           old == IF pattern \in DOMAIN trie THEN trie[pattern] ELSE NoRoutes
           on == {SubSeq(pattern, 1, l) : l \in 0 .. Len(pattern)}
<1>1. pattern \in Seq(Segment) /\ Len(pattern) \in Nat
  BY LenProperties DEF Patterns
<1>2. \A l \in 0 .. Len(pattern) :
          /\ SubSeq(pattern, 1, l) \in Patterns
          /\ Len(SubSeq(pattern, 1, l)) = l
          /\ \A i \in 1 .. l : SubSeq(pattern, 1, l)[i] = pattern[i]
  BY <1>1, Beginning DEF Patterns
<1>3. on \subseteq Patterns /\ pattern \in on
  <2>1. SubSeq(pattern, 1, Len(pattern)) = pattern
    BY <1>1, SubSeqFull
  <2>2. Len(pattern) \in 0 .. Len(pattern)
    BY <1>1
  <2> QED
    BY <1>2, <2>1, <2>2
<1>4. /\ DOMAIN new = DOMAIN trie \union on
      /\ new[pattern] = Insert(old, method, route)
      /\ \A k \in DOMAIN trie \ {pattern} : new[k] = trie[k]
      /\ \A k \in DOMAIN new \ DOMAIN trie : k # pattern => new[k] = NoRoutes
  <2> DEFINE base == [node \in DOMAIN trie \union on |->
                         IF node \in DOMAIN trie THEN trie[node] ELSE NoRoutes]
  <2>1. new = [base EXCEPT ![pattern] = Insert(base[pattern], method, route)]
    BY DEF InsertRoute, Prefixes
  <2> HIDE DEF new, on
  <2> QED
    BY <1>3, <2>1
<1> HIDE DEF new
<1>5. Trie(new)
  <2>1. <<>> \in DOMAIN new /\ DOMAIN new \subseteq Patterns
    BY <1>3, <1>4 DEF Trie
  <2>2. ASSUME NEW p \in DOMAIN new, NEW k \in 0 .. Len(p)
        PROVE  SubSeq(p, 1, k) \in DOMAIN new
    <3>1. CASE p \in DOMAIN trie
      BY <1>4, <3>1 DEF Trie
    <3>2. CASE p \in on
      <4>1. PICK l \in 0 .. Len(pattern) : p = SubSeq(pattern, 1, l)
        BY <3>2
      <4>2. /\ p \in Seq(Segment) /\ Len(p) = l
            /\ \A i \in 1 .. l : p[i] = pattern[i]
            /\ k \in 0 .. Len(pattern)
        BY <1>1, <1>2, <4>1 DEF Patterns
      <4>3. /\ SubSeq(p, 1, k) \in Seq(Segment) /\ Len(SubSeq(p, 1, k)) = k
            /\ \A i \in 1 .. k : SubSeq(p, 1, k)[i] = p[i]
        BY <4>2, Beginning
      <4>4. /\ SubSeq(pattern, 1, k) \in Seq(Segment) /\ Len(SubSeq(pattern, 1, k)) = k
            /\ \A i \in 1 .. k : SubSeq(pattern, 1, k)[i] = pattern[i]
        BY <1>1, <4>2, Beginning
      <4>5. \A i \in 1 .. k : SubSeq(p, 1, k)[i] = SubSeq(pattern, 1, k)[i]
        <5>1. \A i \in 1 .. k : i \in 1 .. l
          BY <1>1, <4>2
        <5> QED
          BY <4>2, <4>3, <4>4, <5>1
      <4>6. SubSeq(p, 1, k) = SubSeq(pattern, 1, k)
        <5> DEFINE u == SubSeq(p, 1, k)
                   v == SubSeq(pattern, 1, k)
        <5>1. u \in Seq(Segment) /\ v \in Seq(Segment) /\ Len(u) = k /\ Len(v) = k
              /\ \A i \in 1 .. k : u[i] = v[i]
          BY <4>3, <4>4, <4>5
        <5> HIDE DEF u, v
        <5>2. u = v
          BY <5>1, SeqEqual
        <5> QED
          BY <5>2 DEF u, v
      <4>7. SubSeq(pattern, 1, k) \in on
        BY <4>2
      <4> HIDE DEF on
      <4> QED
        BY <1>4, <4>6, <4>7
    <3> HIDE DEF on
    <3> QED
      BY <1>4, <3>1, <3>2
  <2>3. \E depth \in Nat : \A p \in DOMAIN new : Len(p) <= depth
    <3>1. PICK depth \in Nat : \A p \in DOMAIN trie : Len(p) <= depth
      BY DEF Trie
    <3>2. \A p \in DOMAIN trie : Len(p) \in Nat
      <4>1. \A p \in DOMAIN trie : p \in Seq(Segment)
        BY DEF Trie, Patterns
      <4> QED
        BY <4>1, LenProperties
    <3>3. \A p \in on : Len(p) \in Nat /\ Len(p) <= Len(pattern)
      BY <1>1, <1>2
    <3>4. depth + Len(pattern) \in Nat
      BY <1>1
    <3> HIDE DEF on
    <3>5. \A p \in DOMAIN new : Len(p) <= depth + Len(pattern)
      BY <1>1, <1>4, <3>1, <3>2, <3>3
    <3> QED
      BY <3>4, <3>5
  <2>4. ASSUME NEW p \in DOMAIN new, new[p] # NoRoutes
        PROVE  DOMAIN new[p] # {} /\ Captures(p) <= MaxCaptures
    <3>1. CASE p = pattern
      <4> HIDE DEF old
      <4>1. DOMAIN new[p] = DOMAIN old \union {method}
        BY <1>4, <3>1 DEF Insert
      <4> QED
        BY <3>1, <4>1
    <3>2. CASE p # pattern
      <4>1. p \in DOMAIN trie /\ new[p] = trie[p]
        BY <1>4, <2>4, <3>2
      <4> QED
        BY <2>4, <4>1 DEF Trie
    <3> QED
      BY <3>1, <3>2
  <2> QED
    BY <2>1, <2>2, <2>3, <2>4 DEF Trie
<1> HIDE DEF on
<1>6. pattern \in DOMAIN new /\ DOMAIN trie \subseteq DOMAIN new
  BY <1>3, <1>4
<1> QED
  BY <1>4, <1>5, <1>6 DEF new

(* The tables after a route of a pattern was added.                         *)
LEMMA PatternAdded ==
    ASSUME NEW routes \in Seq(Routes), NEW texts, NEW trie, TablesOf(routes, texts, trie),
           NEW r \in Routes, ~IsStatic(r.template.segments),
           Captures(r.template.segments) <= MaxCaptures,
           ~(/\ r.template.segments \in DOMAIN trie
             /\ r.method \in DOMAIN trie[r.template.segments])
    PROVE  TablesOf(Append(routes, r), texts,
                    InsertRoute(trie, r.template.segments, r.method, Len(routes) + 1))
<1> DEFINE n == Len(routes) + 1
           more == Append(routes, r)
           s == r.template.segments
           new == InsertRoute(trie, s, r.method, n)
           old == IF s \in DOMAIN trie THEN trie[s] ELSE NoRoutes
<1>1. /\ Len(routes) \in Nat /\ DOMAIN routes = 1 .. Len(routes)
      /\ DOMAIN more = DOMAIN routes \union {n} /\ n \notin DOMAIN routes
      /\ more[n] = r /\ \A i \in DOMAIN routes : more[i] = routes[i]
  <2>1. Len(routes) \in Nat /\ DOMAIN routes = 1 .. Len(routes)
    BY LenProperties
  <2>2. /\ more \in Seq(Routes) /\ Len(more) = n
        /\ more[n] = r /\ \A i \in 1 .. Len(routes) : more[i] = routes[i]
    BY AppendProperties
  <2>3. DOMAIN more = 1 .. n
    <3> HIDE DEF more, n
    <3> QED
      BY <2>2, LenProperties
  <2> HIDE DEF more
  <2> QED
    BY <2>1, <2>2, <2>3
<1>2. s \in Patterns
  BY DEF Routes, TemplateSet
<1>3. Trie(trie)
  BY DEF TablesOf
<1>4. /\ Trie(new)
      /\ DOMAIN trie \subseteq DOMAIN new
      /\ s \in DOMAIN new /\ new[s] = Insert(old, r.method, n)
      /\ \A k \in DOMAIN trie \ {s} : new[k] = trie[k]
      /\ \A k \in DOMAIN new \ DOMAIN trie : k # s => new[k] = NoRoutes
  <2> HIDE DEF n
  <2> QED
    BY <1>2, <1>3, TrieGrows
<1>5. /\ DOMAIN new[s] = DOMAIN old \union {r.method}
      /\ new[s][r.method] = n
      /\ \A m \in DOMAIN old : m # r.method /\ new[s][m] = old[m]
      /\ DOMAIN NoRoutes = {}
  <2>1. DOMAIN NoRoutes = {}
    BY DEF NoRoutes
  <2>2. r.method \notin DOMAIN old
    BY <2>1
  <2> HIDE DEF old, new, n, s
  <2>3. /\ DOMAIN new[s] = DOMAIN old \union {r.method}
        /\ new[s][r.method] = n
        /\ \A m \in DOMAIN old \ {r.method} : new[s][m] = old[m]
    BY <1>4 DEF Insert
  <2> QED
    BY <2>1, <2>2, <2>3
<1> HIDE DEF more, new, n
<1>6. \A p \in DOMAIN texts : \A m \in DOMAIN texts[p] :
           /\ texts[p][m] \in DOMAIN more
           /\ more[texts[p][m]].method = m
           /\ more[texts[p][m]].template = p
           /\ IsStatic(p.segments)
  BY <1>1 DEF TablesOf
<1>7. \A k \in DOMAIN new : \A m \in DOMAIN new[k] :
           /\ new[k][m] \in DOMAIN more
           /\ more[new[k][m]].method = m
           /\ more[new[k][m]].template.segments = k
           /\ ~IsStatic(k)
  <2> SUFFICES ASSUME NEW k \in DOMAIN new, NEW m \in DOMAIN new[k]
               PROVE  /\ new[k][m] \in DOMAIN more
                      /\ more[new[k][m]].method = m
                      /\ more[new[k][m]].template.segments = k
                      /\ ~IsStatic(k)
    OBVIOUS
  <2>1. CASE k = s /\ m = r.method
    BY <1>1, <1>5, <2>1
  <2>2. CASE ~(k = s /\ m = r.method)
    <3>1. k \in DOMAIN trie /\ m \in DOMAIN trie[k] /\ new[k][m] = trie[k][m]
      BY <1>4, <1>5, <2>2
    <3>2. /\ trie[k][m] \in DOMAIN routes
          /\ routes[trie[k][m]].method = m
          /\ routes[trie[k][m]].template.segments = k
          /\ ~IsStatic(k)
      BY <3>1 DEF TablesOf
    <3> QED
      BY <1>1, <3>1, <3>2
  <2> QED
    BY <2>1, <2>2
<1>8. ASSUME NEW i \in DOMAIN more
      PROVE  \/ /\ IsStatic(more[i].template.segments)
                /\ more[i].template \in DOMAIN texts
                /\ more[i].method \in DOMAIN texts[more[i].template]
                /\ texts[more[i].template][more[i].method] = i
             \/ /\ ~IsStatic(more[i].template.segments)
                /\ more[i].template.segments \in DOMAIN new
                /\ more[i].method \in DOMAIN new[more[i].template.segments]
                /\ new[more[i].template.segments][more[i].method] = i
  <2>1. CASE i = n
    BY <1>1, <1>4, <1>5, <2>1
  <2>2. CASE i # n
    <3>1. i \in DOMAIN routes /\ more[i] = routes[i]
      BY <1>1, <2>2
    <3> QED
      BY <1>4, <1>5, <3>1 DEF TablesOf
  <2> QED
    BY <2>1, <2>2
<1>9. TablesOf(more, texts, new)
  BY <1>4, <1>6, <1>7, <1>8 DEF TablesOf
<1> QED
  BY <1>9 DEF more, new, n

-----------------------------------------------------------------------------
(* The application while it is built and serves.                            *)

Scopes == [kind : {"all", "prefix", "route"}, method : Methods \union {"GET", None},
           pattern : Patterns]

LayerSet == [scope : Scopes, by : {"app", "group", "layer_for", "route_layer"},
             route : Nat \union {None}, groups : Seq(Patterns)]

AppType ==
    /\ metadata \in Seq(Routes)
    /\ lastRoute \in DOMAIN metadata \union {None}
    /\ routeError \in BOOLEAN
    /\ middleware \in Seq(LayerSet)
    /\ groups \in Seq(Patterns)
    /\ openapiConfig \in Config \union {None}
    /\ swaggerConfig \in DocPaths \union {None}
    /\ phase \in {"building", "failed", "serving"}

Tables == TablesOf(metadata, static, dynamic)

(* Each group's prefix begins with those of the groups it is in.            *)
Chain(c) == \A a, b \in DOMAIN c : a <= b => Begins(c[b], c[a])

InGroups(r) == /\ Chain(r.groups)
               /\ r.groups # <<>> => Begins(r.template.segments, Last(r.groups))
               /\ Rooted(r.template) \/ r.builtin

GroupsInv == Chain(groups) /\ \A i \in DOMAIN metadata : InGroups(metadata[i])

(* Layers of routes and groups have the scope of their route or group.      *)
RightLayer(l) ==
    /\ l.by = "route_layer" /\ l.route # None =>
           /\ l.route \in DOMAIN metadata
           /\ l.scope = ScopeRoute(metadata[l.route].method, metadata[l.route].template.segments)
    /\ l.by = "group" => l.groups # <<>> /\ l.scope = ScopePrefix(Last(l.groups))

BuiltInv == AppType /\ Tables /\ GroupsInv /\ \A i \in DOMAIN middleware : RightLayer(middleware[i])

SameRoute(a, b) == /\ a.method = b.method /\ a.template = b.template
                   /\ a.builtin = b.builtin /\ a.groups = b.groups

(* What a step of the builder does.                                         *)
RegisterStep ==
    \E method \in Methods \union {"GET"} : \E template \in TemplateSet :
        /\ phase = "building"
        /\ Rooted(template)
        /\ ~Duplicate(method, template)
        /\ IsStatic(template.segments) \/ Captures(template.segments) <= MaxCaptures
        /\ groups # <<>> => Begins(template.segments, Last(groups))
        /\ Install(method, template)
        /\ UNCHANGED <<routeError, middleware, groups, openapiConfig, swaggerConfig, phase, request>>

DescribeStep ==
    /\ phase = "building"
    /\ lastRoute # None
    /\ \E op \in Routes : /\ SameRoute(op, metadata[lastRoute])
                          /\ metadata' = [metadata EXCEPT ![lastRoute] = op]
    /\ UNCHANGED <<static, dynamic, lastRoute, routeError, middleware, groups, openapiConfig,
                   swaggerConfig, phase, request>>

NestStep == /\ CloseGroup \/ \E pattern \in Patterns : OpenGroup(pattern)
            /\ UNCHANGED <<routeVars, middleware, docVars, phase, request>>

LayerStep == /\ phase = "building"
             /\ \E l \in LayerSet : RightLayer(l) /\ middleware' = Append(middleware, l)
             /\ UNCHANGED <<routeVars, groups, docVars, phase, request>>

DocumentStep == /\ phase = "building"
                /\ routeError' \in BOOLEAN
                /\ openapiConfig' \in Config \union {None}
                /\ swaggerConfig' \in DocPaths \union {None}
                /\ UNCHANGED <<metadata, static, dynamic, lastRoute, middleware, groups, phase,
                               request>>

ServeStep == UNCHANGED <<routeVars, middleware, groups, docVars, phase>>

(* What is joined to a prefix begins with it.                               *)
LEMMA JoinBegins ==
    ASSUME NEW s \in Patterns, NEW t \in Patterns
    PROVE  s \o t \in Patterns /\ Begins(s \o t, s)
<1>1. /\ s \o t \in Patterns /\ Len(s \o t) = Len(s) + Len(t)
      /\ \A i \in 1 .. Len(s) + Len(t) :
             (s \o t)[i] = IF i <= Len(s) THEN s[i] ELSE t[i - Len(s)]
  BY ConcatProperties DEF Patterns
<1>2. Len(s) \in Nat /\ Len(t) \in Nat
  BY LenProperties DEF Patterns
<1> QED
  BY <1>1, <1>2 DEF Begins

(* The prefix of the innermost group.                                       *)
LEMMA PrefixType ==
    ASSUME NEW c \in Seq(Patterns), c # <<>>
    PROVE  Last(c) \in Patterns /\ Len(c) \in DOMAIN c /\ Last(c) = c[Len(c)]
<1>1. Len(c) \in Nat \ {0} /\ DOMAIN c = 1 .. Len(c)
  BY EmptySeq, LenProperties
<1>2. Len(c) \in 1 .. Len(c)
  BY <1>1
<1> QED
  BY <1>1, <1>2, ElementOfSeq DEF Last

(* A registered path with the prefix of the innermost group.                *)
LEMMA TemplateType ==
    ASSUME AppType, NEW path \in TemplateSet
    PROVE  /\ Template(path) \in TemplateSet
           /\ groups # <<>> => Begins(Template(path).segments, Last(groups))
<1>1. path.segments \in Patterns
  BY DEF TemplateSet
<1>2. CASE groups = <<>>
  BY <1>2 DEF Template
<1>3. CASE groups # <<>>
  <2>1. Last(groups) \in Patterns
    BY <1>3, PrefixType DEF AppType
  <2>2. /\ Last(groups) \o path.segments \in Patterns
        /\ Begins(Last(groups) \o path.segments, Last(groups))
    BY <1>1, <2>1, JoinBegins
  <2> DEFINE single == [i \in DOMAIN Last(groups) |-> 1]
             inner == IF path.segments = <<>> THEN <<>> ELSE [path.slashes EXCEPT ![1] = 1]
             slashes == IF Last(groups) \o path.segments = <<>> THEN <<1>> ELSE single \o inner
  <2>3. Template(path) = [segments |-> Last(groups) \o path.segments, slashes |-> slashes]
    BY <1>3 DEF Template, Join, Path, Prefix
  <2>4. slashes \in Seq(Nat)
    <3>1. single \in Seq(Nat)
      <4>1. Len(Last(groups)) \in Nat /\ DOMAIN Last(groups) = 1 .. Len(Last(groups))
        BY <2>1, LenProperties DEF Patterns
      <4>2. single \in [1 .. Len(Last(groups)) -> Nat]
        BY <4>1
      <4> QED
        BY <4>1, <4>2, SeqDef
    <3>2. inner \in Seq(Nat)
      <4>1. path.slashes \in Seq(Nat)
        BY DEF TemplateSet
      <4>2. Len(path.slashes) \in Nat /\ path.slashes \in [1 .. Len(path.slashes) -> Nat]
        BY <4>1, LenProperties
      <4>3. [path.slashes EXCEPT ![1] = 1] \in [1 .. Len(path.slashes) -> Nat]
        BY <4>2
      <4>4. [path.slashes EXCEPT ![1] = 1] \in Seq(Nat)
        BY <4>2, <4>3, SeqDef
      <4>5. <<>> \in Seq(Nat)
        BY EmptySeq
      <4> QED
        BY <4>4, <4>5
    <3>3. single \o inner \in Seq(Nat)
      <4> HIDE DEF single, inner
      <4> QED
        BY <3>1, <3>2, ConcatProperties
    <3>4. <<1>> \in Seq(Nat)
      OBVIOUS
    <3> QED
      BY <3>3, <3>4
  <2> HIDE DEF slashes
  <2> QED
    BY <2>2, <2>3, <2>4 DEF TemplateSet
<1> QED
  BY <1>2, <1>3

(* Registering is one of the builder's steps.                               *)
LEMMA RegisterKind ==
    ASSUME AppType, Register
    PROVE  RegisterStep \/ NestStep \/ DocumentStep
<1>1. Templates \subseteq TemplateSet /\ Prefixed \subseteq Patterns
  BY AppAssumption DEF TemplateSet, Patterns
<1>2. ASSUME NEW m \in Methods, NEW p \in Templates, AddRoute(m, p)
      PROVE  RegisterStep \/ DocumentStep
  <2> DEFINE t == Template(p)
  <2>1. t \in TemplateSet /\ (groups # <<>> => Begins(t.segments, Last(groups)))
    BY <1>1, TemplateType
  <2>2. CASE Captures(t.segments) > MaxCaptures
    BY <1>2, <2>2 DEF AddRoute, DocumentStep, AppType, Building
  <2>3. CASE ~(Captures(t.segments) > MaxCaptures)
    <3>1. t.segments \in Patterns
      BY <2>1 DEF TemplateSet
    <3>2. Captures(t.segments) <= MaxCaptures
      <4>1. Captures(t.segments) \in Nat /\ MaxCaptures \in Nat
        BY <3>1, CapturesNat, RouterAssumption
      <4> QED
        BY <2>3, <4>1
    <3>3. /\ phase = "building" /\ Rooted(t) /\ ~Duplicate(m, t) /\ Install(m, t)
          /\ UNCHANGED <<routeError, middleware, groups, openapiConfig, swaggerConfig, phase,
                         request>>
      BY <1>2, <2>3 DEF AddRoute, Building
    <3> HIDE DEF t
    <3> QED
      BY <2>1, <3>2, <3>3 DEF RegisterStep
  <2> QED
    BY <2>2, <2>3
<1>3. ASSUME NEW p \in Templates, AddStaticRoute(p)
      PROVE  RegisterStep
  <2> DEFINE t == Template(p)
  <2>1. t \in TemplateSet /\ (groups # <<>> => Begins(t.segments, Last(groups)))
    BY <1>1, TemplateType
  <2>2. /\ phase = "building" /\ Rooted(t) /\ ~Duplicate("GET", t) /\ IsStatic(t.segments)
        /\ Install("GET", t)
        /\ UNCHANGED <<routeError, middleware, groups, openapiConfig, swaggerConfig, phase,
                       request>>
    BY <1>3 DEF AddStaticRoute, Building
  <2> HIDE DEF t
  <2>3. "GET" \in Methods \union {"GET"}
    OBVIOUS
  <2> QED
    BY <2>1, <2>2, <2>3 DEF RegisterStep
<1>4. ASSUME NEW g \in Prefixed, OpenGroup(g)
      PROVE  NestStep
  BY <1>1, <1>4 DEF NestStep, OpenGroup
<1>5. CASE CloseGroup
  BY <1>5 DEF NestStep, CloseGroup
<1> QED
  BY <1>2, <1>3, <1>4, <1>5 DEF Register

(* A new layer has the scope its call gives it.                             *)
LEMMA LayerKind ==
    ASSUME AppType, RegisterLayer
    PROVE  LayerStep
<1>1. ASSUME NEW scope \in Scopes, NEW by \in {"app", "group", "layer_for", "route_layer"},
             NEW route \in Nat \union {None}, AddLayer(scope, by, route),
             RightLayer([scope |-> scope, by |-> by, route |-> route, groups |-> groups])
      PROVE  LayerStep
  <2> DEFINE l == [scope |-> scope, by |-> by, route |-> route, groups |-> groups]
  <2>1. l \in LayerSet
    BY DEF LayerSet, AppType
  <2>2. /\ phase = "building" /\ middleware' = Append(middleware, l)
        /\ UNCHANGED <<routeVars, groups, docVars, phase, request>>
    BY <1>1 DEF AddLayer, Building
  <2> HIDE DEF l
  <2> QED
    BY <1>1, <2>1, <2>2 DEF LayerStep, l
<1>2. ASSUME NEW p \in Patterns
      PROVE  ScopePrefix(p) \in Scopes
  BY DEF ScopePrefix, Scopes
<1>3. CASE Layer
  <2>1. ScopeAll \in Scopes
    <3>1. <<>> \in Patterns
      BY EmptySeq DEF Patterns
    <3> QED
      BY <3>1 DEF ScopeAll, Scopes
  <2>2. AddLayer(ScopeAll, "app", None)
    BY <1>3 DEF Layer
  <2> QED
    BY <1>1, <2>1, <2>2 DEF RightLayer
<1>4. CASE GroupLayer
  <2>1. groups # <<>> /\ AddLayer(ScopePrefix(Last(groups)), "group", None)
    BY <1>4 DEF GroupLayer, Prefix
  <2>2. ScopePrefix(Last(groups)) \in Scopes
    BY <1>2, <2>1, PrefixType DEF AppType
  <2> QED
    BY <1>1, <2>1, <2>2 DEF RightLayer
<1>5. ASSUME NEW g \in Prefixed, LayerFor(g)
      PROVE  LayerStep
  <2> DEFINE p == IF groups = <<>> THEN g ELSE Last(groups) \o g
  <2>1. g \in Patterns
    BY AppAssumption DEF Patterns
  <2>2. p \in Patterns
    BY <2>1, PrefixType, JoinBegins DEF AppType
  <2>3. AddLayer(ScopePrefix(p), "layer_for", None)
    BY <1>5 DEF LayerFor, Prefix
  <2> HIDE DEF p
  <2>4. ScopePrefix(p) \in Scopes
    BY <1>2, <2>2
  <2> QED
    BY <1>1, <2>3, <2>4 DEF RightLayer
<1>6. CASE RouteLayer
  <2> DEFINE r == metadata[lastRoute]
             s == ScopeRoute(r.method, r.template.segments)
             meant == IF dropped THEN None ELSE lastRoute
  <2>1. lastRoute \in DOMAIN metadata /\ AddLayer(s, "route_layer", meant)
    BY <1>6 DEF RouteLayer, AppType
  <2>2. r \in Routes /\ lastRoute \in Nat
    BY <2>1, ElementOfSeq, LenProperties DEF AppType
  <2>3. s \in Scopes
    BY <2>2 DEF ScopeRoute, Scopes, Routes, TemplateSet
  <2>5. meant \in Nat \union {None} /\ (meant # None => meant = lastRoute)
    BY <2>2
  <2> HIDE DEF s, meant
  <2>4. RightLayer([scope |-> s, by |-> "route_layer", route |-> meant, groups |-> groups])
    BY <2>1, <2>5 DEF RightLayer, s
  <2> QED
    BY <1>1, <2>1, <2>3, <2>4, <2>5
<1> QED
  BY <1>3, <1>4, <1>5, <1>6 DEF RegisterLayer

(* The options of the document are a configuration.                         *)
LEMMA OptionsType ==
    ASSUME AppType, DocPaths # {}, Tags # {}
    PROVE  Options \in Config
<1>1. (CHOOSE p \in DocPaths : TRUE) \in DocPaths /\ (CHOOSE t \in Tags : TRUE) \in Tags
  OBVIOUS
<1>2. DefaultConfig \in Config
  BY <1>1 DEF DefaultConfig, Config
<1> QED
  BY <1>2 DEF Options, AppType

(* Documenting changes no route but the last, and that only in its texts.   *)
LEMMA DocumentKind ==
    ASSUME AppType, Documentation
    PROVE  DescribeStep \/ DocumentStep
<1>1. ASSUME NEW op \in Routes, lastRoute # None, SameRoute(op, metadata[lastRoute]), Describe(op)
      PROVE  DescribeStep
  BY <1>1 DEF Describe, DescribeStep, Building, InvalidateOpenapiCache
<1>2. lastRoute # None => metadata[lastRoute] \in Routes
  BY ElementOfSeq, LenProperties DEF AppType
<1>3. ASSUME NEW t \in Tags, Tag(t)
      PROVE  DescribeStep
  <2> DEFINE op == [metadata[lastRoute] EXCEPT !.tag = t]
  <2>1. lastRoute # None /\ Describe(op)
    BY <1>3 DEF Tag
  <2>2. op \in Routes /\ SameRoute(op, metadata[lastRoute])
    BY <1>2, <2>1 DEF Routes, SameRoute
  <2> HIDE DEF op
  <2> QED
    BY <1>1, <2>1, <2>2
<1>4. ASSUME NEW s \in Schemes, Security(s)
      PROVE  DescribeStep
  <2> DEFINE old == metadata[lastRoute].security
             new == (IF old = None THEN {} ELSE old) \union {s}
             op == [metadata[lastRoute] EXCEPT !.security = new]
  <2>1. lastRoute # None /\ Describe(op)
    BY <1>4 DEF Security
  <2>2. new \in SUBSET Schemes
    <3>1. metadata[lastRoute] \in Routes
      BY <1>2, <2>1
    <3>2. metadata[lastRoute].security \in (SUBSET Schemes) \union {None}
      <4> DEFINE r == metadata[lastRoute]
      <4> HIDE DEF r
      <4>1. r \in Routes
        BY <3>1 DEF r
      <4>2. r.security \in (SUBSET Schemes) \union {None}
        BY <4>1 DEF Routes
      <4> QED
        BY <4>2 DEF r
    <3> HIDE DEF old
    <3>3. old \in (SUBSET Schemes) \union {None}
      BY <3>2 DEF old
    <3>4. CASE old = None
      BY <3>4
    <3>5. CASE old # None
      BY <3>3, <3>5
    <3> QED
      BY <3>4, <3>5
  <2> HIDE DEF new
  <2>3. op \in Routes /\ SameRoute(op, metadata[lastRoute])
    BY <1>2, <2>1, <2>2 DEF Routes, SameRoute
  <2> HIDE DEF op
  <2> QED
    BY <1>1, <2>1, <2>3
<1>5. CASE Public
  <2> DEFINE op == [metadata[lastRoute] EXCEPT !.security = {}]
  <2>1. lastRoute # None /\ Describe(op)
    BY <1>5 DEF Public
  <2>2. op \in Routes /\ SameRoute(op, metadata[lastRoute])
    BY <1>2, <2>1 DEF Routes, SameRoute
  <2> HIDE DEF op
  <2> QED
    BY <1>1, <2>1, <2>2
<1>6. ASSUME NEW options \in Config, Configure(options)
      PROVE  DocumentStep
  BY <1>6 DEF Configure, DocumentStep, Building, AppType, routeVars
<1>7. ASSUME NEW p \in DocPaths, OpenApiPath(p)
      PROVE  DocumentStep
  <2>1. Options \in Config
    BY OptionsType, AppAssumption
  <2>2. [Options EXCEPT !.path = p] \in Config
    BY <2>1 DEF Config
  <2> QED
    BY <1>6, <1>7, <2>2 DEF OpenApiPath
<1>8. ASSUME NEW t \in Tags, OpenApiTitle(t)
      PROVE  DocumentStep
  <2>1. Options \in Config
    BY OptionsType, AppAssumption
  <2>2. [Options EXCEPT !.title = t] \in Config
    BY <2>1 DEF Config
  <2> QED
    BY <1>6, <1>8, <2>2 DEF OpenApiTitle
<1>9. ASSUME NEW s \in Schemes, SecurityScheme(s)
      PROVE  DocumentStep
  <2>1. Options \in Config
    BY OptionsType, AppAssumption
  <2>2. [Options EXCEPT !.schemes = @ \union {s}] \in Config
    BY <2>1 DEF Config
  <2> QED
    BY <1>6, <1>9, <2>2 DEF SecurityScheme
<1>10. ASSUME NEW s \in Schemes, DefaultSecurity(s)
       PROVE  DocumentStep
  <2>1. Options \in Config
    BY OptionsType, AppAssumption
  <2>2. [Options EXCEPT !.default = @ \union {s}] \in Config
    BY <2>1 DEF Config
  <2> QED
    BY <1>6, <1>10, <2>2 DEF DefaultSecurity
<1>11. ASSUME NEW p \in DocPaths, Swagger(p)
       PROVE  DocumentStep
  BY <1>11 DEF Swagger, DocumentStep, Building, AppType, routeVars
<1>12. CASE OneShot
  BY <1>12 DEF OneShot, DocumentStep, Building, AppType, routeVars
<1> QED
  BY <1>3, <1>4, <1>5, <1>7, <1>8, <1>9, <1>10, <1>11, <1>12 DEF Documentation

(* The steps of the application, by what they change.                       *)
LEMMA StepKinds ==
    ASSUME AppType, [Next]_vars
    PROVE  \/ RegisterStep \/ DescribeStep \/ NestStep \/ LayerStep \/ DocumentStep
           \/ \E c \in BOOLEAN : Build(c)
           \/ ServeStep /\ (Serve \/ UNCHANGED request)
<1>1. CASE UNCHANGED vars
  BY <1>1 DEF vars, ServeStep
<1>2. CASE Serve
  BY <1>2 DEF Serve, Receive, PassOn, Answer, Respond, ServeStep
<1> QED
  BY <1>1, <1>2, RegisterKind, LayerKind, DocumentKind DEF Next

(* The empty builder is in order.                                           *)
LEMMA BuiltStarts == Init => BuiltInv
<1> SUFFICES ASSUME Init
             PROVE  BuiltInv
  OBVIOUS
<1>1. /\ metadata = <<>> /\ lastRoute = None /\ routeError = FALSE /\ middleware = <<>>
      /\ groups = <<>> /\ openapiConfig = None /\ swaggerConfig = None /\ phase = "building"
      /\ static = [p \in {} |-> NoRoutes] /\ dynamic = EmptyTrie
  BY DEF Init
<1>2. AppType
  BY <1>1, EmptySeq DEF AppType
<1>3. DOMAIN metadata = {} /\ DOMAIN middleware = {} /\ DOMAIN groups = {}
  BY <1>1
<1>4. Trie(dynamic)
  <2>1. DOMAIN dynamic = {<<>>} /\ dynamic[<<>>] = NoRoutes
    BY <1>1 DEF EmptyTrie
  <2>2. <<>> \in Patterns /\ Len(<<>>) = 0
    BY EmptySeq DEF Patterns
  <2>3. ASSUME NEW k \in 0 .. Len(<<>>)
        PROVE  SubSeq(<<>>, 1, k) = <<>>
    BY <2>2, SubSeqEmpty
  <2> QED
    BY <2>1, <2>2, <2>3 DEF Trie
<1>5. Tables
  <2>1. DOMAIN static = {}
    BY <1>1
  <2>2. \A n \in DOMAIN dynamic : DOMAIN dynamic[n] = {}
    BY <1>1 DEF EmptyTrie, NoRoutes
  <2> QED
    BY <1>3, <1>4, <2>1, <2>2 DEF Tables, TablesOf
<1>6. GroupsInv
  BY <1>3 DEF GroupsInv, Chain
<1> QED
  BY <1>2, <1>3, <1>5, <1>6 DEF BuiltInv

(* One more route: those before keep their places.                          *)
LEMMA RouteAppended ==
    ASSUME NEW routes \in Seq(Routes), NEW r \in Routes
    PROVE  /\ Append(routes, r) \in Seq(Routes)
           /\ Len(routes) + 1 \in Nat
           /\ DOMAIN Append(routes, r) = DOMAIN routes \union {Len(routes) + 1}
           /\ Append(routes, r)[Len(routes) + 1] = r
           /\ \A i \in DOMAIN routes : Append(routes, r)[i] = routes[i]
<1>1. Len(routes) \in Nat /\ DOMAIN routes = 1 .. Len(routes)
  BY LenProperties
<1>2. /\ Append(routes, r) \in Seq(Routes) /\ Len(Append(routes, r)) = Len(routes) + 1
      /\ Append(routes, r)[Len(routes) + 1] = r
      /\ \A i \in 1 .. Len(routes) : Append(routes, r)[i] = routes[i]
  BY AppendProperties
<1>3. DOMAIN Append(routes, r) = 1 .. Len(routes) + 1
  BY <1>2, LenProperties
<1> QED
  BY <1>1, <1>2, <1>3

(* Layers and groups of the routes stay right while routes are added.       *)
Continues(more) ==
    /\ \A i \in DOMAIN metadata : i \in DOMAIN more /\ SameRoute(more[i], metadata[i])
    /\ \A i \in DOMAIN more : i \notin DOMAIN metadata => InGroups(more[i])

(* Layers and groups stay right when no route loses its place.              *)
LEMMA ContinuesRight ==
    ASSUME BuiltInv, Continues(metadata'), UNCHANGED <<groups, middleware>>
    PROVE  GroupsInv' /\ \A i \in DOMAIN middleware' : RightLayer(middleware[i])'
<1>1. groups' = groups /\ middleware' = middleware
  OBVIOUS
<1>2. GroupsInv /\ \A i \in DOMAIN middleware : RightLayer(middleware[i])
  BY DEF BuiltInv
<1>3. \A i \in DOMAIN metadata' : InGroups(metadata'[i])
  <2> SUFFICES ASSUME NEW i \in DOMAIN metadata'
               PROVE  InGroups(metadata'[i])
    OBVIOUS
  <2>1. CASE i \in DOMAIN metadata
    BY <1>2, <2>1 DEF Continues, SameRoute, GroupsInv, InGroups
  <2>2. CASE i \notin DOMAIN metadata
    BY <2>2 DEF Continues
  <2> QED
    BY <2>1, <2>2
<1>4. ASSUME NEW i \in DOMAIN middleware'
      PROVE  RightLayer(middleware[i])'
  <2>1. RightLayer(middleware[i])
    BY <1>1, <1>2
  <2> QED
    BY <1>1, <2>1 DEF RightLayer, Continues, SameRoute
<1> QED
  BY <1>1, <1>2, <1>3, <1>4 DEF GroupsInv

(* A new route.                                                             *)
LEMMA RouteType ==
    ASSUME groups \in Seq(Patterns), NEW method \in Methods \union {"GET"},
           NEW template \in TemplateSet, NEW builtin \in BOOLEAN
    PROVE  /\ Route(method, template, builtin) \in Routes
           /\ Route(method, template, builtin).method = method
           /\ Route(method, template, builtin).template = template
           /\ Route(method, template, builtin).builtin = builtin
           /\ Route(method, template, builtin).groups = groups
<1> DEFINE G == Seq(Patterns)
           TT == Tags \union {None}
           SS == (SUBSET Schemes) \union {None}
           MM == Methods \union {"GET"}
<1>1. None \in TT /\ None \in SS
  OBVIOUS
<1>2. groups \in G /\ method \in MM
  OBVIOUS
<1>3. Routes = [method : MM, template : TemplateSet, builtin : BOOLEAN,
                tag : TT, security : SS, groups : G]
  BY DEF Routes
<1> HIDE DEF G, TT, SS, MM
<1>4. Route(method, template, builtin) \in Routes
  BY <1>1, <1>2, <1>3 DEF Route
<1> QED
  BY <1>4 DEF Route

(* A new route enters the tables and leaves the others where they are.      *)
LEMMA RegisterKeeps ==
    ASSUME BuiltInv, RegisterStep
    PROVE  BuiltInv'
<1>1. PICK method \in Methods \union {"GET"} : \E template \in TemplateSet :
        /\ Rooted(template)
        /\ ~Duplicate(method, template)
        /\ IsStatic(template.segments) \/ Captures(template.segments) <= MaxCaptures
        /\ groups # <<>> => Begins(template.segments, Last(groups))
        /\ Install(method, template)
        /\ UNCHANGED <<routeError, middleware, groups, openapiConfig, swaggerConfig, phase, request>>
  BY DEF RegisterStep
<1>2. PICK template \in TemplateSet :
        /\ Rooted(template)
        /\ ~Duplicate(method, template)
        /\ IsStatic(template.segments) \/ Captures(template.segments) <= MaxCaptures
        /\ groups # <<>> => Begins(template.segments, Last(groups))
        /\ Install(method, template)
        /\ UNCHANGED <<routeError, middleware, groups, openapiConfig, swaggerConfig, phase, request>>
  BY <1>1
<1> DEFINE r == Route(method, template, FALSE)
           n == Len(metadata) + 1
<1>3. AppType /\ Tables /\ GroupsInv /\ metadata \in Seq(Routes) /\ groups \in Seq(Patterns)
  BY DEF BuiltInv, AppType
<1>4. r \in Routes /\ r.method = method /\ r.template = template /\ r.groups = groups
  BY <1>3, RouteType
<1>5. /\ metadata' = Append(metadata, r) /\ lastRoute' = n
      /\ IF IsStatic(template.segments)
         THEN static' = InsertStatic(static, template, method, n) /\ dynamic' = dynamic
         ELSE dynamic' = InsertRoute(dynamic, template.segments, method, n) /\ static' = static
  BY <1>2 DEF Install
<1> HIDE DEF r
<1>6. /\ metadata' \in Seq(Routes) /\ n \in Nat
      /\ DOMAIN metadata' = DOMAIN metadata \union {n} /\ metadata'[n] = r
      /\ \A i \in DOMAIN metadata : metadata'[i] = metadata[i]
  BY <1>3, <1>4, <1>5, RouteAppended
<1>7. AppType'
  <2>1. UNCHANGED <<routeError, middleware, groups, openapiConfig, swaggerConfig, phase>>
    BY <1>2
  <2>2. lastRoute' \in DOMAIN metadata' \union {None}
    BY <1>5, <1>6
  <2> QED
    BY <1>3, <1>6, <2>1, <2>2 DEF AppType, Config
<1>8. Tables'
  <2>1. CASE IsStatic(template.segments)
    <3>1. ~(template \in DOMAIN static /\ method \in DOMAIN static[template])
      BY <1>2, <1>3 DEF Tables, TablesOf, Duplicate
    <3>2. TablesOf(Append(metadata, r), InsertStatic(static, template, method, n), dynamic)
      BY <1>3, <1>4, <2>1, <3>1, TextAdded DEF Tables
    <3> QED
      BY <1>5, <2>1, <3>2 DEF Tables
  <2>2. CASE ~IsStatic(template.segments)
    <3>1. ~(template.segments \in DOMAIN dynamic /\ method \in DOMAIN dynamic[template.segments])
      BY <1>2, <2>2 DEF Duplicate
    <3>2. TablesOf(Append(metadata, r), static,
                   InsertRoute(dynamic, template.segments, method, n))
      BY <1>2, <1>3, <1>4, <2>2, <3>1, PatternAdded DEF Tables
    <3> QED
      BY <1>5, <2>2, <3>2 DEF Tables
  <2> QED
    BY <2>1, <2>2
<1>9. Continues(metadata')
  <2>1. InGroups(r)
    BY <1>2, <1>3, <1>4 DEF InGroups, GroupsInv
  <2> QED
    BY <1>6, <2>1 DEF Continues, SameRoute
<1>10. UNCHANGED <<groups, middleware>>
  BY <1>2
<1>11. GroupsInv' /\ \A i \in DOMAIN middleware' : RightLayer(middleware[i])'
  BY <1>9, <1>10, ContinuesRight
<1> QED
  BY <1>7, <1>8, <1>11 DEF BuiltInv

(* Texts of a route are in no table.                                        *)
LEMMA DescriptionKeeps ==
    ASSUME BuiltInv, DescribeStep
    PROVE  BuiltInv'
<1>1. PICK op \in Routes : /\ SameRoute(op, metadata[lastRoute])
                           /\ metadata' = [metadata EXCEPT ![lastRoute] = op]
  BY DEF DescribeStep
<1>2. /\ lastRoute # None
      /\ static' = static /\ dynamic' = dynamic /\ lastRoute' = lastRoute
      /\ UNCHANGED <<routeError, middleware, groups, openapiConfig, swaggerConfig, phase>>
  BY DEF DescribeStep
<1>3. /\ metadata \in Seq(Routes) /\ lastRoute \in DOMAIN metadata
      /\ DOMAIN metadata = 1 .. Len(metadata)
  BY <1>2, LenProperties DEF BuiltInv, AppType
<1>4. /\ metadata' \in Seq(Routes) /\ DOMAIN metadata' = DOMAIN metadata
      /\ \A i \in DOMAIN metadata : SameRoute(metadata'[i], metadata[i])
  <2>1. metadata' \in Seq(Routes)
    BY <1>1, <1>3, ExceptSeq
  <2> QED
    BY <1>1, <1>3, <2>1 DEF SameRoute
<1>5. AppType'
  BY <1>2, <1>4 DEF BuiltInv, AppType, Config
<1>6. Tables'
  <2>1. TablesOf(metadata', static, dynamic)
    BY <1>4 DEF BuiltInv, Tables, TablesOf, SameRoute
  <2> QED
    BY <1>2, <2>1 DEF Tables
<1>7. Continues(metadata')
  BY <1>4 DEF Continues
<1>8. GroupsInv' /\ \A i \in DOMAIN middleware' : RightLayer(middleware[i])'
  BY <1>2, <1>7, ContinuesRight
<1> QED
  BY <1>5, <1>6, <1>8 DEF BuiltInv

(* The prefixes of groups grow inwards.                                     *)
LEMMA BeginsTransitive ==
    ASSUME NEW s \in Patterns, NEW t \in Patterns, NEW u \in Patterns, Begins(s, t), Begins(t, u)
    PROVE  Begins(s, u)
<1>1. Len(s) \in Nat /\ Len(t) \in Nat /\ Len(u) \in Nat
  BY LenProperties DEF Patterns
<1> QED
  BY <1>1 DEF Begins

(* A group opened within the innermost one goes on with its prefix.         *)
LEMMA ChainGrows ==
    ASSUME NEW c \in Seq(Patterns), Chain(c), NEW p \in Patterns, c # <<>> => Begins(p, Last(c))
    PROVE  Append(c, p) \in Seq(Patterns) /\ Chain(Append(c, p))
<1> DEFINE more == Append(c, p)
           n == Len(c) + 1
<1>1. Len(c) \in Nat /\ DOMAIN c = 1 .. Len(c)
  BY LenProperties
<1>2. /\ more \in Seq(Patterns) /\ Len(more) = n
      /\ more[n] = p /\ \A i \in 1 .. Len(c) : more[i] = c[i]
  BY AppendProperties
<1>3. DOMAIN more = 1 .. n
  <2> HIDE DEF more, n
  <2> QED
    BY <1>2, LenProperties
<1> HIDE DEF more
<1>4. ASSUME NEW a \in DOMAIN more, NEW b \in DOMAIN more, a <= b
      PROVE  Begins(more[b], more[a])
  <2>1. CASE b # n
    <3>1. a \in DOMAIN c /\ b \in DOMAIN c /\ more[a] = c[a] /\ more[b] = c[b]
      BY <1>1, <1>2, <1>3, <1>4, <2>1
    <3> QED
      BY <1>4, <3>1 DEF Chain
  <2>2. CASE b = n /\ a = n
    <3>1. Len(p) \in Nat
      BY LenProperties DEF Patterns
    <3> QED
      BY <1>2, <2>2, <3>1 DEF Begins
  <2>3. CASE b = n /\ a # n
    <3>1. a \in DOMAIN c /\ more[a] = c[a] /\ c # <<>> /\ a <= Len(c)
      BY <1>1, <1>2, <1>3, <2>3
    <3>2. Last(c) \in Patterns /\ Len(c) \in DOMAIN c /\ Last(c) = c[Len(c)]
      BY <3>1, PrefixType
    <3>3. Begins(Last(c), c[a])
      BY <3>1, <3>2 DEF Chain
    <3>4. c[a] \in Patterns
      BY <1>1, <3>1, ElementOfSeq
    <3>5. Begins(p, c[a])
      BY <3>1, <3>2, <3>3, <3>4, BeginsTransitive
    <3> QED
      BY <1>2, <2>3, <3>1, <3>5
  <2> QED
    BY <2>1, <2>2, <2>3
<1>5. Chain(more)
  BY <1>4 DEF Chain
<1> QED
  BY <1>2, <1>5 DEF more

(* Opening and closing groups changes no route and no layer.                *)
LEMMA NestKeeps ==
    ASSUME BuiltInv, NestStep
    PROVE  BuiltInv'
<1>1. UNCHANGED <<metadata, static, dynamic, lastRoute, routeError, middleware, openapiConfig,
                  swaggerConfig, phase>>
  BY DEF NestStep, routeVars, docVars
<1>2. groups \in Seq(Patterns) /\ Chain(groups)
  BY DEF BuiltInv, AppType, GroupsInv
<1>3. groups' \in Seq(Patterns) /\ Chain(groups')
  <2>1. ASSUME NEW pattern \in Patterns, OpenGroup(pattern)
        PROVE  groups' \in Seq(Patterns) /\ Chain(groups')
    <3>1. CASE groups = <<>>
      <4>1. groups' = Append(groups, pattern)
        BY <2>1, <3>1 DEF OpenGroup
      <4> QED
        BY <1>2, <3>1, <4>1, ChainGrows
    <3>2. CASE groups # <<>>
      <4>1. groups' = Append(groups, Last(groups) \o pattern)
        BY <2>1, <3>2 DEF OpenGroup, Prefix
      <4>2. Last(groups) \o pattern \in Patterns /\ Begins(Last(groups) \o pattern, Last(groups))
        BY <1>2, <3>2, PrefixType, JoinBegins
      <4> QED
        BY <1>2, <4>1, <4>2, ChainGrows
    <3> QED
      BY <3>1, <3>2
  <2>2. ASSUME CloseGroup
        PROVE  groups' \in Seq(Patterns) /\ Chain(groups')
    <3>1. groups # <<>> /\ groups' = SubSeq(groups, 1, Len(groups) - 1)
      BY <2>2 DEF CloseGroup, Front
    <3>2. Len(groups) \in Nat \ {0} /\ DOMAIN groups = 1 .. Len(groups)
      BY <1>2, <3>1, EmptySeq, LenProperties
    <3>3. Len(groups) - 1 \in 0 .. Len(groups)
      BY <3>2
    <3>4. /\ groups' \in Seq(Patterns) /\ Len(groups') = Len(groups) - 1
          /\ \A i \in 1 .. Len(groups) - 1 : groups'[i] = groups[i]
      BY <1>2, <3>1, <3>3, Beginning
    <3>5. DOMAIN groups' = 1 .. Len(groups) - 1
      BY <3>4, LenProperties
    <3>6. Chain(groups')
      BY <1>2, <3>2, <3>4, <3>5 DEF Chain
    <3> QED
      BY <3>4, <3>6
  <2> QED
    BY <2>1, <2>2 DEF NestStep
<1>4. AppType'
  BY <1>1, <1>3 DEF BuiltInv, AppType, Config
<1>5. Tables'
  BY <1>1 DEF BuiltInv, Tables
<1>6. GroupsInv'
  BY <1>1, <1>3 DEF BuiltInv, GroupsInv
<1>7. ASSUME NEW i \in DOMAIN middleware'
      PROVE  RightLayer(middleware[i])'
  BY <1>1 DEF BuiltInv, RightLayer
<1> QED
  BY <1>4, <1>5, <1>6, <1>7 DEF BuiltInv

(* A new layer is right and stays behind the others.                        *)
LEMMA LayerKeeps ==
    ASSUME BuiltInv, LayerStep
    PROVE  BuiltInv'
<1>1. UNCHANGED <<metadata, static, dynamic, lastRoute, routeError, groups, openapiConfig,
                  swaggerConfig, phase>>
  BY DEF LayerStep, routeVars, docVars
<1>2. PICK l \in LayerSet : RightLayer(l) /\ middleware' = Append(middleware, l)
  BY DEF LayerStep
<1>3. middleware \in Seq(LayerSet) /\ Len(middleware) \in Nat /\ DOMAIN middleware = 1 .. Len(middleware)
  BY LenProperties DEF BuiltInv, AppType
<1>4. /\ middleware' \in Seq(LayerSet) /\ Len(middleware') = Len(middleware) + 1
      /\ \A i \in 1 .. Len(middleware) : middleware'[i] = middleware[i]
      /\ middleware'[Len(middleware) + 1] = l
  BY <1>2, <1>3, AppendProperties
<1>5. DOMAIN middleware' = 1 .. Len(middleware) + 1
  BY <1>4, LenProperties
<1>6. AppType'
  BY <1>1, <1>4 DEF BuiltInv, AppType, Config
<1>7. Tables' /\ GroupsInv'
  BY <1>1 DEF BuiltInv, Tables, GroupsInv
<1>8. ASSUME NEW i \in DOMAIN middleware'
      PROVE  RightLayer(middleware[i])'
  <2>1. RightLayer(middleware'[i])
    BY <1>2, <1>3, <1>4, <1>5 DEF BuiltInv
  <2> QED
    BY <1>1, <2>1 DEF RightLayer
<1> QED
  BY <1>6, <1>7, <1>8 DEF BuiltInv

(* Settings of the document are in no table.                                *)
LEMMA DocumentKeeps ==
    ASSUME BuiltInv, DocumentStep
    PROVE  BuiltInv'
<1>1. UNCHANGED <<metadata, static, dynamic, lastRoute, middleware, groups, phase>>
  BY DEF DocumentStep
<1>2. AppType'
  BY <1>1 DEF DocumentStep, BuiltInv, AppType, Config
<1>3. Tables' /\ GroupsInv'
  BY <1>1 DEF BuiltInv, Tables, GroupsInv
<1>4. ASSUME NEW i \in DOMAIN middleware'
      PROVE  RightLayer(middleware[i])'
  BY <1>1 DEF BuiltInv, RightLayer
<1> QED
  BY <1>2, <1>3, <1>4 DEF BuiltInv

(* At most two routes are generated.                                        *)
LEMMA GeneratedType ==
    ASSUME AppType
    PROVE  GeneratedPaths \in Seq(DocPaths) /\ Len(GeneratedPaths) \in 0 .. 2
<1> DEFINE a == IF openapiConfig = None THEN <<>> ELSE <<openapiConfig.path>>
           b == IF swaggerConfig = None THEN <<>> ELSE <<swaggerConfig>>
<1>1. a \in Seq(DocPaths) /\ Len(a) \in 0 .. 1
  <2>1. CASE openapiConfig = None
    BY <2>1, EmptySeq
  <2>2. CASE openapiConfig # None
    <3>1. openapiConfig.path \in DocPaths
      BY <2>2 DEF AppType, Config
    <3> QED
      BY <2>2, <3>1
  <2> QED
    BY <2>1, <2>2
<1>2. b \in Seq(DocPaths) /\ Len(b) \in 0 .. 1
  <2>1. CASE swaggerConfig = None
    BY <2>1, EmptySeq
  <2>2. CASE swaggerConfig # None
    <3>1. swaggerConfig \in DocPaths
      BY <2>2 DEF AppType
    <3> QED
      BY <2>2, <3>1
  <2> QED
    BY <2>1, <2>2
<1>3. GeneratedPaths = a \o b
  BY DEF GeneratedPaths
<1> HIDE DEF a, b
<1>4. a \o b \in Seq(DocPaths) /\ Len(a \o b) = Len(a) + Len(b)
  BY <1>1, <1>2, ConcatProperties
<1> QED
  BY <1>1, <1>2, <1>3, <1>4

(* The routes of generated paths, added one at a time.                      *)
LEMMA TextsOfGenerated ==
    ASSUME NEW n \in 0 .. 2, Len(GeneratedPaths) = n, InstallGeneratedRoutes
    PROVE  \E one, two :
               /\ one = InsertStatic(static, GeneratedPaths[1], "GET", Len(metadata) + 1)
               /\ two = InsertStatic(one, GeneratedPaths[2], "GET", Len(metadata) + 2)
               /\ static' = IF n = 0 THEN static ELSE IF n = 1 THEN one ELSE two
<1> DEFINE e(f) == [i \in 0 .. n |->
                       IF i = 0 THEN static
                       ELSE InsertStatic(f[i - 1], GeneratedPaths[i], "GET", Len(metadata) + i)]
           with == CHOOSE f : f = e(f)
           one == InsertStatic(static, GeneratedPaths[1], "GET", Len(metadata) + 1)
           two == InsertStatic(one, GeneratedPaths[2], "GET", Len(metadata) + 2)
           g == [i \in 0 .. n |-> IF i = 0 THEN static ELSE IF i = 1 THEN one ELSE two]
<1>1. static' = with[n]
  BY DEF InstallGeneratedRoutes
<1>2. g = e(g)
  <2>1. \A i \in 0 .. n : g[i] = e(g)[i]
    <3> SUFFICES ASSUME NEW i \in 0 .. n
                 PROVE  g[i] = e(g)[i]
      OBVIOUS
    <3>1. CASE i = 0
      BY <3>1
    <3>2. CASE i = 1
      <4>1. g[0] = static /\ g[1] = one
        BY <3>2
      <4>2. e(g)[1] = InsertStatic(g[0], GeneratedPaths[1], "GET", Len(metadata) + 1)
        BY <3>2
      <4> QED
        BY <3>2, <4>1, <4>2
    <3>3. CASE i = 2
      <4>1. g[1] = one /\ g[2] = two
        BY <3>3
      <4>2. e(g)[2] = InsertStatic(g[1], GeneratedPaths[2], "GET", Len(metadata) + 2)
        BY <3>3
      <4> QED
        BY <3>3, <4>1, <4>2
    <3> QED
      BY <3>1, <3>2, <3>3
  <2> QED
    BY <2>1
<1>3. \E f : f = e(f)
  BY <1>2
<1>4. with = e(with)
  <2> HIDE DEF e
  <2> QED
    BY <1>3
<1> HIDE DEF with
<1>5. with[0] = static
  BY <1>4
<1>6. n >= 1 => with[1] = one
  BY <1>4, <1>5
<1>7. n = 2 => with[2] = two
  <2> HIDE DEF one
  <2> QED
    BY <1>4, <1>6
<1> HIDE DEF one, two
<1>8. static' = IF n = 0 THEN static ELSE IF n = 1 THEN one ELSE two
  BY <1>1, <1>5, <1>6, <1>7
<1> QED
  BY <1>8 DEF one, two

(* A generated route is a route of no group.                                *)
LEMMA GeneratedRoute ==
    ASSUME AppType, NEW i \in 1 .. Len(GeneratedPaths)
    PROVE  /\ Generated(GeneratedPaths[i]) \in Routes
           /\ Generated(GeneratedPaths[i]).method = "GET"
           /\ Generated(GeneratedPaths[i]).template = GeneratedPaths[i]
           /\ Generated(GeneratedPaths[i]).builtin
           /\ groups = <<>> => InGroups(Generated(GeneratedPaths[i]))
<1> DEFINE p == GeneratedPaths[i]
<1>1. p \in DocPaths
  BY GeneratedType, ElementOfSeq
<1>2. p \in TemplateSet
  BY <1>1, AppAssumption DEF TemplateSet, Patterns
<1> HIDE DEF p
<1>3. "GET" \in Methods \union {"GET"} /\ TRUE \in BOOLEAN /\ groups \in Seq(Patterns)
  BY DEF AppType
<1>4. /\ Generated(p) \in Routes /\ Generated(p).method = "GET" /\ Generated(p).template = p
      /\ Generated(p).builtin /\ Generated(p).groups = groups
  BY <1>2, <1>3, RouteType DEF Generated
<1>5. groups = <<>> => DOMAIN groups = {}
  OBVIOUS
<1>6. groups = <<>> => InGroups(Generated(p))
  BY <1>4, <1>5 DEF InGroups, Chain
<1> QED
  BY <1>4, <1>6 DEF p

(* The routes build() appends for the generated paths.                      *)
LEMMA RoutesOfGenerated ==
    ASSUME AppType, NEW n \in 0 .. 2, Len(GeneratedPaths) = n, InstallGeneratedRoutes
    PROVE  metadata' = IF n = 0 THEN metadata
                       ELSE IF n = 1 THEN Append(metadata, Generated(GeneratedPaths[1]))
                       ELSE Append(Append(metadata, Generated(GeneratedPaths[1])),
                                   Generated(GeneratedPaths[2]))
<1> DEFINE new == [i \in 1 .. n |-> Generated(GeneratedPaths[i])]
           R == Routes
           a == Append(metadata, Generated(GeneratedPaths[1]))
           b == Append(a, Generated(GeneratedPaths[2]))
           both == metadata \o new
<1>1. metadata \in Seq(R) /\ Len(metadata) \in Nat
  BY LenProperties DEF AppType
<1>2. \A i \in 1 .. n : Generated(GeneratedPaths[i]) \in R
  BY GeneratedRoute
<1> HIDE DEF R
<1>3. new \in Seq(R) /\ Len(new) = n /\ \A i \in 1 .. n : new[i] = Generated(GeneratedPaths[i])
  <2>1. new \in [1 .. n -> R]
    BY <1>2
  <2>2. new \in Seq(R)
    BY <2>1
  <2>3. DOMAIN new = 1 .. n
    OBVIOUS
  <2>4. Len(new) = n
    <3> HIDE DEF new
    <3> QED
      BY <2>2, <2>3, LenProperties
  <2> QED
    BY <2>2, <2>4
<1>4. metadata' = both
  BY DEF InstallGeneratedRoutes
<1> HIDE DEF new
<1>5. /\ both \in Seq(R) /\ Len(both) = Len(metadata) + n
      /\ \A i \in 1 .. Len(metadata) + n :
             both[i] = IF i <= Len(metadata) THEN metadata[i] ELSE new[i - Len(metadata)]
  BY <1>1, <1>3, ConcatProperties
<1>6. n >= 1 =>
         /\ a \in Seq(R) /\ Len(a) = Len(metadata) + 1
         /\ \A i \in 1 .. Len(metadata) : a[i] = metadata[i]
         /\ a[Len(metadata) + 1] = new[1]
  BY <1>1, <1>2, <1>3, AppendProperties
<1>7. n = 2 =>
         /\ b \in Seq(R) /\ Len(b) = Len(a) + 1
         /\ \A i \in 1 .. Len(a) : b[i] = a[i]
         /\ b[Len(a) + 1] = new[2]
  <2> HIDE DEF a
  <2> QED
    BY <1>2, <1>3, <1>6, AppendProperties
<1> HIDE DEF both, a, b
<1>8. CASE n = 0
  <2>1. both = metadata
    BY <1>1, <1>5, <1>8, SeqEqual
  <2> QED
    BY <1>4, <1>8, <2>1
<1>9. CASE n = 1
  <2>1. both = a
    BY <1>1, <1>5, <1>6, <1>9, SeqEqual
  <2> QED
    BY <1>4, <1>9, <2>1 DEF a
<1>10. CASE n = 2
  <2>1. Len(b) = Len(both)
    BY <1>1, <1>5, <1>6, <1>7, <1>10
  <2>2. \A i \in 1 .. Len(both) : both[i] = b[i]
    BY <1>1, <1>5, <1>6, <1>7, <1>10
  <2>3. both = b
    BY <1>5, <1>7, <1>10, <2>1, <2>2, SeqEqual
  <2> QED
    BY <1>4, <1>10, <2>3 DEF b, a
<1> QED
  BY <1>8, <1>9, <1>10 DEF a, b

(* What build() installs: nothing that was registered is changed.           *)
LEMMA InstalledGenerated ==
    ASSUME BuiltInv, groups = <<>>, ~GeneratedConflict, InstallGeneratedRoutes
    PROVE  /\ metadata' \in Seq(Routes)
           /\ TablesOf(metadata', static', dynamic)
           /\ \A i \in DOMAIN metadata : i \in DOMAIN metadata' /\ metadata'[i] = metadata[i]
           /\ \A i \in DOMAIN metadata' : i \notin DOMAIN metadata =>
                   metadata'[i].builtin /\ InGroups(metadata'[i])
<1> DEFINE n == Len(GeneratedPaths)
           k == Len(metadata)
           p1 == GeneratedPaths[1]
           p2 == GeneratedPaths[2]
           r1 == Generated(p1)
           r2 == Generated(p2)
           m1 == Append(metadata, r1)
           m2 == Append(m1, r2)
<1>1. AppType /\ metadata \in Seq(Routes) /\ TablesOf(metadata, static, dynamic)
  BY DEF BuiltInv, AppType, Tables
<1>2. n \in 0 .. 2 /\ k \in Nat /\ DOMAIN GeneratedPaths = 1 .. n /\ DOMAIN metadata = 1 .. k
  BY <1>1, GeneratedType, LenProperties
<1>3. PICK one, two :
         /\ one = InsertStatic(static, p1, "GET", k + 1)
         /\ two = InsertStatic(one, p2, "GET", k + 2)
         /\ static' = IF n = 0 THEN static ELSE IF n = 1 THEN one ELSE two
  BY <1>2, TextsOfGenerated
<1>4. metadata' = IF n = 0 THEN metadata ELSE IF n = 1 THEN m1 ELSE m2
  BY <1>1, <1>2, RoutesOfGenerated
<1>5. ASSUME NEW i \in 1 .. n
      PROVE  /\ Generated(GeneratedPaths[i]) \in Routes
             /\ Generated(GeneratedPaths[i]).method = "GET"
             /\ Generated(GeneratedPaths[i]).template = GeneratedPaths[i]
             /\ Generated(GeneratedPaths[i]).builtin
             /\ InGroups(Generated(GeneratedPaths[i]))
  BY <1>1, GeneratedRoute
<1>6. ASSUME NEW i \in 1 .. n
      PROVE  /\ IsStatic(GeneratedPaths[i].segments)
             /\ ~(GeneratedPaths[i] \in DOMAIN static /\ "GET" \in DOMAIN static[GeneratedPaths[i]])
             /\ \A j \in 1 .. i - 1 : GeneratedPaths[j] # GeneratedPaths[i]
  BY <1>2 DEF GeneratedConflict
<1> HIDE DEF n, k, p1, p2, r1, r2, m1, m2
<1>7. n >= 1 =>
         /\ r1 \in Routes /\ r1.method = "GET" /\ r1.template = p1 /\ r1.builtin /\ InGroups(r1)
         /\ IsStatic(p1.segments) /\ ~(p1 \in DOMAIN static /\ "GET" \in DOMAIN static[p1])
  BY <1>2, <1>5, <1>6 DEF p1, r1
<1>8. n = 2 =>
         /\ r2 \in Routes /\ r2.method = "GET" /\ r2.template = p2 /\ r2.builtin /\ InGroups(r2)
         /\ IsStatic(p2.segments) /\ ~(p2 \in DOMAIN static /\ "GET" \in DOMAIN static[p2])
         /\ p1 # p2
  BY <1>2, <1>5, <1>6 DEF p1, p2, r2
<1>9. n >= 1 =>
         /\ m1 \in Seq(Routes) /\ DOMAIN m1 = DOMAIN metadata \union {k + 1}
         /\ m1[k + 1] = r1 /\ \A i \in DOMAIN metadata : m1[i] = metadata[i]
         /\ Len(m1) = k + 1
  <2>1. ASSUME n >= 1
        PROVE  Len(m1) = k + 1
    BY <1>1, <1>7, <2>1, AppendProperties DEF m1, k
  <2> QED
    BY <1>1, <1>7, <2>1, RouteAppended DEF m1, k
<1>10. n = 2 =>
         /\ m2 \in Seq(Routes) /\ DOMAIN m2 = DOMAIN m1 \union {k + 2}
         /\ m2[k + 2] = r2 /\ \A i \in DOMAIN m1 : m2[i] = m1[i]
  <2> SUFFICES ASSUME n = 2
               PROVE  /\ m2 \in Seq(Routes) /\ DOMAIN m2 = DOMAIN m1 \union {k + 2}
                      /\ m2[k + 2] = r2 /\ \A i \in DOMAIN m1 : m2[i] = m1[i]
    OBVIOUS
  <2>1. m1 \in Seq(Routes) /\ r2 \in Routes /\ Len(m1) + 1 = k + 2
    BY <1>2, <1>8, <1>9
  <2> QED
    BY <2>1, RouteAppended DEF m2
<1>11. n >= 1 => TablesOf(m1, one, dynamic)
  <2> SUFFICES ASSUME n >= 1
               PROVE  TablesOf(m1, one, dynamic)
    OBVIOUS
  <2>1. TablesOf(Append(metadata, r1),
                 InsertStatic(static, r1.template, r1.method, Len(metadata) + 1), dynamic)
    BY <1>1, <1>7, TextAdded
  <2> QED
    BY <1>3, <1>7, <2>1 DEF m1, k
<1>12. n = 2 => TablesOf(m2, two, dynamic)
  <2> SUFFICES ASSUME n = 2
               PROVE  TablesOf(m2, two, dynamic)
    OBVIOUS
  <2>1. ~(p2 \in DOMAIN one /\ "GET" \in DOMAIN one[p2])
    <3>1. DOMAIN one = DOMAIN static \union {p1} /\ \A p \in DOMAIN static \ {p1} : one[p] = static[p]
      BY <1>3 DEF InsertStatic
    <3> QED
      BY <1>8, <3>1
  <2>2. n >= 1
    BY <1>2
  <2>3. TablesOf(Append(m1, r2),
                 InsertStatic(one, r2.template, r2.method, Len(m1) + 1), dynamic)
    BY <1>8, <1>9, <1>11, <2>1, <2>2, TextAdded
  <2>4. Len(m1) + 1 = k + 2
    BY <1>2, <1>9, <2>2
  <2> QED
    BY <1>3, <1>8, <2>3, <2>4 DEF m2
<1>13. n = 0 \/ n = 1 \/ n = 2
  BY <1>2
<1>14. CASE n = 0
  BY <1>1, <1>3, <1>4, <1>14
<1>15. CASE n = 1
  <2>1. metadata' = m1 /\ static' = one
    BY <1>3, <1>4, <1>15
  <2> QED
    BY <1>2, <1>7, <1>9, <1>11, <1>15, <2>1
<1>16. CASE n = 2
  <2>1. metadata' = m2 /\ static' = two
    BY <1>3, <1>4, <1>16
  <2>2. n >= 1
    BY <1>16
  <2> QED
    BY <1>2, <1>7, <1>8, <1>9, <1>10, <1>12, <1>16, <2>1, <2>2
<1> QED
  BY <1>13, <1>14, <1>15, <1>16

(* build() leaves the tables in order, whether it fails or not.             *)
LEMMA BuildKeeps ==
    ASSUME BuiltInv, NEW c \in BOOLEAN, Build(c)
    PROVE  BuiltInv'
<1>1. CASE BuildFails(c)
  <2>1. /\ UNCHANGED <<metadata, static, dynamic, lastRoute, routeError, middleware, groups,
                       openapiConfig, swaggerConfig>>
        /\ phase' = "failed"
    BY <1>1 DEF Build
  <2>2. AppType'
    BY <2>1 DEF BuiltInv, AppType, Config
  <2>3. Tables' /\ GroupsInv'
    BY <2>1 DEF BuiltInv, Tables, GroupsInv
  <2>4. ASSUME NEW i \in DOMAIN middleware'
        PROVE  RightLayer(middleware[i])'
    BY <2>1 DEF BuiltInv, RightLayer
  <2> QED
    BY <2>2, <2>3, <2>4 DEF BuiltInv
<1>2. CASE ~BuildFails(c)
  <2>1. /\ UNCHANGED <<dynamic, lastRoute, routeError, middleware, groups, openapiConfig,
                       swaggerConfig>>
        /\ groups = <<>> /\ phase' = "serving" /\ ~GeneratedConflict /\ InstallGeneratedRoutes
    BY <1>2 DEF Build, BuildFails
  <2>2. /\ metadata' \in Seq(Routes)
        /\ TablesOf(metadata', static', dynamic)
        /\ \A i \in DOMAIN metadata : i \in DOMAIN metadata' /\ metadata'[i] = metadata[i]
        /\ \A i \in DOMAIN metadata' : i \notin DOMAIN metadata => InGroups(metadata'[i])
    BY <2>1, InstalledGenerated
  <2>3. AppType'
    BY <2>1, <2>2 DEF BuiltInv, AppType, Config
  <2>4. Tables'
    BY <2>1, <2>2 DEF Tables
  <2>5. Continues(metadata')
    BY <2>2 DEF Continues, SameRoute
  <2>6. GroupsInv' /\ \A i \in DOMAIN middleware' : RightLayer(middleware[i])'
    BY <2>1, <2>5, ContinuesRight
  <2> QED
    BY <2>3, <2>4, <2>6 DEF BuiltInv
<1> QED
  BY <1>1, <1>2

(* Serving changes nothing that was built.                                  *)
LEMMA ServeKeeps ==
    ASSUME BuiltInv, ServeStep
    PROVE  BuiltInv'
<1>1. UNCHANGED <<metadata, static, dynamic, lastRoute, routeError, middleware, groups,
                  openapiConfig, swaggerConfig, phase>>
  BY DEF ServeStep, routeVars, docVars
<1>2. AppType'
  BY <1>1 DEF BuiltInv, AppType, Config
<1>3. Tables' /\ GroupsInv'
  BY <1>1 DEF BuiltInv, Tables, GroupsInv
<1>4. ASSUME NEW i \in DOMAIN middleware'
      PROVE  RightLayer(middleware[i])'
  BY <1>1 DEF BuiltInv, RightLayer
<1> QED
  BY <1>2, <1>3, <1>4 DEF BuiltInv

(* The tables, the routes, the groups and the layers are in order in every  *)
(* reachable state.                                                         *)
THEOREM BuiltInvariance == Spec => []BuiltInv
<1>1. BuiltInv /\ [Next]_vars => BuiltInv'
  BY StepKinds, RegisterKeeps, DescriptionKeeps, NestKeeps, LayerKeeps, DocumentKeeps, BuildKeeps,
     ServeKeeps DEF BuiltInv
<1> QED
  BY <1>1, BuiltStarts, PTL DEF Spec

-----------------------------------------------------------------------------
(* The routes that answer.                                                  *)

(* The nodes of the trie with routes are the patterns of dynamic routes.    *)
LEMMA NodesOfRoutes ==
    ASSUME BuiltInv, NEW p
    PROVE  (p \in DOMAIN dynamic /\ dynamic[p] # NoRoutes)
             <=> (~IsStatic(p) /\ \E i \in DOMAIN metadata : metadata[i].template.segments = p)
<1>1. TablesOf(metadata, static, dynamic) /\ DOMAIN NoRoutes = {}
  BY DEF BuiltInv, Tables, NoRoutes
<1>2. ASSUME p \in DOMAIN dynamic, dynamic[p] # NoRoutes
      PROVE  ~IsStatic(p) /\ \E i \in DOMAIN metadata : metadata[i].template.segments = p
  <2>1. DOMAIN dynamic[p] # {}
    BY <1>1, <1>2 DEF TablesOf, Trie
  <2>2. PICK m : m \in DOMAIN dynamic[p]
    BY <2>1
  <2> QED
    BY <1>1, <1>2, <2>2 DEF TablesOf
<1>3. ASSUME ~IsStatic(p), NEW i \in DOMAIN metadata, metadata[i].template.segments = p
      PROVE  p \in DOMAIN dynamic /\ dynamic[p] # NoRoutes
  <2>1. p \in DOMAIN dynamic /\ metadata[i].method \in DOMAIN dynamic[p]
    BY <1>1, <1>3 DEF TablesOf
  <2> QED
    BY <1>1, <2>1
<1> QED
  BY <1>2, <1>3

(* Once built, a lookup in the trie finds, among the patterns of dynamic    *)
(* routes the path fits, the one with the leftmost literals.                *)
THEOREM BestRoute == Spec => []BestMatch
<1>1. ASSUME BuiltInv
      PROVE  BestMatch
  <2> SUFFICES ASSUME NEW path \in Probes
               PROVE  LET patterns == {metadata[i].template.segments : i \in DOMAIN metadata}
                          fitting == {p \in patterns : ~IsStatic(p) /\ Fits(p, path.segments)}
                          found == Find(dynamic, path.segments)
                      IN IF fitting = {} THEN found = None
                         ELSE /\ found \in fitting
                              /\ \A p \in fitting \ {found} : Precedes(found, p)
    BY DEF BestMatch
  <2> DEFINE patterns == {metadata[i].template.segments : i \in DOMAIN metadata}
             fitting == {p \in patterns : ~IsStatic(p) /\ Fits(p, path.segments)}
             found == Find(dynamic, path.segments)
  <2>1. path.segments \in Seq(Text)
    BY AppAssumption
  <2>2. Best(found, {p \in DOMAIN dynamic : dynamic[p] # NoRoutes /\ Fits(p, path.segments)})
    <3>1. Trie(dynamic)
      BY <1>1 DEF BuiltInv, Tables, TablesOf
    <3> QED
      BY <2>1, <3>1, FindBest
  <2>3. fitting = {p \in DOMAIN dynamic : dynamic[p] # NoRoutes /\ Fits(p, path.segments)}
    BY <1>1, NodesOfRoutes
  <2> HIDE DEF fitting, found
  <2>4. IF fitting = {} THEN found = None
        ELSE found \in fitting /\ \A p \in fitting \ {found} : Precedes(found, p)
    BY <2>2, <2>3 DEF Best
  <2> QED
    BY <2>4 DEF fitting, found
<1> QED
  BY <1>1, BuiltInvariance, PTL

(* Static patterns are those without a capture.                             *)
LEMMA StaticHasNoCapture ==
    ASSUME NEW p \in Patterns
    PROVE  IsStatic(p) <=> \A i \in DOMAIN p : p[i] # Capture
<1> DEFINE X == {i \in DOMAIN p : p[i] = Capture}
<1>1. IsFiniteSet(X)
  <2>1. X \subseteq 1 .. Len(p) /\ Len(p) \in Nat
    BY LenProperties DEF Patterns
  <2>2. IsFiniteSet(1 .. Len(p))
    BY <2>1, FS_Interval
  <2> HIDE DEF X
  <2> QED
    BY <2>1, <2>2, FS_Subset
<1>2. Cardinality(X) = 0 <=> X = {}
  <2> HIDE DEF X
  <2> QED
    BY <1>1, FS_EmptySet
<1>3. Captures(p) = Cardinality(X)
  BY DEF Captures
<1>4. IsStatic(p) <=> X = {}
  <2> HIDE DEF X
  <2> QED
    BY <1>2, <1>3 DEF IsStatic
<1> QED
  BY <1>4

(* A route set answers for the method its route was registered with.        *)
LEMMA ResolvesOwn ==
    ASSUME NEW routes, NEW method \in DOMAIN routes, routes[method] \in Nat
    PROVE  ResolveRouteSet(routes, method) = Response("handler", routes[method])
<1>1. None \notin Nat
  BY RouterAssumption
<1> QED
  BY <1>1 DEF ResolveRouteSet, RouteIndex

(* The request for a route's template, with a text for each capture.        *)
Filled(template, text) ==
    [j \in DOMAIN template.segments |->
        IF template.segments[j] = Capture THEN text ELSE template.segments[j]]

(* The filled template is a path the template fits.                         *)
LEMMA FilledType ==
    ASSUME NEW template \in TemplateSet, NEW text \in Plain
    PROVE  /\ Filled(template, text) \in Seq(Text)
           /\ Len(Filled(template, text)) = Len(template.segments)
           /\ DOMAIN Filled(template, text) = DOMAIN template.segments
           /\ Fits(template.segments, Filled(template, text))
<1> DEFINE s == template.segments
           f == Filled(template, text)
           n == Len(s)
<1>1. s \in Seq(Segment) /\ n \in Nat /\ DOMAIN s = 1 .. n
  BY LenProperties DEF TemplateSet, Patterns
<1>2. \A j \in 1 .. n : s[j] \in Segment
  BY <1>1, ElementOfSeq
<1>3. text \in Text /\ text \notin Malformed /\ Capture \notin Text
  BY RouterAssumption DEF Text
<1> HIDE DEF n
<1>4. /\ f \in [1 .. n -> Text]
      /\ DOMAIN f = 1 .. n
      /\ \A j \in 1 .. n : f[j] = IF s[j] = Capture THEN text ELSE s[j]
  BY <1>1, <1>2, <1>3 DEF Filled, Segment
<1>5. f \in Seq(Text)
  BY <1>1, <1>4
<1> HIDE DEF f, s
<1>6. Len(f) = n
  BY <1>1, <1>4, <1>5, LenProperties
<1>7. Fits(s, f)
  BY <1>1, <1>3, <1>4, <1>6 DEF Fits, n
<1> QED
  BY <1>1, <1>4, <1>5, <1>6, <1>7 DEF f, s, n

(* A request for the template of any route, with a text for its captures    *)
(* that no template has, is answered by that route; the document and the    *)
(* page are, if their paths begin with a slash.                             *)
THEOREM EveryRouteReachable == Spec => []RoutesReachable
<1>1. ASSUME BuiltInv, NEW i \in DOMAIN metadata, NEW text \in Plain,
             \A k \in DOMAIN metadata : text \notin Range(metadata[k].template.segments)
      PROVE  Dispatch(static, dynamic, metadata[i].method,
                      Path(Filled(metadata[i].template, text), metadata[i].template.slashes))
               = Response("handler", i)
  <2> DEFINE template == metadata[i].template
             s == template.segments
             method == metadata[i].method
             parts == Filled(template, text)
             path == Path(parts, template.slashes)
  <2>1. TablesOf(metadata, static, dynamic)
    BY <1>1 DEF BuiltInv, Tables
  <2>2. i \in Nat /\ metadata[i] \in Routes
    BY <1>1, ElementOfSeq, LenProperties DEF BuiltInv, AppType
  <2>3. template \in TemplateSet /\ s \in Patterns
    BY <2>2 DEF Routes, TemplateSet
  <2>4. path.segments = parts /\ path.slashes = template.slashes
    BY DEF Path
  <2> HIDE DEF parts
  <2>5. /\ parts \in Seq(Text) /\ Len(parts) = Len(s) /\ DOMAIN parts = DOMAIN s
        /\ Fits(s, parts)
    BY <2>3, FilledType DEF parts
  <2>6. \A j \in DOMAIN s : parts[j] = IF s[j] = Capture THEN text ELSE s[j]
    BY DEF parts, Filled
  <2>7. CASE IsStatic(s)
    <3>1. parts = s
      <4>1. \A j \in DOMAIN s : parts[j] = s[j]
        BY <2>3, <2>6, <2>7, StaticHasNoCapture
      <4>2. parts \in Seq(Segment) /\ s \in Seq(Segment)
        <5>1. Text \subseteq Segment
          BY DEF Segment
        <5> QED
          BY <2>3, <2>5, <5>1, SeqMonotonic DEF Patterns
      <4>3. DOMAIN s = 1 .. Len(s)
        BY <4>2, LenProperties
      <4> QED
        BY <2>5, <4>1, <4>2, <4>3, SeqEqual
    <3>2. path = template
      BY <2>3, <3>1 DEF Path, TemplateSet
    <3> HIDE DEF path, template
    <3>3. template \in DOMAIN static /\ method \in DOMAIN static[template] /\ static[template][method] = i
      BY <2>1, <2>7 DEF TablesOf, template
    <3>4. ResolveRouteSet(static[template], method) = Response("handler", i)
      BY <2>2, <3>3, ResolvesOwn
    <3>5. Dispatch(static, dynamic, method, path) = Response("handler", i)
      BY <3>2, <3>3, <3>4 DEF Dispatch
    <3> QED
      BY <3>5 DEF path, template, parts
  <2>8. CASE ~IsStatic(s)
    <3>1. PICK j \in DOMAIN s : s[j] = Capture
      BY <2>3, <2>8, StaticHasNoCapture
    <3> HIDE DEF path, template
    <3>2. path \notin DOMAIN static
      <4> SUFFICES ASSUME path \in DOMAIN static
                   PROVE  FALSE
        OBVIOUS
      <4>1. PICK m : m \in DOMAIN static[path]
        BY <2>1 DEF TablesOf
      <4>2. static[path][m] \in DOMAIN metadata /\ metadata[static[path][m]].template = path
        BY <2>1, <4>1 DEF TablesOf
      <4>3. j \in DOMAIN parts /\ parts[j] = text
        BY <2>5, <2>6, <3>1
      <4>4. text \in Range(parts)
        BY <4>3 DEF Range
      <4> QED
        BY <1>1, <2>4, <4>2, <4>4
    <3> DEFINE found == Find(dynamic, parts)
               set == {p \in DOMAIN dynamic : dynamic[p] # NoRoutes /\ Fits(p, parts)}
    <3>3. Best(found, set)
      <4>1. Trie(dynamic)
        BY <2>1 DEF TablesOf
      <4> QED
        BY <2>5, <4>1, FindBest
    <3>4. s \in set
      BY <1>1, <2>5, <2>8, NodesOfRoutes DEF template
    <3> HIDE DEF found
    <3>5. found \in set /\ (s # found => Precedes(found, s))
      BY <3>3, <3>4 DEF Best
    <3>6. PICK k \in DOMAIN metadata : metadata[k].template.segments = found
      BY <1>1, <3>5, NodesOfRoutes
    <3>7. s = found
      <4> SUFFICES ASSUME Precedes(found, s)
                   PROVE  FALSE
        BY <3>5
      <4>1. PICK l \in DOMAIN found : found[l] # s[l] /\ s[l] = Capture
        BY DEF Precedes
      <4>2. found \in Seq(Segment) /\ s \in Seq(Segment) /\ Len(found) = Len(parts)
        BY <2>1, <2>3, <3>5 DEF TablesOf, Trie, Patterns, Fits
      <4>3. l \in DOMAIN s
        BY <2>5, <4>1, <4>2, LenProperties
      <4>4. parts[l] = text /\ found[l] = parts[l]
        BY <2>6, <3>5, <4>1, <4>3 DEF Fits
      <4>5. text \in Range(found)
        BY <4>1, <4>4 DEF Range
      <4> QED
        BY <1>1, <3>6, <4>5
    <3>8. s \in DOMAIN dynamic /\ method \in DOMAIN dynamic[s] /\ dynamic[s][method] = i
      BY <2>1, <2>8 DEF TablesOf, template
    <3>9. ResolveRouteSet(dynamic[s], method) = Response("handler", i)
      BY <2>2, <3>8, ResolvesOwn
    <3>10. found # None
      <4>1. None \notin Seq(Segment) /\ s \in Seq(Segment)
        BY <2>3, RouterAssumption DEF Patterns
      <4> QED
        BY <3>7, <4>1
    <3>11. Dispatch(static, dynamic, method, path) = Response("handler", i)
      BY <2>4, <3>2, <3>7, <3>9, <3>10 DEF Dispatch, found
    <3> QED
      BY <3>11 DEF path, template, parts
  <2> QED
    BY <2>7, <2>8
<1>2. BuiltInv => RoutesReachable
  <2>1. ASSUME BuiltInv, NEW i \in DOMAIN metadata
        PROVE  Rooted(metadata[i].template) \/ metadata[i].builtin
    BY <2>1 DEF BuiltInv, GroupsInv, InGroups
  <2> QED
    BY <1>1, <2>1 DEF RoutesReachable, Filled
<1> QED
  BY <1>2, BuiltInvariance, PTL

-----------------------------------------------------------------------------
(* Requests.                                                                *)

Answers == [kind : {"handler", "options", "notAllowed", "notFound", "layer"},
            route : Nat \union {None}]

RequestSet == [method : Requested, path : Paths, next : 0 .. Len(middleware), ran : Seq(Nat),
               since : Nat, response : Answers \union {None}]

(* Every layer passed that covers the request, as it is since a layer last  *)
(* exchanged it, has run; a handler answers only past the last layer, and   *)
(* the request as it came there.                                            *)
Covered(r) ==
    \A i \in DOMAIN middleware :
        (i <= r.next /\ i > r.since /\ ScopeMatches(middleware[i].scope, r.method, r.path))
            => i \in Range(r.ran)

Served(r) ==
    (r.response # None /\ r.response.kind = "handler") =>
        /\ r.next = Len(middleware)
        /\ r.response = Dispatch(static, dynamic, r.method, r.path)

RequestInv ==
    request # None => /\ phase = "serving"
                      /\ request \in RequestSet
                      /\ Covered(request)
                      /\ Served(request)

AppInv == BuiltInv /\ RequestInv

(* The least of a set of numbers.                                           *)
LEMMA LeastOf ==
    ASSUME NEW S, S \subseteq Nat, S # {}
    PROVE  Min(S) \in S /\ \A y \in S : Min(S) <= y
<1> DEFINE Less == OpToRel(<, Nat)
<1>1. IsWellFoundedOn(Less, Nat)
  BY NatLessThanWellFounded
<1>2. PICK x \in S : \A y \in S : <<y, x>> \notin Less
  <2> HIDE DEF Less
  <2> QED
    BY <1>1, WFMin
<1>3. \A y \in S : x <= y
  <2> SUFFICES ASSUME NEW y \in S, ~(x <= y)
               PROVE  FALSE
    OBVIOUS
  <2>1. x \in Nat /\ y \in Nat /\ y < x
    OBVIOUS
  <2>2. <<y, x>> \in Less
    BY <2>1 DEF OpToRel
  <2> QED
    BY <1>2, <2>2
<1> QED
  BY <1>3 DEF Min

(* What has run stays, and the next layer is added.                         *)
LEMMA RanGrows ==
    ASSUME NEW ran \in Seq(Nat), NEW x \in Nat
    PROVE  /\ Append(ran, x) \in Seq(Nat)
           /\ x \in Range(Append(ran, x))
           /\ Range(ran) \subseteq Range(Append(ran, x))
<1> DEFINE more == Append(ran, x)
           n == Len(ran) + 1
<1>1. Len(ran) \in Nat /\ DOMAIN ran = 1 .. Len(ran)
  BY LenProperties
<1>2. /\ more \in Seq(Nat) /\ Len(more) = n
      /\ more[n] = x /\ \A i \in 1 .. Len(ran) : more[i] = ran[i]
  BY AppendProperties
<1>3. DOMAIN more = 1 .. n
  <2> HIDE DEF more, n
  <2> QED
    BY <1>2, LenProperties
<1> HIDE DEF more
<1>4. DOMAIN ran \subseteq DOMAIN more /\ n \in DOMAIN more
  BY <1>1, <1>3
<1>5. x \in Range(more) /\ Range(ran) \subseteq Range(more)
  BY <1>1, <1>2, <1>4 DEF Range
<1> QED
  BY <1>2, <1>5 DEF more

(* The router's answer to a path as requests come with it.                  *)
LEMMA DispatchType ==
    ASSUME BuiltInv, NEW method, NEW path \in Paths
    PROVE  Dispatch(static, dynamic, method, path) \in Answers
<1> DEFINE N == Nat \union {None}
           K == {"handler", "options", "notAllowed", "notFound", "layer"}
<1>1. TablesOf(metadata, static, dynamic) /\ path.segments \in Seq(Text) /\ DOMAIN metadata \subseteq Nat
  BY AppAssumption, LenProperties DEF BuiltInv, Tables, AppType
<1>2. Answers = [kind : K, route : N]
  BY DEF Answers
<1>3. /\ "handler" \in K /\ "options" \in K /\ "notAllowed" \in K /\ "notFound" \in K
      /\ Nat \subseteq N /\ None \in N
  OBVIOUS
<1> HIDE DEF N, K
<1>4. ASSUME NEW routes, \A m \in DOMAIN routes : routes[m] \in DOMAIN metadata
      PROVE  ResolveRouteSet(routes, method) \in Answers
  <2>1. RouteIndex(routes, method) \in N
    BY <1>1, <1>3, <1>4 DEF RouteIndex
  <2>2. \A kind \in K, route \in N : Response(kind, route) \in Answers
    BY <1>2 DEF Response
  <2> QED
    BY <1>3, <2>1, <2>2 DEF ResolveRouteSet
<1>5. CASE path \in DOMAIN static
  BY <1>1, <1>4, <1>5 DEF Dispatch, TablesOf
<1>6. CASE path \notin DOMAIN static
  <2> DEFINE node == Find(dynamic, path.segments)
             set == {p \in DOMAIN dynamic : dynamic[p] # NoRoutes /\ Fits(p, path.segments)}
  <2>1. Best(node, set)
    <3>1. Trie(dynamic)
      BY <1>1 DEF TablesOf
    <3> QED
      BY <1>1, <3>1, FindBest
  <2> HIDE DEF node
  <2>2. node = None \/ node \in DOMAIN dynamic
    BY <2>1 DEF Best
  <2>3. Response("notFound", None) \in Answers
    BY <1>2, <1>3 DEF Response
  <2>4. node \in DOMAIN dynamic => ResolveRouteSet(dynamic[node], method) \in Answers
    BY <1>1, <1>4 DEF TablesOf
  <2>5. Dispatch(static, dynamic, method, path)
          = IF node = None THEN Response("notFound", None) ELSE ResolveRouteSet(dynamic[node], method)
    BY <1>6 DEF Dispatch, node
  <2> QED
    BY <2>2, <2>3, <2>4, <2>5
<1> QED
  BY <1>5, <1>6

(* Next::run from a layer on: what is passed over does not cover the        *)
(* request.                                                                 *)
LEMMA RunCovers ==
    ASSUME BuiltInv, NEW method \in Requested, NEW path \in Paths,
           NEW index \in 0 .. Len(middleware), NEW ran \in Seq(Nat), NEW since \in Nat,
           \A i \in DOMAIN middleware :
               (i <= index /\ i > since /\ ScopeMatches(middleware[i].scope, method, path))
                   => i \in Range(ran),
           NEW r, r = Run(method, path, index, ran, since)
    PROVE  r \in RequestSet /\ Covered(r) /\ Served(r)
<1> DEFINE layers == {i \in Matching(method, path) : i > index}
<1>1. Len(middleware) \in Nat /\ DOMAIN middleware = 1 .. Len(middleware) /\ index \in Nat
  BY LenProperties DEF BuiltInv, AppType
<1>2. layers \subseteq DOMAIN middleware /\ layers \subseteq Nat
  BY <1>1 DEF Matching
<1>3. ASSUME NEW i \in DOMAIN middleware, i > index, ScopeMatches(middleware[i].scope, method, path)
      PROVE  i \in layers
  BY <1>3 DEF Matching
<1>4. CASE layers = {}
  <2> DEFINE d == Dispatch(static, dynamic, method, path)
  <2>1. r = [method |-> method, path |-> path, next |-> Len(middleware), ran |-> ran,
             since |-> since, response |-> d]
    BY <1>4 DEF Run
  <2>2. d \in Answers
    BY DispatchType
  <2> HIDE DEF d, layers
  <2>3. Len(middleware) \in 0 .. Len(middleware)
    BY <1>1
  <2>4. r \in RequestSet
    BY <2>1, <2>2, <2>3 DEF RequestSet
  <2>5. Covered(r)
    <3> SUFFICES ASSUME NEW i \in DOMAIN middleware, i > since,
                        ScopeMatches(middleware[i].scope, method, path)
                 PROVE  i \in Range(ran)
      BY <2>1 DEF Covered
    <3>1. ~(i > index)
      BY <1>3, <1>4
    <3>2. i <= index
      BY <1>1, <3>1
    <3> QED
      BY <3>2
  <2>6. Served(r)
    BY <2>1 DEF Served, d
  <2> QED
    BY <2>4, <2>5, <2>6
<1>5. CASE layers # {}
  <2> DEFINE x == Min(layers)
  <2>1. r = [method |-> method, path |-> path, next |-> x, ran |-> Append(ran, x),
             since |-> since, response |-> None]
    BY <1>5 DEF Run
  <2> HIDE DEF layers
  <2>2. x \in layers /\ \A y \in layers : x <= y
    BY <1>2, <1>5, LeastOf
  <2> HIDE DEF x
  <2>3. x \in 0 .. Len(middleware) /\ x \in Nat
    BY <1>1, <1>2, <2>2
  <2>4. Append(ran, x) \in Seq(Nat) /\ x \in Range(Append(ran, x)) /\ Range(ran) \subseteq Range(Append(ran, x))
    BY <2>3, RanGrows
  <2>5. r \in RequestSet
    BY <2>1, <2>3, <2>4 DEF RequestSet
  <2>6. Covered(r)
    <3> SUFFICES ASSUME NEW i \in DOMAIN middleware, i <= x, i > since,
                        ScopeMatches(middleware[i].scope, method, path)
                 PROVE  i \in Range(Append(ran, x))
      BY <2>1 DEF Covered
    <3>1. CASE i > index
      <4>1. x <= i
        BY <1>3, <2>2, <3>1
      <4>2. i = x
        BY <1>1, <2>3, <4>1
      <4> QED
        BY <2>4, <4>2
    <3>2. CASE ~(i > index)
      <4>1. i <= index
        BY <1>1, <3>2
      <4> QED
        BY <2>4, <4>1
    <3> QED
      BY <3>1, <3>2
  <2>7. Served(r)
    BY <2>1 DEF Served
  <2> QED
    BY <2>5, <2>6, <2>7
<1> QED
  BY <1>4, <1>5

(* A step of a request keeps account of the layers that ran.                *)
LEMMA ServeCovers ==
    ASSUME AppInv, Serve
    PROVE  RequestInv'
<1>1. /\ middleware' = middleware /\ static' = static /\ dynamic' = dynamic /\ phase' = phase
  BY DEF Serve, Receive, PassOn, Answer, Respond, routeVars
<1>2. BuiltInv /\ RequestInv
  BY DEF AppInv
<1>3. ASSUME phase = "serving", request' \in RequestSet, Covered(request'), Served(request')
      PROVE  RequestInv'
  BY <1>1, <1>3 DEF RequestInv, RequestSet, Covered, Served
<1>4. Len(middleware) \in Nat /\ DOMAIN middleware = 1 .. Len(middleware)
  BY <1>2, LenProperties DEF BuiltInv, AppType
<1>5. ASSUME NEW m \in Requested, NEW p \in Paths, Receive(m, p)
      PROVE  RequestInv'
  <2>1. phase = "serving" /\ request' = Run(m, p, 0, <<>>, 0)
    BY <1>5 DEF Receive
  <2>2. 0 \in 0 .. Len(middleware) /\ <<>> \in Seq(Nat) /\ 0 \in Nat
    BY <1>4, EmptySeq
  <2>3. \A i \in DOMAIN middleware : ~(i <= 0 /\ i > 0)
    BY <1>4
  <2> QED
    BY <1>2, <1>3, <2>1, <2>2, <2>3, RunCovers
<1>6. ASSUME NEW m \in Requested, NEW p \in Paths, PassOn(m, p)
      PROVE  RequestInv'
  <2> DEFINE since == IF m = request.method /\ p = request.path
                      THEN request.since ELSE request.next
  <2>1. /\ request # None /\ request' = Run(m, p, request.next, request.ran, since)
    BY <1>6 DEF PassOn, InLayer
  <2>2. phase = "serving" /\ request \in RequestSet /\ Covered(request)
    BY <1>2, <2>1 DEF RequestInv
  <2>3. /\ request.next \in 0 .. Len(middleware) /\ request.ran \in Seq(Nat) /\ request.since \in Nat
    BY <2>2 DEF RequestSet
  <2>4. since \in Nat
    BY <1>4, <2>3
  <2>5. ASSUME NEW i \in DOMAIN middleware, i <= request.next, i > since,
               ScopeMatches(middleware[i].scope, m, p)
        PROVE  i \in Range(request.ran)
    <3>1. CASE m = request.method /\ p = request.path
      BY <2>2, <2>5, <3>1 DEF Covered
    <3>2. CASE ~(m = request.method /\ p = request.path)
      BY <1>4, <2>3, <2>5, <3>2
    <3> QED
      BY <3>1, <3>2
  <2> HIDE DEF since
  <2> QED
    BY <1>2, <1>3, <2>1, <2>2, <2>3, <2>4, <2>5, RunCovers
<1>7. CASE Answer
  <2> DEFINE a == Response("layer", None)
  <2>1. request # None /\ request' = [request EXCEPT !.response = a]
    BY <1>7 DEF Answer, InLayer
  <2>2. phase = "serving" /\ request \in RequestSet /\ Covered(request)
    BY <1>2, <2>1 DEF RequestInv
  <2>3. a \in Answers /\ a.kind = "layer"
    BY DEF Response, Answers
  <2> HIDE DEF a
  <2>4. /\ request' \in RequestSet
        /\ request'.response = a
        /\ request'.next = request.next /\ request'.since = request.since
        /\ request'.method = request.method /\ request'.path = request.path
        /\ request'.ran = request.ran
    BY <2>1, <2>2, <2>3 DEF RequestSet
  <2>5. Covered(request')
    BY <2>2, <2>4 DEF Covered
  <2>6. Served(request')
    BY <2>3, <2>4 DEF Served
  <2> QED
    BY <1>3, <2>2, <2>4, <2>5, <2>6
<1>8. CASE Respond
  BY <1>8 DEF Respond, RequestInv
<1> QED
  BY <1>5, <1>6, <1>7, <1>8 DEF Serve

(* No other step touches a request, and there is none while building.       *)
LEMMA OthersKeepRequest ==
    ASSUME AppInv, [Next]_vars, ~Serve
    PROVE  RequestInv'
<1>1. AppType /\ RequestInv
  BY DEF AppInv, BuiltInv
<1>2. ASSUME phase = "building", request' = request
      PROVE  RequestInv'
  BY <1>1, <1>2 DEF RequestInv
<1>3. ASSUME UNCHANGED <<static, dynamic, middleware, phase, request>>
      PROVE  RequestInv'
  BY <1>1, <1>3 DEF RequestInv, RequestSet, Covered, Served
<1>4. ASSUME RegisterStep \/ DescribeStep \/ LayerStep \/ DocumentStep
      PROVE  RequestInv'
  <2>1. phase = "building" /\ request' = request
    BY <1>4 DEF RegisterStep, DescribeStep, LayerStep, DocumentStep
  <2> QED
    BY <1>2, <2>1
<1>5. ASSUME NEW c \in BOOLEAN, Build(c)
      PROVE  RequestInv'
  <2>1. phase = "building" /\ request' = request
    BY <1>5 DEF Build, Building
  <2> QED
    BY <1>2, <2>1
<1>6. CASE NestStep \/ (ServeStep /\ UNCHANGED request)
  <2>1. UNCHANGED <<static, dynamic, middleware, phase, request>>
    BY <1>6 DEF NestStep, ServeStep, routeVars
  <2> QED
    BY <1>3, <2>1
<1> QED
  BY <1>1, <1>4, <1>5, <1>6, StepKinds

(* Both invariants hold in every reachable state.                           *)
THEOREM AppInvariance == Spec => []AppInv
<1>1. Init => AppInv
  BY BuiltStarts DEF AppInv, RequestInv, Init
<1>2. AppInv /\ [Next]_vars => AppInv'
  BY StepKinds, RegisterKeeps, DescriptionKeeps, NestKeeps, LayerKeeps, DocumentKeeps, BuildKeeps,
     ServeKeeps, ServeCovers, OthersKeepRequest DEF AppInv, BuiltInv
<1> QED
  BY <1>1, <1>2, PTL DEF Spec

(* The route a handler's answer names: it is of the method asked for, or of *)
(* GET for HEAD, and the path fits its template.                            *)
LEMMA AnsweredBy ==
    ASSUME AppInv, Answered
    PROVE  LET r == metadata[request.response.route]
           IN /\ request.response.route \in DOMAIN metadata
              /\ r \in Routes
              /\ r.method = request.method \/ (request.method = "HEAD" /\ r.method = "GET")
              /\ Fits(r.template.segments, request.path.segments)
<1> DEFINE route == request.response.route
           path == request.path
<1>1. /\ request \in RequestSet /\ request.response # None /\ request.response.kind = "handler"
      /\ request.response = Dispatch(static, dynamic, request.method, path)
  BY DEF AppInv, RequestInv, Answered, Served
<1>2. request.response = Response("handler", route)
  <2>1. request.response \in Answers
    BY <1>1 DEF RequestSet
  <2> QED
    BY <1>1, <2>1 DEF Answers, Response
<1>3. TablesOf(metadata, static, dynamic) /\ metadata \in Seq(Routes)
  BY DEF AppInv, BuiltInv, Tables, AppType
<1>4. path.segments \in Seq(Text)
  <2>1. path \in Paths
    BY <1>1 DEF RequestSet
  <2> QED
    BY <2>1, AppAssumption
<1>5. Serves(static, dynamic, request.method, path, route)
  <2>1. Trie(dynamic)
    BY <1>3 DEF TablesOf
  <2>2. Dispatch(static, dynamic, request.method, path) = Response("handler", route)
    BY <1>1, <1>2
  <2> HIDE DEF route, path
  <2> QED
    BY <1>4, <2>1, <2>2, DispatchServes
<1> HIDE DEF route, path
<1>6. PICK m : /\ m = request.method \/ (request.method = "HEAD" /\ m = "GET")
               /\ \/ /\ path \in DOMAIN static
                     /\ m \in DOMAIN static[path]
                     /\ static[path][m] = route
                  \/ \E node \in DOMAIN dynamic :
                         /\ Fits(node, path.segments)
                         /\ m \in DOMAIN dynamic[node]
                         /\ dynamic[node][m] = route
  BY <1>5 DEF Serves
<1>7. /\ route \in DOMAIN metadata
      /\ metadata[route].method = m
      /\ Fits(metadata[route].template.segments, path.segments)
  <2>1. CASE path \in DOMAIN static /\ m \in DOMAIN static[path] /\ static[path][m] = route
    <3>1. /\ route \in DOMAIN metadata /\ metadata[route].method = m
          /\ metadata[route].template = path
      BY <1>3, <2>1 DEF TablesOf
    <3> QED
      BY <3>1 DEF Fits
  <2>2. ASSUME NEW node \in DOMAIN dynamic, Fits(node, path.segments), m \in DOMAIN dynamic[node],
               dynamic[node][m] = route
        PROVE  /\ route \in DOMAIN metadata
               /\ metadata[route].method = m
               /\ Fits(metadata[route].template.segments, path.segments)
    <3>1. /\ route \in DOMAIN metadata /\ metadata[route].method = m
          /\ metadata[route].template.segments = node
      BY <1>3, <2>2 DEF TablesOf
    <3> QED
      BY <2>2, <3>1
  <2> QED
    BY <1>6, <2>1, <2>2
<1>8. metadata[route] \in Routes
  BY <1>3, <1>7, ElementOfSeq, LenProperties
<1> QED
  BY <1>6, <1>7, <1>8 DEF route, path

(* A layer whose scope covers the request has run, or the request was       *)
(* exchanged behind it.                                                     *)
LEMMA CoveringHasRun ==
    ASSUME AppInv, Answered, NEW i \in DOMAIN middleware,
           ScopeMatches(middleware[i].scope, request.method, request.path)
    PROVE  ~Missed(i)
<1>1. /\ request \in RequestSet /\ Covered(request) /\ request.next = Len(middleware)
  BY DEF AppInv, RequestInv, Answered, Served
<1>2. i <= request.next
  BY <1>1, LenProperties DEF AppInv, BuiltInv, AppType
<1> QED
  BY <1>1, <1>2 DEF Covered, Missed

(* A path that fits a template is covered by the prefixes of the template.  *)
LEMMA PrefixCovers ==
    ASSUME NEW t \in Patterns, NEW p \in Patterns, NEW parts \in Seq(Text),
           Fits(t, parts), Begins(t, p)
    PROVE  SegmentsMatch(p, parts)
<1>1. /\ Len(t) \in Nat /\ Len(p) \in Nat
      /\ DOMAIN t = 1 .. Len(t) /\ DOMAIN p = 1 .. Len(p)
  BY LenProperties DEF Patterns
<1>2. Len(p) <= Len(parts) /\ Len(t) = Len(parts)
  BY <1>1 DEF Fits, Begins
<1>3. ASSUME NEW i \in DOMAIN p
      PROVE  p[i] = Capture \/ p[i] = parts[i]
  <2>1. i \in DOMAIN t /\ t[i] = p[i]
    BY <1>1 DEF Begins
  <2> QED
    BY <2>1 DEF Fits
<1> QED
  BY <1>2, <1>3 DEF SegmentsMatch

(* The layers of a route run for every request the route answers.           *)
LEMMA RouteLayers ==
    ASSUME AppInv
    PROVE  RouteLayersRun
<1> SUFFICES ASSUME Answered, NEW i \in DOMAIN middleware,
                    middleware[i].by = "route_layer",
                    middleware[i].route = request.response.route
             PROVE  ~Missed(i)
  BY DEF RouteLayersRun
<1> DEFINE r == metadata[request.response.route]
           t == r.template.segments
           parts == request.path.segments
<1>1. /\ request.response.route \in DOMAIN metadata /\ r \in Routes
      /\ r.method = request.method \/ (request.method = "HEAD" /\ r.method = "GET")
      /\ Fits(t, parts)
  BY AnsweredBy
<1>2. middleware[i].scope = ScopeRoute(r.method, t)
  <2>1. request.response.route # None
    BY <1>1, LenProperties, RouterAssumption DEF AppInv, BuiltInv, AppType
  <2> QED
    BY <2>1 DEF AppInv, BuiltInv, RightLayer
<1>3. parts \in Seq(Text)
  BY AppAssumption DEF AppInv, RequestInv, Answered, RequestSet
<1>4. t \in Patterns
  BY <1>1 DEF Routes, TemplateSet
<1> HIDE DEF r, t, parts
<1>5. SegmentsMatch(t, parts)
  <2>1. Begins(t, t)
    BY <1>4, LenProperties DEF Begins, Patterns
  <2> QED
    BY <1>1, <1>3, <1>4, <2>1, PrefixCovers
<1>6. Len(t) = Len(parts)
  BY <1>1 DEF Fits
<1>7. ScopeMatches(middleware[i].scope, request.method, request.path)
  BY <1>1, <1>2, <1>5, <1>6 DEF ScopeMatches, ScopeRoute, parts
<1> QED
  BY <1>7, CoveringHasRun

(* A group's layers run for the routes of the group and of those within it. *)
LEMMA GroupLayers ==
    ASSUME AppInv
    PROVE  GroupLayersRun
<1> SUFFICES ASSUME Answered, NEW i \in DOMAIN middleware,
                    middleware[i].by = "group",
                    IsPrefix(middleware[i].groups, metadata[request.response.route].groups)
             PROVE  ~Missed(i)
  BY DEF GroupLayersRun
<1> DEFINE r == metadata[request.response.route]
           t == r.template.segments
           parts == request.path.segments
           in == middleware[i].groups
           k == Len(in)
<1>1. request.response.route \in DOMAIN metadata /\ r \in Routes /\ Fits(t, parts)
  BY AnsweredBy
<1>2. in # <<>> /\ middleware[i].scope = ScopePrefix(Last(in))
  BY DEF AppInv, BuiltInv, RightLayer
<1>3. parts \in Seq(Text)
  BY AppAssumption DEF AppInv, RequestInv, Answered, RequestSet
<1>4. t \in Patterns /\ r.groups \in Seq(Patterns)
  BY <1>1 DEF Routes, TemplateSet
<1>5. InGroups(r)
  BY <1>1 DEF AppInv, BuiltInv, GroupsInv
<1>6. in \in Seq(Patterns)
  <2>1. middleware[i] \in LayerSet
    BY ElementOfSeq, LenProperties DEF AppInv, BuiltInv, AppType
  <2> QED
    BY <2>1 DEF LayerSet
<1>7. IsPrefix(in, r.groups)
  OBVIOUS
<1> HIDE DEF in, r, t, parts
<1>8. k \in DOMAIN in /\ Last(in) = in[k] /\ Last(in) \in Patterns
  BY <1>2, <1>6, PrefixType
<1>9. /\ k \in 1 .. Len(r.groups)
      /\ r.groups[k] = Last(in)
  <2>1. /\ k \in Nat \ {0} /\ Len(r.groups) \in Nat /\ DOMAIN in = 1 .. k
        /\ k <= Len(r.groups)
        /\ SubSeq(in, 1, k) = SubSeq(r.groups, 1, k)
    BY <1>4, <1>6, <1>7, <1>8, LenProperties DEF IsPrefix
  <2>2. k \in 0 .. Len(in) /\ k \in 0 .. Len(r.groups) /\ k \in 1 .. k
    BY <2>1
  <2>3. SubSeq(in, 1, k)[k] = in[k] /\ SubSeq(r.groups, 1, k)[k] = r.groups[k]
    <3> HIDE DEF k
    <3> QED
      BY <1>4, <1>6, <2>2, Beginning
  <2> QED
    BY <1>8, <2>1, <2>3
<1>10. Begins(t, Last(in))
  <2>1. /\ r.groups # <<>> /\ Len(r.groups) \in DOMAIN r.groups /\ DOMAIN r.groups = 1 .. Len(r.groups)
        /\ Last(r.groups) = r.groups[Len(r.groups)] /\ Last(r.groups) \in Patterns
    <3>1. r.groups # <<>>
      BY <1>9
    <3> QED
      BY <1>4, <3>1, PrefixType, LenProperties
  <2>2. Begins(t, Last(r.groups))
    BY <1>5, <2>1 DEF InGroups, t
  <2>3. k <= Len(r.groups) /\ k \in DOMAIN r.groups
    BY <1>9, <2>1
  <2>4. Begins(Last(r.groups), r.groups[k])
    BY <1>5, <2>1, <2>3 DEF InGroups, Chain
  <2> QED
    BY <1>4, <1>8, <1>9, <2>1, <2>2, <2>4, BeginsTransitive
<1>11. SegmentsMatch(Last(in), parts)
  BY <1>1, <1>3, <1>4, <1>8, <1>10, PrefixCovers
<1>12. ScopeMatches(middleware[i].scope, request.method, request.path)
  BY <1>2, <1>11 DEF ScopeMatches, ScopePrefix, parts
<1> QED
  BY <1>12, CoveringHasRun

(* Whatever layers and routes were registered, in whatever order and in     *)
(* whatever groups: the layers of the route that answers a request and of   *)
(* its groups have run for it.                                              *)
THEOREM AllLayersRun == Spec => []LayersRun
<1>1. AppInv => LayersRun
  BY RouteLayers, GroupLayers DEF LayersRun
<1> QED
  BY <1>1, AppInvariance, PTL

(* A route that is not kept is not forgotten, nor a layer meant for it.     *)
DroppedInv ==
    /\ dropped \in BOOLEAN
    /\ dropped => routeError
    /\ phase = "serving" => ~routeError
    /\ \A i \in DOMAIN middleware :
           middleware[i].by = "route_layer" /\ middleware[i].route = None => routeError

(* Once set, the error stays until build() returns it.                      *)
LEMMA DroppedStays ==
    ASSUME BuiltInv, DroppedInv, [Next]_vars
    PROVE  DroppedInv'
<1>1. ASSUME UNCHANGED <<dropped, routeError, phase, middleware>>
      PROVE  DroppedInv'
  BY <1>1 DEF DroppedInv
<1>2. ASSUME dropped' \in BOOLEAN, dropped' => routeError', routeError => routeError',
             phase = "building", UNCHANGED <<phase, middleware>>
      PROVE  DroppedInv'
  BY <1>2 DEF DroppedInv
<1>3. CASE Register
  <2>1. ASSUME NEW m, NEW p, AddRoute(m, p)
        PROVE  DroppedInv'
    <3>1. /\ dropped' \in BOOLEAN /\ phase = "building" /\ UNCHANGED <<phase, middleware>>
          /\ dropped' => routeError'
          /\ routeError => routeError'
      BY <2>1 DEF AddRoute, Install, Building
    <3> QED
      BY <1>2, <3>1
  <2>2. ASSUME NEW p, AddStaticRoute(p)
        PROVE  DroppedInv'
    <3>1. /\ dropped' \in BOOLEAN /\ phase = "building" /\ UNCHANGED <<phase, middleware>>
          /\ dropped' => routeError'
          /\ routeError => routeError'
      BY <2>2 DEF AddStaticRoute, Install, Building
    <3> QED
      BY <1>2, <3>1
  <2>3. ASSUME NEW g, OpenGroup(g)
        PROVE  DroppedInv'
    BY <1>1, <2>3 DEF OpenGroup, routeVars
  <2>4. CASE CloseGroup
    BY <1>1, <2>4 DEF CloseGroup, routeVars
  <2> QED
    BY <1>3, <2>1, <2>2, <2>3, <2>4 DEF Register
<1>4. CASE RegisterLayer
  <2>1. ASSUME NEW scope, NEW by, NEW route, AddLayer(scope, by, route),
               by = "route_layer" /\ route = None => routeError
        PROVE  DroppedInv'
    <3> DEFINE l == [scope |-> scope, by |-> by, route |-> route, groups |-> groups]
               n == Len(middleware)
    <3>1. /\ phase = "building" /\ middleware' = Append(middleware, l)
          /\ UNCHANGED <<dropped, routeError, phase>>
      BY <2>1 DEF AddLayer, Building, routeVars
    <3>2. middleware \in Seq(LayerSet) /\ n \in Nat /\ DOMAIN middleware = 1 .. n
      BY LenProperties DEF BuiltInv, AppType
    <3>3. /\ DOMAIN middleware' = 1 .. n + 1 /\ middleware'[n + 1] = l
          /\ \A i \in 1 .. n : middleware'[i] = middleware[i]
      <4>1. DOMAIN Append(middleware, l) = 1 .. n + 1
        BY <3>2
      <4>2. /\ Append(middleware, l)[n + 1] = l
            /\ \A i \in 1 .. n : Append(middleware, l)[i] = middleware[i]
        BY <3>2
      <4> QED
        BY <3>1, <4>1, <4>2
    <3>4. l.by = "route_layer" /\ l.route = None => routeError
      BY <2>1
    <3> HIDE DEF l, n
    <3>5. \A i \in DOMAIN middleware' :
             middleware'[i].by = "route_layer" /\ middleware'[i].route = None => routeError
      BY <3>2, <3>3, <3>4 DEF DroppedInv
    <3> QED
      BY <3>1, <3>5 DEF DroppedInv
  <2>2. CASE Layer
    BY <2>1, <2>2 DEF Layer
  <2>3. CASE GroupLayer
    BY <2>1, <2>3 DEF GroupLayer
  <2>4. ASSUME NEW g, LayerFor(g)
        PROVE  DroppedInv'
    BY <2>1, <2>4 DEF LayerFor
  <2>5. CASE RouteLayer
    <3> DEFINE meant == IF dropped THEN None ELSE lastRoute
    <3>1. lastRoute # None /\ AddLayer(ScopeRoute(metadata[lastRoute].method,
                                                  metadata[lastRoute].template.segments),
                                       "route_layer", meant)
      BY <2>5 DEF RouteLayer
    <3>2. meant = None => routeError
      BY <3>1 DEF DroppedInv
    <3> HIDE DEF meant
    <3> QED
      BY <2>1, <3>1, <3>2
  <2> QED
    BY <1>4, <2>2, <2>3, <2>4, <2>5 DEF RegisterLayer
<1>5. CASE Documentation
  <2>1. ASSUME NEW op, Describe(op)
        PROVE  DroppedInv'
    BY <1>1, <2>1 DEF Describe
  <2>2. ASSUME NEW options, Configure(options)
        PROVE  DroppedInv'
    BY <1>1, <2>2 DEF Configure, routeVars
  <2>3. ASSUME NEW p, Swagger(p)
        PROVE  DroppedInv'
    BY <1>1, <2>3 DEF Swagger, routeVars
  <2>4. CASE OneShot
    BY <1>1, <2>4 DEF OneShot, routeVars
  <2> QED
    BY <1>5, <2>1, <2>2, <2>3, <2>4 DEF Documentation, Tag, Security, Public, OpenApiTitle,
       SecurityScheme, DefaultSecurity, OpenApiPath
<1>6. ASSUME NEW c \in BOOLEAN, Build(c)
      PROVE  DroppedInv'
  <2>1. /\ UNCHANGED <<dropped, routeError, middleware>>
        /\ phase' = "serving" => ~routeError
    BY <1>6 DEF Build, BuildFails
  <2> QED
    BY <2>1 DEF DroppedInv
<1>7. CASE Serve
  BY <1>1, <1>7 DEF Serve, Receive, PassOn, Answer, Respond, routeVars
<1>8. CASE UNCHANGED vars
  BY <1>1, <1>8 DEF vars, routeVars
<1> QED
  BY <1>3, <1>4, <1>5, <1>6, <1>7, <1>8 DEF Next

(* The error of a route that was not kept is there until build().           *)
LEMMA DroppedAlways == Spec => []DroppedInv
<1>1. Init => DroppedInv
  <2> SUFFICES ASSUME Init
               PROVE  DroppedInv
    OBVIOUS
  <2>1. middleware = <<>> /\ dropped = FALSE /\ phase = "building"
    BY DEF Init
  <2>2. DOMAIN middleware = {}
    BY <2>1
  <2> QED
    BY <2>1, <2>2 DEF DroppedInv
<1>2. BuiltInv /\ DroppedInv /\ [Next]_vars => DroppedInv'
  BY DroppedStays
<1> QED
  BY <1>1, <1>2, BuiltInvariance, PTL DEF Spec

(* Whatever routes were refused and whatever was added after them, an       *)
(* application that serves has every route_layer on the route it was added  *)
(* after.                                                                   *)
THEOREM AllLayersPlaced == Spec => []LayersPlaced
<1>1. ASSUME BuiltInv, DroppedInv
      PROVE  LayersPlaced
  <2> SUFFICES ASSUME phase = "serving", NEW i \in DOMAIN middleware,
                      middleware[i].by = "route_layer"
               PROVE  \E route \in DOMAIN metadata :
                          /\ middleware[i].route = route
                          /\ middleware[i].scope =
                                 ScopeRoute(metadata[route].method,
                                            metadata[route].template.segments)
    BY DEF LayersPlaced
  <2>1. middleware[i].route # None
    BY <1>1 DEF DroppedInv
  <2> QED
    BY <1>1, <2>1 DEF BuiltInv, RightLayer
<1> QED
  BY <1>1, BuiltInvariance, DroppedAlways, PTL

(* A layer with a prefix has run for every request whose handler is given   *)
(* values that lie under the prefix, whatever the encoding they came in.    *)
THEOREM DecodedPrefixesCovered == Spec => []PrefixesSeeDecoded
<1>1. ASSUME AppInv, Answered, NEW i \in DOMAIN middleware,
             middleware[i].scope.kind = "prefix",
             Len(middleware[i].scope.pattern) <= Len(Seen),
             \A j \in DOMAIN middleware[i].scope.pattern :
                 middleware[i].scope.pattern[j] \in {Capture, Seen[j]}
      PROVE  ~Missed(i)
  <2> DEFINE r == metadata[request.response.route]
             t == r.template.segments
             parts == request.path.segments
             pattern == middleware[i].scope.pattern
             n == Len(t)
  <2>1. r \in Routes /\ Fits(t, parts)
    BY <1>1, AnsweredBy
  <2>2. parts \in Seq(Text)
    BY <1>1, AppAssumption DEF AppInv, RequestInv, Answered, RequestSet
  <2>3. t \in Patterns
    BY <2>1 DEF Routes, TemplateSet
  <2>4. pattern \in Patterns
    <3>1. middleware[i] \in LayerSet
      BY <1>1, ElementOfSeq, LenProperties DEF AppInv, BuiltInv, AppType
    <3> QED
      BY <3>1 DEF LayerSet, Scopes
  <2>5. n \in Nat /\ DOMAIN t = 1 .. n /\ DOMAIN pattern = 1 .. Len(pattern) /\ Len(pattern) \in Nat
    BY <2>3, <2>4, LenProperties DEF Patterns
  <2>6. /\ DOMAIN Seen = DOMAIN t
        /\ \A j \in DOMAIN t : Seen[j] = IF t[j] = Capture THEN Decoded(parts[j]) ELSE t[j]
    BY DEF Seen
  <2> HIDE DEF r, t, parts, n
  <2>7. Len(Seen) = n
    <3> DEFINE S == {Seen[j] : j \in 1 .. n}
    <3>1. Seen \in [1 .. n -> S]
      <4>1. Seen = [j \in DOMAIN Seen |-> Seen[j]]
        BY DEF Seen
      <4> QED
        BY <2>5, <2>6, <4>1
    <3> HIDE DEF S
    <3>2. Seen \in Seq(S)
      BY <2>5, <3>1
    <3> QED
      BY <2>5, <2>6, <3>2, LenProperties
  <2> HIDE DEF pattern
  <2>8. Len(pattern) <= Len(parts)
    BY <1>1, <2>1, <2>7 DEF pattern, Fits, n
  <2>9. ASSUME NEW j \in DOMAIN pattern
        PROVE  pattern[j] \in {Capture, parts[j], Decoded(parts[j])}
    <3>1. j \in DOMAIN t
      BY <1>1, <2>5, <2>7 DEF pattern
    <3>2. pattern[j] = Capture \/ pattern[j] = Seen[j]
      BY <1>1 DEF pattern
    <3>3. t[j] = parts[j] \/ t[j] = Capture
      BY <2>1, <3>1 DEF Fits
    <3> QED
      BY <2>6, <3>1, <3>2, <3>3
  <2>10. SegmentsMatch(pattern, parts)
    BY <2>8, <2>9 DEF SegmentsMatch
  <2>11. ScopeMatches(middleware[i].scope, request.method, request.path)
    BY <1>1, <2>10 DEF ScopeMatches, pattern, parts
  <2> QED
    BY <1>1, <2>11, CoveringHasRun
<1>2. AppInv => PrefixesSeeDecoded
  BY <1>1 DEF PrefixesSeeDecoded
<1> QED
  BY <1>2, AppInvariance, PTL

-----------------------------------------------------------------------------
(* The document.                                                            *)

(* What is cached was computed from what has not changed since.             *)
LEMMA StaysFresh ==
    ASSUME DocumentFresh, openapiConfig' = openapiConfig,
           Documented' = Documented \/ openapiBytes' = None,
           openapiBytes' \in {None, openapiBytes, Document},
           swaggerBytes' \in {None, swaggerBytes, <<Page>>}
    PROVE  DocumentFresh'
<1>1. Page' = Page
  BY DEF Page
<1>2. Document' = Document \/ openapiBytes' = None
  BY DEF Document
<1> QED
  BY <1>1, <1>2 DEF DocumentFresh

(* Registering a route drops the cached document.                           *)
LEMMA RegistrationFresh ==
    ASSUME DocumentFresh, Register
    PROVE  DocumentFresh'
<1>1. openapiConfig' = openapiConfig /\ swaggerBytes' = swaggerBytes
  BY DEF Register, AddRoute, AddStaticRoute, OpenGroup, CloseGroup, docVars
<1>2. openapiBytes' = None \/ (openapiBytes' = openapiBytes /\ metadata' = metadata)
  BY DEF Register, AddRoute, AddStaticRoute, Install, OpenGroup, CloseGroup, docVars, routeVars
<1>3. Documented' = Documented \/ openapiBytes' = None
  BY <1>2 DEF Documented
<1> QED
  BY <1>1, <1>2, <1>3, StaysFresh

(* So does whatever the document is made of; a request to the builder       *)
(* makes it anew.                                                           *)
LEMMA DocumentationFresh ==
    ASSUME DocumentFresh, Documentation
    PROVE  DocumentFresh'
<1>1. ASSUME NEW op, Describe(op)
      PROVE  DocumentFresh'
  BY <1>1 DEF Describe, InvalidateOpenapiCache, DocumentFresh
<1>2. ASSUME NEW options, Configure(options)
      PROVE  DocumentFresh'
  BY <1>2 DEF Configure, InvalidateOpenapiCache, DocumentFresh
<1>3. ASSUME NEW p, Swagger(p)
      PROVE  DocumentFresh'
  <2>1. /\ openapiConfig' = openapiConfig /\ metadata' = metadata
        /\ openapiBytes' = openapiBytes /\ swaggerBytes' = None
    BY <1>3 DEF Swagger, routeVars
  <2>2. Documented' = Documented
    BY <2>1 DEF Documented
  <2> QED
    BY <2>1, <2>2, StaysFresh
<1>4. CASE OneShot
  <2>1. /\ openapiConfig' = openapiConfig /\ metadata' = metadata
        /\ openapiBytes' \in {openapiBytes, Document} /\ swaggerBytes' \in {swaggerBytes, <<Page>>}
    BY <1>4 DEF OneShot, PrepareOpenapi, PrepareSwagger, routeVars
  <2>2. Documented' = Documented
    BY <2>1 DEF Documented
  <2> QED
    BY <2>1, <2>2, StaysFresh
<1> QED
  BY <1>1, <1>2, <1>3, <1>4 DEF Documentation, Tag, Security, Public, OpenApiTitle,
     SecurityScheme, DefaultSecurity, OpenApiPath

(* The routes build() adds are not in the document.                         *)
LEMMA BuildFresh ==
    ASSUME DocumentFresh, BuiltInv, NEW c \in BOOLEAN, Build(c)
    PROVE  DocumentFresh'
<1>1. openapiConfig' = openapiConfig
  BY DEF Build
<1>2. CASE BuildFails(c)
  <2>1. metadata' = metadata /\ openapiBytes' = openapiBytes /\ swaggerBytes' = swaggerBytes
    BY <1>2 DEF Build
  <2>2. Documented' = Documented
    BY <2>1 DEF Documented
  <2> QED
    BY <1>1, <2>1, <2>2, StaysFresh
<1>3. CASE ~BuildFails(c)
  <2>1. /\ groups = <<>> /\ ~GeneratedConflict /\ InstallGeneratedRoutes
        /\ openapiBytes' \in {openapiBytes, Document} /\ swaggerBytes' \in {swaggerBytes, <<Page>>}
    BY <1>3 DEF Build, BuildFails, PrepareOpenapi, PrepareSwagger
  <2>2. /\ \A i \in DOMAIN metadata : i \in DOMAIN metadata' /\ metadata'[i] = metadata[i]
        /\ \A i \in DOMAIN metadata' : i \notin DOMAIN metadata => metadata'[i].builtin
    BY <2>1, InstalledGenerated
  <2>3. {i \in DOMAIN metadata' : ~metadata'[i].builtin} = {i \in DOMAIN metadata : ~metadata[i].builtin}
    BY <2>2
  <2>4. Documented' = Documented
    BY <2>2, <2>3 DEF Documented, Restrict
  <2> QED
    BY <1>1, <2>1, <2>4, StaysFresh
<1> QED
  BY <1>2, <1>3

(* However registrations, settings, requests to the builder and build()     *)
(* follow each other, the cached document and page are those of now.        *)
THEOREM DocumentStaysFresh == Spec => []DocumentFresh
<1>1. Init => DocumentFresh
  BY DEF Init, DocumentFresh
<1>2. ASSUME BuiltInv, DocumentFresh, [Next]_vars
      PROVE  DocumentFresh'
  <2>1. ASSUME UNCHANGED <<metadata, openapiConfig, openapiBytes, swaggerBytes>>
        PROVE  DocumentFresh'
    <3>1. Documented' = Documented
      BY <2>1 DEF Documented
    <3> QED
      BY <1>2, <2>1, <3>1, StaysFresh
  <2>2. CASE RegisterLayer
    BY <2>1, <2>2 DEF RegisterLayer, Layer, GroupLayer, RouteLayer, LayerFor, AddLayer, routeVars,
       docVars
  <2>3. CASE Serve
    BY <2>1, <2>3 DEF Serve, Receive, PassOn, Answer, Respond, routeVars, docVars
  <2>4. CASE UNCHANGED vars
    BY <2>1, <2>4 DEF vars, routeVars, docVars
  <2> QED
    BY <1>2, <2>2, <2>3, <2>4, RegistrationFresh, DocumentationFresh, BuildFresh DEF Next
<1>3. BuiltInv /\ DocumentFresh /\ [Next]_vars => DocumentFresh'
  BY <1>2
<1> QED
  BY <1>1, <1>3, BuiltInvariance, PTL DEF Spec

-----------------------------------------------------------------------------
(* The builder's and the server's state has its types: the tables hold      *)
(* routes that there are.                                                   *)
THEOREM AppTypes == Spec => []TypeOK
<1>1. ASSUME BuiltInv, DroppedInv
      PROVE  TypeOK
  <2>1. AppType /\ TablesOf(metadata, static, dynamic)
    BY <1>1 DEF BuiltInv, Tables
  <2>2. ASSUME NEW i \in DOMAIN metadata
        PROVE  /\ metadata[i].method \in Methods \union {"GET"}
               /\ metadata[i].tag \in Tags \union {None}
               /\ metadata[i].template.segments \in Patterns
    <3>1. metadata[i] \in Routes
      BY <2>1, <2>2, ElementOfSeq, LenProperties DEF AppType
    <3> QED
      BY <3>1 DEF Routes, TemplateSet
  <2> QED
    BY <1>1, <2>1, <2>2 DEF TypeOK, AppType, TablesOf, DroppedInv
<1> QED
  BY <1>1, BuiltInvariance, DroppedAlways, PTL
=============================================================================
