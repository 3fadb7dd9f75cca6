------------------------------ MODULE Induction ------------------------------
(***************************************************************************)
(* Induction and recursion for the proof modules, as facts about sets and  *)
(* functions that can be cited by name: a property is given as the set of  *)
(* the numbers that have it, a recursive definition as the function whose  *)
(* fixed point it defines.                                                 *)
(***************************************************************************)
EXTENDS Integers, WellFoundedInduction, TLAPS

(* Induction: a set of numbers that has 0 and with each number the next.    *)
LEMMA NatInSet ==
    ASSUME NEW A, 0 \in A, \A n \in Nat : n \in A => n + 1 \in A
    PROVE  Nat \subseteq A
<1> DEFINE Out == Nat \ A
           Less == OpToRel(<, Nat)
<1>1. ASSUME Out # {}
      PROVE  FALSE
  <2>1. IsWellFoundedOn(Less, Nat)
    BY NatLessThanWellFounded
  <2>2. PICK x \in Out : \A y \in Out : <<y, x>> \notin Less
    <3> HIDE DEF Less
    <3> QED
      BY <1>1, <2>1, WFMin
  <2>3. x # 0 /\ x \in Nat
    OBVIOUS
  <2>4. x - 1 \in Nat /\ x - 1 < x /\ (x - 1) + 1 = x
    BY <2>3
  <2>5. <<x - 1, x>> \in Less
    BY <2>3, <2>4 DEF OpToRel
  <2> QED
    BY <2>2, <2>3, <2>4, <2>5
<1> QED
  BY <1>1

(* A step that makes of a function the next one, whose value at x depends   *)
(* only on the values at places of lower rank.                              *)
Recursion(S, T, N, rank, step) ==
    /\ N \in Nat
    /\ rank \in [S -> 0 .. N]
    /\ step \in [[S -> T] -> [S -> T]]
    /\ \A x \in S : \A f, g \in [S -> T] :
           (\A y \in S : rank[y] < rank[x] => f[y] = g[y]) => step[f][x] = step[g][x]

(* Such a step has a fixed point.                                           *)
LEMMA FixedPoint ==
    ASSUME NEW S, NEW T, NEW N, NEW rank, NEW step, Recursion(S, T, N, rank, step),
           NEW first \in [S -> T]
    PROVE  \E f \in [S -> T] : f = step[f]
<1> USE DEF Recursion
<1> DEFINE Good(n, h) == \A x \in S : rank[x] < n => h[x] = step[h][x]
           A == {n \in Nat : \E h \in [S -> T] : Good(n, h)}
<1>1. 0 \in A
  <2>1. Good(0, first)
    OBVIOUS
  <2> QED
    BY <2>1
<1>2. ASSUME NEW n \in Nat, n \in A
      PROVE  n + 1 \in A
  <2>1. PICK h \in [S -> T] : Good(n, h)
    BY <1>2
  <2>2. PICK next \in [S -> T] : next = step[h]
    OBVIOUS
  <2>3. \A x \in S : rank[x] < n => next[x] = h[x]
    BY <2>1, <2>2
  <2>4. ASSUME NEW x \in S, rank[x] < n + 1
        PROVE  next[x] = step[next][x]
    <3>1. \A y \in S : rank[y] < rank[x] => rank[y] < n
      BY <2>4
    <3>2. \A y \in S : rank[y] < rank[x] => next[y] = h[y]
      BY <2>3, <3>1
    <3>3. step[next][x] = step[h][x]
      BY <3>2
    <3> QED
      BY <2>2, <3>3
  <2>5. Good(n + 1, next)
    BY <2>4
  <2> HIDE DEF Good
  <2> QED
    BY <2>5
<1>3. N + 1 \in A
  <2> HIDE DEF A
  <2> QED
    BY <1>1, <1>2, NatInSet
<1>4. PICK h \in [S -> T] : Good(N + 1, h)
  BY <1>3
<1>5. \A x \in S : h[x] = step[h][x]
  BY <1>4
<1>6. step[h] \in [S -> T]
  OBVIOUS
<1>7. h = step[h]
  BY <1>5, <1>6
<1> QED
  BY <1>7
=============================================================================
