---------------------------- MODULE MCRateLimit -----------------------------
(* A small instance of RateLimit for TLC.                                    *)
EXTENDS RateLimit, TLC

CONSTANTS k1, k2, k3, k4, w1, w2

FourKeys == {k1, k2, k3, k4}
TwoWorkers == {w1, w2}

(* Shards are independent of each other but for their limits: how keys      *)
(* spread over them is explored at the first instant, and the passage of    *)
(* time with three keys in the first shard, which has the higher limit, and *)
(* no request for the fourth.                                               *)
Silent(k) == k \notin DOMAIN buckets /\ \A w \in Workers : request[w].key # k

Focus == \/ now = 0
         \/ \E k \in Keys : /\ {q \in Keys : shardOf[q] # 0} = {k}
                             /\ Silent(k)

Symmetry == Permutations(Keys) \union Permutations(Workers)
=============================================================================
