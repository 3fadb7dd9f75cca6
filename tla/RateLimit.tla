------------------------------ MODULE RateLimit ------------------------------
(***************************************************************************)
(* The token-bucket middleware (rate_limit.rs): a table of buckets split   *)
(* into locked shards, each with a cap, an overflow bucket for the keys    *)
(* that find the table full, and a sweep that makes room.                  *)
(*                                                                         *)
(* A request reads the clock before it takes its shard's lock, so requests *)
(* reach a bucket with clock values out of order.  What happens under the  *)
(* lock (Limiter::take) is one step.                                       *)
(*                                                                         *)
(* Tokens are counted in ticks of the clock: a bucket gains one unit per   *)
(* tick and a request costs Interval units.  (The code counts tokens in    *)
(* f64; rounding is not modelled.)  A key stands for the hash of a key.    *)
(***************************************************************************)
EXTENDS Integers, FiniteSets

CONSTANTS Keys,      \* the keys requests come with
          Workers,   \* requests in the middleware at a time
          Shards,    \* number of shards: 1, or SHARDS for a large table
          MaxKeys,   \* Limiter::max_keys
          Burst,     \* Limiter::burst, in requests
          Interval,  \* ticks per token: 1 / Limiter::rate
          Second,    \* ticks in a second
          MaxDelay,  \* bound: ticks between reading the clock and the lock
          MaxTime    \* bound: when the clock stops

ASSUME LimitAssumption ==
    /\ IsFiniteSet(Keys)
    /\ {Shards, MaxKeys, Burst, Interval, Second} \subseteq Nat \ {0}
    /\ MaxDelay \in Nat
    /\ MaxTime \in Nat

VARIABLES
    now,       \* the clock
    shardOf,   \* where the randomly seeded hash puts each key
    buckets,   \* the HashMaps of all shards: key -> bucket
    overflow,  \* per shard: its overflow bucket
    lastSweep, \* per shard: when it was last swept
    request,   \* per worker: its key and the time it read, or NoRequest
    spent,     \* history, per key: what its bucket gave out and has not regained
    spilled,   \* history, per key: the same for what the overflow bucket gave it
    shardSpent,\* history, per shard: the same for all its buckets together
    promise    \* history, per key: when a refused request may come back

tableVars == <<buckets, overflow, lastSweep>>
historyVars == <<spent, spilled, shardSpent, promise>>
vars == <<now, shardOf, tableVars, request, historyVars>>

None == -1
ShardIds == 0 .. Shards - 1
Time == 0 .. MaxTime
Full == Burst * Interval
Bucket == [tokens : 0 .. Full, last : Time]
Request == [key : Keys, stamp : Time]
NoRequest == [key |-> None, stamp |-> None]

(* The caps add up to max_keys: the first shards take the remainder.        *)
ShardCap(i) == (MaxKeys \div Shards) + (IF i < MaxKeys % Shards THEN 1 ELSE 0)

TypeOK ==
    /\ now \in Time
    /\ shardOf \in [Keys -> ShardIds]
    /\ DOMAIN buckets \subseteq Keys
    /\ \A k \in DOMAIN buckets : buckets[k] \in Bucket
    /\ overflow \in [ShardIds -> Bucket]
    /\ lastSweep \in [ShardIds -> Time]
    /\ request \in [Workers -> Request \union {NoRequest}]
    /\ spent \in [Keys -> Nat]
    /\ spilled \in [Keys -> Nat]
    /\ shardSpent \in [ShardIds -> Nat]
    /\ promise \in [Keys -> Nat \union {None}]

AtLeast0(n) == IF n > 0 THEN n ELSE 0
Elapsed(from, to) == AtLeast0(to - from)
Later(a, b) == IF a >= b THEN a ELSE b
Smaller(a, b) == IF a <= b THEN a ELSE b

Init == /\ now = 0
        /\ shardOf \in [Keys -> ShardIds]
        /\ buckets = [k \in {} |-> NoRequest]
        /\ overflow = [i \in ShardIds |-> [tokens |-> Full, last |-> 0]]
        /\ lastSweep = [i \in ShardIds |-> 0]
        /\ request = [w \in Workers |-> NoRequest]
        /\ spent = [k \in Keys |-> 0]
        /\ spilled = [k \in Keys |-> 0]
        /\ shardSpent = [i \in ShardIds |-> 0]
        /\ promise = [k \in Keys |-> None]

-----------------------------------------------------------------------------
(* Time passes; a request is not kept from its lock for more than MaxDelay. *)
Tick == /\ now < MaxTime
        /\ \A w \in Workers : request[w] # NoRequest =>
                                  now - request[w].stamp < MaxDelay
        /\ now' = now + 1
        /\ spent' = [k \in Keys |-> AtLeast0(spent[k] - 1)]
        /\ spilled' = [k \in Keys |-> AtLeast0(spilled[k] - 1)]
        /\ shardSpent' = [i \in ShardIds |->
                             AtLeast0(shardSpent[i] - (ShardCap(i) + 1))]
        /\ UNCHANGED <<shardOf, tableVars, request, promise>>

(* RateLimit::handle works out the key and reads the clock.                 *)
ReadClock(w, k) == /\ request[w] = NoRequest
                   /\ request' = [request EXCEPT ![w] = [key |-> k, stamp |-> now]]
                   /\ UNCHANGED <<now, shardOf, tableVars, historyVars>>

-----------------------------------------------------------------------------
(* Limiter::take.                                                           *)

Table(i) == {k \in DOMAIN buckets : shardOf[k] = i}

(* Mutant: the clock of a bucket may go back.                               *)
RefillGoesBack(b, t) == [tokens |-> Smaller(b.tokens + Elapsed(b.last, t), Full),
                         last   |-> t]

Refill(b, t) == [tokens |-> Smaller(b.tokens + Elapsed(b.last, t), Full),
                 last   |-> Later(b.last, t)]

SweepInterval == Later(Interval, Second)

(* A full table is swept for a new key, at most once per SweepInterval.     *)
Sweeps(i, k, t) == /\ k \notin DOMAIN buckets
                   /\ Cardinality(Table(i)) >= ShardCap(i)
                   /\ Elapsed(lastSweep[i], t) >= SweepInterval

(* What a sweep drops: the buckets that would be full again.                *)
Idle(i, t) ==
    {k \in Table(i) : buckets[k].tokens + Elapsed(buckets[k].last, t) >= Full}

(* The keys that have a bucket after the sweep, if there is one.            *)
Kept(i, k, t) == DOMAIN buckets \ (IF Sweeps(i, k, t) THEN Idle(i, t) ELSE {})

(* Mutant: the table may grow one past the cap.                             *)
OverflowsLate(i, k, t) ==
    /\ k \notin DOMAIN buckets
    /\ Cardinality(Table(i) \intersect Kept(i, k, t)) > ShardCap(i)

Overflows(i, k, t) ==
    /\ k \notin DOMAIN buckets
    /\ Cardinality(Table(i) \intersect Kept(i, k, t)) >= ShardCap(i)

(* The bucket a request is charged to, refilled up to the time it read.     *)
Charged(i, k, t) ==
    Refill(IF Overflows(i, k, t) THEN overflow[i]
           ELSE IF k \in DOMAIN buckets THEN buckets[k]
           ELSE [tokens |-> Full, last |-> t],
           t)

Store(i, k, t, b) ==
    IF Overflows(i, k, t)
    THEN /\ overflow' = [overflow EXCEPT ![i] = b]
         /\ buckets' = [q \in Kept(i, k, t) |-> buckets[q]]
    ELSE /\ UNCHANGED overflow
         /\ buckets' = [q \in Kept(i, k, t) \union {k} |->
                           IF q = k THEN b ELSE buckets[q]]

Sweep(i, k, t) ==
    lastSweep' = IF Sweeps(i, k, t) THEN [lastSweep EXCEPT ![i] = t] ELSE lastSweep

(* The keys that find less in their bucket than they were told: it gave a   *)
(* token to this request, or it was swept.                                  *)
Dropped(i, k, t) == DOMAIN buckets \ Kept(i, k, t)

SameBucket(i, k, t) ==
    IF Overflows(i, k, t) THEN {q \in Keys : shardOf[q] = i} \ Kept(i, k, t) ELSE {k}

Admit(w) ==
    LET k == request[w].key
        t == request[w].stamp
        i == shardOf[k]
        b == Charged(i, k, t)
    IN /\ request[w] # NoRequest
       /\ b.tokens >= Interval
       /\ Store(i, k, t, [b EXCEPT !.tokens = @ - Interval])
       /\ Sweep(i, k, t)
       /\ request' = [request EXCEPT ![w] = NoRequest]
       /\ IF Overflows(i, k, t)
          THEN spilled' = [spilled EXCEPT ![k] = @ + Interval] /\ UNCHANGED spent
          ELSE spent' = [spent EXCEPT ![k] = @ + Interval] /\ UNCHANGED spilled
       /\ shardSpent' = [shardSpent EXCEPT ![i] = @ + Interval]
       /\ promise' = [q \in Keys |->
                         IF q \in SameBucket(i, k, t) \union Dropped(i, k, t)
                         THEN None ELSE promise[q]]
       /\ UNCHANGED <<now, shardOf>>

(* Mutant: a refused request takes what is left in the bucket.              *)
RefuseTakes(w) ==
    LET k == request[w].key
        t == request[w].stamp
        i == shardOf[k]
        b == Charged(i, k, t)
    IN /\ request[w] # NoRequest
       /\ b.tokens < Interval
       /\ Store(i, k, t, [b EXCEPT !.tokens = 0])
       /\ Sweep(i, k, t)
       /\ request' = [request EXCEPT ![w] = NoRequest]
       /\ promise' = [q \in Keys |->
                         IF q = k THEN now + (Interval - b.tokens)
                         ELSE IF q \in Dropped(i, k, t) THEN None
                         ELSE promise[q]]
       /\ UNCHANGED <<now, shardOf, spent, spilled, shardSpent>>

(* 429 Too Many Requests: Retry-After is at least the time in which the     *)
(* bucket gains what it lacks.                                              *)
Refuse(w) ==
    LET k == request[w].key
        t == request[w].stamp
        i == shardOf[k]
        b == Charged(i, k, t)
    IN /\ request[w] # NoRequest
       /\ b.tokens < Interval
       /\ Store(i, k, t, b)
       /\ Sweep(i, k, t)
       /\ request' = [request EXCEPT ![w] = NoRequest]
       /\ promise' = [q \in Keys |->
                         IF q = k THEN now + (Interval - b.tokens)
                         ELSE IF q \in Dropped(i, k, t) THEN None
                         ELSE promise[q]]
       /\ UNCHANGED <<now, shardOf, spent, spilled, shardSpent>>

-----------------------------------------------------------------------------
Next == \/ Tick
        \/ \E w \in Workers : \/ \E k \in Keys : ReadClock(w, k)
                              \/ Admit(w)
                              \/ Refuse(w)

Spec == Init /\ [][Next]_vars

-----------------------------------------------------------------------------
(* Properties.                                                              *)

(* max_keys is an exact ceiling for all shards together.                    *)
TableBounded == Cardinality(DOMAIN buckets) <= MaxKeys

(* What the delay of the lock costs: a bucket counts from the time a        *)
(* request read, and each time a sweep has dropped a bucket, which takes    *)
(* its clock along, a late request may start it again from an earlier time. *)
Slip == MaxDelay * (1 + now \div SweepInterval)

(* Every request Limiter::take grants is charged to its key.  Those from    *)
(* the key's own bucket stay within burst plus rate, whatever the order in  *)
(* which clock values reach the bucket and however often a sweep drops and  *)
(* a new request recreates it: all that is lost is the slip.  Those from    *)
(* the shard's overflow bucket, which no sweep drops, stay within another   *)
(* burst plus rate and one delay.  A key may have both, one after the other *)
(* (its bucket is swept, then the table is full), so what bounds a key is   *)
(* twice the burst and twice the rate, not once.                            *)
KeyWithinRate == \A k \in Keys : /\ spent[k] <= Full + Slip
                                 /\ spilled[k] <= Full + MaxDelay

(* Varying the key does not bypass the limit: a shard gives out what its    *)
(* cap of buckets and the overflow bucket may.                              *)
ShardWithinRate ==
    \A i \in ShardIds : shardSpent[i] <= (ShardCap(i) + 1) * (Full + Slip)

WithinRate == KeyWithinRate /\ ShardWithinRate

(* A client that waits as long as Retry-After says is admitted, if its      *)
(* bucket is still there and nobody took from it meanwhile.                 *)
RetryAfterHolds ==
    [][\A w \in Workers :
         (Refuse(w) /\ promise[request[w].key] # None)
           => request[w].stamp < promise[request[w].key]]_vars
=============================================================================
