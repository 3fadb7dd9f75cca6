--------------------------- MODULE RateLimitProofs --------------------------
(***************************************************************************)
(* Proofs about RateLimit, for any keys, workers, shards, caps, rates and  *)
(* delays of the lock: no key is given more than its rate and the slip,    *)
(* Retry-After is kept, and the table never outgrows max_keys.             *)
(***************************************************************************)
EXTENDS RateLimit, FiniteSetTheorems, FunctionTheorems, Induction, TLAPS

-----------------------------------------------------------------------------
(* Arithmetic.                                                              *)

(* A bucket holds at least one request.                                     *)
LEMMA FullHolds == Full \in Nat /\ Interval <= Full
BY LimitAssumption DEF Full

(* Sweeps are at least one unit of the clock apart.                         *)
LEMMA SweepIntervalPositive == SweepInterval \in Nat \ {0}
BY LimitAssumption DEF SweepInterval, Later

(* Division by the interval of sweeps, for times.                           *)
LEMMA Quotient ==
    ASSUME NEW n \in Nat \ {0}, NEW a \in Nat, NEW b \in Nat
    PROVE  /\ a \div n \in Nat
           /\ a <= b => a \div n <= b \div n
           /\ a + n <= b => (a \div n) + 1 <= b \div n
OBVIOUS

(* What the delays may cost after so many sweeps.                           *)
Cost(sweeps) == MaxDelay * (1 + sweeps)

(* The cost of the delays grows by one delay with every sweep.              *)
LEMMA CostGrows ==
    ASSUME NEW a \in Nat, NEW b \in Nat
    PROVE  /\ Cost(a) \in Nat
           /\ MaxDelay <= Cost(a)
           /\ a <= b => Cost(a) <= Cost(b)
           /\ a + 1 <= b => Cost(a) + MaxDelay <= Cost(b)
BY LimitAssumption DEF Cost
-----------------------------------------------------------------------------
(* Types, without the bounds of the instance.                               *)

Level == [tokens : 0 .. Full, last : Nat]

RateType ==
    /\ now \in Nat
    /\ shardOf \in [Keys -> ShardIds]
    /\ DOMAIN buckets \subseteq Keys
    /\ \A k \in DOMAIN buckets : buckets[k] \in Level /\ buckets[k].last <= now
    /\ overflow \in [ShardIds -> Level]
    /\ \A i \in ShardIds : overflow[i].last <= now
    /\ lastSweep \in [ShardIds -> Nat]
    /\ \A i \in ShardIds : lastSweep[i] <= now
    /\ \A w \in Workers :
           request[w] # NoRequest =>
               /\ request[w].key \in Keys /\ request[w].stamp \in Nat
               /\ request[w].stamp <= now /\ now <= request[w].stamp + MaxDelay
    /\ request \in [Workers -> [key : Keys, stamp : Nat] \union {NoRequest}]
    /\ spent \in [Keys -> Nat]
    /\ spilled \in [Keys -> Nat]
    /\ promise \in [Keys -> Nat \union {None}]

(* A new limiter has full buckets, no key and no request in hand.           *)
LEMMA TypeStarts == Init => RateType
<1> SUFFICES ASSUME Init
             PROVE  RateType
  OBVIOUS
<1>1. [tokens |-> Full, last |-> 0] \in Level
  BY FullHolds DEF Level
<1>2. DOMAIN buckets = {}
  BY DEF Init
<1> QED
  BY <1>1, <1>2 DEF Init, RateType, None

(* What take does to a bucket: it stays one, and its clock does not pass    *)
(* now.                                                                     *)
LEMMA RefillType ==
    ASSUME NEW b \in Level, NEW t \in Nat
    PROVE  /\ Refill(b, t) \in Level
           /\ Refill(b, t).last = Later(b.last, t)
           /\ Refill(b, t).tokens = Smaller(b.tokens + Elapsed(b.last, t), Full)
BY FullHolds DEF Level, Refill, Smaller, Later, Elapsed, AtLeast0

(* The request of a worker, and the bucket it is charged to.                *)
LEMMA ChargedType ==
    ASSUME RateType, NEW k \in Keys, NEW t \in Nat, t <= now
    PROVE  /\ Charged(shardOf[k], k, t) \in Level
           /\ Charged(shardOf[k], k, t).last <= now
<1> DEFINE from == IF Overflows(shardOf[k], k, t) THEN overflow[shardOf[k]]
                   ELSE IF k \in DOMAIN buckets THEN buckets[k]
                   ELSE [tokens |-> Full, last |-> t]
<1>1. from \in Level /\ from.last <= now
  BY FullHolds DEF RateType, Level
<1>2. Charged(shardOf[k], k, t) = Refill(from, t)
  BY DEF Charged
<1> HIDE DEF from
<1>3. Refill(from, t) \in Level /\ Refill(from, t).last = Later(from.last, t)
  BY <1>1, RefillType
<1> QED
  BY <1>1, <1>2, <1>3 DEF Later

(* Storing a bucket keeps the tables.                                       *)
LEMMA StoreType ==
    ASSUME RateType, NEW k \in Keys, NEW t \in Nat, t <= now, NEW b \in Level,
           b.last <= now, Store(shardOf[k], k, t, b), Sweep(shardOf[k], k, t)
    PROVE  /\ DOMAIN buckets' \subseteq Keys
           /\ \A q \in DOMAIN buckets' : buckets'[q] \in Level /\ buckets'[q].last <= now
           /\ overflow' \in [ShardIds -> Level]
           /\ \A i \in ShardIds : overflow'[i].last <= now
           /\ lastSweep' \in [ShardIds -> Nat]
           /\ \A i \in ShardIds : lastSweep'[i] <= now
<1>1. Kept(shardOf[k], k, t) \subseteq DOMAIN buckets
  BY DEF Kept
<1>2. shardOf[k] \in ShardIds
  BY DEF RateType
<1>3. /\ lastSweep' \in [ShardIds -> Nat]
      /\ \A i \in ShardIds : lastSweep'[i] <= now
  BY <1>2 DEF RateType, Sweep
<1>4. CASE Overflows(shardOf[k], k, t)
  BY <1>1, <1>2, <1>3, <1>4 DEF RateType, Store
<1>5. CASE ~Overflows(shardOf[k], k, t)
  BY <1>1, <1>2, <1>3, <1>5 DEF RateType, Store
<1> QED
  BY <1>4, <1>5

(* Reading the clock, Limiter::take and time itself keep the types: no      *)
(* bucket holds more than the burst or less than nothing.                   *)
LEMMA TypeGoesOn ==
    ASSUME RateType, [Next]_vars
    PROVE  RateType'
<1>1. CASE Tick
  <2>1. spent' \in [Keys -> Nat] /\ spilled' \in [Keys -> Nat]
    BY <1>1 DEF Tick, RateType, AtLeast0
  <2>2. now' = now + 1 /\ UNCHANGED <<shardOf, buckets, overflow, lastSweep, request, promise>>
    BY <1>1 DEF Tick, tableVars
  <2>3. \A w \in Workers : request[w] # NoRequest =>
            request[w].stamp \in Nat /\ now - request[w].stamp < MaxDelay
    BY <1>1 DEF Tick, RateType
  <2> QED
    BY <2>1, <2>2, <2>3, LimitAssumption DEF RateType, Level
<1>2. ASSUME NEW w \in Workers, NEW k \in Keys, ReadClock(w, k)
      PROVE  RateType'
  <2>1. request' = [request EXCEPT ![w] = [key |-> k, stamp |-> now]]
    BY <1>2 DEF ReadClock
  <2>2. UNCHANGED <<now, shardOf, buckets, overflow, lastSweep, spent, spilled, promise>>
    BY <1>2 DEF ReadClock, tableVars, historyVars
  <2> QED
    BY <2>1, <2>2, LimitAssumption DEF RateType
<1>3. ASSUME NEW w \in Workers, Admit(w) \/ Refuse(w)
      PROVE  RateType'
  <2> DEFINE k == request[w].key
             t == request[w].stamp
             i == shardOf[k]
             b == Charged(i, k, t)
  <2>1. request[w] # NoRequest /\ k \in Keys /\ t \in Nat /\ t <= now
    BY <1>3 DEF Admit, Refuse, RateType
  <2>2. b \in Level /\ b.last <= now
    BY <2>1, ChargedType
  <2>3. b.tokens >= Interval =>
            /\ [b EXCEPT !.tokens = @ - Interval] \in Level
            /\ [b EXCEPT !.tokens = @ - Interval].last <= now
    <3> HIDE DEF b
    <3> QED
      BY <2>2, LimitAssumption, FullHolds DEF Level
  <2>4. PICK a \in Level : a.last <= now /\ Store(i, k, t, a) /\ Sweep(i, k, t)
    <3>1. CASE Admit(w)
      BY <3>1, <2>3 DEF Admit
    <3>2. CASE Refuse(w)
      BY <3>2, <2>2 DEF Refuse
    <3> QED
      BY <1>3, <3>1, <3>2
  <2>5. /\ DOMAIN buckets' \subseteq Keys
        /\ \A q \in DOMAIN buckets' : buckets'[q] \in Level /\ buckets'[q].last <= now
        /\ overflow' \in [ShardIds -> Level]
        /\ \A j \in ShardIds : overflow'[j].last <= now
        /\ lastSweep' \in [ShardIds -> Nat]
        /\ \A j \in ShardIds : lastSweep'[j] <= now
    BY <2>1, <2>4, StoreType
  <2>6. /\ now' = now /\ shardOf' = shardOf
        /\ request' = [request EXCEPT ![w] = NoRequest]
    BY <1>3 DEF Admit, Refuse
  <2>7. spent' \in [Keys -> Nat] /\ spilled' \in [Keys -> Nat]
    BY <1>3, <2>1, LimitAssumption DEF Admit, Refuse, RateType
  <2>8. promise' \in [Keys -> Nat \union {None}]
    <3>1. CASE Admit(w)
      BY <3>1 DEF Admit, RateType
    <3>2. CASE Refuse(w)
      <4>1. now + (Interval - b.tokens) \in Nat
        <5>1. b.tokens < Interval
          BY <3>2 DEF Refuse
        <5> HIDE DEF b
        <5> QED
          BY <2>2, <5>1, LimitAssumption DEF Level, RateType
      <4>2. promise' = [q \in Keys |->
                           IF q = k THEN now + (Interval - b.tokens)
                           ELSE IF q \in Dropped(i, k, t) THEN None
                           ELSE promise[q]]
        BY <3>2 DEF Refuse
      <4> HIDE DEF b, k, i, t
      <4> QED
        BY <4>1, <4>2 DEF RateType
    <3> QED
      BY <1>3, <3>1, <3>2
  <2>9. RateType
    OBVIOUS
  <2> HIDE DEF b, k, i, t
  <2> QED
    BY <2>5, <2>6, <2>7, <2>8, <2>9 DEF RateType
<1>4. CASE UNCHANGED vars
  BY <1>4 DEF vars, tableVars, historyVars, RateType
<1> QED
  BY <1>1, <1>2, <1>3, <1>4 DEF Next
-----------------------------------------------------------------------------
(* No key is given more than its rate.                                      *)

(* What late requests may have cost in a shard: a delay at first, and       *)
(* another with every sweep, of which there is one per SweepInterval.       *)
Slack(i) == Cost(lastSweep[i] \div SweepInterval)

(* What the bucket of a key lacks, and has not regained by now, bounds what *)
(* it gave out; a key without a bucket has regained it but for what earlier *)
(* sweeps cost.                                                             *)
Room(b, i) == Full - b.tokens - (now - b.last) + Slack(i)

KeyInv ==
    \A k \in Keys :
        IF k \in DOMAIN buckets THEN spent[k] <= AtLeast0(Room(buckets[k], shardOf[k]))
        ELSE spent[k] <= Slack(shardOf[k]) - MaxDelay

(* What the sweeps so far may have cost is within the slip, since sweeps    *)
(* of a shard are SweepInterval apart.                                      *)
LEMMA SlackFits ==
    ASSUME RateType, NEW i \in ShardIds
    PROVE  Slack(i) \in Nat /\ MaxDelay <= Slack(i) /\ Slack(i) <= Slip
<1>1. lastSweep[i] \in Nat /\ now \in Nat /\ lastSweep[i] <= now
  BY DEF RateType
<1>2. /\ lastSweep[i] \div SweepInterval \in Nat
      /\ now \div SweepInterval \in Nat
      /\ lastSweep[i] \div SweepInterval <= now \div SweepInterval
  BY <1>1, SweepIntervalPositive, Quotient
<1>3. Slip = Cost(now \div SweepInterval)
  BY DEF Slip, Cost
<1> QED
  BY <1>2, <1>3, CostGrows DEF Slack

(* A sweep adds a delay; nothing else changes the slack.                    *)
LEMMA SlackGrows ==
    ASSUME RateType, NEW k \in Keys, NEW t \in Nat, NEW i \in ShardIds, i = shardOf[k],
           Sweep(i, k, t)
    PROVE  /\ \A j \in ShardIds : Slack(j) <= Slack(j)' /\ Slack(j)' \in Nat
           /\ Sweeps(i, k, t) => Slack(i) + MaxDelay <= Slack(i)'
<1>1. lastSweep \in [ShardIds -> Nat]
  BY DEF RateType
<1>2. CASE Sweeps(i, k, t)
  <2>1. lastSweep[i] + SweepInterval <= t
    BY <1>1, <1>2, SweepIntervalPositive DEF Sweeps, Elapsed, AtLeast0
  <2>2. (lastSweep[i] \div SweepInterval) + 1 <= t \div SweepInterval
    BY <1>1, <2>1, SweepIntervalPositive, Quotient
  <2>3. lastSweep' = [lastSweep EXCEPT ![i] = t]
    BY <1>2 DEF Sweep
  <2>4. t \div SweepInterval \in Nat /\ lastSweep[i] \div SweepInterval \in Nat
    BY <1>1, SweepIntervalPositive, Quotient
  <2>5. Slack(i)' = Cost(t \div SweepInterval)
    <3>1. lastSweep'[i] = t
      BY <1>1, <2>3
    <3> QED
      BY <3>1 DEF Slack, Cost
  <2>6. /\ Slack(i) + MaxDelay <= Slack(i)'
        /\ Slack(i)' \in Nat
        /\ Slack(i) \in Nat
    BY <2>2, <2>4, <2>5, CostGrows DEF Slack
  <2>7. ASSUME NEW j \in ShardIds, j # i
        PROVE  Slack(j)' = Slack(j) /\ Slack(j) \in Nat
    <3>1. lastSweep'[j] = lastSweep[j]
      BY <1>1, <2>3, <2>7
    <3> QED
      BY <3>1, SlackFits DEF Slack, Cost
  <2>8. MaxDelay \in Nat
    BY LimitAssumption
  <2>9. ASSUME NEW j \in ShardIds
        PROVE  Slack(j) <= Slack(j)' /\ Slack(j)' \in Nat
    <3>1. CASE j = i
      BY <2>6, <2>8, <3>1
    <3>2. CASE j # i
      BY <2>7, <3>2
    <3> QED
      BY <3>1, <3>2
  <2> QED
    BY <2>6, <2>9
<1>3. CASE ~Sweeps(i, k, t)
  <2>1. lastSweep' = lastSweep
    BY <1>3 DEF Sweep
  <2>2. \A j \in ShardIds : Slack(j)' = Slack(j)
    BY <2>1 DEF Slack, Cost
  <2> QED
    BY <1>3, <2>2, SlackFits
<1> QED
  BY <1>2, <1>3

(* A bucket that is refilled up to a time read at most MaxDelay ago has     *)
(* room for what it gave out.                                               *)
LEMMA RefillRoom ==
    ASSUME now \in Nat, NEW b \in Level, b.last <= now, NEW i, Slack(i) \in Nat,
           MaxDelay <= Slack(i),
           NEW t \in Nat, t <= now, now <= t + MaxDelay
    PROVE  AtLeast0(Room(b, i)) <= Room(Refill(b, t), i)
<1>1. /\ Refill(b, t) \in Level
      /\ Refill(b, t).last = Later(b.last, t)
      /\ Refill(b, t).tokens = Smaller(b.tokens + Elapsed(b.last, t), Full)
  BY RefillType
<1> QED
  BY <1>1, FullHolds, LimitAssumption
     DEF Room, Level, AtLeast0, Later, Smaller, Elapsed

(* The bucket a key is charged to has room for what the key was given, with *)
(* the slack after the step.                                                *)
LEMMA ChargedRoom ==
    ASSUME RateType, KeyInv, NEW k \in Keys, NEW t \in Nat, t <= now, now <= t + MaxDelay,
           NEW i \in ShardIds, i = shardOf[k], ~Overflows(i, k, t), Sweep(i, k, t),
           NEW b, b = Charged(i, k, t)
    PROVE  spent[k] <= Full - b.tokens - (now - b.last) + Slack(i)'
<1>1. now \in Nat /\ MaxDelay \in Nat /\ spent[k] \in Nat
  BY LimitAssumption DEF RateType
<1>2. Slack(i) \in Nat /\ MaxDelay <= Slack(i) /\ Slack(i)' \in Nat /\ Slack(i) <= Slack(i)'
  BY SlackFits, SlackGrows
<1>3. b \in Level
  BY ChargedType
<1>4. CASE k \in DOMAIN buckets
  <2>1. b = Refill(buckets[k], t)
    BY <1>4 DEF Charged
  <2>2. spent[k] <= AtLeast0(Room(buckets[k], i))
    BY <1>4 DEF KeyInv
  <2>3. buckets[k] \in Level /\ buckets[k].last <= now
    BY <1>4 DEF RateType
  <2>4. AtLeast0(Room(buckets[k], i)) <= Room(b, i)
    BY <1>1, <1>2, <2>1, <2>3, RefillRoom
  <2>5. Room(buckets[k], i) \in Int
    BY <1>1, <1>2, <2>3, FullHolds DEF Room, Level
  <2>6. spent[k] <= Room(b, i)
    BY <1>1, <1>2, <1>3, <2>2, <2>4, <2>5, FullHolds DEF Room, Level, AtLeast0
  <2> QED
    BY <1>1, <1>2, <1>3, <2>6, FullHolds DEF Room, Level
<1>5. CASE k \notin DOMAIN buckets
  <2> DEFINE new == [tokens |-> Full, last |-> t]
  <2>1. b = Refill(new, t)
    BY <1>5 DEF Charged
  <2>2. new \in Level /\ new.last = t /\ new.tokens = Full
    BY FullHolds DEF Level
  <2>3. b.tokens = Full /\ b.last = t
    <3> HIDE DEF new
    <3> QED
      BY <2>1, <2>2, RefillType, FullHolds DEF Smaller, Elapsed, AtLeast0, Later
  <2>4. spent[k] <= Slack(i) - MaxDelay
    BY <1>5 DEF KeyInv
  <2> QED
    BY <1>1, <1>2, <2>3, <2>4, FullHolds
<1> QED
  BY <1>4, <1>5

(* A swept bucket has regained what it gave out but for the slack.          *)
LEMMA SweptRoom ==
    ASSUME RateType, KeyInv, NEW t \in Nat, t <= now, NEW i \in ShardIds,
           NEW q \in Idle(i, t)
    PROVE  spent[q] <= Slack(i)
<1>1. /\ q \in DOMAIN buckets /\ q \in Keys /\ shardOf[q] = i
      /\ buckets[q].tokens + Elapsed(buckets[q].last, t) >= Full
  BY DEF Idle, Table, RateType
<1>2. buckets[q] \in Level /\ buckets[q].last <= now /\ now \in Nat
  BY <1>1 DEF RateType
<1>3. spent[q] <= AtLeast0(Room(buckets[q], i)) /\ spent[q] \in Nat
  BY <1>1 DEF KeyInv, RateType
<1>4. Slack(i) \in Nat
  BY SlackFits
<1> QED
  BY <1>1, <1>2, <1>3, <1>4, FullHolds DEF Room, Level, AtLeast0, Elapsed

(* Storing a bucket with room for its key keeps KeyInv.                     *)
LEMMA StoreRoom ==
    ASSUME RateType, KeyInv, UNCHANGED <<now, shardOf>>,
           NEW k \in Keys, NEW t \in Nat, t <= now, NEW i \in ShardIds, i = shardOf[k],
           NEW a \in Level, Store(i, k, t, a), Sweep(i, k, t),
           spent' \in [Keys -> Nat], \A q \in Keys \ {k} : spent'[q] = spent[q],
           Overflows(i, k, t) => spent'[k] = spent[k],
           ~Overflows(i, k, t) => spent'[k] <= Full - a.tokens - (now - a.last) + Slack(i)'
    PROVE  KeyInv'
<1>1. /\ \A j \in ShardIds : Slack(j) <= Slack(j)' /\ Slack(j)' \in Nat /\ Slack(j) \in Nat
      /\ Sweeps(i, k, t) => Slack(i) + MaxDelay <= Slack(i)'
  BY SlackGrows, SlackFits
<1>2. Kept(i, k, t) \subseteq DOMAIN buckets /\ DOMAIN buckets \subseteq Keys
  BY DEF Kept, RateType
<1>3. now \in Nat /\ MaxDelay \in Nat /\ shardOf \in [Keys -> ShardIds]
      /\ spent \in [Keys -> Nat]
  BY LimitAssumption DEF RateType
<1> SUFFICES ASSUME NEW q \in Keys
             PROVE  IF q \in DOMAIN buckets'
                    THEN spent'[q] <= AtLeast0(Room(buckets[q], shardOf[q])')
                    ELSE spent'[q] <= Slack(shardOf[q])' - MaxDelay
  BY DEF KeyInv, AtLeast0, Room
<1> DEFINE j == shardOf[q]
<1>4. j \in ShardIds
  BY <1>3
<1>5. CASE q = k /\ ~Overflows(i, k, t)
  <2>1. q \in DOMAIN buckets' /\ buckets'[q] = a
    BY <1>5 DEF Store
  <2>2. Room(buckets[q], shardOf[q])' = Full - a.tokens - (now - a.last) + Slack(i)'
    BY <1>5, <2>1 DEF Room
  <2>3. Room(buckets[q], shardOf[q])' \in Int
    BY <1>1, <1>3, <2>2, FullHolds DEF Level
  <2> QED
    BY <1>5, <2>1, <2>2, <2>3 DEF AtLeast0
<1>6. CASE q \in Kept(i, k, t) /\ (q # k \/ Overflows(i, k, t))
  <2>1. q \in DOMAIN buckets' /\ buckets'[q] = buckets[q] /\ q \in DOMAIN buckets
    BY <1>2, <1>6 DEF Store
  <2>2. spent'[q] = spent[q] /\ spent[q] <= AtLeast0(Room(buckets[q], j))
    BY <1>6, <2>1 DEF KeyInv
  <2>3. buckets[q] \in Level
    BY <2>1 DEF RateType
  <2>4. PICK p \in ShardIds : p = j
    BY <1>4
  <2>5. Room(buckets[q], shardOf[q])' = Full - buckets[q].tokens - (now - buckets[q].last)
                                          + Slack(p)'
    BY <2>1, <2>4 DEF Room, Slack
  <2> QED
    BY <1>1, <1>3, <2>1, <2>2, <2>3, <2>4, <2>5, FullHolds DEF Room, Level, AtLeast0
<1>7. CASE q \notin Kept(i, k, t) /\ (q # k \/ Overflows(i, k, t))
  <2>1. q \notin DOMAIN buckets' /\ spent'[q] = spent[q]
    BY <1>7 DEF Store
  <2>2. PICK p \in ShardIds : p = j
    BY <1>4
  <2>3. Slack(shardOf[q])' = Slack(p)'
    BY <2>2 DEF Slack
  <2>4. CASE q \notin DOMAIN buckets
    <3>1. spent[q] <= Slack(p) - MaxDelay
      BY <2>2, <2>4 DEF KeyInv
    <3> QED
      BY <1>1, <1>3, <2>1, <2>3, <3>1
  <2>5. CASE q \in DOMAIN buckets
    <3>1. Sweeps(i, k, t) /\ q \in Idle(i, t)
      BY <1>7, <2>5 DEF Kept
    <3>2. p = i
      BY <2>2, <3>1 DEF Idle, Table
    <3>3. spent[q] <= Slack(i)
      BY <3>1, SweptRoom
    <3> QED
      BY <1>1, <1>3, <2>1, <2>3, <3>1, <3>2, <3>3
  <2> QED
    BY <2>4, <2>5
<1> QED
  BY <1>5, <1>6, <1>7

(* Every step keeps the account of each key: take spends what the bucket    *)
(* has, a refill follows the clock, and a sweep drops only buckets that     *)
(* are full again.                                                          *)
LEMMA KeyStep ==
    ASSUME RateType, KeyInv, [Next]_vars
    PROVE  KeyInv'
<1>0. RateType'
  BY TypeGoesOn
<1>1. CASE Tick
  <2>1. /\ now' = now + 1 /\ UNCHANGED <<shardOf, buckets, lastSweep>>
        /\ spent' = [k \in Keys |-> AtLeast0(spent[k] - 1)]
    BY <1>1 DEF Tick, tableVars
  <2> SUFFICES ASSUME NEW k \in Keys
               PROVE  IF k \in DOMAIN buckets'
                      THEN spent'[k] <= AtLeast0(Room(buckets[k], shardOf[k])')
                      ELSE spent'[k] <= Slack(shardOf[k])' - MaxDelay
    BY DEF KeyInv, AtLeast0, Room
  <2>2. PICK p \in ShardIds : p = shardOf[k]
    BY DEF RateType
  <2>3. Slack(shardOf[k])' = Slack(p) /\ Slack(p) \in Nat /\ MaxDelay <= Slack(p)
    BY <2>1, <2>2, SlackFits DEF Slack
  <2>4. now \in Nat /\ MaxDelay \in Nat /\ spent[k] \in Nat
    BY LimitAssumption DEF RateType
  <2>5. spent'[k] = AtLeast0(spent[k] - 1)
    BY <2>1
  <2>6. CASE k \in DOMAIN buckets
    <3>1. buckets[k] \in Level
      BY <2>6 DEF RateType
    <3>2. spent[k] <= AtLeast0(Room(buckets[k], p))
      BY <2>2, <2>6 DEF KeyInv
    <3>3. Room(buckets[k], shardOf[k])'
            = Full - buckets[k].tokens - (now + 1 - buckets[k].last) + Slack(p)
      <4>1. Room(buckets[k], shardOf[k])'
              = Full - buckets'[k].tokens - (now' - buckets'[k].last) + Slack(shardOf[k])'
        BY DEF Room
      <4>2. now' = now + 1 /\ buckets' = buckets
        BY <2>1
      <4> QED
        BY <2>3, <2>4, <3>1, <4>1, <4>2, FullHolds DEF Level
    <3> DEFINE before == Full - buckets[k].tokens - (now - buckets[k].last) + Slack(p)
    <3>4. spent[k] <= AtLeast0(before) /\ before \in Int
      BY <2>3, <2>4, <3>1, <3>2, FullHolds DEF Room, Level
    <3>5. Room(buckets[k], shardOf[k])' = before - 1
      BY <2>3, <2>4, <3>1, <3>3, FullHolds DEF Level
    <3> HIDE DEF before
    <3>6. spent'[k] <= AtLeast0(Room(buckets[k], shardOf[k])')
      BY <2>4, <2>5, <3>4, <3>5 DEF AtLeast0
    <3>7. k \in DOMAIN buckets'
      BY <2>1, <2>6
    <3> QED
      BY <3>6, <3>7
  <2>7. CASE k \notin DOMAIN buckets
    <3>1. spent[k] <= Slack(p) - MaxDelay
      BY <2>2, <2>7 DEF KeyInv
    <3> QED
      BY <2>1, <2>3, <2>4, <2>5, <2>7, <3>1 DEF AtLeast0
  <2> QED
    BY <2>6, <2>7
<1>2. ASSUME NEW w \in Workers, Admit(w) \/ Refuse(w)
      PROVE  KeyInv'
  <2>1. request[w] # NoRequest
    BY <1>2 DEF Admit, Refuse
  <2>2. PICK k \in Keys, t \in Nat : k = request[w].key /\ t = request[w].stamp
    BY <2>1 DEF RateType
  <2>3. t <= now /\ now <= t + MaxDelay
    BY <2>1, <2>2 DEF RateType
  <2>4. PICK i \in ShardIds : i = shardOf[k]
    BY DEF RateType
  <2>5. PICK b : b = Charged(i, k, t)
    OBVIOUS
  <2>6. b \in Level
    BY <2>3, <2>4, <2>5, ChargedType
  <2>7. spent' \in [Keys -> Nat] /\ UNCHANGED <<now, shardOf>> /\ Sweep(i, k, t)
    BY <1>0, <1>2, <2>2, <2>4 DEF RateType, Admit, Refuse
  <2>8. now \in Nat /\ spent \in [Keys -> Nat]
        /\ Interval \in Nat
    BY LimitAssumption DEF RateType
  <2>9. ~Overflows(i, k, t) => spent[k] <= Full - b.tokens - (now - b.last) + Slack(i)'
    BY <2>3, <2>4, <2>5, <2>7, ChargedRoom
  <2>10. Slack(i)' \in Nat
    BY <2>4, <2>7, SlackGrows
  <2>11. CASE Admit(w)
    <3>1. PICK a : a = [b EXCEPT !.tokens = @ - Interval]
      OBVIOUS
    <3>2. b.tokens >= Interval /\ Store(i, k, t, a)
          /\ spent' = IF Overflows(i, k, t) THEN spent
                      ELSE [spent EXCEPT ![k] = @ + Interval]
      BY <2>2, <2>4, <2>5, <2>11, <3>1 DEF Admit
    <3>3. a \in Level /\ a.tokens = b.tokens - Interval /\ a.last = b.last
      BY <2>6, <2>8, <3>1, <3>2, FullHolds, LimitAssumption DEF Level
    <3>4. ~Overflows(i, k, t) => spent'[k] <= Full - a.tokens - (now - a.last) + Slack(i)'
      BY <2>6, <2>8, <2>9, <2>10, <3>2, <3>3, FullHolds DEF Level
    <3>5. /\ \A q \in Keys \ {k} : spent'[q] = spent[q]
          /\ Overflows(i, k, t) => spent'[k] = spent[k]
      BY <2>8, <3>2
    <3> QED
      BY <2>3, <2>4, <2>7, <3>2, <3>3, <3>4, <3>5, StoreRoom
  <2>12. CASE Refuse(w)
    <3>1. Store(i, k, t, b) /\ spent' = spent
      BY <2>2, <2>4, <2>5, <2>12 DEF Refuse
    <3> QED
      BY <2>3, <2>4, <2>6, <2>7, <2>9, <3>1, StoreRoom
  <2> QED
    BY <1>2, <2>11, <2>12
<1>3. CASE (\E w \in Workers, k \in Keys : ReadClock(w, k)) \/ UNCHANGED vars
  <2>1. UNCHANGED <<now, shardOf, buckets, lastSweep, spent>>
    BY <1>3 DEF ReadClock, vars, tableVars, historyVars
  <2> QED
    BY <2>1 DEF KeyInv, Room, Slack
<1> QED
  BY <1>1, <1>2, <1>3 DEF Next

(* What the overflow bucket of a shard lacks, and has not regained by now,  *)
(* bounds what it gave each key of the shard.                               *)
Lack(b) == Full - b.tokens - (now - b.last) + MaxDelay

SpillInv == \A k \in Keys : spilled[k] <= AtLeast0(Lack(overflow[shardOf[k]]))

(* A refill up to a time read at most MaxDelay ago leaves the lack that     *)
(* bounds what a bucket gave out.                                           *)
LEMMA RefillLack ==
    ASSUME now \in Nat, NEW b \in Level, b.last <= now,
           NEW t \in Nat, t <= now, now <= t + MaxDelay
    PROVE  AtLeast0(Lack(b)) <= Lack(Refill(b, t))
<1>1. /\ Refill(b, t) \in Level
      /\ Refill(b, t).last = Later(b.last, t)
      /\ Refill(b, t).tokens = Smaller(b.tokens + Elapsed(b.last, t), Full)
  BY RefillType
<1> QED
  BY <1>1, FullHolds, LimitAssumption
     DEF Lack, Level, AtLeast0, Later, Smaller, Elapsed

(* Every step keeps the account of what the overflow bucket gave: take      *)
(* spends what it has and no sweep drops it.                                *)
LEMMA SpillStep ==
    ASSUME RateType, SpillInv, [Next]_vars
    PROVE  SpillInv'
<1>0. RateType'
  BY TypeGoesOn
<1>1. CASE Tick
  <2>1. now' = now + 1 /\ shardOf' = shardOf /\ overflow' = overflow
        /\ spilled' = [k \in Keys |-> AtLeast0(spilled[k] - 1)]
    BY <1>1 DEF Tick, tableVars
  <2> SUFFICES ASSUME NEW k \in Keys
               PROVE  spilled'[k] <= AtLeast0(Lack(overflow[shardOf[k]])')
    BY DEF SpillInv, AtLeast0
  <2>2. PICK b \in Level : b = overflow[shardOf[k]]
    BY DEF RateType
  <2>3. now \in Nat /\ MaxDelay \in Nat /\ spilled[k] \in Nat
    BY LimitAssumption DEF RateType
  <2>4. spilled'[k] = AtLeast0(spilled[k] - 1)
    BY <2>1
  <2>5. spilled[k] <= AtLeast0(Full - b.tokens - (now - b.last) + MaxDelay)
    BY <2>2 DEF SpillInv, Lack
  <2>6. Lack(overflow[shardOf[k]])' = Full - b.tokens - ((now + 1) - b.last) + MaxDelay
    BY <2>1, <2>2 DEF Lack
  <2> QED
    BY <2>2, <2>3, <2>4, <2>5, <2>6, FullHolds DEF AtLeast0, Level
<1>2. ASSUME NEW w \in Workers, Admit(w) \/ Refuse(w)
      PROVE  SpillInv'
  <2>1. request[w] # NoRequest
    BY <1>2 DEF Admit, Refuse
  <2>2. PICK k \in Keys, t \in Nat : k = request[w].key /\ t = request[w].stamp
    BY <2>1 DEF RateType
  <2>3. t <= now /\ now <= t + MaxDelay
    BY <2>1, <2>2 DEF RateType
  <2>4. PICK i \in ShardIds : i = shardOf[k]
    BY DEF RateType
  <2>5. PICK b : b = Charged(i, k, t)
    OBVIOUS
  <2>6. b \in Level
    BY <2>3, <2>4, <2>5, ChargedType
  <2>7. now' = now /\ shardOf' = shardOf /\ spilled' \in [Keys -> Nat]
    BY <1>0, <1>2 DEF Admit, Refuse, RateType
  <2>8. now \in Nat /\ MaxDelay \in Nat /\ Interval \in Nat
        /\ spilled \in [Keys -> Nat] /\ shardOf \in [Keys -> ShardIds]
        /\ overflow \in [ShardIds -> Level]
    BY LimitAssumption DEF RateType
  <2>9. PICK a \in Level, c \in {0, Interval} :
            /\ Store(i, k, t, a)
            /\ a.tokens = b.tokens - c /\ a.last = b.last
            /\ spilled' = IF Overflows(i, k, t) THEN [spilled EXCEPT ![k] = @ + c]
                         ELSE spilled
    <3>1. CASE Admit(w)
      <4>1. PICK a : a = [b EXCEPT !.tokens = @ - Interval]
        OBVIOUS
      <4>2. b.tokens >= Interval /\ Store(i, k, t, a)
            /\ spilled' = IF Overflows(i, k, t)
                          THEN [spilled EXCEPT ![k] = @ + Interval] ELSE spilled
        BY <2>2, <2>4, <2>5, <3>1, <4>1 DEF Admit
      <4>3. a \in Level /\ a.tokens = b.tokens - Interval /\ a.last = b.last
        BY <2>6, <2>8, <4>1, <4>2, FullHolds, LimitAssumption DEF Level
      <4> QED
        BY <4>2, <4>3
    <3>2. CASE Refuse(w)
      <4>1. Store(i, k, t, b) /\ spilled' = spilled
        BY <2>2, <2>4, <2>5, <3>2 DEF Refuse
      <4>2. b.tokens = b.tokens - 0 /\ spilled' = [spilled EXCEPT ![k] = @ + 0]
        BY <2>6, <2>8, <4>1, FullHolds DEF Level
      <4> QED
        BY <2>6, <4>1, <4>2
    <3> QED
      BY <1>2, <3>1, <3>2
  <2> SUFFICES ASSUME NEW q \in Keys
               PROVE  spilled'[q] <= AtLeast0(Lack(overflow[shardOf[q]])')
    BY DEF SpillInv, AtLeast0
  <2>10. PICK o \in Level : o = overflow[shardOf[q]] /\ o.last <= now
    BY <2>8 DEF RateType
  <2>11. spilled[q] \in Nat /\ spilled[q] <= AtLeast0(Lack(o))
    BY <2>8, <2>10 DEF SpillInv
  <2>12. CASE Overflows(i, k, t) /\ shardOf[q] = i
    <3>1. b = Refill(o, t)
      BY <2>5, <2>10, <2>12 DEF Charged
    <3>2. AtLeast0(Lack(o)) <= Lack(b)
      BY <2>3, <2>8, <2>10, <3>1, RefillLack
    <3>3. overflow'[shardOf'[q]] = a
      BY <2>7, <2>8, <2>9, <2>12 DEF Store
    <3>4. Lack(overflow[shardOf[q]])' = Full - a.tokens - (now - a.last) + MaxDelay
      BY <2>7, <3>3 DEF Lack
    <3>5. spilled'[q] <= spilled[q] + c
      BY <2>8, <2>9, <2>12
    <3>6. Lack(o) \in Int /\ Lack(b) \in Int
          /\ Lack(b) = Full - b.tokens - (now - b.last) + MaxDelay
      BY <2>6, <2>8, <2>10, FullHolds DEF Lack, Level
    <3>7. c \in Nat /\ spilled'[q] \in Nat
      BY <2>7, <2>8
    <3> QED
      BY <2>6, <2>8, <2>9, <2>11, <3>2, <3>4, <3>5, <3>6, <3>7, FullHolds
         DEF AtLeast0, Level
  <2>13. CASE ~(Overflows(i, k, t) /\ shardOf[q] = i)
    <3>1. overflow'[shardOf'[q]] = o
      BY <2>7, <2>8, <2>9, <2>10, <2>13 DEF Store
    <3>2. spilled'[q] = spilled[q]
      BY <2>4, <2>8, <2>9, <2>13
    <3>3. Lack(overflow[shardOf[q]])' = Lack(o)
      BY <2>7, <3>1 DEF Lack
    <3> QED
      BY <2>11, <3>2, <3>3 DEF AtLeast0
  <2> QED
    BY <2>12, <2>13
<1>3. CASE (\E w \in Workers, k \in Keys : ReadClock(w, k)) \/ UNCHANGED vars
  <2>1. UNCHANGED <<now, shardOf, overflow, spilled>>
    BY <1>3 DEF ReadClock, vars, tableVars, historyVars
  <2> QED
    BY <2>1 DEF SpillInv, Lack
<1> QED
  BY <1>1, <1>2, <1>3 DEF Next

(* Limiter::take: no key is given more than burst plus rate by its own      *)
(* bucket, up to the slip of late requests, and no more than burst plus     *)
(* rate and a delay by the overflow bucket, every grant counted, for any    *)
(* number of keys, workers and shards, whatever the order in which clock    *)
(* values reach a bucket and whenever it is swept.                          *)
THEOREM KeysWithinRate == Spec => []KeyWithinRate
<1>1. ASSUME Init
      PROVE  KeyInv /\ SpillInv
  <2>1. DOMAIN buckets = {}
    BY <1>1 DEF Init
  <2>2. \A k \in Keys : spent[k] = 0 /\ shardOf[k] \in ShardIds
    BY <1>1 DEF Init
  <2>3. \A i \in ShardIds : Slack(i) \in Nat /\ MaxDelay <= Slack(i)
    BY <1>1, TypeStarts, SlackFits
  <2>4. KeyInv
    BY <2>1, <2>2, <2>3, LimitAssumption DEF KeyInv
  <2>5. /\ now = 0
        /\ \A k \in Keys : spilled[k] = 0
        /\ \A i \in ShardIds : overflow[i].tokens = Full /\ overflow[i].last = 0
    BY <1>1 DEF Init
  <2>6. \A i \in ShardIds : Lack(overflow[i]) = MaxDelay
    BY <2>5, FullHolds, LimitAssumption DEF Lack
  <2>7. SpillInv
    BY <2>2, <2>5, <2>6, LimitAssumption DEF SpillInv, AtLeast0
  <2> QED
    BY <2>4, <2>7
<1>2. RateType /\ KeyInv /\ SpillInv /\ [Next]_vars => (RateType /\ KeyInv /\ SpillInv)'
  BY TypeGoesOn, KeyStep, SpillStep
<1>4. ASSUME RateType, SpillInv, NEW k \in Keys
      PROVE  spilled[k] <= Full + MaxDelay
  <2>1. PICK b \in Level : b = overflow[shardOf[k]] /\ b.last <= now
    BY <1>4 DEF RateType
  <2>2. spilled[k] <= AtLeast0(Full - b.tokens - (now - b.last) + MaxDelay)
    BY <1>4, <2>1 DEF SpillInv, Lack
  <2>3. spilled[k] \in Nat /\ MaxDelay \in Nat /\ now \in Nat
    BY <1>4, LimitAssumption DEF RateType
  <2> QED
    BY <2>1, <2>2, <2>3, FullHolds DEF Level, AtLeast0
<1>3. ASSUME RateType, KeyInv, SpillInv
      PROVE  KeyWithinRate
  <2> SUFFICES ASSUME NEW k \in Keys
               PROVE  spent[k] <= Full + Slip
    BY <1>3, <1>4 DEF KeyWithinRate
  <2>1. PICK p \in ShardIds : p = shardOf[k]
    BY <1>3 DEF RateType
  <2>2. Slack(p) \in Nat /\ MaxDelay <= Slack(p) /\ Slack(p) <= Slip
    BY <1>3, SlackFits
  <2>3. Slip \in Nat
    <3>1. now \div SweepInterval \in Nat
      BY <1>3, SweepIntervalPositive, Quotient DEF RateType
    <3>2. Cost(now \div SweepInterval) \in Nat
      BY <3>1, CostGrows
    <3> QED
      BY <3>2 DEF Slip, Cost
  <2>4. spent[k] \in Nat /\ MaxDelay \in Nat /\ now \in Nat
    BY <1>3, LimitAssumption DEF RateType
  <2>5. CASE k \in DOMAIN buckets
    <3>1. buckets[k] \in Level /\ buckets[k].last <= now
      BY <1>3, <2>5 DEF RateType
    <3>2. spent[k] <= AtLeast0(Room(buckets[k], p))
      BY <1>3, <2>1, <2>5 DEF KeyInv
    <3> QED
      BY <2>2, <2>3, <2>4, <3>1, <3>2, FullHolds DEF Room, Level, AtLeast0
  <2>6. CASE k \notin DOMAIN buckets
    <3>1. spent[k] <= Slack(p) - MaxDelay
      BY <1>3, <2>1, <2>6 DEF KeyInv
    <3> QED
      BY <2>2, <2>3, <2>4, <3>1, FullHolds
  <2> QED
    BY <2>5, <2>6
<1> QED
  BY <1>1, <1>2, <1>3, TypeStarts, PTL DEF Spec
-----------------------------------------------------------------------------
(* Retry-After is kept.                                                     *)

(* When a bucket that has no token has one again, and the bucket a key is   *)
(* charged to if it gets no new one.                                        *)
Waits(b) == b.last + Interval - b.tokens

BucketOf(k) == IF k \in DOMAIN buckets THEN buckets[k] ELSE overflow[shardOf[k]]

RetryInv == \A k \in Keys : promise[k] # None => Waits(BucketOf(k)) <= promise[k]

(* A refill that finds no token does not change when there is one.          *)
LEMMA RefillWaits ==
    ASSUME NEW b \in Level, NEW t \in Nat, NEW r, r = Refill(b, t), r.tokens < Interval
    PROVE  Waits(r) = Waits(b) /\ t < Waits(b)
<1>1. /\ r \in Level
      /\ r.last = Later(b.last, t)
      /\ r.tokens = Smaller(b.tokens + Elapsed(b.last, t), Full)
  BY RefillType
<1>2. Interval \in Nat \ {0}
  BY LimitAssumption
<1> QED
  BY <1>1, <1>2, FullHolds DEF Waits, Level, Later, Smaller, Elapsed, AtLeast0

(* A request is refused by the bucket of its key, or by the overflow bucket *)
(* when there is none, and not before that has a token again.               *)
LEMMA RefusedByBucket ==
    ASSUME RateType, NEW k \in Keys, NEW t \in Nat, t <= now,
           NEW i \in ShardIds, i = shardOf[k],
           NEW b, b = Charged(i, k, t), b.tokens < Interval
    PROVE  /\ b \in Level /\ b.last <= now
           /\ Waits(b) = Waits(BucketOf(k)) /\ t < Waits(BucketOf(k))
           /\ k \in DOMAIN buckets \/ Overflows(i, k, t)
<1>1. b \in Level /\ b.last <= now
  BY ChargedType
<1>2. k \in DOMAIN buckets \/ Overflows(i, k, t)
  <2> SUFFICES ASSUME k \notin DOMAIN buckets, ~Overflows(i, k, t)
               PROVE  FALSE
    OBVIOUS
  <2> DEFINE new == [tokens |-> Full, last |-> t]
  <2>1. b = Refill(new, t)
    BY DEF Charged
  <2>2. new \in Level /\ new.last = t /\ new.tokens = Full
    BY FullHolds DEF Level
  <2> HIDE DEF new
  <2>3. b.tokens = Full
    BY <2>1, <2>2, RefillType, FullHolds DEF Smaller, Elapsed, AtLeast0
  <2>4. Interval \in Nat
    BY LimitAssumption
  <2> QED
    BY <2>3, <2>4, FullHolds
<1>3. BucketOf(k) \in Level
  BY DEF BucketOf, RateType
<1>4. b = Refill(BucketOf(k), t)
  BY <1>2 DEF Charged, BucketOf, Overflows
<1>5. Waits(b) = Waits(BucketOf(k)) /\ t < Waits(BucketOf(k))
  BY <1>3, <1>4, RefillWaits
<1> QED
  BY <1>1, <1>2, <1>5

(* An admission forgets the promises it touches; a refusal leaves every     *)
(* other key's bucket to have its token when it was to have it.             *)
LEMMA RetryStep ==
    ASSUME RateType, RetryInv, [Next]_vars
    PROVE  RetryInv'
<1>1. CASE Tick \/ (\E w \in Workers, k \in Keys : ReadClock(w, k)) \/ UNCHANGED vars
  <2>1. UNCHANGED <<shardOf, buckets, overflow, promise>>
    BY <1>1 DEF Tick, ReadClock, vars, tableVars, historyVars
  <2> QED
    BY <2>1 DEF RetryInv, BucketOf, Waits
<1>2. ASSUME NEW w \in Workers, Admit(w) \/ Refuse(w)
      PROVE  RetryInv'
  <2>1. request[w] # NoRequest
    BY <1>2 DEF Admit, Refuse
  <2>2. PICK k \in Keys, t \in Nat : k = request[w].key /\ t = request[w].stamp
    BY <2>1 DEF RateType
  <2>3. t <= now
    BY <2>1, <2>2 DEF RateType
  <2>4. PICK i \in ShardIds : i = shardOf[k]
    BY DEF RateType
  <2>5. PICK b : b = Charged(i, k, t)
    OBVIOUS
  <2>6. shardOf' = shardOf /\ shardOf \in [Keys -> ShardIds]
        /\ overflow \in [ShardIds -> Level] /\ now \in Nat
        /\ Kept(i, k, t) \subseteq DOMAIN buckets
    BY <1>2 DEF Admit, Refuse, RateType, Kept
  <2> SUFFICES ASSUME NEW q \in Keys, promise'[q] # None
               PROVE  Waits(BucketOf(q))' <= promise'[q]
    BY DEF RetryInv
  <2>7. promise[q] # None => Waits(BucketOf(q)) <= promise[q]
    BY DEF RetryInv
  <2>8. CASE Admit(w)
    <3>1. PICK a : a = [b EXCEPT !.tokens = @ - Interval]
      OBVIOUS
    <3>2. /\ Store(i, k, t, a)
          /\ promise' = [p \in Keys |->
                            IF p \in SameBucket(i, k, t) \union Dropped(i, k, t)
                            THEN None ELSE promise[p]]
      BY <2>2, <2>4, <2>5, <2>8, <3>1 DEF Admit
    <3>3. q \notin SameBucket(i, k, t) /\ q \notin Dropped(i, k, t) /\ promise'[q] = promise[q]
      BY <3>2
    <3>4. BucketOf(q)' = BucketOf(q)
      <4>1. CASE Overflows(i, k, t)
        <5>1. /\ overflow' = [overflow EXCEPT ![i] = a]
              /\ buckets' = [p \in Kept(i, k, t) |-> buckets[p]]
          BY <3>2, <4>1 DEF Store
        <5>2. shardOf[q] = i => q \in Kept(i, k, t)
          BY <3>3, <4>1 DEF SameBucket
        <5>3. q \in DOMAIN buckets => q \in Kept(i, k, t)
          BY <3>3 DEF Dropped
        <5> QED
          BY <2>6, <5>1, <5>2, <5>3 DEF BucketOf
      <4>2. CASE ~Overflows(i, k, t)
        <5>1. /\ overflow' = overflow
              /\ buckets' = [p \in Kept(i, k, t) \union {k} |-> IF p = k THEN a ELSE buckets[p]]
          BY <3>2, <4>2 DEF Store
        <5>2. q # k
          BY <3>3, <4>2 DEF SameBucket
        <5>3. q \in DOMAIN buckets => q \in Kept(i, k, t)
          BY <3>3 DEF Dropped
        <5> QED
          BY <2>6, <5>1, <5>2, <5>3 DEF BucketOf
      <4> QED
        BY <4>1, <4>2
    <3> QED
      BY <2>7, <3>3, <3>4 DEF Waits
  <2>9. CASE Refuse(w)
    <3>1. /\ Store(i, k, t, b) /\ b.tokens < Interval
          /\ promise' = [p \in Keys |->
                            IF p = k THEN now + (Interval - b.tokens)
                            ELSE IF p \in Dropped(i, k, t) THEN None
                            ELSE promise[p]]
      BY <2>2, <2>4, <2>5, <2>9 DEF Refuse
    <3>2. /\ b \in Level /\ b.last <= now
          /\ Waits(b) = Waits(BucketOf(k))
          /\ k \in DOMAIN buckets \/ Overflows(i, k, t)
      BY <2>3, <2>4, <2>5, <3>1, RefusedByBucket
    <3>3. CASE q = k
      <4>1. BucketOf(q)' = b
        BY <2>4, <2>6, <3>1, <3>2, <3>3 DEF Store, BucketOf, Overflows
      <4>2. promise'[q] = now + (Interval - b.tokens)
        BY <3>1, <3>3
      <4>3. Interval \in Nat
        BY LimitAssumption
      <4> QED
        BY <2>6, <3>2, <4>1, <4>2, <4>3, FullHolds DEF Waits, Level
    <3>4. CASE q # k
      <4>1. q \notin Dropped(i, k, t) /\ promise'[q] = promise[q]
        BY <3>1, <3>4
      <4>2. q \in DOMAIN buckets => q \in Kept(i, k, t)
        BY <4>1 DEF Dropped
      <4>3. CASE Overflows(i, k, t)
        <5>1. /\ overflow' = [overflow EXCEPT ![i] = b]
              /\ buckets' = [p \in Kept(i, k, t) |-> buckets[p]]
              /\ k \notin DOMAIN buckets
          BY <3>1, <4>3 DEF Store, Overflows
        <5>2. CASE q \notin DOMAIN buckets /\ shardOf[q] = i
          <6>1. BucketOf(q)' = b /\ BucketOf(q) = BucketOf(k)
            BY <2>4, <2>6, <5>1, <5>2 DEF BucketOf
          <6> QED
            BY <2>7, <3>2, <4>1, <6>1 DEF Waits
        <5>3. CASE q \in DOMAIN buckets \/ shardOf[q] # i
          <6>1. BucketOf(q)' = BucketOf(q)
            BY <2>6, <4>2, <5>1, <5>3 DEF BucketOf
          <6> QED
            BY <2>7, <4>1, <6>1 DEF Waits
        <5> QED
          BY <5>2, <5>3
      <4>4. CASE ~Overflows(i, k, t)
        <5>1. /\ overflow' = overflow
              /\ buckets' = [p \in Kept(i, k, t) \union {k} |-> IF p = k THEN b ELSE buckets[p]]
          BY <3>1, <4>4 DEF Store
        <5>2. BucketOf(q)' = BucketOf(q)
          BY <2>6, <3>4, <4>2, <5>1 DEF BucketOf
        <5> QED
          BY <2>7, <4>1, <5>2 DEF Waits
      <4> QED
        BY <4>3, <4>4
    <3> QED
      BY <3>3, <3>4
  <2> QED
    BY <1>2, <2>8, <2>9
<1> QED
  BY <1>1, <1>2 DEF Next

(* A client that waits as long as Retry-After says finds a token in its     *)
(* bucket, if the bucket is still there and nobody took from it: for any    *)
(* rate, and whatever refusals, sweeps and late clocks come in between.     *)
THEOREM RetryAfterKept == Spec => RetryAfterHolds
<1> DEFINE PromisesHeld == \A w \in Workers :
                       (Refuse(w) /\ promise[request[w].key] # None)
                         => request[w].stamp < promise[request[w].key]
<1>1. Init => RateType /\ RetryInv
  BY TypeStarts DEF Init, RetryInv
<1>2. RateType /\ RetryInv /\ [Next]_vars => (RateType /\ RetryInv)'
  BY TypeGoesOn, RetryStep
<1>3. ASSUME RateType, RetryInv
      PROVE  PromisesHeld
  <2> SUFFICES ASSUME NEW w \in Workers, Refuse(w), promise[request[w].key] # None
               PROVE  request[w].stamp < promise[request[w].key]
    OBVIOUS
  <2>1. PICK k \in Keys, t \in Nat : k = request[w].key /\ t = request[w].stamp /\ t <= now
    BY <1>3 DEF RateType, Refuse
  <2>2. PICK i \in ShardIds : i = shardOf[k]
    BY <1>3 DEF RateType
  <2>3. PICK b : b = Charged(i, k, t)
    OBVIOUS
  <2>4. b.tokens < Interval
    BY <2>1, <2>2, <2>3 DEF Refuse
  <2>5. t < Waits(BucketOf(k)) /\ Waits(BucketOf(k)) <= promise[k]
    BY <1>3, <2>1, <2>2, <2>3, <2>4, RefusedByBucket DEF RetryInv
  <2>6. Waits(BucketOf(k)) \in Int /\ promise[k] \in Int
    <3>1. BucketOf(k) \in Level
      BY <1>3 DEF BucketOf, RateType
    <3>2. Interval \in Nat
      BY LimitAssumption
    <3> QED
      BY <1>3, <3>1, <3>2, FullHolds DEF Waits, Level, RateType, None
  <2> QED
    BY <2>1, <2>5, <2>6
<1>4. RateType /\ RetryInv => [PromisesHeld]_vars
  BY <1>3
<1> QED
  BY <1>1, <1>2, <1>4, PTL DEF Spec, RetryAfterHolds
-----------------------------------------------------------------------------
(* The table is bounded.                                                    *)

(* Every shard keeps to its own cap.                                        *)
TableInv == \A i \in ShardIds : Cardinality(Table(i)) <= ShardCap(i)

(* The caps laid side by side: where a shard's places start.                *)
FirstPlace(i) == i * (MaxKeys \div Shards) + Smaller(i, MaxKeys % Shards)

(* Division with remainder.                                                 *)
LEMMA Division ==
    ASSUME NEW a \in Nat, NEW n \in Nat \ {0}
    PROVE  /\ a \div n \in Nat
           /\ a % n \in 0 .. n - 1
           /\ a = n * (a \div n) + (a % n)
<1>1. a \div n \in Nat
  OBVIOUS
<1>2. a % n \in 0 .. n - 1
  OBVIOUS
<1>3. a = n * (a \div n) + (a % n)
  OBVIOUS
<1> QED
  BY <1>1, <1>2, <1>3

(* Multiples keep their distance.                                           *)
LEMMA Multiples ==
    ASSUME NEW a \in Nat, NEW b \in Nat, NEW c \in Nat, a + 1 <= b
    PROVE  a * c \in Nat /\ b * c \in Nat /\ a * c + c <= b * c
<1>1. PICK d \in Nat : b = a + 1 + d
  <2>1. b - a - 1 \in Nat /\ b = a + 1 + (b - a - 1)
    OBVIOUS
  <2> QED
    BY <2>1
<1>2. b * c = a * c + c + d * c
  BY <1>1
<1>3. a * c \in Nat /\ d * c \in Nat
  OBVIOUS
<1> QED
  BY <1>2, <1>3

(* Shards do not share places, and all places are within max_keys.          *)
LEMMA Places ==
    ASSUME NEW i \in ShardIds
    PROVE  /\ FirstPlace(i) \in Nat
           /\ ShardCap(i) \in Nat
           /\ FirstPlace(i) + ShardCap(i) <= MaxKeys
           /\ \A j \in ShardIds : i < j => FirstPlace(i) + ShardCap(i) <= FirstPlace(j)
<1> DEFINE base == MaxKeys \div Shards
           rest == MaxKeys % Shards
<1>1. base \in Nat /\ rest \in 0 .. Shards - 1 /\ MaxKeys = Shards * base + rest
  BY LimitAssumption, Division
<1>2. i \in Nat /\ i + 1 <= Shards /\ Shards \in Nat
  BY LimitAssumption DEF ShardIds
<1>3. i * base \in Nat /\ i * base + base <= Shards * base
  BY <1>1, <1>2, Multiples
<1>4. ASSUME NEW j \in ShardIds, i < j
      PROVE  i * base + base <= j * base /\ j * base \in Nat /\ i + 1 <= j /\ j \in Nat
  BY <1>1, <1>2, <1>4, Multiples DEF ShardIds
<1>5. /\ FirstPlace(i) = i * base + (IF i <= rest THEN i ELSE rest)
      /\ ShardCap(i) = base + (IF i < rest THEN 1 ELSE 0)
  BY DEF FirstPlace, ShardCap, Smaller
<1>6. \A j \in ShardIds : FirstPlace(j) = j * base + (IF j <= rest THEN j ELSE rest)
  BY DEF FirstPlace, Smaller
<1> HIDE DEF base, rest
<1>7. FirstPlace(i) \in Nat /\ ShardCap(i) \in Nat
  BY <1>1, <1>2, <1>3, <1>5
<1>8. FirstPlace(i) + ShardCap(i) <= MaxKeys
  BY <1>1, <1>2, <1>3, <1>5
<1>9. ASSUME NEW j \in ShardIds, i < j
      PROVE  FirstPlace(i) + ShardCap(i) <= FirstPlace(j)
  BY <1>1, <1>2, <1>3, <1>4, <1>5, <1>6, <1>9
<1> QED
  BY <1>7, <1>8, <1>9

(* The keys of a shard, and of all of them, are finitely many.              *)
LEMMA TablesFinite ==
    ASSUME RateType
    PROVE  /\ IsFiniteSet(DOMAIN buckets)
           /\ \A i \in ShardIds : IsFiniteSet(Table(i)) /\ Cardinality(Table(i)) \in Nat
<1>1. IsFiniteSet(DOMAIN buckets)
  BY LimitAssumption, FS_Subset DEF RateType
<1>2. \A i \in ShardIds : Table(i) \in SUBSET DOMAIN buckets
  BY DEF Table
<1> QED
  BY <1>1, <1>2, FS_Subset, FS_CardinalityType

(* Limiter::take adds a key to a shard's table only below the shard's cap,  *)
(* after a sweep or without one, and touches no other shard.                *)
LEMMA StoreKeepsCap ==
    ASSUME RateType, TableInv, NEW k \in Keys, NEW t \in Nat, NEW b,
           Store(shardOf[k], k, t, b), shardOf' = shardOf
    PROVE  TableInv'
<1> DEFINE i == shardOf[k]
           kept == Table(i) \intersect Kept(i, k, t)
<1>1. i \in ShardIds
  BY DEF RateType
<1>2. Kept(i, k, t) \subseteq DOMAIN buckets
  BY DEF Kept
<1>3. kept \in SUBSET Table(i) /\ IsFiniteSet(kept) /\ Cardinality(kept) <= Cardinality(Table(i))
  BY <1>1, TablesFinite, FS_Subset
<1>4. Cardinality(kept) \in Nat /\ Cardinality(Table(i)) \in Nat /\ ShardCap(i) \in Nat
  BY <1>1, <1>3, TablesFinite, FS_CardinalityType, Places
<1>5. Cardinality(Table(i)) <= ShardCap(i)
  BY <1>1 DEF TableInv
<1>6. ASSUME NEW j \in ShardIds, j # i
      PROVE  Cardinality(Table(j)') <= ShardCap(j)
  <2>1. DOMAIN buckets' \subseteq DOMAIN buckets \union {k}
    BY <1>2 DEF Store
  <2>2. Table(j)' \in SUBSET Table(j)
    BY <1>6, <2>1 DEF Table
  <2>3. Cardinality(Table(j)') <= Cardinality(Table(j)) /\ Cardinality(Table(j)') \in Nat
    BY <2>2, TablesFinite, FS_Subset, FS_CardinalityType
  <2>4. Cardinality(Table(j)) \in Nat /\ Cardinality(Table(j)) <= ShardCap(j) /\ ShardCap(j) \in Nat
    BY TablesFinite, Places DEF TableInv
  <2> QED
    BY <2>3, <2>4
<1>7. Cardinality(Table(i)') <= ShardCap(i)
  <2>1. CASE Overflows(i, k, t)
    <3>1. DOMAIN buckets' = Kept(i, k, t)
      BY <2>1 DEF Store
    <3>2. Table(i)' = kept
      BY <1>2, <3>1 DEF Table
    <3> QED
      BY <1>3, <1>4, <1>5, <3>2
  <2>2. CASE ~Overflows(i, k, t)
    <3>1. DOMAIN buckets' = Kept(i, k, t) \union {k}
      BY <2>2 DEF Store
    <3>2. Table(i)' = kept \union {k}
      BY <1>2, <3>1 DEF Table
    <3>3. CASE k \in DOMAIN buckets
      <4>1. k \in kept
        BY <3>3 DEF Kept, Sweeps, Table
      <4> QED
        BY <1>3, <1>4, <1>5, <3>2, <4>1, kept \union {k} = kept
    <3>4. CASE k \notin DOMAIN buckets
      <4>1. Cardinality(kept) < ShardCap(i)
        BY <1>4, <2>2, <3>4 DEF Overflows
      <4>2. k \notin kept
        BY <3>4 DEF Table
      <4>3. Cardinality(kept \union {k}) = Cardinality(kept) + 1
        BY <1>3, <4>2, FS_AddElement
      <4> QED
        BY <1>4, <3>2, <4>1, <4>3
    <3> QED
      BY <3>3, <3>4
  <2> QED
    BY <2>1, <2>2
<1>8. \A j \in ShardIds : ShardCap(j)' = ShardCap(j)
  BY DEF ShardCap
<1>9. ASSUME NEW j \in ShardIds
      PROVE  Cardinality(Table(j)') <= ShardCap(j)
  BY <1>6, <1>7
<1> QED
  BY <1>9 DEF TableInv

(* Every step keeps every shard to its cap.                                 *)
LEMMA TableStep ==
    ASSUME RateType, TableInv, [Next]_vars
    PROVE  TableInv'
<1>1. ASSUME NEW w \in Workers, Admit(w) \/ Refuse(w)
      PROVE  TableInv'
  <2>1. PICK k, t, b : /\ k \in Keys /\ t \in Nat /\ shardOf' = shardOf
                       /\ Store(shardOf[k], k, t, b)
    <3>1. request[w].key \in Keys /\ request[w].stamp \in Nat /\ shardOf' = shardOf
      BY <1>1 DEF Admit, Refuse, RateType
    <3>2. \E b : Store(shardOf[request[w].key], request[w].key, request[w].stamp, b)
      BY <1>1 DEF Admit, Refuse
    <3> QED
      BY <3>1, <3>2
  <2> QED
    BY <2>1, StoreKeepsCap
<1>2. CASE Tick \/ (\E w \in Workers, k \in Keys : ReadClock(w, k)) \/ UNCHANGED vars
  <2>1. UNCHANGED <<buckets, shardOf>>
    BY <1>2 DEF Tick, ReadClock, vars, tableVars
  <2> QED
    BY <2>1 DEF TableInv, Table
<1> QED
  BY <1>1, <1>2 DEF Next

(* Shards that keep to their caps hold max_keys together: each key has a    *)
(* place of its own among that many.                                        *)
LEMMA CapsAddUp ==
    ASSUME RateType, TableInv
    PROVE  TableBounded
<1> DEFINE number == [i \in ShardIds |->
                         CHOOSE f : f \in Bijection(Table(i), 1 .. Cardinality(Table(i)))]
           place == [k \in DOMAIN buckets |-> FirstPlace(shardOf[k]) + number[shardOf[k]][k]]
<1>1. ASSUME NEW i \in ShardIds
      PROVE  number[i] \in Bijection(Table(i), 1 .. Cardinality(Table(i)))
  <2>1. ExistsBijection(1 .. Cardinality(Table(i)), Table(i))
    BY TablesFinite, FS_CardinalityType
  <2>2. ExistsBijection(Table(i), 1 .. Cardinality(Table(i)))
    BY <2>1, Fun_ExistsBijSymmetric
  <2> QED
    BY <2>2 DEF ExistsBijection
<1>2. ASSUME NEW k \in DOMAIN buckets
      PROVE  /\ shardOf[k] \in ShardIds
             /\ k \in Table(shardOf[k])
             /\ number[shardOf[k]][k] \in 1 .. ShardCap(shardOf[k])
             /\ place[k] = FirstPlace(shardOf[k]) + number[shardOf[k]][k]
  <2>1. shardOf[k] \in ShardIds /\ k \in Table(shardOf[k])
    BY DEF RateType, Table
  <2>2. number[shardOf[k]][k] \in 1 .. Cardinality(Table(shardOf[k]))
    BY <1>1, <2>1 DEF Bijection, Injection
  <2>3. /\ Cardinality(Table(shardOf[k])) \in Nat
        /\ Cardinality(Table(shardOf[k])) <= ShardCap(shardOf[k])
        /\ ShardCap(shardOf[k]) \in Nat
    BY <2>1, TablesFinite, Places DEF TableInv
  <2> HIDE DEF number
  <2> QED
    BY <2>1, <2>2, <2>3
<1> HIDE DEF number
<1>3. place \in [DOMAIN buckets -> 1 .. MaxKeys]
  <2> SUFFICES ASSUME NEW k \in DOMAIN buckets
               PROVE  place[k] \in 1 .. MaxKeys
    OBVIOUS
  <2>1. /\ FirstPlace(shardOf[k]) \in Nat /\ ShardCap(shardOf[k]) \in Nat
        /\ FirstPlace(shardOf[k]) + ShardCap(shardOf[k]) <= MaxKeys
    BY <1>2, Places
  <2> HIDE DEF place
  <2> QED
    BY <1>2, <2>1, LimitAssumption
<1>4. ASSUME NEW k \in DOMAIN buckets, NEW q \in DOMAIN buckets, place[k] = place[q]
      PROVE  k = q
  <2> DEFINE i == shardOf[k]
             j == shardOf[q]
  <2>1. /\ i \in ShardIds /\ number[i][k] \in 1 .. ShardCap(i)
        /\ j \in ShardIds /\ number[j][q] \in 1 .. ShardCap(j)
        /\ FirstPlace(i) + number[i][k] = FirstPlace(j) + number[j][q]
    BY <1>2, <1>4
  <2>2. /\ FirstPlace(i) \in Nat /\ ShardCap(i) \in Nat
        /\ FirstPlace(j) \in Nat /\ ShardCap(j) \in Nat
        /\ i < j => FirstPlace(i) + ShardCap(i) <= FirstPlace(j)
        /\ j < i => FirstPlace(j) + ShardCap(j) <= FirstPlace(i)
    BY <2>1, Places
  <2>3. i \in Int /\ j \in Int
    BY <2>1, LimitAssumption DEF ShardIds
  <2>4. i = j
    <3> HIDE DEF i, j
    <3> QED
      BY <2>1, <2>2, <2>3
  <2>5. number[i][k] = number[i][q]
    <3>1. FirstPlace(i) + number[i][k] = FirstPlace(i) + number[i][q]
      BY <2>1, <2>4
    <3>2. number[i][q] \in 1 .. ShardCap(i)
      BY <2>1, <2>4
    <3> HIDE DEF i, j
    <3> QED
      BY <2>1, <2>2, <3>1, <3>2
  <2>6. k \in Table(i) /\ q \in Table(i)
    BY <1>2, <2>4
  <2>7. number[i] \in Bijection(Table(i), 1 .. Cardinality(Table(i)))
    BY <1>1, <2>1
  <2> HIDE DEF i, j
  <2> QED
    BY <2>5, <2>6, <2>7 DEF Bijection, Injection, IsInjective
<1>5. place \in Injection(DOMAIN buckets, 1 .. MaxKeys)
  <2> HIDE DEF place
  <2> QED
    BY <1>3, <1>4 DEF Injection, IsInjective
<1> HIDE DEF place
<1>6. IsFiniteSet(1 .. MaxKeys) /\ Cardinality(1 .. MaxKeys) = MaxKeys
  BY LimitAssumption, FS_Interval
<1> QED
  BY <1>5, <1>6, FS_Injection DEF TableBounded

(* However keys are hashed and varied, the table never has more than        *)
(* max_keys buckets: max_keys is divided among the shards with a remainder, *)
(* and Limiter::take sends a key that finds its shard full to the overflow  *)
(* bucket.                                                                  *)
THEOREM TableWithinMaxKeys == Spec => []TableBounded
<1>1. Init => TableInv
  <2> SUFFICES ASSUME Init, NEW i \in ShardIds
               PROVE  Cardinality(Table(i)) <= ShardCap(i)
    BY DEF TableInv
  <2>1. Table(i) = {}
    BY DEF Init, Table
  <2> QED
    BY <2>1, FS_EmptySet, Places
<1> QED
  BY <1>1, TypeStarts, TypeGoesOn, TableStep, CapsAddUp, PTL DEF Spec
-----------------------------------------------------------------------------
(* No shard gives out more than its buckets may: sums over the buckets of a *)
(* shard, by induction.                                                     *)

(* The partial sums of f, and the sum s of its first n values.              *)
PartialSums(f, n, t) ==
    /\ t \in [0 .. n -> Nat]
    /\ t[0] = 0
    /\ \A j \in 1 .. n : t[j] = t[j - 1] + f[j]

AddsUp(f, n, s) == \E t \in [0 .. n -> Nat] : PartialSums(f, n, t) /\ t[n] = s

(* Every finite sequence of numbers has a sum.                              *)
LEMMA SumExists ==
    ASSUME NEW n \in Nat, NEW f \in [1 .. n -> Nat]
    PROVE  \E s \in Nat : AddsUp(f, n, s)
<1> DEFINE A == {m \in Nat : m <= n => \E t : PartialSums(f, m, t)}
<1>1. 0 \in A
  <2>1. PartialSums(f, 0, [j \in 0 .. 0 |-> 0])
    BY DEF PartialSums
  <2> QED
    BY <2>1
<1>2. ASSUME NEW m \in Nat, m \in A
      PROVE  m + 1 \in A
  <2> SUFFICES ASSUME m + 1 <= n
               PROVE  \E t : PartialSums(f, m + 1, t)
    OBVIOUS
  <2>1. PICK t : PartialSums(f, m, t)
    BY <1>2
  <2> DEFINE u == [j \in 0 .. m + 1 |-> IF j = m + 1 THEN t[m] + f[m + 1] ELSE t[j]]
  <2>2. t \in [0 .. m -> Nat] /\ t[m] \in Nat /\ f[m + 1] \in Nat
    BY <2>1 DEF PartialSums
  <2>3. u \in [0 .. m + 1 -> Nat]
    BY <2>2
  <2>4. ASSUME NEW j \in 1 .. m + 1
        PROVE  u[j] = u[j - 1] + f[j]
    <3>1. CASE j = m + 1
      BY <3>1
    <3>2. CASE j # m + 1
      <4>1. j \in 1 .. m /\ u[j] = t[j] /\ u[j - 1] = t[j - 1]
        BY <3>2
      <4> QED
        BY <2>1, <4>1 DEF PartialSums
    <3> QED
      BY <3>1, <3>2
  <2>5. u[0] = 0
    BY <2>1 DEF PartialSums
  <2> HIDE DEF u
  <2> QED
    BY <2>3, <2>4, <2>5 DEF PartialSums
<1>3. n \in A
  <2> HIDE DEF A
  <2> QED
    BY <1>1, <1>2, NatInSet
<1>4. PICK t : PartialSums(f, n, t)
  BY <1>3
<1>5. t \in [0 .. n -> Nat] /\ t[n] \in Nat
  BY <1>4 DEF PartialSums
<1>6. AddsUp(f, n, t[n])
  BY <1>4, <1>5 DEF AddsUp
<1> QED
  BY <1>5, <1>6

(* A sum of n numbers none of which is above c.                             *)
LEMMA SumBounded ==
    ASSUME NEW n \in Nat, NEW f \in [1 .. n -> Nat], NEW c \in Nat,
           \A j \in 1 .. n : f[j] <= c, NEW s, AddsUp(f, n, s)
    PROVE  s <= n * c
<1>1. PICK t \in [0 .. n -> Nat] : PartialSums(f, n, t) /\ t[n] = s
  BY DEF AddsUp
<1> DEFINE A == {m \in Nat : m <= n => t[m] <= m * c}
<1>2. 0 \in A
  BY <1>1 DEF PartialSums
<1>3. ASSUME NEW m \in Nat, m \in A
      PROVE  m + 1 \in A
  <2> SUFFICES ASSUME m + 1 <= n
               PROVE  t[m + 1] <= (m + 1) * c
    OBVIOUS
  <2>1. t[m] <= m * c /\ t[m] \in Nat
    BY <1>3
  <2>2. m + 1 \in 1 .. n /\ (m + 1) - 1 = m
    OBVIOUS
  <2>3. t[m + 1] = t[m] + f[m + 1] /\ f[m + 1] <= c /\ f[m + 1] \in Nat
    BY <1>1, <2>2 DEF PartialSums
  <2>4. (m + 1) * c = m * c + c /\ m * c \in Nat
    OBVIOUS
  <2> QED
    BY <2>1, <2>3, <2>4
<1>4. n \in A
  <2> HIDE DEF A
  <2> QED
    BY <1>2, <1>3, NatInSet
<1> QED
  BY <1>1, <1>4

(* A tick of the clock takes at most one from each of n numbers.            *)
LEMMA SumAfterTick ==
    ASSUME NEW n \in Nat, NEW f \in [1 .. n -> Nat], NEW s, AddsUp(f, n, s),
           NEW g \in [1 .. n -> Nat], \A j \in 1 .. n : g[j] = AtLeast0(f[j] - 1),
           NEW r, AddsUp(g, n, r)
    PROVE  s <= r + n
<1>1. PICK t \in [0 .. n -> Nat] : PartialSums(f, n, t) /\ t[n] = s
  BY DEF AddsUp
<1>2. PICK u \in [0 .. n -> Nat] : PartialSums(g, n, u) /\ u[n] = r
  BY DEF AddsUp
<1> DEFINE A == {m \in Nat : m <= n => t[m] <= u[m] + m}
<1>3. 0 \in A
  BY <1>1, <1>2 DEF PartialSums
<1>4. ASSUME NEW m \in Nat, m \in A
      PROVE  m + 1 \in A
  <2> SUFFICES ASSUME m + 1 <= n
               PROVE  t[m + 1] <= u[m + 1] + (m + 1)
    OBVIOUS
  <2>1. t[m] <= u[m] + m /\ t[m] \in Nat /\ u[m] \in Nat
    BY <1>4
  <2>2. m + 1 \in 1 .. n /\ (m + 1) - 1 = m
    OBVIOUS
  <2>3. t[m + 1] = t[m] + f[m + 1] /\ u[m + 1] = u[m] + g[m + 1]
    BY <1>1, <1>2, <2>2 DEF PartialSums
  <2>4. g[m + 1] = AtLeast0(f[m + 1] - 1) /\ f[m + 1] \in Nat /\ g[m + 1] \in Nat
    BY <2>2
  <2>5. f[m + 1] <= g[m + 1] + 1
    BY <2>4 DEF AtLeast0
  <2> QED
    <3>1. \A a, b, c, d \in Nat : a <= b + m /\ c <= d + 1 => a + c <= (b + d) + (m + 1)
      OBVIOUS
    <3>2. t[m] + f[m + 1] <= (u[m] + g[m + 1]) + (m + 1)
      BY <2>1, <2>4, <2>5, <3>1
    <3> QED
      BY <2>3, <3>2
<1>5. n \in A
  <2> HIDE DEF A
  <2> QED
    BY <1>3, <1>4, NatInSet
<1> QED
  BY <1>1, <1>2, <1>5

(* Raising one of n numbers raises their sum by as much.                    *)
LEMMA SumAfterSpending ==
    ASSUME NEW n \in Nat, NEW f \in [1 .. n -> Nat], NEW s, AddsUp(f, n, s),
           NEW m \in 1 .. n, NEW c \in Nat
    PROVE  AddsUp([f EXCEPT ![m] = @ + c], n, s + c)
<1>1. PICK t \in [0 .. n -> Nat] : PartialSums(f, n, t) /\ t[n] = s
  BY DEF AddsUp
<1> DEFINE u == [j \in 0 .. n |-> IF j >= m THEN t[j] + c ELSE t[j]]
           g == [f EXCEPT ![m] = @ + c]
<1>2. u \in [0 .. n -> Nat] /\ u[n] = s + c /\ u[0] = 0
  BY <1>1 DEF PartialSums
<1>3. \A j \in 1 .. n : u[j] = u[j - 1] + g[j]
  <2> SUFFICES ASSUME NEW j \in 1 .. n
               PROVE  u[j] = u[j - 1] + g[j]
    OBVIOUS
  <2>1. t[j] = t[j - 1] + f[j] /\ t[j - 1] \in Nat /\ f[j] \in Nat /\ j - 1 \in 0 .. n
    BY <1>1 DEF PartialSums
  <2>2. g[j] = IF j = m THEN f[j] + c ELSE f[j]
    OBVIOUS
  <2>3. /\ u[j] = IF j >= m THEN t[j] + c ELSE t[j]
        /\ u[j - 1] = IF j - 1 >= m THEN t[j - 1] + c ELSE t[j - 1]
    BY <2>1
  <2> HIDE DEF u, g
  <2> QED
    BY <2>1, <2>2, <2>3
<1> HIDE DEF u, g
<1>4. PartialSums(g, n, u)
  BY <1>2, <1>3 DEF PartialSums
<1> QED
  BY <1>2, <1>4 DEF AddsUp, g

(* Where fewer keys than there are places have one each, a place is free.   *)
LEMMA FreePlace ==
    ASSUME NEW T, IsFiniteSet(T), NEW n \in Nat, Cardinality(T) < n,
           NEW place \in [T -> 1 .. n]
    PROVE  \E m \in 1 .. n : \A q \in T : place[q] # m
<1> SUFFICES ASSUME \A m \in 1 .. n : \E q \in T : place[q] = m
             PROVE  FALSE
  OBVIOUS
<1>1. place \in Surjection(T, 1 .. n)
  BY DEF Surjection
<1>2. Cardinality(1 .. n) <= Cardinality(T)
  BY <1>1, FS_Surjection
<1>3. Cardinality(1 .. n) = n /\ Cardinality(T) \in Nat
  BY FS_Interval, FS_CardinalityType
<1> QED
  BY <1>2, <1>3

(* The books of a shard: its buckets have a place each, below its cap, and  *)
(* the overflow bucket has the last.  What the shard gave out is shared     *)
(* among the places, so that a bucket has room for the share of its place,  *)
(* and an empty place has regained it but for what earlier sweeps cost.     *)
Books(i, place, share) ==
    /\ place \in [Table(i) -> 1 .. ShardCap(i)]
    /\ share \in [1 .. ShardCap(i) + 1 -> Nat]
    /\ \A k, q \in Table(i) : place[k] = place[q] => k = q
    /\ \A k \in Table(i) : share[place[k]] <= AtLeast0(Room(buckets[k], i))
    /\ \A m \in 1 .. ShardCap(i) :
           (\A k \in Table(i) : place[k] # m) => share[m] <= Slack(i) - MaxDelay
    /\ share[ShardCap(i) + 1] <= AtLeast0(Room(overflow[i], i))

Accounted(i) ==
    \E place, share : /\ Books(i, place, share)
                      /\ \E s \in Nat : /\ AddsUp(share, ShardCap(i) + 1, s)
                                        /\ shardSpent[i] <= s

ShardInv == /\ shardSpent \in [ShardIds -> Nat]
            /\ \A i \in ShardIds : Accounted(i)

(* A cap is a number.                                                       *)
LEMMA CapType ==
    ASSUME NEW i \in ShardIds
    PROVE  ShardCap(i) \in Nat
<1>1. MaxKeys \div Shards \in Nat
  BY LimitAssumption
<1> QED
  BY <1>1 DEF ShardCap

(* A bucket that a sweep drops has room for no more than the slack.         *)
LEMMA SweptBucketRoom ==
    ASSUME RateType, NEW t \in Nat, t <= now, NEW i \in ShardIds, NEW q \in Idle(i, t)
    PROVE  AtLeast0(Room(buckets[q], i)) <= Slack(i)
<1>1. /\ q \in DOMAIN buckets
      /\ buckets[q].tokens + Elapsed(buckets[q].last, t) >= Full
  BY DEF Idle, Table
<1>2. buckets[q] \in Level /\ buckets[q].last <= now /\ now \in Nat
  BY <1>1 DEF RateType
<1>3. Slack(i) \in Nat
  BY SlackFits
<1> QED
  BY <1>1, <1>2, <1>3, FullHolds DEF Room, Level, AtLeast0, Elapsed

(* There are books after the step, with c more in one place than before.    *)
BooksAfter(i, share, c) ==
    \E places, shares : /\ Books(i, places, shares)'
                        /\ \E m \in 1 .. ShardCap(i) + 1 : shares = [share EXCEPT ![m] = @ + c]

(* Charging a request c units keeps the books of its shard: c is added to   *)
(* the share of one place.                                                  *)
LEMMA BooksStored ==
    ASSUME RateType, UNCHANGED <<now, shardOf>>,
           NEW k \in Keys, NEW t \in Nat, t <= now, now <= t + MaxDelay,
           NEW i \in ShardIds, i = shardOf[k], NEW b, b = Charged(i, k, t),
           NEW c \in Nat, NEW a \in Level, a.tokens = b.tokens - c, a.last = b.last,
           Store(i, k, t, a), Sweep(i, k, t),
           NEW place, NEW share, Books(i, place, share)
    PROVE  BooksAfter(i, share, c)
<1> DEFINE kept == Table(i) \intersect Kept(i, k, t)
           room(bucket) == Full - bucket.tokens - (now - bucket.last) + Slack(i)'
<1>1. /\ Slack(i) \in Nat /\ Slack(i)' \in Nat /\ Slack(i) <= Slack(i)' /\ MaxDelay <= Slack(i)
      /\ Sweeps(i, k, t) => Slack(i) + MaxDelay <= Slack(i)'
      /\ MaxDelay \in Nat /\ now \in Nat /\ ShardCap(i) \in Nat
  BY SlackFits, SlackGrows, CapType, LimitAssumption DEF RateType
<1>2. Kept(i, k, t) \subseteq DOMAIN buckets /\ kept \subseteq Table(i)
  BY DEF Kept
<1>3. /\ place \in [Table(i) -> 1 .. ShardCap(i)]
      /\ share \in [1 .. ShardCap(i) + 1 -> Nat]
      /\ \A p, q \in Table(i) : place[p] = place[q] => p = q
      /\ \A q \in Table(i) : share[place[q]] <= AtLeast0(Room(buckets[q], i))
      /\ \A m \in 1 .. ShardCap(i) :
             (\A q \in Table(i) : place[q] # m) => share[m] <= Slack(i) - MaxDelay
      /\ share[ShardCap(i) + 1] <= AtLeast0(Room(overflow[i], i))
  BY DEF Books
<1>4. ASSUME NEW m \in 1 .. ShardCap(i), \A q \in kept : place[q] # m
      PROVE  share[m] <= Slack(i)' - MaxDelay
  <2>1. share[m] \in Nat
    BY <1>1, <1>3
  <2>2. CASE \A q \in Table(i) : place[q] # m
    BY <1>1, <1>3, <2>1, <2>2
  <2>3. CASE \E q \in Table(i) : place[q] = m
    <3>1. PICK q \in Table(i) : place[q] = m
      BY <2>3
    <3>2. q \in Idle(i, t) /\ Sweeps(i, k, t)
      BY <1>4, <3>1 DEF Kept, Table
    <3>3. share[m] <= AtLeast0(Room(buckets[q], i)) /\ AtLeast0(Room(buckets[q], i)) <= Slack(i)
      BY <1>3, <3>1, <3>2, SweptBucketRoom
    <3>4. AtLeast0(Room(buckets[q], i)) \in Int
      <4>1. buckets[q] \in Level
        BY <3>1 DEF RateType, Table
      <4> QED
        BY <1>1, <4>1, FullHolds DEF Room, Level, AtLeast0
    <3> QED
      BY <1>1, <2>1, <3>2, <3>3, <3>4
  <2> QED
    BY <2>2, <2>3
<1>5. ASSUME NEW q \in kept
      PROVE  /\ share[place[q]] <= AtLeast0(room(buckets[q])) /\ place[q] \in 1 .. ShardCap(i)
             /\ share[place[q]] \in Nat
             /\ buckets[q] \in Level
  <2>1. buckets[q] \in Level
    BY DEF RateType, Table
  <2>2. share[place[q]] <= AtLeast0(Room(buckets[q], i)) /\ place[q] \in 1 .. ShardCap(i)
        /\ share[place[q]] \in Nat
    BY <1>1, <1>2, <1>3
  <2> QED
    BY <1>1, <2>1, <2>2, FullHolds DEF Room, Level, AtLeast0
<1>6. b \in Level
  BY ChargedType
<1>7. share[ShardCap(i) + 1] <= AtLeast0(room(overflow[i])) /\ share[ShardCap(i) + 1] \in Nat
  <2>1. overflow[i] \in Level
    BY DEF RateType
  <2>2. share[ShardCap(i) + 1] \in Nat
    BY <1>1, <1>3
  <2>3. /\ AtLeast0(Room(overflow[i], i)) <= AtLeast0(room(overflow[i]))
        /\ AtLeast0(Room(overflow[i], i)) \in Int
        /\ AtLeast0(room(overflow[i])) \in Int
    BY <1>1, <2>1, FullHolds DEF Room, Level, AtLeast0
  <2>4. share[ShardCap(i) + 1] <= AtLeast0(Room(overflow[i], i))
    BY <1>3
  <2> HIDE DEF room
  <2> QED
    BY <2>2, <2>3, <2>4
<1>9. CASE Overflows(i, k, t)
  <2> PICK m : m = ShardCap(i) + 1
    OBVIOUS
  <2> PICK shares : shares = [share EXCEPT ![m] = @ + c]
    OBVIOUS
  <2> DEFINE places == [q \in kept |-> place[q]]
  <2>1. overflow' = [overflow EXCEPT ![i] = a] /\ buckets' = [q \in Kept(i, k, t) |-> buckets[q]]
    BY <1>9 DEF Store
  <2>2. Table(i)' = kept
    BY <1>2, <2>1 DEF Table
  <2>3. share[m] + c <= room(a) /\ room(a) \in Int
    <3>1. b = Refill(overflow[i], t) /\ overflow[i] \in Level /\ overflow[i].last <= now
      BY <1>9 DEF Charged, RateType
    <3>2. AtLeast0(Room(overflow[i], i)) <= Room(b, i)
      BY <1>1, <3>1, RefillRoom
    <3>3. share[m] <= AtLeast0(Room(overflow[i], i)) /\ share[m] \in Nat
      BY <1>3, <1>7
    <3>4. AtLeast0(Room(overflow[i], i)) \in Int
      BY <1>1, <3>1, FullHolds DEF Room, Level, AtLeast0
    <3> QED
      BY <1>1, <1>6, <3>2, <3>3, <3>4, FullHolds DEF Room, Level
  <2>4. shares \in [1 .. ShardCap(i) + 1 -> Nat] /\ shares[m] = share[m] + c
        /\ \A p \in 1 .. ShardCap(i) : shares[p] = share[p] /\ shares[p] \in Nat
    <3>1. m \in 1 .. ShardCap(i) + 1 /\ \A p \in 1 .. ShardCap(i) : p # m /\ p \in 1 .. ShardCap(i) + 1
      BY <1>1
    <3>2. share[m] + c \in Nat
      BY <1>3, <3>1
    <3>3. shares \in [1 .. ShardCap(i) + 1 -> Nat] /\ shares[m] = share[m] + c
      BY <1>3, <3>1, <3>2
    <3>4. \A p \in 1 .. ShardCap(i) + 1 : p # m => shares[p] = share[p]
      BY <1>3
    <3> QED
      BY <1>3, <3>1, <3>3, <3>4
  <2>5. places \in [kept -> 1 .. ShardCap(i)] /\ \A p, q \in kept : places[p] = places[q] => p = q
    BY <1>2, <1>3
  <2>6. \A q \in kept : shares[places[q]] <= AtLeast0(room(buckets'[q]))
    <3> SUFFICES ASSUME NEW q \in kept
                 PROVE  shares[places[q]] <= AtLeast0(room(buckets'[q]))
      OBVIOUS
    <3>1. shares[places[q]] = share[place[q]] /\ buckets'[q] = buckets[q]
      BY <1>5, <2>1, <2>4
    <3> QED
      BY <1>5, <3>1
  <2>7. overflow'[i] = a
    BY <2>1 DEF RateType
  <2>8. shares[ShardCap(i) + 1] <= AtLeast0(room(overflow'[i]))
    BY <1>1, <1>7, <2>3, <2>4, <2>7 DEF AtLeast0
  <2>9. \A p \in 1 .. ShardCap(i) : (\A q \in kept : places[q] # p) => shares[p] <= Slack(i)' - MaxDelay
    BY <1>4, <2>4
  <2>10. PICK final : final = places
    OBVIOUS
  <2>11. Books(i, final, shares)'
    <3>1. ShardCap(i)' = ShardCap(i) /\ now' = now
      BY DEF ShardCap
    <3>2. /\ final \in [Table(i)' -> 1 .. ShardCap(i)]
          /\ \A p, q \in Table(i)' : final[p] = final[q] => p = q
      BY <2>2, <2>5, <2>10
    <3>3. \A q \in Table(i)' : shares[final[q]] <= AtLeast0(Room(buckets[q], i)')
      <4>1. \A q : Room(buckets[q], i)' = room(buckets'[q])
        BY <3>1 DEF Room
      <4> QED
        BY <2>2, <2>6, <2>10, <4>1
    <3>4. shares[ShardCap(i) + 1] <= AtLeast0(Room(overflow[i], i)')
      BY <2>8, <3>1 DEF Room
    <3>5. \A p \in 1 .. ShardCap(i) :
              (\A q \in Table(i)' : final[q] # p) => shares[p] <= Slack(i)' - MaxDelay
      BY <2>2, <2>9, <2>10
    <3> QED
      BY <2>4, <3>1, <3>2, <3>3, <3>4, <3>5 DEF Books, AtLeast0
  <2>12. m \in 1 .. ShardCap(i) + 1
    BY <1>1
  <2> QED
    BY <2>11, <2>12 DEF BooksAfter
<1>10. CASE ~Overflows(i, k, t)
  <2> DEFINE room0 == Full - b.tokens - (now - b.last) + Slack(i)'
  <2>1. /\ overflow' = overflow
        /\ buckets' = [q \in Kept(i, k, t) \union {k} |-> IF q = k THEN a ELSE buckets[q]]
    BY <1>10 DEF Store
  <2>2. Table(i)' = kept \union {k}
    BY <1>2, <2>1 DEF Table
  <2>3. \E places \in [kept \union {k} -> 1 .. ShardCap(i)] :
           /\ \A p, q \in kept \union {k} : places[p] = places[q] => p = q
           /\ \A q \in kept : places[q] = place[q]
           /\ share[places[k]] <= room0
    <3>1. CASE k \in DOMAIN buckets
      <4>1. k \in kept
        BY <3>1 DEF Kept, Sweeps, Table
      <4>2. b = Refill(buckets[k], t) /\ buckets[k] \in Level /\ buckets[k].last <= now
        BY <1>10, <3>1 DEF Charged, RateType
      <4>3. AtLeast0(Room(buckets[k], i)) <= Room(b, i)
        BY <1>1, <4>2, RefillRoom
      <4>4. share[place[k]] <= AtLeast0(Room(buckets[k], i)) /\ share[place[k]] \in Nat
        BY <1>2, <1>3, <1>5, <4>1
      <4>5. AtLeast0(Room(buckets[k], i)) \in Int
        BY <1>1, <4>2, FullHolds DEF Room, Level, AtLeast0
      <4>6. share[place[k]] <= room0
        BY <1>1, <1>6, <4>3, <4>4, <4>5, FullHolds DEF Room, Level
      <4> DEFINE places == [q \in kept |-> place[q]]
      <4>7. places \in [kept -> 1 .. ShardCap(i)] /\ kept \union {k} = kept
        BY <1>2, <1>3, <4>1
      <4>8. \A p, q \in kept : places[p] = places[q] => p = q
        BY <1>2, <1>3
      <4>9. places[k] = place[k] /\ \A q \in kept : places[q] = place[q]
        BY <4>1
      <4> HIDE DEF places, kept, room0
      <4> QED
        BY <4>6, <4>7, <4>8, <4>9
    <3>2. CASE k \notin DOMAIN buckets
      <4>1. Cardinality(kept) < ShardCap(i) /\ IsFiniteSet(kept)
        <5>1. IsFiniteSet(kept) /\ Cardinality(kept) \in Nat
          BY <1>2, TablesFinite, FS_Subset, FS_CardinalityType
        <5> QED
          BY <1>1, <1>10, <3>2, <5>1 DEF Overflows
      <4> DEFINE old == [q \in kept |-> place[q]]
      <4>2. old \in [kept -> 1 .. ShardCap(i)] /\ \A q \in kept : old[q] = place[q]
        BY <1>2, <1>3
      <4>3. PICK m \in 1 .. ShardCap(i) : \A q \in kept : old[q] # m
        <5> HIDE DEF old, kept
        <5> QED
          BY <1>1, <4>1, <4>2, FreePlace
      <4>4. share[m] <= Slack(i)' - MaxDelay
        BY <1>4, <4>2, <4>3
      <4>5. b.tokens = Full /\ b.last = t
        <5> DEFINE new == [tokens |-> Full, last |-> t]
        <5>1. b = Refill(new, t)
          BY <1>10, <3>2 DEF Charged
        <5>2. new \in Level /\ new.last = t /\ new.tokens = Full
          BY FullHolds DEF Level
        <5> HIDE DEF new
        <5>3. /\ Refill(new, t).last = Later(t, t)
              /\ Refill(new, t).tokens = Smaller(Full + Elapsed(t, t), Full)
          BY <5>2, RefillType
        <5>4. Later(t, t) = t /\ Smaller(Full + Elapsed(t, t), Full) = Full
          BY FullHolds DEF Smaller, Elapsed, AtLeast0, Later
        <5> QED
          BY <5>1, <5>3, <5>4
      <4>6. share[m] <= room0
        <5>1. share[m] \in Nat
          BY <1>1, <1>3
        <5> QED
          BY <1>1, <4>4, <4>5, <5>1, FullHolds
      <4> DEFINE places == [q \in kept \union {k} |-> IF q = k THEN m ELSE place[q]]
      <4>7. k \notin kept
        BY <3>2 DEF Table
      <4>8. places \in [kept \union {k} -> 1 .. ShardCap(i)]
        BY <1>2, <1>3
      <4>9. places[k] = m /\ \A q \in kept : places[q] = place[q]
        BY <4>7
      <4>10. ASSUME NEW p \in kept \union {k}, NEW q \in kept \union {k}, places[p] = places[q]
             PROVE  p = q
        <5> HIDE DEF places
        <5> QED
          BY <1>2, <1>3, <4>2, <4>3, <4>9, <4>10
      <4> HIDE DEF places, kept, room0
      <4> QED
        BY <4>6, <4>8, <4>9, <4>10
    <3> QED
      BY <3>1, <3>2
  <2>4. PICK places \in [kept \union {k} -> 1 .. ShardCap(i)] :
           /\ \A p, q \in kept \union {k} : places[p] = places[q] => p = q
           /\ \A q \in kept : places[q] = place[q]
           /\ share[places[k]] <= room0
    <3> HIDE DEF kept, room0
    <3> QED
      BY <2>3
  <2> PICK m : m = places[k]
    OBVIOUS
  <2> PICK shares : shares = [share EXCEPT ![m] = @ + c]
    OBVIOUS
  <2>5. m \in 1 .. ShardCap(i) /\ m \in 1 .. ShardCap(i) + 1 /\ m # ShardCap(i) + 1
    <3> HIDE DEF kept
    <3> QED
      BY <1>1, <2>4
  <2>6. /\ shares \in [1 .. ShardCap(i) + 1 -> Nat]
        /\ shares[m] = share[m] + c /\ share[m] \in Nat
        /\ \A p \in 1 .. ShardCap(i) + 1 : p # m => shares[p] = share[p]
    <3> QED
      BY <1>1, <1>3, <2>5
  <2>7. shares[m] <= room(a) /\ room(a) \in Int
    <3>1. share[m] <= room0
      BY <2>4
    <3>2. /\ a.tokens \in Int /\ b.tokens \in Int /\ a.last \in Int /\ b.last \in Int
          /\ a.tokens = b.tokens - c /\ a.last = b.last
      BY <1>6, FullHolds DEF Level
    <3>3. room(a) = room0 + c /\ room(a) \in Int /\ room0 \in Int
      BY <1>1, <3>2, FullHolds
    <3> HIDE DEF room0, room
    <3> QED
      BY <2>6, <3>1, <3>3
  <2>8. ASSUME NEW q \in kept \union {k}
        PROVE  shares[places[q]] <= AtLeast0(room(buckets'[q]))
    <3>1. CASE q = k
      <4>1. buckets'[q] = a /\ places[q] = m
        BY <2>1, <3>1
      <4>2. room(buckets'[q]) = room(a) /\ shares[m] \in Nat
        BY <2>5, <2>6, <4>1
      <4> HIDE DEF room
      <4> QED
        BY <2>7, <4>1, <4>2 DEF AtLeast0
    <3>2. CASE q # k
      <4>1. q \in kept /\ buckets'[q] = buckets[q] /\ places[q] = place[q]
        BY <2>1, <2>4, <3>2
      <4>2. places[q] # m /\ place[q] \in 1 .. ShardCap(i) + 1
        BY <1>1, <1>5, <2>4, <3>2, <4>1
      <4>3. shares[places[q]] = share[place[q]]
        <5> QED
          BY <2>6, <4>1, <4>2
      <4> QED
        BY <1>5, <4>1, <4>3
    <3> QED
      BY <3>1, <3>2
  <2>9. shares[ShardCap(i) + 1] <= AtLeast0(room(overflow'[i]))
    <3>1. shares[ShardCap(i) + 1] = share[ShardCap(i) + 1]
      <4> QED
        BY <1>1, <2>5, <2>6
    <3> QED
      BY <1>7, <2>1, <3>1
  <2>10. ASSUME NEW p \in 1 .. ShardCap(i), \A q \in kept \union {k} : places[q] # p
         PROVE  shares[p] <= Slack(i)' - MaxDelay
    <3>1. p # m /\ p \in 1 .. ShardCap(i) + 1 /\ \A q \in kept : place[q] # p
      BY <1>1, <2>4, <2>10
    <3>2. shares[p] = share[p]
      <4> QED
        BY <2>6, <3>1
    <3> QED
      BY <1>4, <3>1, <3>2
  <2>11. Books(i, places, shares)'
    <3>1. ShardCap(i)' = ShardCap(i) /\ now' = now
      BY DEF ShardCap
    <3>2. /\ places \in [Table(i)' -> 1 .. ShardCap(i)]
          /\ \A p, q \in Table(i)' : places[p] = places[q] => p = q
      BY <2>2, <2>4
    <3>3. \A q \in Table(i)' : shares[places[q]] <= AtLeast0(Room(buckets[q], i)')
      <4>1. \A q : Room(buckets[q], i)' = room(buckets'[q])
        BY <3>1 DEF Room
      <4> QED
        BY <2>2, <2>8, <4>1
    <3>4. shares[ShardCap(i) + 1] <= AtLeast0(Room(overflow[i], i)')
      BY <2>9, <3>1 DEF Room
    <3>5. \A p \in 1 .. ShardCap(i) :
              (\A q \in Table(i)' : places[q] # p) => shares[p] <= Slack(i)' - MaxDelay
      BY <2>2, <2>10
    <3> QED
      BY <2>6, <3>1, <3>2, <3>3, <3>4, <3>5 DEF Books, AtLeast0
  <2> QED
    BY <2>5, <2>11 DEF BooksAfter
<1> QED
  BY <1>9, <1>10

(* The other shards' books are not touched.                                 *)
LEMMA BooksElsewhere ==
    ASSUME RateType, UNCHANGED <<now, shardOf>>,
           NEW k \in Keys, NEW t \in Nat, NEW i \in ShardIds, i = shardOf[k],
           NEW a, Store(i, k, t, a), Sweep(i, k, t),
           NEW j \in ShardIds, j # i, NEW place, NEW share, Books(j, place, share)
    PROVE  Books(j, place, share)'
<1>1. Kept(i, k, t) \subseteq DOMAIN buckets
  BY DEF Kept
<1>2. \A q \in Table(j) : q \in Kept(i, k, t) /\ q # k
  BY DEF Kept, Idle, Table
<1>3. \A q \in Table(j) : q \in DOMAIN buckets' /\ buckets'[q] = buckets[q]
  BY <1>2 DEF Store
<1>4. Table(j)' = Table(j)
  BY <1>1, <1>3 DEF Store, Table
<1>5. overflow'[j] = overflow[j] /\ lastSweep'[j] = lastSweep[j]
  BY DEF Store, Sweep, RateType
<1>6. Slack(j)' = Slack(j) /\ ShardCap(j)' = ShardCap(j)
  BY <1>5 DEF Slack, ShardCap, Cost
<1> QED
  BY <1>3, <1>4, <1>5, <1>6 DEF Books, Room, AtLeast0

(* Every step keeps the books of every shard.                               *)
LEMMA ShardStep ==
    ASSUME RateType, ShardInv, [Next]_vars
    PROVE  ShardInv'
<1>1. CASE Tick
  <2>1. /\ now' = now + 1 /\ UNCHANGED <<shardOf, buckets, overflow, lastSweep>>
        /\ shardSpent' = [i \in ShardIds |-> AtLeast0(shardSpent[i] - (ShardCap(i) + 1))]
    BY <1>1 DEF Tick, tableVars
  <2>2. shardSpent' \in [ShardIds -> Nat]
    BY <2>1, CapType DEF ShardInv, AtLeast0
  <2>3. ASSUME NEW i \in ShardIds
        PROVE  Accounted(i)'
    <3>1. PICK place, share : Books(i, place, share)
                              /\ \E s \in Nat : /\ AddsUp(share, ShardCap(i) + 1, s)
                                                /\ shardSpent[i] <= s
      BY DEF ShardInv, Accounted
    <3>2. PICK s \in Nat : AddsUp(share, ShardCap(i) + 1, s) /\ shardSpent[i] <= s
      BY <3>1
    <3>3. PICK n \in Nat : n = ShardCap(i) + 1
      BY CapType
    <3>4. share \in [1 .. n -> Nat]
      BY <3>1, <3>3 DEF Books
    <3>5. PICK shares : shares = [m \in 1 .. n |-> AtLeast0(share[m] - 1)]
      OBVIOUS
    <3>6. shares \in [1 .. n -> Nat] /\ \A m \in 1 .. n : shares[m] = AtLeast0(share[m] - 1)
      BY <3>4, <3>5 DEF AtLeast0
    <3>7. PICK r \in Nat : AddsUp(shares, n, r)
      BY <3>6, SumExists
    <3>8. s <= r + n
      BY <3>2, <3>3, <3>4, <3>6, <3>7, SumAfterTick
    <3>9. shardSpent'[i] <= r
      <4>1. shardSpent'[i] = AtLeast0(shardSpent[i] - n) /\ shardSpent[i] \in Nat
        BY <2>1, <3>3 DEF ShardInv
      <4> QED
        BY <3>2, <3>8, <4>1 DEF AtLeast0
    <3>10. Books(i, place, shares)'
      <4>1. ShardCap(i)' = ShardCap(i) /\ Table(i)' = Table(i) /\ Slack(i)' = Slack(i)
        BY <2>1 DEF ShardCap, Table, Slack
      <4>2. Slack(i) \in Nat /\ MaxDelay <= Slack(i) /\ MaxDelay \in Nat /\ now \in Nat
        BY SlackFits, LimitAssumption DEF RateType
      <4>3. ASSUME NEW b \in Level, NEW m \in 1 .. n, share[m] <= AtLeast0(Room(b, i))
            PROVE  shares[m] <= AtLeast0(Full - b.tokens - (now + 1 - b.last) + Slack(i))
        <5>1. share[m] \in Nat /\ shares[m] = AtLeast0(share[m] - 1)
          BY <3>4, <3>6
        <5>2. share[m] <= AtLeast0(Full - b.tokens - (now - b.last) + Slack(i))
          BY <4>3 DEF Room
        <5>3. b.tokens \in Int /\ b.last \in Int /\ Full \in Int
          BY FullHolds DEF Level
        <5> QED
          BY <4>2, <5>1, <5>2, <5>3 DEF AtLeast0
      <4>4. /\ place \in [Table(i) -> 1 .. ShardCap(i)]
            /\ \A k, q \in Table(i) : place[k] = place[q] => k = q
        BY <3>1 DEF Books
      <4>5. ASSUME NEW k \in Table(i)
            PROVE  shares[place[k]]
                     <= AtLeast0(Full - buckets[k].tokens - (now + 1 - buckets[k].last) + Slack(i))
        <5>1. buckets[k] \in Level /\ place[k] \in 1 .. n
          BY <3>3, <4>4, CapType DEF RateType, Table
        <5>2. share[place[k]] <= AtLeast0(Room(buckets[k], i))
          BY <3>1 DEF Books
        <5> QED
          BY <4>3, <5>1, <5>2
      <4>6. shares[n] <= AtLeast0(Full - overflow[i].tokens - (now + 1 - overflow[i].last) + Slack(i))
        <5>1. overflow[i] \in Level /\ n \in 1 .. n
          BY <3>3, CapType DEF RateType
        <5>2. share[n] <= AtLeast0(Room(overflow[i], i))
          BY <3>1, <3>3 DEF Books
        <5> QED
          BY <4>3, <5>1, <5>2
      <4>7. ASSUME NEW m \in 1 .. ShardCap(i), \A k \in Table(i) : place[k] # m
            PROVE  shares[m] <= Slack(i) - MaxDelay
        <5>1. share[m] <= Slack(i) - MaxDelay
          BY <3>1, <4>7 DEF Books
        <5>2. m \in 1 .. n /\ share[m] \in Nat /\ shares[m] = AtLeast0(share[m] - 1)
          BY <3>3, <3>4, <3>6, CapType
        <5> QED
          BY <4>2, <5>1, <5>2 DEF AtLeast0
      <4>8. /\ \A k \in Table(i) : shares[place[k]] <= AtLeast0(Room(buckets[k], i))'
            /\ shares[n] <= AtLeast0(Room(overflow[i], i))'
        <5>1. /\ \A k \in Table(i) : Room(buckets[k], i)'
                   = Full - buckets[k].tokens - (now + 1 - buckets[k].last) + Slack(i)
              /\ Room(overflow[i], i)'
                   = Full - overflow[i].tokens - (now + 1 - overflow[i].last) + Slack(i)
          <6>1. /\ \A k \in Table(i) : Room(buckets[k], i)'
                     = Full - buckets'[k].tokens - (now' - buckets'[k].last) + Slack(i)'
                /\ Room(overflow[i], i)'
                     = Full - overflow'[i].tokens - (now' - overflow'[i].last) + Slack(i)'
            BY DEF Room
          <6>2. now' = now + 1 /\ buckets' = buckets /\ overflow' = overflow
            BY <2>1
          <6>3. \A k \in Table(i) : buckets[k] \in Level
            BY DEF RateType, Table
          <6>4. overflow[i] \in Level
            BY DEF RateType
          <6> QED
            BY <4>1, <4>2, <6>1, <6>2, <6>3, <6>4, FullHolds DEF Level
        <5> QED
          BY <4>5, <4>6, <5>1 DEF AtLeast0
      <4> QED
        BY <2>1, <3>3, <3>6, <4>1, <4>4, <4>7, <4>8 DEF Books
    <3>11. ShardCap(i)' = ShardCap(i)
      BY DEF ShardCap
    <3> QED
      BY <3>3, <3>7, <3>9, <3>10, <3>11 DEF Accounted
  <2> QED
    BY <2>2, <2>3 DEF ShardInv
<1>2. ASSUME NEW w \in Workers, Admit(w) \/ Refuse(w)
      PROVE  ShardInv'
  <2>1. request[w] # NoRequest
    BY <1>2 DEF Admit, Refuse
  <2>2. PICK k \in Keys, t \in Nat : k = request[w].key /\ t = request[w].stamp
    BY <2>1 DEF RateType
  <2>3. t <= now /\ now <= t + MaxDelay
    BY <2>1, <2>2 DEF RateType
  <2>4. PICK i \in ShardIds : i = shardOf[k]
    BY DEF RateType
  <2>5. PICK b : b = Charged(i, k, t)
    OBVIOUS
  <2>6. b \in Level
    BY <2>3, <2>4, <2>5, ChargedType
  <2>7. UNCHANGED <<now, shardOf>> /\ Sweep(i, k, t)
    BY <1>2, <2>2, <2>4 DEF Admit, Refuse
  <2>8. PICK c \in Nat, a \in Level :
           /\ a.tokens = b.tokens - c /\ a.last = b.last
           /\ Store(i, k, t, a)
           /\ shardSpent' = [shardSpent EXCEPT ![i] = @ + c]
    <3>1. CASE Admit(w)
      <4>1. PICK a : a = [b EXCEPT !.tokens = @ - Interval]
        OBVIOUS
      <4>2. /\ b.tokens >= Interval /\ Store(i, k, t, a)
            /\ shardSpent' = [shardSpent EXCEPT ![i] = @ + Interval]
        BY <2>2, <2>4, <2>5, <3>1, <4>1 DEF Admit
      <4>3. a \in Level /\ a.tokens = b.tokens - Interval /\ a.last = b.last
        BY <2>6, <4>1, <4>2, FullHolds, LimitAssumption DEF Level
      <4> QED
        BY <4>2, <4>3, LimitAssumption
    <3>2. CASE Refuse(w)
      <4>1. Store(i, k, t, b) /\ shardSpent' = shardSpent
        BY <2>2, <2>4, <2>5, <3>2 DEF Refuse
      <4>2. b.tokens = b.tokens - 0
        BY <2>6, FullHolds DEF Level
      <4>3. shardSpent = [shardSpent EXCEPT ![i] = @ + 0]
        BY DEF ShardInv
      <4> QED
        BY <2>6, <4>1, <4>2, <4>3
    <3> QED
      BY <1>2, <3>1, <3>2
  <2>9. shardSpent' \in [ShardIds -> Nat]
    BY <2>8 DEF ShardInv
  <2>10. ASSUME NEW j \in ShardIds
         PROVE  Accounted(j)'
    <3>1. PICK place, share : Books(j, place, share)
                              /\ \E s \in Nat : /\ AddsUp(share, ShardCap(j) + 1, s)
                                                /\ shardSpent[j] <= s
      BY DEF ShardInv, Accounted
    <3>2. PICK s \in Nat : AddsUp(share, ShardCap(j) + 1, s) /\ shardSpent[j] <= s
      BY <3>1
    <3>3. ShardCap(j)' = ShardCap(j)
      BY DEF ShardCap
    <3>4. CASE j # i
      <4>1. Books(j, place, share)'
        BY <2>4, <2>7, <2>8, <3>1, <3>4, BooksElsewhere
      <4>2. shardSpent'[j] = shardSpent[j]
        BY <2>8, <3>4 DEF ShardInv
      <4> QED
        BY <3>2, <3>3, <4>1, <4>2 DEF Accounted
    <3>5. CASE j = i
      <4>0. Books(i, place, share)
        BY <3>1, <3>5
      <4>1. PICK places, shares : /\ Books(i, places, shares)'
                                  /\ \E m \in 1 .. ShardCap(i) + 1 :
                                         shares = [share EXCEPT ![m] = @ + c]
        <5>1. /\ now' = now /\ shardOf' = shardOf /\ c \in Nat /\ a \in Level
              /\ a.tokens = b.tokens - c /\ a.last = b.last
              /\ Store(i, k, t, a) /\ Sweep(i, k, t)
          BY <2>7, <2>8
        <5>2. BooksAfter(i, share, c)
          BY <2>3, <2>4, <2>5, <4>0, <5>1, BooksStored
        <5> QED
          BY <5>2 DEF BooksAfter
      <4>2. PICK m \in 1 .. ShardCap(i) + 1 : shares = [share EXCEPT ![m] = @ + c]
        BY <4>1
      <4>5. ShardCap(i) + 1 \in Nat /\ share \in [1 .. ShardCap(i) + 1 -> Nat]
        BY <3>1, <3>5, CapType DEF Books
      <4>3. AddsUp(shares, ShardCap(i) + 1, s + c)
        BY <2>8, <3>2, <3>5, <4>2, <4>5, SumAfterSpending
      <4>4. shardSpent'[i] <= s + c
        BY <2>8, <3>2, <3>5 DEF ShardInv
      <4> QED
        BY <3>3, <3>5, <4>1, <4>3, <4>4 DEF Accounted
    <3> QED
      BY <3>4, <3>5
  <2> QED
    BY <2>9, <2>10 DEF ShardInv
<1>3. CASE (\E w \in Workers, k \in Keys : ReadClock(w, k)) \/ UNCHANGED vars
  <2>1. UNCHANGED <<now, shardOf, buckets, overflow, lastSweep, shardSpent>>
    BY <1>3 DEF ReadClock, vars, tableVars, historyVars
  <2>2. ASSUME NEW i \in ShardIds, Accounted(i)
        PROVE  Accounted(i)'
    <3>1. PICK place, share : Books(i, place, share)
                              /\ \E s \in Nat : /\ AddsUp(share, ShardCap(i) + 1, s)
                                                /\ shardSpent[i] <= s
      BY <2>2 DEF Accounted
    <3>2. ShardCap(i)' = ShardCap(i) /\ Slack(i)' = Slack(i) /\ Table(i)' = Table(i)
      BY <2>1 DEF ShardCap, Slack, Cost, Table
    <3>3. Books(i, place, share)'
      BY <2>1, <3>1, <3>2 DEF Books, Room, AtLeast0
    <3> QED
      BY <2>1, <3>1, <3>2, <3>3 DEF Accounted
  <2> QED
    BY <2>1, <2>2 DEF ShardInv
<1> QED
  BY <1>1, <1>2, <1>3 DEF Next

(* A new limiter has given nothing out.                                     *)
LEMMA ShardStarts == Init => ShardInv
<1> SUFFICES ASSUME Init
             PROVE  ShardInv
  OBVIOUS
<1>1. RateType
  BY TypeStarts
<1>2. ASSUME NEW i \in ShardIds
      PROVE  Accounted(i)
  <2>1. PICK n \in Nat : n = ShardCap(i) + 1
    BY CapType
  <2>2. PICK share : share = [m \in 1 .. n |-> 0]
    OBVIOUS
  <2>3. PICK place : place = [k \in {} |-> 0]
    OBVIOUS
  <2>4. PICK s \in Nat : AddsUp(share, n, s)
    BY <2>2, SumExists
  <2>5. Table(i) = {}
    BY DEF Init, Table
  <2>6. Slack(i) \in Nat /\ MaxDelay <= Slack(i) /\ MaxDelay \in Nat
    BY <1>1, SlackFits, LimitAssumption
  <2>7. share[n] = 0 /\ \A m \in 1 .. ShardCap(i) : share[m] = 0
    BY <2>1, <2>2, CapType
  <2>8. 0 <= AtLeast0(Room(overflow[i], i))
    <3>1. overflow[i] \in Level /\ now \in Nat
      BY <1>1 DEF RateType
    <3> QED
      BY <2>6, <3>1, FullHolds DEF Room, Level, AtLeast0
  <2>9. Books(i, place, share)
    BY <2>1, <2>2, <2>3, <2>5, <2>6, <2>7, <2>8 DEF Books
  <2>10. shardSpent[i] <= s
    BY <2>4 DEF Init
  <2> QED
    BY <2>1, <2>4, <2>9, <2>10 DEF Accounted
<1>3. shardSpent \in [ShardIds -> Nat]
  BY DEF Init
<1> QED
  BY <1>2, <1>3 DEF ShardInv

(* The books bound what a shard gave out: no place has more than a full     *)
(* bucket and the slip.                                                     *)
LEMMA BooksBound ==
    ASSUME RateType, ShardInv
    PROVE  ShardWithinRate
<1> SUFFICES ASSUME NEW i \in ShardIds
             PROVE  shardSpent[i] <= (ShardCap(i) + 1) * (Full + Slip)
  BY DEF ShardWithinRate
<1>1. PICK place, share : Books(i, place, share)
                          /\ \E s \in Nat : /\ AddsUp(share, ShardCap(i) + 1, s)
                                            /\ shardSpent[i] <= s
  BY DEF ShardInv, Accounted
<1>2. PICK s \in Nat : AddsUp(share, ShardCap(i) + 1, s) /\ shardSpent[i] <= s
  BY <1>1
<1>3. PICK n \in Nat : n = ShardCap(i) + 1
  BY CapType
<1>4. /\ Slack(i) \in Nat /\ MaxDelay <= Slack(i) /\ Slack(i) <= Slip /\ MaxDelay \in Nat
      /\ now \in Nat /\ Slip \in Nat
  <2>1. now \div SweepInterval \in Nat
    BY SweepIntervalPositive, Quotient DEF RateType
  <2>2. Cost(now \div SweepInterval) \in Nat
    BY <2>1, CostGrows
  <2>3. Slip \in Nat
    BY <2>2 DEF Slip, Cost
  <2> QED
    BY <2>3, SlackFits, LimitAssumption DEF RateType
<1>5. share \in [1 .. n -> Nat]
  BY <1>1, <1>3 DEF Books
<1>6. PICK c \in Nat : c = Full + Slip
  BY <1>4, FullHolds
<1>7. ASSUME NEW b \in Level, b.last <= now
      PROVE  AtLeast0(Room(b, i)) <= c /\ AtLeast0(Room(b, i)) \in Int
  BY <1>4, <1>6, <1>7, FullHolds DEF Room, Level, AtLeast0
<1>8. ASSUME NEW m \in 1 .. n
      PROVE  share[m] <= c
  <2>1. share[m] \in Nat
    BY <1>5
  <2>2. CASE m = ShardCap(i) + 1
    <3>1. overflow[i] \in Level /\ overflow[i].last <= now
      BY DEF RateType
    <3>2. share[m] <= AtLeast0(Room(overflow[i], i))
      BY <1>1, <2>2 DEF Books
    <3> QED
      BY <1>6, <1>7, <2>1, <3>1, <3>2
  <2>3. CASE m # ShardCap(i) + 1
    <3>1. m \in 1 .. ShardCap(i)
      BY <1>3, <2>3, CapType
    <3>2. CASE \E k \in Table(i) : place[k] = m
      <4>1. PICK k \in Table(i) : place[k] = m
        BY <3>2
      <4>2. buckets[k] \in Level /\ buckets[k].last <= now
        BY DEF RateType, Table
      <4>3. share[m] <= AtLeast0(Room(buckets[k], i))
        BY <1>1, <4>1 DEF Books
      <4> QED
        BY <1>6, <1>7, <2>1, <4>2, <4>3
    <3>3. CASE \A k \in Table(i) : place[k] # m
      <4>1. share[m] <= Slack(i) - MaxDelay
        BY <1>1, <3>1, <3>3 DEF Books
      <4> QED
        BY <1>4, <1>6, <2>1, <4>1, FullHolds
    <3> QED
      BY <3>2, <3>3
  <2> QED
    BY <2>2, <2>3
<1>9. s <= n * c
  BY <1>2, <1>3, <1>5, <1>8, SumBounded
<1>10. shardSpent[i] \in Nat /\ n * c \in Nat
  BY DEF ShardInv
<1>11. shardSpent[i] <= n * c
  BY <1>2, <1>9, <1>10
<1> QED
  BY <1>3, <1>6, <1>11

(* Varying the key does not bypass the limit: a shard gives out no more     *)
(* than its cap of buckets and the overflow bucket may, and a key gets no   *)
(* more than its own bucket and the overflow bucket give, whatever the      *)
(* number of keys and buckets, whenever Limiter::take sweeps and sends keys *)
(* to the overflow bucket.                                                  *)
THEOREM EveryoneWithinRate == Spec => []WithinRate
<1>1. RateType /\ ShardInv => ShardWithinRate
  BY BooksBound
<1>2. RateType /\ ShardInv /\ [Next]_vars => (RateType /\ ShardInv)'
  BY TypeGoesOn, ShardStep
<1>3. Spec => []ShardWithinRate
  BY <1>1, <1>2, TypeStarts, ShardStarts, PTL DEF Spec
<1> QED
  BY <1>3, KeysWithinRate, PTL DEF WithinRate
=============================================================================
