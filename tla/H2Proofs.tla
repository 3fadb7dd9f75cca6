------------------------------ MODULE H2Proofs ------------------------------
(***************************************************************************)
(* Proofs about H2Connection, for any streams, limits and interleaving:    *)
(* the counter of requests is exact, and the driver cuts only what is idle *)
(* or stalled, and cuts it in time.                                        *)
(***************************************************************************)
EXTENDS H2Connection, FiniteSetTheorems, TLAPS

-----------------------------------------------------------------------------
(* Type correctness, without the bounds of the instance.                    *)

H2Type ==
    /\ now \in Nat /\ nextTick \in Nat /\ lastMs \in Nat /\ countedAt \in Nat
    /\ closing \in Nat \union {None}
    /\ inFlight \in Int
    /\ stream \in [Streams -> {"new", "done"} \union Working \union Dropping]
    /\ slot \in [Streams -> Nat]
    /\ stamp \in [Streams -> Nat]
    /\ handedAt \in [Streams -> Nat \union {None}]
    /\ doneAt \in [Streams -> Nat \union {None}]

(* A new connection of the driver (drive_h2 before its first poll) is well  *)
(* typed.                                                                   *)
LEMMA TypeStarts == Init => H2Type
BY DEF Init, H2Type, None

(* Each step of a stream's task and of the driver keeps the types.          *)
LEMMA TypeGoesOn ==
    ASSUME H2Type, [Next]_vars
    PROVE  H2Type'
<1> USE H2Assumption DEF H2Type, driverVars, sharedVars, streamVars, None, Working, Dropping
<1>1. CASE Advance \/ Signal
  BY <1>1 DEF Advance, Signal, Time
<1>2. ASSUME NEW s \in Streams, StreamTask(s)
      PROVE  H2Type'
  <2>1. CASE Start(s) \/ StartBody(s) \/ EndRequest(s)
    BY <2>1 DEF Start, StartBody, EndRequest
  <2>2. CASE TakeChunk(s) \/ HandChunk(s) \/ StayQuiet(s)
    BY <2>2 DEF TakeChunk, HandChunk, StayQuiet
  <2>3. CASE FinishWork(s) \/ ReadClock(s)
    BY <2>3 DEF FinishWork, ReadClock
  <2>4. CASE Touch(s)
    BY <2>4 DEF Touch, Later
  <2> QED
    BY <1>2, <2>1, <2>2, <2>3, <2>4 DEF StreamTask
<1>3. CASE Driver
  <2>1. CASE WriteData \/ Finish \/ SeeStop
    BY <2>1 DEF WriteData, Finish, SeeStop, Later
  <2>2. CASE TickStalled \/ TickInFlight \/ TickIdle
    BY <2>2 DEF TickStalled, TickInFlight, TickIdle
  <2> QED
    BY <1>3, <2>1, <2>2 DEF Driver
<1>4. CASE UNCHANGED vars
  BY <1>4 DEF vars
<1> QED
  BY <1>1, <1>2, <1>3, <1>4 DEF Next

-----------------------------------------------------------------------------
(* The counter.                                                             *)

(* A request enters or leaves the set of those that are counted with one    *)
(* increment or decrement.                                                  *)
LEMMA CountStep ==
    ASSUME H2Type, InFlightExact, [Next]_vars
    PROVE  InFlightExact'
<1> USE DEF H2Type, Working, Dropping
<1>1. IsFiniteSet(Counted)
  BY H2Assumption, FS_Subset DEF Counted
<1>2. ASSUME NEW s \in Streams, Start(s)
      PROVE  InFlightExact'
  <2>1. s \notin Counted /\ Counted' = Counted \union {s}
    BY <1>2 DEF Start, Counted
  <2>2. Cardinality(Counted') = Cardinality(Counted) + 1
    BY <1>1, <2>1, FS_AddElement
  <2> QED
    BY <1>2, <2>2 DEF Start, InFlightExact
<1>3. ASSUME NEW s \in Streams, EndRequest(s)
      PROVE  InFlightExact'
  <2>1. s \in Counted /\ Counted' = Counted \ {s}
    BY <1>3 DEF EndRequest, Counted
  <2>2. Cardinality(Counted') = Cardinality(Counted) - 1
    BY <1>1, <2>1, FS_RemoveElement
  <2> QED
    BY <1>3, <2>2 DEF EndRequest, InFlightExact
<1>4. ASSUME NEW s \in Streams,
             \/ StartBody(s) \/ TakeChunk(s) \/ HandChunk(s) \/ StayQuiet(s)
             \/ FinishWork(s) \/ ReadClock(s) \/ Touch(s)
      PROVE  InFlightExact'
  <2>1. Counted' = Counted
    BY <1>4 DEF StartBody, TakeChunk, HandChunk, StayQuiet, FinishWork, ReadClock, Touch,
                Counted
  <2>2. inFlight' = inFlight
    BY <1>4 DEF StartBody, TakeChunk, HandChunk, StayQuiet, FinishWork, ReadClock, Touch,
                sharedVars
  <2> QED
    BY <2>1, <2>2 DEF InFlightExact
<1>5. CASE Advance \/ Signal \/ Driver \/ UNCHANGED vars
  <2>1. UNCHANGED <<stream, inFlight>>
    BY <1>5 DEF Advance, Signal, Driver, WriteData, Finish, SeeStop, TickStalled,
                TickInFlight, TickIdle, vars, sharedVars, streamVars
  <2> QED
    BY <2>1 DEF InFlightExact, Counted
<1> QED
  BY <1>2, <1>3, <1>4, <1>5 DEF Next, StreamTask

(* A connection starts with no request counted in Activity.                 *)
LEMMA CountStarts == Init => InFlightExact
<1> SUFFICES ASSUME Init
             PROVE  InFlightExact
  OBVIOUS
<1>1. Counted = {}
  BY DEF Init, Counted, Working, Dropping
<1> QED
  BY <1>1, FS_EmptySet DEF Init, InFlightExact

(* Activity::in_flight is the number of requests between the start of their *)
(* guard and the decrement in its drop, for any number of streams and any   *)
(* interleaving of their tasks.                                             *)
THEOREM CounterExact == Spec => []InFlightExact
<1>1. Init => H2Type /\ InFlightExact
  BY TypeStarts, CountStarts
<1>2. H2Type /\ InFlightExact /\ [Next]_vars => (H2Type /\ InFlightExact)'
  BY TypeGoesOn, CountStep
<1> QED
  BY <1>1, <1>2, PTL DEF Spec
-----------------------------------------------------------------------------
(* What the driver relies on.                                               *)

(* The ticker is never behind, and a tick that goes on takes no time.       *)
TickerInv ==
    conn = "open" => /\ now <= nextTick
                     /\ IF driver = "select" THEN nextTick <= now + TickPeriod
                        ELSE nextTick = now + TickPeriod

(* A stream's slot holds the time of the chunk that waits.                  *)
SlotInv == \A s \in Streams :
               slot[s] = IF handedAt[s] = None THEN 0 ELSE handedAt[s] + 1

(* last_ms is moved past the end of a stream's work before the stream stops *)
(* being counted.                                                           *)
StampInv ==
    \A s \in Streams :
        /\ doneAt[s] # None => doneAt[s] <= now
        /\ stream[s] \in {"new"} \union Working => doneAt[s] = None
        /\ stream[s] \in Dropping => doneAt[s] # None
        /\ stream[s] = "stamp" => stamp[s] >= doneAt[s]
        /\ stream[s] \in {"count", "done"} => lastMs >= doneAt[s]

(* No request starts between the two loads of a tick that found none.       *)
LastInv == conn = "open" /\ driver = "last" => Counted = {}

DriverInv == TickerInv /\ SlotInv /\ StampInv /\ LastInv
H2Inv == H2Type /\ InFlightExact /\ DriverInv

(* The driver starts between two ticks, with no stream and no reading.      *)
LEMMA DriverStarts == Init => DriverInv
BY H2Assumption DEF Init, DriverInv, TickerInv, SlotInv, StampInv, LastInv, Working, Dropping,
   None

(* The ticker: only Advance and the tick itself concern it.                 *)
LEMMA TickerStep ==
    ASSUME H2Inv, [Next]_vars
    PROVE  TickerInv'
<1> USE H2Assumption DEF H2Inv, H2Type, DriverInv, TickerInv
<1>1. CASE Advance
  BY <1>1 DEF Advance, driverVars
<1>2. CASE Signal \/ WriteData \/ Finish \/ SeeStop
  BY <1>2 DEF Signal, WriteData, Finish, SeeStop, driverVars
<1>3. CASE TickStalled
  BY <1>3 DEF TickStalled
<1>4. CASE TickInFlight
  BY <1>4 DEF TickInFlight
<1>5. CASE TickIdle
  BY <1>5 DEF TickIdle
<1>6. ASSUME NEW s \in Streams, StreamTask(s)
      PROVE  TickerInv'
  <2>1. UNCHANGED <<now, driverVars>>
    BY <1>6 DEF StreamTask, Start, StartBody, TakeChunk, HandChunk, StayQuiet, FinishWork,
                ReadClock, Touch, EndRequest
  <2> QED
    BY <2>1 DEF driverVars
<1>7. CASE UNCHANGED vars
  BY <1>7 DEF vars, driverVars
<1> QED
  BY <1>1, <1>2, <1>3, <1>4, <1>5, <1>6, <1>7 DEF Next, Driver

(* The slots follow the chunks handed over and taken.                       *)
LEMMA SlotStep ==
    ASSUME H2Inv, [Next]_vars
    PROVE  SlotInv'
<1> USE DEF H2Inv, H2Type, DriverInv, SlotInv
<1>1. ASSUME NEW s \in Streams, TakeChunk(s) \/ HandChunk(s) \/ FinishWork(s)
      PROVE  SlotInv'
  BY <1>1 DEF TakeChunk, HandChunk, FinishWork, None
<1>2. ASSUME NEW s \in Streams,
             \/ Start(s) \/ StartBody(s) \/ StayQuiet(s)
             \/ ReadClock(s) \/ Touch(s) \/ EndRequest(s)
      PROVE  SlotInv'
  BY <1>2 DEF Start, StartBody, StayQuiet, ReadClock, Touch, EndRequest
<1>3. CASE Advance \/ Signal \/ Driver \/ UNCHANGED vars
  <2>1. UNCHANGED <<slot, handedAt>>
    BY <1>3 DEF Advance, Signal, Driver, WriteData, Finish, SeeStop, TickStalled,
                TickInFlight, TickIdle, vars, streamVars
  <2> QED
    BY <2>1
<1> QED
  BY <1>1, <1>2, <1>3 DEF Next, StreamTask

(* last_ms never moves back, and fetch_max moves it before fetch_sub.       *)
LEMMA StampStep ==
    ASSUME H2Inv, [Next]_vars
    PROVE  StampInv'
<1> USE DEF H2Inv, H2Type, DriverInv, StampInv, Working, Dropping
<1>1. ASSUME NEW s \in Streams,
             \/ Start(s) \/ StartBody(s) \/ TakeChunk(s) \/ HandChunk(s) \/ StayQuiet(s)
             \/ EndRequest(s)
      PROVE  StampInv'
  <2>1. UNCHANGED <<now, lastMs, stamp, doneAt>>
    BY <1>1 DEF Start, StartBody, TakeChunk, HandChunk, StayQuiet, EndRequest, sharedVars
  <2>2. \/ /\ stream[s] \in {"new"} \union Working
           /\ \E to \in Working : stream' = [stream EXCEPT ![s] = to]
        \/ stream[s] = "count" /\ stream' = [stream EXCEPT ![s] = "done"]
    BY <1>1 DEF Start, StartBody, TakeChunk, HandChunk, StayQuiet, EndRequest
  <2> QED
    BY <2>1, <2>2
<1>2. ASSUME NEW s \in Streams, FinishWork(s)
      PROVE  StampInv'
  BY <1>2 DEF FinishWork, None, sharedVars
<1>3. ASSUME NEW s \in Streams, ReadClock(s)
      PROVE  StampInv'
  BY <1>3 DEF ReadClock, None, sharedVars
<1>4. ASSUME NEW s \in Streams, Touch(s)
      PROVE  StampInv'
  BY <1>4 DEF Touch, Later, None
<1>5. CASE Advance \/ Signal \/ Driver \/ UNCHANGED vars
  <2>1. UNCHANGED <<stream, stamp, doneAt>> /\ lastMs' >= lastMs /\ now' >= now
    BY <1>5 DEF Advance, Signal, Driver, WriteData, Finish, SeeStop, TickStalled,
                TickInFlight, TickIdle, vars, streamVars, sharedVars, Later
  <2>2. lastMs' \in Nat /\ now' \in Nat
    BY TypeGoesOn
  <2> QED
    BY <2>1, <2>2 DEF None
<1> QED
  BY <1>1, <1>2, <1>3, <1>4, <1>5 DEF Next, StreamTask

(* A zero counter means that no stream is counted.                          *)
LEMMA NoneInFlight ==
    ASSUME InFlightExact, inFlight = 0
    PROVE  Counted = {}
<1>1. IsFiniteSet(Counted)
  BY H2Assumption, FS_Subset DEF Counted
<1> QED
  BY <1>1, FS_EmptySet DEF InFlightExact

(* Between the two loads the driver does not start requests.                *)
LEMMA LastStep ==
    ASSUME H2Inv, [Next]_vars
    PROVE  LastInv'
<1> USE DEF H2Inv, H2Type, DriverInv, LastInv
<1>1. CASE TickInFlight
  <2>1. driver' = "last" => Counted = {}
    BY <1>1, NoneInFlight DEF TickInFlight
  <2>2. Counted' = Counted
    BY <1>1 DEF TickInFlight, streamVars, Counted
  <2> QED
    BY <2>1, <2>2
<1>2. CASE TickIdle \/ TickStalled
  BY <1>2 DEF TickIdle, TickStalled
<1>3. CASE Advance \/ Signal \/ WriteData \/ Finish \/ SeeStop \/ UNCHANGED vars
  <2>1. UNCHANGED <<stream, driver>> /\ (conn' = "open" => conn = "open")
    BY <1>3 DEF Advance, Signal, WriteData, Finish, SeeStop, vars, streamVars, driverVars
  <2> QED
    BY <2>1 DEF Counted
<1>4. ASSUME NEW s \in Streams, Start(s)
      PROVE  LastInv'
  BY <1>4 DEF Start, driverVars
<1>5. ASSUME NEW s \in Streams, StreamTask(s), ~Start(s)
      PROVE  LastInv'
  <2>1. UNCHANGED driverVars
    BY <1>5 DEF StreamTask, StartBody, TakeChunk, HandChunk, StayQuiet, FinishWork,
                ReadClock, Touch, EndRequest
  <2>2. Counted' \subseteq Counted
    BY <1>5 DEF StreamTask, StartBody, TakeChunk, HandChunk, StayQuiet, FinishWork,
                ReadClock, Touch, EndRequest, Counted, Working, Dropping
  <2> QED
    BY <2>1, <2>2 DEF driverVars
<1> QED
  BY <1>1, <1>2, <1>3, <1>4, <1>5 DEF Next, Driver

(* Always, whatever the streams do between the loads of a tick: the count   *)
(* of requests is exact, a stream that waits to send has its slot, what     *)
(* was recorded in last_ms is no later than the clock, and a tick that      *)
(* found no request meets none that started since.                          *)
THEOREM DriverInvariance == Spec => []H2Inv
<1>1. Init => H2Inv
  BY TypeStarts, CountStarts, DriverStarts DEF H2Inv
<1>2. H2Inv /\ [Next]_vars => H2Inv'
  BY TypeGoesOn, CountStep, TickerStep, SlotStep, StampStep, LastStep DEF H2Inv, DriverInv
<1> QED
  BY <1>1, <1>2, PTL DEF Spec
-----------------------------------------------------------------------------
(* What the driver does: it cuts only what is idle or stalled.              *)

(* When nothing is counted, last_ms is past the end of every request.       *)
LEMMA QuietEnough ==
    ASSUME H2Inv, Counted = {}, NEW limit \in Nat, IdleFor(limit)
    PROVE  QuietFor(limit)
<1> SUFFICES ASSUME NEW s \in Streams
             PROVE  /\ stream[s] \in {"new", "done"}
                    /\ doneAt[s] # None => now - doneAt[s] >= limit
  BY DEF QuietFor
<1>1. stream[s] \in {"new", "done"}
  BY DEF H2Inv, H2Type, Counted
<1> QED
  BY <1>1 DEF H2Inv, H2Type, DriverInv, StampInv, IdleFor, None, Working

(* drive_h2 abandons a connection that was asked to finish, and asks an     *)
(* idle one to, only when no request is under way and none has ended within *)
(* the limit, whatever the stream tasks do between its two loads.           *)
THEOREM OnlyQuietEnded == Spec => EndedOnlyQuiet
<1>1. ASSUME H2Inv, [Next]_vars, conn = "open", conn' = "abandoned"
      PROVE  QuietFor(Grace)
  <2>1. CASE TickIdle
    <3>1. driver = "last" /\ IdleFor(Grace)
      BY <1>1, <2>1 DEF TickIdle
    <3>2. Counted = {}
      BY <1>1, <3>1 DEF H2Inv, DriverInv, LastInv
    <3> QED
      BY <1>1, <3>1, <3>2, QuietEnough, H2Assumption
  <2>2. CASE Advance \/ Signal \/ (\E s \in Streams : StreamTask(s)) \/ UNCHANGED vars
    BY <1>1, <2>2 DEF Advance, Signal, StreamTask, Start, StartBody, TakeChunk, HandChunk,
                      StayQuiet, FinishWork, ReadClock, Touch, EndRequest, driverVars, vars
  <2>3. CASE WriteData \/ Finish \/ SeeStop \/ TickStalled \/ TickInFlight
    BY <1>1, <2>3 DEF WriteData, Finish, SeeStop, TickStalled, TickInFlight, driverVars
  <2> QED
    BY <1>1, <2>1, <2>2, <2>3 DEF Next, Driver
<1>2. ASSUME H2Inv, [Next]_vars, closing = None, closing' # None, ~signalled
      PROVE  QuietFor(IdleLimit)
  <2>1. CASE TickIdle
    <3>1. /\ conn = "open" /\ driver = "last" /\ IdleFor(IdleLimit)
      BY <1>2, <2>1 DEF TickIdle
    <3>2. Counted = {}
      BY <1>2, <3>1 DEF H2Inv, DriverInv, LastInv
    <3> QED
      BY <1>2, <3>1, <3>2, QuietEnough, H2Assumption
  <2>2. CASE Advance \/ Signal \/ (\E s \in Streams : StreamTask(s)) \/ UNCHANGED vars
    BY <1>2, <2>2 DEF Advance, Signal, StreamTask, Start, StartBody, TakeChunk, HandChunk,
                      StayQuiet, FinishWork, ReadClock, Touch, EndRequest, driverVars, vars
  <2>3. CASE WriteData \/ Finish \/ SeeStop \/ TickStalled \/ TickInFlight
    BY <1>2, <2>3 DEF WriteData, Finish, SeeStop, TickStalled, TickInFlight, driverVars
  <2> QED
    BY <1>2, <2>1, <2>2, <2>3 DEF Next, Driver
<1>3. H2Inv /\ [Next]_vars =>
          [conn = "open" /\ conn' = "abandoned" => QuietFor(Grace)]_vars
  BY <1>1
<1>4. H2Inv /\ [Next]_vars =>
          [closing = None /\ closing' # None /\ ~signalled => QuietFor(IdleLimit)]_vars
  BY <1>2
<1> QED
  BY <1>3, <1>4, DriverInvariance, PTL
     DEF Spec, EndedOnlyQuiet, AbandonedOnlyQuiet, ClosedOnlyIdle

(* stalled_for: a connection is dropped as stalled only when a client has   *)
(* left a chunk of one of its streams untaken for the limit, for any number *)
(* of streams.                                                              *)
THEOREM OnlyStalledDropped == Spec => StalledOnlyStalled
<1> DEFINE Late == \E s \in Streams : handedAt[s] # None /\ now - handedAt[s] >= StallLimit
<1>1. ASSUME H2Inv, [Next]_vars, conn = "open", conn' = "stalled"
      PROVE  Late
  <2>1. CASE TickStalled
    <3>1. PICK s \in Streams : Stalled(s)
      BY <1>1, <2>1 DEF TickStalled
    <3>2. handedAt[s] # None /\ now - handedAt[s] >= StallLimit
      BY <1>1, <3>1 DEF Stalled, H2Inv, H2Type, DriverInv, SlotInv, None
    <3> QED
      BY <3>2
  <2>2. CASE Advance \/ Signal \/ (\E s \in Streams : StreamTask(s)) \/ UNCHANGED vars
    BY <1>1, <2>2 DEF Advance, Signal, StreamTask, Start, StartBody, TakeChunk, HandChunk,
                      StayQuiet, FinishWork, ReadClock, Touch, EndRequest, driverVars, vars
  <2>3. CASE WriteData \/ Finish \/ SeeStop \/ TickInFlight \/ TickIdle
    BY <1>1, <2>3 DEF WriteData, Finish, SeeStop, TickInFlight, TickIdle, driverVars
  <2> QED
    BY <1>1, <2>1, <2>2, <2>3 DEF Next, Driver
<1>2. H2Inv /\ [Next]_vars => [conn = "open" /\ conn' = "stalled" => Late]_vars
  BY <1>1
<1> QED
  BY <1>2, DriverInvariance, PTL DEF Spec, StalledOnlyStalled

-----------------------------------------------------------------------------
(* ... and it cuts it in time.                                              *)

(* A tick comes within a period of the limit of every chunk that waits.     *)
StallTick ==
    conn = "open" => \A s \in Streams :
        handedAt[s] # None => nextTick <= handedAt[s] + StallLimit + TickPeriod

(* When an idle connection is due, and the tick that will see it.           *)
Due == Later(IF closing = None THEN lastMs + IdleLimit
             ELSE Later(closing, lastMs) + Grace,
             countedAt)

IdleTick ==
    conn = "open" /\ Counted = {} =>
        IF driver = "select" THEN nextTick <= Due + TickPeriod ELSE now <= Due + TickPeriod

TimeInv == StallTick /\ IdleTick

(* The first tick is due within a period of the start.                      *)
LEMMA TimeStarts == Init => TimeInv
BY H2Assumption DEF Init, TimeInv, StallTick, IdleTick, Due, Later, None

(* A chunk that was not late at a tick is seen by the next one.             *)
LEMMA StallTickStep ==
    ASSUME H2Inv, StallTick, [Next]_vars
    PROVE  StallTick'
<1> USE H2Assumption DEF H2Inv, H2Type, DriverInv, TickerInv, SlotInv, StallTick, None
<1>1. CASE TickStalled
  BY <1>1 DEF TickStalled, Stalled, streamVars
<1>2. ASSUME NEW s \in Streams, HandChunk(s)
      PROVE  StallTick'
  BY <1>2 DEF HandChunk, driverVars
<1>3. ASSUME NEW s \in Streams, TakeChunk(s) \/ FinishWork(s)
      PROVE  StallTick'
  BY <1>3 DEF TakeChunk, FinishWork, driverVars
<1>4. ASSUME NEW s \in Streams,
             \/ Start(s) \/ StartBody(s) \/ StayQuiet(s)
             \/ ReadClock(s) \/ Touch(s) \/ EndRequest(s)
      PROVE  StallTick'
  BY <1>4 DEF Start, StartBody, StayQuiet, ReadClock, Touch, EndRequest, driverVars
<1>5. CASE \/ Advance \/ Signal \/ WriteData \/ Finish \/ SeeStop \/ TickInFlight
           \/ TickIdle \/ UNCHANGED vars
  <2>1. UNCHANGED <<handedAt, nextTick>> /\ (conn' = "open" => conn = "open")
    BY <1>5 DEF Advance, Signal, WriteData, Finish, SeeStop, TickInFlight, TickIdle, vars,
                streamVars, driverVars
  <2> QED
    BY <2>1
<1> QED
  BY <1>1, <1>2, <1>3, <1>4, <1>5 DEF Next, Driver, StreamTask

(* A connection that was not due at a tick is seen by the next one; every   *)
(* other step moves the time it is due forward or keeps it within now.      *)
LEMMA IdleTickStep ==
    ASSUME H2Inv, IdleTick, [Next]_vars
    PROVE  IdleTick'
<1> USE H2Assumption DEF H2Inv, H2Type, DriverInv, TickerInv, IdleTick, Due, Later, None
<1>1. CASE Advance
  BY <1>1 DEF Advance, driverVars, sharedVars, streamVars, Counted
<1>2. CASE TickStalled
  BY <1>2 DEF TickStalled, sharedVars, streamVars, Counted
<1>3. CASE TickInFlight
  <2>1. Counted' = Counted
    BY <1>3 DEF TickInFlight, streamVars, Counted
  <2>2. Counted = {} => inFlight = 0
    BY FS_EmptySet DEF InFlightExact
  <2> QED
    BY <1>3, <2>1, <2>2 DEF TickInFlight, sharedVars
<1>4. CASE TickIdle
  <2>1. Counted' = Counted
    BY <1>4 DEF TickIdle, streamVars, Counted
  <2> QED
    BY <1>4, <2>1 DEF TickIdle, IdleFor, sharedVars
<1>5. CASE WriteData \/ SeeStop
  <2>1. Counted' = Counted
    BY <1>5 DEF WriteData, SeeStop, streamVars, Counted
  <2> QED
    BY <1>5, <2>1 DEF WriteData, SeeStop, driverVars, sharedVars
<1>6. CASE Finish
  BY <1>6 DEF Finish
<1>7. ASSUME NEW s \in Streams, Start(s)
      PROVE  IdleTick'
  <2>1. s \in Counted'
    BY <1>7 DEF Start, Counted, Working
  <2> QED
    BY <2>1
<1>8. ASSUME NEW s \in Streams, EndRequest(s)
      PROVE  IdleTick'
  BY <1>8 DEF EndRequest, driverVars
<1>9. ASSUME NEW s \in Streams,
             \/ StartBody(s) \/ TakeChunk(s) \/ HandChunk(s) \/ StayQuiet(s)
             \/ FinishWork(s) \/ ReadClock(s) \/ Touch(s)
      PROVE  IdleTick'
  <2>1. s \in Counted'
    BY <1>9 DEF StartBody, TakeChunk, HandChunk, StayQuiet, FinishWork, ReadClock, Touch,
                Counted, Working, Dropping
  <2> QED
    BY <2>1
<1>10. CASE Signal \/ UNCHANGED vars
  BY <1>10 DEF Signal, vars, driverVars, sharedVars, streamVars, Counted
<1> QED
  BY <1>1, <1>2, <1>3, <1>4, <1>5, <1>6, <1>7, <1>8, <1>9, <1>10
     DEF Next, Driver, StreamTask

(* drive_h2 looks in time: no chunk is left untaken, no connection idle and *)
(* no finishing one unanswered for more than the limit and a tick, however  *)
(* many streams there are and whatever the others do.                       *)
THEOREM ReclaimedInTime == Spec => []Reclaimed
<1>1. Init => TimeInv
  BY TimeStarts
<1>2. H2Inv /\ TimeInv /\ [Next]_vars => TimeInv'
  BY StallTickStep, IdleTickStep DEF TimeInv
<1>3. H2Inv /\ TimeInv => Reclaimed
  <2> SUFFICES ASSUME H2Inv, TimeInv
               PROVE  Reclaimed
    OBVIOUS
  <2> USE H2Assumption DEF H2Inv, H2Type, DriverInv, TickerInv, TimeInv, None
  <2>1. StallReclaimed
    BY DEF StallReclaimed, StallTick
  <2>2. IdleReclaimed
    BY DEF IdleReclaimed, IdleTick, Due, Later
  <2> QED
    BY <2>1, <2>2 DEF Reclaimed
<1> QED
  BY <1>1, <1>2, <1>3, DriverInvariance, PTL DEF Spec
=============================================================================
