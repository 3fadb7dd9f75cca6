---------------------------- MODULE H2Connection ----------------------------
(***************************************************************************)
(* One HTTP/2 connection: its driver (runtime.rs drive_h2) watches, four   *)
(* times a second, the atomics of Activity that the tasks of the request   *)
(* streams write (ActivityGuard, Guarded): a response the client does not  *)
(* take drops the connection, an idle connection is asked to finish, and a *)
(* finishing one whose client does not answer is dropped.                  *)
(*                                                                         *)
(* Stream tasks run on other threads: every load and store of an atomic    *)
(* that another thread can see is a step of its own.  The driver, the      *)
(* service call that starts a request and the socket writes are one task.  *)
(* Time is counted in units of TickPeriod or less.                         *)
(***************************************************************************)
EXTENDS Integers, FiniteSets

CONSTANTS Streams,     \* the request streams the client opens
          TickPeriod,  \* the ticker (250 ms)
          StallLimit,  \* send_timeout
          IdleLimit,   \* header_read_timeout
          Grace,       \* H2_SHUTDOWN_GRACE
          MaxTime      \* bound: when the clock stops

ASSUME H2Assumption == /\ IsFiniteSet(Streams)
                       /\ {TickPeriod, StallLimit, IdleLimit, Grace} \subseteq Nat \ {0}
                       /\ MaxTime \in Nat

None == -1
Time == 0 .. MaxTime

VARIABLES
    now,       \* milliseconds since Activity::base
    conn,      \* "open" or why the connection's future is gone
    signalled, \* the server's shutdown signal has been sent
    driver,    \* "select", or where in a tick the driver is
    nextTick,  \* when the ticker fires next
    closing,   \* when graceful_shutdown was called, or None
    inFlight,  \* Activity::in_flight
    lastMs,    \* Activity::last_ms
    stream,    \* per stream: where its task is
    slot,      \* per stream: its entry in Activity::streams, 0 or 1 + a time
    stamp,     \* per stream: the time touch() has read
    handedAt,  \* history: when the chunk HTTP/2 has not taken was handed over
    doneAt,    \* history: when the stream's work ended
    countedAt  \* history: when in_flight was last decremented

driverVars == <<conn, driver, nextTick, closing>>
sharedVars == <<inFlight, lastMs, countedAt>>
streamVars == <<stream, slot, stamp, handedAt, doneAt>>
vars == <<now, signalled, driverVars, sharedVars, streamVars>>

(* "handler": the service future runs; "body": a response stream waits to   *)
(* be polled; "polled": it is being polled; "touch", "stamp", "count": the  *)
(* guard's drop before reading the clock, before fetch_max, before          *)
(* fetch_sub.                                                               *)
Working == {"handler", "body", "polled"}
Dropping == {"touch", "stamp", "count"}

TypeOK == /\ now \in Time
          /\ conn \in {"open", "finished", "stalled", "abandoned"}
          /\ signalled \in BOOLEAN
          /\ driver \in {"select", "flight", "last"}
          /\ nextTick \in Nat
          /\ closing \in Time \union {None}
          /\ inFlight \in 0 .. Cardinality(Streams)
          /\ lastMs \in Time
          /\ stream \in [Streams -> {"new", "done"} \union Working \union Dropping]
          /\ slot \in [Streams -> 0 .. MaxTime + 1]
          /\ stamp \in [Streams -> Time]
          /\ handedAt \in [Streams -> Time \union {None}]
          /\ doneAt \in [Streams -> Time \union {None}]
          /\ countedAt \in Time

Later(a, b) == IF a >= b THEN a ELSE b

Init == /\ now = 0
        /\ conn = "open"
        /\ signalled = FALSE
        /\ driver = "select"
        /\ nextTick = 0
        /\ closing = None
        /\ inFlight = 0
        /\ lastMs = 0
        /\ stream = [s \in Streams |-> "new"]
        /\ slot = [s \in Streams |-> 0]
        /\ stamp = [s \in Streams |-> 0]
        /\ handedAt = [s \in Streams |-> None]
        /\ doneAt = [s \in Streams |-> None]
        /\ countedAt = 0

-----------------------------------------------------------------------------
(* The environment.                                                         *)

(* Time passes while no tick is due: the ticker fires on time and the few   *)
(* instructions of a tick take none.                                        *)
Advance == /\ now < MaxTime
           /\ conn = "open" => driver = "select" /\ now < nextTick
           /\ now' = now + 1
           /\ UNCHANGED <<signalled, driverVars, sharedVars, streamVars>>

Signal == /\ ~signalled
          /\ signalled' = TRUE
          /\ UNCHANGED <<now, driverVars, sharedVars, streamVars>>

-----------------------------------------------------------------------------
(* A stream's task.                                                         *)

(* The service is called in the connection's task; ActivityGuard::start.    *)
Start(s) == /\ conn = "open"
            /\ driver = "select"
            /\ stream[s] = "new"
            /\ stream' = [stream EXCEPT ![s] = "handler"]
            /\ inFlight' = inFlight + 1
            /\ UNCHANGED <<now, signalled, driverVars, lastMs, countedAt, slot,
                           stamp, handedAt, doneAt>>

(* Mutant: the handler's end counts, and the stream's end counts again.     *)
StartBodyEndsGuard(s) == /\ stream[s] = "handler"
                         /\ stream' = [stream EXCEPT ![s] = "body"]
                         /\ inFlight' = inFlight - 1
                         /\ UNCHANGED <<now, signalled, driverVars, lastMs, countedAt,
                                        slot, stamp, handedAt, doneAt>>

(* finish_with: a streaming or large body keeps the guard and gets a slot.  *)
StartBody(s) == /\ stream[s] = "handler"
                /\ stream' = [stream EXCEPT ![s] = "body"]
                /\ UNCHANGED <<now, signalled, driverVars, sharedVars, slot,
                               stamp, handedAt, doneAt>>

(* Mutant: one stall clock for the connection, so any stream resets it.     *)
TakeChunkShared(s) == /\ stream[s] = "body"
                      /\ conn = "open"
                      /\ stream' = [stream EXCEPT ![s] = "polled"]
                      /\ slot' = [t \in Streams |-> 0]
                      /\ handedAt' = [handedAt EXCEPT ![s] = None]
                      /\ UNCHANGED <<now, signalled, driverVars, sharedVars, stamp,
                                     doneAt>>

(* Mutant: poll_next does not release the slot.                             *)
TakeChunkHeld(s) == /\ stream[s] = "body"
                    /\ conn = "open"
                    /\ stream' = [stream EXCEPT ![s] = "polled"]
                    /\ handedAt' = [handedAt EXCEPT ![s] = None]
                    /\ UNCHANGED <<now, signalled, driverVars, sharedVars, slot,
                                   stamp, doneAt>>

(* HTTP/2 asks for the next chunk, so it has taken the one before.          *)
TakeChunk(s) == /\ stream[s] = "body"
                /\ conn = "open"
                /\ stream' = [stream EXCEPT ![s] = "polled"]
                /\ slot' = [slot EXCEPT ![s] = 0]
                /\ handedAt' = [handedAt EXCEPT ![s] = None]
                /\ UNCHANGED <<now, signalled, driverVars, sharedVars, stamp,
                               doneAt>>

(* The stream yields a chunk ...                                            *)
HandChunk(s) == /\ stream[s] = "polled"
                /\ stream' = [stream EXCEPT ![s] = "body"]
                /\ slot' = [slot EXCEPT ![s] = now + 1]
                /\ handedAt' = [handedAt EXCEPT ![s] = now]
                /\ UNCHANGED <<now, signalled, driverVars, sharedVars, stamp,
                               doneAt>>

(* ... or has nothing yet (an SSE stream between events).                   *)
StayQuiet(s) == /\ stream[s] = "polled"
                /\ stream' = [stream EXCEPT ![s] = "body"]
                /\ UNCHANGED <<now, signalled, driverVars, sharedVars, slot,
                               stamp, handedAt, doneAt>>

(* The handler returned a small response, the body ended, or the stream was *)
(* dropped: Guarded gives up its slot, then the guard is dropped.           *)
FinishWork(s) == /\ stream[s] \in Working
                 /\ stream' = [stream EXCEPT ![s] = "touch"]
                 /\ slot' = [slot EXCEPT ![s] = 0]
                 /\ handedAt' = [handedAt EXCEPT ![s] = None]
                 /\ doneAt' = [doneAt EXCEPT ![s] = now]
                 /\ UNCHANGED <<now, signalled, driverVars, sharedVars, stamp>>

(* touch reads the clock ...                                                *)
ReadClock(s) == /\ stream[s] = "touch"
                /\ stream' = [stream EXCEPT ![s] = "stamp"]
                /\ stamp' = [stamp EXCEPT ![s] = now]
                /\ UNCHANGED <<now, signalled, driverVars, sharedVars, slot,
                               handedAt, doneAt>>

(* Mutant: a plain store instead of fetch_max.                              *)
TouchStores(s) == /\ stream[s] = "stamp"
                  /\ stream' = [stream EXCEPT ![s] = "count"]
                  /\ lastMs' = stamp[s]
                  /\ stamp' = [stamp EXCEPT ![s] = 0]
                  /\ UNCHANGED <<now, signalled, driverVars, inFlight, countedAt,
                                 slot, handedAt, doneAt>>

(* ... and moves last_ms forward; the decrement comes after it.             *)
Touch(s) == /\ stream[s] = "stamp"
            /\ stream' = [stream EXCEPT ![s] = "count"]
            /\ lastMs' = Later(lastMs, stamp[s])
            /\ stamp' = [stamp EXCEPT ![s] = 0]
            /\ UNCHANGED <<now, signalled, driverVars, inFlight, countedAt, slot,
                           handedAt, doneAt>>

EndRequest(s) == /\ stream[s] = "count"
                 /\ stream' = [stream EXCEPT ![s] = "done"]
                 /\ inFlight' = inFlight - 1
                 /\ countedAt' = now
                 /\ UNCHANGED <<now, signalled, driverVars, lastMs, slot, stamp,
                                handedAt, doneAt>>

-----------------------------------------------------------------------------
(* The connection's task: drive_h2.                                         *)

(* Tracked has seen HEADERS or DATA leave on the socket.                    *)
WriteData == /\ conn = "open"
             /\ driver = "select"
             /\ \E s \in Streams : stream[s] # "new"
             /\ lastMs' = Later(lastMs, now)
             /\ UNCHANGED <<now, signalled, driverVars, inFlight, countedAt,
                            streamVars>>

(* The connection's own future ends: the client left, a PING went           *)
(* unanswered, or the GOAWAY exchange is complete.                          *)
Finish == /\ conn = "open"
          /\ driver = "select"
          /\ conn' = "finished"
          /\ UNCHANGED <<now, signalled, driver, nextTick, closing, sharedVars,
                         streamVars>>

SeeStop == /\ conn = "open"
           /\ driver = "select"
           /\ signalled
           /\ closing = None
           /\ closing' = now
           /\ UNCHANGED <<now, signalled, conn, driver, nextTick, sharedVars,
                          streamVars>>

Stalled(s) == slot[s] # 0 /\ now - (slot[s] - 1) >= StallLimit

(* A tick: stalled_for first.                                               *)
TickStalled == /\ conn = "open"
               /\ driver = "select"
               /\ now >= nextTick
               /\ nextTick' = now + TickPeriod
               /\ IF \E s \in Streams : Stalled(s)
                  THEN conn' = "stalled" /\ UNCHANGED driver
                  ELSE driver' = "flight" /\ UNCHANGED conn
               /\ UNCHANGED <<now, signalled, closing, sharedVars, streamVars>>

(* idle_for: in_flight is loaded first; a request in flight ends the tick.  *)
TickInFlight == /\ conn = "open"
                /\ driver = "flight"
                /\ driver' = IF inFlight = 0 THEN "last" ELSE "select"
                /\ UNCHANGED <<now, signalled, conn, nextTick, closing,
                               sharedVars, streamVars>>

(* Then last_ms and the clock, and the decision.                            *)
IdleFor(limit) == now - lastMs >= limit

TickIdle == /\ conn = "open"
            /\ driver = "last"
            /\ driver' = "select"
            /\ \/ /\ closing # None
                  /\ IF now - closing >= Grace /\ IdleFor(Grace)
                     THEN conn' = "abandoned" ELSE UNCHANGED conn
                  /\ UNCHANGED closing
               \/ /\ closing = None
                  /\ closing' = IF IdleFor(IdleLimit) THEN now ELSE None
                  /\ UNCHANGED conn
            /\ UNCHANGED <<now, signalled, nextTick, sharedVars, streamVars>>

-----------------------------------------------------------------------------
StreamTask(s) == \/ Start(s) \/ StartBody(s)
                 \/ TakeChunk(s) \/ HandChunk(s) \/ StayQuiet(s)
                 \/ FinishWork(s)
                 \/ ReadClock(s) \/ Touch(s) \/ EndRequest(s)

Driver == WriteData \/ Finish \/ SeeStop \/ TickStalled \/ TickInFlight \/ TickIdle

Next == \/ Advance
        \/ Signal
        \/ \E s \in Streams : StreamTask(s)
        \/ Driver

Spec == Init /\ [][Next]_vars

-----------------------------------------------------------------------------
(* Properties.                                                              *)

Counted == {s \in Streams : stream[s] \in Working \union Dropping}

(* in_flight is never off by one, whatever the interleaving: each request   *)
(* is counted from its start to the end of its guard, once.                 *)
InFlightExact == inFlight = Cardinality(Counted)

(* The idle timeout and the shutdown grace look at a pair of atomics that   *)
(* stream tasks change between the two loads.  They never cut or close a    *)
(* connection under a request, and never sooner than the limit after the    *)
(* last request's end.                                                      *)
QuietFor(limit) ==
    \A s \in Streams : /\ stream[s] \in {"new", "done"}
                       /\ doneAt[s] # None => now - doneAt[s] >= limit

AbandonedOnlyQuiet ==
    [][conn = "open" /\ conn' = "abandoned" => QuietFor(Grace)]_vars

ClosedOnlyIdle ==
    [][closing = None /\ closing' # None /\ ~signalled => QuietFor(IdleLimit)]_vars

EndedOnlyQuiet == AbandonedOnlyQuiet /\ ClosedOnlyIdle

(* A connection is dropped as stalled only when a client has left a chunk   *)
(* untaken for the limit; a quiet stream never looks like that.             *)
StalledOnlyStalled ==
    [][conn = "open" /\ conn' = "stalled" =>
         \E s \in Streams : handedAt[s] # None
                            /\ now - handedAt[s] >= StallLimit]_vars

(* The reclaim is timely: no chunk waits, no idle connection stays, and no  *)
(* closing one waits for its client much longer than the limit, whatever    *)
(* the other streams of the connection do.                                  *)
StallReclaimed ==
    conn = "open" => \A s \in Streams :
        handedAt[s] # None => now - handedAt[s] <= StallLimit + TickPeriod

IdleReclaimed ==
    conn = "open" /\ Counted = {} =>
        LET due == IF closing = None THEN lastMs + IdleLimit
                   ELSE Later(closing, lastMs) + Grace
        IN now <= Later(due, countedAt) + TickPeriod

Reclaimed == StallReclaimed /\ IdleReclaimed

(* What the documentation of header_read_timeout says (runtime.rs:363-364): *)
(* HTTP/2 connections are not covered at all.  drive_h2 takes it as the     *)
(* idle limit: without a shutdown signal it closes the connection.          *)
HeaderTimeoutSparesH2 == [][closing = None /\ closing' # None => signalled]_vars
=============================================================================
