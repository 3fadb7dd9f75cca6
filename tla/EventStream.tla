---------------------------- MODULE EventStream -----------------------------
(***************************************************************************)
(* Server-sent events (sse.rs): the handler's stream of events as bytes,   *)
(* with a comment in the gaps.  The connection polls the stream after each *)
(* item it took, unless its buffer is full, and whenever it is woken: by   *)
(* an event, by the ticker, or for another reason.                         *)
(***************************************************************************)
EXTENDS Timed

CONSTANTS Period,    \* Sse::keep_alive
          MaxEvents  \* bound: events ready at a time

ASSUME PeriodAssumption == Period \in Nat \ {0} /\ MaxEvents \in Nat

VARIABLES
    events,    \* how many events the handler's stream has ready
    ended,     \* it has no more
    ticker,    \* EventBytes::ticker: when it fires, or None
    full,      \* the connection takes nothing at the moment
    finished,  \* the end of the stream has been handed on
    lastEvent, \* history: when an event was handed on last
    quiet,     \* history: since when nothing was, although it would be taken;
               \* None before the first poll
    gap        \* history: how long before the last comment an event was

streamVars == <<events, ended, ticker, full, finished, lastEvent, quiet, gap>>
sseVars == <<timeVars, streamVars>>

SseInit == /\ TimedInit
           /\ events = 0 /\ ended = FALSE
           /\ ticker = None
           /\ full = FALSE /\ finished = FALSE
           /\ lastEvent = 0 /\ quiet = None /\ gap = None

-----------------------------------------------------------------------------
(* The handler's stream.                                                    *)
Produce == /\ events < MaxEvents /\ ~ended
           /\ events' = events + 1
           /\ Wake
           /\ UNCHANGED <<now, ended, ticker, full, finished, lastEvent, quiet, gap>>

EndEvents == /\ ~ended
             /\ ended' = TRUE
             /\ Wake
             /\ UNCHANGED <<now, events, ticker, full, finished, lastEvent, quiet, gap>>

(* The connection: its buffer drains, or it polls for a reason of its own.  *)
Drained == /\ full
           /\ full' = FALSE
           /\ quiet' = now
           /\ woken' = now
           /\ UNCHANGED <<now, events, ended, ticker, finished, lastEvent, gap>>

WokenOtherwise == /\ woken = None
                  /\ Wake
                  /\ UNCHANGED <<now, streamVars>>

-----------------------------------------------------------------------------
(* EventBytes::poll_next.                                                   *)
Polled == woken # None /\ ~full /\ ~finished

(* An item was handed on: it is polled again at once, unless it is full.    *)
HandOn == /\ quiet' = now
          /\ woken' = now
          /\ full' \in BOOLEAN

(* Mutant: an event leaves the ticker as it is.                             *)
ResetNothing == ticker

Reset == IF ticker = None THEN None ELSE now + Period

PollEvent == /\ Polled /\ events > 0
             /\ events' = events - 1
             /\ ticker' = Reset
             /\ lastEvent' = now
             /\ HandOn
             /\ UNCHANGED <<now, ended, finished, gap>>

PollEnd == /\ Polled /\ events = 0 /\ ended
           /\ ticker' = Reset
           /\ finished' = TRUE
           /\ woken' = None
           /\ UNCHANGED <<now, events, ended, full, lastEvent, quiet, gap>>

(* The ticker starts with the first gap.                                    *)
Fires == IF ticker = None THEN now + Period ELSE ticker

(* A late tick puts off the following ones (MissedTickBehavior::Delay).     *)
PollComment == /\ Polled /\ events = 0 /\ ~ended
               /\ now >= Fires
               /\ ticker' = now + Period
               /\ gap' = now - lastEvent
               /\ HandOn
               /\ UNCHANGED <<now, events, ended, finished, lastEvent>>

PollPending == /\ Polled /\ events = 0 /\ ~ended
               /\ now < Fires
               /\ ticker' = Fires
               /\ woken' = None
               /\ quiet' = IF quiet = None THEN now ELSE quiet
               /\ UNCHANGED <<now, events, ended, full, finished, lastEvent, gap>>

(* A connection that takes nothing is not polled, however often it is woken.*)
SseTick == \/ ~full /\ ~finished /\ TickWith(ticker) /\ UNCHANGED streamVars
           \/ /\ full /\ now < MaxTime
              /\ now' = now + 1
              /\ UNCHANGED <<woken, streamVars>>

SseNext == \/ Produce \/ EndEvents \/ Drained \/ WokenOtherwise
           \/ PollEvent \/ PollEnd \/ PollComment \/ PollPending
           \/ SseTick

SseSpec == SseInit /\ [][SseNext]_sseVars

-----------------------------------------------------------------------------
(* A comment never follows an event in less than the interval: events reset *)
(* the ticker, and so does a ticker that fired late.                        *)
CommentInGap == gap # None => gap >= Period

(* A connection that would take something is never left without for longer  *)
(* than the interval and two delays of the task, however often it is woken  *)
(* for nothing: proxies drop a stream that is silent.                       *)
NoSilence == quiet # None /\ ~full /\ ~finished => now - quiet <= Period + 2 * Delay

GapsMarked == CommentInGap /\ NoSilence
=============================================================================
