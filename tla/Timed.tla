------------------------------- MODULE Timed --------------------------------
(***************************************************************************)
(* The clock of the components that race a timer, and their task: it is    *)
(* polled some time after it was woken, by data or by its timer.           *)
(***************************************************************************)
EXTENDS Values, Integers

CONSTANTS Delay,    \* bound: ticks between waking the task and its poll
          MaxTime   \* bound: when the clock stops

ASSUME TimeAssumption == Delay \in Nat /\ MaxTime \in Nat
ASSUME NoneAssumption == None \notin Int

VARIABLES now,   \* the clock
          woken  \* when the task was woken for its next poll, or None

timeVars == <<now, woken>>

(* The task is spawned: it has yet to be polled.                            *)
TimedInit == now = 0 /\ woken = 0

Wake == woken' = IF woken = None THEN now ELSE woken

(* Time passes, and a timer that is due wakes the task.                     *)
TickWith(deadline) ==
    /\ now < MaxTime
    /\ woken # None => now - woken < Delay
    /\ now' = now + 1
    /\ woken' = IF woken = None /\ deadline # None /\ now' >= deadline
                THEN now' ELSE woken
=============================================================================
