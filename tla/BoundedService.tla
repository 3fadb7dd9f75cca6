--------------------------- MODULE BoundedService ---------------------------
(***************************************************************************)
(* What a call of serve_listener / serve_unix / serve_tls promises its     *)
(* caller, with no protocol detail: at most MaxConns connections hold a    *)
(* slot at a time, connections are admitted only while the call is         *)
(* serving, and none is served once the call has returned.  That a call    *)
(* asked to shut down does return is no part of it: it states no liveness. *)
(* Server implements this specification (see Server!Contract).             *)
(***************************************************************************)
EXTENDS Naturals, FiniteSets

CONSTANTS Conns,     \* the connections that may be opened
          MaxConns   \* AppRuntime::max_connections

VARIABLES stage,     \* "serving", "stopping" (shutdown seen), "over"
          holders,   \* the connections that hold a max_connections slot
          served     \* the connections whose task the call still drives

vars == <<stage, holders, served>>

Init == /\ stage = "serving"
        /\ holders = {}
        /\ served = {}

(* A new connection takes a slot and is served from now on. *)
Admit(c) == /\ stage = "serving"
            /\ c \notin holders
            /\ Cardinality(holders) < MaxConns
            /\ holders' = holders \union {c}
            /\ served' = served \union {c}
            /\ UNCHANGED stage

(* A connection's task ends; a handler or session may keep the slot. *)
Leave(c) == /\ c \in served
            /\ served' = served \ {c}
            /\ holders' \in {holders, holders \ {c}}
            /\ UNCHANGED stage

(* What outlived the connection's task gives the slot back. *)
Release(c) == /\ c \in holders \ served
              /\ holders' = holders \ {c}
              /\ UNCHANGED <<stage, served>>

Stop == /\ stage = "serving"
        /\ stage' = "stopping"
        /\ UNCHANGED <<holders, served>>

(* Every connection still served is given up, whatever it is doing: when    *)
(* the deadline of an orderly stop has passed, or when the call fails.      *)
GiveUp == /\ \/ stage = "serving" /\ stage' = "over"
             \/ stage = "stopping" /\ stage' \in {"stopping", "over"}
          /\ served' = {}
          /\ UNCHANGED holders

Next == \/ \E c \in Conns : Admit(c) \/ Leave(c) \/ Release(c)
        \/ Stop
        \/ GiveUp

Spec == Init /\ [][Next]_vars
=============================================================================
