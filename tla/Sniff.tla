------------------------------- MODULE Sniff --------------------------------
(***************************************************************************)
(* Telling HTTP/2 with prior knowledge from HTTP/1.1 on one port           *)
(* (runtime.rs): detect_h2 reads until the preface is confirmed or ruled   *)
(* out, and Rewind gives what it read to the protocol that was found.      *)
(***************************************************************************)
EXTENDS Timed, Sequences

CONSTANTS Preface,      \* H2_PREFACE, a few symbols long
          Symbols,      \* the bytes a client may send
          HeaderLimit,  \* header_read_timeout
          MaxTyped      \* bound: bytes a client sends

ASSUME PrefaceAssumption == /\ Preface \in Seq(Symbols) /\ Preface # <<>>
                            /\ {HeaderLimit, MaxTyped} \subseteq Nat

VARIABLES
    typed,      \* the bytes the client sent
    hungUp,     \* it sends no more
    stopping,   \* the server is asked to stop
    seen,       \* the bytes read by detect_h2
    protocol,   \* "unknown", "h1", "h2", or "dropped" before it is known
    sniffTimer, \* the deadline of detection, or None
    prefix,     \* Rewind::prefix
    delivered   \* the bytes hyper got

sniffedVars == <<typed, hungUp, stopping, seen, protocol, sniffTimer, prefix, delivered>>
sniffVars == <<timeVars, sniffedVars>>

SniffInit == /\ TimedInit
             /\ typed = <<>> /\ hungUp = FALSE /\ stopping = FALSE
             /\ seen = <<>> /\ protocol = "unknown" /\ sniffTimer = None
             /\ prefix = <<>> /\ delivered = <<>>

-----------------------------------------------------------------------------
(* The client, and the server's signal.                                     *)
Type(b) == /\ ~hungUp /\ Len(typed) < MaxTyped
           /\ typed' = Append(typed, b)
           /\ Wake
           /\ UNCHANGED <<now, hungUp, stopping, seen, protocol, sniffTimer, prefix, delivered>>

HangUp == /\ ~hungUp
          /\ hungUp' = TRUE
          /\ Wake
          /\ UNCHANGED <<now, typed, stopping, seen, protocol, sniffTimer, prefix, delivered>>

StopServer == /\ ~stopping
              /\ stopping' = TRUE
              /\ Wake
              /\ UNCHANGED <<now, typed, hungUp, seen, protocol, sniffTimer, prefix, delivered>>

-----------------------------------------------------------------------------
(* detect_h2.                                                               *)
StartsWith(s, t) == Len(t) <= Len(s) /\ SubSeq(s, 1, Len(t)) = t

Detecting == protocol = "unknown" /\ woken # None

Unread == SubSeq(typed, Len(seen) + 1, Len(typed))

StartSniffing == /\ Detecting /\ sniffTimer = None
                 /\ sniffTimer' = now + HeaderLimit
                 /\ UNCHANGED <<timeVars, typed, hungUp, stopping, seen, protocol, prefix, delivered>>

(* It goes on while what it has may become the preface.                     *)
Undecided == StartsWith(Preface, seen) /\ seen # Preface

(* Mutant: as much as there is room for.                                    *)
WantAll == Len(Preface)

Want == Len(Preface) - Len(seen)

ReadMore == /\ Detecting /\ sniffTimer # None /\ Undecided
            /\ \E n \in 1 .. Want :
                   /\ n <= Len(Unread)
                   /\ seen' = seen \o SubSeq(Unread, 1, n)
            /\ UNCHANGED <<timeVars, typed, hungUp, stopping, protocol, sniffTimer, prefix, delivered>>

(* The preface is there, or ruled out, or the client closed early.          *)
Decide == /\ Detecting /\ sniffTimer # None
          /\ ~Undecided \/ (hungUp /\ Unread = <<>>)
          /\ protocol' = IF seen = Preface THEN "h2" ELSE "h1"
          /\ prefix' = seen
          /\ UNCHANGED <<timeVars, typed, hungUp, stopping, seen, sniffTimer, delivered>>

(* select! looks at the signal before or after the detection.               *)
DropStopped == /\ Detecting /\ stopping
               /\ protocol' = "dropped"
               /\ UNCHANGED <<timeVars, typed, hungUp, stopping, seen, sniffTimer, prefix, delivered>>

Nothing == Detecting /\ sniffTimer # None /\ Undecided /\ Unread = <<>> /\ ~hungUp

DropSilent == /\ Nothing /\ now >= sniffTimer
              /\ protocol' = "dropped"
              /\ UNCHANGED <<timeVars, typed, hungUp, stopping, seen, sniffTimer, prefix, delivered>>

AwaitByte == /\ Nothing /\ now < sniffTimer /\ ~stopping
             /\ woken' = None
             /\ UNCHANGED <<now, sniffedVars>>

-----------------------------------------------------------------------------
(* Rewind::poll_read, with room for n bytes.                                *)
Rest(count) == SubSeq(prefix, count + 1, Len(prefix))

Smaller(a, b) == IF a < b THEN a ELSE b

Replay(n) == /\ protocol \in {"h1", "h2"} /\ prefix # <<>>
             /\ LET count == Smaller(n, Len(prefix))
                IN /\ delivered' = delivered \o SubSeq(prefix, 1, count)
                   /\ prefix' = Rest(count)
             /\ UNCHANGED <<timeVars, typed, hungUp, stopping, seen, protocol, sniffTimer>>

(* Then the socket is read: `seen` stands for how far it was.               *)
ReadOn(n) == /\ protocol \in {"h1", "h2"} /\ prefix = <<>>
             /\ Unread # <<>>
             /\ LET count == Smaller(n, Len(Unread))
                    bytes == SubSeq(Unread, 1, count)
                IN /\ delivered' = delivered \o bytes
                   /\ seen' = seen \o bytes
             /\ UNCHANGED <<timeVars, typed, hungUp, stopping, protocol, sniffTimer, prefix>>

SniffTick == protocol = "unknown" /\ TickWith(sniffTimer) /\ UNCHANGED sniffedVars

SniffNext == \/ \E b \in Symbols : Type(b)
             \/ HangUp \/ StopServer
             \/ StartSniffing \/ ReadMore \/ Decide
             \/ DropStopped \/ DropSilent \/ AwaitByte
             \/ \E n \in 1 .. MaxTyped : Replay(n) \/ ReadOn(n)
             \/ SniffTick

SniffSpec == SniffInit /\ [][SniffNext]_sniffVars

-----------------------------------------------------------------------------
(* The protocol is the right one however the preface is cut, and it gets    *)
(* every byte once and in order.  As soon as the bytes that came rule the   *)
(* preface out the task waits no longer, and for those that do not come it  *)
(* waits no longer than the limit.                                          *)
SniffExact ==
    /\ protocol \in {"h1", "h2"} =>
           /\ delivered \o prefix \o Unread = typed
           /\ protocol = "h2" <=> StartsWith(typed, Preface)
    /\ protocol = "unknown" =>
           /\ woken = None => Unread = <<>> /\ StartsWith(Preface, typed)
           /\ sniffTimer # None => now <= sniffTimer + Delay
=============================================================================
