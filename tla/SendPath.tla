------------------------------ MODULE SendPath ------------------------------
(***************************************************************************)
(* What a connection writes (Tracked and FrameScanner, runtime.rs): writes *)
(* and flushes that stay Pending run a stall clock, and what is accepted   *)
(* is scanned for HTTP/2 response data, however the frames are cut into    *)
(* writes.                                                                 *)
(*                                                                         *)
(* Tracked wraps the socket, or the TLS stream on top of it (tls.rs): TLS  *)
(* takes a write while its buffer has space, hands the socket what it      *)
(* takes, and a flush is Pending until the buffer is empty, though the     *)
(* socket took a part of it.  (TLS is external; the bytes a record adds    *)
(* are left out.)                                                          *)
(*                                                                         *)
(* A frame is a header of two bytes, the size of its payload and its kind, *)
(* and the payload.  A byte carries a mark for the properties, which the   *)
(* scanner does not see: whether it is response data.  hyper flushes when  *)
(* it has nothing to write.                                                *)
(***************************************************************************)
EXTENDS Timed, Sequences

CONSTANTS SendTimeout, \* send_timeout
          HoldLimit,   \* what TLS buffers at most
          MaxRoom,     \* bound: bytes the socket takes before the client reads
          MaxPayload,  \* bound: bytes of a payload
          MaxFrames    \* bound: frames written

ASSUME SendAssumption == /\ {SendTimeout, MaxRoom, MaxPayload, MaxFrames} \subseteq Nat
                         /\ HoldLimit \in Nat \ {0}

VARIABLES
    tls,      \* the stream is a TLS stream
    held,     \* bytes TLS accepted and the socket did not take yet
    room,     \* bytes the socket would take
    framed,   \* frames so far
    out,      \* hyper's bytes to be written
    unsent,   \* something was written since the last flush
    scanner,  \* FrameScanner: header bytes, payload left, carries_response
    stall,    \* Tracked::stall: when the clock runs out, or None
    sending,  \* "open", "stalled" by the clock or "failed" with the socket
    touched,  \* the last write was reported as progress
    due,      \* history: it carried response data
    since,    \* history: when a write or flush was Pending first, with none
              \* accepted or completed after it
    taken     \* history: bytes the socket took from then on

outVars == <<tls, held, room, framed, out, unsent, scanner, stall, sending, touched, due,
             since, taken>>
sendVars == <<timeVars, outVars>>

Idle == [header |-> <<>>, left |-> 0, carries |-> FALSE]

SendInit == /\ TimedInit
            /\ tls \in BOOLEAN
            /\ held = 0 /\ room = MaxRoom
            /\ framed = 0 /\ out = <<>> /\ unsent = FALSE
            /\ scanner = Idle
            /\ stall = None /\ sending = "open"
            /\ touched = FALSE /\ due = FALSE /\ since = None /\ taken = 0

-----------------------------------------------------------------------------
(* Frames: DATA, HEADERS, SETTINGS and CONTINUATION.                        *)
Kinds == {0, 1, 4, 9}
CarriesResponse(kind) == kind \in {0, 1, 9}

Byte(value, response) == [value |-> value, response |-> response]

(* Payload bytes look like the header of an empty HEADERS frame.            *)
Frame(kind, size) ==
    <<Byte(size, FALSE), Byte(kind, kind = 1)>> \o
        [i \in 1 .. size |-> Byte(IF i = 1 THEN 0 ELSE 1, CarriesResponse(kind))]

(* FrameScanner::feed, over [scanner, progress].                            *)
FeedByte(s, b) ==
    IF s.left > 0
    THEN [s EXCEPT !.left = @ - 1, !.progress = @ \/ s.carries]
    ELSE IF s.header = <<>> THEN [s EXCEPT !.header = <<b.value>>]
    ELSE [header |-> <<>>, left |-> s.header[1], carries |-> CarriesResponse(b.value),
          progress |-> s.progress \/ b.value = 1]

Fresh(s) == [header |-> s.header, left |-> s.left, carries |-> s.carries, progress |-> FALSE]

FeedAll(s, data) ==
    LET fed[i \in 0 .. Len(data)] ==
            IF i = 0 THEN Fresh(s) ELSE FeedByte(fed[i - 1], data[i])
    IN fed[Len(data)]

(* Mutant: a header is expected to come in one write.                       *)
FeedWhole(s, data) == FeedAll([s EXCEPT !.header = <<>>], data)

FeedData(s, data) == FeedAll(s, data)

Scanner(fed) == [header |-> fed.header, left |-> fed.left, carries |-> fed.carries]

-----------------------------------------------------------------------------
(* The client reads, or resets the connection.                              *)
ClientReads == /\ room < MaxRoom
               /\ \E r \in room + 1 .. MaxRoom : room' = r
               /\ Wake
               /\ UNCHANGED <<now, tls, held, framed, out, unsent, scanner, stall, sending,
                              touched, due, since, taken>>

SocketFails == /\ sending = "open" /\ woken # None
               /\ out # <<>> \/ unsent
               /\ sending' = "failed"
               /\ stall' = None
               /\ UNCHANGED <<timeVars, tls, held, room, framed, out, unsent, scanner, touched,
                              due, since, taken>>

-----------------------------------------------------------------------------
(* The connection's task.                                                   *)
Encode(kind, size) ==
    /\ sending = "open"
    /\ framed < MaxFrames
    /\ framed' = framed + 1
    /\ out' = out \o Frame(kind, size)
    /\ Wake
    /\ UNCHANGED <<now, tls, held, room, unsent, scanner, stall, sending, touched, due, since,
                   taken>>

Writing == sending = "open" /\ woken # None /\ out # <<>>
Flushing == sending = "open" /\ woken # None /\ out = <<>> /\ unsent

(* How much a write takes: what the socket does, or what TLS has space for, *)
(* which passes on all it holds first if the socket lets it.                *)
Space == IF ~tls THEN room
         ELSE IF room >= HoldLimit THEN HoldLimit ELSE HoldLimit - held

(* What then goes to the socket of the bytes accepted.                      *)
PassedOn(n) == IF room <= held + n THEN room ELSE held + n

(* poll_write_vectored, which takes n bytes, the first `cut` of them from   *)
(* another slice; poll_write for cut = 0.                                   *)
WriteBytes(n, cut) ==
    LET first == FeedData(scanner, SubSeq(out, 1, cut))
        second == FeedData(Scanner(first), SubSeq(out, cut + 1, n))
    IN /\ Writing
       /\ n <= Space /\ n <= Len(out)
       /\ room' = room - PassedOn(n)
       /\ held' = held + n - PassedOn(n)
       /\ out' = SubSeq(out, n + 1, Len(out))
       /\ unsent' = TRUE
       /\ scanner' = Scanner(second)
       /\ touched' = (first.progress \/ second.progress)
       /\ due' = \E i \in 1 .. n : out[i].response
       /\ stall' = None
       /\ since' = None /\ taken' = 0
       /\ UNCHANGED <<timeVars, tls, framed, sending>>

(* poll_write and poll_flush are Pending; under TLS the socket may still    *)
(* have taken a part of what is held.                                       *)
Refuses == (Writing /\ Space = 0) \/ (Flushing /\ room < held)

(* Tracked::stalled arms the clock once.  Mutant: with every refusal.       *)
ArmedAnew == now + SendTimeout

Armed == IF stall = None THEN now + SendTimeout ELSE stall

RefusedBySocket ==
    /\ Refuses
    /\ held' = held - room
    /\ room' = 0
    /\ taken' = taken + room
    /\ stall' = Armed
    /\ since' = IF since = None THEN now ELSE since
    /\ IF now >= stall'
       THEN sending' = "stalled" /\ UNCHANGED woken
       ELSE woken' = None /\ UNCHANGED sending
    /\ UNCHANGED <<now, tls, framed, out, unsent, scanner, touched, due>>

(* A flush is done when the socket took all that is held.                   *)
Flushed == /\ Flushing
           /\ held <= room
           /\ held' = 0
           /\ room' = room - held
           /\ unsent' = FALSE
           /\ since' = None /\ taken' = 0
           /\ stall' = None
           /\ woken' = None
           /\ UNCHANGED <<now, tls, framed, out, scanner, sending, touched, due>>

NothingToSend == /\ sending = "open" /\ woken # None /\ out = <<>> /\ ~unsent
                 /\ woken' = None
                 /\ UNCHANGED <<now, outVars>>

SendTick == sending = "open" /\ TickWith(stall) /\ UNCHANGED outVars

SendNext == \/ ClientReads \/ SocketFails
            \/ \E kind \in Kinds, size \in 0 .. MaxPayload : Encode(kind, size)
            \/ \E n \in 1 .. Space : \E cut \in 0 .. n - 1 : WriteBytes(n, cut)
            \/ RefusedBySocket \/ Flushed \/ NothingToSend
            \/ SendTick

SendSpec == SendInit /\ [][SendNext]_sendVars

-----------------------------------------------------------------------------
(* Progress is reported for exactly the writes that carry response data: a  *)
(* piece of a payload or the end of a HEADERS header, wherever the frames   *)
(* before it were cut, and never for control frames.                        *)
ScannerExact == touched = due

(* A connection is dropped only after the whole limit in which no write was *)
(* accepted and no flush completed, and in which the socket took nothing or *)
(* is a TLS connection whose client took less than TLS buffers, whatever    *)
(* was refused, flushed and silent before; and then it is dropped soon.     *)
StallExact ==
    /\ sending = "stalled" => /\ since # None /\ now - since >= SendTimeout
                              /\ taken = 0 \/ (tls /\ taken < HoldLimit)
    /\ sending = "open" /\ since # None => now - since <= SendTimeout + Delay
=============================================================================
