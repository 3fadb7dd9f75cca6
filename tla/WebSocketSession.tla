-------------------------- MODULE WebSocketSession --------------------------
(***************************************************************************)
(* A WebSocket (websocket.rs): the handshake, and a session as its handler *)
(* sees it - recv with an idle timeout, send, calls given up midway - with *)
(* the transport and the max_connections slot it holds.                    *)
(*                                                                         *)
(* The peer sends messages, reads what it is sent or does not, and leaves. *)
(* hyper hands the connection over after a 101 or never does.              *)
(***************************************************************************)
EXTENDS Timed, Sequences

CONSTANTS Handshakes,  \* the requests that may come
          Origins,     \* WebSocketUpgrade::origins
          Spoken,      \* WebSocketUpgrade::protocols, the preferred one first
          IdleTimeout, \* idle_timeout
          CloseTime,   \* how long the close frame may take: a second
          MaxInbox     \* bound: messages waiting

ASSUME SessionAssumption == /\ {IdleTimeout, CloseTime, MaxInbox} \subseteq Nat
                            /\ Spoken \in Seq(STRING)
                            /\ None \notin Handshakes

VARIABLES
    handshake,  \* the request, or None
    replied,    \* the status of the response, or None
    spoken,     \* the protocol chosen, or None
    session,    \* "none", "promised" with the 101, "open" or "over"
    transport,  \* WebSocket::inner
    permit,     \* the connection's slot is held by the session
    inbox,      \* messages that arrived
    peer,       \* the peer is "reading", "deaf" or "gone"
    calling,    \* what the handler awaits: "none", "recv", "closing", "send"
    callTimer,  \* the deadline of that call, or None
    expired,    \* recv reported the timeout
    began,      \* history: when recv was called
    heard       \* history: a message arrived in time for this recv

peerVars == <<inbox, peer>>
sessionVars == <<handshake, replied, spoken, session, transport, permit, peerVars,
                 calling, callTimer, expired, began, heard>>
socketVars == <<timeVars, sessionVars>>

SocketInit == /\ TimedInit
              /\ handshake = None /\ replied = None /\ spoken = None
              /\ session = "none" /\ transport = FALSE /\ permit = FALSE
              /\ inbox = 0 /\ peer = "reading"
              /\ calling = "none" /\ callTimer = None
              /\ expired = FALSE /\ began = 0 /\ heard = FALSE

-----------------------------------------------------------------------------
(* on_upgrade.  A request says whether it is a handshake at all, its        *)
(* version, its key, its origin and the protocols it offers in order.       *)
OriginAllowed(q) == Origins = {} \/ q.origin = None \/ q.origin \in Origins

Status(q) == IF ~q.upgrades THEN 400
             ELSE IF q.version # 13 THEN 426
             ELSE IF ~q.key THEN 400
             ELSE IF ~OriginAllowed(q) THEN 403
             ELSE 101

FirstOf(s, set) ==
    LET hits == {i \in DOMAIN s : s[i] \in set}
    IN IF hits = {} THEN None ELSE s[CHOOSE i \in hits : \A j \in hits : i <= j]
Members(s) == {s[i] : i \in DOMAIN s}

(* Mutant: the client's order counts.                                       *)
ChosenByClient(q) == FirstOf(q.offered, Members(Spoken))

Chosen(q) == FirstOf(Spoken, Members(q.offered))

Upgrade(q) == /\ handshake = None
              /\ handshake' = q
              /\ replied' = Status(q)
              /\ IF replied' = 101
                 THEN spoken' = Chosen(q) /\ session' = "promised" /\ permit' = TRUE
                 ELSE UNCHANGED <<spoken, session, permit>>
              /\ UNCHANGED <<timeVars, transport, peerVars, calling, callTimer, expired,
                             began, heard>>

(* The spawned task gets the connection, and runs the handler.              *)
HandedOver == /\ session = "promised"
              /\ session' = "open"
              /\ transport' = TRUE
              /\ UNCHANGED <<timeVars, handshake, replied, spoken, permit, peerVars, calling,
                             callTimer, expired, began, heard>>

EndSession == /\ session' = "over"
              /\ transport' = FALSE /\ permit' = FALSE
              /\ calling' = "none" /\ callTimer' = None
              /\ UNCHANGED <<timeVars, handshake, replied, spoken, peerVars, expired,
                             began, heard>>

NeverHandedOver == session = "promised" /\ EndSession

(* The handler returns or panics, or its task is dropped while it waits.    *)
HandlerEnds == session = "open" /\ EndSession

-----------------------------------------------------------------------------
(* The peer.                                                                *)
InSession == session = "open"

PeerSends == /\ InSession /\ transport /\ peer # "gone" /\ inbox < MaxInbox
             /\ inbox' = inbox + 1
             /\ heard' = (heard \/ calling = "recv")
             /\ Wake
             /\ UNCHANGED <<now, handshake, replied, spoken, session, transport, permit, peer,
                            calling, callTimer, expired, began>>

PeerTurns(to) == /\ InSession /\ transport
                 /\ peer' = to
                 /\ Wake
                 /\ UNCHANGED <<now, handshake, replied, spoken, session, transport, permit,
                                inbox, calling, callTimer, expired, began, heard>>

PeerActs == \/ PeerSends
            \/ peer = "reading" /\ PeerTurns("deaf")
            \/ peer = "deaf" /\ PeerTurns("reading")
            \/ peer # "gone" /\ PeerTurns("gone")

-----------------------------------------------------------------------------
(* recv.                                                                    *)
CallRecv == /\ InSession /\ calling = "none" /\ transport
            /\ calling' = "recv"
            /\ callTimer' = now + IdleTimeout
            /\ began' = now
            /\ heard' = (inbox > 0)
            /\ woken' = now
            /\ UNCHANGED <<now, handshake, replied, spoken, session, transport, permit,
                           peerVars, expired>>

Receiving == InSession /\ calling = "recv" /\ woken # None

Returns == /\ calling' = "none" /\ callTimer' = None
           /\ UNCHANGED <<timeVars, handshake, replied, spoken, session, peer, began, heard>>

RecvMessage == /\ Receiving /\ inbox > 0
               /\ inbox' = inbox - 1
               /\ Returns
               /\ UNCHANGED <<transport, permit, expired>>

RecvNone == /\ Receiving /\ inbox = 0 /\ peer = "gone"
            /\ Returns
            /\ UNCHANGED <<inbox, transport, permit, expired>>

StartClosing == /\ now >= callTimer
                /\ calling' = "closing"
                /\ callTimer' = now + CloseTime
                /\ UNCHANGED <<timeVars, handshake, replied, spoken, session, transport, permit,
                               peerVars, expired, began, heard>>

(* The stream is polled before the timer.                                   *)
RecvExpires == Receiving /\ inbox = 0 /\ peer # "gone" /\ StartClosing

RecvWaits == /\ Receiving /\ inbox = 0 /\ peer # "gone" /\ now < callTimer
             /\ woken' = None
             /\ UNCHANGED <<now, sessionVars>>

(* The close frame has gone out, or has had its time.                       *)
Closing == InSession /\ calling = "closing" /\ woken # None
Closed == peer # "deaf" \/ now >= callTimer

(* Mutant: the handler's value keeps the slot.                              *)
ExpireKeepingSlot == /\ Closing /\ Closed
                     /\ transport' = FALSE
                     /\ expired' = TRUE
                     /\ Returns
                     /\ UNCHANGED <<inbox, permit>>

Expire == /\ Closing /\ Closed
          /\ transport' = FALSE /\ permit' = FALSE
          /\ expired' = TRUE
          /\ Returns
          /\ UNCHANGED inbox

CloseWaits == /\ Closing /\ ~Closed
              /\ woken' = None
              /\ UNCHANGED <<now, sessionVars>>

-----------------------------------------------------------------------------
(* send and close: without a transport they fail at once, as recv gives     *)
(* None; the socket's own stall clock (SendPath) bounds them.               *)
CallSend == /\ InSession /\ calling = "none" /\ transport
            /\ calling' = "send"
            /\ UNCHANGED <<timeVars, handshake, replied, spoken, session, transport, permit,
                           peerVars, callTimer, expired, began, heard>>

SendReturns == /\ InSession /\ calling = "send"
               /\ Returns
               /\ UNCHANGED <<inbox, transport, permit, expired>>

(* A select! of the handler drops the call, also while the frame goes out.  *)
GiveUp == /\ calling # "none"
          /\ Returns
          /\ UNCHANGED <<inbox, transport, permit, expired>>

SocketTick == InSession /\ TickWith(callTimer) /\ UNCHANGED sessionVars

SocketNext == \/ \E q \in Handshakes : Upgrade(q)
              \/ HandedOver \/ NeverHandedOver \/ HandlerEnds
              \/ PeerActs
              \/ CallRecv \/ RecvMessage \/ RecvNone \/ RecvExpires \/ RecvWaits
              \/ Expire \/ CloseWaits
              \/ CallSend \/ SendReturns \/ GiveUp
              \/ SocketTick

SocketSpec == SocketInit /\ [][SocketNext]_socketVars

-----------------------------------------------------------------------------
(* Cross-site pages open no session: only a listed origin does, or a client *)
(* that is no browser.  The protocol is one both speak, and the best of     *)
(* them for the server, whatever the order of the offer.                    *)
OpenedRightly ==
    session # "none" =>
        /\ handshake.upgrades /\ handshake.version = 13 /\ handshake.key
        /\ Origins # {} => handshake.origin \in Origins \union {None}
        /\ \A i \in DOMAIN Spoken :
               Spoken[i] \in Members(handshake.offered) =>
                   \E j \in 1 .. i : spoken = Spoken[j]
        /\ spoken # None => spoken \in Members(handshake.offered)

(* The slot goes with the transport, whichever way the session ends and     *)
(* whatever calls were given up before; a peer that stopped reading cannot  *)
(* hold it.  recv times out only when no message came since it was called,  *)
(* and is over in time.                                                     *)
SessionReleased ==
    /\ session \in {"open", "over"} => (permit <=> transport)
    /\ expired => ~transport
    /\ calling = "closing" => ~heard
    /\ calling \in {"recv", "closing"} =>
           now - began <= IdleTimeout + CloseTime + 2 * Delay
=============================================================================
