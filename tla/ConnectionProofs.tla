-------------------------- MODULE ConnectionProofs ---------------------------
(***************************************************************************)
(* Proofs about what happens on one connection: the detection of its       *)
(* protocol (Sniff), what it writes (SendPath), and what it may become, a  *)
(* WebSocket (WebSocketSession) or a stream of events (EventStream); for   *)
(* any preface, bytes, frames, limits, intervals and delays.               *)
(***************************************************************************)
EXTENDS Sniff, SendPath, WebSocketSession, EventStream,
        SequenceTheorems, Induction, TLAPS

-----------------------------------------------------------------------------
(* Detection finds the right protocol, which gets every byte once and in    *)
(* order, and no client is waited for in vain: sequences of bytes first.    *)

(* A sequence starts with another where they agree byte by byte.            *)
LEMMA StartsBytewise ==
    ASSUME NEW s \in Seq(Symbols), NEW t \in Seq(Symbols)
    PROVE  StartsWith(s, t) <=> Len(t) <= Len(s) /\ \A i \in 1 .. Len(t) : s[i] = t[i]
<1>1. Len(s) \in Nat /\ Len(t) \in Nat
  BY LenProperties
<1>2. ASSUME Len(t) <= Len(s)
      PROVE  SubSeq(s, 1, Len(t)) = t <=> \A i \in 1 .. Len(t) : s[i] = t[i]
  <2>1. \A i \in 1 .. Len(t) : s[i] \in Symbols
    BY <1>1, <1>2, ElementOfSeq
  <2>2. /\ SubSeq(s, 1, Len(t)) \in Seq(Symbols)
        /\ Len(SubSeq(s, 1, Len(t))) = Len(t)
        /\ \A i \in 1 .. Len(t) : SubSeq(s, 1, Len(t))[i] = s[i]
    BY <1>1, <2>1, SubSeqProperties
  <2> QED
    BY <2>2, SeqEqual
<1> QED
  BY <1>2 DEF StartsWith

(* A sequence cut in two is the sequence.                                   *)
LEMMA CutInTwo ==
    ASSUME NEW S, NEW s \in Seq(S), NEW n \in Nat, n <= Len(s)
    PROVE  /\ SubSeq(s, 1, n) \in Seq(S)
           /\ Len(SubSeq(s, 1, n)) = n
           /\ \A i \in 1 .. n : SubSeq(s, 1, n)[i] = s[i]
           /\ SubSeq(s, n + 1, Len(s)) \in Seq(S)
           /\ Len(SubSeq(s, n + 1, Len(s))) = Len(s) - n
           /\ \A i \in 1 .. Len(s) - n : SubSeq(s, n + 1, Len(s))[i] = s[n + i]
           /\ SubSeq(s, 1, n) \o SubSeq(s, n + 1, Len(s)) = s
<1>1. Len(s) \in Nat
  BY LenProperties
<1>2. \A i \in 1 .. Len(s) : s[i] \in S
  BY ElementOfSeq
<1>3. /\ SubSeq(s, 1, n) \in Seq(S)
      /\ Len(SubSeq(s, 1, n)) = n
      /\ \A i \in 1 .. n : SubSeq(s, 1, n)[i] = s[i]
  <2>1. \A i \in 1 .. n : s[i] \in S
    BY <1>1, <1>2
  <2> QED
    BY <2>1, SubSeqProperties
<1>4. /\ SubSeq(s, n + 1, Len(s)) \in Seq(S)
      /\ Len(SubSeq(s, n + 1, Len(s))) = Len(s) - n
      /\ \A i \in 1 .. Len(s) - n : SubSeq(s, n + 1, Len(s))[i] = s[n + i]
  <2>1. \A i \in n + 1 .. Len(s) : s[i] \in S
    BY <1>1, <1>2
  <2>2. /\ SubSeq(s, n + 1, Len(s)) \in Seq(S)
        /\ Len(SubSeq(s, n + 1, Len(s))) =
               IF n + 1 <= Len(s) THEN Len(s) - (n + 1) + 1 ELSE 0
        /\ \A i \in 1 .. Len(s) - (n + 1) + 1 :
               SubSeq(s, n + 1, Len(s))[i] = s[(n + 1) + i - 1]
    BY <1>1, <2>1, SubSeqProperties
  <2> QED
    BY <1>1, <2>2
<1>5. SubSeq(s, 1, n) \o SubSeq(s, n + 1, Len(s)) = SubSeq(s, 1, Len(s))
  <2>1. 1 \in 1 .. Len(s) + 1 /\ n \in 1 - 1 .. Len(s) /\ Len(s) \in n .. Len(s)
    BY <1>1
  <2> QED
    BY <2>1, ConcatAdjacentSubSeq
<1> QED
  BY <1>3, <1>4, <1>5, SubSeqFull

-----------------------------------------------------------------------------
(* The inductive invariant.                                                 *)

SniffType ==
    /\ now \in Nat
    /\ woken \in Nat \union {None}
    /\ {typed, seen, prefix, delivered} \subseteq Seq(Symbols)
    /\ protocol \in {"unknown", "h1", "h2", "dropped"}
    /\ sniffTimer \in Nat \union {None}

(* What was read is what was sent first.                                    *)
SeenIsTyped == Len(seen) <= Len(typed) /\ \A i \in 1 .. Len(seen) : seen[i] = typed[i]

(* What was read has been handed on or will be, once the protocol is known. *)
SeenIsKept ==
    IF protocol \in {"h1", "h2"} THEN delivered \o prefix = seen
    ELSE prefix = <<>> /\ delivered = <<>>

(* Some byte is not that of the preface.                                    *)
Differs == \E i \in 1 .. Len(Preface) : i <= Len(typed) /\ typed[i] # Preface[i]

(* A decision cannot turn out wrong, whatever the client goes on to send.   *)
Decided ==
    /\ protocol = "unknown" => Len(seen) <= Len(Preface)
    /\ protocol = "h2" =>
           Len(Preface) <= Len(typed) /\ \A i \in 1 .. Len(Preface) : typed[i] = Preface[i]
    /\ protocol = "h1" => Differs \/ (hungUp /\ Len(typed) < Len(Preface))

(* The task sleeps only if it has read all there is, and needs more.        *)
SleepsRightly ==
    protocol = "unknown" /\ woken = None =>
        /\ Len(typed) = Len(seen)
        /\ \A i \in 1 .. Len(typed) : typed[i] = Preface[i]

(* It sleeps no longer than its timer, and is polled within Delay then.     *)
SniffTimely ==
    protocol = "unknown" =>
        /\ woken # None => woken <= now /\ now <= woken + Delay
        /\ sniffTimer # None =>
               IF woken = None THEN now < sniffTimer ELSE woken <= sniffTimer

SniffInv == SniffType /\ SeenIsTyped /\ SeenIsKept /\ Decided /\ SleepsRightly /\ SniffTimely

(* Before the first byte nothing is read and nothing decided.               *)
LEMMA SniffStarts == SniffInit => SniffInv
<1> SUFFICES ASSUME SniffInit
             PROVE  SniffInv
  OBVIOUS
<1>1. <<>> \in Seq(Symbols) /\ Len(<<>>) = 0 /\ Len(Preface) \in Nat
  BY EmptySeq, LenProperties, PrefaceAssumption
<1> QED
  BY <1>1, PrefaceAssumption, TimeAssumption, NoneAssumption
     DEF SniffInit, TimedInit, SniffInv, SniffType, SeenIsTyped, SeenIsKept, Decided,
         SleepsRightly, SniffTimely

(* What is unread follows what was read.                                    *)
LEMMA UnreadFollows ==
    ASSUME SniffType, SeenIsTyped
    PROVE  /\ Len(seen) \in Nat /\ Len(typed) \in Nat
           /\ Unread \in Seq(Symbols)
           /\ Len(Unread) = Len(typed) - Len(seen)
           /\ \A i \in 1 .. Len(Unread) : Unread[i] = typed[Len(seen) + i]
           /\ seen \o Unread = typed
<1>1. Len(seen) \in Nat /\ Len(typed) \in Nat
  BY LenProperties DEF SniffType
<1>2. /\ SubSeq(typed, 1, Len(seen)) \in Seq(Symbols)
      /\ Len(SubSeq(typed, 1, Len(seen))) = Len(seen)
      /\ \A i \in 1 .. Len(seen) : SubSeq(typed, 1, Len(seen))[i] = typed[i]
      /\ Unread \in Seq(Symbols)
      /\ Len(Unread) = Len(typed) - Len(seen)
      /\ \A i \in 1 .. Len(typed) - Len(seen) : Unread[i] = typed[Len(seen) + i]
      /\ SubSeq(typed, 1, Len(seen)) \o Unread = typed
  BY <1>1, CutInTwo DEF SniffType, SeenIsTyped, Unread
<1>3. seen = SubSeq(typed, 1, Len(seen))
  BY <1>2, SeqEqual DEF SniffType, SeenIsTyped
<1> QED
  BY <1>1, <1>2, <1>3

(* Reading on, however many bytes of what is unread.                        *)
LEMMA ReadFurther ==
    ASSUME SniffType, SeenIsTyped, NEW n \in Nat, n <= Len(Unread)
    PROVE  LET further == seen \o SubSeq(Unread, 1, n)
           IN /\ SubSeq(Unread, 1, n) \in Seq(Symbols)
              /\ further \in Seq(Symbols)
              /\ Len(further) = Len(seen) + n
              /\ Len(further) <= Len(typed)
              /\ \A i \in 1 .. Len(further) : further[i] = typed[i]
<1> DEFINE bytes == SubSeq(Unread, 1, n)
<1>1. /\ bytes \in Seq(Symbols) /\ Len(bytes) = n
      /\ \A i \in 1 .. n : bytes[i] = Unread[i]
  BY UnreadFollows, CutInTwo
<1>2. /\ seen \o bytes \in Seq(Symbols)
      /\ Len(seen \o bytes) = Len(seen) + n
      /\ \A i \in 1 .. Len(seen) + n :
             (seen \o bytes)[i] = IF i <= Len(seen) THEN seen[i] ELSE bytes[i - Len(seen)]
  BY <1>1, ConcatProperties DEF SniffType
<1>3. ASSUME NEW i \in 1 .. Len(seen) + n
      PROVE  (seen \o bytes)[i] = typed[i]
  <2>1. CASE i <= Len(seen)
    BY <1>2, <2>1, UnreadFollows DEF SeenIsTyped
  <2>2. CASE ~(i <= Len(seen))
    <3>1. i - Len(seen) \in 1 .. n /\ Len(seen) + (i - Len(seen)) = i
      BY <2>2, UnreadFollows
    <3>2. bytes[i - Len(seen)] = typed[Len(seen) + (i - Len(seen))]
      BY <1>1, <3>1, UnreadFollows
    <3> QED
      BY <1>2, <2>2, <3>1, <3>2
  <2> QED
    BY <2>1, <2>2
<1> HIDE DEF bytes
<1>4. Len(seen) + n <= Len(typed)
  BY UnreadFollows
<1> QED
  BY <1>1, <1>2, <1>3, <1>4 DEF bytes

-----------------------------------------------------------------------------
(* The steps of the client and of the server's signal.                      *)

(* A byte more: it rules nothing in or out that was decided.                *)
LEMMA TypeStep ==
    ASSUME SniffInv, NEW b \in Symbols, Type(b)
    PROVE  SniffInv'
<1> USE DEF SniffInv
<1>1. /\ Len(typed) \in Nat /\ Len(seen) \in Nat
      /\ typed' \in Seq(Symbols) /\ Len(typed') = Len(typed) + 1
      /\ \A i \in 1 .. Len(typed) : typed'[i] = typed[i]
  BY AppendProperties, LenProperties DEF Type, SniffType
<1>2. UNCHANGED <<now, hungUp, seen, protocol, sniffTimer, prefix, delivered>> /\ ~hungUp
  BY DEF Type
<1>3. woken' # None /\ woken' = IF woken = None THEN now ELSE woken
  BY NoneAssumption DEF Type, Wake, SniffType
<1>4. SniffType'
  BY <1>1, <1>2, <1>3 DEF SniffType
<1>5. SeenIsTyped'
  BY <1>1, <1>2 DEF SeenIsTyped
<1>6. SeenIsKept'
  BY <1>2 DEF SeenIsKept
<1>7. Decided'
  <2>1. Len(Preface) \in Nat
    BY LenProperties, PrefaceAssumption
  <2> QED
    BY <1>1, <1>2, <2>1 DEF Decided, Differs
<1>8. SleepsRightly' /\ SniffTimely'
  BY <1>2, <1>3, TimeAssumption DEF SleepsRightly, SniffTimely, SniffType
<1> QED
  BY <1>4, <1>5, <1>6, <1>7, <1>8

(* The client sends no more, or the server is asked to stop.                *)
LEMMA WakeStep ==
    ASSUME SniffInv, HangUp \/ StopServer
    PROVE  SniffInv'
<1>1. /\ UNCHANGED <<now, typed, seen, protocol, sniffTimer, prefix, delivered>>
      /\ hungUp => hungUp'
      /\ woken' = IF woken = None THEN now ELSE woken
  BY DEF HangUp, StopServer, Wake
<1>2. woken' # None
  BY <1>1, NoneAssumption DEF SniffInv, SniffType
<1> QED
  BY <1>1, <1>2, TimeAssumption
     DEF SniffInv, SniffType, SeenIsTyped, SeenIsKept, Decided, Differs, SleepsRightly,
         SniffTimely

-----------------------------------------------------------------------------
(* The steps of detect_h2.                                                  *)

(* Reading goes no further than the preface.                                *)
LEMMA ReadStep ==
    ASSUME SniffInv, ReadMore
    PROVE  SniffInv'
<1> USE DEF SniffInv
<1>1. PICK n \in 1 .. Want : n <= Len(Unread) /\ seen' = seen \o SubSeq(Unread, 1, n)
  BY DEF ReadMore
<1>2. Len(Preface) \in Nat /\ Len(seen) \in Nat
  BY LenProperties, PrefaceAssumption DEF SniffType
<1>3. n \in Nat /\ Len(seen) + n <= Len(Preface)
  BY <1>1, <1>2 DEF Want
<1>4. /\ seen' \in Seq(Symbols)
      /\ Len(seen') = Len(seen) + n
      /\ Len(seen') <= Len(typed)
      /\ \A i \in 1 .. Len(seen') : seen'[i] = typed[i]
  BY <1>1, <1>3, ReadFurther
<1>5. /\ UNCHANGED <<now, woken, typed, hungUp, protocol, sniffTimer, prefix, delivered>>
      /\ protocol = "unknown" /\ woken # None
  BY DEF ReadMore, Detecting, timeVars
<1>6. SniffType' /\ SeenIsTyped' /\ SeenIsKept'
  BY <1>4, <1>5 DEF SniffType, SeenIsTyped, SeenIsKept
<1>7. Decided'
  BY <1>3, <1>4, <1>5 DEF Decided
<1>8. SleepsRightly' /\ SniffTimely'
  BY <1>5 DEF SleepsRightly, SniffTimely
<1> QED
  BY <1>6, <1>7, <1>8

(* What decides: the preface is there, or some byte is not its, or no more  *)
(* bytes come.                                                              *)
LEMMA DecideStep ==
    ASSUME SniffInv, Decide
    PROVE  SniffInv'
<1> USE DEF SniffInv
<1>1. /\ UNCHANGED <<now, woken, typed, hungUp, seen, sniffTimer, delivered>>
      /\ protocol = "unknown" /\ prefix' = seen
      /\ protocol' = IF seen = Preface THEN "h2" ELSE "h1"
  BY DEF Decide, Detecting, timeVars
<1>2. /\ Preface \in Seq(Symbols) /\ seen \in Seq(Symbols) /\ typed \in Seq(Symbols)
      /\ Len(Preface) \in Nat /\ Len(seen) \in Nat /\ Len(typed) \in Nat
  BY LenProperties, PrefaceAssumption DEF SniffType
<1>3. SniffType' /\ SeenIsTyped'
  BY <1>1 DEF SniffType, SeenIsTyped
<1>4. SeenIsKept'
  <2>1. <<>> \o seen = seen
    BY <1>2, ConcatEmptySeq
  <2> QED
    BY <1>1, <2>1 DEF SeenIsKept
<1>5. Decided'
  <2>1. CASE seen = Preface
    BY <1>1, <2>1 DEF Decided, SeenIsTyped
  <2>2. CASE seen # Preface /\ StartsWith(Preface, seen)
    <3>1. hungUp /\ Unread = <<>>
      BY <2>2 DEF Decide, Undecided
    <3>2. Len(typed) = Len(seen)
      BY <1>2, <3>1, UnreadFollows, EmptySeq
    <3>3. Len(seen) # Len(Preface)
      BY <1>2, <2>2, StartsBytewise, SeqEqual
    <3>4. Len(typed) < Len(Preface)
      BY <1>1, <1>2, <3>2, <3>3 DEF Decided
    <3> QED
      BY <1>1, <2>2, <3>1, <3>4 DEF Decided
  <2>3. CASE seen # Preface /\ ~StartsWith(Preface, seen)
    <3>1. Len(seen) <= Len(Preface)
      BY <1>1 DEF Decided
    <3>2. PICK i \in 1 .. Len(seen) : Preface[i] # seen[i]
      BY <1>2, <2>3, <3>1, StartsBytewise
    <3>3. i \in 1 .. Len(Preface) /\ i <= Len(typed) /\ typed[i] # Preface[i]
      BY <1>2, <3>1, <3>2 DEF SeenIsTyped
    <3>4. Differs
      BY <3>3 DEF Differs
    <3> QED
      BY <1>1, <2>3, <3>4 DEF Decided, Differs
  <2> QED
    BY <2>1, <2>2, <2>3
<1>6. SleepsRightly' /\ SniffTimely'
  BY <1>1 DEF SleepsRightly, SniffTimely
<1> QED
  BY <1>3, <1>4, <1>5, <1>6

(* The task sleeps, is dropped, or starts its timer.                        *)
LEMMA WaitStep ==
    ASSUME SniffInv, StartSniffing \/ DropStopped \/ DropSilent \/ AwaitByte
    PROVE  SniffInv'
<1> USE DEF SniffInv
<1>1. CASE StartSniffing
  BY <1>1, PrefaceAssumption, NoneAssumption
     DEF StartSniffing, Detecting, timeVars, SniffType, SeenIsTyped, SeenIsKept, Decided,
         Differs, SleepsRightly, SniffTimely
<1>2. CASE DropStopped \/ DropSilent
  <2>1. /\ UNCHANGED <<now, woken, typed, hungUp, seen, sniffTimer, prefix, delivered>>
        /\ protocol = "unknown" /\ protocol' = "dropped"
    BY <1>2 DEF DropStopped, DropSilent, Nothing, Detecting, timeVars
  <2> QED
    BY <2>1 DEF SniffType, SeenIsTyped, SeenIsKept, Decided, SleepsRightly, SniffTimely
<1>3. CASE AwaitByte
  <2>1. /\ UNCHANGED <<now, typed, hungUp, seen, protocol, sniffTimer, prefix, delivered>>
        /\ woken' = None /\ protocol = "unknown" /\ sniffTimer # None /\ now < sniffTimer
        /\ StartsWith(Preface, seen) /\ Unread = <<>>
    BY <1>3 DEF AwaitByte, Nothing, Detecting, Undecided, sniffedVars
  <2>2. Len(typed) = Len(seen)
    BY <2>1, UnreadFollows, EmptySeq
  <2>3. \A i \in 1 .. Len(seen) : seen[i] = Preface[i]
    BY <2>1, StartsBytewise, PrefaceAssumption DEF SniffType
  <2>4. SleepsRightly'
    BY <2>1, <2>2, <2>3 DEF SleepsRightly, SeenIsTyped
  <2> QED
    BY <2>1, <2>4 DEF SniffType, SeenIsTyped, SeenIsKept, Decided, Differs, SniffTimely
<1> QED
  BY <1>1, <1>2, <1>3

(* Time passes; a timer that is due wakes the task.                         *)
LEMMA SniffTickStep ==
    ASSUME SniffInv, SniffTick
    PROVE  SniffInv'
<1>1. /\ UNCHANGED <<typed, hungUp, seen, protocol, sniffTimer, prefix, delivered>>
      /\ now' = now + 1 /\ (woken # None => now - woken < Delay)
      /\ woken' = IF woken = None /\ sniffTimer # None /\ now' >= sniffTimer
                  THEN now' ELSE woken
      /\ protocol = "unknown"
  BY DEF SniffTick, TickWith, sniffedVars
<1>2. SniffType' /\ SeenIsTyped' /\ SeenIsKept' /\ Decided'
  BY <1>1 DEF SniffInv, SniffType, SeenIsTyped, SeenIsKept, Decided, Differs
<1>3. SleepsRightly'
  BY <1>1 DEF SniffInv, SleepsRightly
<1>4. SniffTimely'
  BY <1>1, TimeAssumption, NoneAssumption DEF SniffInv, SniffType, SniffTimely
<1> QED
  BY <1>2, <1>3, <1>4 DEF SniffInv

-----------------------------------------------------------------------------
(* The steps of Rewind.                                                     *)

(* What was read is handed on in pieces, in its order.                      *)
LEMMA ReplayStep ==
    ASSUME SniffInv, NEW n \in 1 .. MaxTyped, Replay(n)
    PROVE  SniffInv'
<1> USE DEF SniffInv
<1> DEFINE count == Smaller(n, Len(prefix))
<1>1. /\ UNCHANGED <<now, woken, typed, hungUp, seen, protocol, sniffTimer>>
      /\ protocol \in {"h1", "h2"}
      /\ delivered' = delivered \o SubSeq(prefix, 1, count)
      /\ prefix' = SubSeq(prefix, count + 1, Len(prefix))
  BY DEF Replay, Rest, timeVars
<1>2. Len(prefix) \in Nat /\ n \in Nat
  BY LenProperties, PrefaceAssumption DEF SniffType
<1>3. count \in Nat /\ count <= Len(prefix)
  BY <1>2 DEF Smaller
<1> HIDE DEF count
<1>4. /\ SubSeq(prefix, 1, count) \in Seq(Symbols) /\ prefix' \in Seq(Symbols)
      /\ SubSeq(prefix, 1, count) \o prefix' = prefix
  BY <1>1, <1>3, CutInTwo DEF SniffType
<1>5. delivered' \in Seq(Symbols)
  BY <1>1, <1>4, ConcatProperties DEF SniffType
<1>6. delivered' \o prefix' = seen
  <2> DEFINE piece == SubSeq(prefix, 1, count)
             left  == prefix'
  <2>1. delivered \in Seq(Symbols) /\ piece \in Seq(Symbols) /\ left \in Seq(Symbols)
    BY <1>4 DEF SniffType
  <2>2. delivered' = delivered \o piece /\ piece \o left = prefix
    BY <1>1, <1>4
  <2>3. delivered \o prefix = seen
    BY <1>1 DEF SeenIsKept
  <2> HIDE DEF piece, left
  <2>4. (delivered \o piece) \o left = delivered \o (piece \o left)
    BY <2>1, ConcatAssociative
  <2>5. delivered' \o left = seen
    BY <2>2, <2>3, <2>4
  <2> QED
    BY <2>5 DEF left
<1> QED
  BY <1>1, <1>4, <1>5, <1>6
     DEF SniffType, SeenIsTyped, SeenIsKept, Decided, Differs, SleepsRightly, SniffTimely

(* Then the socket is read on.                                              *)
LEMMA ReadOnStep ==
    ASSUME SniffInv, NEW n \in 1 .. MaxTyped, ReadOn(n)
    PROVE  SniffInv'
<1> USE DEF SniffInv
<1> DEFINE count == Smaller(n, Len(Unread))
           bytes == SubSeq(Unread, 1, count)
<1>1. /\ UNCHANGED <<now, woken, typed, hungUp, protocol, sniffTimer, prefix>>
      /\ protocol \in {"h1", "h2"} /\ prefix = <<>>
      /\ delivered' = delivered \o bytes
      /\ seen' = seen \o bytes
  BY DEF ReadOn, timeVars
<1>2. Len(Unread) \in Nat /\ n \in Nat
  BY UnreadFollows, LenProperties, PrefaceAssumption
<1>3. count \in Nat /\ count <= Len(Unread)
  BY <1>2 DEF Smaller
<1> HIDE DEF count
<1>4. /\ bytes \in Seq(Symbols)
      /\ seen' \in Seq(Symbols)
      /\ Len(seen') <= Len(typed)
      /\ \A i \in 1 .. Len(seen') : seen'[i] = typed[i]
  BY <1>1, <1>3, ReadFurther
<1>5. delivered = seen
  BY <1>1, ConcatEmptySeq DEF SniffType, SeenIsKept
<1>6. delivered' \in Seq(Symbols) /\ delivered' \o prefix' = seen'
  BY <1>1, <1>4, <1>5, ConcatEmptySeq
<1> QED
  BY <1>1, <1>4, <1>6
     DEF SniffType, SeenIsTyped, SeenIsKept, Decided, Differs, SleepsRightly, SniffTimely

-----------------------------------------------------------------------------
(* Every step keeps the invariant.                                          *)
LEMMA SniffGoesOn == SniffInv /\ [SniffNext]_sniffVars => SniffInv'
<1> SUFFICES ASSUME SniffInv, [SniffNext]_sniffVars
             PROVE  SniffInv'
  OBVIOUS
<1>1. CASE UNCHANGED sniffVars
  BY <1>1 DEF sniffVars, timeVars, sniffedVars, SniffInv, SniffType, SeenIsTyped, SeenIsKept,
              Decided, Differs, SleepsRightly, SniffTimely
<1>2. CASE SniffNext
  BY <1>2, TypeStep, WakeStep, ReadStep, DecideStep, WaitStep, SniffTickStep, ReplayStep,
     ReadOnStep DEF SniffNext
<1> QED
  BY <1>1, <1>2

(* Whatever the client sends, in pieces of any size, and whenever it stops: *)
(* the protocol that detect_h2 finds is the one of all the bytes it will    *)
(* ever send, Rewind gives it each of them once and in order, and detection *)
(* ends as soon as they rule the preface out, or with its time.             *)
THEOREM ProtocolDetected == SniffSpec => []SniffExact
<1>1. SniffInv => SniffExact
  <2> SUFFICES ASSUME SniffInv
               PROVE  SniffExact
    OBVIOUS
  <2> USE DEF SniffInv
  <2>1. /\ Preface \in Seq(Symbols) /\ typed \in Seq(Symbols)
        /\ Len(Preface) \in Nat /\ Len(typed) \in Nat /\ Len(seen) \in Nat
    BY LenProperties, PrefaceAssumption DEF SniffType
  <2>2. ASSUME protocol \in {"h1", "h2"}
        PROVE  delivered \o prefix \o Unread = typed
    BY <2>2, UnreadFollows DEF SeenIsKept
  <2>3. ASSUME protocol \in {"h1", "h2"}
        PROVE  protocol = "h2" <=> StartsWith(typed, Preface)
    BY <2>1, <2>3, StartsBytewise DEF Decided, Differs
  <2>4. ASSUME protocol = "unknown", woken = None
        PROVE  Unread = <<>> /\ StartsWith(Preface, typed)
    <3>1. Len(typed) = Len(seen) /\ \A i \in 1 .. Len(typed) : typed[i] = Preface[i]
      BY <2>4 DEF SleepsRightly
    <3>2. Len(Unread) = 0 /\ Unread \in Seq(Symbols)
      BY <2>1, <3>1, UnreadFollows
    <3>3. Len(typed) <= Len(Preface)
      BY <2>4, <3>1 DEF Decided
    <3> QED
      BY <2>1, <3>1, <3>2, <3>3, StartsBytewise, EmptySeq
  <2>5. ASSUME protocol = "unknown", sniffTimer # None
        PROVE  now <= sniffTimer + Delay
    BY <2>5, TimeAssumption, NoneAssumption DEF SniffTimely, SniffType
  <2> QED
    BY <2>2, <2>3, <2>4, <2>5 DEF SniffExact
<1> QED
  BY <1>1, SniffStarts, SniffGoesOn, PTL DEF SniffSpec
-----------------------------------------------------------------------------
(* What a connection writes: frames are sequences of bytes.                 *)

Written == Seq([value : Nat, response : BOOLEAN])

(* A pair is a sequence.                                                    *)
LEMMA PairSeq ==
    ASSUME NEW S, NEW a \in S, NEW b \in S
    PROVE  <<a, b>> \in Seq(S) /\ Len(<<a, b>>) = 2 /\ <<a, b>>[1] = a /\ <<a, b>>[2] = b
OBVIOUS

(* A frame: its header, then bytes of its payload that are response data or *)
(* not together.                                                            *)
LEMMA FrameWritten ==
    ASSUME NEW kind \in Kinds, NEW size \in Nat
    PROVE  /\ Frame(kind, size) \in Written
           /\ Len(Frame(kind, size)) = size + 2
           /\ Frame(kind, size)[1] = Byte(size, FALSE)
           /\ Frame(kind, size)[2] = Byte(kind, kind = 1)
           /\ \A i \in 3 .. size + 2 :
                  \E v : Frame(kind, size)[i] = Byte(v, CarriesResponse(kind))
<1> DEFINE B == [value : Nat, response : BOOLEAN]
           head == <<Byte(size, FALSE), Byte(kind, kind = 1)>>
           tail == [i \in 1 .. size |-> Byte(IF i = 1 THEN 0 ELSE 1, CarriesResponse(kind))]
<1>1. kind \in Nat
  BY DEF Kinds
<1>2. \A v \in Nat : \A r \in BOOLEAN : Byte(v, r) \in B
  BY DEF Byte
<1>3. CarriesResponse(kind) \in BOOLEAN
  BY DEF CarriesResponse
<1>4. head \in Seq(B) /\ Len(head) = 2
  <2>1. Byte(size, FALSE) \in B /\ Byte(kind, kind = 1) \in B
    BY <1>1, <1>2
  <2> HIDE DEF B
  <2> QED
    BY <2>1, PairSeq
<1>5. tail \in Seq(B) /\ Len(tail) = size
  <2>1. \A i \in 1 .. size :
            Byte(IF i = 1 THEN 0 ELSE 1, CarriesResponse(kind)) \in B
    BY <1>2, <1>3
  <2>2. tail \in [1 .. size -> B]
    <3> HIDE DEF B
    <3> QED
      BY <2>1
  <2>3. tail \in Seq(B)
    <3> HIDE DEF B, tail
    <3> QED
      BY <2>2, SeqDef
  <2>4. Len(tail) = size
    <3> HIDE DEF B
    <3> QED
      BY <2>2, <2>3, LenProperties
  <2> QED
    BY <2>3, <2>4
<1>6. Frame(kind, size) = head \o tail
  BY DEF Frame
<1>7. \A i \in 1 .. size : tail[i] = Byte(IF i = 1 THEN 0 ELSE 1, CarriesResponse(kind))
  OBVIOUS
<1>8. head[1] = Byte(size, FALSE) /\ head[2] = Byte(kind, kind = 1)
  OBVIOUS
<1> HIDE DEF B, head, tail
<1>9. /\ head \o tail \in Seq(B) /\ Len(head \o tail) = Len(head) + Len(tail)
      /\ \A i \in 1 .. Len(head) + Len(tail) :
          (head \o tail)[i] = IF i <= Len(head) THEN head[i] ELSE tail[i - Len(head)]
  BY <1>4, <1>5, ConcatProperties
<1>10. /\ Len(head \o tail) = size + 2
       /\ \A i \in 1 .. size + 2 :
          (head \o tail)[i] = IF i <= 2 THEN head[i] ELSE tail[i - 2]
  BY <1>4, <1>5, <1>9
<1>11. Frame(kind, size) \in Written
  BY <1>6, <1>9 DEF Written, B
<1> QED
  <2>1. ASSUME NEW i \in 1 .. size + 2, i > 2
        PROVE  Frame(kind, size)[i] = Byte(IF i = 3 THEN 0 ELSE 1, CarriesResponse(kind))
    <3>1. i - 2 \in 1 .. size /\ (i - 2 = 1 <=> i = 3)
      BY <2>1
    <3> QED
      BY <1>6, <1>7, <1>10, <2>1, <3>1
  <2>2. Frame(kind, size)[1] = Byte(size, FALSE) /\ Frame(kind, size)[2] = Byte(kind, kind = 1)
    <3>1. 1 \in 1 .. size + 2 /\ 2 \in 1 .. size + 2
      OBVIOUS
    <3>2. (head \o tail)[1] = head[1] /\ (head \o tail)[2] = head[2]
      BY <1>10, <3>1
    <3> QED
      BY <1>6, <1>8, <3>2, Zenon
  <2>3. Len(Frame(kind, size)) = size + 2
    BY <1>6, <1>10
  <2>4. \A i \in 3 .. size + 2 : \E v : Frame(kind, size)[i] = Byte(v, CarriesResponse(kind))
    <3>1. \A i \in 3 .. size + 2 : i \in 1 .. size + 2 /\ i > 2
      OBVIOUS
    <3> QED
      BY <2>1, <3>1
  <2> QED
    BY <1>11, <2>2, <2>3, <2>4

-----------------------------------------------------------------------------
(* What a connection writes: the stall clock.                               *)

SendType ==
    /\ out \in Written
    /\ unsent \in BOOLEAN
    /\ now \in Nat
    /\ woken \in Nat \union {None}
    /\ tls \in BOOLEAN
    /\ room \in Nat
    /\ held \in 0 .. HoldLimit
    /\ taken \in Nat
    /\ stall \in Nat \union {None}
    /\ since \in Nat \union {None}
    /\ sending \in {"open", "stalled", "failed"}

(* The clock runs while the socket refuses, from when it refused first, and *)
(* is looked at by the task within Delay of running out.                    *)
StallTimely ==
    /\ woken # None => woken <= now /\ now <= woken + Delay
    /\ since # None => since <= now
    /\ sending = "open" =>
           /\ stall # None <=> since # None
           /\ stall # None => stall = since + SendTimeout
           /\ stall # None => out # <<>> \/ unsent
           /\ stall # None /\ woken # None => woken <= stall
           /\ stall # None /\ woken = None => now < stall
    /\ sending = "stalled" => since # None /\ now - since >= SendTimeout

(* What the socket took while the clock runs was held by TLS when it was    *)
(* armed, and not all of it.                                                *)
Trickles ==
    /\ ~tls => held = 0 /\ taken = 0
    /\ since = None => taken = 0
    /\ since # None /\ tls => held >= 1 /\ taken + held <= HoldLimit

StallInv == SendType /\ StallTimely /\ Trickles

(* A new connection has refused nothing.                                    *)
LEMMA SendStarts == SendInit => StallInv
<1>1. <<>> \in Written
  BY EmptySeq DEF Written
<1> SUFFICES ASSUME SendInit
             PROVE  StallInv
  OBVIOUS
<1>2. /\ out = <<>> /\ unsent = FALSE /\ tls \in BOOLEAN /\ room = MaxRoom
      /\ held = 0 /\ taken = 0
      /\ stall = None /\ sending = "open" /\ since = None /\ now = 0 /\ woken = 0
  BY DEF SendInit, TimedInit
<1>3. SendType
  <2>1. MaxRoom \in Nat /\ 0 \in 0 .. HoldLimit
    BY SendAssumption
  <2> QED
    BY <1>1, <1>2, <2>1 DEF SendType
<1>4. StallTimely
  BY <1>2, TimeAssumption, NoneAssumption DEF StallTimely
<1>5. Trickles
  BY <1>2 DEF Trickles
<1> QED
  BY <1>3, <1>4, <1>5 DEF StallInv

(* Writes, refusals, flushes, wake-ups and time keep the stall clock.       *)
LEMMA StallGoesOn ==
    ASSUME StallInv, [SendNext]_sendVars
    PROVE  StallInv'
<1> USE TimeAssumption, NoneAssumption, SendAssumption DEF StallInv, SendType, StallTimely, Trickles
<1>1. CASE ClientReads
  BY <1>1 DEF ClientReads, Wake
<1>2. CASE SocketFails
  BY <1>2 DEF SocketFails, timeVars
<1>3. ASSUME NEW kind \in Kinds, NEW size \in 0 .. MaxPayload, Encode(kind, size)
      PROVE  StallInv'
  <2>1. /\ UNCHANGED <<now, tls, held, room, unsent, stall, sending, since, taken>>
        /\ woken' = IF woken = None THEN now ELSE woken
        /\ out' = out \o Frame(kind, size)
    BY <1>3 DEF Encode, Wake
  <2>2. size \in Nat
    BY SendAssumption
  <2>3. Frame(kind, size) \in Written /\ Len(Frame(kind, size)) = size + 2
    BY <2>2, FrameWritten
  <2>4. out' \in Written /\ Len(out') = Len(out) + Len(Frame(kind, size))
    BY <2>1, <2>3, ConcatProperties DEF Written
  <2>5. out' # <<>>
    <3>1. Len(out) \in Nat
      BY LenProperties DEF Written
    <3>2. Len(out') # 0
      BY <2>2, <2>3, <2>4, <3>1
    <3> QED
      BY <3>2, EmptySeq
  <2> QED
    BY <2>1, <2>4, <2>5
<1>4. ASSUME NEW n \in 1 .. Space, NEW cut \in 0 .. n - 1, WriteBytes(n, cut)
      PROVE  StallInv'
  <2>1. /\ sending = "open" /\ n <= Space
        /\ stall' = None /\ since' = None /\ taken' = 0
        /\ unsent' = TRUE /\ out' = SubSeq(out, n + 1, Len(out)) /\ n <= Len(out)
        /\ UNCHANGED <<now, woken, tls, sending>>
    BY <1>4 DEF WriteBytes, Writing, timeVars
  <2>2. Space \in Nat
    BY DEF Space
  <2>3. n \in Nat
    BY <2>2
  <2>4. out' \in Written
    BY <2>1, <2>3, CutInTwo DEF Written
  <2>5. room' = room - PassedOn(n) /\ held' = held + n - PassedOn(n)
    BY <1>4 DEF WriteBytes
  <2>6. room' \in Nat /\ held' \in 0 .. HoldLimit /\ (~tls => held' = 0)
    BY <2>1, <2>3, <2>5 DEF PassedOn, Space
  <2> QED
    BY <2>1, <2>4, <2>6
<1>5. CASE RefusedBySocket
  <2>1. /\ sending = "open" /\ woken # None
        /\ since' = IF since = None THEN now ELSE since
        /\ stall' = IF stall = None THEN now + SendTimeout ELSE stall
        /\ out # <<>> \/ unsent
        /\ UNCHANGED <<now, tls, out, unsent>>
    BY <1>5 DEF RefusedBySocket, Refuses, Writing, Flushing, Armed
  <2>5. Space = 0 \/ room < held
    BY <1>5 DEF RefusedBySocket, Refuses
  <2>6. room' = 0 /\ held' = held - room /\ taken' = taken + room
    BY <1>5 DEF RefusedBySocket
  <2>7. tls => room < held
    BY <2>5 DEF Space
  <2>8. ~tls => room = 0
    BY <2>5 DEF Space
  <2>9. held' \in 0 .. HoldLimit /\ taken' \in Nat /\ room' \in Nat
    BY <2>6, <2>7, <2>8
  <2>10. Trickles'
    BY <2>1, <2>6, <2>7, <2>8
  <2>2. stall' = since' + SendTimeout /\ stall' \in Nat /\ since' \in Nat /\ since' <= now
    BY <2>1
  <2>3. CASE now >= stall'
    <3>1. sending' = "stalled" /\ woken' = woken
      BY <1>5, <2>3 DEF RefusedBySocket
    <3>2. now - since' >= SendTimeout
      BY <2>2, <2>3
    <3> QED
      <4>1. SendType'
        BY <2>1, <2>2, <2>9, <3>1
      <4>2. StallTimely'
        BY <2>1, <2>2, <3>1, <3>2
      <4> QED
        BY <2>10, <4>1, <4>2 DEF StallInv
  <2>4. CASE ~(now >= stall')
    <3>1. sending' = "open" /\ woken' = None
      BY <1>5, <2>1, <2>4 DEF RefusedBySocket
    <3> QED
      <4>1. SendType'
        BY <2>1, <2>2, <2>9, <3>1
      <4>2. StallTimely'
        BY <2>1, <2>2, <2>4, <3>1
      <4> QED
        BY <2>10, <4>1, <4>2 DEF StallInv
  <2> QED
    BY <2>3, <2>4
<1>6. CASE Flushed
  <2>1. /\ sending = "open" /\ since' = None /\ stall' = None /\ woken' = None
        /\ unsent' = FALSE /\ held' = 0 /\ taken' = 0
        /\ UNCHANGED <<now, tls, sending, out>>
    BY <1>6 DEF Flushed, Flushing
  <2>2. room' \in Nat
    BY <1>6 DEF Flushed
  <2>3. 0 \in 0 .. HoldLimit
    OBVIOUS
  <2>4. SendType'
    BY <2>1, <2>2, <2>3
  <2>5. StallTimely' /\ Trickles'
    BY <2>1
  <2> QED
    BY <2>4, <2>5 DEF StallInv
<1>7. CASE NothingToSend
  BY <1>7 DEF NothingToSend, outVars
<1>8. CASE SendTick
  BY <1>8 DEF SendTick, TickWith, outVars
<1>9. CASE UNCHANGED sendVars
  BY <1>9 DEF sendVars, timeVars, outVars
<1> QED
  BY <1>1, <1>2, <1>3, <1>4, <1>5, <1>6, <1>7, <1>8, <1>9 DEF SendNext

(* Tracked::stalled: a connection is dropped only when for the whole of     *)
(* send_timeout no write was accepted and no flush completed, with nothing  *)
(* taken by the socket or less than what TLS buffers, and then soon, for    *)
(* any limit, buffer and delay and whatever is written, refused and flushed *)
(* in between.                                                              *)
THEOREM StallsExact == SendSpec => []StallExact
<1>1. StallInv => StallExact
  BY TimeAssumption, NoneAssumption, SendAssumption
     DEF StallInv, SendType, StallTimely, Trickles, StallExact
<1> QED
  BY <1>1, SendStarts, StallGoesOn, PTL DEF SendSpec

-----------------------------------------------------------------------------
(* What a connection writes: the scanner.  It follows the frames byte by    *)
(* byte, whatever they are cut into, so the bytes still to be written bring *)
(* it from the state it is in to the end of a frame.                        *)

ScanState == [header : {<<>>} \union {<<v>> : v \in Nat}, left : Nat, carries : BOOLEAN]

(* One byte without the progress, and whether it is progress.               *)
ScanStep(s, b) ==
    IF s.left > 0 THEN [header |-> s.header, left |-> s.left - 1, carries |-> s.carries]
    ELSE IF s.header = <<>>
    THEN [header |-> <<b.value>>, left |-> s.left, carries |-> s.carries]
    ELSE [header |-> <<>>, left |-> s.header[1], carries |-> CarriesResponse(b.value)]

Marks(s, b) == IF s.left > 0 THEN s.carries ELSE s.header # <<>> /\ b.value = 1

With(s, p) == [header |-> s.header, left |-> s.left, carries |-> s.carries, progress |-> p]

(* The states the scanner passes through on the bytes: it calls progress    *)
(* those that are response data.                                            *)
Parsed(parse, data) ==
    /\ parse \in [0 .. Len(data) -> ScanState]
    /\ \A i \in 1 .. Len(data) : /\ parse[i] = ScanStep(parse[i - 1], data[i])
                                 /\ data[i].response = Marks(parse[i - 1], data[i])

BetweenFrames(s) == s.header = <<>> /\ s.left = 0

ScanInv ==
    /\ out \in Written
    /\ \E parse : /\ Parsed(parse, out)
                  /\ parse[0] = scanner
                  /\ BetweenFrames(parse[Len(out)])
    /\ touched = due

(* A byte fed to the scanner.                                               *)
LEMMA FedByte ==
    ASSUME NEW s \in ScanState, NEW p \in BOOLEAN, NEW b
    PROVE  FeedByte(With(s, p), b) = With(ScanStep(s, b), p \/ Marks(s, b))
<1> DEFINE w == With(s, p)
<1>1. /\ w.header = s.header /\ w.left = s.left /\ w.carries = s.carries /\ w.progress = p
      /\ w = [header |-> s.header, left |-> s.left, carries |-> s.carries, progress |-> p]
  BY DEF With
<1>2. s.left \in Nat /\ s.carries \in BOOLEAN
  BY DEF ScanState
<1>3. CASE s.left > 0
  <2>1. FeedByte(w, b) = [w EXCEPT !.left = @ - 1, !.progress = @ \/ w.carries]
    BY <1>1, <1>3 DEF FeedByte
  <2>2. ScanStep(s, b) = [header |-> s.header, left |-> s.left - 1, carries |-> s.carries]
    BY <1>3 DEF ScanStep
  <2>3. Marks(s, b) = s.carries
    BY <1>3 DEF Marks
  <2> HIDE DEF w
  <2>4. FeedByte(w, b) = [header |-> s.header, left |-> s.left - 1, carries |-> s.carries,
                          progress |-> p \/ s.carries]
    BY <1>1, <2>1
  <2> QED
    BY <2>2, <2>3, <2>4 DEF With, w
<1>4. CASE ~(s.left > 0) /\ s.header = <<>>
  <2>1. FeedByte(w, b) = [w EXCEPT !.header = <<b.value>>]
    BY <1>1, <1>4 DEF FeedByte
  <2>2. ScanStep(s, b) = [header |-> <<b.value>>, left |-> s.left, carries |-> s.carries]
    BY <1>4 DEF ScanStep
  <2>3. Marks(s, b) = FALSE
    BY <1>4 DEF Marks
  <2> HIDE DEF w
  <2>4. FeedByte(w, b) = [header |-> <<b.value>>, left |-> s.left, carries |-> s.carries,
                          progress |-> p]
    BY <1>1, <2>1
  <2> QED
    BY <2>2, <2>3, <2>4 DEF With, w
<1>5. CASE ~(s.left > 0) /\ s.header # <<>>
  <2>1. FeedByte(w, b) = [header |-> <<>>, left |-> s.header[1],
                          carries |-> CarriesResponse(b.value),
                          progress |-> p \/ b.value = 1]
    BY <1>1, <1>5 DEF FeedByte
  <2>2. ScanStep(s, b) = [header |-> <<>>, left |-> s.header[1],
                          carries |-> CarriesResponse(b.value)]
    BY <1>5 DEF ScanStep
  <2> DEFINE q == b.value = 1
  <2>3. Marks(s, b) = q
    BY <1>5 DEF Marks
  <2>4. FeedByte(w, b) = With(ScanStep(s, b), p \/ q)
    BY <2>1, <2>2 DEF With
  <2> HIDE DEF w, q
  <2>5. (p \/ Marks(s, b)) = (p \/ q)
    BY <2>3
  <2> QED
    BY <2>4, <2>5 DEF w
<1> QED
  BY <1>3, <1>4, <1>5

(* Bytes fed to the scanner at once: it is in the state it parses them to,  *)
(* and made progress if one of them is response data.                       *)
LEMMA FedWhole ==
    ASSUME NEW data \in Written, NEW parse, Parsed(parse, data)
    PROVE  /\ Scanner(FeedData(parse[0], data)) = parse[Len(data)]
           /\ FeedData(parse[0], data).progress = \E j \in 1 .. Len(data) : data[j].response
<1> DEFINE n == Len(data)
           so(i) == \E j \in 1 .. i : data[j].response
           e(f) == [i \in 0 .. n |-> IF i = 0 THEN Fresh(parse[0])
                                     ELSE FeedByte(f[i - 1], data[i])]
           g == [i \in 0 .. n |-> With(parse[i], so(i))]
           fed == CHOOSE f : f = e(f)
<1>1. n \in Nat
  BY LenProperties DEF Written
<1>2. \A i \in 0 .. n : parse[i] \in ScanState /\ so(i) \in BOOLEAN
  BY DEF Parsed
<1>3. \A i \in 1 .. n : data[i].response \in BOOLEAN
  <2>1. \A i \in 1 .. n : data[i] \in [value : Nat, response : BOOLEAN]
    BY <1>1, ElementOfSeq DEF Written
  <2> QED
    BY <2>1
<1>4. Fresh(parse[0]) = With(parse[0], so(0))
  <2>1. so(0) = FALSE
    OBVIOUS
  <2> QED
    BY <2>1 DEF Fresh, With
<1>5. ASSUME NEW i \in 1 .. n
      PROVE  FeedByte(With(parse[i - 1], so(i - 1)), data[i]) = With(parse[i], so(i))
  <2>1. i - 1 \in 0 .. n
    BY <1>1
  <2>2. parse[i] = ScanStep(parse[i - 1], data[i])
    BY DEF Parsed
  <2>3. data[i].response = Marks(parse[i - 1], data[i])
    BY DEF Parsed
  <2>4. so(i) = (so(i - 1) \/ data[i].response)
    <3>1. \A j : j \in 1 .. i <=> j \in 1 .. i - 1 \/ j = i
      BY <1>1
    <3> QED
      BY <3>1
  <2>5. FeedByte(With(parse[i - 1], so(i - 1)), data[i])
            = With(ScanStep(parse[i - 1], data[i]), so(i - 1) \/ Marks(parse[i - 1], data[i]))
    <3> HIDE DEF so
    <3> QED
      BY <1>2, <2>1, FedByte
  <2> HIDE DEF so
  <2> QED
    BY <2>2, <2>3, <2>4, <2>5
<1>6. g = e(g)
  <2>1. ASSUME NEW i \in 0 .. n
        PROVE  g[i] = IF i = 0 THEN Fresh(parse[0]) ELSE FeedByte(g[i - 1], data[i])
    <3>1. CASE i = 0
      <4> HIDE DEF so
      <4> QED
        BY <1>4, <3>1
    <3>2. CASE i # 0
      <4>1. i \in 1 .. n /\ i - 1 \in 0 .. n
        BY <1>1, <3>2
      <4> HIDE DEF so
      <4> QED
        BY <1>5, <3>2, <4>1
    <3> QED
      BY <3>1, <3>2
  <2> HIDE DEF so
  <2> QED
    BY <2>1
<1>7. fed = e(fed)
  <2>1. \E f : f = e(f)
    <3> HIDE DEF so
    <3> QED
      BY <1>6
  <2> HIDE DEF e
  <2> QED
    BY <2>1
<1>8. \A i \in 0 .. n : fed[i] = IF i = 0 THEN Fresh(parse[0])
                                 ELSE FeedByte(fed[i - 1], data[i])
  <2> HIDE DEF fed
  <2> QED
    BY <1>7
<1>9. \A i \in 0 .. n : fed[i] = With(parse[i], so(i))
  <2> DEFINE A == {i \in Nat : i <= n => fed[i] = With(parse[i], so(i))}
  <2> HIDE DEF fed, so
  <2>1. 0 \in A
    BY <1>1, <1>4, <1>8
  <2>2. ASSUME NEW i \in Nat, i \in A
        PROVE  i + 1 \in A
    <3>1. ASSUME i + 1 <= n
          PROVE  fed[i + 1] = With(parse[i + 1], so(i + 1))
      <4>1. i + 1 \in 1 .. n /\ i + 1 \in 0 .. n /\ i + 1 # 0 /\ (i + 1) - 1 = i /\ i <= n
        BY <1>1, <3>1
      <4>2. fed[i + 1] = FeedByte(fed[i], data[i + 1])
        BY <1>8, <4>1
      <4>3. fed[i] = With(parse[i], so(i))
        BY <2>2, <4>1
      <4>4. FeedByte(With(parse[i], so(i)), data[i + 1]) = With(parse[i + 1], so(i + 1))
        BY <1>5, <4>1
      <4> QED
        BY <4>2, <4>3, <4>4
    <3> QED
      BY <3>1
  <2> HIDE DEF A
  <2>3. Nat \subseteq A
    BY <2>1, <2>2, NatInSet
  <2> QED
    BY <2>3, <1>1 DEF A
<1>10. FeedData(parse[0], data) = With(parse[n], so(n))
  <2>1. FeedData(parse[0], data) = fed[n]
    BY DEF FeedData, FeedAll
  <2> HIDE DEF fed, so
  <2> QED
    BY <1>1, <1>9, <2>1
<1>11. parse[n] \in ScanState
  BY <1>1, <1>2
<1>12. Scanner(With(parse[n], so(n))) = parse[n] /\ With(parse[n], so(n)).progress = so(n)
  <2> HIDE DEF so, n
  <2> QED
    BY <1>11 DEF Scanner, With, ScanState
<1> QED
  BY <1>10, <1>12

(* What parses as a whole parses in its parts.                              *)
LEMMA PartParsed ==
    ASSUME NEW data \in Written, NEW parse, Parsed(parse, data),
           NEW a \in Nat, NEW b \in Nat, a <= b, b <= Len(data)
    PROVE  /\ SubSeq(data, a + 1, b) \in Written
           /\ Len(SubSeq(data, a + 1, b)) = b - a
           /\ \A i \in 1 .. b - a : SubSeq(data, a + 1, b)[i] = data[a + i]
           /\ Parsed([i \in 0 .. b - a |-> parse[a + i]], SubSeq(data, a + 1, b))
<1> DEFINE part == [i \in 0 .. b - a |-> parse[a + i]]
           cut == SubSeq(data, a + 1, b)
<1>1. Len(data) \in Nat
  BY LenProperties DEF Written
<1>2. \A i \in a + 1 .. b : data[i] \in [value : Nat, response : BOOLEAN]
  <2>1. \A i \in 1 .. Len(data) : data[i] \in [value : Nat, response : BOOLEAN]
    BY ElementOfSeq DEF Written
  <2> QED
    BY <1>1, <2>1
<1>3. /\ cut \in Written
      /\ Len(cut) = IF a + 1 <= b THEN b - (a + 1) + 1 ELSE 0
      /\ \A i \in 1 .. b - (a + 1) + 1 : cut[i] = data[(a + 1) + i - 1]
  BY <1>2, SubSeqProperties DEF Written
<1>4. Len(cut) = b - a /\ \A i \in 1 .. b - a : cut[i] = data[a + i]
  <2>1. b - (a + 1) + 1 = b - a
    OBVIOUS
  <2>2. \A i \in 1 .. b - a : (a + 1) + i - 1 = a + i
    OBVIOUS
  <2> HIDE DEF cut
  <2> QED
    BY <1>3, <2>1, <2>2
<1>5. part \in [0 .. b - a -> ScanState]
  <2>1. \A i \in 0 .. b - a : a + i \in 0 .. Len(data)
    BY <1>1
  <2>2. \A i \in 0 .. Len(data) : parse[i] \in ScanState
    BY DEF Parsed
  <2> QED
    BY <2>1, <2>2
<1>6. ASSUME NEW i \in 1 .. b - a
      PROVE  part[i] = ScanStep(part[i - 1], cut[i]) /\ cut[i].response = Marks(part[i - 1], cut[i])
  <2>1. /\ i \in 0 .. b - a /\ i - 1 \in 0 .. b - a
        /\ a + i \in 1 .. Len(data) /\ (a + i) - 1 = a + (i - 1)
    BY <1>1
  <2>2. part[i] = parse[a + i] /\ part[i - 1] = parse[(a + i) - 1]
    BY <2>1
  <2>3. cut[i] = data[a + i]
    BY <1>4
  <2>4. /\ parse[a + i] = ScanStep(parse[(a + i) - 1], data[a + i])
        /\ data[a + i].response = Marks(parse[(a + i) - 1], data[a + i])
    BY <2>1 DEF Parsed
  <2> HIDE DEF part, cut
  <2> QED
    BY <2>2, <2>3, <2>4
<1> HIDE DEF part, cut
<1>7. Parsed(part, cut)
  BY <1>4, <1>5, <1>6 DEF Parsed
<1> QED
  BY <1>3, <1>4, <1>7 DEF part, cut

(* A frame parses from between two frames to between two frames.            *)
LEMMA FrameParsed ==
    ASSUME out \in Written, NEW parse, Parsed(parse, out), BetweenFrames(parse[Len(out)]),
           NEW kind \in Kinds, NEW size \in Nat
    PROVE  \E more : /\ Parsed(more, out \o Frame(kind, size))
                    /\ more[0] = parse[0]
                    /\ BetweenFrames(more[Len(out \o Frame(kind, size))])
<1> DEFINE n == Len(out)
           frame == Frame(kind, size)
           all == out \o frame
           c == CarriesResponse(kind)
           In(i) == [header |-> <<>>, left |-> size - (i - n - 2), carries |-> c]
           begun == [header |-> <<size>>, left |-> 0, carries |-> parse[n].carries]
           more == [i \in 0 .. n + size + 2 |->
                        IF i <= n THEN parse[i] ELSE IF i = n + 1 THEN begun ELSE In(i)]
<1>1. n \in Nat /\ c \in BOOLEAN
  BY LenProperties DEF Written, CarriesResponse
<1>2. /\ frame \in Written /\ Len(frame) = size + 2
      /\ frame[1] = Byte(size, FALSE)
      /\ frame[2] = Byte(kind, kind = 1)
      /\ \A i \in 3 .. size + 2 : \E v : frame[i] = Byte(v, c)
  BY FrameWritten
<1>3. parse[n] \in ScanState /\ parse[n].header = <<>> /\ parse[n].left = 0
  BY <1>1 DEF Parsed, BetweenFrames
<1>4. /\ Len(all) = n + size + 2
      /\ \A i \in 1 .. n : all[i] = out[i]
      /\ \A i \in n + 1 .. n + size + 2 : all[i] = frame[i - n]
  <2> HIDE DEF frame
  <2>1. /\ Len(all) = Len(out) + Len(frame)
        /\ \A i \in 1 .. Len(out) + Len(frame) :
               all[i] = IF i <= Len(out) THEN out[i] ELSE frame[i - Len(out)]
    BY <1>2, ConcatProperties DEF Written
  <2> HIDE DEF all
  <2> QED
    BY <1>1, <1>2, <2>1
<1>5. more \in [0 .. n + size + 2 -> ScanState]
  <2>1. \A i \in 0 .. n : parse[i] \in ScanState
    BY DEF Parsed
  <2>2. begun \in ScanState
    BY <1>3 DEF ScanState
  <2>3. ASSUME NEW i \in 0 .. n + size + 2, ~(i <= n), i # n + 1
        PROVE  In(i) \in ScanState
    <3>1. size - (i - n - 2) \in Nat
      BY <1>1, <2>3
    <3> QED
      BY <1>1, <3>1 DEF ScanState
  <2>4. \A i \in 0 .. n + size + 2 : i <= n => i \in 0 .. n
    BY <1>1
  <2> HIDE DEF begun, In, n
  <2> QED
    BY <2>1, <2>2, <2>3, <2>4
<1>6. ASSUME NEW i \in 1 .. n + size + 2
      PROVE  more[i] = ScanStep(more[i - 1], all[i]) /\ all[i].response = Marks(more[i - 1], all[i])
  <2>0. i \in 0 .. n + size + 2 /\ i - 1 \in 0 .. n + size + 2
    BY <1>1
  <2>1. CASE i <= n
    <3>1. more[i] = parse[i] /\ more[i - 1] = parse[i - 1] /\ i \in 1 .. n
      BY <1>1, <2>0, <2>1
    <3>2. parse[i] = ScanStep(parse[i - 1], out[i]) /\ out[i].response = Marks(parse[i - 1], out[i])
      BY <3>1 DEF Parsed
    <3>3. all[i] = out[i]
      BY <1>4, <3>1
    <3> HIDE DEF more, all
    <3> QED
      BY <3>1, <3>2, <3>3
  <2>2. CASE i = n + 1
    <3>1. more[i] = begun /\ more[i - 1] = parse[n]
      BY <1>1, <2>0, <2>2
    <3>2. all[i] = Byte(size, FALSE)
      <4>1. i - n = 1 /\ i \in n + 1 .. n + size + 2
        BY <1>1, <2>2
      <4>2. all[i] = frame[1]
        <5> HIDE DEF frame, all
        <5> QED
          BY <1>4, <4>1
      <4> QED
        BY <1>2, <4>2, Zenon
    <3>3. all[i].value = size /\ all[i].response = FALSE
      BY <3>2 DEF Byte
    <3> HIDE DEF more, all, n
    <3>4. ScanStep(parse[n], all[i]) = begun
      BY <1>3, <3>3 DEF ScanStep
    <3>5. Marks(parse[n], all[i]) = FALSE
      BY <1>3 DEF Marks
    <3> HIDE DEF begun
    <3> QED
      BY <3>1, <3>3, <3>4, <3>5
  <2>3. CASE i = n + 2
    <3>1. more[i] = In(i) /\ more[i - 1] = begun
      BY <1>1, <2>0, <2>3
    <3>2. all[i] = Byte(kind, kind = 1)
      <4>1. i - n = 2 /\ i \in n + 1 .. n + size + 2
        BY <1>1, <2>3
      <4>2. all[i] = frame[2]
        <5> HIDE DEF frame, all
        <5> QED
          BY <1>4, <4>1
      <4> QED
        BY <1>2, <4>2, Zenon
    <3>3. all[i].value = kind
      BY <3>2 DEF Byte
    <3>4. all[i].response = (kind = 1)
      BY <3>2 DEF Byte
    <3>5. begun.left = 0 /\ begun.header = <<size>> /\ begun.header # <<>> /\ begun.header[1] = size
      OBVIOUS
    <3>6. ScanStep(begun, all[i]) = [header |-> <<>>, left |-> size, carries |-> c]
      <4> HIDE DEF begun, all
      <4> QED
        BY <3>3, <3>5 DEF ScanStep
    <3>7. Marks(begun, all[i]) = (kind = 1)
      <4> HIDE DEF begun, all
      <4> QED
        BY <3>3, <3>5 DEF Marks
    <3>8. In(i) = [header |-> <<>>, left |-> size, carries |-> c]
      <4>1. size - (i - n - 2) = size
        BY <1>1, <2>3
      <4> QED
        BY <4>1
    <3> HIDE DEF more, all, begun, In
    <3> QED
      BY <3>1, <3>4, <3>6, <3>7, <3>8
  <2>4. CASE i > n + 2
    <3>1. more[i] = In(i) /\ more[i - 1] = In(i - 1)
      <4>1. /\ ~(i <= n) /\ i # n + 1 /\ ~(i - 1 <= n) /\ i - 1 # n + 1
        BY <1>1, <2>4
      <4> HIDE DEF In, begun, n
      <4> QED
        BY <2>0, <4>1
    <3>2. PICK v : all[i] = Byte(v, c)
      <4>1. i - n \in 3 .. size + 2 /\ i \in n + 1 .. n + size + 2
        BY <1>1, <2>4
      <4>2. all[i] = frame[i - n]
        <5> HIDE DEF frame, all
        <5> QED
          BY <1>4, <4>1
      <4>3. PICK v : frame[i - n] = Byte(v, c)
        <5> HIDE DEF frame, c
        <5> QED
          BY <1>2, <4>1
      <4> QED
        BY <4>2, <4>3, Zenon
    <3>3. all[i].response = c
      BY <3>2 DEF Byte
    <3>4. /\ In(i - 1).left > 0 /\ In(i - 1).left \in Nat
          /\ In(i - 1).left - 1 = size - (i - n - 2)
      BY <1>1, <2>4
    <3>5. In(i - 1).header = <<>> /\ In(i - 1).carries = c
      OBVIOUS
    <3>6. ScanStep(In(i - 1), all[i]) = In(i)
      <4>1. ScanStep(In(i - 1), all[i]) =
                [header |-> In(i - 1).header, left |-> In(i - 1).left - 1,
                 carries |-> In(i - 1).carries]
        BY <3>4 DEF ScanStep
      <4> QED
        BY <3>4, <3>5, <4>1
    <3>7. Marks(In(i - 1), all[i]) = c
      BY <3>4, <3>5 DEF Marks
    <3> HIDE DEF more, all, In, c
    <3> QED
      BY <3>1, <3>3, <3>6, <3>7
  <2>5. i <= n \/ i = n + 1 \/ i = n + 2 \/ i > n + 2
    BY <1>1
  <2> QED
    BY <2>1, <2>2, <2>3, <2>4, <2>5
<1>7. more[0] = parse[0]
  BY <1>1
<1>8. BetweenFrames(more[n + size + 2])
  <2>1. n + size + 2 \in 0 .. n + size + 2 /\ ~(n + size + 2 <= n) /\ n + size + 2 # n + 1
    BY <1>1
  <2>2. more[n + size + 2] = In(n + size + 2)
    <3> HIDE DEF In, begun
    <3> QED
      BY <2>1
  <2>3. In(n + size + 2).left = 0
    BY <1>1
  <2> QED
    BY <2>2, <2>3 DEF BetweenFrames
<1> HIDE DEF more, all
<1>9. Parsed(more, all)
  BY <1>4, <1>5, <1>6 DEF Parsed
<1> QED
  BY <1>4, <1>7, <1>8, <1>9 DEF all

(* A new connection's scanner is between two frames.                        *)
LEMMA ScanStarts == SendInit => ScanInv
<1> SUFFICES ASSUME SendInit
             PROVE  ScanInv
  OBVIOUS
<1>1. out = <<>> /\ scanner = Idle /\ touched = due
  BY DEF SendInit
<1>2. out \in Written /\ Len(out) = 0
  BY <1>1, EmptySeq DEF Written
<1> DEFINE parse == [i \in 0 .. 0 |-> Idle]
<1>3. Idle \in ScanState /\ BetweenFrames(Idle)
  BY DEF Idle, ScanState, BetweenFrames
<1>4. Parsed(parse, out)
  BY <1>2, <1>3 DEF Parsed
<1>5. parse[0] = scanner /\ BetweenFrames(parse[Len(out)])
  BY <1>1, <1>2, <1>3
<1> HIDE DEF parse
<1> QED
  BY <1>1, <1>2, <1>4, <1>5 DEF ScanInv

(* A write, of one slice or two: it is reported as progress when response   *)
(* data is in it, and the scanner is where the rest parses from.            *)
LEMMA WriteStep ==
    ASSUME ScanInv, NEW n \in Nat, NEW cut \in 0 .. n, WriteBytes(n, cut)
    PROVE  ScanInv'
<1>1. PICK parse : Parsed(parse, out) /\ parse[0] = scanner /\ BetweenFrames(parse[Len(out)])
  BY DEF ScanInv
<1>2. out \in Written /\ Len(out) \in Nat /\ n <= Len(out)
  BY LenProperties DEF ScanInv, Written, WriteBytes
<1> DEFINE L == Len(out)
           one == SubSeq(out, 1, cut)
           two == SubSeq(out, cut + 1, n)
           rest == SubSeq(out, n + 1, L)
           p1 == [i \in 0 .. cut - 0 |-> parse[0 + i]]
           p2 == [i \in 0 .. n - cut |-> parse[cut + i]]
           p3 == [i \in 0 .. L - n |-> parse[n + i]]
           first == FeedData(scanner, one)
           second == FeedData(Scanner(first), two)
<1>3. /\ one \in Written /\ Len(one) = cut
      /\ \A i \in 1 .. cut : one[i] = out[i]
      /\ Parsed(p1, one) /\ p1[0] = scanner /\ p1[cut] = parse[cut]
  <2>1. 0 \in Nat /\ cut \in Nat /\ 0 <= cut /\ cut <= Len(out) /\ 0 + 1 = 1 /\ cut - 0 = cut
        /\ \A i \in 0 .. cut : 0 + i = i
    BY <1>2
  <2>2. /\ SubSeq(out, 0 + 1, cut) \in Written
        /\ Len(SubSeq(out, 0 + 1, cut)) = cut - 0
        /\ \A i \in 1 .. cut - 0 : SubSeq(out, 0 + 1, cut)[i] = out[0 + i]
        /\ Parsed(p1, SubSeq(out, 0 + 1, cut))
    BY <1>1, <1>2, <2>1, PartParsed
  <2>3. p1[0] = parse[0] /\ p1[cut] = parse[cut]
    BY <2>1
  <2>4. SubSeq(out, 0 + 1, cut) = one
    BY <2>1
  <2>5. Len(one) = cut
    BY <2>1, <2>2, <2>4
  <2>6. one \in Written /\ Parsed(p1, one)
    BY <2>2, <2>4
  <2>7. \A i \in 1 .. cut : one[i] = out[i]
    <3> HIDE DEF p1
    <3> QED
      BY <2>1, <2>2, <2>4
  <2> HIDE DEF p1, one
  <2> QED
    BY <1>1, <2>3, <2>5, <2>6, <2>7
<1>4. /\ two \in Written /\ Len(two) = n - cut
      /\ \A i \in 1 .. n - cut : two[i] = out[cut + i]
      /\ Parsed(p2, two) /\ p2[0] = parse[cut] /\ p2[n - cut] = parse[n]
  <2>1. cut \in Nat /\ cut <= n /\ n <= Len(out) /\ n - cut \in 0 .. n - cut
        /\ 0 \in 0 .. n - cut /\ cut + 0 = cut /\ cut + (n - cut) = n
    BY <1>2
  <2>2. p2[0] = parse[cut] /\ p2[n - cut] = parse[n]
    BY <2>1
  <2> QED
    BY <1>1, <1>2, <2>1, <2>2, PartParsed
<1>5. /\ rest \in Written /\ Len(rest) = L - n
      /\ Parsed(p3, rest) /\ p3[0] = parse[n] /\ p3[L - n] = parse[L]
  <2>1. n <= L /\ L \in Nat /\ L <= Len(out) /\ L - n \in 0 .. L - n
        /\ 0 \in 0 .. L - n /\ n + 0 = n /\ n + (L - n) = L
    BY <1>2
  <2>2. p3[0] = parse[n] /\ p3[L - n] = parse[L]
    BY <2>1
  <2> QED
    BY <1>1, <1>2, <2>1, <2>2, PartParsed
<1>6. /\ out' = rest /\ scanner' = Scanner(second)
      /\ touched' = (first.progress \/ second.progress)
      /\ due' = \E i \in 1 .. n : out[i].response
  BY DEF WriteBytes
<1>7. Scanner(first) = parse[cut] /\ first.progress = \E j \in 1 .. cut : out[j].response
  <2> HIDE DEF one, p1
  <2>1. /\ Scanner(FeedData(p1[0], one)) = p1[Len(one)]
        /\ FeedData(p1[0], one).progress = \E j \in 1 .. Len(one) : one[j].response
    BY <1>3, FedWhole
  <2>2. p1[0] = scanner /\ p1[Len(one)] = parse[cut] /\ Len(one) = cut
    BY <1>3
  <2>3. (\E j \in 1 .. cut : one[j].response) = (\E j \in 1 .. cut : out[j].response)
    BY <1>3
  <2> QED
    BY <2>1, <2>2, <2>3
<1>8. Scanner(second) = parse[n]
      /\ second.progress = \E j \in cut + 1 .. n : out[j].response
  <2> HIDE DEF two, p2, first
  <2>1. /\ Scanner(FeedData(p2[0], two)) = p2[Len(two)]
        /\ FeedData(p2[0], two).progress = \E j \in 1 .. Len(two) : two[j].response
    BY <1>4, FedWhole
  <2>2. p2[0] = Scanner(first) /\ p2[Len(two)] = parse[n] /\ Len(two) = n - cut
    BY <1>4, <1>7
  <2>3. (\E j \in 1 .. n - cut : two[j].response) = (\E j \in cut + 1 .. n : out[j].response)
    <3>1. ASSUME NEW j \in 1 .. n - cut, two[j].response
          PROVE  \E i \in cut + 1 .. n : out[i].response
      <4>1. cut + j \in cut + 1 .. n
        BY <1>2
      <4> QED
        BY <1>4, <3>1, <4>1
    <3>2. ASSUME NEW i \in cut + 1 .. n, out[i].response
          PROVE  \E j \in 1 .. n - cut : two[j].response
      <4>1. i - cut \in 1 .. n - cut /\ cut + (i - cut) = i
        BY <1>2
      <4>2. two[i - cut] = out[i]
        BY <1>4, <4>1
      <4> QED
        BY <3>2, <4>1, <4>2
    <3> QED
      BY <3>1, <3>2
  <2> QED
    BY <2>1, <2>2, <2>3
<1>9. touched' = due'
  <2>1. \A i : i \in 1 .. n <=> i \in 1 .. cut \/ i \in cut + 1 .. n
    BY <1>2
  <2>2. (\E i \in 1 .. n : out[i].response)
            = ((\E i \in 1 .. cut : out[i].response) \/ (\E i \in cut + 1 .. n : out[i].response))
    BY <2>1
  <2> HIDE DEF first, second
  <2> QED
    BY <1>6, <1>7, <1>8, <2>2
<1> HIDE DEF rest, p3, first, second
<1>10. scanner' = parse[n]
  BY <1>6, <1>8
<1>11. Parsed(p3, out') /\ p3[0] = scanner' /\ BetweenFrames(p3[Len(out')])
  BY <1>1, <1>5, <1>6, <1>10
<1>12. (out \in Written)' /\ (touched = due)'
  BY <1>5, <1>6, <1>9
<1> QED
  BY <1>11, <1>12 DEF ScanInv

(* Frames, writes and everything else keep the scanner with the frames.     *)
LEMMA ScanGoesOn ==
    ASSUME ScanInv, [SendNext]_sendVars
    PROVE  ScanInv'
<1>1. ASSUME NEW kind \in Kinds, NEW size \in 0 .. MaxPayload, Encode(kind, size)
      PROVE  ScanInv'
  <2>1. out' = out \o Frame(kind, size) /\ UNCHANGED <<scanner, touched, due>>
    BY <1>1 DEF Encode
  <2>2. size \in Nat
    BY SendAssumption
  <2>3. PICK parse : Parsed(parse, out) /\ parse[0] = scanner /\ BetweenFrames(parse[Len(out)])
    BY DEF ScanInv
  <2>4. out \in Written /\ touched = due
    BY DEF ScanInv
  <2>5. PICK more : /\ Parsed(more, out') /\ more[0] = parse[0]
                    /\ BetweenFrames(more[Len(out')])
    BY <2>1, <2>2, <2>3, <2>4, FrameParsed
  <2>6. out' \in Written
    BY <2>1, <2>2, <2>4, FrameWritten, ConcatProperties DEF Written
  <2>7. more[0] = scanner'
    BY <2>1, <2>3, <2>5
  <2>8. touched' = due'
    BY <2>1, <2>4
  <2> QED
    BY <2>5, <2>6, <2>7, <2>8 DEF ScanInv
<1>2. ASSUME NEW n \in 1 .. Space, NEW cut \in 0 .. n - 1, WriteBytes(n, cut)
      PROVE  ScanInv'
  <2>1. n \in Nat /\ cut \in 0 .. n
    OBVIOUS
  <2> QED
    BY <1>2, <2>1, WriteStep
<1>3. ASSUME UNCHANGED <<out, scanner, touched, due>>
      PROVE  ScanInv'
  <2>1. out' = out /\ scanner' = scanner /\ touched' = touched /\ due' = due
    BY <1>3
  <2> QED
    BY <2>1 DEF ScanInv, Written
<1> QED
  BY <1>1, <1>2, <1>3
     DEF SendNext, ClientReads, SocketFails, RefusedBySocket, Flushed, NothingToSend, SendTick,
         sendVars, outVars

(* FrameScanner::feed: progress is reported for exactly the writes that     *)
(* carry response data, for frames of any size and kind, however they are   *)
(* cut into writes and slices.                                              *)
THEOREM ProgressIsResponse == SendSpec => []ScannerExact
<1>1. ScanInv => ScannerExact
  BY DEF ScanInv, ScannerExact
<1> QED
  BY <1>1, ScanStarts, ScanGoesOn, PTL DEF SendSpec

-----------------------------------------------------------------------------
(* WebSocket sessions are opened for the right requests, and give their     *)
(* slot back with their transport.                                          *)

(* The states of a session, and what it holds in each.                      *)
SessionShape ==
    /\ session \in {"none", "promised", "open", "over"}
    /\ handshake = None => session = "none"
    /\ session = "none" => ~transport /\ ~permit /\ ~expired
    /\ session = "promised" => ~transport /\ permit /\ ~expired
    /\ session \in {"open", "over"} => (permit <=> transport)
    /\ calling \in {"none", "recv", "closing", "send"}
    /\ calling # "none" => session = "open"
    /\ expired => ~transport
    /\ calling \in {"recv", "closing"} => transport
    /\ inbox \in Nat
    /\ calling = "recv" /\ heard => inbox > 0
    /\ calling = "closing" => ~heard

(* recv and the close frame each have a deadline; the task that waits has   *)
(* not reached it, and one that was woken is polled within Delay.           *)
CallTimely ==
    /\ now \in Nat /\ woken \in Nat \union {None}
    /\ began \in Nat
    /\ callTimer \in Nat \union {None}
    /\ woken # None => woken <= now /\ now <= woken + Delay
    /\ calling \in {"recv", "closing"} =>
           /\ began <= now
           /\ callTimer # None
           /\ IF woken = None THEN now < callTimer ELSE woken <= callTimer
    /\ calling = "recv" => callTimer = began + IdleTimeout
    /\ calling = "closing" => callTimer <= began + IdleTimeout + Delay + CloseTime

SocketInv == SessionShape /\ CallTimely

-----------------------------------------------------------------------------
(* Sessions give their slot back.                                           *)

(* Before the handshake there is nothing.                                   *)
LEMMA SocketStarts == SocketInit => SocketInv
BY SessionAssumption, TimeAssumption, NoneAssumption
   DEF SocketInit, TimedInit, SocketInv, SessionShape, CallTimely

(* Every step of the peer, of the handler, of its calls and of the clock    *)
(* keeps the invariant.                                                     *)
LEMMA SocketGoesOn == SocketInv /\ [SocketNext]_socketVars => SocketInv'
<1> SUFFICES ASSUME SocketInv, [SocketNext]_socketVars
             PROVE  SocketInv'
  OBVIOUS
<1> USE SessionAssumption, TimeAssumption, NoneAssumption
    DEF SocketInv, SessionShape, CallTimely, InSession, timeVars, peerVars
<1>1. ASSUME NEW q \in Handshakes, Upgrade(q)
      PROVE  SocketInv'
  BY <1>1 DEF Upgrade
<1>2. CASE HandedOver
  BY <1>2 DEF HandedOver
<1>3. CASE NeverHandedOver \/ HandlerEnds
  BY <1>3 DEF NeverHandedOver, HandlerEnds, EndSession
<1>4. CASE PeerSends
  <2>1. heard' <=> heard \/ calling = "recv"
    BY <1>4, Zenon DEF PeerSends
  <2> QED
    BY <1>4, <2>1 DEF PeerSends, Wake
<1>5. ASSUME NEW to, PeerTurns(to)
      PROVE  SocketInv'
  BY <1>5 DEF PeerTurns, Wake
<1>6. CASE CallRecv
  <2>1. heard' <=> inbox > 0
    BY <1>6, Zenon DEF CallRecv
  <2> QED
    BY <1>6, <2>1 DEF CallRecv
<1>7. CASE RecvMessage
  BY <1>7 DEF RecvMessage, Receiving, Returns
<1>8. CASE RecvNone
  BY <1>8 DEF RecvNone, Receiving, Returns
<1>9. CASE RecvExpires
  BY <1>9 DEF RecvExpires, Receiving, StartClosing
<1>10. CASE RecvWaits
  BY <1>10 DEF RecvWaits, Receiving, sessionVars
<1>11. CASE Expire
  BY <1>11 DEF Expire, Closing, Closed, Returns
<1>12. CASE CloseWaits
  BY <1>12 DEF CloseWaits, Closing, Closed, sessionVars
<1>13. CASE CallSend
  BY <1>13 DEF CallSend
<1>14. CASE SendReturns \/ GiveUp
  BY <1>14 DEF SendReturns, GiveUp, Returns
<1>15. CASE SocketTick
  BY <1>15 DEF SocketTick, TickWith, sessionVars
<1>16. CASE UNCHANGED socketVars
  BY <1>16 DEF socketVars, sessionVars
<1> QED
  BY <1>1, <1>2, <1>3, <1>4, <1>5, <1>6, <1>7, <1>8, <1>9, <1>10, <1>11, <1>12,
     <1>13, <1>14, <1>15, <1>16
     DEF SocketNext, PeerActs

(* WebSocket::recv and Drop: the max_connections slot goes with the         *)
(* transport however the session ends, recv times out only when nothing     *)
(* came, and is over in time even when the peer reads no more.              *)
THEOREM SlotsReleased == SocketSpec => []SessionReleased
<1>1. SocketInv => SessionReleased
  BY SessionAssumption, TimeAssumption, NoneAssumption
     DEF SocketInv, SessionShape, CallTimely, SessionReleased
<1> QED
  BY <1>1, SocketStarts, SocketGoesOn, PTL DEF SocketSpec
-----------------------------------------------------------------------------
(* Sessions are opened for the right requests.                              *)

(* A session that was promised is the one its handshake asked for.          *)
OpenedInv == session # "none" => Status(handshake) = 101 /\ spoken = Chosen(handshake)

(* The first of the server's protocols that the client offers: no preferred *)
(* one is passed over, and none is chosen that was not offered.             *)
LEMMA ChosenIsBest ==
    ASSUME NEW q
    PROVE  /\ \A i \in DOMAIN Spoken :
                  Spoken[i] \in Members(q.offered) =>
                      \E j \in 1 .. i : Chosen(q) = Spoken[j]
           /\ Chosen(q) # None => Chosen(q) \in Members(q.offered)
<1> DEFINE set == Members(q.offered)
           hits == {i \in DOMAIN Spoken : Spoken[i] \in set}
           first == CHOOSE i \in hits : \A j \in hits : i <= j
<1>1. Chosen(q) = IF hits = {} THEN None ELSE Spoken[first]
  BY DEF Chosen, FirstOf
<1>2. DOMAIN Spoken \subseteq Nat \ {0} /\ hits \subseteq Nat \ {0}
  BY SessionAssumption
<1>3. ASSUME hits # {}
      PROVE  first \in hits /\ \A j \in hits : first <= j
  <2>1. \E i \in hits : \A j \in hits : ~(<<j, i>> \in OpToRel(<, Nat))
    <3> HIDE DEF hits
    <3> QED
      BY <1>2, <1>3, NatLessThanWellFounded, WFMin
  <2>2. \E i \in hits : \A j \in hits : i <= j
    <3>1. PICK i \in hits : \A j \in hits : ~(<<j, i>> \in OpToRel(<, Nat))
      BY <2>1
    <3>2. ASSUME NEW j \in hits
          PROVE  i <= j
      <4> HIDE DEF hits
      <4>1. i \in Nat /\ j \in Nat
        BY <1>2
      <4>2. ~(j < i)
        BY <3>1, <4>1 DEF OpToRel
      <4> QED
        BY <4>1, <4>2
    <3> QED
      BY <3>2
  <2> HIDE DEF hits
  <2> QED
    BY <2>2
<1>4. CASE hits = {}
  BY <1>1, <1>4
<1>5. CASE hits # {}
  <2>1. first \in hits /\ \A j \in hits : first <= j
    BY <1>3, <1>5
  <2>2. Chosen(q) = Spoken[first]
    BY <1>1, <1>5
  <2> HIDE DEF first
  <2>3. Chosen(q) \in set
    BY <2>1, <2>2
  <2>4. ASSUME NEW i \in DOMAIN Spoken, Spoken[i] \in set
        PROVE  \E j \in 1 .. i : Chosen(q) = Spoken[j]
    <3>1. first \in 1 .. i
      BY <1>2, <2>1, <2>4
    <3> QED
      BY <2>2, <3>1
  <2> QED
    BY <2>3, <2>4
<1> QED
  BY <1>4, <1>5

(* Only the handshake opens a session, once.                                *)
LEMMA OpenedInvariance ==
    ASSUME SocketInv, OpenedInv, [SocketNext]_socketVars
    PROVE  OpenedInv'
<1> USE DEF OpenedInv, SocketInv, SessionShape, InSession, timeVars, peerVars
<1>1. ASSUME NEW q \in Handshakes, Upgrade(q)
      PROVE  OpenedInv'
  BY <1>1 DEF Upgrade
<1>2. CASE \/ HandedOver \/ NeverHandedOver \/ HandlerEnds
           \/ CallRecv \/ RecvMessage \/ RecvNone \/ RecvExpires \/ RecvWaits
           \/ Expire \/ CloseWaits \/ CallSend \/ SendReturns \/ GiveUp
           \/ SocketTick \/ UNCHANGED socketVars
  <2>1. UNCHANGED <<handshake, spoken>>
    BY <1>2 DEF HandedOver, NeverHandedOver, HandlerEnds, EndSession, CallRecv,
                RecvMessage, RecvNone, RecvExpires, RecvWaits, StartClosing, Returns,
                Expire, CloseWaits, CallSend, SendReturns, GiveUp, SocketTick,
                sessionVars, socketVars
  <2>2. session' # "none" => session # "none"
    BY <1>2 DEF HandedOver, NeverHandedOver, HandlerEnds, EndSession, CallRecv,
                RecvMessage, RecvNone, RecvExpires, RecvWaits, StartClosing, Returns,
                Expire, CloseWaits, CallSend, SendReturns, GiveUp, SocketTick,
                sessionVars, socketVars
  <2> QED
    BY <2>1, <2>2
<1>3. CASE PeerActs
  BY <1>3 DEF PeerActs, PeerSends, PeerTurns
<1> QED
  BY <1>1, <1>2, <1>3 DEF SocketNext

(* on_upgrade: a session is opened only for a handshake with the right      *)
(* version and a key, from no origin but a listed one, in the best protocol *)
(* of both, for any origins, protocols and requests.                        *)
THEOREM SessionsOpenedRightly == SocketSpec => []OpenedRightly
<1>1. SocketInit => OpenedInv
  BY DEF SocketInit, OpenedInv
<1>2. SocketInv /\ OpenedInv /\ [SocketNext]_socketVars => OpenedInv'
  BY OpenedInvariance
<1>3. OpenedInv => OpenedRightly
  <2> SUFFICES ASSUME OpenedInv, session # "none"
               PROVE  OpenedRightly
    BY DEF OpenedRightly
  <2>1. /\ handshake.upgrades /\ handshake.version = 13 /\ handshake.key
        /\ OriginAllowed(handshake)
    BY DEF OpenedInv, Status
  <2>2. Origins # {} => handshake.origin \in Origins \union {None}
    BY <2>1 DEF OriginAllowed
  <2>3. spoken = Chosen(handshake)
    BY DEF OpenedInv
  <2> QED
    BY <2>1, <2>2, <2>3, ChosenIsBest DEF OpenedRightly
<1> QED
  BY <1>1, <1>2, <1>3, SocketStarts, SocketGoesOn, PTL DEF SocketSpec
-----------------------------------------------------------------------------
(* The gaps between events are marked, and nothing else is.                 *)

SseType ==
    /\ now \in Nat
    /\ woken \in Nat \union {None}
    /\ events \in Nat
    /\ ticker \in Nat \union {None}
    /\ lastEvent \in Nat /\ lastEvent <= now
    /\ quiet \in Nat \union {None}
    /\ gap \in Int \union {None}

(* The ticker fires no sooner than the interval after the last event, and   *)
(* no later than that after it was set.                                     *)
TickerFits ==
    ticker # None => /\ lastEvent + Period <= ticker
                     /\ ticker <= now + Period

(* A connection that takes items: it is polled soon after it was woken, and *)
(* asleep it has a ticker, which it reached one delay after the last item   *)
(* at most.                                                                 *)
GapTimely ==
    /\ quiet # None => quiet <= now
    /\ ~full /\ ~finished =>
           /\ woken # None => woken <= now /\ now <= woken + Delay
           /\ woken = None => ticker # None /\ quiet # None /\ now < ticker
           /\ quiet = None => ticker = None
           /\ quiet # None /\ ticker = None => woken = quiet
           /\ quiet # None /\ ticker # None =>
                  /\ ticker <= quiet + Period + Delay
                  /\ woken # None => woken <= ticker \/ woken = quiet
    /\ full => quiet # None

SseInv == SseType /\ TickerFits /\ GapTimely /\ CommentInGap

-----------------------------------------------------------------------------
(* A stream starts with no ticker and nothing handed on.                    *)
LEMMA SseStarts == SseInit => SseInv
BY PeriodAssumption, TimeAssumption, NoneAssumption
   DEF SseInit, TimedInit, SseInv, SseType, TickerFits, GapTimely, CommentInGap

(* Every step of the handler, of the connection, of EventBytes and of the   *)
(* clock keeps the invariant.                                               *)
LEMMA SseGoesOn == SseInv /\ [SseNext]_sseVars => SseInv'
<1> SUFFICES ASSUME SseInv, [SseNext]_sseVars
             PROVE  SseInv'
  OBVIOUS
<1> USE PeriodAssumption, TimeAssumption, NoneAssumption
    DEF SseInv, SseType, TickerFits, GapTimely, CommentInGap
<1>1. CASE Produce
  BY <1>1 DEF Produce, Wake
<1>2. CASE EndEvents
  BY <1>2 DEF EndEvents, Wake
<1>3. CASE Drained
  BY <1>3 DEF Drained
<1>4. CASE WokenOtherwise
  BY <1>4 DEF WokenOtherwise, Wake, streamVars
<1>5. CASE PollEvent
  BY <1>5 DEF PollEvent, Polled, Reset, HandOn
<1>6. CASE PollEnd
  BY <1>6 DEF PollEnd, Polled, Reset
<1>7. CASE PollComment
  BY <1>7 DEF PollComment, Polled, Fires, HandOn
<1>8. CASE PollPending
  BY <1>8 DEF PollPending, Polled, Fires
<1>9. CASE SseTick
  BY <1>9 DEF SseTick, TickWith, streamVars
<1>10. CASE UNCHANGED sseVars
  BY <1>10 DEF sseVars, streamVars, timeVars
<1> QED
  BY <1>1, <1>2, <1>3, <1>4, <1>5, <1>6, <1>7, <1>8, <1>9, <1>10
     DEF SseNext

(* EventBytes::poll_next: a comment comes no sooner than the interval after *)
(* an event, and a connection that would take something waits no longer     *)
(* than the interval and the delays of two polls, for any interval and any  *)
(* order of events, ticks, wakings and a full buffer.                       *)
THEOREM EveryGapMarked == SseSpec => []GapsMarked
<1>1. SseInv => GapsMarked
  BY PeriodAssumption, TimeAssumption, NoneAssumption
     DEF SseInv, SseType, GapTimely, GapsMarked, NoSilence, CommentInGap
<1> QED
  BY <1>1, SseStarts, SseGoesOn, PTL DEF SseSpec
=============================================================================
