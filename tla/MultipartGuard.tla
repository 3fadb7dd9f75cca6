--------------------------- MODULE MultipartGuard ---------------------------
(***************************************************************************)
(* A multipart body read from the connection (multipart.rs): the parser    *)
(* (multer) keeps what it cannot parse yet, so GuardedBody counts the bytes*)
(* pulled since the parser last produced something and refuses the body    *)
(* past a limit.  A part whose Field was dropped unread is skipped: its    *)
(* data does not count, up to the delimiter that ends it.                  *)
(*                                                                         *)
(* The body is any sequence of chunks.  The parser is external.  Each poll *)
(* of next_field or chunk first pulls all the chunks that are ready, then  *)
(* parses: a chunk may be pulled whenever a call is under way, however     *)
(* much the parser has not looked at yet.  (That a poll parses as far as   *)
(* it can before the next one pulls makes no difference: parsing further   *)
(* changes nothing the guard sees, until something is returned.)           *)
(***************************************************************************)
EXTENDS Naturals, SequencesExt

CONSTANTS Bytes,      \* the bytes a body is made of
          Delimiter,  \* DelimiterScan::delimiter
          Blank,      \* the byte that ends a part's headers
          Limit,      \* MAX_UNPRODUCTIVE
          MaxChunk,   \* bound: bytes in a chunk
          MaxBody     \* bound: bytes in a body

ASSUME GuardAssumption ==
    /\ Delimiter \in Seq(Bytes) /\ Delimiter # <<>>
    /\ Blank \in Bytes
    /\ {Limit, MaxBody} \subseteq Nat
    /\ MaxChunk \in Nat \ {0}

VARIABLES
    call,         \* what the handler waits for: "none", "next_field", "chunk"
    field,        \* the Field: "none", "held", "finished" (chunk gave None)
    status,       \* "reading", "refused" by the guard, "ended" by the client
    stage,        \* the parser: in the "preamble", "headers" or "data"
    buffer,       \* the parser: bytes pulled and not parsed
    draining,     \* Progress::draining
    unproductive, \* Progress::unproductive
    carry,        \* DelimiterScan::carry
    total,        \* bytes pulled so far
    skipping,     \* history: a Field was dropped unread since the parser last
                  \* produced something
    fresh,        \* history: the bytes pulled since then, after what the scan
                  \* had carried when it was dropped
    late          \* history: its delimiter had begun to arrive by then

parserVars == <<stage, buffer>>
guardVars == <<draining, unproductive, carry>>
histories == <<total, skipping, fresh, late>>
vars == <<call, field, status, parserVars, guardVars, histories>>

LastBytes(s, k) == SubSeq(s, Len(s) - k + 1, Len(s))
DelimiterSize == Len(Delimiter)
Chunks == UNION {[1 .. k -> Bytes] : k \in 1 .. MaxChunk}

TypeOK == /\ call \in {"none", "next_field", "chunk"}
          /\ field \in {"none", "held", "finished"}
          /\ status \in {"reading", "refused", "ended"}
          /\ stage \in {"preamble", "headers", "data"}
          /\ buffer \in Seq(Bytes)
          /\ draining \in BOOLEAN
          /\ unproductive \in 0 .. MaxBody
          /\ carry \in Seq(Bytes) /\ Len(carry) < DelimiterSize
          /\ total \in 0 .. MaxBody
          /\ skipping \in BOOLEAN
          /\ fresh \in Seq(Bytes)
          /\ late \in BOOLEAN

Init == /\ call = "none"
        /\ field = "none"
        /\ status = "reading"
        /\ stage = "preamble"
        /\ buffer = <<>>
        /\ draining = FALSE
        /\ unproductive = 0
        /\ carry = <<>>
        /\ total = 0
        /\ skipping = FALSE
        /\ fresh = <<>>
        /\ late = FALSE

-----------------------------------------------------------------------------
(* The handler.                                                             *)

(* multer refuses next_field while a Field is alive; nothing changes then.  *)
NextField == /\ status = "reading"
             /\ call = "none"
             /\ field = "none"
             /\ call' = "next_field"
             /\ UNCHANGED <<field, status, parserVars, guardVars, histories>>

Chunk == /\ status = "reading"
         /\ call = "none"
         /\ field = "held"
         /\ call' = "chunk"
         /\ UNCHANGED <<field, status, parserVars, guardVars, histories>>

(* A timeout around the call drops its future.                              *)
Cancel == /\ call # "none"
          /\ call' = "none"
          /\ UNCHANGED <<field, status, parserVars, guardVars, histories>>

-----------------------------------------------------------------------------
(* The parser.                                                              *)

(* Where the delimiters in s end.                                           *)
Delimiters(s) == {i \in DelimiterSize .. Len(s) :
                     SubSeq(s, i - DelimiterSize + 1, i) = Delimiter}
Beyond(s, i) == SubSeq(s, i + 1, Len(s))

(* The end of s that may be the start of a delimiter is not data yet.       *)
Beginning(s) == LastBytes(s, Max({k \in 0 .. Min({DelimiterSize - 1, Len(s)}) :
                                LastBytes(s, k) = SubSeq(Delimiter, 1, k)}))

(* Progress::made.                                                          *)
Made == /\ draining' = FALSE /\ unproductive' = 0 /\ UNCHANGED carry
        /\ skipping' = FALSE /\ fresh' = <<>> /\ late' = FALSE
        /\ UNCHANGED total

FindBoundary == /\ call = "next_field"
                /\ stage = "preamble"
                /\ Delimiters(buffer) # {}
                /\ stage' = "headers"
                /\ buffer' = Beyond(buffer, Min(Delimiters(buffer)))
                /\ UNCHANGED <<call, field, status, guardVars, histories>>

Blanks(s) == {i \in DOMAIN s : s[i] = Blank}

(* next_field returns a Field.                                              *)
ReadHeaders == /\ call = "next_field"
               /\ stage = "headers"
               /\ Blanks(buffer) # {}
               /\ stage' = "data"
               /\ buffer' = Beyond(buffer, Min(Blanks(buffer)))
               /\ Made
               /\ field' = "held"
               /\ call' = "none"
               /\ UNCHANGED status

(* Part data leaves the buffer, up to a delimiter if there is one.          *)
TakeData ==
    IF Delimiters(buffer) # {}
    THEN stage' = "headers" /\ buffer' = Beyond(buffer, Min(Delimiters(buffer)))
    ELSE buffer' = Beginning(buffer) /\ UNCHANGED stage

HasData == stage = "data" /\ buffer # Beginning(buffer)

(* next_field discards what is left of a dropped Field.                     *)
DiscardData == /\ call = "next_field"
               /\ HasData
               /\ TakeData
               /\ UNCHANGED <<call, field, status, guardVars, histories>>

(* chunk returns data ...                                                   *)
ReturnData == /\ call = "chunk"
              /\ HasData
              /\ TakeData
              /\ Made
              /\ call' = "none"
              /\ UNCHANGED <<field, status>>

(* ... or None after the last of it.                                        *)
ReturnNone == /\ call = "chunk"
              /\ stage = "headers"
              /\ Made
              /\ field' = "finished"
              /\ call' = "none"
              /\ UNCHANGED <<status, parserVars>>

Stuck == CASE stage = "preamble" -> Delimiters(buffer) = {}
           [] stage = "headers" -> call = "next_field" /\ Blanks(buffer) = {}
           [] stage = "data" -> ~HasData

-----------------------------------------------------------------------------
(* SkipGuard, DelimiterScan and GuardedBody.                                *)

(* What ends the part is in the buffer already, or a beginning of it is.     *)
DelimiterBegun == \/ stage = "headers"
                  \/ Delimiters(buffer) # {}
                  \/ Beginning(buffer) # <<>>

Skip == /\ skipping' = TRUE /\ fresh' = carry /\ late' = DelimiterBegun
        /\ UNCHANGED total

(* Mutant: a dropped Field is not told from a finished one.                 *)
DropFieldSilent == /\ status = "reading" /\ call = "none"
                   /\ field # "none"
                   /\ field' = "none"
                   /\ IF field = "held" THEN Skip ELSE UNCHANGED histories
                   /\ UNCHANGED <<call, status, parserVars, guardVars>>

(* After an error the handler reads no more, and what it drops then makes   *)
(* no difference.                                                           *)
DropField == /\ status = "reading" /\ call = "none"
             /\ field # "none"
             /\ field' = "none"
             /\ draining' = (draining \/ field = "held")
             /\ IF field = "held" THEN Skip ELSE UNCHANGED histories
             /\ UNCHANGED <<call, status, parserVars, unproductive, carry>>

(* Mutant: chunks are scanned one by one.                                    *)
CarryNothing(window) == <<>>
Carry(window) == LastBytes(window, Min({DelimiterSize - 1, Len(window)}))

(* poll_next while a part is skipped: nothing counts until its delimiter,   *)
(* and what follows the delimiter does.                                     *)
Feed(chunk) ==
    LET window == carry \o chunk
    IN IF Delimiters(window) # {}
       THEN /\ draining' = FALSE
            /\ unproductive' = Len(window) - Min(Delimiters(window))
            /\ carry' = <<>>
       ELSE /\ unproductive' = 0
            /\ carry' = Carry(window)
            /\ UNCHANGED draining

Pass(chunk) == /\ unproductive' = unproductive + Len(chunk)
               /\ UNCHANGED <<draining, carry>>

(* A Field whose delimiter was found gives None without a look at the body. *)
Polls == call = "next_field" \/ (call = "chunk" /\ stage = "data")

(* A chunk is let through to the parser.                                    *)
Pull(chunk) == /\ Polls
               /\ total + Len(chunk) <= MaxBody
               /\ draining \/ unproductive <= Limit
               /\ IF draining THEN Feed(chunk) ELSE Pass(chunk)
               /\ buffer' = buffer \o chunk
               /\ total' = total + Len(chunk)
               /\ fresh' = fresh \o chunk
               /\ UNCHANGED <<call, field, status, stage, skipping, late>>

(* The chunk that comes when too much is unproductive is not: 400.          *)
Refuse(chunk) == /\ Polls
                 /\ total + Len(chunk) <= MaxBody
                 /\ ~draining /\ unproductive > Limit
                 /\ Pass(chunk)
                 /\ status' = "refused"
                 /\ call' = "none"
                 /\ UNCHANGED <<field, parserVars, histories>>

(* The body ends, with its last delimiter or before it, or breaks off.      *)
BodyEnds == /\ Polls
            /\ Stuck
            /\ status' = "ended"
            /\ call' = "none"
            /\ UNCHANGED <<field, parserVars, guardVars, histories>>

-----------------------------------------------------------------------------
Handler == NextField \/ Chunk \/ Cancel \/ DropField

Parser == FindBoundary \/ ReadHeaders \/ DiscardData \/ ReturnData \/ ReturnNone

GuardedBody == \/ \E chunk \in Chunks : Pull(chunk) \/ Refuse(chunk)
               \/ BodyEnds

Next == Handler \/ Parser \/ GuardedBody

Spec == Init /\ [][Next]_vars

-----------------------------------------------------------------------------
(* Properties.                                                              *)

(* The bytes that came with no result and are not the data of a skipped     *)
(* part: those behind the first delimiter since its Field was dropped.      *)
Unaccounted == IF ~skipping THEN Len(fresh)
               ELSE IF Delimiters(fresh) = {} THEN 0
               ELSE Len(fresh) - Min(Delimiters(fresh))

(* However the handler reads, skips and cancels, however the body is cut    *)
(* into chunks and however many of them one poll pulls: no more than the    *)
(* limit and one chunk of such bytes come without a result, and GuardedBody *)
(* lifts the limit only while the parser is inside the skipped part, unless *)
(* the delimiter that ends it had begun to arrive when its Field was        *)
(* dropped; then the scan takes the delimiter after it for its end.         *)
GuardHolds == /\ Unaccounted <= Limit + MaxChunk
              /\ draining /\ ~late => stage = "data" /\ Delimiters(buffer) = {}

(* And a body is refused only if more than the limit of such bytes came:    *)
(* a part of any size may be skipped.                                       *)
RefusedOnlyStuck == status = "refused" => Unaccounted > Limit
=============================================================================
