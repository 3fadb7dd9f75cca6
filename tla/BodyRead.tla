------------------------------ MODULE BodyRead ------------------------------
(***************************************************************************)
(* A route that takes its body as a whole (runtime.rs, prepare_matched,    *)
(* BodyMode::Buffered): the body is collected up to a limit, within a time.*)
(* Bytes arrive in any frames, and the task is polled some time after.     *)
(***************************************************************************)
EXTENDS Timed

CONSTANTS BodyLimit,   \* RoutePlan::body_limit
          ReadTimeout, \* body_read_timeout
          MaxUpload    \* bound: bytes of a body

ASSUME UploadAssumption == {BodyLimit, ReadTimeout, MaxUpload} \subseteq Nat

VARIABLES
    announced, \* Content-Length, or None if there is none that can be read
    uploaded,  \* bytes that arrived
    upload,    \* the body is "open", "complete" or "broken"
    started,   \* when its collection began, or None
    collected, \* bytes kept
    bodyTimer, \* the deadline of tokio::time::timeout, or None
    settled    \* the status answered, 200 for the handler's own, or None

bodyVars == <<announced, uploaded, upload, started, collected, bodyTimer, settled>>
uploadVars == <<timeVars, bodyVars>>

UploadInit == /\ TimedInit
              /\ announced \in {None} \union (0 .. MaxUpload)
              /\ uploaded = 0
              /\ upload = "open"
              /\ started = None
              /\ collected = 0
              /\ bodyTimer = None
              /\ settled = None

-----------------------------------------------------------------------------
(* The client; a body has no more bytes than announced, and no less unless  *)
(* it breaks off.                                                           *)
Upload == /\ settled = None
          /\ upload = "open"
          /\ Wake
          /\ UNCHANGED <<now, announced, started, collected, bodyTimer, settled>>

UploadByte == /\ Upload
              /\ uploaded < IF announced = None THEN MaxUpload ELSE announced
              /\ uploaded' = uploaded + 1
              /\ UNCHANGED upload

CompleteUpload == /\ Upload
                  /\ announced \in {None, uploaded}
                  /\ upload' = "complete"
                  /\ UNCHANGED uploaded

BreakOff == /\ Upload
            /\ upload' = "broken"
            /\ UNCHANGED uploaded

-----------------------------------------------------------------------------
(* The task.                                                                *)
Settle(status) == /\ settled' = status
                  /\ woken' = None
                  /\ UNCHANGED <<now, announced, uploaded, upload, started, bodyTimer>>

(* A body that is announced as too large is not read at all.                *)
TooLarge == announced # None /\ announced > BodyLimit

RefuseAnnounced == /\ woken # None /\ started = None
                   /\ TooLarge
                   /\ Settle(413)
                   /\ UNCHANGED collected

StartReading == /\ woken # None /\ started = None
                /\ ~TooLarge
                /\ started' = now
                /\ bodyTimer' = now + ReadTimeout
                /\ UNCHANGED <<timeVars, announced, uploaded, upload, collected, settled>>

Reading == woken # None /\ started # None /\ settled = None

(* Limited: the frame that would exceed the limit is not kept.              *)
Overrun == /\ Reading
           /\ uploaded > BodyLimit
           /\ Settle(413)
           /\ collected' \in collected .. BodyLimit

Whole == /\ Reading
         /\ uploaded <= BodyLimit /\ upload = "complete"
         /\ Settle(200)
         /\ collected' = uploaded

Interrupted == /\ Reading
               /\ uploaded <= BodyLimit /\ upload = "broken"
               /\ Settle(400)
               /\ UNCHANGED collected

(* The body is polled before the timer.  Mutant: the timer before the body. *)
LateFirst == /\ Reading
             /\ now >= bodyTimer
             /\ Settle(408)
             /\ UNCHANGED collected

Late == /\ Reading
        /\ uploaded <= BodyLimit /\ upload = "open"
        /\ now >= bodyTimer
        /\ Settle(408)
        /\ collected' = uploaded

AwaitMore == /\ Reading
             /\ uploaded <= BodyLimit /\ upload = "open"
             /\ now < bodyTimer
             /\ collected' = uploaded
             /\ woken' = None
             /\ UNCHANGED <<now, announced, uploaded, upload, started, bodyTimer, settled>>

UploadTick == settled = None /\ TickWith(bodyTimer) /\ UNCHANGED bodyVars

UploadNext == \/ UploadByte \/ CompleteUpload \/ BreakOff
              \/ RefuseAnnounced \/ StartReading
              \/ Overrun \/ Whole \/ Interrupted \/ Late \/ AwaitMore
              \/ UploadTick

UploadSpec == UploadInit /\ [][UploadNext]_uploadVars

-----------------------------------------------------------------------------
(* Never more than the limit is kept, even of a body that lies about its    *)
(* length.  A body is refused for what it is, one that has arrived is never *)
(* timed out however late the task is polled, and a slow one is given up in *)
(* time however steadily its bytes drip in.                                 *)
Justified ==
    /\ settled = 200 => upload = "complete" /\ uploaded = collected
    /\ settled = 413 => uploaded > BodyLimit \/ TooLarge
    /\ settled = 400 => upload = "broken"
    /\ settled = 408 => upload = "open" /\ now - started >= ReadTimeout
    /\ settled = None /\ started # None => now - started <= ReadTimeout + Delay

UploadSettled == collected <= BodyLimit /\ Justified
=============================================================================
