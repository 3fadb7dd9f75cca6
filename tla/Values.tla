------------------------------- MODULE Values -------------------------------
(* What the modules of responses and connections share.                    *)
CONSTANT None  \* an absent header, value, deadline, time
=============================================================================
