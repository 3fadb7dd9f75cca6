--------------------------- MODULE MCH2Connection ---------------------------
(* Small instances of H2Connection for TLC.                                 *)
EXTENDS H2Connection, TLC

CONSTANTS s1, s2

TwoStreams == {s1, s2}
Symmetry == Permutations(Streams)
=============================================================================
