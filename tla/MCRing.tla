------------------------------ MODULE MCRing ------------------------------
(* The ring buffer on a buffer of 4 bytes and two byte values: strings of  *)
(* up to 4 bytes, one more than the ring can hold.                         *)
EXTENDS Ring

CONSTANTS a, b

MCByte    == {a, b}
MCChunks  == UNION {[1 .. n -> MCByte] : n \in 0 .. 4}
MCLengths == 0 .. 4
=============================================================================
