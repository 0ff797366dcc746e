------------------------------ MODULE MCServer ------------------------------
(* Every command line with up to two frontends, known or not; the same one *)
(* twice is allowed.                                                       *)
EXTENDS Server, SequencesExt

MCRequests == BoundedSeq(Kind \cup {"unknown"}, 2)
=============================================================================
