------------------------------ MODULE MCLList -------------------------------
(* Four entries: a head, a tail and two between them. *)
EXTENDS LList

CONSTANTS e1, e2, e3, e4

MCEntry == {e1, e2, e3, e4}
=============================================================================
