---------------------------- MODULE MCWorkQueue ----------------------------
(* One work queue with three pieces of work. *)
EXTENDS WorkQueue

CONSTANTS i1, i2, i3
MCItem == {i1, i2, i3}
=============================================================================
