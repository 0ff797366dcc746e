----------------------------- MODULE MCNetwork -----------------------------
(* The threads of the network with two connections. *)
EXTENDS Network

CONSTANTS c1, c2

TwoConns     == {c1, c2}
LocalFaults  == AllFaults \ {"fb_alloc", "printf_cancels"}
FbAllocFault == {"fb_alloc"}
=============================================================================
