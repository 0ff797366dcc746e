------------------------------ MODULE MCCanvas ------------------------------
(* Two nodes, a connection on each, two pixels, two draws by each. *)
EXTENDS Canvas, TLC

CONSTANTS n1, n2, c1, c2

MCNode   == {n1, n2}
MCConn   == {c1, c2}
MCNodeOf == c1 :> n1 @@ c2 :> n2
=============================================================================
