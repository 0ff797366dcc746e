------------------------------ MODULE MCResize ------------------------------
(* Two nodes with a connection each, and three shapes: between them a       *)
(* window grows, shrinks, and turns without doing either.                   *)
EXTENDS Resize

CONSTANTS n1, n2, c1, c2

MCNode   == {n1, n2}
MCConn   == {c1, c2}
MCNodeOf == c1 :> n1 @@ c2 :> n2
MCSize   == { [width |-> 1, height |-> 2], [width |-> 2, height |-> 1],
              [width |-> 2, height |-> 2] }
MCPixel  == { [x |-> 1, y |-> 0], [x |-> 1, y |-> 1] }
=============================================================================
