------------------------------- MODULE Canvas -------------------------------
(***************************************************************************)
(* Drawing and showing: connection threads store pixels in the framebuffer *)
(* of their NUMA node without any lock (network.c:385-397) while the main  *)
(* thread collects them into the framebuffer that is shown (fb_coalesce).  *)
(* The size of the framebuffers does not change here; module Resize is     *)
(* about that.                                                             *)
(*                                                                         *)
(* A pixel is 32 bits, loaded and stored at once; its alpha is also        *)
(* written alone.  Its color is which of the stores to its place made it:  *)
(* 0 is the black of a new framebuffer.                                    *)
(***************************************************************************)
EXTENDS Integers

CONSTANTS Node,       \* the NUMA nodes
          Conn,       \* the connections
          NodeOf,     \* the node each connection thread runs on
          Cells,      \* width * height
          MaxDraws,   \* how many pixels a connection draws: a bound
          NoNode

ASSUME NodeAssumption  == NoNode \notin Node /\ NodeOf \in [Conn -> Node]
ASSUME CellsAssumption == Cells \in Nat \ {0} /\ MaxDraws \in Nat

Cell == 0 .. Cells - 1

VARIABLES node_fb,   \* the framebuffer of each node: pixels
          listed,    \* the nodes whose framebuffer is on fb_list
          fb,        \* the framebuffer that is shown: whose pixel, and which
          mpc,       \* where the main thread is in fb_coalesce
          todo,      \* the framebuffers it has still to visit, in this pass
          mnode,     \* the one it visits
          j,         \* the cell it is at
          drawn,     \* how many pixels each connection has drawn; -1: no fb yet
          stores,    \* history: the number of stores to each place
          shown      \* history: the newest pixel of each place shown so far

mainVars == <<fb, mpc, todo, mnode, j, shown>>
vars == <<mainVars, node_fb, listed, drawn, stores>>

NewPixel == [color |-> 0, opaque |-> TRUE]

Init ==
  /\ node_fb = [n \in Node |-> [k \in Cell |-> NewPixel]] /\ listed = {}
  /\ fb = [k \in Cell |-> [node |-> NoNode, color |-> 0]]
  /\ mpc = "idle" /\ todo = {} /\ mnode = NoNode /\ j = 0
  /\ drawn = [c \in Conn |-> -1]
  /\ stores = [n \in Node |-> [k \in Cell |-> 0]]
  /\ shown = [n \in Node |-> [k \in Cell |-> -1]]

-----------------------------------------------------------------------------
(* A connection thread *)

(* Find the framebuffer of the node, or list a new one, whose pixels are   *)
(* black and opaque.  The main thread holds the lock of the list during a  *)
(* pass.                                                                   *)
GetFb(c) ==
  /\ drawn[c] = -1
  /\ NodeOf[c] \notin listed => mpc = "idle"
  /\ listed' = listed \cup {NodeOf[c]}
  /\ drawn' = [drawn EXCEPT ![c] = 0]
  /\ UNCHANGED <<mainVars, node_fb, stores>>

(* fb_set_pixel; the client chooses the alpha. *)
SetPixel(c, k, opaque) ==
  /\ drawn[c] \in 0 .. MaxDraws - 1
  /\ LET n == NodeOf[c]
     IN  /\ stores' = [stores EXCEPT ![n][k] = @ + 1]
         /\ node_fb' = [node_fb EXCEPT ![n][k] =
                          [color |-> stores[n][k] + 1, opaque |-> opaque]]
  /\ drawn' = [drawn EXCEPT ![c] = @ + 1]
  /\ UNCHANGED <<mainVars, listed>>

-----------------------------------------------------------------------------
(* The main thread: fb_coalesce under the lock of the list *)

StartPass ==
  /\ mpc = "idle"
  /\ mpc' = "next" /\ todo' = listed
  /\ UNCHANGED <<fb, mnode, j, shown, node_fb, listed, drawn, stores>>

(* The framebuffers are visited in an order that is shuffled every time. *)
VisitFb(n) ==
  /\ mpc = "next" /\ n \in todo
  /\ mnode' = n /\ todo' = todo \ {n} /\ j' = 0 /\ mpc' = "check"
  /\ UNCHANGED <<fb, shown, node_fb, listed, drawn, stores>>

EndPass ==
  /\ mpc = "next" /\ todo = {}
  /\ mpc' = "idle" /\ mnode' = NoNode
  /\ UNCHANGED <<fb, todo, j, shown, node_fb, listed, drawn, stores>>

(* Wrong variants of an operator, each named for its error, stand before   *)
(* it: what the properties must be able to tell apart.                     *)
NextCellPastTheLast ==
  IF j < Cells THEN mpc' = "check" /\ j' = j + 1 ELSE mpc' = "next" /\ UNCHANGED j

NextCellStopsEarly ==
  IF j + 2 < Cells THEN mpc' = "check" /\ j' = j + 1
                   ELSE mpc' = "next" /\ UNCHANGED j

NextCell ==
  IF j + 1 < Cells THEN mpc' = "check" /\ j' = j + 1
                   ELSE mpc' = "next" /\ UNCHANGED j

CheckAlpha ==
  /\ mpc = "check"
  /\ IF node_fb[mnode][j].opaque THEN mpc' = "copy" /\ UNCHANGED j ELSE NextCell
  /\ UNCHANGED <<fb, todo, mnode, shown, node_fb, listed, drawn, stores>>

CopyPixel ==
  /\ mpc = "copy"
  /\ fb' = [fb EXCEPT ![j] = [node |-> mnode, color |-> node_fb[mnode][j].color]]
  /\ shown' = [shown EXCEPT ![mnode][j] = node_fb[mnode][j].color]
  /\ mpc' = "reset"
  /\ UNCHANGED <<todo, mnode, j, node_fb, listed, drawn, stores>>

ResetAlphaForgotten ==
  /\ mpc = "reset" /\ NextCell
  /\ UNCHANGED <<fb, todo, mnode, shown, node_fb, listed, drawn, stores>>

(* The alpha of the pixel that is there now, which may be a newer one. *)
ResetAlpha ==
  /\ mpc = "reset"
  /\ node_fb' = [node_fb EXCEPT ![mnode][j] = [color |-> @.color, opaque |-> FALSE]]
  /\ NextCell
  /\ UNCHANGED <<fb, todo, mnode, shown, listed, drawn, stores>>

Main == \/ StartPass \/ EndPass \/ CheckAlpha \/ CopyPixel \/ ResetAlpha
        \/ \E n \in Node : VisitFb(n)

Next == \/ Main
        \/ \E c \in Conn : GetFb(c)
        \/ \E c \in Conn, k \in Cell, opaque \in BOOLEAN : SetPixel(c, k, opaque)

(* The main loop goes on; clients need not draw. *)
Spec == Init /\ [][Next]_vars /\ WF_vars(Main)

-----------------------------------------------------------------------------
(* Properties *)

TypeOK ==
  /\ node_fb \in [Node -> [Cell -> [color : Nat, opaque : BOOLEAN]]]
  /\ listed \subseteq Node /\ todo \subseteq listed
  /\ fb \in [Cell -> [node : Node \cup {NoNode}, color : Nat]]
  /\ mpc \in {"idle", "next", "check", "copy", "reset"}
  /\ mnode \in Node \cup {NoNode} /\ j \in Cell
  /\ drawn \in [Conn -> -1 .. MaxDraws]
  /\ stores \in [Node -> [Cell -> Nat]] /\ shown \in [Node -> [Cell -> Int]]

(* The main thread has copied the pixel but not yet reset its alpha. *)
AboutToReset(n, k) == mpc = "reset" /\ mnode = n /\ j = k

(* An opaque pixel is shown (framebuffer.c:148-162), unless it is drawn    *)
(* over before or was stored in the moment between the copy of its place   *)
(* and the reset of the alpha there: the reset then hides a pixel that has *)
(* never been copied.                                                      *)
DrawnIsShown ==
  \A n \in Node, k \in Cell, color \in 1 .. MaxDraws :
    /\ node_fb[n][k] = [color |-> color, opaque |-> TRUE]
    /\ ~AboutToReset(n, k)
    ~> shown[n][k] >= color \/ node_fb[n][k].color # color

(* No pixel is collected twice, and no older one after a newer one of the  *)
(* same node, although pixels are drawn while they are collected: what one *)
(* node has drawn long ago never covers again what another draws now       *)
(* (framebuffer.c:161-162).                                                *)
CollectedOnce ==
  [][\A n \in Node, k \in Cell :
       mpc = "copy" /\ mpc' = "reset" /\ mnode = n /\ j = k
         => shown'[n][k] > shown[n][k]]_vars
=============================================================================
