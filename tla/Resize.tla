------------------------------- MODULE Resize -------------------------------
(***************************************************************************)
(* Resizing the canvas: when its window has a new size, the SDL frontend   *)
(* asks a work queue per NUMA node to resize the framebuffers of the       *)
(* nodes, then resizes the one that is shown itself (sdl.c:103-138,        *)
(* main.c:99-141, framebuffer.c:100-125).  Meanwhile connection threads    *)
(* look at the sizes without a lock: to answer a client that asks for a    *)
(* pixel, and to allocate the framebuffer of their node.                   *)
(*                                                                         *)
(* A framebuffer is its size and the memory it points to.  Pixels are      *)
(* module Canvas's matter: where a store goes that races with a resize is  *)
(* undefined, so nothing is said of stores here.  A work queue appears as  *)
(* what module WorkQueue proves it to be: a sequence, served in order.     *)
(***************************************************************************)
EXTENDS Integers, SequencesExt

CONSTANTS Node, Shown,    \* whose framebuffer it is: a node's, or the one shown
          Conn, NodeOf,   \* the connections, and the node each runs on
          Size,           \* the sizes that the user gives to the window
          Pixel,          \* the pixels that clients ask for
          MaxResizes      \* how often: a bound

Fb    == Node \cup {Shown}
Block == [for : Fb, nr : {1, 2}]   \* memory: a resize holds two blocks

ASSUME FbAssumption   == Shown \notin Node /\ NodeOf \in [Conn -> Node]
ASSUME SizeAssumption == /\ Size \subseteq [width : Nat \ {0}, height : Nat \ {0}]
                         /\ Pixel \subseteq [x : Nat, y : Nat]
                         /\ MaxResizes \in Nat

VARIABLES size,      \* the size of each framebuffer
          pixels,    \* the block each points to
          length,    \* the length of each block in pixels, 0 if it is free
          resize,    \* the call of fb_resize that is under way for each
          list,      \* fb_list: the nodes that have a framebuffer
          queue,     \* the sizes queued for each node
          dead,      \* the nodes whose worker has ended
          mpc,       \* where the main thread is in sdl_update
          want,      \* the size that it has got from the window
          at,        \* its cursor in fb_list
          resizes,   \* how many resizes there have been
          cpc,       \* where each connection is
          newSize,   \* what the connection with fb_lock has loaded of the size
          asked,     \* the pixel each connection's client asks for
          missed     \* history: the framebuffers that the last resize left out

mainVars == <<mpc, want, at, resizes>>
connVars == <<cpc, newSize, asked>>
fbVars   == <<size, pixels, length, resize>>
vars == <<fbVars, list, queue, dead, mainVars, connVars, missed>>

Area(s) == s.width * s.height
NoWork  == [todo |-> << >>]
First(f) == [for |-> f, nr |-> 1]
NoPixel == [x |-> 0, y |-> 0]
NoSize  == [width |-> 0, height |-> 0]

Init ==
  \E s \in Size :
    /\ size = [f \in Fb |-> s] /\ pixels = [f \in Fb |-> First(f)]
    /\ length = [b \in Block |-> IF b = First(Shown) THEN Area(s) ELSE 0]
    /\ resize = [f \in Fb |-> NoWork]
    /\ list = << >> /\ queue = [n \in Node |-> << >>] /\ dead = {}
    /\ mpc = "idle" /\ want = s /\ at = 1 /\ resizes = 0
    /\ cpc = [c \in Conn |-> "start"] /\ newSize = NoSize
    /\ asked = [c \in Conn |-> NoPixel]
    /\ missed = {}

-----------------------------------------------------------------------------
(* fb_resize *)

(* What malloc returns: a block that is free. *)
FreeBlock(f) == CHOOSE b \in [for : {f}, nr : {1, 2}] : length[b] = 0

InTransit(f) == resize[f].todo # << >>

(* The order of the stores is meant to keep writes inside the memory.      *)
BeginResize(f, s) ==
  /\ length' = [length EXCEPT ![FreeBlock(f)] = Area(s)]
  /\ resize' = [resize EXCEPT ![f] =
       [size |-> s, new |-> FreeBlock(f), old |-> pixels[f],
        todo |-> IF Area(size[f]) > Area(s)
                 THEN << "width", "height", "pixels", "free" >>
                 ELSE << "pixels", "width", "height", "free" >>]]
  /\ UNCHANGED <<size, pixels>>

(* Wrong variants of an operator, each named for its error, stand before   *)
(* it: what the properties must be able to tell apart.                     *)
OldBlockReadLate(f) == pixels[f]
OldBlock(f) == resize[f].old

(* The next store, or the release of the old memory. *)
StoreField(f) ==
  LET r == resize[f]
      next == Head(r.todo)
  IN  /\ resize' = [resize EXCEPT ![f] =
                      IF next = "free" THEN NoWork ELSE [r EXCEPT !.todo = Tail(@)]]
      /\ size' = CASE next = "width"  -> [size EXCEPT ![f].width = r.size.width]
                   [] next = "height" -> [size EXCEPT ![f].height = r.size.height]
                   [] OTHER           -> size
      /\ pixels' = IF next = "pixels" THEN [pixels EXCEPT ![f] = r.new] ELSE pixels
      /\ length' = IF next = "free" THEN [length EXCEPT ![OldBlock(f)] = 0] ELSE length

-----------------------------------------------------------------------------
(* The worker of a node *)

NextSize(n) == Head(queue[n])

WorkerBegins(n) ==
  /\ n \notin dead /\ queue[n] # << >> /\ ~InTransit(n)
  /\ BeginResize(n, NextSize(n))
  /\ queue' = [queue EXCEPT ![n] = Tail(@)]
  /\ UNCHANGED <<list, dead, mainVars, connVars, missed>>

WorkerStores(n) ==
  /\ InTransit(n)
  /\ StoreField(n)
  /\ UNCHANGED <<list, queue, dead, mainVars, connVars, missed>>

(* malloc fails: the error handler asks for a shutdown and passes the      *)
(* error on, and the worker ends.                                          *)
WorkerFails(n) ==
  /\ n \notin dead /\ queue[n] # << >> /\ ~InTransit(n)
  /\ dead' = dead \cup {n} /\ queue' = [queue EXCEPT ![n] = Tail(@)]
  /\ UNCHANGED <<fbVars, list, mainVars, connVars, missed>>

-----------------------------------------------------------------------------
(* The main thread in sdl_update *)

WindowResized(s) ==
  /\ mpc = "idle" /\ resizes < MaxResizes
  /\ mpc' = "walk" /\ want' = s /\ at' = 1 /\ resizes' = resizes + 1
  /\ UNCHANGED <<fbVars, list, queue, dead, connVars, missed>>

EnqueueResizeSkipsOne ==
  /\ mpc = "walk" /\ at <= Len(list) /\ ~InTransit(list[at])
  /\ queue' = [queue EXCEPT ![list[at]] = Append(@, want)]
  /\ missed' = missed \ {list[at]}
  /\ at' = at + 2
  /\ UNCHANGED <<fbVars, list, dead, mpc, want, resizes, connVars>>

(* resize_cb walks over the list without its lock.  A worker holds the     *)
(* lock of its queue while it resizes.                                     *)
EnqueueResize ==
  /\ mpc = "walk" /\ at <= Len(list) /\ ~InTransit(list[at])
  /\ queue' = [queue EXCEPT ![list[at]] = Append(@, want)]
  /\ missed' = missed \ {list[at]}
  /\ at' = at + 1
  /\ UNCHANGED <<fbVars, list, dead, mpc, want, resizes, connVars>>

(* An allocation fails or the node has no queue: the server shuts down. *)
EnqueueFails ==
  /\ mpc = "walk" /\ at <= Len(list)
  /\ mpc' = "exit" /\ at' = 1
  /\ UNCHANGED <<fbVars, list, queue, dead, want, resizes, connVars, missed>>

EndWalkBeforeTheTail ==
  /\ mpc = "walk" /\ at >= Len(list)
  /\ mpc' = "texture" /\ at' = 1
  /\ UNCHANGED <<fbVars, list, queue, dead, want, resizes, connVars, missed>>

EndWalk ==
  /\ mpc = "walk" /\ at > Len(list)
  /\ mpc' = "texture" /\ at' = 1
  /\ UNCHANGED <<fbVars, list, queue, dead, want, resizes, connVars, missed>>

(* SDL_CreateTexture or malloc fails: the size shown stays as it was. *)
KeepShown ==
  /\ mpc = "texture"
  /\ mpc' = "idle" /\ missed' = missed \cup {Shown}
  /\ UNCHANGED <<fbVars, list, queue, dead, want, at, resizes, connVars>>

ResizeShown ==
  /\ mpc = "texture"
  /\ BeginResize(Shown, want)
  /\ mpc' = "resize" /\ missed' = missed \ {Shown}
  /\ UNCHANGED <<list, queue, dead, want, at, resizes, connVars>>

StoreShown ==
  /\ mpc = "resize" /\ InTransit(Shown)
  /\ StoreField(Shown)
  /\ UNCHANGED <<list, queue, dead, mainVars, connVars, missed>>

EndResize ==
  /\ mpc = "resize" /\ ~InTransit(Shown)
  /\ mpc' = "idle"
  /\ UNCHANGED <<fbVars, list, queue, dead, want, at, resizes, connVars, missed>>

-----------------------------------------------------------------------------
(* A connection thread *)

FbLockFree == \A c \in Conn : cpc[c] \notin {"width", "height", "append"}

Listed(n) == \E k \in DOMAIN list : list[k] = n

GetFb(c) ==
  /\ cpc[c] = "start" /\ FbLockFree
  /\ cpc' = [cpc EXCEPT ![c] = IF Listed(NodeOf[c]) THEN "serve" ELSE "width"]
  /\ UNCHANGED <<fbVars, list, queue, dead, mainVars, newSize, asked, missed>>

(* The size of a new framebuffer is that of the one shown, loaded by parts. *)
LoadWidth(c) ==
  /\ cpc[c] = "width"
  /\ newSize' = [newSize EXCEPT !.width = size[Shown].width]
  /\ cpc' = [cpc EXCEPT ![c] = "height"]
  /\ UNCHANGED <<fbVars, list, queue, dead, mainVars, asked, missed>>

LoadHeight(c) ==
  /\ cpc[c] = "height"
  /\ newSize' = [newSize EXCEPT !.height = size[Shown].height]
  /\ cpc' = [cpc EXCEPT ![c] = "append"]
  /\ UNCHANGED <<fbVars, list, queue, dead, mainVars, asked, missed>>

(* fb_alloc and llist_append.  The walk of resize_cb reaches what is       *)
(* appended before it has ended.                                           *)
AppendFb(c) ==
  LET n == NodeOf[c]
  IN  /\ cpc[c] = "append"
      /\ size' = [size EXCEPT ![n] = newSize]
      /\ length' = [length EXCEPT ![pixels[n]] = Area(newSize)]
      /\ list' = Append(list, n)
      /\ missed' = IF newSize # want THEN missed \cup {n} ELSE missed
      /\ cpc' = [cpc EXCEPT ![c] = "serve"]
      /\ newSize' = NoSize
      /\ UNCHANGED <<pixels, resize, queue, dead, mainVars, asked>>

(* PX x y, if the pixel is inside the framebuffer of the node. *)
AskPixel(c, p) ==
  /\ cpc[c] = "serve"
  /\ p.x < size[NodeOf[c]].width /\ p.y < size[NodeOf[c]].height
  /\ asked' = [asked EXCEPT ![c] = p]
  /\ cpc' = [cpc EXCEPT ![c] = "get"]
  /\ UNCHANGED <<fbVars, list, queue, dead, mainVars, newSize, missed>>

(* The assertions of fb_get_pixel, on the framebuffer that is shown. *)
GetPixel(c) ==
  /\ cpc[c] = "get"
  /\ LET holds == /\ asked[c].x < size[Shown].width
                  /\ asked[c].y < size[Shown].height
     IN  cpc' = [cpc EXCEPT ![c] = IF holds THEN "serve" ELSE "abort"]
  /\ asked' = [asked EXCEPT ![c] = NoPixel]
  /\ UNCHANGED <<fbVars, list, queue, dead, mainVars, newSize, missed>>

Aborted == \E c \in Conn : cpc[c] = "abort"

-----------------------------------------------------------------------------
Main == \/ EnqueueResize \/ EnqueueFails \/ EndWalk
        \/ KeepShown \/ ResizeShown \/ StoreShown \/ EndResize
        \/ \E s \in Size : WindowResized(s)

Worker(n) == WorkerBegins(n) \/ WorkerStores(n) \/ WorkerFails(n)

Connection(c) == \/ GetFb(c) \/ LoadWidth(c) \/ LoadHeight(c) \/ AppendFb(c)
                 \/ GetPixel(c)
                 \/ \E p \in Pixel : AskPixel(c, p)

Next == /\ ~Aborted
        /\ \/ Main \/ \E n \in Node : Worker(n)
           \/ \E c \in Conn : Connection(c)

Spec == Init /\ [][Next]_vars

-----------------------------------------------------------------------------
(* Properties *)

TypeOK ==
  /\ size \in [Fb -> [width : Nat, height : Nat]]
  /\ pixels \in [Fb -> Block] /\ length \in [Block -> Nat]
  /\ \A f \in Fb : Len(resize[f].todo) <= 4
  /\ list \in Seq(Node) /\ queue \in [Node -> Seq(Size)] /\ dead \subseteq Node
  /\ mpc \in {"idle", "walk", "texture", "resize", "exit"}
  /\ want \in Size /\ at \in 1 .. Len(list) + 1 /\ resizes \in 0 .. MaxResizes
  /\ cpc \in [Conn -> {"start", "width", "height", "append", "serve", "get", "abort"}]
  /\ newSize \in [width : Nat, height : Nat]
  /\ asked \in [Conn -> Pixel \cup {NoPixel}] /\ missed \subseteq Fb

(* The blocks that a framebuffer owns: while it is resized, two. *)
Allocated == {Shown} \cup {list[k] : k \in DOMAIN list}
Owned == {pixels[f] : f \in Allocated}
    \cup UNION {{resize[f].old, resize[f].new} : f \in {g \in Fb : InTransit(g)}}

(* What is allocated is what a framebuffer or a resize of it still needs,  *)
(* and a framebuffer that is not being resized has memory for the pixels   *)
(* its size promises (framebuffer.c:16-19, 100-125): no resize loses       *)
(* memory or frees what is in use, however the steps of the workers, of    *)
(* main and of an allocation follow each other.                            *)
MemoryFits ==
  /\ {b \in Block : length[b] # 0} = Owned
  /\ \A f \in Allocated : ~InTransit(f) => length[pixels[f]] = Area(size[f])

Settled == /\ mpc = "idle" /\ dead = {}
           /\ \A n \in Node : queue[n] = << >> /\ ~InTransit(n)

(* Once all resizes are done, every framebuffer has the size that the      *)
(* window has now, so that fb_coalesce (framebuffer.c:145) accepts it,     *)
(* however fast the resizes followed each other (main.c:99-141).           *)
(* Excepted are those the last resize left out: a framebuffer allocated    *)
(* with an old or half-loaded size behind the end of the walk, and the one *)
(* shown when there was no texture or no memory (sdl.c:131-137).           *)
SettledSizes == Settled => \A f \in Allocated \ missed : size[f] = want

(* framebuffer.h:80-81: assert(x < fb->size.width) and                     *)
(* assert(y < fb->size.height) hold whenever a client asks for a pixel.    *)
AssertionsHold == ~Aborted
=============================================================================
