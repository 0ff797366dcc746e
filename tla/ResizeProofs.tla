---------------------------- MODULE ResizeProofs ----------------------------
(***************************************************************************)
(* What holds of resizing the canvas (module Resize) for any nodes,        *)
(* connections, window sizes and pixels, and any number of resizes.        *)
(***************************************************************************)
EXTENDS Resize, SequenceTheorems, TLAPS

Sizes == [width : Nat \ {0}, height : Nat \ {0}]

(* What is left to do of a call of fb_resize, wherever it is.              *)
Shrinks == { << "width", "height", "pixels", "free" >>,
             << "height", "pixels", "free" >>, << "pixels", "free" >>, << "free" >> }
Grows   == { << "pixels", "width", "height", "free" >>,
             << "width", "height", "free" >>, << "height", "free" >> }
Call == [size : Sizes, new : Block, old : Block, todo : Shrinks \cup Grows]

Pending(f) == {resize[f].todo[k] : k \in DOMAIN resize[f].todo}

FbTypes == size \in [Fb -> Sizes] /\ resize \in [Fb -> Call \cup {NoWork}]

HasMemory(f) == f = Shown \/ Listed(f)

Other(b) == [for |-> b.for, nr |-> 3 - b.nr]

(* A call of fb_resize has two blocks of memory, and what it has stored is *)
(* in the framebuffer; otherwise the framebuffer has the block its size    *)
(* needs, or, before it is allocated, none.                                *)
Resizing(f) ==
  LET r == resize[f]
  IN  /\ r.old = Other(r.new) /\ length[r.new] = Area(r.size) /\ length[r.old] # 0
      /\ pixels[f] = IF "pixels" \in Pending(f) THEN r.old ELSE r.new
      /\ "width" \notin Pending(f) => size[f].width = r.size.width
      /\ "height" \notin Pending(f) => size[f].height = r.size.height
      /\ HasMemory(f)

Resized(f) ==
  /\ length[pixels[f]] = IF HasMemory(f) THEN Area(size[f]) ELSE 0
  /\ length[Other(pixels[f])] = 0

MemoryOf(f) == pixels[f].for = f /\ IF InTransit(f) THEN Resizing(f) ELSE Resized(f)

Memory == \A f \in Fb : MemoryOf(f)

Allocating(c) == cpc[c] \in {"width", "height", "append"}

(* fb_lock: one connection at a time allocates, for a node that has no     *)
(* framebuffer, and a size of which no part is 0.                          *)
OneAllocates ==
  /\ \A c, d \in Conn : Allocating(c) /\ Allocating(d) => c = d
  /\ \A c \in Conn :
       /\ Allocating(c) => ~Listed(NodeOf[c])
       /\ cpc[c] = "height" => newSize.width # 0
       /\ cpc[c] = "append" => newSize \in Sizes

(* Whoever resizes is entitled to: a worker whose node has a framebuffer,  *)
(* main in sdl_update.                                                     *)
WhoResizes ==
  /\ \A n \in Node : queue[n] # << >> => Listed(n)
  /\ InTransit(Shown) => mpc = "resize"

(* The size that a framebuffer will have once all that is queued is done.  *)
FinalSize(f, todo) == IF todo # << >> THEN todo[Len(todo)]
                      ELSE IF InTransit(f) THEN resize[f].size ELSE size[f]

(* It is the size of the window where main has been with it.               *)
FinalSizes ==
  /\ mpc # "exit" =>
       \A k \in DOMAIN list :
         (mpc = "walk" => k < at) /\ list[k] \notin missed \cup dead
           => FinalSize(list[k], queue[list[k]]) = want
  /\ mpc \in {"idle", "resize"} /\ Shown \notin missed => FinalSize(Shown, << >>) = want

Inv == /\ TypeOK /\ FbTypes /\ Memory /\ OneAllocates /\ WhoResizes /\ FinalSizes
-----------------------------------------------------------------------------
(* Sizes, blocks and what a call of fb_resize has left to do               *)

LEMMA AreaFacts ==
  ASSUME NEW s \in Sizes
  PROVE  Area(s) \in Nat /\ Area(s) # 0 /\ s \in [width : Nat, height : Nat]
<1>1. \A w, h \in Nat \ {0} : w * h \in Nat /\ w * h # 0
  OBVIOUS
<1>2. s.width \in Nat \ {0} /\ s.height \in Nat \ {0}
  BY DEF Sizes
<1>. QED  BY <1>1, <1>2 DEF Area, Sizes

LEMMA OtherFacts ==
  ASSUME NEW b \in Block
  PROVE  /\ Other(b) \in Block /\ Other(b) # b /\ Other(Other(b)) = b
         /\ Other(b).for = b.for
         /\ \A a \in Block : a.for = b.for => a = b \/ a = Other(b)
BY DEF Other, Block

LEMMA FirstFacts ==
  ASSUME NEW f \in Fb
  PROVE  First(f) \in Block /\ First(f).for = f
BY DEF First, Block

(* One thing after the other is done, the release of the memory last.      *)
LEMMA TodoFacts ==
  ASSUME NEW t \in Shrinks \cup Grows
  PROVE  /\ t # << >> /\ Len(t) <= 4
         /\ Head(t) = "free" => {t[k] : k \in DOMAIN t} = {"free"}
         /\ Head(t) # "free" =>
              /\ Head(t) \in {"width", "height", "pixels"}
              /\ Tail(t) \in Shrinks \cup Grows /\ Tail(t) # << >>
              /\ {Tail(t)[k] : k \in DOMAIN Tail(t)}
                   = {t[k] : k \in DOMAIN t} \ {Head(t)}
<1>1. CASE t = << "free" >>
  BY <1>1
<1>2. CASE t = << "pixels", "free" >>
  BY <1>2 DEF Shrinks
<1>3. CASE t = << "height", "free" >>
  BY <1>3 DEF Shrinks
<1>4. CASE t = << "height", "pixels", "free" >>
  BY <1>4 DEF Shrinks
<1>5. CASE t = << "width", "height", "free" >>
  BY <1>5 DEF Grows
<1>6. CASE t = << "width", "height", "pixels", "free" >>
  BY <1>6 DEF Shrinks
<1>7. CASE t = << "pixels", "width", "height", "free" >>
  BY <1>7 DEF Grows
<1>. QED  BY <1>1, <1>2, <1>3, <1>4, <1>5, <1>6, <1>7 DEF Shrinks, Grows

LEMMA CallFacts ==
  ASSUME FbTypes, NEW f \in Fb
  PROVE  /\ InTransit(f) => resize[f] \in Call /\ resize[f].todo \in Shrinks \cup Grows
         /\ ~InTransit(f) => resize[f] = NoWork
         /\ Len(resize[f].todo) <= 4
<1>1. NoWork.todo = << >>
  BY DEF NoWork
<1>2. CASE resize[f] = NoWork
  BY <1>1, <1>2 DEF InTransit
<1>3. CASE resize[f] \in Call
  <2>1. resize[f].todo \in Shrinks \cup Grows
    BY <1>3 DEF Call
  <2>. QED  BY <1>3, <2>1, TodoFacts DEF InTransit
<1>. QED  BY <1>2, <1>3 DEF FbTypes

-----------------------------------------------------------------------------
(* fb_resize                                                               *)

(* What changes no block of a framebuffer leaves it as it is.              *)
LEMMA Frame ==
  ASSUME TypeOK, FbTypes, NEW f \in Fb, MemoryOf(f),
         pixels'[f] = pixels[f], size'[f] = size[f], resize'[f] = resize[f],
         HasMemory(f)' = HasMemory(f),
         \A b \in Block : b.for = f => length'[b] = length[b]
  PROVE  MemoryOf(f)'
<1>1. pixels[f] \in Block /\ Other(pixels[f]) \in Block
      /\ Other(pixels[f]).for = pixels[f].for /\ pixels[f].for = f
  BY OtherFacts DEF TypeOK, MemoryOf
<1>2. length'[pixels[f]] = length[pixels[f]]
      /\ length'[Other(pixels[f])] = length[Other(pixels[f])]
  BY <1>1
<1>3. /\ InTransit(f)' = InTransit(f) /\ Pending(f)' = Pending(f)
      /\ Resized(f) => Resized(f)'
  BY <1>2 DEF InTransit, Pending, Resized
<1>4. ASSUME InTransit(f), Resizing(f) PROVE Resizing(f)'
  <2>1. resize[f].new \in Block /\ resize[f].old = Other(resize[f].new)
    BY <1>4, CallFacts DEF Call, Resizing
  <2>2. resize[f].new = pixels[f] \/ resize[f].new = Other(pixels[f])
    BY <1>4, <2>1, OtherFacts DEF Resizing
  <2>3. /\ length'[resize[f].new] = length[resize[f].new]
        /\ length'[resize[f].old] = length[resize[f].old]
    BY <1>1, <1>2, <2>1, <2>2, OtherFacts
  <2>. QED  BY <1>3, <1>4, <2>3 DEF Resizing
<1>. QED  BY <1>3, <1>4 DEF MemoryOf

(* A free block is there: the one that the framebuffer does not have.      *)
LEMMA FreeBlockFacts ==
  ASSUME TypeOK, FbTypes, NEW f \in Fb, MemoryOf(f), HasMemory(f), ~InTransit(f)
  PROVE  /\ pixels[f] \in Block /\ FreeBlock(f) = Other(pixels[f])
         /\ FreeBlock(f) \in Block /\ FreeBlock(f).for = f
         /\ length[pixels[f]] # 0
<1>1. /\ pixels[f] \in Block /\ pixels[f].for = f /\ Other(pixels[f]) \in Block
      /\ Other(pixels[f]).for = f /\ size[f] \in Sizes
  BY OtherFacts DEF TypeOK, FbTypes, MemoryOf
<1>2. length[Other(pixels[f])] = 0 /\ length[pixels[f]] = Area(size[f])
  BY DEF MemoryOf, Resized
<1>3. length[pixels[f]] # 0
  BY <1>1, <1>2, AreaFacts
<1>4. \A b \in [for : {f}, nr : {1, 2}] : b \in Block /\ b.for = f
  BY DEF Block
<1>5. Other(pixels[f]) \in [for : {f}, nr : {1, 2}]
  BY <1>1 DEF Block
<1>6. FreeBlock(f) \in [for : {f}, nr : {1, 2}] /\ length[FreeBlock(f)] = 0
  BY <1>2, <1>5 DEF FreeBlock
<1>7. FreeBlock(f) = Other(pixels[f])
  BY <1>1, <1>3, <1>4, <1>6, OtherFacts
<1>. QED  BY <1>1, <1>3, <1>7

LEMMA BeginResizeFacts ==
  ASSUME TypeOK, FbTypes, Memory, NEW f \in Fb, HasMemory(f), ~InTransit(f),
         NEW s \in Sizes, BeginResize(f, s), list' = list
  PROVE  /\ FbTypes' /\ length' \in [Block -> Nat] /\ Memory'
         /\ UNCHANGED <<size, pixels>>
         /\ InTransit(f)' /\ resize'[f].size = s
         /\ \A g \in Fb : g # f => resize'[g] = resize[g]
<1>1. MemoryOf(f) /\ resize \in [Fb -> Call \cup {NoWork}] /\ length \in [Block -> Nat]
  BY DEF Memory, FbTypes, TypeOK
<1>2. /\ pixels[f] \in Block /\ FreeBlock(f) = Other(pixels[f])
      /\ FreeBlock(f) \in Block /\ FreeBlock(f).for = f
      /\ length[pixels[f]] # 0
  BY <1>1, FreeBlockFacts
<1>3. Area(s) \in Nat /\ Area(s) # 0
  BY AreaFacts
<1>4. PICK t \in { << "width", "height", "pixels", "free" >>,
                  << "pixels", "width", "height", "free" >> } :
        resize' = [resize EXCEPT ![f] =
          [size |-> s, new |-> FreeBlock(f), old |-> pixels[f], todo |-> t]]
  BY DEF BeginResize
<1>5. t \in Shrinks \cup Grows /\ {t[k] : k \in DOMAIN t} = {"width", "height", "pixels", "free"}
  BY <1>4 DEF Shrinks, Grows
<1>6. resize'[f] = [size |-> s, new |-> FreeBlock(f), old |-> pixels[f], todo |-> t]
  BY <1>1, <1>4
<1>7. resize'[f] \in Call
  BY <1>2, <1>5, <1>6 DEF Call
<1>8. resize' \in [Fb -> Call \cup {NoWork}] /\ \A g \in Fb : g # f => resize'[g] = resize[g]
  BY <1>1, <1>4, <1>7
<1>9. /\ UNCHANGED <<size, pixels>>
      /\ length' = [length EXCEPT ![FreeBlock(f)] = Area(s)]
  BY DEF BeginResize
<1>10. /\ length' \in [Block -> Nat] /\ length'[FreeBlock(f)] = Area(s)
       /\ \A b \in Block : b # FreeBlock(f) => length'[b] = length[b]
  BY <1>1, <1>2, <1>3, <1>9
<1>11. InTransit(f)'
  <2>1. t # << >>
    BY <1>5, TodoFacts
  <2>. QED  BY <1>6, <2>1 DEF InTransit
<1>12. MemoryOf(f)'
  <2>1. Pending(f)' = {"width", "height", "pixels", "free"}
    BY <1>5, <1>6 DEF Pending
  <2>2. pixels[f] = Other(FreeBlock(f)) /\ pixels[f] # FreeBlock(f)
    BY <1>2, OtherFacts
  <2>3. length'[pixels[f]] # 0
    BY <1>2, <1>10, <2>2
  <2>4. HasMemory(f)'
    BY DEF HasMemory, Listed
  <2>5. Resizing(f)'
    BY <1>6, <1>9, <1>10, <2>1, <2>2, <2>3, <2>4 DEF Resizing
  <2>. QED  BY <1>1, <1>9, <1>11, <2>5 DEF MemoryOf
<1>13. ASSUME NEW g \in Fb, g # f PROVE MemoryOf(g)'
  <2>1. HasMemory(g)' = HasMemory(g)
    BY DEF HasMemory, Listed
  <2>2. \A b \in Block : b.for = g => length'[b] = length[b]
    BY <1>2, <1>10, <1>13
  <2>3. MemoryOf(g)
    BY DEF Memory
  <2>. QED  BY <1>8, <1>9, <1>13, <2>1, <2>2, <2>3, Frame
<1>14. Memory'
  BY <1>12, <1>13 DEF Memory
<1>. QED  BY <1>6, <1>8, <1>9, <1>10, <1>11, <1>14 DEF FbTypes

(* Each store brings the framebuffer nearer to its new size, the last step *)
(* finds it there.                                                         *)
LEMMA StoreFieldFacts ==
  ASSUME TypeOK, FbTypes, Memory, NEW f \in Fb, InTransit(f), StoreField(f), list' = list
  PROVE  /\ FbTypes' /\ pixels' \in [Fb -> Block] /\ length' \in [Block -> Nat] /\ Memory'
         /\ IF InTransit(f)' THEN resize'[f].size = resize[f].size
                            ELSE size'[f] = resize[f].size
         /\ \A g \in Fb : g # f => resize'[g] = resize[g] /\ size'[g] = size[g]
<1>1. /\ MemoryOf(f) /\ Resizing(f) /\ pixels[f].for = f
      /\ resize \in [Fb -> Call \cup {NoWork}] /\ length \in [Block -> Nat]
      /\ size \in [Fb -> Sizes] /\ pixels \in [Fb -> Block]
  BY DEF Memory, MemoryOf, FbTypes, TypeOK
<1>. DEFINE r == resize[f]
            next == Head(resize[f].todo)
<1>2. /\ r \in Call /\ r.todo \in Shrinks \cup Grows /\ r.size \in Sizes
      /\ r.new \in Block /\ r.old = Other(r.new)
  BY <1>1, CallFacts DEF Call, Resizing
<1>3. /\ r.old \in Block /\ r.old # r.new /\ r.old.for = r.new.for
      /\ r.new = Other(r.old)
  BY <1>2, OtherFacts
<1>4. r.old.for = f /\ r.new.for = f
  BY <1>1, <1>3 DEF Resizing
<1>5. /\ size[f] \in Sizes /\ r.size.width \in Nat \ {0} /\ r.size.height \in Nat \ {0}
  BY <1>1, <1>2 DEF Sizes
<1>6. CASE next = "free"
  <2>1. Pending(f) = {"free"}
    BY <1>2, <1>6, TodoFacts DEF Pending
  <2>2. pixels[f] = r.new /\ size[f] = r.size
    <3>1. pixels[f] = r.new /\ size[f].width = r.size.width /\ size[f].height = r.size.height
      BY <1>1, <2>1 DEF Resizing
    <3>. QED  BY <1>2, <1>5, <3>1 DEF Sizes
  <2>3. /\ resize' = [resize EXCEPT ![f] = NoWork]
        /\ size' = size /\ pixels' = pixels /\ length' = [length EXCEPT ![r.old] = 0]
    BY <1>6 DEF StoreField, OldBlock
  <2>4. /\ resize'[f] = NoWork /\ resize' \in [Fb -> Call \cup {NoWork}]
        /\ \A g \in Fb : g # f => resize'[g] = resize[g]
    BY <1>1, <2>3
  <2>5. /\ length' \in [Block -> Nat] /\ length'[r.old] = 0
        /\ \A b \in Block : b # r.old => length'[b] = length[b]
    BY <1>1, <1>3, <2>3
  <2>6. ~InTransit(f)'
    BY <2>4 DEF InTransit, NoWork
  <2>7. MemoryOf(f)'
    <3>1. HasMemory(f) /\ HasMemory(f)'
      BY <1>1 DEF Resizing, HasMemory, Listed
    <3>2. length'[pixels[f]] = Area(size[f])
      BY <1>1, <1>2, <1>3, <2>2, <2>5 DEF Resizing
    <3>3. length'[Other(pixels[f])] = 0
      BY <1>2, <2>2, <2>5
    <3>. QED  BY <1>1, <2>3, <2>6, <3>1, <3>2, <3>3 DEF MemoryOf, Resized
  <2>8. ASSUME NEW g \in Fb, g # f PROVE MemoryOf(g)'
    <3>1. HasMemory(g)' = HasMemory(g) /\ MemoryOf(g)
      BY DEF HasMemory, Listed, Memory
    <3>2. \A b \in Block : b.for = g => length'[b] = length[b]
      BY <1>4, <2>5, <2>8
    <3>. QED  BY <2>3, <2>4, <2>8, <3>1, <3>2, Frame
  <2>. QED  BY <1>1, <2>2, <2>3, <2>4, <2>5, <2>6, <2>7, <2>8 DEF Memory, FbTypes
<1>7. CASE next # "free"
  <2>1. /\ next \in {"width", "height", "pixels"} /\ Tail(r.todo) \in Shrinks \cup Grows
        /\ Tail(r.todo) # << >>
        /\ {Tail(r.todo)[k] : k \in DOMAIN Tail(r.todo)} = Pending(f) \ {next}
    BY <1>2, <1>7, TodoFacts DEF Pending
  <2>2. /\ resize' = [resize EXCEPT ![f] = [r EXCEPT !.todo = Tail(r.todo)]]
        /\ length' = length
    BY <1>7 DEF StoreField
  <2>3. /\ resize'[f] = [r EXCEPT !.todo = Tail(r.todo)]
        /\ resize'[f] \in Call
    BY <1>1, <1>2, <2>1, <2>2 DEF Call
  <2>4. /\ resize'[f].todo = Tail(r.todo) /\ resize'[f].size = r.size
        /\ resize'[f].new = r.new /\ resize'[f].old = r.old
    BY <1>2, <2>3 DEF Call
  <2>5. /\ resize' \in [Fb -> Call \cup {NoWork}]
        /\ \A g \in Fb : g # f => resize'[g] = resize[g]
    BY <1>1, <2>2, <2>3
  <2>6. InTransit(f)' /\ Pending(f)' = Pending(f) \ {next}
    BY <2>1, <2>4 DEF InTransit, Pending
  <2>7. /\ size' \in [Fb -> Sizes] /\ \A g \in Fb : g # f => size'[g] = size[g]
        /\ size'[f].width = IF next = "width" THEN r.size.width ELSE size[f].width
        /\ size'[f].height = IF next = "height" THEN r.size.height ELSE size[f].height
    <3>1. CASE next = "width"
      <4>1. size' = [size EXCEPT ![f].width = r.size.width]
        BY <3>1 DEF StoreField
      <4>. QED  BY <1>1, <1>5, <3>1, <4>1 DEF Sizes
    <3>2. CASE next = "height"
      <4>1. size' = [size EXCEPT ![f].height = r.size.height]
        BY <3>2 DEF StoreField
      <4>. QED  BY <1>1, <1>5, <3>2, <4>1 DEF Sizes
    <3>3. CASE next = "pixels"
      <4>1. size' = size
        BY <3>3 DEF StoreField
      <4>. QED  BY <1>1, <3>3, <4>1
    <3>. QED  BY <2>1, <3>1, <3>2, <3>3
  <2>8. /\ pixels' \in [Fb -> Block] /\ \A g \in Fb : g # f => pixels'[g] = pixels[g]
        /\ pixels'[f] = IF next = "pixels" THEN r.new ELSE pixels[f]
    BY <1>1, <1>2 DEF StoreField
  <2>9. MemoryOf(f)'
    <3>1. HasMemory(f)'
      BY <1>1 DEF Resizing, HasMemory, Listed
    <3>2. pixels'[f] = IF "pixels" \in Pending(f)' THEN r.old ELSE r.new
      BY <1>1, <2>6, <2>8 DEF Resizing
    <3>3. /\ "width" \notin Pending(f)' => size'[f].width = r.size.width
          /\ "height" \notin Pending(f)' => size'[f].height = r.size.height
      BY <1>1, <2>6, <2>7 DEF Resizing
    <3>4. length'[r.new] = Area(r.size) /\ length'[r.old] # 0
      BY <1>1, <2>2 DEF Resizing
    <3>5. Resizing(f)'
      BY <1>2, <2>4, <3>1, <3>2, <3>3, <3>4 DEF Resizing
    <3>6. pixels'[f].for = f
      BY <1>1, <1>4, <2>8
    <3>. QED  BY <2>6, <3>5, <3>6 DEF MemoryOf
  <2>10. ASSUME NEW g \in Fb, g # f PROVE MemoryOf(g)'
    <3>1. HasMemory(g)' = HasMemory(g) /\ MemoryOf(g)
      BY DEF HasMemory, Listed, Memory
    <3>. QED  BY <2>2, <2>5, <2>7, <2>8, <2>10, <3>1, Frame
  <2>. QED  BY <1>1, <2>2, <2>4, <2>5, <2>6, <2>7, <2>8, <2>9, <2>10 DEF Memory, FbTypes
<1>. QED  BY <1>6, <1>7

-----------------------------------------------------------------------------
LEMMA CallLength ==
  ASSUME NEW r \in Call \cup {NoWork}
  PROVE  Len(r.todo) <= 4
<1>1. CASE r = NoWork
  BY <1>1 DEF NoWork
<1>2. CASE r \in Call
  BY <1>2, TodoFacts DEF Call
<1>. QED  BY <1>1, <1>2

LEMMA SizeFacts == Size \subseteq Sizes /\ Node \subseteq Fb /\ Shown \in Fb \ Node
  BY SizeAssumption, FbAssumption DEF Sizes, Fb

(* An invariant for the framebuffers makes up their part of TypeOK.        *)
LEMMA TypeOfSizes ==
  ASSUME FbTypes
  PROVE  /\ size \in [Fb -> [width : Nat, height : Nat]]
         /\ \A f \in Fb : Len(resize[f].todo) <= 4
<1>1. \A f \in Fb : size[f] \in [width : Nat, height : Nat]
  BY AreaFacts DEF FbTypes
<1>. QED  BY <1>1, CallLength DEF FbTypes

LEMMA InitInv == Init => Inv
<1>. SUFFICES ASSUME Init PROVE Inv
  OBVIOUS
<1>1. PICK s \in Size :
        /\ size = [f \in Fb |-> s] /\ pixels = [f \in Fb |-> First(f)]
        /\ length = [b \in Block |-> IF b = First(Shown) THEN Area(s) ELSE 0]
        /\ want = s
  BY DEF Init
<1>2. /\ resize = [f \in Fb |-> NoWork] /\ list = << >> /\ dead = {} /\ missed = {}
      /\ queue = [n \in Node |-> << >>] /\ mpc = "idle" /\ at = 1 /\ resizes = 0
      /\ cpc = [c \in Conn |-> "start"] /\ newSize = NoSize
      /\ asked = [c \in Conn |-> NoPixel]
  BY DEF Init
<1>3. s \in Sizes /\ Area(s) \in Nat
  BY SizeFacts, AreaFacts
<1>4. FbTypes
  BY <1>1, <1>2, <1>3 DEF FbTypes
<1>5. pixels \in [Fb -> Block] /\ length \in [Block -> Nat]
  BY <1>1, <1>3, FirstFacts
<1>6. newSize \in [width : Nat, height : Nat]
  BY <1>2 DEF NoSize
<1>7. /\ list \in Seq(Node) /\ queue \in [Node -> Seq(Size)] /\ at \in 1 .. Len(list) + 1
      /\ resizes \in 0 .. MaxResizes
  BY <1>2, SizeAssumption
<1>8. cpc \in [Conn -> {"start", "width", "height", "append", "serve", "get", "abort"}]
      /\ asked \in [Conn -> Pixel \cup {NoPixel}]
  BY <1>2
<1>9. TypeOK
  BY <1>1, <1>2, <1>4, <1>5, <1>6, <1>7, <1>8, TypeOfSizes DEF TypeOK
<1>10. \A f \in Fb : ~InTransit(f)
  BY <1>2 DEF InTransit, NoWork
<1>11. ASSUME NEW f \in Fb PROVE MemoryOf(f)
  <2>1. /\ pixels[f] = First(f) /\ First(f) \in Block /\ First(f).for = f
        /\ Other(First(f)) \in Block /\ Other(First(f)) # First(f)
        /\ Other(First(f)).for = f
    BY <1>1, FirstFacts, OtherFacts
  <2>2. First(Shown).for = Shown
    BY SizeFacts, FirstFacts
  <2>3. HasMemory(f) <=> f = Shown
    BY <1>2 DEF HasMemory, Listed
  <2>4. length[First(f)] = IF f = Shown THEN Area(s) ELSE 0
    BY <1>1, <2>1, <2>2
  <2>5. length[Other(First(f))] = 0
    BY <1>1, <2>1, <2>2
  <2>. QED  BY <1>1, <1>10, <2>1, <2>3, <2>4, <2>5 DEF MemoryOf, Resized
<1>12. OneAllocates /\ WhoResizes
  BY <1>2, <1>10, SizeFacts DEF OneAllocates, Allocating, WhoResizes
<1>13. FinalSizes
  BY <1>1, <1>2, <1>10, SizeFacts DEF FinalSizes, FinalSize
<1>. QED  BY <1>4, <1>9, <1>11, <1>12, <1>13 DEF Inv, Memory

-----------------------------------------------------------------------------
(* The workers                                                             *)

(* What a queue's next size and its last one are.                          *)
LEMMA QueueFacts ==
  ASSUME NEW q \in Seq(Size), q # << >>
  PROVE  /\ Head(q) \in Size /\ Tail(q) \in Seq(Size)
         /\ Tail(q) # << >> => Tail(q)[Len(Tail(q))] = q[Len(q)]
         /\ Tail(q) = << >> => Head(q) = q[Len(q)]
<1>1. Len(q) \in Nat \ {0} /\ Head(q) = q[1]
  BY EmptySeq
<1>2. /\ Head(q) \in Size /\ Tail(q) \in Seq(Size) /\ Len(Tail(q)) = Len(q) - 1
      /\ \A i \in 1 .. Len(Tail(q)) : Tail(q)[i] = q[i + 1]
  BY HeadTailProperties
<1>3. Tail(q) = << >> => Len(Tail(q)) = 0
  BY EmptySeq
<1>4. Tail(q) # << >> => Len(Tail(q)) \in 1 .. Len(Tail(q))
  BY <1>2, EmptySeq
<1>. QED  BY <1>1, <1>2, <1>3, <1>4

LEMMA ListFacts ==
  ASSUME TypeOK, NEW k \in DOMAIN list
  PROVE  /\ list[k] \in Node /\ Listed(list[k]) /\ list[k] \in Fb /\ list[k] # Shown
         /\ queue[list[k]] \in Seq(Size)
<1>1. list \in Seq(Node) /\ queue \in [Node -> Seq(Size)]
  BY DEF TypeOK
<1>2. list[k] \in Node
  BY <1>1, LenProperties
<1>. QED  BY <1>1, <1>2, SizeFacts DEF Listed

LEMMA WorkerBeginsInv ==
  ASSUME Inv, NEW n \in Node, WorkerBegins(n)
  PROVE  Inv'
<1>. DEFINE s == NextSize(n)
<1>1. /\ TypeOK /\ FbTypes /\ Memory /\ OneAllocates /\ WhoResizes /\ FinalSizes
      /\ n \in Fb /\ n # Shown /\ queue[n] # << >> /\ queue[n] \in Seq(Size)
      /\ ~InTransit(n) /\ BeginResize(n, s)
      /\ queue' = [queue EXCEPT ![n] = Tail(queue[n])]
      /\ UNCHANGED <<list, dead, mainVars, connVars, missed>>
  BY SizeFacts DEF Inv, WorkerBegins, TypeOK
<1>2. /\ s = Head(queue[n]) /\ s \in Size /\ s \in Sizes
  BY <1>1, QueueFacts, SizeFacts DEF NextSize
<1>3. HasMemory(n) /\ Listed(n)
  BY <1>1 DEF WhoResizes, HasMemory
<1>4. /\ FbTypes' /\ length' \in [Block -> Nat] /\ Memory'
      /\ UNCHANGED <<size, pixels>>
      /\ InTransit(n)' /\ resize'[n].size = s
      /\ \A g \in Fb : g # n => resize'[g] = resize[g]
  BY <1>1, <1>2, <1>3, BeginResizeFacts
<1>5. /\ queue' \in [Node -> Seq(Size)] /\ queue'[n] = Tail(queue[n])
      /\ \A m \in Node : m # n => queue'[m] = queue[m]
  BY <1>1, QueueFacts DEF TypeOK
<1>6. TypeOK'
  <2>1. \A f \in Fb : Len(resize'[f].todo) <= 4
    BY <1>4, CallLength DEF FbTypes
  <2>. QED  BY <1>1, <1>4, <1>5, <2>1 DEF TypeOK, mainVars, connVars
<1>7. OneAllocates'
  BY <1>1 DEF OneAllocates, Allocating, Listed, connVars
<1>8. WhoResizes'
  <2>1. \A m \in Node : queue'[m] # << >> => Listed(m)'
    BY <1>1, <1>3, <1>5 DEF WhoResizes, Listed
  <2>2. InTransit(Shown)' => mpc' = "resize"
    BY <1>1, <1>4, SizeFacts DEF WhoResizes, InTransit, mainVars
  <2>. QED  BY <2>1, <2>2 DEF WhoResizes
<1>9. FinalSizes'
  <2>1. ASSUME NEW k \in DOMAIN list, list[k] # n
        PROVE  FinalSize(list[k], queue[list[k]])' = FinalSize(list[k], queue[list[k]])
    BY <1>1, <1>4, <1>5, <2>1, ListFacts DEF FinalSize, InTransit
  <2>2. ASSUME NEW k \in DOMAIN list, list[k] = n
        PROVE  FinalSize(list[k], queue[list[k]])' = FinalSize(list[k], queue[list[k]])
    <3>1. FinalSize(n, queue[n]) = queue[n][Len(queue[n])]
      BY <1>1 DEF FinalSize
    <3>2. FinalSize(n, queue[n])' = queue[n][Len(queue[n])]
      BY <1>1, <1>2, <1>4, <1>5, QueueFacts DEF FinalSize
    <3>. QED  BY <1>1, <2>2, <3>1, <3>2
  <2>3. FinalSize(Shown, << >>)' = FinalSize(Shown, << >>)
    BY <1>1, <1>4, SizeFacts DEF FinalSize, InTransit
  <2>. QED  BY <1>1, <2>1, <2>2, <2>3 DEF FinalSizes, mainVars
<1>. QED  BY <1>4, <1>6, <1>7, <1>8, <1>9 DEF Inv

LEMMA WorkerStoresInv ==
  ASSUME Inv, NEW n \in Node, WorkerStores(n)
  PROVE  Inv'
<1>1. /\ TypeOK /\ FbTypes /\ Memory /\ OneAllocates /\ WhoResizes /\ FinalSizes
      /\ n \in Fb /\ n # Shown /\ InTransit(n) /\ StoreField(n)
      /\ UNCHANGED <<list, queue, dead, mainVars, connVars, missed>>
  BY SizeFacts DEF Inv, WorkerStores
<1>2. /\ FbTypes' /\ pixels' \in [Fb -> Block] /\ length' \in [Block -> Nat] /\ Memory'
      /\ IF InTransit(n)' THEN resize'[n].size = resize[n].size
                         ELSE size'[n] = resize[n].size
      /\ \A g \in Fb : g # n => resize'[g] = resize[g] /\ size'[g] = size[g]
  BY <1>1, StoreFieldFacts
<1>3. TypeOK'
  <2>1. \A f \in Fb : Len(resize'[f].todo) <= 4
    BY <1>2, CallLength DEF FbTypes
  <2>2. size' \in [Fb -> [width : Nat, height : Nat]]
    BY <1>2, AreaFacts DEF FbTypes
  <2>. QED  BY <1>1, <1>2, <2>1, <2>2 DEF TypeOK, mainVars, connVars
<1>4. OneAllocates'
  BY <1>1 DEF OneAllocates, Allocating, Listed, connVars
<1>5. WhoResizes'
  BY <1>1, <1>2, SizeFacts DEF WhoResizes, Listed, InTransit, mainVars
<1>6. FinalSizes'
  <2>1. ASSUME NEW k \in DOMAIN list
        PROVE  FinalSize(list[k], queue[list[k]])' = FinalSize(list[k], queue[list[k]])
    BY <1>1, <1>2, <2>1, ListFacts DEF FinalSize, InTransit
  <2>2. FinalSize(Shown, << >>)' = FinalSize(Shown, << >>)
    BY <1>1, <1>2, SizeFacts DEF FinalSize, InTransit
  <2>. QED  BY <1>1, <2>1, <2>2 DEF FinalSizes, mainVars
<1>. QED  BY <1>2, <1>3, <1>4, <1>5, <1>6 DEF Inv

LEMMA WorkerFailsInv ==
  ASSUME Inv, NEW n \in Node, WorkerFails(n)
  PROVE  Inv'
<1>1. /\ TypeOK /\ FbTypes /\ Memory /\ OneAllocates /\ WhoResizes /\ FinalSizes
      /\ queue[n] # << >> /\ queue[n] \in Seq(Size)
      /\ dead' = dead \cup {n}
      /\ queue' = [queue EXCEPT ![n] = Tail(queue[n])]
      /\ UNCHANGED <<size, pixels, length, resize, list, mainVars, connVars, missed>>
  BY DEF Inv, WorkerFails, TypeOK, fbVars
<1>2. /\ queue' \in [Node -> Seq(Size)]
      /\ \A m \in Node : m # n => queue'[m] = queue[m]
  BY <1>1, QueueFacts DEF TypeOK
<1>3. TypeOK'
  BY <1>1, <1>2 DEF TypeOK, mainVars, connVars
<1>4. FbTypes' /\ Memory' /\ OneAllocates'
  BY <1>1 DEF FbTypes, Memory, MemoryOf, Resizing, Resized, HasMemory, Listed, Pending,
              InTransit, OneAllocates, Allocating, connVars
<1>5. WhoResizes'
  BY <1>1, <1>2 DEF WhoResizes, Listed, InTransit, mainVars
<1>6. FinalSizes'
  BY <1>1, <1>2, ListFacts DEF FinalSizes, FinalSize, InTransit, mainVars
<1>. QED  BY <1>3, <1>4, <1>5, <1>6 DEF Inv

-----------------------------------------------------------------------------
(* Main                                                                    *)

LEMMA WalkInv ==
  ASSUME Inv, \/ \E s \in Size : WindowResized(s)
              \/ EnqueueResize \/ EnqueueFails \/ EndWalk
  PROVE  Inv'
<1>1. /\ TypeOK /\ FbTypes /\ Memory /\ OneAllocates /\ WhoResizes /\ FinalSizes
      /\ list \in Seq(Node) /\ Len(list) \in Nat /\ DOMAIN list = 1 .. Len(list)
      /\ at \in 1 .. Len(list) + 1 /\ resizes \in 0 .. MaxResizes
      /\ MaxResizes \in Nat
  BY LenProperties, SizeAssumption DEF Inv, TypeOK
<1>2. UNCHANGED <<size, pixels, length, resize, list, dead, connVars>>
  BY DEF WindowResized, EnqueueResize, EnqueueFails, EndWalk, fbVars
<1>3. FbTypes' /\ Memory' /\ OneAllocates'
  BY <1>1, <1>2 DEF FbTypes, Memory, MemoryOf, Resizing, Resized, HasMemory, Listed, Pending,
              InTransit, OneAllocates, Allocating, connVars
<1>4. CASE \E s \in Size : WindowResized(s)
  <2>1. PICK s \in Size : WindowResized(s)
    BY <1>4
  <2>2. /\ mpc' = "walk" /\ want' = s /\ at' = 1 /\ resizes' = resizes + 1
        /\ resizes < MaxResizes /\ queue' = queue /\ missed' = missed /\ mpc = "idle"
    BY <2>1 DEF WindowResized
  <2>3. TypeOK'
    BY <1>1, <1>2, <2>2 DEF TypeOK, connVars
  <2>4. WhoResizes'
    BY <1>1, <1>2, <2>2 DEF WhoResizes, Listed, InTransit
  <2>5. FinalSizes'
    BY <1>1, <1>2, <2>2 DEF FinalSizes
  <2>. QED  BY <1>3, <2>3, <2>4, <2>5 DEF Inv
<1>5. CASE EnqueueResize
  <2>1. /\ mpc = "walk" /\ at <= Len(list) /\ ~InTransit(list[at])
        /\ queue' = [queue EXCEPT ![list[at]] = Append(queue[list[at]], want)]
        /\ missed' = missed \ {list[at]} /\ at' = at + 1
        /\ UNCHANGED <<mpc, want, resizes>>
    BY <1>5 DEF EnqueueResize
  <2>2. PICK n : n = list[at]
    OBVIOUS
  <2>3. n \in Node /\ Listed(n) /\ queue[n] \in Seq(Size) /\ want \in Size
    BY <1>1, <2>1, <2>2, ListFacts, SMTT(30) DEF TypeOK
  <2>4. /\ Append(queue[n], want) \in Seq(Size) /\ Append(queue[n], want) # << >>
        /\ Append(queue[n], want)[Len(Append(queue[n], want))] = want
    BY <2>3, AppendProperties
  <2>5. /\ queue' \in [Node -> Seq(Size)] /\ queue'[n] = Append(queue[n], want)
        /\ \A m \in Node : m # n => queue'[m] = queue[m]
    BY <1>1, <2>1, <2>2, <2>3, <2>4 DEF TypeOK
  <2>6. TypeOK'
    BY <1>1, <1>2, <2>1, <2>5, SMTT(30) DEF TypeOK, connVars
  <2>7. WhoResizes'
    BY <1>1, <1>2, <2>1, <2>3, <2>5 DEF WhoResizes, Listed, InTransit
  <2>8. ASSUME NEW k \in DOMAIN list, k < at', list[k] \notin missed' \cup dead
        PROVE  FinalSize(list[k], queue[list[k]])' = want
    <3>1. CASE list[k] = n
      BY <1>2, <2>4, <2>5, <3>1 DEF FinalSize
    <3>2. CASE list[k] # n
      <4>1. k < at /\ list[k] \notin missed \cup dead
        BY <1>1, <2>1, <2>2, <2>8, <3>2
      <4>2. FinalSize(list[k], queue[list[k]]) = want
        BY <1>1, <2>1, <4>1 DEF FinalSizes
      <4>. QED  BY <1>1, <1>2, <2>5, <3>2, <4>2, ListFacts DEF FinalSize, InTransit
    <3>. QED  BY <3>1, <3>2
  <2>9. FinalSizes'
    BY <1>2, <2>1, <2>8 DEF FinalSizes
  <2>. QED  BY <1>3, <2>6, <2>7, <2>9 DEF Inv
<1>6. CASE EnqueueFails
  <2>1. /\ mpc' = "exit" /\ at' = 1 /\ mpc = "walk"
        /\ UNCHANGED <<queue, want, resizes, missed>>
    BY <1>6 DEF EnqueueFails
  <2>2. TypeOK'
    BY <1>1, <1>2, <2>1 DEF TypeOK, connVars
  <2>3. WhoResizes' /\ FinalSizes'
    BY <1>1, <1>2, <2>1 DEF WhoResizes, Listed, InTransit, FinalSizes
  <2>. QED  BY <1>3, <2>2, <2>3 DEF Inv
<1>7. CASE EndWalk
  <2>1. /\ mpc' = "texture" /\ at' = 1 /\ mpc = "walk" /\ at > Len(list)
        /\ UNCHANGED <<queue, want, resizes, missed>>
    BY <1>7 DEF EndWalk
  <2>2. TypeOK'
    BY <1>1, <1>2, <2>1 DEF TypeOK, connVars
  <2>3. WhoResizes'
    BY <1>1, <1>2, <2>1 DEF WhoResizes, Listed, InTransit
  <2>4. \A k \in DOMAIN list : k < at
    BY <1>1, <2>1
  <2>5. FinalSizes'
    BY <1>1, <1>2, <2>1, <2>4 DEF FinalSizes, FinalSize, InTransit
  <2>. QED  BY <1>3, <2>2, <2>3, <2>5 DEF Inv
<1>. QED  BY <1>4, <1>5, <1>6, <1>7

LEMMA KeepShownInv ==
  ASSUME Inv, KeepShown \/ EndResize
  PROVE  Inv'
<1>1. /\ TypeOK /\ FbTypes /\ Memory /\ OneAllocates /\ WhoResizes /\ FinalSizes
      /\ UNCHANGED <<size, pixels, length, resize, list, queue, dead, want, at, resizes,
                     connVars>>
      /\ mpc' = "idle" /\ mpc \in {"texture", "resize"} /\ ~InTransit(Shown)
      /\ \/ mpc = "texture" /\ missed' = missed \cup {Shown}
         \/ mpc = "resize" /\ missed' = missed
  BY DEF Inv, KeepShown, EndResize, fbVars, WhoResizes
<1>2. TypeOK'
  BY <1>1, SizeFacts DEF TypeOK, connVars
<1>3. FbTypes' /\ Memory' /\ OneAllocates'
  BY <1>1 DEF FbTypes, Memory, MemoryOf, Resizing, Resized, HasMemory, Listed, Pending,
              InTransit, OneAllocates, Allocating, connVars
<1>4. WhoResizes'
  BY <1>1 DEF WhoResizes, Listed, InTransit
<1>5. FinalSizes'
  BY <1>1, ListFacts DEF FinalSizes, FinalSize, InTransit
<1>. QED  BY <1>2, <1>3, <1>4, <1>5 DEF Inv

LEMMA ResizeShownInv ==
  ASSUME Inv, ResizeShown
  PROVE  Inv'
<1>1. /\ TypeOK /\ FbTypes /\ Memory /\ OneAllocates /\ WhoResizes /\ FinalSizes
      /\ UNCHANGED <<list, queue, dead, want, at, resizes, connVars>>
      /\ mpc = "texture" /\ mpc' = "resize" /\ missed' = missed \ {Shown}
      /\ BeginResize(Shown, want) /\ want \in Sizes /\ Shown \in Fb
      /\ ~InTransit(Shown) /\ HasMemory(Shown)
  BY SizeFacts DEF Inv, ResizeShown, WhoResizes, HasMemory, TypeOK
<1>2. /\ FbTypes' /\ length' \in [Block -> Nat] /\ Memory'
      /\ UNCHANGED <<size, pixels>>
      /\ InTransit(Shown)' /\ resize'[Shown].size = want
      /\ \A g \in Fb : g # Shown => resize'[g] = resize[g]
  BY <1>1, BeginResizeFacts
<1>3. TypeOK'
  <2>1. \A f \in Fb : Len(resize'[f].todo) <= 4
    BY <1>2, CallLength DEF FbTypes
  <2>. QED  BY <1>1, <1>2, <2>1 DEF TypeOK, connVars
<1>4. OneAllocates' /\ WhoResizes'
  BY <1>1 DEF OneAllocates, Allocating, Listed, connVars, WhoResizes
<1>5. FinalSizes'
  <2>1. ASSUME NEW k \in DOMAIN list
        PROVE  FinalSize(list[k], queue[list[k]])' = FinalSize(list[k], queue[list[k]])
    BY <1>1, <1>2, <2>1, ListFacts DEF FinalSize, InTransit
  <2>2. FinalSize(Shown, << >>)' = want
    BY <1>2 DEF FinalSize
  <2>. QED  BY <1>1, <2>1, <2>2, ListFacts DEF FinalSizes
<1>. QED  BY <1>2, <1>3, <1>4, <1>5 DEF Inv

LEMMA StoreShownInv ==
  ASSUME Inv, StoreShown
  PROVE  Inv'
<1>1. /\ TypeOK /\ FbTypes /\ Memory /\ OneAllocates /\ WhoResizes /\ FinalSizes
      /\ UNCHANGED <<list, queue, dead, mainVars, connVars, missed>>
      /\ mpc = "resize" /\ InTransit(Shown) /\ StoreField(Shown) /\ Shown \in Fb
  BY SizeFacts DEF Inv, StoreShown
<1>2. /\ FbTypes' /\ pixels' \in [Fb -> Block] /\ length' \in [Block -> Nat] /\ Memory'
      /\ IF InTransit(Shown)' THEN resize'[Shown].size = resize[Shown].size
                             ELSE size'[Shown] = resize[Shown].size
      /\ \A g \in Fb : g # Shown => resize'[g] = resize[g] /\ size'[g] = size[g]
  BY <1>1, StoreFieldFacts
<1>3. TypeOK'
  <2>1. \A f \in Fb : Len(resize'[f].todo) <= 4
    BY <1>2, CallLength DEF FbTypes
  <2>2. size' \in [Fb -> [width : Nat, height : Nat]]
    BY <1>2, AreaFacts DEF FbTypes
  <2>. QED  BY <1>1, <1>2, <2>1, <2>2 DEF TypeOK, mainVars, connVars
<1>4. OneAllocates' /\ WhoResizes'
  BY <1>1 DEF OneAllocates, Allocating, Listed, connVars, mainVars, WhoResizes
<1>5. FinalSizes'
  <2>1. ASSUME NEW k \in DOMAIN list
        PROVE  FinalSize(list[k], queue[list[k]])' = FinalSize(list[k], queue[list[k]])
    BY <1>1, <1>2, <2>1, ListFacts DEF FinalSize, InTransit
  <2>2. FinalSize(Shown, << >>)' = FinalSize(Shown, << >>)
    BY <1>1, <1>2 DEF FinalSize
  <2>. QED  BY <1>1, <2>1, <2>2 DEF FinalSizes, mainVars
<1>. QED  BY <1>2, <1>3, <1>4, <1>5 DEF Inv

-----------------------------------------------------------------------------
(* The connections                                                         *)

(* Whatever a connection does but append changes no framebuffer.           *)
LEMMA LookInv ==
  ASSUME Inv, NEW c \in Conn,
         \/ GetFb(c) \/ LoadWidth(c) \/ LoadHeight(c) \/ GetPixel(c)
         \/ \E p \in Pixel : AskPixel(c, p)
  PROVE  Inv'
<1>1. /\ TypeOK /\ FbTypes /\ Memory /\ OneAllocates /\ WhoResizes /\ FinalSizes
      /\ size[Shown].width \in Nat \ {0} /\ size[Shown].height \in Nat \ {0}
      /\ cpc \in [Conn -> {"start", "width", "height", "append", "serve", "get", "abort"}]
      /\ newSize \in [width : Nat, height : Nat]
      /\ asked \in [Conn -> Pixel \cup {NoPixel}]
  BY SizeFacts DEF Inv, FbTypes, Sizes, TypeOK
<1>2. UNCHANGED <<size, pixels, length, resize, list, queue, dead, mainVars, missed>>
  BY DEF GetFb, LoadWidth, LoadHeight, GetPixel, AskPixel, fbVars
<1>3. FbTypes' /\ Memory' /\ WhoResizes' /\ FinalSizes'
  BY <1>1, <1>2 DEF FbTypes, Memory, MemoryOf, Resizing, Resized, HasMemory, Listed, Pending,
              InTransit, WhoResizes, FinalSizes, FinalSize, mainVars
<1>4. SUFFICES /\ cpc' \in [Conn -> {"start", "width", "height", "append", "serve", "get",
                                     "abort"}]
               /\ newSize' \in [width : Nat, height : Nat]
               /\ asked' \in [Conn -> Pixel \cup {NoPixel}]
               /\ OneAllocates'
  BY <1>1, <1>2, <1>3 DEF Inv, TypeOK, mainVars
<1>5. CASE GetFb(c)
  <2>1. /\ FbLockFree /\ UNCHANGED <<newSize, asked>>
        /\ cpc' = [cpc EXCEPT ![c] = IF Listed(NodeOf[c]) THEN "serve" ELSE "width"]
    BY <1>5 DEF GetFb
  <2>2. \A d \in Conn : ~Allocating(d)
    BY <2>1 DEF FbLockFree, Allocating
  <2>3. \A d \in Conn : Allocating(d)' => d = c /\ ~Listed(NodeOf[c]) /\ cpc'[c] = "width"
    BY <1>1, <2>1, <2>2 DEF Allocating
  <2>4. OneAllocates'
    BY <1>1, <1>2, <2>3 DEF OneAllocates, Listed, Allocating
  <2>. QED  BY <1>1, <2>1, <2>4
<1>6. CASE LoadWidth(c)
  <2>1. /\ cpc[c] = "width" /\ cpc' = [cpc EXCEPT ![c] = "height"] /\ asked' = asked
        /\ newSize' = [newSize EXCEPT !.width = size[Shown].width]
    BY <1>6 DEF LoadWidth
  <2>2. newSize' \in [width : Nat, height : Nat] /\ newSize'.width # 0
    BY <1>1, <2>1
  <2>3. OneAllocates'
    BY <1>1, <1>2, <2>1, <2>2 DEF OneAllocates, Listed, Allocating
  <2>. QED  BY <1>1, <2>1, <2>2, <2>3
<1>7. CASE LoadHeight(c)
  <2>1. /\ cpc[c] = "height" /\ cpc' = [cpc EXCEPT ![c] = "append"] /\ asked' = asked
        /\ newSize' = [newSize EXCEPT !.height = size[Shown].height]
    BY <1>7 DEF LoadHeight
  <2>2. newSize.width # 0
    BY <1>1, <2>1 DEF OneAllocates
  <2>3. newSize' \in [width : Nat, height : Nat] /\ newSize' \in Sizes
    BY <1>1, <2>1, <2>2 DEF Sizes
  <2>4. OneAllocates'
    BY <1>1, <1>2, <2>1, <2>3 DEF OneAllocates, Listed, Allocating
  <2>. QED  BY <1>1, <2>1, <2>3, <2>4
<1>8. CASE GetPixel(c)
  <2>1. /\ cpc[c] = "get" /\ newSize' = newSize
        /\ asked' = [asked EXCEPT ![c] = NoPixel]
        /\ \/ cpc' = [cpc EXCEPT ![c] = "serve"]
           \/ cpc' = [cpc EXCEPT ![c] = "abort"]
    BY <1>8 DEF GetPixel
  <2>2. OneAllocates'
    BY <1>1, <1>2, <2>1 DEF OneAllocates, Listed, Allocating
  <2>. QED  BY <1>1, <2>1, <2>2
<1>9. CASE \E p \in Pixel : AskPixel(c, p)
  <2>1. PICK p \in Pixel :
          /\ cpc[c] = "serve" /\ newSize' = newSize
          /\ asked' = [asked EXCEPT ![c] = p] /\ cpc' = [cpc EXCEPT ![c] = "get"]
    BY <1>9 DEF AskPixel
  <2>2. OneAllocates'
    BY <1>1, <1>2, <2>1 DEF OneAllocates, Listed, Allocating
  <2>. QED  BY <1>1, <2>1, <2>2
<1>. QED  BY <1>5, <1>6, <1>7, <1>8, <1>9

(* The new framebuffer had no memory and no work, and nobody else is       *)
(* between a look at the list and an append to it.                         *)
LEMMA AppendFbInv ==
  ASSUME Inv, NEW c \in Conn, AppendFb(c)
  PROVE  Inv'
<1>. DEFINE n == NodeOf[c]
<1>1. /\ TypeOK /\ FbTypes /\ Memory /\ OneAllocates /\ WhoResizes /\ FinalSizes
      /\ list \in Seq(Node) /\ n \in Node /\ n \in Fb /\ n # Shown
      /\ size \in [Fb -> Sizes] /\ length \in [Block -> Nat] /\ pixels \in [Fb -> Block]
      /\ cpc \in [Conn -> {"start", "width", "height", "append", "serve", "get", "abort"}]
  BY FbAssumption, SizeFacts DEF Inv, TypeOK, FbTypes
<1>2. /\ cpc[c] = "append" /\ list' = Append(list, n)
      /\ size' = [size EXCEPT ![n] = newSize]
      /\ length' = [length EXCEPT ![pixels[n]] = Area(newSize)]
      /\ missed' = IF newSize # want THEN missed \cup {n} ELSE missed
      /\ cpc' = [cpc EXCEPT ![c] = "serve"] /\ newSize' = NoSize
      /\ UNCHANGED <<pixels, resize, queue, dead, mainVars, asked>>
  BY DEF AppendFb
<1>3. newSize \in Sizes /\ ~Listed(n) /\ queue[n] = << >>
  BY <1>1, <1>2 DEF OneAllocates, Allocating, WhoResizes
<1>4. /\ list' \in Seq(Node) /\ Len(list) \in Nat /\ Len(list') = Len(list) + 1
      /\ DOMAIN list = 1 .. Len(list) /\ DOMAIN list' = 1 .. Len(list) + 1
      /\ \A k \in DOMAIN list : list'[k] = list[k]
      /\ list'[Len(list) + 1] = n
  BY <1>1, <1>2, AppendProperties, LenProperties
<1>5. \A m : Listed(m)' <=> Listed(m) \/ m = n
  BY <1>4 DEF Listed
<1>6. MemoryOf(n) /\ ~HasMemory(n)
  BY <1>1, <1>3 DEF Memory, HasMemory
<1>7. ~InTransit(n) /\ Resized(n) /\ pixels[n].for = n
  BY <1>6 DEF MemoryOf, Resizing
<1>8. Area(newSize) \in Nat /\ newSize \in [width : Nat, height : Nat]
  BY <1>3, AreaFacts
<1>9. /\ size' \in [Fb -> Sizes] /\ size'[n] = newSize
      /\ length' \in [Block -> Nat] /\ length'[pixels[n]] = Area(newSize)
      /\ \A g \in Fb : g # n => size'[g] = size[g]
      /\ \A b \in Block : b # pixels[n] => length'[b] = length[b]
  BY <1>1, <1>2, <1>3, <1>8
<1>10. FbTypes'
  BY <1>1, <1>2, <1>9 DEF FbTypes
<1>11. MemoryOf(n)'
  <2>1. HasMemory(n)' /\ ~InTransit(n)'
    BY <1>2, <1>5, <1>7 DEF HasMemory, InTransit
  <2>2. Other(pixels[n]) \in Block /\ Other(pixels[n]) # pixels[n]
    BY <1>1, OtherFacts
  <2>3. length'[Other(pixels[n])] = 0
    BY <1>7, <1>9, <2>2 DEF Resized
  <2>. QED  BY <1>2, <1>7, <1>9, <2>1, <2>3 DEF MemoryOf, Resized
<1>12. ASSUME NEW g \in Fb, g # n PROVE MemoryOf(g)'
  <2>1. HasMemory(g)' = HasMemory(g) /\ MemoryOf(g)
    BY <1>1, <1>5, <1>12 DEF HasMemory, Memory
  <2>2. \A b \in Block : b.for = g => length'[b] = length[b]
    BY <1>7, <1>9, <1>12
  <2>. QED  BY <1>1, <1>2, <1>9, <1>12, <2>1, <2>2, Frame
<1>13. NoSize \in [width : Nat, height : Nat]
  BY DEF NoSize
<1>14. TypeOK'
  <2>1. \A f \in Fb : Len(resize'[f].todo) <= 4
    BY <1>10, CallLength DEF FbTypes
  <2>2. size' \in [Fb -> [width : Nat, height : Nat]]
    BY <1>9, AreaFacts
  <2>3. missed' \subseteq Fb
    BY <1>1, <1>2 DEF TypeOK
  <2>4. at' \in 1 .. Len(list') + 1
    BY <1>1, <1>2, <1>4 DEF TypeOK, mainVars
  <2>. QED  BY <1>1, <1>2, <1>4, <1>9, <1>13, <2>1, <2>2, <2>3, <2>4 DEF TypeOK, mainVars
<1>15. OneAllocates'
  <2>1. \A d \in Conn : ~Allocating(d)'
    BY <1>1, <1>2 DEF OneAllocates, Allocating
  <2>. QED  BY <2>1 DEF OneAllocates, Allocating
<1>16. WhoResizes'
  BY <1>1, <1>2, <1>5 DEF WhoResizes, InTransit, mainVars
<1>17. FinalSizes'
  <2>1. ASSUME NEW k \in DOMAIN list
        PROVE  FinalSize(list[k], queue[list[k]])' = FinalSize(list[k], queue[list[k]])
    <3>1. list[k] # n /\ list[k] \in Fb /\ list'[k] = list[k]
      BY <1>1, <1>3, <1>4, ListFacts
    <3>. QED  BY <1>2, <1>9, <3>1 DEF FinalSize, InTransit
  <2>2. \A k \in DOMAIN list : list'[k] = list[k] /\ list[k] # n
    BY <1>1, <1>3, <1>4, ListFacts
  <2>3. n \notin missed' => FinalSize(n, queue[n])' = want
    BY <1>2, <1>3, <1>7, <1>9 DEF FinalSize, InTransit
  <2>4. FinalSize(Shown, << >>)' = FinalSize(Shown, << >>)
    BY <1>1, <1>2, <1>9, SizeFacts DEF FinalSize, InTransit
  <2>5. \A k \in DOMAIN list' : k \in DOMAIN list \/ list'[k] = n
    BY <1>4
  <2>. QED  BY <1>1, <1>2, <2>1, <2>2, <2>3, <2>4, <2>5 DEF FinalSizes, mainVars
<1>. QED  BY <1>10, <1>11, <1>12, <1>14, <1>15, <1>16, <1>17 DEF Inv, Memory

-----------------------------------------------------------------------------
LEMMA Invariance == Spec => []Inv
<1>1. Inv /\ [Next]_vars => Inv'
  <2>. SUFFICES ASSUME Inv, [Next]_vars PROVE Inv'
    OBVIOUS
  <2>1. CASE Main
    BY <2>1, WalkInv, KeepShownInv, ResizeShownInv, StoreShownInv DEF Main
  <2>2. ASSUME NEW n \in Node, Worker(n) PROVE Inv'
    BY <2>2, WorkerBeginsInv, WorkerStoresInv, WorkerFailsInv DEF Worker
  <2>3. ASSUME NEW c \in Conn, Connection(c) PROVE Inv'
    BY <2>3, LookInv, AppendFbInv DEF Connection
  <2>4. CASE UNCHANGED vars
    BY <2>4 DEF vars, fbVars, mainVars, connVars, Inv, TypeOK, FbTypes, Memory, MemoryOf,
         Resizing, Resized, HasMemory, Listed, Pending, InTransit, OneAllocates, Allocating,
         WhoResizes, FinalSizes, FinalSize
  <2>. QED  BY <2>1, <2>2, <2>3, <2>4 DEF Next
<1>. QED  BY InitInv, <1>1, PTL DEF Spec

(* The variables keep their types: the cursor of the walk, in particular,  *)
(* stays within one of the list, which grows meanwhile.                    *)
THEOREM ResizeTypeOK == Spec => []TypeOK
<1>1. Inv => TypeOK
  BY DEF Inv
<1>. QED  BY <1>1, Invariance, PTL

(* No resize loses memory or frees what is in use, and no framebuffer      *)
(* promises pixels it has no memory for once its resize is over.           *)
THEOREM ResizeMemoryFits == Spec => []MemoryFits
<1>1. ASSUME Inv PROVE MemoryFits
  <2>1. \A f \in Fb : f \in Allocated <=> HasMemory(f)
    BY DEF Allocated, HasMemory, Listed
  <2>2. Allocated \subseteq Fb
    BY <1>1, ListFacts, SizeFacts DEF Inv, Allocated
  <2>3. \A f \in Allocated : ~InTransit(f) => length[pixels[f]] = Area(size[f])
    BY <1>1, <2>1, <2>2 DEF Inv, Memory, MemoryOf, Resized
  <2>4. ASSUME NEW b \in Block, length[b] # 0 PROVE b \in Owned
    <3>1. PICK f \in Fb : f = b.for /\ MemoryOf(f)
      BY <1>1 DEF Inv, Memory, Block
    <3>2. pixels[f] \in Block /\ pixels[f].for = f /\ (b = pixels[f] \/ b = Other(pixels[f]))
      BY <1>1, <3>1, OtherFacts DEF MemoryOf, Inv, TypeOK
    <3>3. CASE ~InTransit(f)
      BY <2>1, <2>4, <3>1, <3>2, <3>3 DEF MemoryOf, Resized, Owned
    <3>4. CASE InTransit(f)
      <4>1. /\ Resizing(f) /\ resize[f].new \in Block
            /\ resize[f].old = Other(resize[f].new)
        BY <1>1, <3>1, <3>4, CallFacts DEF Inv, Call, MemoryOf, Resizing
      <4>2. b = resize[f].new \/ b = resize[f].old
        BY <3>2, <4>1, OtherFacts DEF Resizing
      <4>. QED  BY <3>4, <4>2 DEF Owned
    <3>. QED  BY <3>3, <3>4
  <2>5. ASSUME NEW b \in Owned PROVE b \in Block /\ length[b] # 0
    <3>1. ASSUME NEW f \in Fb, InTransit(f)
          PROVE  /\ {resize[f].old, resize[f].new} \subseteq Block
                 /\ length[resize[f].old] # 0 /\ length[resize[f].new] # 0
                 /\ pixels[f] \in {resize[f].old, resize[f].new}
      <4>1. /\ Resizing(f) /\ resize[f].new \in Block /\ resize[f].size \in Sizes
            /\ resize[f].old = Other(resize[f].new)
        BY <1>1, <3>1, CallFacts DEF Inv, Call, Memory, MemoryOf, Resizing
      <4>. QED  BY <4>1, OtherFacts, AreaFacts DEF Resizing
    <3>2. ASSUME NEW f \in Allocated, ~InTransit(f)
          PROVE  pixels[f] \in Block /\ length[pixels[f]] # 0
      <4>1. size[f] \in Sizes /\ pixels[f] \in Block
        BY <1>1, <2>2 DEF Inv, FbTypes, TypeOK
      <4>. QED  BY <2>3, <3>2, <4>1, AreaFacts
    <3>. QED  BY <2>2, <3>1, <3>2 DEF Owned
  <2>6. Owned \subseteq Block
    BY <2>5
  <2>. QED  BY <2>3, <2>4, <2>5, <2>6 DEF MemoryFits
<1>. QED  BY <1>1, Invariance, PTL

(* Once all resizes are done, every framebuffer that the last one did not  *)
(* leave out has the size of the window.                                   *)
THEOREM ResizeSettledSizes == Spec => []SettledSizes
<1>1. ASSUME Inv, Settled, NEW f \in Allocated \ missed PROVE size[f] = want
  <2>1. CASE f = Shown
    BY <1>1, <2>1 DEF Inv, FinalSizes, FinalSize, Settled, WhoResizes
  <2>2. CASE f # Shown
    <3>1. PICK k \in DOMAIN list : f = list[k]
      BY <2>2 DEF Allocated
    <3>2. FinalSize(f, queue[f]) = want
      BY <1>1, <3>1 DEF Inv, FinalSizes, Settled
    <3>. QED  BY <1>1, <3>1, <3>2, ListFacts DEF Inv, FinalSize, Settled
  <2>. QED  BY <2>1, <2>2
<1>2. Inv => SettledSizes
  BY <1>1 DEF SettledSizes
<1>. QED  BY <1>2, Invariance, PTL
=============================================================================
