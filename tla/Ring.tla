------------------------------- MODULE Ring -------------------------------
(***************************************************************************)
(* The ring buffer of ring.c and ring.h, operation by operation.  A        *)
(* pointer into ring->data is its offset from ring->data, so a pointer is  *)
(* in 0 .. Size-1.  One slot always stays free: ptr_read = ptr_write means *)
(* empty, and the ring holds at most Size-1 bytes.                         *)
(*                                                                         *)
(* A ring belongs to one connection thread, which calls the operations one *)
(* after the other; every operation is one step.  Two more steps are of    *)
(* the command parser, which keeps pointers of its own into the ring and   *)
(* sets ptr_read back to them.                                             *)
(***************************************************************************)
EXTENDS Integers, Sequences

CONSTANTS Size,      \* ring->size; main.c:241 rejects less than 2
          Byte,      \* the values of a char
          Chunks,    \* byte strings received, written or compared
          Lengths    \* lengths asked for by readers

ASSUME SizeAssumption    == Size \in Nat /\ Size >= 2
ASSUME ChunksAssumption  == Chunks \subseteq Seq(Byte)
ASSUME LengthsAssumption == Lengths \subseteq Nat

VARIABLES data,       \* the bytes of the buffer
          ptr_read,   \* next byte to read
          ptr_write,  \* next byte to write
          mark,       \* a place ptr_read may go back to: the parser's
                      \*   last_cmd, or read_before of net_next_whitespace
          intact,     \* it is set, and no byte was stored since
          ret         \* return code of the last call and the bytes it copied out

marking == <<mark, intact>>
vars == <<data, ptr_read, ptr_write, marking, ret>>

Ptr == 0 .. Size - 1

-----------------------------------------------------------------------------
(* Pointer arithmetic (ring.h) *)

(* Wrong variants of an operator, each named for its error, stand before  *)
(* it: what the properties must be able to tell apart.                    *)
RingNextPastTheEnd(p) == IF p < Size THEN p + 1 ELSE 0

RingNext(p) == IF p < Size - 1 THEN p + 1 ELSE 0

RingPrevWrapsEarly(p) == IF p - 1 < 1 THEN Size - 1 ELSE p - 1

RingPrev(p) == IF p - 1 < 0 THEN Size - 1 ELSE p - 1

Advance(p, offset) ==
  IF offset = 0 THEN p
  ELSE IF p + offset < Size THEN RingNext(p + offset - 1)
  ELSE offset - Size + p

AnyAvailable == ptr_read # ptr_write

Available == IF ptr_write >= ptr_read THEN ptr_write - ptr_read
             ELSE Size - (ptr_read - ptr_write)

AvailableContig == IF ptr_write >= ptr_read THEN ptr_write - ptr_read
                   ELSE Size - ptr_read

FreeSpace == IF ptr_read > ptr_write THEN ptr_read - ptr_write - 1
             ELSE Size - (ptr_write - ptr_read) - 1

FreeSpaceContigUpToTheEnd ==
  IF ptr_read > ptr_write THEN ptr_read - ptr_write - 1 ELSE Size - ptr_write

FreeSpaceContig ==
  IF ptr_read > ptr_write THEN ptr_read - ptr_write - 1
  ELSE Size - ptr_write - (IF ptr_read = 0 THEN 1 ELSE 0)

PeekPrev == data[RingPrev(ptr_read)]

-----------------------------------------------------------------------------
(* memcpy out of and into the buffer.  A store past the end would show as  *)
(* a larger domain of data, a load from there as an application outside    *)
(* it.                                                                     *)

Load(p, len) == [i \in 1 .. len |-> data[p + i - 1]]

Store(buf, p, s) ==
  [k \in DOMAIN buf \cup (p .. p + Len(s) - 1) |->
     IF k \in p .. p + Len(s) - 1 THEN s[k - p + 1] ELSE buf[k]]

(* The first len bytes, copied out in one piece or in two. *)
Front(len) ==
  IF AvailableContig >= len THEN Load(ptr_read, len)
  ELSE Load(ptr_read, AvailableContig) \o Load(0, len - AvailableContig)

Rejected == [rc |-> -1, out |-> << >>]    \* -EINVAL
Mismatch == [rc |->  1, out |-> << >>]
Done(s)  == [rc |->  0, out |-> s]

Fail(r) == ret' = r /\ UNCHANGED <<data, ptr_read, ptr_write, marking>>

-----------------------------------------------------------------------------
(* Operations *)

(* ring_alloc: malloc leaves the bytes of the buffer undefined. *)
Init == /\ data \in [Ptr -> Byte]
        /\ ptr_read = 0
        /\ ptr_write = 0
        /\ mark = 0 /\ intact = FALSE
        /\ ret = Done(<< >>)

RingPeek(len) ==
  \/ Available < len /\ Fail(Rejected)
  \/ /\ Available >= len
     /\ ret' = Done(Front(len))
     /\ UNCHANGED <<data, ptr_read, ptr_write, marking>>

RingRead(len) ==
  \/ Available < len /\ Fail(Rejected)
  \/ /\ Available >= len
     /\ ret' = Done(Front(len))
     /\ ptr_read' = IF AvailableContig >= len
                    THEN RingNext(ptr_read + len - 1)
                    ELSE len - AvailableContig
     /\ UNCHANGED <<data, ptr_write, marking>>

RingWrite(s) ==
  \/ FreeSpace < Len(s) /\ Fail(Rejected)
  \/ /\ FreeSpace >= Len(s)
     /\ FreeSpaceContig >= Len(s)
     /\ data' = Store(data, ptr_write, s)
     /\ ptr_write' = RingNext(ptr_write + Len(s) - 1)
     /\ intact' = FALSE /\ ret' = Done(<< >>)
     /\ UNCHANGED <<ptr_read, mark>>
  \/ /\ FreeSpace >= Len(s)
     /\ FreeSpaceContig < Len(s)
     /\ data' = Store(Store(data, ptr_write, SubSeq(s, 1, FreeSpaceContig)),
                      0, SubSeq(s, FreeSpaceContig + 1, Len(s)))
     /\ ptr_write' = Len(s) - FreeSpaceContig
     /\ intact' = FALSE /\ ret' = Done(<< >>)
     /\ UNCHANGED <<ptr_read, mark>>

(* The receive step of a connection: read(2) stores between 1 and          *)
(* ring_free_space_contig bytes at ptr_write, then ring_advance_write.     *)
Receive(s) ==
  /\ Len(s) \in 1 .. FreeSpaceContig
  /\ data' = Store(data, ptr_write, s)
  /\ ptr_write' = Advance(ptr_write, Len(s))
  /\ intact' = FALSE /\ ret' = Done(<< >>)
  /\ UNCHANGED <<ptr_read, mark>>

(* The callers of the next three have seen that the bytes are there. *)
RingReadOne ==
  /\ AnyAvailable
  /\ ret' = Done(<< data[ptr_read] >>)
  /\ ptr_read' = RingNext(ptr_read)
  /\ UNCHANGED <<data, ptr_write, marking>>

RingIncRead ==
  /\ AnyAvailable
  /\ ptr_read' = RingNext(ptr_read)
  /\ ret' = Done(<< >>)
  /\ UNCHANGED <<data, ptr_write, marking>>

RingAdvanceRead(offset) ==
  /\ offset <= Available
  /\ ptr_read' = Advance(ptr_read, offset)
  /\ ret' = Done(<< >>)
  /\ UNCHANGED <<data, ptr_write, marking>>

(* memcmp of the front with s, in one piece or in two. *)
FrontMatches(s) ==
  IF AvailableContig >= Len(s) THEN Load(ptr_read, Len(s)) = s
  ELSE /\ Load(ptr_read, AvailableContig) = SubSeq(s, 1, AvailableContig)
       /\ Load(0, Len(s) - AvailableContig)
            = SubSeq(s, AvailableContig + 1, Len(s))

(* ring_memcmp with next_pos = NULL, as every caller has it. *)
RingMemCmp(s) ==
  \/ Available < Len(s) /\ Fail(Rejected)
  \/ Available >= Len(s) /\ ~FrontMatches(s) /\ Fail(Mismatch)
  \/ /\ Available >= Len(s)
     /\ FrontMatches(s)
     /\ ptr_read' = Advance(ptr_read, Len(s))
     /\ ret' = Done(<< >>)
     /\ UNCHANGED <<data, ptr_write, marking>>

(* The parser remembers ptr_read when it begins a command (last_cmd) and   *)
(* before it looks for the end of a token (read_before), and goes back if  *)
(* the command is incomplete ("goto recv_more"), and always behind a       *)
(* token.  In between it does not receive.  One such pointer is modelled:  *)
(* what holds for one holds for both.                                      *)
Remember ==
  /\ mark' = ptr_read /\ intact' = TRUE
  /\ UNCHANGED <<data, ptr_read, ptr_write, ret>>

Rewind ==
  /\ intact
  /\ ptr_read' = mark
  /\ UNCHANGED <<data, ptr_write, marking, ret>>

Next == \/ \E s \in Chunks : RingWrite(s) \/ Receive(s) \/ RingMemCmp(s)
        \/ \E n \in Lengths : RingPeek(n) \/ RingRead(n) \/ RingAdvanceRead(n)
        \/ RingReadOne
        \/ RingIncRead
        \/ Remember
        \/ Rewind

Spec == Init /\ [][Next]_vars

-----------------------------------------------------------------------------
(* Properties *)

(* Both pointers stay inside the buffer, and no store falls outside it     *)
(* (memcpy and read(2) on ring->data, ring.c:58-59, 98-103, network.c:318).*)
TypeOK == /\ data \in [Ptr -> Byte]
          /\ ptr_read \in Ptr
          /\ ptr_write \in Ptr
          /\ mark \in Ptr /\ intact \in BOOLEAN
          /\ ret \in [rc : -1 .. 1, out : Seq(Byte)]

(* The connection thread hands ring_free_space_contig to read(2), and      *)
(* treats a result of 0 as the end of the stream (network.c:318-324).  A   *)
(* request of 0 bytes always yields 0, so unless the ring is full there    *)
(* must be room for at least one byte, at whatever place the pointers are; *)
(* and what is offered may never reach the unread bytes.                   *)
OnlyAFullRingLooksLikeEOF ==
  /\ FreeSpaceContig = 0 <=> Available = Size - 1
  /\ FreeSpaceContig <= FreeSpace
  /\ FreeSpace = Size - 1 - Available

(* The unread bytes, in order: the refinement mapping. *)
Wrap(k) == IF k < Size THEN k ELSE k - Size

Unread == [i \in 1 .. Available |-> data[Wrap(ptr_read + i - 1)]]

(* The same from the mark on, with the byte before it. *)
Marked ==
  LET n == IF ptr_write >= mark THEN ptr_write - mark
           ELSE Size - (mark - ptr_write)
  IN  [i \in 1 .. n |-> data[Wrap(mark + i - 1)]]

Saved == IF intact THEN {<<Marked, data[RingPrev(mark)]>>} ELSE {}

Queue == INSTANCE ByteQueue
           WITH Capacity <- Size - 1, unread <- Unread, prev <- PeekPrev,
                saved <- Saved

(* The ring is a FIFO of Size-1 bytes: every operation returns what it     *)
(* would return on the queue of unread bytes, wherever the two pointers    *)
(* are, ring_peek_prev is the last byte taken out, whatever was written    *)
(* since (network.c:360 decides between get and set with it), and setting  *)
(* ptr_read back (network.c:161, 458) takes back all that was read since.  *)
IsByteQueue == Queue!Spec
=============================================================================
