---------------------------- MODULE RingProofs ----------------------------
(***************************************************************************)
(* The ring buffer is correct for every size, byte set, string and length: *)
(* it stays inside its buffer, it looks like the end of the stream only    *)
(* when it is full, and it implements the bounded byte queue.              *)
(***************************************************************************)
EXTENDS Ring, SequenceTheorems, TLAPS

(* A function on 1..n with values in S is a sequence of length n. *)
LEMMA FunctionIsSeq ==
  ASSUME NEW S, NEW n \in Nat, NEW f \in [1 .. n -> S]
  PROVE  f \in Seq(S) /\ Len(f) = n
  <1>1. f \in Seq(S)
    BY SeqDef
  <1>2. DOMAIN f = 1 .. n /\ DOMAIN f = 1 .. Len(f) /\ Len(f) \in Nat
    BY <1>1, LenProperties
  <1> QED
    BY <1>1, <1>2

(* Loading len bytes that lie inside the buffer. *)
LEMMA LoadProperties ==
  ASSUME TypeOK, NEW p \in Nat, NEW len \in Nat, p + len <= Size
  PROVE  /\ Load(p, len) \in Seq(Byte)
         /\ Len(Load(p, len)) = len
         /\ \A i \in 1 .. len : Load(p, len)[i] = data[p + i - 1]
  <1>1. \A i \in 1 .. len : p + i - 1 \in Ptr
    BY SizeAssumption DEF Ptr
  <1>2. Load(p, len) \in [1 .. len -> Byte]
    BY <1>1 DEF Load, TypeOK
  <1> QED
    BY <1>2, FunctionIsSeq DEF Load

(* Storing a string that fits changes the bytes under it and no other. *)
LEMMA StoreProperties ==
  ASSUME NEW buf \in [Ptr -> Byte], NEW p \in Nat, NEW s \in Seq(Byte),
         p + Len(s) <= Size
  PROVE  /\ Store(buf, p, s) \in [Ptr -> Byte]
         /\ \A k \in p .. p + Len(s) - 1 : Store(buf, p, s)[k] = s[k - p + 1]
         /\ \A k \in Ptr \ (p .. p + Len(s) - 1) : Store(buf, p, s)[k] = buf[k]
  <1>1. Len(s) \in Nat /\ \A i \in 1 .. Len(s) : s[i] \in Byte
    BY LenProperties
  <1>2. DOMAIN buf \cup (p .. p + Len(s) - 1) = Ptr
    BY <1>1, SizeAssumption DEF Ptr
  <1>3. \A k \in p .. p + Len(s) - 1 : k - p + 1 \in 1 .. Len(s)
    BY <1>1
  <1> QED
    BY <1>1, <1>2, <1>3 DEF Store

(* The counts of ring.h, for pointers inside the buffer. *)
LEMMA Counts ==
  ASSUME TypeOK
  PROVE  /\ Available \in 0 .. Size - 1
         /\ AvailableContig \in 0 .. Available
         /\ ptr_read + AvailableContig <= Size
         /\ AvailableContig < Available =>
              /\ ptr_read + AvailableContig = Size
              /\ Available - AvailableContig = ptr_write
         /\ FreeSpace = Size - 1 - Available
         /\ FreeSpaceContig \in 0 .. FreeSpace
         /\ ptr_write + FreeSpaceContig <= Size
         /\ FreeSpaceContig < FreeSpace => ptr_write + FreeSpaceContig = Size
         /\ FreeSpaceContig = 0 <=> FreeSpace = 0
         /\ AnyAvailable <=> Available > 0
  BY SizeAssumption
  DEF TypeOK, Ptr, Available, AvailableContig, FreeSpace, FreeSpaceContig,
      AnyAvailable

(* Moving a pointer by at most Size is addition modulo Size. *)
LEMMA PointerMoves ==
  ASSUME NEW p \in Ptr
  PROVE  /\ RingNext(p) = Wrap(p + 1)
         /\ \A n \in 0 .. Size : Advance(p, n) = Wrap(p + n)
         /\ \A n \in 0 .. Size : p + n <= Size => RingNext(p + n - 1) = Wrap(p + n)
         /\ \A n \in 0 .. Size : Wrap(p + n) \in Ptr
         /\ RingPrev(p) \in Ptr
  BY SizeAssumption DEF Ptr, RingNext, Advance, Wrap, RingPrev

(* The front of the ring is the same bytes, copied in one piece or two. *)
LEMMA FrontProperties ==
  ASSUME TypeOK, NEW len \in 0 .. Available
  PROVE  /\ Front(len) \in Seq(Byte)
         /\ Len(Front(len)) = len
         /\ \A i \in 1 .. len : Front(len)[i] = data[Wrap(ptr_read + i - 1)]
  <1>c. /\ Available \in 0 .. Size - 1
        /\ AvailableContig \in 0 .. Available
        /\ ptr_read + AvailableContig <= Size
        /\ AvailableContig < Available =>
              /\ ptr_read + AvailableContig = Size
              /\ Available - AvailableContig = ptr_write
        /\ ptr_read \in Ptr /\ ptr_write \in Ptr
        /\ Size \in Nat
    BY Counts, SizeAssumption DEF TypeOK
  <1>1. CASE AvailableContig >= len
    <2>1. Front(len) = Load(ptr_read, len)
      BY <1>1 DEF Front
    <2>2. ptr_read \in Nat /\ len \in Nat /\ ptr_read + len <= Size
      BY <1>1, <1>c DEF Ptr
    <2>3. \A i \in 1 .. len : Wrap(ptr_read + i - 1) = ptr_read + i - 1
      BY <2>2, <1>c DEF Wrap
    <2> QED
      BY <2>1, <2>2, <2>3, LoadProperties
  <1>2. CASE AvailableContig < len
    <2> DEFINE c == AvailableContig
               l == Load(ptr_read, c)
               r == Load(0, len - c)
    <2>1. Front(len) = l \o r
      BY <1>2, <1>c DEF Front
    <2>2. /\ ptr_read \in Nat /\ c \in Nat /\ ptr_read + c = Size
          /\ len - c \in Nat /\ 0 + (len - c) <= Size
      BY <1>2, <1>c DEF Ptr
    <2>3. l \in Seq(Byte) /\ Len(l) = c /\ \A i \in 1 .. c : l[i] = data[ptr_read + i - 1]
      BY <2>2, <1>c, LoadProperties
    <2>4. /\ r \in Seq(Byte) /\ Len(r) = len - c
          /\ \A i \in 1 .. len - c : r[i] = data[i - 1]
      <3>1. /\ r \in Seq(Byte) /\ Len(r) = len - c
            /\ \A i \in 1 .. len - c : r[i] = data[0 + i - 1]
        BY <2>2, LoadProperties
      <3>2. \A i \in 1 .. len - c : 0 + i - 1 = i - 1
        BY <2>2
      <3> QED
        BY <3>1, <3>2
    <2> HIDE DEF l, r
    <2>5. /\ l \o r \in Seq(Byte)
          /\ Len(l \o r) = len
          /\ \A i \in 1 .. len : (l \o r)[i] = IF i <= c THEN l[i] ELSE r[i - c]
      <3>1. /\ l \o r \in Seq(Byte)
            /\ Len(l \o r) = Len(l) + Len(r)
            /\ \A i \in 1 .. Len(l) + Len(r) :
                 (l \o r)[i] = IF i <= Len(l) THEN l[i] ELSE r[i - Len(l)]
        BY <2>3, <2>4, ConcatProperties
      <3>2. Len(l) + Len(r) = len
        BY <2>2, <2>3, <2>4
      <3> QED
        BY <3>1, <3>2, <2>3
    <2>6. ASSUME NEW i \in 1 .. len
          PROVE  (l \o r)[i] = data[Wrap(ptr_read + i - 1)]
      <3>1. CASE i <= c
        <4>1. Wrap(ptr_read + i - 1) = ptr_read + i - 1
          BY <3>1, <2>2 DEF Wrap
        <4> QED
          BY <3>1, <4>1, <2>2, <2>3, <2>5
      <3>2. CASE i > c
        <4>1. Wrap(ptr_read + i - 1) = (i - c) - 1 /\ i - c \in 1 .. len - c
          BY <3>2, <2>2, <1>c DEF Wrap
        <4> QED
          BY <3>2, <4>1, <2>2, <2>4, <2>5
      <3>3. i <= c \/ i > c
        BY <2>2
      <3> QED
        BY <3>1, <3>2, <3>3
    <2> QED
      BY <2>1, <2>5, <2>6
  <1> QED
    BY <1>1, <1>2, <1>c

-----------------------------------------------------------------------------
(* What the two ways to write have in common: the string s is stored from  *)
(* ptr_write on, around the end of the buffer if need be, and nothing else *)
(* is touched, save that going back is over.                               *)
Stored(s) ==
  /\ data' \in [Ptr -> Byte]
  /\ \A i \in 1 .. Len(s) : data'[Wrap(ptr_write + i - 1)] = s[i]
  /\ \A k \in Ptr : (\A i \in 1 .. Len(s) : k # Wrap(ptr_write + i - 1))
                      => data'[k] = data[k]
  /\ ptr_write' = Wrap(ptr_write + Len(s))
  /\ ptr_read' = ptr_read
  /\ mark' = mark /\ intact' = FALSE
  /\ Len(s) \in 0 .. FreeSpace

(* Storing in one piece. *)
LEMMA StoredInOnePiece ==
  ASSUME TypeOK, NEW s \in Seq(Byte), Len(s) <= FreeSpaceContig,
         data' = Store(data, ptr_write, s),
         ptr_write' = Wrap(ptr_write + Len(s)), ptr_read' = ptr_read,
         mark' = mark, intact' = FALSE
  PROVE  Stored(s)
  <1>1. /\ Len(s) \in 0 .. FreeSpace
        /\ ptr_write + Len(s) <= Size
        /\ ptr_write \in Nat
        /\ data \in [Ptr -> Byte]
    <2>1. Len(s) \in Nat
      BY LenProperties
    <2>2. /\ FreeSpace \in Nat /\ FreeSpaceContig \in 0 .. FreeSpace
          /\ ptr_write + FreeSpaceContig <= Size
      BY Counts, SizeAssumption
    <2>3. ptr_write \in Nat /\ data \in [Ptr -> Byte]
      BY DEF TypeOK, Ptr
    <2> QED
      BY <2>1, <2>2, <2>3, SizeAssumption
  <1>2. /\ data' \in [Ptr -> Byte]
        /\ \A k \in ptr_write .. ptr_write + Len(s) - 1 : data'[k] = s[k - ptr_write + 1]
        /\ \A k \in Ptr \ (ptr_write .. ptr_write + Len(s) - 1) : data'[k] = data[k]
    <2> DEFINE new == Store(data, ptr_write, s)
    <2>1. /\ new \in [Ptr -> Byte]
          /\ \A k \in ptr_write .. ptr_write + Len(s) - 1 : new[k] = s[k - ptr_write + 1]
          /\ \A k \in Ptr \ (ptr_write .. ptr_write + Len(s) - 1) : new[k] = data[k]
      BY <1>1, StoreProperties
    <2>2. data' = new
      OBVIOUS
    <2> HIDE DEF new
    <2> QED
      BY <2>1, <2>2
  <1>3. ASSUME NEW i \in 1 .. Len(s)
        PROVE  Wrap(ptr_write + i - 1) = ptr_write + i - 1
    BY <1>1, SizeAssumption DEF Wrap
  <1>4. ASSUME NEW i \in 1 .. Len(s)
        PROVE  data'[Wrap(ptr_write + i - 1)] = s[i]
    <2>1. /\ ptr_write + i - 1 \in ptr_write .. ptr_write + Len(s) - 1
          /\ (ptr_write + i - 1) - ptr_write + 1 = i
      BY <1>1
    <2> QED
      BY <2>1, <1>2, <1>3
  <1>5. ASSUME NEW k \in Ptr, \A i \in 1 .. Len(s) : k # Wrap(ptr_write + i - 1)
        PROVE  data'[k] = data[k]
    <2>1. ASSUME k \in ptr_write .. ptr_write + Len(s) - 1
          PROVE  FALSE
      <3>1. /\ k - ptr_write + 1 \in 1 .. Len(s)
            /\ ptr_write + (k - ptr_write + 1) - 1 = k
        BY <2>1, <1>1
      <3> QED
        BY <3>1, <1>3, <1>5
    <2> QED
      BY <2>1, <1>2
  <1> QED
    BY <1>1, <1>2, <1>4, <1>5 DEF Stored

(* Storing in two pieces: up to the end of the buffer, then from its start. *)
LEMMA StoredInTwoPieces ==
  ASSUME TypeOK, NEW s \in Seq(Byte),
         FreeSpaceContig < Len(s), Len(s) <= FreeSpace,
         data' = Store(Store(data, ptr_write, SubSeq(s, 1, FreeSpaceContig)),
                       0, SubSeq(s, FreeSpaceContig + 1, Len(s))),
         ptr_write' = Len(s) - FreeSpaceContig, ptr_read' = ptr_read,
         mark' = mark, intact' = FALSE
  PROVE  Stored(s)
  <1> DEFINE c == FreeSpaceContig
             l == SubSeq(s, 1, c)
             r == SubSeq(s, c + 1, Len(s))
             mid == Store(data, ptr_write, l)
  <1>1. /\ c \in Nat /\ Len(s) \in Nat /\ Size \in Nat
        /\ ptr_write \in Nat /\ ptr_write < Size
        /\ ptr_write + c = Size
        /\ Len(s) - c < Size /\ c < Len(s)
        /\ Len(s) <= Size - 1 /\ FreeSpace \in Nat
        /\ \A i \in 1 .. Len(s) : s[i] \in Byte
    <2>1. Len(s) \in Nat /\ \A i \in 1 .. Len(s) : s[i] \in Byte
      BY LenProperties
    <2>2. /\ FreeSpace \in 0 .. Size - 1 /\ FreeSpaceContig \in 0 .. FreeSpace
          /\ FreeSpaceContig < FreeSpace => ptr_write + FreeSpaceContig = Size
      BY Counts, SizeAssumption
    <2>3. ptr_write \in 0 .. Size - 1 /\ Size \in Nat
      BY SizeAssumption DEF TypeOK, Ptr
    <2> QED
      BY <2>1, <2>2, <2>3
  <1> HIDE DEF c
  <1>2. l \in Seq(Byte) /\ Len(l) = c /\ \A i \in 1 .. c : l[i] = s[i]
    <2>1. \A i \in 1 .. c : s[i] \in Byte
      BY <1>1
    <2>2. /\ l \in Seq(Byte)
          /\ Len(l) = IF 1 <= c THEN c - 1 + 1 ELSE 0
          /\ \A i \in 1 .. c - 1 + 1 : l[i] = s[1 + i - 1]
      BY <2>1, <1>1, SubSeqProperties
    <2>3. c - 1 + 1 = c /\ \A i \in 1 .. c : 1 + i - 1 = i
      BY <1>1
    <2> QED
      BY <2>2, <2>3, <1>1
  <1>3. /\ r \in Seq(Byte) /\ Len(r) = Len(s) - c
        /\ \A i \in 1 .. Len(s) - c : r[i] = s[c + i]
    <2>1. \A i \in c + 1 .. Len(s) : s[i] \in Byte
      BY <1>1
    <2>2. /\ r \in Seq(Byte)
          /\ Len(r) = IF c + 1 <= Len(s) THEN Len(s) - (c + 1) + 1 ELSE 0
          /\ \A i \in 1 .. Len(s) - (c + 1) + 1 : r[i] = s[c + 1 + i - 1]
      BY <2>1, <1>1, SubSeqProperties
    <2>3. /\ Len(s) - (c + 1) + 1 = Len(s) - c /\ c + 1 <= Len(s)
          /\ \A i \in 1 .. Len(s) - c : c + 1 + i - 1 = c + i
      BY <1>1
    <2> QED
      BY <2>2, <2>3
  <1> HIDE DEF l, r
  <1>4. /\ mid \in [Ptr -> Byte]
        /\ \A k \in ptr_write .. ptr_write + c - 1 : mid[k] = l[k - ptr_write + 1]
        /\ \A k \in Ptr \ (ptr_write .. ptr_write + c - 1) : mid[k] = data[k]
    <2>1. data \in [Ptr -> Byte] /\ ptr_write + Len(l) <= Size
      BY <1>1, <1>2 DEF TypeOK
    <2>2. /\ mid \in [Ptr -> Byte]
          /\ \A k \in ptr_write .. ptr_write + Len(l) - 1 : mid[k] = l[k - ptr_write + 1]
          /\ \A k \in Ptr \ (ptr_write .. ptr_write + Len(l) - 1) : mid[k] = data[k]
      BY <1>1, <1>2, <2>1, StoreProperties, ZenonT(60)
    <2> HIDE DEF mid
    <2> QED
      BY <1>2, <2>2
  <1>5. data' = Store(mid, 0, r)
    BY DEF l, r, c
  <1> HIDE DEF mid
  <1>6. /\ data' \in [Ptr -> Byte]
        /\ \A k \in 0 .. Len(s) - c - 1 : data'[k] = r[k + 1]
        /\ \A k \in Ptr \ (0 .. Len(s) - c - 1) : data'[k] = mid[k]
    <2>1. 0 \in Nat /\ 0 + Len(r) <= Size
      BY <1>1, <1>3
    <2>2. /\ data' \in [Ptr -> Byte]
          /\ \A k \in 0 .. 0 + Len(r) - 1 : data'[k] = r[k - 0 + 1]
          /\ \A k \in Ptr \ (0 .. 0 + Len(r) - 1) : data'[k] = mid[k]
      BY <1>3, <1>4, <1>5, <2>1, StoreProperties
    <2>3. /\ 0 + Len(r) - 1 = Len(s) - c - 1
          /\ \A k \in 0 .. Len(s) - c - 1 : k - 0 + 1 = k + 1
      BY <1>1, <1>3
    <2> QED
      BY <2>2, <2>3
  <1>7. ASSUME NEW i \in 1 .. Len(s)
        PROVE  data'[Wrap(ptr_write + i - 1)] = s[i]
    <2>1. CASE i <= c
      <3>1. /\ Wrap(ptr_write + i - 1) = ptr_write + i - 1
            /\ ptr_write + i - 1 \in Ptr \ (0 .. Len(s) - c - 1)
            /\ ptr_write + i - 1 \in ptr_write .. ptr_write + c - 1
            /\ (ptr_write + i - 1) - ptr_write + 1 = i
            /\ i \in 1 .. c
        BY <2>1, <1>1 DEF Wrap, Ptr
      <3> QED
        BY <3>1, <1>2, <1>4, <1>6
    <2>2. CASE i > c
      <3>1. /\ Wrap(ptr_write + i - 1) = i - c - 1
            /\ i - c - 1 \in 0 .. Len(s) - c - 1
            /\ (i - c - 1) + 1 = i - c
            /\ i - c \in 1 .. Len(s) - c
            /\ c + (i - c) = i
        BY <2>2, <1>1 DEF Wrap
      <3> QED
        BY <3>1, <1>3, <1>6
    <2>3. i <= c \/ i > c
      BY <1>1
    <2> QED
      BY <2>1, <2>2, <2>3
  <1>8. ASSUME NEW k \in Ptr, \A i \in 1 .. Len(s) : k # Wrap(ptr_write + i - 1)
        PROVE  data'[k] = data[k]
    <2>1. k \notin ptr_write .. ptr_write + c - 1
      <3> SUFFICES ASSUME k \in ptr_write .. ptr_write + c - 1 PROVE FALSE
        OBVIOUS
      <3>1. /\ k - ptr_write + 1 \in 1 .. Len(s)
            /\ Wrap(ptr_write + (k - ptr_write + 1) - 1) = k
        BY <1>1 DEF Wrap
      <3> QED
        BY <3>1, <1>8
    <2>2. k \notin 0 .. Len(s) - c - 1
      <3> SUFFICES ASSUME k \in 0 .. Len(s) - c - 1 PROVE FALSE
        OBVIOUS
      <3>1. /\ k + c + 1 \in 1 .. Len(s)
            /\ Wrap(ptr_write + (k + c + 1) - 1) = k
        BY <1>1 DEF Wrap
      <3> QED
        BY <3>1, <1>8
    <2> QED
      BY <2>1, <2>2, <1>4, <1>6
  <1>9. ptr_write' = Wrap(ptr_write + Len(s)) /\ Len(s) \in 0 .. FreeSpace
    BY <1>1 DEF Wrap, c
  <1> QED
    BY <1>6, <1>7, <1>8, <1>9 DEF Stored

(* ring_write stores the whole string, when it does not refuse it. *)
LEMMA WriteStores ==
  ASSUME TypeOK, NEW s \in Seq(Byte), RingWrite(s), FreeSpace >= Len(s)
  PROVE  Stored(s) /\ ret' = Done(<< >>)
  <1>1. /\ Len(s) \in Nat /\ FreeSpace \in Nat
        /\ FreeSpaceContig \in 0 .. FreeSpace
        /\ ptr_write \in Ptr /\ ptr_write + FreeSpaceContig <= Size
        /\ FreeSpace < Size
    BY Counts, LenProperties, SizeAssumption DEF TypeOK
  <1>2. CASE FreeSpaceContig >= Len(s)
    <2>1. /\ data' = Store(data, ptr_write, s)
          /\ ptr_write' = RingNext(ptr_write + Len(s) - 1)
          /\ ret' = Done(<< >>) /\ ptr_read' = ptr_read
          /\ mark' = mark /\ intact' = FALSE
      BY <1>1, <1>2 DEF RingWrite
    <2>2. Len(s) \in 0 .. Size /\ ptr_write + Len(s) <= Size
      BY <1>1, <1>2, SizeAssumption DEF Ptr
    <2>3. RingNext(ptr_write + Len(s) - 1) = Wrap(ptr_write + Len(s))
      BY <1>1, <2>2, PointerMoves
    <2> QED
      BY <1>2, <1>1, <2>1, <2>3, StoredInOnePiece
  <1>3. CASE FreeSpaceContig < Len(s)
    <2>1. /\ data' = Store(Store(data, ptr_write, SubSeq(s, 1, FreeSpaceContig)),
                           0, SubSeq(s, FreeSpaceContig + 1, Len(s)))
          /\ ptr_write' = Len(s) - FreeSpaceContig
          /\ ret' = Done(<< >>) /\ ptr_read' = ptr_read
          /\ mark' = mark /\ intact' = FALSE
      BY <1>1, <1>3 DEF RingWrite
    <2> QED
      BY <1>1, <1>3, <2>1, StoredInTwoPieces
  <1>4. FreeSpaceContig >= Len(s) \/ FreeSpaceContig < Len(s)
    BY <1>1
  <1> QED
    BY <1>2, <1>3, <1>4

(* So does the receive step. *)
LEMMA ReceiveStores ==
  ASSUME TypeOK, NEW s \in Seq(Byte), Receive(s)
  PROVE  Stored(s) /\ ret' = Done(<< >>)
  <1>1. /\ Len(s) \in 1 .. FreeSpaceContig /\ FreeSpaceContig \in 0 .. FreeSpace
        /\ FreeSpace \in 0 .. Size - 1 /\ ptr_write \in Ptr
    BY Counts, SizeAssumption DEF TypeOK, Receive
  <1>2. Len(s) \in 0 .. Size /\ Len(s) <= FreeSpaceContig
    BY <1>1, SizeAssumption
  <1>3. Advance(ptr_write, Len(s)) = Wrap(ptr_write + Len(s))
    BY <1>1, <1>2, PointerMoves
  <1> QED
    BY <1>2, <1>3, StoredInOnePiece DEF Receive

-----------------------------------------------------------------------------
(* The unread bytes form a sequence of Available bytes. *)
UnreadIsSeq ==
  /\ Unread \in Seq(Byte)
  /\ Len(Unread) = Available
  /\ \A i \in 1 .. Available : Unread[i] = data[Wrap(ptr_read + i - 1)]

LEMMA UnreadProperties == TypeOK => UnreadIsSeq
  <1> SUFFICES ASSUME TypeOK PROVE UnreadIsSeq
    OBVIOUS
  <1>1. Available \in 0 .. Size - 1 /\ ptr_read \in 0 .. Size - 1 /\ Size \in Nat
    BY Counts, SizeAssumption DEF TypeOK, Ptr
  <1>2. \A i \in 1 .. Available : Wrap(ptr_read + i - 1) \in Ptr
    BY <1>1 DEF Wrap, Ptr
  <1>3. Unread \in [1 .. Available -> Byte]
    BY <1>2 DEF Unread, TypeOK
  <1>4. Available \in Nat
    BY <1>1
  <1>5. Unread \in Seq(Byte) /\ Len(Unread) = Available
    BY <1>3, <1>4, FunctionIsSeq
  <1> QED
    BY <1>5 DEF UnreadIsSeq, Unread

(* Front(len) is a prefix of the unread bytes. *)
LEMMA FrontIsPrefix ==
  ASSUME TypeOK, NEW len \in 0 .. Available
  PROVE  Front(len) = SubSeq(Unread, 1, len)
  <1> DEFINE u == Unread
             f == Front(len)
  <1>1. /\ u \in Seq(Byte) /\ Len(u) = Available
        /\ \A i \in 1 .. Available : u[i] = data[Wrap(ptr_read + i - 1)]
    BY UnreadProperties DEF UnreadIsSeq
  <1>2. /\ f \in Seq(Byte) /\ Len(f) = len
        /\ \A i \in 1 .. len : f[i] = data[Wrap(ptr_read + i - 1)]
    BY FrontProperties
  <1>3. Available \in Nat /\ len \in Nat /\ len <= Available
    BY Counts, SizeAssumption
  <1> HIDE DEF u, f
  <1>4. \A i \in 1 .. len : u[i] \in Byte
    <2>1. \A i \in 1 .. Len(u) : u[i] \in Byte
      BY <1>1, LenProperties
    <2> QED
      BY <2>1, <1>1, <1>3
  <1>5. /\ SubSeq(u, 1, len) \in Seq(Byte)
        /\ Len(SubSeq(u, 1, len)) = len
        /\ \A i \in 1 .. len : SubSeq(u, 1, len)[i] = u[i]
    <2>1. /\ SubSeq(u, 1, len) \in Seq(Byte)
          /\ Len(SubSeq(u, 1, len)) = IF 1 <= len THEN len - 1 + 1 ELSE 0
          /\ \A i \in 1 .. len - 1 + 1 : SubSeq(u, 1, len)[i] = u[1 + i - 1]
      BY <1>3, <1>4, SubSeqProperties
    <2>2. len - 1 + 1 = len /\ \A i \in 1 .. len : 1 + i - 1 = i
      BY <1>3
    <2> QED
      BY <2>1, <2>2, <1>3
  <1>6. \A i \in 1 .. len : f[i] = SubSeq(u, 1, len)[i]
    BY <1>1, <1>2, <1>3, <1>5
  <1>7. f = SubSeq(u, 1, len)
    BY <1>2, <1>5, <1>6, SeqEqual
  <1> QED
    BY <1>7 DEF u, f

(* What could be gone back to stays while the bytes and the mark do. *)
LEMMA SavedStays ==
  ASSUME UNCHANGED <<data, ptr_write, marking>>
  PROVE  Saved' = Saved
  BY DEF Saved, Marked, marking, Wrap, RingPrev

(* Moving ptr_read over n unread bytes drops them from the queue. *)
LEMMA MovingReadDrops ==
  ASSUME TypeOK, NEW n \in 0 .. Available,
         ptr_read' = Wrap(ptr_read + n), UNCHANGED <<data, ptr_write, marking>>,
         TypeOK'
  PROVE  Queue!Drop(n)
  <1> DEFINE u == Unread
             v == Unread'
             w == SubSeq(u, n + 1, Len(u))
  <1>1. /\ Available \in 0 .. Size - 1 /\ n \in Nat /\ n <= Available
        /\ Size \in Nat /\ Size >= 2
        /\ ptr_read \in 0 .. Size - 1 /\ ptr_write \in 0 .. Size - 1
    BY Counts, SizeAssumption DEF TypeOK, Ptr
  <1>2. Available' = Available - n
    BY <1>1 DEF Available, Wrap
  <1>3. /\ u \in Seq(Byte) /\ Len(u) = Available
        /\ \A i \in 1 .. Available : u[i] = data[Wrap(ptr_read + i - 1)]
    BY UnreadProperties DEF UnreadIsSeq
  <1>4. /\ v \in Seq(Byte) /\ Len(v) = Available - n
        /\ \A i \in 1 .. Available - n : v[i] = data[Wrap(ptr_read' + i - 1)]
    <2>1. /\ v \in Seq(Byte) /\ Len(v) = Available'
          /\ \A i \in 1 .. Available' : v[i] = data'[Wrap(ptr_read' + i - 1)]
      <3>1. TypeOK' => UnreadIsSeq'
        BY UnreadProperties, PTL
      <3> QED
        BY <3>1 DEF UnreadIsSeq, Wrap
    <2> HIDE DEF v
    <2> QED
      BY <2>1, <1>2
  <1> HIDE DEF u, v
  <1>5. /\ w \in Seq(Byte) /\ Len(w) = Available - n
        /\ \A i \in 1 .. Available - n : w[i] = u[n + i]
    <2>1. \A i \in n + 1 .. Len(u) : u[i] \in Byte
      <3>1. \A i \in 1 .. Len(u) : u[i] \in Byte
        BY <1>3, LenProperties
      <3> QED
        BY <3>1, <1>1
    <2>2. /\ w \in Seq(Byte)
          /\ Len(w) = IF n + 1 <= Len(u) THEN Len(u) - (n + 1) + 1 ELSE 0
          /\ \A i \in 1 .. Len(u) - (n + 1) + 1 : w[i] = u[n + 1 + i - 1]
      BY <1>1, <1>3, <2>1, SubSeqProperties
    <2> HIDE DEF w
    <2>3. /\ Len(u) - (n + 1) + 1 = Available - n
          /\ \A i \in 1 .. Available - n : n + 1 + i - 1 = n + i
          /\ ~(n + 1 <= Len(u)) => Available - n = 0
      BY <1>1, <1>3
    <2> QED
      BY <2>2, <2>3
  <1> HIDE DEF w
  <1>6. ASSUME NEW i \in 1 .. Available - n
        PROVE  v[i] = w[i]
    <2>1. Wrap(ptr_read' + i - 1) = Wrap(ptr_read + (n + i) - 1)
      BY <1>1 DEF Wrap
    <2>2. n + i \in 1 .. Available
      BY <1>1
    <2> QED
      BY <2>1, <2>2, <1>3, <1>4, <1>5
  <1>7. v = w
    BY <1>4, <1>5, <1>6, SeqEqual
  <1>8. PeekPrev' = IF n = 0 THEN PeekPrev ELSE u[n]
    <2>1. CASE n = 0
      <3>1. ptr_read' = ptr_read
        BY <2>1, <1>1 DEF Wrap
      <3> QED
        BY <2>1, <3>1 DEF PeekPrev
    <2>2. CASE n # 0
      <3>1. RingPrev(ptr_read') = Wrap(ptr_read + n - 1) /\ n \in 1 .. Available
        BY <2>2, <1>1 DEF RingPrev, Wrap
      <3>2. PeekPrev' = data[RingPrev(ptr_read')]
        BY DEF PeekPrev, RingPrev
      <3> QED
        BY <2>2, <3>1, <3>2, <1>3
    <2> QED
      BY <2>1, <2>2
  <1>9. Saved' = Saved
    BY SavedStays
  <1> QED
    BY <1>7, <1>8, <1>9 DEF Queue!Drop, u, v, w

(* Storing a string appends it to the queue, leaves the byte before        *)
(* ptr_read alone, the slot that always stays free, and ends going back.   *)
LEMMA StoringAppends ==
  ASSUME TypeOK, NEW s \in Seq(Byte), Stored(s), TypeOK'
  PROVE  Unread' = Unread \o s /\ PeekPrev' = PeekPrev /\ Saved' = {}
  <1> DEFINE u == Unread
             v == Unread'
             w == u \o s
  <1>1. /\ Available \in 0 .. Size - 1 /\ FreeSpace = Size - 1 - Available
        /\ Size \in Nat /\ Size >= 2
        /\ ptr_read \in 0 .. Size - 1 /\ ptr_write \in 0 .. Size - 1
    BY Counts, SizeAssumption DEF TypeOK, Ptr
  <1>2. /\ Len(s) \in Nat /\ Len(s) <= Size - 1 - Available
        /\ ptr_write' = Wrap(ptr_write + Len(s)) /\ ptr_read' = ptr_read
        /\ \A i \in 1 .. Len(s) : data'[Wrap(ptr_write + i - 1)] = s[i]
        /\ \A k \in Ptr : (\A i \in 1 .. Len(s) : k # Wrap(ptr_write + i - 1))
                            => data'[k] = data[k]
    BY <1>1 DEF Stored
  <1>3. Available' = Available + Len(s)
    BY <1>1, <1>2 DEF Available, Wrap
  <1>4. /\ u \in Seq(Byte) /\ Len(u) = Available
        /\ \A i \in 1 .. Available : u[i] = data[Wrap(ptr_read + i - 1)]
    BY UnreadProperties DEF UnreadIsSeq
  <1>5. /\ v \in Seq(Byte) /\ Len(v) = Available + Len(s)
        /\ \A i \in 1 .. Available + Len(s) : v[i] = data'[Wrap(ptr_read + i - 1)]
    <2>1. /\ v \in Seq(Byte) /\ Len(v) = Available'
          /\ \A i \in 1 .. Available' : v[i] = data'[Wrap(ptr_read' + i - 1)]
      <3>1. TypeOK' => UnreadIsSeq'
        BY UnreadProperties, PTL
      <3> QED
        BY <3>1 DEF UnreadIsSeq, Wrap
    <2> HIDE DEF v
    <2> QED
      BY <2>1, <1>2, <1>3
  <1> HIDE DEF u, v
  <1>6. /\ w \in Seq(Byte) /\ Len(w) = Available + Len(s)
        /\ \A i \in 1 .. Available + Len(s) :
             w[i] = IF i <= Available THEN u[i] ELSE s[i - Available]
    <2>1. /\ w \in Seq(Byte) /\ Len(w) = Len(u) + Len(s)
          /\ \A i \in 1 .. Len(u) + Len(s) :
               w[i] = IF i <= Len(u) THEN u[i] ELSE s[i - Len(u)]
      BY <1>4, ConcatProperties
    <2> HIDE DEF w
    <2> QED
      BY <2>1, <1>4
  <1> HIDE DEF w
  <1>7. ASSUME NEW i \in 1 .. Available + Len(s)
        PROVE  v[i] = w[i]
    <2>1. CASE i <= Available
      <3>1. /\ Wrap(ptr_read + i - 1) \in Ptr
            /\ \A j \in 1 .. Len(s) : Wrap(ptr_read + i - 1) # Wrap(ptr_write + j - 1)
        BY <2>1, <1>1, <1>2 DEF Wrap, Ptr, Available
      <3>2. data'[Wrap(ptr_read + i - 1)] = data[Wrap(ptr_read + i - 1)]
        BY <3>1, <1>2
      <3>3. i \in 1 .. Available
        BY <2>1, <1>1
      <3> QED
        BY <2>1, <3>2, <3>3, <1>4, <1>5, <1>6
    <2>2. CASE i > Available
      <3>1. /\ i - Available \in 1 .. Len(s) /\ ~(i <= Available)
            /\ Wrap(ptr_read + i - 1) = Wrap(ptr_write + (i - Available) - 1)
        BY <2>2, <1>1, <1>2 DEF Wrap, Available
      <3> QED
        BY <3>1, <1>2, <1>5, <1>6
    <2>3. i <= Available \/ i > Available
      BY <1>1
    <2> QED
      BY <2>1, <2>2, <2>3
  <1>8. v = w
    BY <1>5, <1>6, <1>7, SeqEqual
  <1>9. PeekPrev' = PeekPrev
    <2>1. /\ RingPrev(ptr_read) \in Ptr
          /\ \A j \in 1 .. Len(s) : RingPrev(ptr_read) # Wrap(ptr_write + j - 1)
      BY <1>1, <1>2 DEF RingPrev, Wrap, Ptr, Available
    <2>2. data'[RingPrev(ptr_read)] = data[RingPrev(ptr_read)]
      BY <2>1, <1>2
    <2> QED
      BY <2>2, <1>2 DEF PeekPrev, RingPrev
  <1>10. Saved' = {}
    BY DEF Stored, Saved
  <1> QED
    BY <1>8, <1>9, <1>10 DEF u, v, w

-----------------------------------------------------------------------------
(* The operations that read all move ptr_read over the bytes they return   *)
(* or compare.                                                             *)
LEMMA ReadMovesOver ==
  ASSUME TypeOK, NEW n \in 0 .. Available
  PROVE  /\ Advance(ptr_read, n) = Wrap(ptr_read + n)
         /\ (IF AvailableContig >= n THEN RingNext(ptr_read + n - 1)
             ELSE n - AvailableContig) = Wrap(ptr_read + n)
         /\ Wrap(ptr_read + n) \in Ptr
  <1>1. /\ Available \in 0 .. Size - 1 /\ Size \in Nat /\ ptr_read \in Ptr
        /\ AvailableContig \in 0 .. Available
        /\ ptr_read + AvailableContig <= Size
        /\ AvailableContig < Available => ptr_read + AvailableContig = Size
    BY Counts, SizeAssumption DEF TypeOK
  <1>2. n \in 0 .. Size
    BY <1>1
  <1>3. /\ Advance(ptr_read, n) = Wrap(ptr_read + n)
        /\ Wrap(ptr_read + n) \in Ptr
        /\ ptr_read + n <= Size => RingNext(ptr_read + n - 1) = Wrap(ptr_read + n)
    BY <1>1, <1>2, PointerMoves
  <1>4. AvailableContig >= n => ptr_read + n <= Size
    BY <1>1 DEF Ptr
  <1>5. ~(AvailableContig >= n) => n - AvailableContig = Wrap(ptr_read + n)
    BY <1>1 DEF Wrap, Ptr
  <1> QED
    BY <1>3, <1>4, <1>5

(* The result of an operation. *)
LEMMA Results ==
  /\ Rejected \in [rc : -1 .. 1, out : Seq(Byte)]
  /\ Mismatch \in [rc : -1 .. 1, out : Seq(Byte)]
  /\ \A s \in Seq(Byte) : Done(s) \in [rc : -1 .. 1, out : Seq(Byte)]
  /\ << >> \in Seq(Byte)
  BY EmptySeq DEF Rejected, Mismatch, Done

LEMMA InitTypeOK == Init => TypeOK
  <1> SUFFICES ASSUME Init PROVE TypeOK
    OBVIOUS
  <1>1. Done(<< >>) \in [rc : -1 .. 1, out : Seq(Byte)]
    BY Results
  <1> QED
    BY <1>1, SizeAssumption DEF Init, TypeOK, Ptr

(* The type invariant is inductive: no operation moves a pointer out of    *)
(* the buffer or stores outside it.                                        *)
LEMMA NextTypeOK == TypeOK /\ [Next]_vars => TypeOK'
  <1> SUFFICES ASSUME TypeOK, [Next]_vars PROVE TypeOK'
    OBVIOUS
  <1> DEFINE Result == [rc : -1 .. 1, out : Seq(Byte)]
  <1>a. /\ \A s \in Chunks : s \in Seq(Byte)
        /\ \A n \in Lengths : n \in Nat
        /\ Available \in 0 .. Size - 1
    BY ChunksAssumption, LengthsAssumption, Counts
  <1>b. ASSUME NEW r \in Result, Fail(r) PROVE TypeOK'
    BY <1>b DEF TypeOK, Fail, marking
  <1>c. ASSUME NEW n \in 0 .. Available, ptr_read' = Wrap(ptr_read + n),
               UNCHANGED <<data, ptr_write, marking>>, ret' \in Result
        PROVE  TypeOK'
    BY <1>c, ReadMovesOver DEF TypeOK, marking
  <1>d. ASSUME NEW s \in Seq(Byte), Stored(s), ret' = Done(<< >>)
        PROVE  TypeOK'
    <2>1. Wrap(ptr_write + Len(s)) \in Ptr
      <3>1. Len(s) \in 0 .. Size /\ ptr_write \in Ptr
        BY <1>d, <1>a, Counts, SizeAssumption DEF Stored, TypeOK
      <3> QED
        BY <3>1, PointerMoves
    <2>2. Done(<< >>) \in Result
      BY Results
    <2> QED
      BY <2>1, <2>2, <1>d DEF Stored, TypeOK
  <1>1. ASSUME NEW s \in Chunks, RingWrite(s) PROVE TypeOK'
    <2>1. CASE FreeSpace < Len(s)
      <3>1. Len(s) \in Nat /\ FreeSpace \in Nat
        BY <1>a, LenProperties, Counts, SizeAssumption
      <3>2. Fail(Rejected)
        BY <1>1, <2>1, <3>1 DEF RingWrite
      <3> QED
        BY <3>2, <1>b, Results
    <2>2. CASE FreeSpace >= Len(s)
      <3>1. Stored(s) /\ ret' = Done(<< >>)
        BY <1>1, <1>a, <2>2, WriteStores
      <3> QED
        BY <3>1, <1>a, <1>d
    <2> QED
      BY <1>1, <2>1, <2>2 DEF RingWrite
  <1>2. ASSUME NEW s \in Chunks, Receive(s) PROVE TypeOK'
    <2>1. Stored(s) /\ ret' = Done(<< >>)
      BY <1>2, <1>a, ReceiveStores
    <2> QED
      BY <2>1, <1>a, <1>d
  <1>3. ASSUME NEW s \in Chunks, RingMemCmp(s) PROVE TypeOK'
    <2>1. CASE Fail(Rejected) \/ Fail(Mismatch)
      BY <2>1, <1>b, Results
    <2>2. CASE Available >= Len(s) /\ ptr_read' = Advance(ptr_read, Len(s))
               /\ ret' = Done(<< >>) /\ UNCHANGED <<data, ptr_write, marking>>
      <3>1. Len(s) \in 0 .. Available
        BY <2>2, <1>a, LenProperties
      <3>2. ptr_read' = Wrap(ptr_read + Len(s))
        BY <2>2, <3>1, ReadMovesOver
      <3> QED
        BY <2>2, <3>1, <3>2, <1>c, Results
    <2> QED
      BY <1>3, <2>1, <2>2 DEF RingMemCmp
  <1>4. ASSUME NEW n \in Lengths, RingPeek(n) PROVE TypeOK'
    <2>1. CASE Fail(Rejected)
      BY <2>1, <1>b, Results
    <2>2. CASE Available >= n /\ Fail(Done(Front(n)))
      <3>1. Front(n) \in Seq(Byte)
        BY <2>2, <1>a, FrontProperties
      <3> QED
        BY <2>2, <3>1, <1>b, Results
    <2> QED
      BY <1>4, <2>1, <2>2 DEF RingPeek, Fail
  <1>5. ASSUME NEW n \in Lengths, RingRead(n) PROVE TypeOK'
    <2>1. CASE Fail(Rejected)
      BY <2>1, <1>b, Results
    <2>2. CASE /\ Available >= n
               /\ ret' = Done(Front(n))
               /\ ptr_read' = IF AvailableContig >= n
                              THEN RingNext(ptr_read + n - 1)
                              ELSE n - AvailableContig
               /\ UNCHANGED <<data, ptr_write, marking>>
      <3>1. n \in 0 .. Available
        BY <2>2, <1>a
      <3>2. ptr_read' = Wrap(ptr_read + n) /\ Front(n) \in Seq(Byte)
        BY <2>2, <3>1, ReadMovesOver, FrontProperties
      <3>3. ret' \in Result
        BY <2>2, <3>2, Results
      <3> QED
        BY <2>2, <3>1, <3>2, <3>3, <1>c
    <2> QED
      BY <1>5, <2>1, <2>2 DEF RingRead
  <1>6. ASSUME NEW n \in Lengths, RingAdvanceRead(n) PROVE TypeOK'
    <2>1. n \in 0 .. Available
      BY <1>6, <1>a DEF RingAdvanceRead
    <2>2. ptr_read' = Wrap(ptr_read + n)
      BY <1>6, <2>1, ReadMovesOver DEF RingAdvanceRead
    <2> QED
      BY <1>6, <2>1, <2>2, <1>c, Results DEF RingAdvanceRead
  <1>7. ASSUME RingReadOne \/ RingIncRead PROVE TypeOK'
    <2>1. 1 \in 0 .. Available /\ ptr_read \in Ptr
      BY <1>7, <1>a, Counts DEF RingReadOne, RingIncRead, TypeOK
    <2>2. ptr_read' = Wrap(ptr_read + 1) /\ UNCHANGED <<data, ptr_write, marking>>
      BY <1>7, <2>1, PointerMoves DEF RingReadOne, RingIncRead
    <2>3. ret' \in Result
      <3>1. data[ptr_read] \in Byte
        BY <2>1 DEF TypeOK
      <3>2. << data[ptr_read] >> \in Seq(Byte)
        BY <3>1
      <3> QED
        BY <1>7, <3>2, Results DEF RingReadOne, RingIncRead
    <2> QED
      BY <2>1, <2>2, <2>3, <1>c
  <1>8. ASSUME Remember PROVE TypeOK'
    BY <1>8 DEF Remember, TypeOK
  <1>9. ASSUME Rewind PROVE TypeOK'
    BY <1>9 DEF Rewind, TypeOK, marking
  <1>10. CASE UNCHANGED vars
    BY <1>10 DEF vars, marking, TypeOK
  <1> QED
    BY <1>1, <1>2, <1>3, <1>4, <1>5, <1>6, <1>7, <1>8, <1>9, <1>10 DEF Next

(* Both pointers and every store stay inside the buffer. *)
THEOREM RingStaysInBuffer == Spec => []TypeOK
  <1>1. Init => TypeOK
    BY InitTypeOK
  <1>2. TypeOK /\ [Next]_vars => TypeOK'
    BY NextTypeOK
  <1> QED
    BY <1>1, <1>2, PTL DEF Spec

(* A read(2) into the contiguous free area asks for 0 bytes, and so looks  *)
(* like the end of the stream, only when the ring is full.                 *)
THEOREM RingOffersSpaceUnlessFull == Spec => []OnlyAFullRingLooksLikeEOF
  <1>1. TypeOK => OnlyAFullRingLooksLikeEOF
    BY SizeAssumption
    DEF TypeOK, Ptr, OnlyAFullRingLooksLikeEOF, FreeSpaceContig, FreeSpace, Available
  <1> QED
    BY <1>1, RingStaysInBuffer, PTL

-----------------------------------------------------------------------------
(* An operation that fails leaves the queue alone. *)
LEMMA FailKeepsQueue ==
  ASSUME NEW r, Fail(r)
  PROVE  /\ ret' = r /\ Unread' = Unread /\ PeekPrev' = PeekPrev
         /\ Saved' = Saved
  <1>1. UNCHANGED <<data, ptr_read, ptr_write, marking>> /\ ret' = r
    BY DEF Fail
  <1>2. Saved' = Saved
    BY <1>1, SavedStays
  <1> QED
    BY <1>1, <1>2 DEF Unread, PeekPrev, Available, Wrap, RingPrev

(* The three results are those of the queue. *)
LEMMA SameResults ==
  /\ Rejected = Queue!Rejected
  /\ Mismatch = Queue!Mismatch
  /\ \A s : Done(s) = Queue!Done(s)
  BY DEF Rejected, Mismatch, Done, Queue!Rejected, Queue!Mismatch, Queue!Done

(* ring_memcmp compares the front of the queue. *)
LEMMA FrontMatchesPrefix ==
  ASSUME TypeOK, NEW s \in Seq(Byte), Len(s) <= Available
  PROVE  FrontMatches(s) <=> SubSeq(Unread, 1, Len(s)) = s
  <1> DEFINE c == AvailableContig
             f == Front(Len(s))
  <1>1. /\ Len(s) \in 0 .. Available /\ Len(s) \in Nat
        /\ c \in Nat /\ ptr_read \in Nat
        /\ ptr_read + c <= Size
        /\ Available \in 0 .. Size - 1 /\ Size \in Nat
        /\ c < Available => /\ ptr_read + c = Size
                            /\ Available - c < Size
        /\ \A i \in 1 .. Len(s) : s[i] \in Byte
    <2>1. Len(s) \in Nat /\ \A i \in 1 .. Len(s) : s[i] \in Byte
      BY LenProperties
    <2> QED
      BY <2>1, Counts, SizeAssumption DEF TypeOK, Ptr
  <1>2. f = SubSeq(Unread, 1, Len(s))
    BY <1>1, FrontIsPrefix
  <1>3. CASE c >= Len(s)
    <2>1. FrontMatches(s) <=> Load(ptr_read, Len(s)) = s
      BY <1>3 DEF FrontMatches
    <2>2. f = Load(ptr_read, Len(s))
      BY <1>3 DEF Front
    <2> QED
      BY <1>2, <2>1, <2>2
  <1>4. CASE c < Len(s)
    <2> DEFINE l == Load(ptr_read, c)
               r == Load(0, Len(s) - c)
               sl == SubSeq(s, 1, c)
               sr == SubSeq(s, c + 1, Len(s))
    <2>1. FrontMatches(s) <=> l = sl /\ r = sr
      BY <1>1, <1>4 DEF FrontMatches
    <2>2. f = l \o r
      BY <1>1, <1>4 DEF Front
    <2> HIDE DEF c, f
    <2>3. l \in Seq(Byte) /\ Len(l) = c
      BY <1>1, LoadProperties
    <2>4. r \in Seq(Byte) /\ Len(r) = Len(s) - c
      <3>1. Len(s) - c \in Nat /\ 0 + (Len(s) - c) <= Size
        BY <1>1, <1>4
      <3> QED
        BY <3>1, LoadProperties
    <2> HIDE DEF l, r
    <2>5. sl \in Seq(Byte) /\ Len(sl) = c /\ \A i \in 1 .. c : sl[i] = s[i]
      <3>1. \A i \in 1 .. c : s[i] \in Byte
        BY <1>1, <1>4
      <3>2. /\ sl \in Seq(Byte)
            /\ Len(sl) = IF 1 <= c THEN c - 1 + 1 ELSE 0
            /\ \A i \in 1 .. c - 1 + 1 : sl[i] = s[1 + i - 1]
        BY <3>1, <1>1, SubSeqProperties
      <3> HIDE DEF sl
      <3>3. c - 1 + 1 = c /\ \A i \in 1 .. c : 1 + i - 1 = i
        BY <1>1
      <3> QED
        BY <3>2, <3>3, <1>1
    <2>6. /\ sr \in Seq(Byte) /\ Len(sr) = Len(s) - c
          /\ \A i \in 1 .. Len(s) - c : sr[i] = s[c + i]
      <3>1. \A i \in c + 1 .. Len(s) : s[i] \in Byte
        BY <1>1
      <3>2. /\ sr \in Seq(Byte)
            /\ Len(sr) = IF c + 1 <= Len(s) THEN Len(s) - (c + 1) + 1 ELSE 0
            /\ \A i \in 1 .. Len(s) - (c + 1) + 1 : sr[i] = s[c + 1 + i - 1]
        BY <3>1, <1>1, SubSeqProperties
      <3> HIDE DEF sr
      <3>3. /\ Len(s) - (c + 1) + 1 = Len(s) - c /\ c + 1 <= Len(s)
            /\ \A i \in 1 .. Len(s) - c : c + 1 + i - 1 = c + i
        BY <1>1, <1>4
      <3> QED
        BY <3>2, <3>3
    <2> HIDE DEF sl, sr
    <2>7. /\ l \o r \in Seq(Byte) /\ Len(l \o r) = Len(s)
          /\ \A i \in 1 .. Len(s) : (l \o r)[i] = IF i <= c THEN l[i] ELSE r[i - c]
      <3>1. /\ l \o r \in Seq(Byte) /\ Len(l \o r) = Len(l) + Len(r)
            /\ \A i \in 1 .. Len(l) + Len(r) :
                 (l \o r)[i] = IF i <= Len(l) THEN l[i] ELSE r[i - Len(l)]
        BY <2>3, <2>4, ConcatProperties
      <3>2. Len(l) + Len(r) = Len(s)
        BY <1>1, <2>3, <2>4
      <3> QED
        BY <3>1, <3>2, <2>3
    <2>8. l = sl /\ r = sr => l \o r = s
      <3> SUFFICES ASSUME l = sl, r = sr PROVE l \o r = s
        OBVIOUS
      <3>1. ASSUME NEW i \in 1 .. Len(s) PROVE (l \o r)[i] = s[i]
        <4>1. CASE i <= c
          BY <4>1, <1>1, <2>5, <2>7
        <4>2. CASE ~(i <= c)
          <5>1. i - c \in 1 .. Len(s) - c /\ c + (i - c) = i
            BY <4>2, <1>1
          <5> QED
            BY <4>2, <5>1, <2>6, <2>7
        <4> QED
          BY <4>1, <4>2
      <3> QED
        BY <3>1, <2>7, SeqEqual
    <2>9. l \o r = s => l = sl /\ r = sr
      <3> SUFFICES ASSUME l \o r = s PROVE l = sl /\ r = sr
        OBVIOUS
      <3>1. l = sl
        <4>1. ASSUME NEW i \in 1 .. c PROVE l[i] = sl[i]
          <5>1. i \in 1 .. Len(s) /\ i <= c
            BY <1>1, <1>4
          <5> QED
            BY <5>1, <2>5, <2>7
        <4> QED
          BY <4>1, <2>3, <2>5, SeqEqual
      <3>2. r = sr
        <4>1. ASSUME NEW i \in 1 .. Len(s) - c PROVE r[i] = sr[i]
          <5> DEFINE k == c + i
          <5>1. k \in 1 .. Len(s) /\ ~(k <= c) /\ k - c = i
            BY <1>1, <1>4
          <5> HIDE DEF k
          <5>2. (l \o r)[k] = r[i]
            BY <5>1, <2>7
          <5>3. sr[i] = s[k]
            BY <2>6 DEF k
          <5> QED
            BY <5>2, <5>3
        <4> QED
          BY <4>1, <2>4, <2>6, SeqEqual
      <3> QED
        BY <3>1, <3>2
    <2> QED
      BY <1>2, <2>1, <2>2, <2>8, <2>9
  <1> QED
    BY <1>3, <1>4, <1>1

LEMMA InitRefines == Init => Queue!Init
  <1> SUFFICES ASSUME Init PROVE Queue!Init
    OBVIOUS
  <1>1. TypeOK
    BY InitTypeOK
  <1>2. Available = 0
    BY DEF Init, Available
  <1>3. Unread = << >>
    BY <1>1, <1>2, UnreadProperties, EmptySeq DEF UnreadIsSeq
  <1>4. PeekPrev \in Byte
    BY <1>1, PointerMoves DEF TypeOK, PeekPrev
  <1>5. Saved = {}
    BY DEF Init, Saved
  <1> QED
    BY <1>3, <1>4, <1>5, SameResults DEF Init, Queue!Init

(* Every step of the ring is a step of the queue, or changes nothing in it.*)
LEMMA NextRefines == TypeOK /\ TypeOK' /\ [Next]_vars => [Queue!Next]_Queue!vars
  <1> SUFFICES ASSUME TypeOK, TypeOK', [Next]_vars
               PROVE  [Queue!Next]_Queue!vars
    OBVIOUS
  <1>a. /\ Available \in 0 .. Size - 1 /\ Available \in Nat
        /\ FreeSpace = Size - 1 - Available /\ Size \in Nat
        /\ Len(Unread) = Available
    BY Counts, SizeAssumption, UnreadProperties DEF UnreadIsSeq
  <1>b. /\ \A s \in Chunks : s \in Seq(Byte) /\ Len(s) \in Nat
        /\ \A n \in Lengths : n \in Nat
    BY ChunksAssumption, LengthsAssumption, LenProperties
  <1>c. ASSUME Fail(Rejected) PROVE Queue!Reject
    BY <1>c, FailKeepsQueue, SameResults DEF Queue!Reject
  <1>d. ASSUME NEW n \in 0 .. Available, ptr_read' = Wrap(ptr_read + n),
               UNCHANGED <<data, ptr_write, marking>>
        PROVE  Queue!Drop(n)
    BY <1>d, MovingReadDrops
  <1>1. ASSUME NEW s \in Chunks, RingWrite(s) PROVE Queue!Put(s)
    <2>1. CASE FreeSpace < Len(s)
      <3>1. Fail(Rejected)
        BY <1>1, <1>a, <1>b, <2>1 DEF RingWrite
      <3>2. Len(Unread) + Len(s) > Size - 1
        BY <1>a, <1>b, <2>1
      <3> QED
        BY <3>1, <3>2, <1>c DEF Queue!Put
    <2>2. CASE FreeSpace >= Len(s)
      <3>1. Stored(s) /\ ret' = Done(<< >>)
        BY <1>1, <1>b, <2>2, WriteStores
      <3>2. Unread' = Unread \o s /\ PeekPrev' = PeekPrev /\ Saved' = {}
        BY <3>1, <1>b, StoringAppends
      <3>3. Len(Unread) + Len(s) <= Size - 1
        BY <1>a, <1>b, <2>2
      <3> QED
        BY <3>1, <3>2, <3>3, SameResults DEF Queue!Put
    <2> QED
      BY <1>1, <2>1, <2>2 DEF RingWrite
  <1>2. ASSUME NEW s \in Chunks, Receive(s) PROVE Queue!Put(s)
    <2>1. Stored(s) /\ ret' = Done(<< >>)
      BY <1>2, <1>b, ReceiveStores
    <2>2. Unread' = Unread \o s /\ PeekPrev' = PeekPrev /\ Saved' = {}
      BY <2>1, <1>b, StoringAppends
    <2>3. Len(Unread) + Len(s) <= Size - 1
      BY <1>a, <1>b, <2>1 DEF Stored
    <2> QED
      BY <2>1, <2>2, <2>3, SameResults DEF Queue!Put
  <1>3. ASSUME NEW s \in Chunks, RingMemCmp(s) PROVE Queue!Match(s)
    <2>1. CASE Available < Len(s)
      <3>1. Fail(Rejected)
        BY <1>3, <1>a, <1>b, <2>1 DEF RingMemCmp
      <3> QED
        BY <3>1, <2>1, <1>a, <1>c DEF Queue!Match
    <2>2. CASE Available >= Len(s) /\ ~FrontMatches(s)
      <3>1. Fail(Mismatch)
        BY <1>3, <1>a, <1>b, <2>2 DEF RingMemCmp
      <3>2. Len(s) <= Available /\ SubSeq(Unread, 1, Len(s)) # s
        BY <2>2, <1>a, <1>b, FrontMatchesPrefix
      <3>3. /\ ret' = Queue!Mismatch
            /\ Unread' = Unread /\ PeekPrev' = PeekPrev /\ Saved' = Saved
        BY <3>1, FailKeepsQueue, SameResults
      <3> QED
        BY <3>2, <3>3, <1>a DEF Queue!Match
    <2>3. CASE Available >= Len(s) /\ FrontMatches(s)
      <3>1. /\ ptr_read' = Advance(ptr_read, Len(s))
            /\ ret' = Done(<< >>)
            /\ UNCHANGED <<data, ptr_write, marking>>
        BY <1>3, <1>a, <1>b, <2>3 DEF RingMemCmp
      <3>2. Len(s) \in 0 .. Available /\ SubSeq(Unread, 1, Len(s)) = s
        BY <2>3, <1>a, <1>b, FrontMatchesPrefix
      <3>3. Queue!Drop(Len(s))
        BY <3>1, <3>2, <1>d, ReadMovesOver
      <3> QED
        BY <3>1, <3>2, <3>3, <1>a, SameResults DEF Queue!Match
    <2> QED
      BY <1>a, <1>b, <2>1, <2>2, <2>3
  <1>4. ASSUME NEW n \in Lengths, RingPeek(n) PROVE Queue!Look(n)
    <2>1. CASE Available < n
      <3>1. Fail(Rejected)
        BY <1>4, <1>a, <1>b, <2>1 DEF RingPeek
      <3> QED
        BY <3>1, <2>1, <1>a, <1>b, <1>c DEF Queue!Look
    <2>2. CASE Available >= n
      <3>1. Fail(Done(Front(n)))
        BY <1>4, <1>a, <1>b, <2>2 DEF RingPeek, Fail
      <3>2. n \in 0 .. Available
        BY <2>2, <1>a, <1>b
      <3>3. /\ ret' = Queue!Done(SubSeq(Unread, 1, n))
            /\ Unread' = Unread /\ PeekPrev' = PeekPrev /\ Saved' = Saved
        BY <3>1, <3>2, FrontIsPrefix, FailKeepsQueue, SameResults
      <3> QED
        BY <3>2, <3>3, <1>a DEF Queue!Look
    <2> QED
      BY <1>a, <1>b, <2>1, <2>2
  <1>5. ASSUME NEW n \in Lengths, RingRead(n) PROVE Queue!Take(n)
    <2>1. CASE Available < n
      <3>1. Fail(Rejected)
        BY <1>5, <1>a, <1>b, <2>1 DEF RingRead
      <3> QED
        BY <3>1, <2>1, <1>a, <1>b, <1>c DEF Queue!Take
    <2>2. CASE Available >= n
      <3>1. /\ ret' = Done(Front(n))
            /\ ptr_read' = IF AvailableContig >= n
                           THEN RingNext(ptr_read + n - 1)
                           ELSE n - AvailableContig
            /\ UNCHANGED <<data, ptr_write, marking>>
        BY <1>5, <1>a, <1>b, <2>2 DEF RingRead
      <3>2. n \in 0 .. Available
        BY <2>2, <1>a, <1>b
      <3>3. Queue!Drop(n)
        BY <3>1, <3>2, <1>d, ReadMovesOver
      <3>4. ret' = Queue!Done(SubSeq(Unread, 1, n))
        BY <3>1, <3>2, FrontIsPrefix, SameResults
      <3> QED
        BY <3>2, <3>3, <3>4, <1>a DEF Queue!Take
    <2> QED
      BY <1>a, <1>b, <2>1, <2>2
  <1>6. ASSUME NEW n \in Lengths, RingAdvanceRead(n) PROVE Queue!Skip(n)
    <2>1. n \in 0 .. Available
      BY <1>6, <1>a, <1>b DEF RingAdvanceRead
    <2>2. Queue!Drop(n)
      BY <1>6, <2>1, <1>d, ReadMovesOver DEF RingAdvanceRead
    <2> QED
      BY <1>6, <2>1, <2>2, <1>a, SameResults DEF RingAdvanceRead, Queue!Skip
  <1>7. ASSUME RingReadOne \/ RingIncRead
        PROVE  1 \in 0 .. Available /\ Queue!Drop(1)
    <2>1. 1 \in 0 .. Available /\ ptr_read \in Ptr
      BY <1>7, <1>a, Counts DEF RingReadOne, RingIncRead, TypeOK
    <2>2. ptr_read' = Wrap(ptr_read + 1) /\ UNCHANGED <<data, ptr_write, marking>>
      BY <1>7, <2>1, PointerMoves DEF RingReadOne, RingIncRead
    <2> QED
      BY <2>1, <2>2, <1>d
  <1>8. ASSUME RingReadOne PROVE Queue!Take(1)
    <2>1. /\ 1 \in 0 .. Available /\ Queue!Drop(1) /\ ptr_read \in 0 .. Size - 1
          /\ ret' = Done(<< data[ptr_read] >>)
      BY <1>7, <1>8 DEF RingReadOne, TypeOK, Ptr
    <2>2. SubSeq(Unread, 1, 1) = << data[ptr_read] >>
      <3>1. 1 \in 1 .. Len(Unread) /\ Unread \in Seq(Byte)
        BY <2>1, <1>a, UnreadProperties DEF UnreadIsSeq
      <3>2. Unread[1] = data[ptr_read]
        <4>1. Wrap(ptr_read + 1 - 1) = ptr_read
          BY <2>1, <1>a DEF Wrap
        <4>2. 1 \in 1 .. Available
          BY <2>1, <1>a
        <4> QED
          BY <4>1, <4>2, UnreadProperties DEF UnreadIsSeq
      <3>3. SubSeq(Unread, 1, 1) = << Unread[1] >> \o SubSeq(Unread, 2, 1)
        BY <3>1, SubSeqRecursiveFirst
      <3>4. SubSeq(Unread, 2, 1) = << >>
        BY SubSeqEmpty
      <3>5. << Unread[1] >> \in Seq(Byte)
        BY <3>1, ElementOfSeq
      <3> QED
        BY <3>2, <3>3, <3>4, <3>5, ConcatEmptySeq
    <2>3. ret' = Queue!Done(SubSeq(Unread, 1, 1))
      BY <2>1, <2>2, SameResults, Zenon
    <2>4. 1 <= Len(Unread)
      BY <2>1, <1>a
    <2> QED
      BY <2>1, <2>3, <2>4 DEF Queue!Take
  <1>9. ASSUME RingIncRead PROVE Queue!Skip(1)
    BY <1>7, <1>9, <1>a, SameResults DEF RingIncRead, Queue!Skip
  <1>10. ASSUME Remember PROVE Queue!Remember
    <2>1. UNCHANGED <<data, ptr_read, ptr_write, ret>>
      BY <1>10 DEF Remember
    <2>2. Unread' = Unread /\ PeekPrev' = PeekPrev
      BY <2>1 DEF Unread, PeekPrev, Available, Wrap, RingPrev
    <2>3. Saved' = {<<Unread, PeekPrev>>}
      BY <1>10
      DEF Remember, Saved, Marked, Unread, PeekPrev, Available, Wrap, RingPrev
    <2> QED
      BY <2>1, <2>2, <2>3 DEF Queue!Remember
  <1>11. ASSUME Rewind PROVE Queue!Rewind
    <2>1. /\ intact /\ ptr_read' = mark
          /\ UNCHANGED <<data, ptr_write, marking, ret>>
      BY <1>11 DEF Rewind
    <2>2. Unread' = Marked /\ PeekPrev' = data[RingPrev(mark)]
      BY <2>1 DEF Unread, PeekPrev, Marked, Available, Wrap, RingPrev
    <2>3. <<Marked, data[RingPrev(mark)]>> \in Saved
      BY <2>1 DEF Saved
    <2>4. Saved' = Saved
      BY <2>1, SavedStays
    <2>5. \E s \in Saved : Unread' = s[1] /\ PeekPrev' = s[2]
      BY <2>2, <2>3
    <2> QED
      BY <2>1, <2>4, <2>5 DEF Queue!Rewind
  <1>12. CASE UNCHANGED vars
    <2>1. UNCHANGED <<data, ptr_read, ptr_write, marking, ret>>
      BY <1>12 DEF vars
    <2>2. Saved' = Saved
      BY <2>1, SavedStays
    <2> QED
      BY <2>1, <2>2
      DEF Queue!vars, Unread, PeekPrev, Available, Wrap, RingPrev
  <1> QED
    BY <1>1, <1>2, <1>3, <1>4, <1>5, <1>6, <1>8, <1>9, <1>10, <1>11, <1>12
    DEF Next, Queue!Next

(* The ring buffer implements the bounded byte queue.                      *)
THEOREM RingIsByteQueue == Spec => IsByteQueue
  <1>1. Init => Queue!Init
    BY InitRefines
  <1>2. TypeOK /\ TypeOK' /\ [Next]_vars => [Queue!Next]_Queue!vars
    BY NextRefines
  <1>3. Spec => []TypeOK
    BY RingStaysInBuffer
  <1> QED
    BY <1>1, <1>2, <1>3, PTL DEF Spec, IsByteQueue, Queue!Spec
=============================================================================
