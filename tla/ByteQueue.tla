----------------------------- MODULE ByteQueue -----------------------------
(***************************************************************************)
(* What a ring buffer of the program promises: a bounded FIFO of bytes.    *)
(* Nothing here knows about pointers, wrap-around or contiguous areas.     *)
(* Besides the unread bytes the queue keeps the last byte that was taken   *)
(* out: the command parser asks for it (ring_peek_prev) to tell a "get     *)
(* pixel" from a "set pixel".  And a reader can take back what it has read *)
(* since it remembered its place.                                          *)
(***************************************************************************)
EXTENDS Integers, Sequences

CONSTANTS Byte,      \* the byte values
          Capacity,  \* how many unread bytes the queue holds at most
          Chunks,    \* the byte strings written to it, or compared with it
          Lengths    \* the lengths its readers ask for

VARIABLES unread,    \* the bytes written and not yet taken
          prev,      \* the last byte taken; any byte before the first one
          saved,     \* both as they were when a reader remembered its
                     \*   place; {} before, and once bytes have been added
          ret        \* what the last call returned

vars == <<unread, prev, saved, ret>>

Rejected == [rc |-> -1, out |-> << >>]    \* a negative return code
Mismatch == [rc |->  1, out |-> << >>]    \* ring_memcmp: "no match"
Done(s)  == [rc |->  0, out |-> s]        \* success, with the bytes copied out

Init == /\ unread = << >>
        /\ prev \in Byte
        /\ saved = {}
        /\ ret = Done(<< >>)

(* Take the first n unread bytes away. *)
Drop(n) == /\ unread' = SubSeq(unread, n + 1, Len(unread))
           /\ prev' = IF n = 0 THEN prev ELSE unread[n]
           /\ UNCHANGED saved

Reject == ret' = Rejected /\ UNCHANGED <<unread, prev, saved>>

Put(s) ==
  \/ /\ Len(unread) + Len(s) <= Capacity
     /\ unread' = unread \o s
     /\ ret' = Done(<< >>)
     /\ saved' = {}
     /\ UNCHANGED prev
  \/ Len(unread) + Len(s) > Capacity /\ Reject

Look(n) ==
  \/ /\ n <= Len(unread)
     /\ ret' = Done(SubSeq(unread, 1, n))
     /\ UNCHANGED <<unread, prev, saved>>
  \/ n > Len(unread) /\ Reject

Take(n) ==
  \/ n <= Len(unread) /\ Drop(n) /\ ret' = Done(SubSeq(unread, 1, n))
  \/ n > Len(unread) /\ Reject

Skip(n) == n <= Len(unread) /\ Drop(n) /\ ret' = Done(<< >>)

Match(s) ==
  \/ Len(s) > Len(unread) /\ Reject
  \/ /\ Len(s) <= Len(unread)
     /\ SubSeq(unread, 1, Len(s)) = s
     /\ Drop(Len(s))
     /\ ret' = Done(<< >>)
  \/ /\ Len(s) <= Len(unread)
     /\ SubSeq(unread, 1, Len(s)) # s
     /\ ret' = Mismatch
     /\ UNCHANGED <<unread, prev, saved>>

Remember ==
  /\ saved' = {<<unread, prev>>}
  /\ UNCHANGED <<unread, prev, ret>>

Rewind ==
  /\ \E s \in saved : unread' = s[1] /\ prev' = s[2]
  /\ UNCHANGED <<saved, ret>>

Next == \/ \E s \in Chunks : Put(s) \/ Match(s)
        \/ \E n \in Lengths : Look(n) \/ Take(n) \/ Skip(n)
        \/ Take(1)
        \/ Skip(1)
        \/ Remember
        \/ Rewind

Spec == Init /\ [][Next]_vars
=============================================================================
