-------------------------------- MODULE LList --------------------------------
(***************************************************************************)
(* The linked list (llist.c): its entries and their pointers.              *)
(*                                                                         *)
(* llist_append and llist_remove hold the lock of the list.  Walks do not  *)
(* take it by themselves: those over lists that entries leave are kept     *)
(* apart from llist_remove by a lock of the caller (network.c:242,         *)
(* statistics.c:41, workqueue.c:21), but resize_cb walks over fb_list      *)
(* (main.c:120) while a connection thread may append to it                 *)
(* (network.c:299).  So a removal is one step here, and an append is one   *)
(* per pointer that a walk follows.  A list ends with a walk that frees    *)
(* its entries where they are (framebuffer.c:68, main.c:447); who might    *)
(* still use it then is the business of the modules Network and Server.    *)
(***************************************************************************)
EXTENDS Integers, SequencesExt

CONSTANTS Entry, NULL

ASSUME EntryAssumption == NULL \notin Entry

VARIABLES head, tail,   \* of the list
          next, prev,   \* of each entry
          apc, new,     \* where llist_append is, and its entry
          wpc,          \* which walk is under way
          cursor, nxt,  \* its variables
          visited,      \* what it has visited, or freed
          contents,     \* history: the entries in the list
          before        \* history: the entries when the walk began

ptrVars  == <<head, tail, next, prev>>
walkVars == <<wpc, cursor, nxt, visited, before>>
vars == <<ptrVars, apc, new, walkVars, contents>>

Init ==
  /\ head = NULL /\ tail = NULL
  /\ next = [e \in Entry |-> NULL] /\ prev = [e \in Entry |-> NULL]
  /\ apc = "idle" /\ new = NULL
  /\ wpc = "idle" /\ cursor = NULL /\ nxt = NULL /\ visited = << >>
  /\ contents = << >> /\ before = << >>

In(s, e) == \E k \in DOMAIN s : s[k] = e

Freeing == wpc = "free"

-----------------------------------------------------------------------------
(* llist_append *)

AppendBegin(e) ==
  /\ apc = "idle" /\ ~In(contents, e) /\ ~Freeing
  /\ new' = e /\ next' = [next EXCEPT ![e] = NULL]
  /\ IF head = NULL \/ tail = NULL
     THEN apc' = "head" /\ prev' = [prev EXCEPT ![e] = NULL]
     ELSE apc' = "link" /\ UNCHANGED prev
  /\ UNCHANGED <<head, tail, walkVars, contents>>

SetHead ==
  /\ apc = "head"
  /\ head' = new /\ contents' = Append(contents, new) /\ apc' = "tail"
  /\ UNCHANGED <<tail, next, prev, new, walkVars>>

(* Wrong variants of an operator, each named for its error, stand before   *)
(* it: what the properties must be able to tell apart.                     *)
LinkNextOfTheHead ==
  /\ apc = "link"
  /\ next' = [next EXCEPT ![head] = new]
  /\ contents' = Append(contents, new) /\ apc' = "back"
  /\ UNCHANGED <<head, tail, prev, new, walkVars>>

LinkNext ==
  /\ apc = "link"
  /\ next' = [next EXCEPT ![tail] = new]
  /\ contents' = Append(contents, new) /\ apc' = "back"
  /\ UNCHANGED <<head, tail, prev, new, walkVars>>

LinkPrevForgetsTail ==
  /\ apc = "back"
  /\ prev' = [prev EXCEPT ![new] = tail] /\ apc' = "idle"
  /\ UNCHANGED <<head, tail, next, new, walkVars, contents>>

LinkPrev ==
  /\ apc = "back"
  /\ prev' = [prev EXCEPT ![new] = tail] /\ apc' = "tail"
  /\ UNCHANGED <<head, tail, next, new, walkVars, contents>>

SetTail ==
  /\ apc = "tail"
  /\ tail' = new /\ apc' = "idle" /\ new' = NULL
  /\ UNCHANGED <<head, next, prev, walkVars, contents>>

-----------------------------------------------------------------------------
(* llist_remove *)

UnlinkKeepsTail(e) ==
  /\ head' = IF e = head THEN next[e] ELSE head
  /\ prev' = [f \in Entry |-> IF f = e THEN NULL
                              ELSE IF f = next[e] THEN prev[e] ELSE prev[f]]
  /\ next' = [f \in Entry |-> IF f = e THEN NULL
                              ELSE IF f = prev[e] THEN next[e] ELSE next[f]]
  /\ contents' = RemoveFirst(contents, e)
  /\ UNCHANGED tail

Unlink(e) ==
  /\ head' = IF e = head THEN next[e] ELSE head
  /\ tail' = IF e = tail THEN prev[e] ELSE tail
  /\ prev' = [f \in Entry |-> IF f = e THEN NULL
                              ELSE IF f = next[e] THEN prev[e] ELSE prev[f]]
  /\ next' = [f \in Entry |-> IF f = e THEN NULL
                              ELSE IF f = prev[e] THEN next[e] ELSE next[f]]
  /\ contents' = RemoveFirst(contents, e)

RemoveEntry(e) ==
  /\ apc = "idle" /\ In(contents, e) /\ wpc = "idle"
  /\ Unlink(e)
  /\ UNCHANGED <<apc, new, walkVars>>

-----------------------------------------------------------------------------
(* llist_for_each, at any time *)

WalkBegin ==
  /\ wpc = "idle"
  /\ wpc' = "walk" /\ cursor' = head /\ visited' = << >> /\ before' = contents
  /\ UNCHANGED <<ptrVars, apc, new, nxt, contents>>

WalkNext ==
  /\ wpc = "walk" /\ cursor # NULL
  /\ visited' = Append(visited, cursor) /\ cursor' = next[cursor]
  /\ UNCHANGED <<ptrVars, apc, new, wpc, nxt, before, contents>>

Walked == wpc # "idle" /\ cursor = NULL

WalkEnd ==
  /\ wpc = "walk" /\ Walked
  /\ wpc' = "idle" /\ visited' = << >> /\ before' = << >>
  /\ UNCHANGED <<ptrVars, apc, new, cursor, nxt, contents>>

(* llist_for_each_safe with a body that frees the entry at the cursor and  *)
(* leaves it on the list.  What is read of a freed entry may be anything.  *)
(* Nobody else uses the list from here on.                                 *)
NextRead(e, freed) ==
  IF e = NULL THEN {NULL}
  ELSE IF In(freed, e) THEN Entry \cup {NULL}
  ELSE {next[e]}

FreeBegin ==
  /\ wpc = "idle" /\ apc = "idle"
  /\ wpc' = "free" /\ cursor' = head /\ nxt' \in NextRead(head, << >>)
  /\ visited' = << >>
  /\ UNCHANGED <<ptrVars, apc, new, before, contents>>

(* Where to go on after the body: as llist_for_each does, and as it is.    *)
NextOfTheFreed == NextRead(cursor, Append(visited, cursor))
Saved == {nxt}

FreeNext ==
  /\ Freeing /\ cursor # NULL
  /\ visited' = Append(visited, cursor)
  /\ cursor' \in Saved
  /\ nxt' \in NextRead(cursor', visited')
  /\ UNCHANGED <<ptrVars, apc, new, wpc, before, contents>>

-----------------------------------------------------------------------------
Next == \/ \E e \in Entry : AppendBegin(e) \/ RemoveEntry(e)
        \/ SetHead \/ LinkNext \/ LinkPrev \/ SetTail
        \/ WalkBegin \/ WalkNext \/ WalkEnd \/ FreeBegin \/ FreeNext
        \/ Freeing /\ Walked /\ UNCHANGED vars

Spec == Init /\ [][Next]_vars

-----------------------------------------------------------------------------
(* Properties *)

TypeOK ==
  /\ {head, tail, new, cursor, nxt} \subseteq Entry \cup {NULL}
  /\ next \in [Entry -> Entry \cup {NULL}] /\ prev \in [Entry -> Entry \cup {NULL}]
  /\ apc \in {"idle", "head", "link", "back", "tail"}
  /\ new = NULL <=> apc = "idle"
  /\ wpc \in {"idle", "walk", "free"}
  /\ {visited, contents, before} \subseteq Seq(Entry)

(* From first on along a pointer lie the entries of s, and no others.      *)
IsChain(s, first, pointer) ==
  /\ first = IF s = << >> THEN NULL ELSE s[1]
  /\ \A k \in DOMAIN s : pointer[s[k]] = IF k = Len(s) THEN NULL ELSE s[k + 1]

(* Whenever its lock is free the list holds, forwards, what has been       *)
(* appended and not removed, in order; backwards the same; and entries     *)
(* that are not in it point nowhere (llist.c:41-78).  In particular        *)
(* assert(!llist->tail) at llist.c:45 holds.                               *)
PointersAgree ==
  apc = "idle" =>
    /\ IsChain(contents, head, next)
    /\ IsChain(Reverse(contents), tail, prev)
    /\ \A e \in Entry : ~In(contents, e) => next[e] = NULL /\ prev[e] = NULL

(* A walk visits every entry that was there when it began, and others only *)
(* if they are appended meanwhile: each once, in order, although it does   *)
(* not hold the lock (llist.h:29-30; main.c:120).                          *)
WalkSeesTheList ==
  wpc = "walk" => /\ IsPrefix(visited, contents)
                  /\ Walked => IsPrefix(before, visited)

(* A walk that frees the entries frees each of them once, in order, and    *)
(* stands only on entries that are not freed yet: what it reads of a freed *)
(* entry could lead it anywhere (llist.h:32-33; framebuffer.c:66-71).      *)
FreesEachOnce ==
  Freeing => /\ IsPrefix(visited, contents)
             /\ ~In(visited, cursor) /\ ~In(visited, nxt)
             /\ Walked => visited = contents
=============================================================================
