---------------------------- MODULE LListProofs -----------------------------
(***************************************************************************)
(* What holds of the linked list (module LList) for any set of entries.    *)
(***************************************************************************)
EXTENDS LList, SequenceTheorems, TLAPS

(* An entry is in the list once, and, from the head on, the pointers lead  *)
(* through the list at any time, an append being under way or not.         *)
Forward ==
  /\ \A j, k \in DOMAIN contents : contents[j] = contents[k] => j = k
  /\ IsChain(contents, head, next)

(* The tail is behind while an append is under way.                        *)
Ends == IF apc \in {"back", "tail"} THEN Len(contents) - 1 ELSE Len(contents)

(* Back from the tail they lead through what is fully appended; and so     *)
(* they do from the new entry, once it is linked back.                     *)
Backward ==
  /\ tail = IF Ends = 0 THEN NULL ELSE contents[Ends]
  /\ \A k \in DOMAIN contents :
       \/ apc = "back" /\ k = Len(contents)
       \/ prev[contents[k]] = IF k = 1 THEN NULL ELSE contents[k - 1]

(* Entries that are not in the list point nowhere.                         *)
Outside == \A e \in Entry : ~In(contents, e) => next[e] = NULL /\ prev[e] = NULL

(* The entry that is being appended is not in the list at first, is then   *)
(* its last one, and the case that llist_append has chosen still applies.  *)
Appending ==
  /\ apc \in {"head", "link"} => ~In(contents, new)
  /\ apc = "head" => contents = << >>
  /\ apc = "link" => contents # << >>
  /\ apc \in {"back", "tail"} => contents # << >> /\ new = contents[Len(contents)]
  /\ apc = "back" => Len(contents) > 1

(* A walk is at the entry behind those it has visited; only at the end of  *)
(* the list, or where the end was when it looked, it is at none.           *)
Walking ==
  wpc = "walk" =>
    /\ Len(visited) <= Len(contents) /\ Len(before) <= Len(contents)
    /\ \A k \in DOMAIN visited : visited[k] = contents[k]
    /\ \A k \in DOMAIN before : before[k] = contents[k]
    /\ cursor # NULL => /\ Len(visited) < Len(contents)
                        /\ cursor = contents[Len(visited) + 1]
    /\ cursor = NULL => Len(visited) >= Len(before)

EntryAt(k) == IF k <= Len(contents) THEN contents[k] ELSE NULL

(* A walk that frees has freed the entries before the one at its cursor,   *)
(* and knows the one behind it.                                            *)
Releasing ==
  Freeing =>
    /\ apc = "idle" /\ Len(visited) <= Len(contents)
    /\ \A k \in DOMAIN visited : visited[k] = contents[k]
    /\ cursor = EntryAt(Len(visited) + 1) /\ nxt = EntryAt(Len(visited) + 2)

Inv == /\ TypeOK /\ Forward /\ Backward /\ Outside /\ Appending /\ Walking /\ Releasing
-----------------------------------------------------------------------------
(* Sequences                                                               *)

LEMMA RemoveAtFacts ==
  ASSUME NEW S, NEW s \in Seq(S), NEW i \in 1 .. Len(s)
  PROVE  /\ RemoveAt(s, i) \in Seq(S) /\ Len(RemoveAt(s, i)) = Len(s) - 1
         /\ \A j \in 1 .. Len(s) - 1 :
              RemoveAt(s, i)[j] = IF j < i THEN s[j] ELSE s[j + 1]
<1>. DEFINE a == SubSeq(s, 1, i - 1)
            b == SubSeq(s, i + 1, Len(s))
<1>1. /\ a \in Seq(S) /\ Len(a) = i - 1 /\ \A j \in 1 .. i - 1 : a[j] = s[j]
      /\ b \in Seq(S) /\ Len(b) = Len(s) - i /\ \A j \in 1 .. Len(s) - i : b[j] = s[j + i]
      /\ Len(s) \in Nat
  BY SMTT(30)
<1>2. RemoveAt(s, i) = a \o b
  BY DEF RemoveAt
<1>. HIDE DEF a, b
<1>3. a \o b \in Seq(S) /\ Len(a \o b) = Len(s) - 1
  <2>1. a \o b \in Seq(S) /\ Len(a \o b) = Len(a) + Len(b)
    BY <1>1, ConcatProperties
  <2>. QED  BY <1>1, <2>1
<1>4. ASSUME NEW j \in 1 .. Len(s) - 1
      PROVE  (a \o b)[j] = IF j < i THEN s[j] ELSE s[j + 1]
  <2>1. (a \o b)[j] = IF j <= Len(a) THEN a[j] ELSE b[j - Len(a)]
    BY <1>1
  <2>. QED  BY <1>1, <2>1
<1>. QED  BY <1>2, <1>3, <1>4

(* Removing an entry that is there once removes it where it is.            *)
LEMMA RemoveFirstFacts ==
  ASSUME NEW S, NEW s \in Seq(S), NEW i \in 1 .. Len(s),
         \A k \in 1 .. Len(s) : s[k] = s[i] => k = i
  PROVE  RemoveFirst(s, s[i]) = RemoveAt(s, i)
<1>1. {k \in 1 .. Len(s) : s[k] = s[i]} = {i}
  OBVIOUS
<1>2. Min({i}) = i
  BY DEF Min
<1>3. SelectInSeq(s, LAMBDA v : v = s[i]) = i
  BY <1>1, <1>2 DEF SelectInSeq
<1>. QED  BY <1>3 DEF RemoveFirst

-----------------------------------------------------------------------------
(* What the types say of the list, and what its ends say of it.            *)
LEMMA ListFacts ==
  ASSUME TypeOK
  PROVE  /\ contents \in Seq(Entry) /\ Len(contents) \in Nat
         /\ DOMAIN contents = 1 .. Len(contents)
         /\ \A k \in 1 .. Len(contents) : contents[k] \in Entry /\ contents[k] # NULL
         /\ contents = << >> <=> Len(contents) = 0
<1>1. contents \in Seq(Entry)
  BY DEF TypeOK
<1>2. contents = << >> <=> Len(contents) = 0
  BY <1>1, EmptySeq
<1>. QED  BY <1>1, <1>2, LenProperties, EntryAssumption

LEMMA InitInv == Init => Inv
<1>1. ASSUME Init PROVE TypeOK
  <2>1. next \in [Entry -> Entry \cup {NULL}] /\ prev \in [Entry -> Entry \cup {NULL}]
    BY <1>1 DEF Init
  <2>2. {visited, contents, before} \subseteq Seq(Entry)
    BY <1>1 DEF Init
  <2>. QED  BY <1>1, <2>1, <2>2 DEF Init, TypeOK
<1>2. ASSUME Init PROVE Forward /\ Backward /\ Outside
  BY <1>2 DEF Init, Forward, Backward, Outside, IsChain, Ends, In
<1>3. ASSUME Init PROVE Appending /\ Walking /\ Releasing
  BY <1>3 DEF Init, Appending, Walking, Releasing, Freeing
<1>. QED  BY <1>1, <1>2, <1>3 DEF Inv

-----------------------------------------------------------------------------
(* llist_append                                                            *)

LEMMA AppendBeginInv ==
  ASSUME Inv, NEW e \in Entry, AppendBegin(e)
  PROVE  Inv'
<1>1. /\ TypeOK /\ Forward /\ Backward /\ Outside /\ Appending /\ Walking /\ Releasing
      /\ apc = "idle" /\ ~In(contents, e) /\ ~Freeing /\ new' = e
      /\ UNCHANGED <<head, tail, wpc, cursor, nxt, visited, before, contents>>
      /\ \/ head = NULL /\ apc' = "head"
         \/ tail = NULL /\ apc' = "head"
         \/ head # NULL /\ tail # NULL /\ apc' = "link"
  BY DEF Inv, AppendBegin, walkVars
<1>2. next' = next /\ prev' = prev
  <2>1. next[e] = NULL /\ prev[e] = NULL
    BY <1>1 DEF Outside
  <2>2. next' = [next EXCEPT ![e] = NULL] /\ (prev' = [prev EXCEPT ![e] = NULL] \/ prev' = prev)
    BY DEF AppendBegin
  <2>. QED  BY <1>1, <2>1, <2>2 DEF TypeOK
<1>3. contents = << >> <=> apc' = "head"
  BY <1>1, ListFacts DEF Forward, Backward, IsChain, Ends
<1>4. TypeOK'
  BY <1>1, <1>2, EntryAssumption DEF TypeOK
<1>5. Forward' /\ Outside' /\ Walking'
  BY <1>1, <1>2 DEF Forward, IsChain, Outside, In, Walking
<1>6. Backward'
  BY <1>1, <1>2 DEF Backward, Ends
<1>7. Appending' /\ Releasing'
  BY <1>1, <1>3 DEF Appending, In, Releasing, Freeing
<1>. QED  BY <1>4, <1>5, <1>6, <1>7 DEF Inv

(* The step with which the new entry gets into the list.                   *)
LEMMA LinkInv ==
  ASSUME Inv, SetHead \/ LinkNext
  PROVE  Inv'
<1>1. /\ TypeOK /\ Forward /\ Backward /\ Outside /\ Appending /\ Walking /\ Releasing
      /\ apc \in {"head", "link"} /\ ~In(contents, new) /\ new \in Entry
      /\ contents' = Append(contents, new)
      /\ UNCHANGED <<tail, prev, new, wpc, cursor, nxt, visited, before>>
      /\ next \in [Entry -> Entry \cup {NULL}]
  BY DEF Inv, SetHead, LinkNext, walkVars, Appending, TypeOK
<1>2. /\ contents' \in Seq(Entry) /\ Len(contents') = Len(contents) + 1
      /\ DOMAIN contents' = 1 .. Len(contents) + 1
      /\ \A k \in 1 .. Len(contents) : contents'[k] = contents[k]
      /\ contents'[Len(contents) + 1] = new
      /\ contents' # << >>
  BY <1>1, ListFacts, AppendProperties, LenProperties
<1>3. \A k \in 1 .. Len(contents) : contents[k] # new
  BY <1>1, ListFacts DEF In
<1>4. \A e : In(contents', e) <=> In(contents, e) \/ e = new
  BY <1>2, ListFacts, <1>1 DEF In
<1>5. next[new] = NULL /\ prev[new] = NULL
  BY <1>1 DEF Outside
<1>6. CASE SetHead
  <2>1. contents = << >> /\ Len(contents) = 0
    BY <1>1, <1>6, ListFacts DEF SetHead, Appending
  <2>2. head' = new /\ next' = next /\ apc' = "tail" /\ apc = "head"
    BY <1>6 DEF SetHead
  <2>3. TypeOK'
    BY <1>1, <1>2, <2>2, EntryAssumption DEF TypeOK
  <2>4. Forward'
    BY <1>2, <1>5, <2>1, <2>2 DEF Forward, IsChain
  <2>5. Backward'
    BY <1>1, <1>2, <1>5, <2>1, <2>2 DEF Backward, Ends
  <2>6. Outside' /\ Appending'
    BY <1>1, <1>2, <1>4, <2>1, <2>2 DEF Outside, Appending
  <2>7. Walking' /\ Releasing'
    BY <1>1, <1>2, <2>1, <2>2, ListFacts DEF Walking, Releasing, Freeing, TypeOK
  <2>. QED  BY <2>3, <2>4, <2>5, <2>6, <2>7 DEF Inv
<1>7. CASE LinkNext
  <2>. DEFINE n == Len(contents)
  <2>1. contents # << >> /\ n \in Nat /\ n # 0
    BY <1>1, <1>7, ListFacts DEF LinkNext, Appending
  <2>2. /\ head' = head /\ next' = [next EXCEPT ![tail] = new]
        /\ apc' = "back" /\ apc = "link"
    BY <1>7 DEF LinkNext
  <2>3. tail = contents[n] /\ tail \in Entry
    BY <1>1, <2>1, <2>2, ListFacts DEF Backward, Ends
  <2>4. /\ next'[contents[n]] = new /\ next' \in [Entry -> Entry \cup {NULL}]
        /\ \A e \in Entry : e # contents[n] => next'[e] = next[e]
    BY <1>1, <2>2, <2>3
  <2>5. TypeOK'
    BY <1>1, <1>2, <2>2, <2>4, EntryAssumption DEF TypeOK
  <2>6. Forward'
    <3>1. head' = contents'[1]
      BY <1>1, <1>2, <2>1, <2>2 DEF Forward, IsChain
    <3>2. ASSUME NEW k \in 1 .. n + 1
          PROVE  next'[contents'[k]] = IF k = n + 1 THEN NULL ELSE contents'[k + 1]
      <4>1. CASE k < n
        <5>1. contents[k] # contents[n]
          BY <1>1, <2>1, <4>1, ListFacts DEF Forward
        <5>2. contents'[k] = contents[k] /\ contents'[k + 1] = contents[k + 1] /\ k + 1 <= n
          BY <1>2, <2>1, <2>4, <4>1
        <5>3. next[contents[k]] = contents[k + 1]
          BY <1>1, <1>2, <2>1, <4>1, ListFacts DEF Forward, IsChain
        <5>. QED  BY <1>1, <1>2, <2>1, <2>4, <4>1, <5>1, <5>2, <5>3, ListFacts, SMTT(30)
      <4>2. CASE k = n
        BY <1>2, <2>1, <2>4, <4>2
      <4>3. CASE k = n + 1
        BY <1>1, <1>2, <1>3, <1>5, <2>1, <2>4, <4>3
      <4>. QED  BY <2>1, <4>1, <4>2, <4>3
    <3>3. \A j, k \in 1 .. n + 1 : contents'[j] = contents'[k] => j = k
      BY <1>1, <1>2, <1>3, <2>1, ListFacts DEF Forward
    <3>. QED  BY <1>2, <3>1, <3>2, <3>3 DEF Forward, IsChain
  <2>7. Backward'
    <3>1. tail' = IF Ends' = 0 THEN NULL ELSE contents'[Ends']
      BY <1>1, <1>2, <2>1, <2>2, <2>3 DEF Ends
    <3>2. ASSUME NEW k \in 1 .. n
          PROVE  prev'[contents'[k]] = IF k = 1 THEN NULL ELSE contents'[k - 1]
      BY <1>1, <1>2, <2>1, <2>2, ListFacts, SMTT(30) DEF Backward
    <3>. QED  BY <1>2, <2>1, <2>2, <3>1, <3>2 DEF Backward
  <2>8. Outside' /\ Appending'
    <3>1. \A e \in Entry : ~In(contents', e) => e # contents[n]
      BY <1>4, <2>1, ListFacts, <1>1 DEF In
    <3>. QED  BY <1>1, <1>2, <1>4, <2>1, <2>2, <2>4, <3>1 DEF Outside, Appending
  <2>9. Walking' /\ Releasing'
    BY <1>1, <1>2, <2>2, ListFacts, LenProperties DEF Walking, Releasing, Freeing, TypeOK
  <2>. QED  BY <2>5, <2>6, <2>7, <2>8, <2>9 DEF Inv
<1>. QED  BY <1>6, <1>7

LEMMA LinkBackInv ==
  ASSUME Inv, LinkPrev \/ SetTail
  PROVE  Inv'
<1>1. /\ TypeOK /\ Forward /\ Backward /\ Outside /\ Appending /\ Walking /\ Releasing
      /\ apc \in {"back", "tail"} /\ contents # << >> /\ new = contents[Len(contents)]
      /\ new \in Entry /\ new # NULL
      /\ UNCHANGED <<head, next, contents, wpc, cursor, nxt, visited, before>>
  BY ListFacts DEF Inv, LinkPrev, SetTail, walkVars, Appending
<1>2. Forward' /\ Walking' /\ Releasing'
  BY <1>1 DEF Forward, IsChain, Walking, Releasing, Freeing
<1>3. CASE LinkPrev
  <2>1. /\ apc = "back" /\ apc' = "tail" /\ new' = new /\ tail' = tail
        /\ prev' = [prev EXCEPT ![new] = tail]
    BY <1>3 DEF LinkPrev
  <2>2. /\ prev' \in [Entry -> Entry \cup {NULL}] /\ prev'[new] = tail
        /\ \A e \in Entry : e # new => prev'[e] = prev[e]
    BY <1>1, <2>1 DEF TypeOK
  <2>3. TypeOK'
    BY <1>1, <2>1, <2>2 DEF TypeOK
  <2>4. Backward'
    <3>1. /\ Ends' = Len(contents) - 1 /\ Ends = Len(contents) - 1 /\ Len(contents) > 1
          /\ Len(contents) \in Nat /\ DOMAIN contents = 1 .. Len(contents)
      BY <1>1, <2>1, ListFacts DEF Ends, Appending
    <3>2. tail = contents[Len(contents) - 1]
      BY <1>1, <3>1 DEF Backward
    <3>3. ASSUME NEW k \in 1 .. Len(contents)
          PROVE  prev'[contents[k]] = IF k = 1 THEN NULL ELSE contents[k - 1]
      <4>1. CASE k = Len(contents)
        BY <1>1, <2>2, <3>1, <3>2, <4>1
      <4>2. CASE k # Len(contents)
        <5>1. contents[k] # new /\ contents[k] \in Entry
          BY <1>1, <3>1, <4>2, ListFacts DEF Forward
        <5>. QED  BY <1>1, <2>2, <3>1, <4>2, <5>1 DEF Backward
      <4>. QED  BY <4>1, <4>2
    <3>. QED  BY <1>1, <2>1, <3>1, <3>2, <3>3 DEF Backward
  <2>5. Outside' /\ Appending'
    BY <1>1, <2>1, <2>2, ListFacts DEF Outside, In, Appending
  <2>. QED  BY <1>2, <2>3, <2>4, <2>5 DEF Inv
<1>4. CASE SetTail
  <2>1. apc = "tail" /\ apc' = "idle" /\ new' = NULL /\ tail' = new /\ prev' = prev
    BY <1>4 DEF SetTail
  <2>2. TypeOK'
    BY <1>1, <2>1 DEF TypeOK
  <2>3. Backward'
    BY <1>1, <2>1, ListFacts DEF Backward, Ends
  <2>4. Outside' /\ Appending'
    BY <1>1, <2>1 DEF Outside, In, Appending
  <2>. QED  BY <1>2, <2>2, <2>3, <2>4 DEF Inv
<1>. QED  BY <1>3, <1>4

-----------------------------------------------------------------------------
(* llist_remove                                                            *)

LEMMA UnlinkFacts ==
  ASSUME TypeOK, Forward, Backward, Outside, apc = "idle", apc' = "idle",
         NEW i \in 1 .. Len(contents), Unlink(contents[i])
  PROVE  /\ contents' \in Seq(Entry) /\ Len(contents') = Len(contents) - 1
         /\ DOMAIN contents' = 1 .. Len(contents) - 1
         /\ \A k \in 1 .. Len(contents) - 1 :
              contents'[k] = IF k < i THEN contents[k] ELSE contents[k + 1]
         /\ {head', tail'} \subseteq Entry \cup {NULL}
         /\ next' \in [Entry -> Entry \cup {NULL}] /\ prev' \in [Entry -> Entry \cup {NULL}]
         /\ Forward' /\ Backward' /\ Outside'
<1>1. PICK e \in Entry : e = contents[i] /\ e # NULL
  BY ListFacts
<1>. PICK n : n = Len(contents)
  OBVIOUS
<1>2. /\ n \in Nat /\ n # 0 /\ n = Len(contents) /\ i \in 1 .. n
      /\ contents \in Seq(Entry) /\ DOMAIN contents = 1 .. n
      /\ \A k \in 1 .. n : contents[k] \in Entry /\ contents[k] # NULL
      /\ contents # << >>
      /\ \A j, k \in 1 .. n : contents[j] = contents[k] => j = k
  BY ListFacts DEF Forward
<1>3. /\ head = contents[1] /\ tail = contents[n]
      /\ \A k \in 1 .. n : /\ next[contents[k]] = IF k = n THEN NULL ELSE contents[k + 1]
                          /\ prev[contents[k]] = IF k = 1 THEN NULL ELSE contents[k - 1]
  BY <1>2 DEF Forward, Backward, IsChain, Ends
<1>4. contents' = RemoveAt(contents, i)
  <2>1. \A k \in 1 .. Len(contents) : contents[k] = contents[i] => k = i
    BY <1>2
  <2>2. RemoveFirst(contents, contents[i]) = RemoveAt(contents, i)
    BY <1>2, <2>1, RemoveFirstFacts
  <2>. QED  BY <2>2 DEF Unlink
<1>5. /\ contents' \in Seq(Entry) /\ Len(contents') = n - 1
      /\ DOMAIN contents' = 1 .. n - 1
      /\ \A k \in 1 .. n - 1 : contents'[k] = IF k < i THEN contents[k] ELSE contents[k + 1]
      /\ contents' = << >> <=> n - 1 = 0
  <2>1. /\ contents' \in Seq(Entry) /\ Len(contents') = n - 1
        /\ \A k \in 1 .. n - 1 : contents'[k] = IF k < i THEN contents[k] ELSE contents[k + 1]
    BY <1>2, <1>4, RemoveAtFacts
  <2>2. contents' = << >> <=> Len(contents') = 0
    BY <2>1, EmptySeq
  <2>. QED  BY <2>1, <2>2, LenProperties
<1>6. /\ next[e] = IF i = n THEN NULL ELSE contents[i + 1]
      /\ prev[e] = IF i = 1 THEN NULL ELSE contents[i - 1]
      /\ next \in [Entry -> Entry \cup {NULL}] /\ prev \in [Entry -> Entry \cup {NULL}]
      /\ head \in Entry \cup {NULL} /\ tail \in Entry \cup {NULL}
  BY <1>1, <1>3 DEF TypeOK
<1>7. /\ head' = IF e = head THEN next[e] ELSE head
      /\ tail' = IF e = tail THEN prev[e] ELSE tail
      /\ prev' = [f \in Entry |-> IF f = e THEN NULL
                                  ELSE IF f = next[e] THEN prev[e] ELSE prev[f]]
      /\ next' = [f \in Entry |-> IF f = e THEN NULL
                                  ELSE IF f = prev[e] THEN next[e] ELSE next[f]]
  BY <1>1 DEF Unlink
<1>8. /\ {head', tail'} \subseteq Entry \cup {NULL}
      /\ next' \in [Entry -> Entry \cup {NULL}] /\ prev' \in [Entry -> Entry \cup {NULL}]
  BY <1>6, <1>7
<1>9. /\ head' = IF n - 1 = 0 THEN NULL ELSE contents'[1]
      /\ tail' = IF n - 1 = 0 THEN NULL ELSE contents'[n - 1]
  <2>1. e = head <=> i = 1
    BY <1>1, <1>2, <1>3
  <2>2. e = tail <=> i = n
    BY <1>1, <1>2, <1>3
  <2>3. head' = IF n - 1 = 0 THEN NULL ELSE contents'[1]
    BY <1>2, <1>3, <1>5, <1>6, <1>7, <2>1
  <2>4. tail' = IF n - 1 = 0 THEN NULL ELSE contents'[n - 1]
    BY <1>2, <1>3, <1>5, <1>6, <1>7, <2>2
  <2>. QED  BY <2>3, <2>4
<1>10. ASSUME NEW k \in 1 .. n, k # i
       PROVE  /\ contents[k] # e
              /\ next'[contents[k]] = IF k = i - 1 THEN next[e] ELSE next[contents[k]]
              /\ prev'[contents[k]] = IF k = i + 1 THEN prev[e] ELSE prev[contents[k]]
  <2>1. contents[k] \in Entry /\ contents[k] # e /\ contents[k] # NULL
    BY <1>1, <1>2, <1>10
  <2>2. contents[k] = prev[e] <=> k = i - 1
    BY <1>2, <1>6, <1>10, <2>1
  <2>3. contents[k] = next[e] <=> k = i + 1
    BY <1>2, <1>6, <1>10, <2>1
  <2>. QED  BY <1>7, <2>1, <2>2, <2>3
<1>11. ASSUME NEW k \in 1 .. n - 1
       PROVE  /\ next'[contents'[k]] = IF k = n - 1 THEN NULL ELSE contents'[k + 1]
              /\ prev'[contents'[k]] = IF k = 1 THEN NULL ELSE contents'[k - 1]
  <2>1. CASE k < i
    <3>1. contents'[k] = contents[k] /\ k \in 1 .. n /\ k # i /\ k # i + 1
      BY <1>2, <1>5, <2>1
    <3>2. prev'[contents'[k]] = IF k = 1 THEN NULL ELSE contents'[k - 1]
      BY <1>2, <1>3, <1>5, <1>10, <2>1, <3>1
    <3>3. CASE k = i - 1
      BY <1>2, <1>5, <1>6, <1>10, <2>1, <3>1, <3>2, <3>3
    <3>4. CASE k # i - 1
      BY <1>2, <1>3, <1>5, <1>10, <2>1, <3>1, <3>2, <3>4, SMTT(30)
    <3>. QED  BY <3>3, <3>4
  <2>2. CASE k >= i
    <3>1. contents'[k] = contents[k + 1] /\ k + 1 \in 1 .. n /\ k + 1 # i /\ k + 1 # i - 1
      BY <1>2, <1>5, <2>2
    <3>2. next'[contents'[k]] = IF k = n - 1 THEN NULL ELSE contents'[k + 1]
      BY <1>2, <1>3, <1>5, <1>10, <2>2, <3>1
    <3>3. CASE k = i
      BY <1>2, <1>5, <1>6, <1>10, <2>2, <3>1, <3>2, <3>3
    <3>4. CASE k # i
      <4>1. contents'[k - 1] = contents[k] /\ k - 1 >= i /\ k \in 1 .. n
        BY <1>2, <1>5, <2>2, <3>4
      <4>2. prev[contents[k + 1]] = contents[k] /\ k # 0
        BY <1>3, <3>1
      <4>3. prev'[contents[k + 1]] = prev[contents[k + 1]]
        BY <1>10, <3>1, <3>4, SMTT(30)
      <4>. QED  BY <1>2, <3>1, <3>2, <4>1, <4>2, <4>3
    <3>. QED  BY <3>3, <3>4
  <2>. QED  BY <1>2, <2>1, <2>2
<1>12. \A j, k \in 1 .. n - 1 : contents'[j] = contents'[k] => j = k
  BY <1>2, <1>5
<1>13. Forward'
  BY <1>5, <1>9, <1>11, <1>12 DEF Forward, IsChain
<1>14. Backward'
  BY <1>5, <1>9, <1>11 DEF Backward, Ends
<1>15. Outside'
  <2>1. ASSUME NEW f \in Entry, ~In(contents, f), f # e
        PROVE  next'[f] = NULL /\ prev'[f] = NULL
    <3>1. f # next[e] /\ f # prev[e]
      BY <1>2, <1>6, <2>1, EntryAssumption DEF In
    <3>. QED  BY <1>7, <2>1, <3>1 DEF Outside
  <2>2. next'[e] = NULL /\ prev'[e] = NULL
    BY <1>7
  <2>3. ASSUME NEW f \in Entry, In(contents, f), f # e PROVE In(contents', f)
    <3>1. PICK k \in 1 .. n : contents[k] = f
      BY <1>2, <2>3 DEF In
    <3>2. k # i
      BY <1>1, <2>3, <3>1
    <3>3. CASE k < i
      BY <1>2, <1>5, <3>1, <3>3 DEF In
    <3>4. CASE k > i
      <4>1. k - 1 \in 1 .. n - 1 /\ contents'[k - 1] = f
        BY <1>2, <1>5, <3>1, <3>4
      <4>. QED  BY <1>5, <4>1 DEF In
    <3>. QED  BY <1>2, <3>2, <3>3, <3>4
  <2>. QED  BY <2>1, <2>2, <2>3 DEF Outside
<1>. QED  BY <1>5, <1>8, <1>13, <1>14, <1>15

LEMMA RemoveEntryInv ==
  ASSUME Inv, NEW e \in Entry, RemoveEntry(e)
  PROVE  Inv'
<1>1. /\ TypeOK /\ Forward /\ Backward /\ Outside /\ Appending
      /\ apc = "idle" /\ apc' = "idle" /\ wpc = "idle"
      /\ UNCHANGED <<new, wpc, cursor, nxt, visited, before>>
  BY DEF Inv, RemoveEntry, walkVars
<1>2. PICK i \in 1 .. Len(contents) : contents[i] = e
  BY <1>1, ListFacts DEF RemoveEntry, In
<1>3. Unlink(contents[i])
  BY <1>2 DEF RemoveEntry
<1>4. /\ contents' \in Seq(Entry) /\ {head', tail'} \subseteq Entry \cup {NULL}
      /\ next' \in [Entry -> Entry \cup {NULL}] /\ prev' \in [Entry -> Entry \cup {NULL}]
      /\ Forward' /\ Backward' /\ Outside'
  BY <1>1, <1>3, UnlinkFacts
<1>5. TypeOK'
  BY <1>1, <1>4 DEF TypeOK
<1>6. Appending' /\ Walking' /\ Releasing'
  BY <1>1 DEF Appending, Walking, Releasing, Freeing
<1>. QED  BY <1>4, <1>5, <1>6 DEF Inv

-----------------------------------------------------------------------------
(* Walks                                                                   *)

LEMMA WalkInv ==
  ASSUME Inv, WalkBegin \/ WalkNext \/ WalkEnd \/ FreeBegin
  PROVE  Inv'
<1>1. /\ TypeOK /\ Forward /\ Backward /\ Outside /\ Appending /\ Walking /\ Releasing
      /\ UNCHANGED <<head, tail, next, prev, apc, new, contents>>
  BY DEF Inv, WalkBegin, WalkNext, WalkEnd, FreeBegin, ptrVars
<1>2. Forward' /\ Backward' /\ Outside' /\ Appending'
  BY <1>1 DEF Forward, IsChain, Backward, Ends, Outside, In, Appending
<1>3. /\ << >> \in Seq(Entry) /\ Len(<< >>) = 0
      /\ visited \in Seq(Entry) /\ before \in Seq(Entry) /\ contents \in Seq(Entry)
      /\ Len(contents) \in Nat /\ DOMAIN contents = 1 .. Len(contents)
      /\ Len(visited) \in Nat /\ DOMAIN visited = 1 .. Len(visited)
      /\ \A k \in 1 .. Len(contents) : contents[k] \in Entry /\ contents[k] # NULL
      /\ head = IF Len(contents) = 0 THEN NULL ELSE contents[1]
  BY <1>1, EmptySeq, LenProperties, ListFacts DEF TypeOK, Forward, IsChain
<1>4. CASE WalkBegin
  <2>1. /\ wpc' = "walk" /\ cursor' = head /\ visited' = << >> /\ before' = contents
        /\ nxt' = nxt
    BY <1>4 DEF WalkBegin
  <2>2. TypeOK'
    BY <1>1, <1>3, <2>1 DEF TypeOK
  <2>3. Walking' /\ Releasing'
    BY <1>1, <1>3, <2>1 DEF Walking, Releasing, Freeing
  <2>. QED  BY <1>2, <2>2, <2>3 DEF Inv
<1>5. CASE WalkNext
  <2>1. /\ wpc = "walk" /\ cursor # NULL /\ visited' = Append(visited, cursor)
        /\ cursor' = next[cursor] /\ UNCHANGED <<wpc, nxt, before>>
    BY <1>5 DEF WalkNext
  <2>2. PICK m : m = Len(visited) + 1
    OBVIOUS
  <2>3. /\ m \in 1 .. Len(contents) /\ cursor = contents[m] /\ cursor \in Entry
    <3>1. Len(visited) < Len(contents) /\ cursor = contents[Len(visited) + 1]
      BY <1>1, <2>1, SMTT(30) DEF Walking
    <3>. QED  BY <1>3, <2>2, <3>1
  <2>4. cursor' = IF m = Len(contents) THEN NULL ELSE contents[m + 1]
    BY <1>1, <1>3, <2>1, <2>3 DEF Forward, IsChain
  <2>5. /\ visited' \in Seq(Entry) /\ Len(visited') = m /\ DOMAIN visited' = 1 .. m
        /\ \A k \in 1 .. m - 1 : visited'[k] = visited[k]
        /\ visited'[m] = cursor
    BY <1>3, <2>1, <2>2, <2>3, AppendProperties, LenProperties
  <2>6. cursor' \in Entry \cup {NULL}
    BY <1>1, <2>1, <2>3 DEF TypeOK
  <2>7. TypeOK'
    BY <1>1, <2>1, <2>5, <2>6 DEF TypeOK
  <2>8. \A k \in 1 .. m : visited'[k] = contents[k]
    <3>1. \A k \in DOMAIN visited : visited[k] = contents[k]
      BY <1>1, <2>1 DEF Walking
    <3>. QED  BY <1>3, <2>2, <2>3, <2>5, <3>1, SMTT(30)
  <2>9. Walking'
    <3>1. /\ Len(before') <= Len(contents') /\ Len(visited') <= Len(contents')
          /\ \A k \in DOMAIN before' : before'[k] = contents'[k]
      BY <1>1, <1>3, <2>1, <2>3, <2>5 DEF Walking
    <3>0. m \in Nat /\ m >= 1 /\ m <= Len(contents) /\ Len(contents) \in Nat
      <4>1. Len(contents) \in Nat /\ m \in 1 .. Len(contents)
        BY <1>3, <2>3
      <4>. QED  BY <4>1
    <3>2. cursor' = NULL <=> m = Len(contents)
      <4>1. CASE m = Len(contents)
        BY <2>4, <4>1
      <4>2. CASE m # Len(contents)
        <5>1. m + 1 \in 1 .. Len(contents)
          BY <3>0, <4>2
        <5>2. contents[m + 1] # NULL
          BY <1>3, <5>1
        <5>. QED  BY <2>4, <4>2, <5>2
      <4>. QED  BY <4>1, <4>2
    <3>3. cursor' # NULL => Len(visited') < Len(contents') /\ cursor' = contents'[Len(visited') + 1]
      <4>1. m # Len(contents) => m < Len(contents)
        BY <3>0
      <4>. QED  BY <1>1, <2>4, <2>5, <3>2, <4>1
    <3>4. cursor' = NULL => Len(visited') >= Len(before')
      <4>1. Len(before') \in Nat
        BY <1>3, <2>1, LenProperties
      <4>. QED  BY <1>1, <1>3, <2>3, <2>5, <3>1, <3>2, <4>1
    <3>. QED  BY <1>1, <2>5, <2>8, <3>1, <3>3, <3>4 DEF Walking
  <2>10. Releasing'
    BY <2>1 DEF Releasing, Freeing
  <2>. QED  BY <1>2, <2>7, <2>9, <2>10 DEF Inv
<1>6. CASE WalkEnd
  <2>1. wpc' = "idle" /\ visited' = << >> /\ before' = << >> /\ UNCHANGED <<cursor, nxt>>
    BY <1>6 DEF WalkEnd
  <2>2. TypeOK'
    BY <1>1, <1>3, <2>1 DEF TypeOK
  <2>. QED  BY <1>2, <2>1, <2>2 DEF Inv, Walking, Releasing, Freeing
<1>7. CASE FreeBegin
  <2>1. /\ wpc' = "free" /\ cursor' = head /\ nxt' \in NextRead(head, << >>)
        /\ apc = "idle" /\ visited' = << >> /\ before' = before
    BY <1>7 DEF FreeBegin
  <2>2. ~In(<< >>, head)
    BY DEF In
  <2>3. nxt' = IF head = NULL THEN NULL ELSE next[head]
    BY <2>1, <2>2 DEF NextRead
  <2>4. cursor' = EntryAt(1) /\ cursor' \in Entry \cup {NULL}
    BY <1>3, <2>1 DEF EntryAt
  <2>5. nxt' = EntryAt(2) /\ nxt' \in Entry \cup {NULL}
    <3>1. CASE Len(contents) = 0
      BY <1>3, <2>3, <3>1 DEF EntryAt
    <3>2. CASE Len(contents) # 0
      <4>1. head = contents[1] /\ head # NULL /\ 1 \in DOMAIN contents
        BY <1>3, <3>2
      <4>2. next[contents[1]] = IF 1 = Len(contents) THEN NULL ELSE contents[1 + 1]
        BY <1>1, <4>1 DEF Forward, IsChain
      <4>3. Len(contents) # 1 => 2 \in 1 .. Len(contents) /\ 1 + 1 = 2
        BY <1>3, <3>2
      <4>. QED  BY <1>3, <2>3, <3>2, <4>1, <4>2, <4>3 DEF EntryAt
    <3>. QED  BY <3>1, <3>2
  <2>6. TypeOK'
    BY <1>1, <1>3, <2>1, <2>4, <2>5 DEF TypeOK
  <2>7. Releasing'
    <3>1. cursor' = EntryAt(0 + 1)' /\ nxt' = EntryAt(0 + 2)'
      BY <1>1, <2>4, <2>5 DEF EntryAt
    <3>2. Len(visited') = 0 /\ DOMAIN visited' = {}
      BY <1>3, <2>1
    <3>. QED  BY <1>1, <1>3, <2>1, <3>1, <3>2 DEF Releasing, Freeing
  <2>8. Walking'
    BY <2>1 DEF Walking
  <2>. QED  BY <1>2, <2>6, <2>7, <2>8 DEF Inv
<1>. QED  BY <1>4, <1>5, <1>6, <1>7

(* What was saved before the body is the entry behind the one freed, and   *)
(* that is not freed yet.                                                  *)
LEMMA FreeNextInv ==
  ASSUME Inv, FreeNext
  PROVE  Inv'
<1>. PICK n : n = Len(contents)
  OBVIOUS
<1>. PICK m : m = Len(visited) + 1
  OBVIOUS
<1>1. /\ TypeOK /\ Forward /\ Backward /\ Outside /\ Appending
      /\ wpc = "free" /\ wpc' = "free" /\ apc = "idle" /\ cursor # NULL
      /\ visited' = Append(visited, cursor) /\ cursor' = nxt
      /\ nxt' \in NextRead(nxt, visited')
      /\ UNCHANGED <<head, tail, next, prev, apc, new, before, contents>>
      /\ cursor = EntryAt(m) /\ nxt = EntryAt(Len(visited) + 2)
      /\ \A k \in DOMAIN visited : visited[k] = contents[k]
  BY DEF Inv, FreeNext, Freeing, Saved, Releasing, ptrVars
<1>2. /\ n = Len(contents) /\ n \in Nat /\ DOMAIN contents = 1 .. n
      /\ \A k \in 1 .. n : contents[k] \in Entry /\ contents[k] # NULL
      /\ \A j, k \in 1 .. n : contents[j] = contents[k] => j = k
      /\ \A k \in 1 .. n : next[contents[k]] = IF k = n THEN NULL ELSE contents[k + 1]
  BY <1>1, ListFacts DEF Forward, IsChain
<1>3. visited \in Seq(Entry) /\ Len(visited) \in Nat /\ DOMAIN visited = 1 .. Len(visited)
  BY <1>1, LenProperties DEF TypeOK
<1>4. /\ m \in 1 .. n /\ Len(visited) = m - 1 /\ Len(visited) + 2 = m + 1
      /\ cursor = contents[m] /\ cursor \in Entry
  <2>1. m <= n /\ cursor = contents[m]
    BY <1>1, <1>2 DEF EntryAt
  <2>2. m \in 1 .. n /\ Len(visited) = m - 1 /\ Len(visited) + 2 = m + 1
    BY <1>2, <1>3, <2>1
  <2>. QED  BY <1>2, <2>1, <2>2
<1>5. /\ visited' \in Seq(Entry) /\ Len(visited') = m /\ DOMAIN visited' = 1 .. m
      /\ \A k \in 1 .. m - 1 : visited'[k] = visited[k]
      /\ visited'[m] = cursor
  BY <1>1, <1>3, <1>4, AppendProperties, LenProperties
<1>6. \A k \in 1 .. m : visited'[k] = contents[k]
  BY <1>1, <1>3, <1>4, <1>5
<1>7. nxt = EntryAt(m + 1)
  BY <1>1, <1>4
<1>8. nxt' = EntryAt(m + 2) /\ nxt' \in Entry \cup {NULL}
  <2>1. CASE m = n
    <3>1. nxt = NULL
      BY <1>2, <1>4, <1>7, <2>1 DEF EntryAt
    <3>2. EntryAt(m + 2) = NULL
      BY <1>2, <1>4, <2>1 DEF EntryAt
    <3>. QED  BY <1>1, <3>1, <3>2 DEF NextRead
  <2>2. CASE m # n
    <3>1. m + 1 \in 1 .. n /\ nxt = contents[m + 1] /\ nxt # NULL
      BY <1>2, <1>4, <1>7, <2>2 DEF EntryAt
    <3>2. ~In(visited', nxt)
      <4>1. ASSUME NEW k \in 1 .. m PROVE visited'[k] # nxt
        <5>1. k \in 1 .. n /\ k # m + 1
          BY <1>2, <1>4
        <5>2. contents[k] # contents[m + 1]
          BY <1>2, <3>1, <5>1
        <5>. QED  BY <1>6, <3>1, <5>2
      <4>. QED  BY <1>5, <4>1 DEF In
    <3>3. nxt' = next[contents[m + 1]]
      BY <1>1, <3>1, <3>2 DEF NextRead
    <3>4. next[contents[m + 1]] = IF m + 1 = n THEN NULL ELSE contents[m + 2]
      <4>1. m + 1 + 1 = m + 2
        BY <1>4
      <4>. QED  BY <1>2, <3>1, <4>1
    <3>5. m + 1 # n => m + 2 \in 1 .. n
      BY <1>2, <1>4, <3>1
    <3>6. m + 1 = n => ~(m + 2 <= n)
      BY <1>2, <1>4
    <3>7. m + 2 \in 1 .. n => m + 2 <= n
      BY <1>2
    <3>. QED  BY <1>2, <3>3, <3>4, <3>5, <3>6, <3>7 DEF EntryAt
  <2>. QED  BY <2>1, <2>2
<1>9. TypeOK'
  <2>1. cursor' \in Entry \cup {NULL}
    BY <1>1 DEF TypeOK
  <2>. QED  BY <1>1, <1>5, <1>8, <2>1 DEF TypeOK
<1>10. Forward' /\ Backward' /\ Outside' /\ Appending'
  BY <1>1 DEF Forward, IsChain, Backward, Ends, Outside, In, Appending
<1>11. Walking'
  BY <1>1 DEF Walking
<1>12. Releasing'
  <2>1. cursor' = EntryAt(m + 1)' /\ nxt' = EntryAt(m + 2)'
    BY <1>1, <1>7, <1>8 DEF EntryAt
  <2>2. Len(visited') <= Len(contents')
    BY <1>1, <1>2, <1>4, <1>5
  <2>. QED  BY <1>1, <1>5, <1>6, <2>1, <2>2 DEF Releasing, Freeing
<1>. QED  BY <1>9, <1>10, <1>11, <1>12 DEF Inv

-----------------------------------------------------------------------------
LEMMA Invariance == Spec => []Inv
<1>1. Inv /\ [Next]_vars => Inv'
  <2>. SUFFICES ASSUME Inv, [Next]_vars PROVE Inv'
    OBVIOUS
  <2>1. CASE UNCHANGED vars
    BY <2>1 DEF vars, ptrVars, walkVars, Inv, TypeOK, Forward, IsChain, Backward, Ends,
         Outside, In, Appending, Walking, Releasing, Freeing, EntryAt
  <2>. QED  BY <2>1, AppendBeginInv, LinkInv, LinkBackInv, RemoveEntryInv, WalkInv,
            FreeNextInv DEF Next
<1>. QED  BY InitInv, <1>1, PTL DEF Spec

(* The variables keep their types, and an entry is being appended exactly  *)
(* while llist_append is under way.                                        *)
THEOREM LListTypeOK == Spec => []TypeOK
<1>1. Inv => TypeOK
  BY DEF Inv
<1>. QED  BY <1>1, Invariance, PTL

(* Whenever the lock is free the pointers lead through the list forwards   *)
(* and backwards, and entries that are not in it point nowhere.            *)
THEOREM LListPointersAgree == Spec => []PointersAgree
<1>1. ASSUME Inv, apc = "idle" PROVE IsChain(Reverse(contents), tail, prev)
  <2>. PICK n : n = Len(contents)
    OBVIOUS
  <2>1. /\ n = Len(contents) /\ n \in Nat /\ DOMAIN contents = 1 .. n
        /\ contents \in Seq(Entry)
        /\ tail = IF n = 0 THEN NULL ELSE contents[n]
        /\ \A k \in 1 .. n : prev[contents[k]] = IF k = 1 THEN NULL ELSE contents[k - 1]
    BY <1>1, ListFacts DEF Inv, Backward, Ends
  <2>2. PICK r : r = [k \in 1 .. n |-> contents[n - k + 1]]
    OBVIOUS
  <2>3. Reverse(contents) = r
    BY <2>1, <2>2 DEF Reverse
  <2>4. r \in Seq(Entry) /\ Len(r) = n /\ DOMAIN r = 1 .. n /\ (r = << >> <=> n = 0)
    <3>1. \A k \in 1 .. n : contents[n - k + 1] \in Entry
      BY <1>1, <2>1, ListFacts DEF Inv
    <3>2. r \in Seq(Entry) /\ Len(r) = n
      BY <2>1, <2>2, <3>1
    <3>. QED  BY <2>1, <3>2, EmptySeq, LenProperties
  <2>5. \A k \in 1 .. n : r[k] = contents[n - k + 1]
    BY <2>2
  <2>6. tail = IF r = << >> THEN NULL ELSE r[1]
    BY <2>1, <2>4, <2>5
  <2>7. ASSUME NEW k \in 1 .. n
        PROVE  prev[r[k]] = IF k = n THEN NULL ELSE r[k + 1]
    <3>. PICK j : j = n - k + 1
      OBVIOUS
    <3>1. j \in 1 .. n /\ r[k] = contents[j] /\ (j = 1 <=> k = n)
      BY <2>1, <2>5
    <3>2. k # n => r[k + 1] = contents[j - 1]
      BY <2>1, <2>5
    <3>. QED  BY <2>1, <3>1, <3>2
  <2>. QED  BY <2>3, <2>4, <2>6, <2>7 DEF IsChain
<1>2. Inv => PointersAgree
  BY <1>1 DEF PointersAgree, Inv, Forward, Outside
<1>. QED  BY <1>2, Invariance, PTL

(* A walk that does not hold the lock visits, in order and once, every     *)
(* entry that was there when it began, and others only if they were        *)
(* appended meanwhile.                                                     *)
THEOREM LListWalkSeesTheList == Spec => []WalkSeesTheList
<1>1. ASSUME NEW s \in Seq(Entry), NEW t \in Seq(Entry), Len(s) <= Len(t),
             \A k \in 1 .. Len(s) : s[k] = t[k]
      PROVE  IsPrefix(s, t)
  <2>1. Len(s) \in Nat /\ Len(t) \in Nat
    BY LenProperties
  <2>2. SubSeq(s, 1, Len(s)) = SubSeq(t, 1, Len(s))
    BY <1>1, <2>1
  <2>. QED  BY <1>1, <2>2 DEF IsPrefix
<1>2. ASSUME Inv, wpc = "walk"
      PROVE  IsPrefix(visited, contents) /\ (Walked => IsPrefix(before, visited))
  <2>1. /\ visited \in Seq(Entry) /\ before \in Seq(Entry) /\ contents \in Seq(Entry)
        /\ DOMAIN visited = 1 .. Len(visited) /\ DOMAIN before = 1 .. Len(before)
        /\ Len(visited) \in Nat /\ Len(before) \in Nat
    BY <1>2, LenProperties DEF Inv, TypeOK
  <2>2. /\ Len(visited) <= Len(contents)
        /\ \A k \in 1 .. Len(visited) : visited[k] = contents[k]
        /\ \A k \in 1 .. Len(before) : before[k] = contents[k]
        /\ Walked => Len(before) <= Len(visited)
    BY <1>2, <2>1 DEF Inv, Walking, Walked
  <2>3. IsPrefix(visited, contents)
    BY <1>1, <2>1, <2>2
  <2>4. Walked => \A k \in 1 .. Len(before) : before[k] = visited[k]
    BY <2>1, <2>2
  <2>. QED  BY <1>1, <2>1, <2>2, <2>3, <2>4
<1>3. Inv => WalkSeesTheList
  BY <1>2 DEF WalkSeesTheList
<1>. QED  BY <1>3, Invariance, PTL

(* A walk that frees the entries of a list frees each of them once, and    *)
(* is never led by what it reads of a freed one.                           *)
THEOREM LListFreesEachOnce == Spec => []FreesEachOnce
<1>1. ASSUME Inv, Freeing
      PROVE  /\ IsPrefix(visited, contents)
             /\ ~In(visited, cursor) /\ ~In(visited, nxt)
             /\ Walked => visited = contents
  <2>. PICK n : n = Len(contents)
    OBVIOUS
  <2>. PICK m : m = Len(visited)
    OBVIOUS
  <2>1. /\ n \in Nat /\ DOMAIN contents = 1 .. n /\ contents \in Seq(Entry)
        /\ \A k \in 1 .. n : contents[k] # NULL
        /\ \A j, k \in 1 .. n : contents[j] = contents[k] => j = k
    BY <1>1, ListFacts DEF Inv, Forward
  <2>2. visited \in Seq(Entry) /\ m \in Nat /\ DOMAIN visited = 1 .. m
    BY <1>1, LenProperties DEF Inv, TypeOK
  <2>3. /\ m <= n /\ \A k \in 1 .. m : visited[k] = contents[k]
        /\ cursor = EntryAt(m + 1) /\ nxt = EntryAt(m + 2)
    BY <1>1, <2>2 DEF Inv, Releasing, Freeing
  <2>4. IsPrefix(visited, contents)
    <3>1. SubSeq(visited, 1, m) = SubSeq(contents, 1, m)
      BY <2>1, <2>2, <2>3
    <3>. QED  BY <2>2, <2>3, <3>1 DEF IsPrefix
  <2>5. ASSUME NEW i \in {m + 1, m + 2} PROVE ~In(visited, EntryAt(i))
    <3>1. ASSUME NEW k \in 1 .. m PROVE visited[k] # EntryAt(i)
      <4>1. k \in 1 .. n /\ visited[k] = contents[k] /\ i \in Nat /\ i # k /\ i >= 1
        BY <2>1, <2>2, <2>3
      <4>2. CASE i <= n
        <5>1. i \in 1 .. n
          BY <2>1, <4>1, <4>2
        <5>. QED  BY <2>1, <4>1, <4>2, <5>1 DEF EntryAt
      <4>3. CASE ~(i <= n)
        BY <2>1, <4>1, <4>3 DEF EntryAt
      <4>. QED  BY <4>2, <4>3
    <3>. QED  BY <2>2, <3>1 DEF In
  <2>6. Walked => visited = contents
    <3>1. ASSUME cursor = NULL PROVE visited = contents
      <4>1. m = n
        <5>1. m # n => m + 1 \in 1 .. n /\ m + 1 <= n
          BY <2>1, <2>2, <2>3
        <5>. QED  BY <2>1, <2>3, <3>1, <5>1 DEF EntryAt
      <4>. QED  BY <2>1, <2>2, <2>3, <4>1, SeqEqual
    <3>. QED  BY <3>1 DEF Walked
  <2>. QED  BY <2>3, <2>4, <2>5, <2>6
<1>2. Inv => FreesEachOnce
  BY <1>1 DEF FreesEachOnce
<1>. QED  BY <1>2, Invariance, PTL
=============================================================================
