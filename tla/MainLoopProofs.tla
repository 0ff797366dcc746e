--------------------------- MODULE MainLoopProofs ---------------------------
(***************************************************************************)
(* The two components that the main loop drives.  For any number of nodes, *)
(* connections, pixels and draws: the main thread collects no pixel twice  *)
(* and none after a newer one of the same node (Canvas).  For any amount   *)
(* of work: a work queue loses, doubles and reorders no entry, and when    *)
(* stop_workqueue returns every entry has been handled (WorkQueue).        *)
(***************************************************************************)
EXTENDS Canvas, WorkQueue, SequenceTheorems, TLAPS

-----------------------------------------------------------------------------
(* Canvas *)

(* The framebuffer that main is at is one. *)
Visiting == mpc \in {"check", "copy", "reset"} => mnode \in Node

(* A place holds its newest store, which may have been shown; a pixel that *)
(* is opaque, or was when main looked at it, has not been shown, unless    *)
(* main is about to reset it.                                              *)
Newest   == \A n \in Node, k \in Cell : node_fb[n][k].color = stores[n][k]
ShownOld == \A n \in Node, k \in Cell : shown[n][k] <= stores[n][k]
OpaqueIsNew ==
  \A n \in Node, k \in Cell :
    node_fb[n][k].opaque /\ ~AboutToReset(n, k) => shown[n][k] < stores[n][k]
CopiedIsNew == mpc = "copy" => shown[mnode][j] < stores[mnode][j]

Inv == /\ TypeOK /\ Visiting
       /\ Newest /\ ShownOld /\ OpaqueIsNew /\ CopiedIsNew

LEMMA CellFacts == 0 \in Cell /\ (j \in Cell /\ j + 1 < Cells => j + 1 \in Cell)
  BY CellsAssumption DEF Cell

LEMMA InitInv == Init => Inv
  <1> SUFFICES ASSUME Init PROVE Inv
    OBVIOUS
  <1> USE CellsAssumption, NodeAssumption DEF Init
  <1>1. TypeOK
    BY CellFacts DEF TypeOK, NewPixel
  <1>2. Visiting /\ CopiedIsNew
    BY DEF Visiting, CopiedIsNew
  <1>3. Newest /\ ShownOld /\ OpaqueIsNew
    BY DEF Newest, ShownOld, OpaqueIsNew, NewPixel
  <1> QED
    BY <1>1, <1>2, <1>3 DEF Inv

LEMMA NextInv == Inv /\ [Next]_vars => Inv'
  <1> SUFFICES ASSUME Inv, [Next]_vars PROVE Inv'
    OBVIOUS
  <1> USE NodeAssumption, CellsAssumption DEF Inv
  <1>1. CASE UNCHANGED vars
    BY <1>1 DEF vars, mainVars, TypeOK, Visiting, Newest, ShownOld, OpaqueIsNew,
                CopiedIsNew, AboutToReset
  <1>2. CASE StartPass
    <2>1. TypeOK'
      BY <1>2 DEF StartPass, TypeOK
    <2>2. Visiting' /\ Newest' /\ ShownOld' /\ OpaqueIsNew' /\ CopiedIsNew'
      BY <1>2 DEF StartPass, Visiting, Newest, ShownOld, OpaqueIsNew,
                  CopiedIsNew, AboutToReset
    <2> QED
      BY <2>1, <2>2
  <1>3. CASE EndPass
    <2>1. TypeOK'
      BY <1>3 DEF EndPass, TypeOK
    <2>2. Visiting' /\ Newest' /\ ShownOld' /\ OpaqueIsNew' /\ CopiedIsNew'
      BY <1>3 DEF EndPass, Visiting, Newest, ShownOld, OpaqueIsNew,
                  CopiedIsNew, AboutToReset
    <2> QED
      BY <2>1, <2>2
  <1>4. ASSUME NEW n \in Node, VisitFb(n) PROVE Inv'
    <2>1. TypeOK'
      BY <1>4, CellFacts DEF VisitFb, TypeOK
    <2>2. Visiting' /\ Newest' /\ ShownOld' /\ OpaqueIsNew' /\ CopiedIsNew'
      BY <1>4 DEF VisitFb, Visiting, Newest, ShownOld, OpaqueIsNew,
                  CopiedIsNew, AboutToReset
    <2> QED
      BY <2>1, <2>2
  <1>5. CASE CheckAlpha
    <2>0. mnode \in Node /\ j \in Cell
      BY <1>5 DEF CheckAlpha, Visiting, TypeOK
    <2>1. TypeOK'
      BY <1>5, <2>0, CellFacts DEF CheckAlpha, NextCell, TypeOK
    <2>2. Visiting' /\ Newest' /\ ShownOld' /\ OpaqueIsNew'
      BY <1>5 DEF CheckAlpha, NextCell, Visiting, Newest, ShownOld, OpaqueIsNew,
                  AboutToReset
    <2>3. CopiedIsNew'
      BY <1>5, <2>0 DEF CheckAlpha, NextCell, CopiedIsNew, OpaqueIsNew, AboutToReset
    <2> QED
      BY <2>1, <2>2, <2>3
  <1>6. CASE CopyPixel
    <2>0. mnode \in Node /\ j \in Cell
      BY <1>6 DEF CopyPixel, Visiting, TypeOK
    <2>1. /\ node_fb[mnode][j].color \in Nat
          /\ node_fb[mnode][j].color = stores[mnode][j]
      BY <2>0 DEF TypeOK, Newest
    <2>2. shown' \in [Node -> [Cell -> Int]]
      BY <1>6, <2>0, <2>1 DEF CopyPixel, TypeOK
    <2>3. TypeOK'
      BY <1>6, <2>0, <2>1, <2>2 DEF CopyPixel, TypeOK
    <2>4. ASSUME NEW n \in Node, NEW k \in Cell
          PROVE  shown'[n][k] = IF n = mnode /\ k = j THEN stores[n][k] ELSE shown[n][k]
      BY <1>6, <2>0, <2>1 DEF CopyPixel, TypeOK
    <2>5. Visiting' /\ Newest' /\ CopiedIsNew'
      BY <1>6 DEF CopyPixel, Visiting, Newest, CopiedIsNew
    <2>6. ShownOld'
      BY <1>6, <2>4 DEF CopyPixel, ShownOld, TypeOK
    <2>7. OpaqueIsNew'
      BY <1>6, <2>4 DEF CopyPixel, OpaqueIsNew, AboutToReset
    <2> QED
      BY <2>3, <2>5, <2>6, <2>7
  <1>7. CASE ResetAlpha
    <2>0. mnode \in Node /\ j \in Cell
      BY <1>7 DEF ResetAlpha, Visiting, TypeOK
    <2> DEFINE pixel == [color |-> node_fb[mnode][j].color, opaque |-> FALSE]
    <2>a. pixel \in [color : Nat, opaque : BOOLEAN]
      BY <2>0 DEF TypeOK
    <2>b. node_fb' = [node_fb EXCEPT ![mnode][j] = pixel]
      BY <1>7 DEF ResetAlpha
    <2>1. node_fb' \in [Node -> [Cell -> [color : Nat, opaque : BOOLEAN]]]
      <3> HIDE DEF pixel
      <3> QED
        BY <2>0, <2>a, <2>b DEF TypeOK
    <2>2. TypeOK'
      BY <1>7, <2>0, <2>1, CellFacts DEF ResetAlpha, NextCell, TypeOK
    <2>3. ASSUME NEW n \in Node, NEW k \in Cell
          PROVE  /\ node_fb'[n][k].color = node_fb[n][k].color
                 /\ node_fb'[n][k].opaque =>
                      node_fb[n][k].opaque /\ ~AboutToReset(n, k)
      BY <1>7, <2>0 DEF ResetAlpha, TypeOK, AboutToReset
    <2>4. Visiting' /\ Newest' /\ ShownOld' /\ CopiedIsNew'
      BY <1>7, <2>3 DEF ResetAlpha, NextCell, Visiting, Newest, ShownOld, CopiedIsNew
    <2>5. OpaqueIsNew'
      BY <1>7, <2>3 DEF ResetAlpha, OpaqueIsNew
    <2> QED
      BY <2>2, <2>4, <2>5
  <1>8. ASSUME NEW c \in Conn, GetFb(c) PROVE Inv'
    <2>1. TypeOK'
      BY <1>8 DEF GetFb, TypeOK, mainVars
    <2>2. Visiting' /\ Newest' /\ ShownOld' /\ OpaqueIsNew' /\ CopiedIsNew'
      BY <1>8 DEF GetFb, mainVars, Visiting, Newest, ShownOld, OpaqueIsNew,
                  CopiedIsNew, AboutToReset
    <2> QED
      BY <2>1, <2>2
  <1>9. ASSUME NEW c \in Conn, NEW k \in Cell, NEW opaque \in BOOLEAN,
               SetPixel(c, k, opaque)
        PROVE  Inv'
    <2> DEFINE n == NodeOf[c]
               pixel == [color |-> stores[n][k] + 1, opaque |-> opaque]
    <2>0. n \in Node /\ stores[n][k] \in Nat /\ shown[n][k] \in Int
          /\ shown[n][k] <= stores[n][k]
      BY DEF TypeOK, ShownOld
    <2>1. /\ pixel \in [color : Nat, opaque : BOOLEAN]
          /\ pixel.color = stores[n][k] + 1
      BY <2>0
    <2>2. /\ stores' = [stores EXCEPT ![n][k] = stores[n][k] + 1]
          /\ node_fb' = [node_fb EXCEPT ![n][k] = pixel]
          /\ drawn' = [drawn EXCEPT ![c] = drawn[c] + 1]
          /\ drawn[c] \in 0 .. MaxDraws - 1
          /\ UNCHANGED <<fb, mpc, todo, mnode, j, shown, listed>>
      BY <1>9 DEF SetPixel, mainVars
    <2> HIDE DEF n, pixel
    <2>3. /\ stores' \in [Node -> [Cell -> Nat]]
          /\ node_fb' \in [Node -> [Cell -> [color : Nat, opaque : BOOLEAN]]]
      BY <2>0, <2>1, <2>2 DEF TypeOK
    <2>4. drawn' \in [Conn -> -1 .. MaxDraws]
      BY <2>2 DEF TypeOK
    <2>5. TypeOK'
      BY <2>2, <2>3, <2>4 DEF TypeOK
    <2>6. ASSUME NEW m \in Node, NEW i \in Cell
          PROVE  IF m = n /\ i = k
                 THEN stores'[m][i] = stores[m][i] + 1 /\ node_fb'[m][i] = pixel
                 ELSE stores'[m][i] = stores[m][i] /\ node_fb'[m][i] = node_fb[m][i]
      BY <2>0, <2>2 DEF TypeOK
    <2>7. Visiting' /\ Newest'
      BY <2>1, <2>2, <2>6 DEF Visiting, Newest
    <2>8. ShownOld' /\ OpaqueIsNew'
      BY <2>0, <2>2, <2>6 DEF TypeOK, ShownOld, OpaqueIsNew, AboutToReset
    <2>9. CopiedIsNew'
      BY <2>0, <2>2, <2>6 DEF TypeOK, Visiting, CopiedIsNew
    <2> QED
      BY <2>5, <2>7, <2>8, <2>9
  <1> QED
    BY <1>1, <1>2, <1>3, <1>4, <1>5, <1>6, <1>7, <1>8, <1>9 DEF Next, Main

LEMMA SpecInv == Spec => []Inv
  BY InitInv, NextInv, PTL DEF Spec

(* The variables keep their types, and main never leaves the framebuffer   *)
(* it visits (framebuffer.c:148).                                          *)
THEOREM CanvasTypeOK == Spec => []TypeOK
  <1>1. Inv => TypeOK
    BY DEF Inv
  <1> QED
    BY <1>1, SpecInv, PTL

(* For any canvas and any number of connections, no pixel is collected     *)
(* twice, and no older one after a newer one of the same node              *)
(* (framebuffer.c:148-162), although pixels are stored at any moment.      *)
THEOREM CanvasCollectsOnce == Spec => CollectedOnce
  <1> DEFINE Fresh == \A n \in Node, k \in Cell :
                        mpc = "copy" /\ mpc' = "reset" /\ mnode = n /\ j = k
                          => shown'[n][k] > shown[n][k]
  <1>1. ASSUME Inv, Next PROVE Fresh
    <2> SUFFICES ASSUME NEW n \in Node, NEW k \in Cell, mpc = "copy", mpc' = "reset",
                        mnode = n, j = k
                 PROVE  shown'[n][k] > shown[n][k]
      OBVIOUS
    <2>1. CopyPixel
      BY <1>1 DEF Next, Main, StartPass, VisitFb, EndPass, CheckAlpha, ResetAlpha,
                  GetFb, SetPixel, mainVars
    <2>2. /\ shown'[n][k] = stores[n][k] /\ shown[n][k] < stores[n][k]
          /\ shown[n][k] \in Int /\ stores[n][k] \in Nat
      BY <1>1, <2>1 DEF CopyPixel, Inv, TypeOK, Newest, CopiedIsNew
    <2> QED
      BY <2>2
  <1>2. Inv /\ [Next]_vars => [Fresh]_vars
    BY <1>1
  <1> QED
    BY <1>2, SpecInv, PTL DEF Spec, CollectedOnce

-----------------------------------------------------------------------------
(* WorkQueue *)

(* The worker holds an entry exactly while it runs it; once stop_workqueue *)
(* has joined the worker it is the only one to touch the list.             *)
CurrentIsRun == current # << >> <=> wpc = "run"
Stopped == /\ cpc \in {"cleanup", "done"} => wpc = "dead"
           /\ cpc = "done" => entries = << >>

QueueInv == QueueTypeOK /\ NothingLostOrReordered /\ CurrentIsRun /\ Stopped

(* A sequence is its head followed by its tail. *)
LEMMA HeadThenTail ==
  ASSUME NEW S, NEW s \in Seq(S), s # << >>
  PROVE  /\ Head(s) \in S /\ Tail(s) \in Seq(S)
         /\ << Head(s) >> \in Seq(S)
         /\ s = << Head(s) >> \o Tail(s)
  <1>1. /\ Head(s) \in S /\ Tail(s) \in Seq(S) /\ Len(Tail(s)) = Len(s) - 1
        /\ \A i \in 1 .. Len(Tail(s)) : Tail(s)[i] = s[i + 1]
    BY HeadTailProperties
  <1>2. << Head(s) >> \in Seq(S) /\ Len(<< Head(s) >>) = 1
    BY <1>1
  <1>3. Len(s) \in Nat \ {0}
    BY EmptySeq
  <1> DEFINE h == << Head(s) >>
             t == Tail(s)
  <1>4. h[1] = s[1]
    OBVIOUS
  <1> HIDE DEF h, t
  <1>5. /\ h \o t \in Seq(S) /\ Len(h \o t) = Len(h) + Len(t)
        /\ \A i \in 1 .. Len(h) + Len(t) :
             (h \o t)[i] = IF i <= Len(h) THEN h[i] ELSE t[i - Len(h)]
    BY <1>1, <1>2, ConcatProperties DEF h, t
  <1>6. Len(h) = 1 /\ Len(t) = Len(s) - 1
    BY <1>1, <1>2 DEF h, t
  <1>7. ASSUME NEW i \in 1 .. Len(s) PROVE (h \o t)[i] = s[i]
    <2>1. CASE i = 1
      BY <2>1, <1>3, <1>4, <1>5, <1>6
    <2>2. CASE i # 1
      <3>1. i - 1 \in 1 .. Len(t) /\ (i - 1) + 1 = i /\ ~(i <= 1)
        BY <2>2, <1>3, <1>6
      <3>2. t[i - 1] = s[i]
        BY <3>1, <1>1 DEF t
      <3> QED
        BY <3>1, <3>2, <1>3, <1>5, <1>6
    <2> QED
      BY <2>1, <2>2
  <1>8. h \o t = s
    <2>1. Len(h \o t) = Len(s) /\ h \o t \in Seq(S)
      BY <1>3, <1>5, <1>6
    <2> QED
      BY <2>1, <1>7, SeqEqual
  <1> QED
    BY <1>1, <1>2, <1>8 DEF h, t

(* The first waiting entry can be moved to the sequences before it. *)
LEMMA MoveHead ==
  ASSUME NEW S, NEW a \in Seq(S), NEW s \in Seq(S), s # << >>
  PROVE  /\ a \o << Head(s) >> \o Tail(s) = a \o s
         /\ Append(a, Head(s)) = a \o << Head(s) >>
  BY HeadThenTail, ConcatAssociative, AppendIsConcat

LEMMA QueueInitInv == QueueInit => QueueInv
  <1> SUFFICES ASSUME QueueInit PROVE QueueInv
    OBVIOUS
  <1>1. << >> \in Seq(Item)
    BY EmptySeq
  <1>2. << >> \o << >> \o << >> = << >>
    BY <1>1, ConcatEmptySeq
  <1> QED
    BY <1>1, <1>2
    DEF QueueInit, QueueInv, QueueTypeOK, NothingLostOrReordered, CurrentIsRun, Stopped

LEMMA QueueNextInv == QueueInv /\ [QueueNext]_queueVars => QueueInv'
  <1> SUFFICES ASSUME QueueInv, [QueueNext]_queueVars PROVE QueueInv'
    OBVIOUS
  <1> USE DEF QueueInv
  <1>s. /\ handled \in Seq(Item) /\ entries \in Seq(Item) /\ enqueued \in Seq(Item)
        /\ current \in Seq(Item) /\ << >> \in Seq(Item)
    <2>1. << >> \in Seq(Item)
      BY EmptySeq
    <2>2. \A i \in Item : << i >> \in Seq(Item)
      OBVIOUS
    <2> QED
      BY <2>1, <2>2 DEF QueueTypeOK
  <1>q. ASSUME UNCHANGED <<entries, enqueued, handled, current, cleaned, do_exit>>,
               wpc' \in {"start", "check", "enter", "wait", "woken", "drain", "dead"},
               wpc # "run", wpc = "dead" => wpc' = "dead",
               lock' \in {NoOne, TheWorker}, cpc' = cpc
        PROVE  QueueInv'
    BY <1>q DEF QueueTypeOK, NothingLostOrReordered, CurrentIsRun, Stopped
  <1>1. CASE WorkerLock
    BY <1>1, <1>q DEF WorkerLock, QueueTypeOK
  <1>2. CASE CheckExit
    BY <1>2, <1>q DEF CheckExit, QueueTypeOK
  <1>3. CASE EnterWait
    BY <1>3, <1>q DEF EnterWait, QueueTypeOK
  <1>4. CASE SpuriousWakeup
    BY <1>4, <1>q DEF SpuriousWakeup, QueueTypeOK
  <1>5. CASE Reacquire
    BY <1>5, <1>q DEF Reacquire, QueueTypeOK
  <1>6. CASE LeaveDrain
    BY <1>6, <1>q DEF LeaveDrain, QueueTypeOK
  <1>7. CASE TakeFirst
    <2>1. /\ Head(entries) \in Item /\ Tail(entries) \in Seq(Item)
          /\ << Head(entries) >> # << >>
      BY <1>7, <1>s, HeadTailProperties DEF TakeFirst
    <2>2. current = << >>
      BY <1>7 DEF TakeFirst, CurrentIsRun
    <2>3. enqueued = handled \o entries
      BY <2>2, <1>s, ConcatEmptySeq DEF NothingLostOrReordered
    <2>4. handled \o << Head(entries) >> \o Tail(entries) = handled \o entries
      BY <1>7, <1>s, MoveHead DEF TakeFirst
    <2>5. NothingLostOrReordered'
      BY <1>7, <2>3, <2>4 DEF TakeFirst, NothingLostOrReordered
    <2> QED
      BY <1>7, <2>1, <2>5 DEF TakeFirst, QueueTypeOK, CurrentIsRun, Stopped
  <1>8. CASE RunOk \/ RunFailed \/ RunFatal
    <2>1. /\ handled' = handled \o current /\ current' = << >>
          /\ UNCHANGED <<entries, enqueued, do_exit, cpc>>
          /\ wpc = "run" /\ wpc' \in {"drain", "dead"}
          /\ lock' \in {lock, NoOne}
          /\ cleaned' \in {cleaned, cleaned \cup {current[1]}}
      BY <1>8 DEF RunOk, RunFailed, RunFatal, FreeCurrent
    <2>2. current[1] \in Item
      BY <2>1 DEF QueueTypeOK, CurrentIsRun
    <2>3. handled \o current \in Seq(Item)
      BY <1>s, ConcatProperties
    <2>4. handled \o current \o << >> = handled \o current
      BY <2>3, ConcatEmptySeq
    <2>5. NothingLostOrReordered'
      BY <2>1, <2>4 DEF NothingLostOrReordered
    <2>6. QueueTypeOK'
      BY <2>1, <2>2, <2>3 DEF QueueTypeOK
    <2> QED
      BY <2>1, <2>5, <2>6 DEF CurrentIsRun, Stopped
  <1>9. ASSUME NEW i \in Item, Enqueue(i) PROVE QueueInv'
    <2>1. /\ Append(entries, i) \in Seq(Item) /\ Append(enqueued, i) \in Seq(Item)
          /\ << i >> \in Seq(Item)
      BY <1>s, AppendProperties
    <2>2. handled \o current \in Seq(Item)
      BY <1>s, ConcatProperties
    <2>3. Append(enqueued, i) = handled \o current \o Append(entries, i)
      <3>1. Append(enqueued, i) = (handled \o current \o entries) \o << i >>
        BY <1>s, AppendIsConcat DEF NothingLostOrReordered
      <3>2. Append(entries, i) = entries \o << i >>
        BY <1>s, AppendIsConcat
      <3> QED
        BY <3>1, <3>2, <2>1, <2>2, <1>s, ConcatAssociative, SMTT(30)
    <2>4. NothingLostOrReordered'
      BY <1>9, <2>3 DEF Enqueue, NothingLostOrReordered
    <2> QED
      BY <1>9, <2>1, <2>4 DEF Enqueue, QueueTypeOK, CurrentIsRun, Stopped
  <1>10. CASE Broadcast \/ StopBroadcast
    <2>1. /\ UNCHANGED <<entries, enqueued, handled, current, cleaned, lock, do_exit>>
          /\ cpc \in {"broadcast", "stop"} /\ cpc' \in {"idle", "join"}
          /\ wpc' = IF wpc = "wait" THEN "woken" ELSE wpc
      BY <1>10 DEF Broadcast, StopBroadcast, WakeWorker
    <2>2. QueueTypeOK'
      BY <2>1 DEF QueueTypeOK
    <2> QED
      BY <2>1, <2>2 DEF NothingLostOrReordered, CurrentIsRun, Stopped
  <1>15. CASE StopSetExit
    <2>1. /\ UNCHANGED <<entries, enqueued, handled, current, cleaned, lock, wpc>>
          /\ cpc = "idle" /\ cpc' = "stop"
      BY <1>15 DEF StopSetExit
    <2>2. do_exit' \in BOOLEAN
      BY <1>15 DEF StopSetExit
    <2>3. QueueTypeOK'
      BY <2>1, <2>2 DEF QueueTypeOK
    <2> QED
      BY <2>1, <2>3 DEF NothingLostOrReordered, CurrentIsRun, Stopped
  <1>11. CASE StopJoin
    BY <1>11 DEF StopJoin, QueueTypeOK, NothingLostOrReordered, CurrentIsRun, Stopped
  <1>12. CASE StopCleanup
    <2>1. /\ Head(entries) \in Item /\ Tail(entries) \in Seq(Item)
          /\ Append(handled, Head(entries)) \in Seq(Item)
      BY <1>12, <1>s, HeadTailProperties, AppendProperties DEF StopCleanup
    <2>2. current = << >>
      BY <1>12 DEF StopCleanup, CurrentIsRun, Stopped
    <2>3. enqueued = handled \o entries
      BY <2>2, <1>s, ConcatEmptySeq DEF NothingLostOrReordered
    <2>4. Append(handled, Head(entries)) \o << >> \o Tail(entries) = handled \o entries
      <3>1. Append(handled, Head(entries)) \o << >> = Append(handled, Head(entries))
        BY <2>1, ConcatEmptySeq
      <3> QED
        BY <1>12, <3>1, <1>s, MoveHead, SMTT(30) DEF StopCleanup
    <2>5. NothingLostOrReordered'
      BY <1>12, <2>2, <2>3, <2>4 DEF StopCleanup, NothingLostOrReordered
    <2> QED
      BY <1>12, <2>1, <2>5 DEF StopCleanup, QueueTypeOK, CurrentIsRun, Stopped
  <1>13. CASE StopDone
    BY <1>13 DEF StopDone, QueueTypeOK, NothingLostOrReordered, CurrentIsRun, Stopped
  <1>14. CASE UNCHANGED queueVars
    BY <1>14 DEF queueVars, QueueTypeOK, NothingLostOrReordered, CurrentIsRun, Stopped
  <1> QED
    BY <1>1, <1>2, <1>3, <1>4, <1>5, <1>6, <1>7, <1>8, <1>9, <1>10, <1>11,
       <1>12, <1>13, <1>14, <1>15
    DEF QueueNext, Worker, ClientStep

(* The queue's variables keep their types. *)
THEOREM WorkQueueTypeOK == QueueSpec => []QueueTypeOK
  <1>1. QueueInv => QueueTypeOK
    BY DEF QueueInv
  <1> QED
    BY <1>1, QueueInitInv, QueueNextInv, PTL DEF QueueSpec

(* No entry is lost, doubled or overtaken. *)
THEOREM WorkQueueConserves == QueueSpec => []NothingLostOrReordered
  <1>1. QueueInv => NothingLostOrReordered
    BY DEF QueueInv
  <1> QED
    BY <1>1, QueueInitInv, QueueNextInv, PTL DEF QueueSpec

(* After stop_workqueue every entry has been run or cleaned up. *)
THEOREM WorkQueueStopsEmpty == QueueSpec => []StopLeavesNothing
  <1>1. QueueInv => StopLeavesNothing
    <2> SUFFICES ASSUME QueueInv, cpc = "done" PROVE handled = enqueued
      BY DEF StopLeavesNothing
    <2>1. entries = << >> /\ current = << >> /\ handled \in Seq(Item)
      BY DEF QueueInv, Stopped, CurrentIsRun, QueueTypeOK
    <2> QED
      BY <2>1, ConcatEmptySeq DEF QueueInv, NothingLostOrReordered
  <1> QED
    BY <1>1, QueueInitInv, QueueNextInv, PTL DEF QueueSpec
=============================================================================
