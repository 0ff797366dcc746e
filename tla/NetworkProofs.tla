---------------------------- MODULE NetworkProofs ----------------------------
(***************************************************************************)
(* For any number of listeners and connections, and whichever calls fail:  *)
(* what is on a thread list is alive, a connection that removes itself is  *)
(* there to be removed, after a shutdown all is quiet, and every crash has *)
(* the cause that Network names for it.                                    *)
(***************************************************************************)
EXTENDS Network, SequenceTheorems, FiniteSetTheorems, TLAPS

-----------------------------------------------------------------------------
(* The inductive invariant *)

ListenerPc == {"none", "start", "publish", "check", "accept", "print", "calloc",
               "create", "append", "clean", "join_read", "join", "dead"}
ConnectionPc == {"none", "accepted", "lock_fb", "get_fb", "print_new",
                 "print_done", "setup", "check", "read", "parse", "close",
                 "self", "remove", "unlock", "detach"} \cup Ended

(* A connection whose thread runs, up to the removal of its entry. *)
Running == {"lock_fb", "get_fb", "print_new", "print_done", "setup", "check",
            "read", "parse", "close", "self", "remove"}

(* The listener has created the thread of c and is about to list it. *)
Pending(c) == lpc[cowner[c]] = "append" /\ lconn[cowner[c]] = c

(* An entry stands on the list of its owner only, once, and is allocated,  *)
(* from before its thread can remove it until it has done so.              *)
EntriesLive ==
  \A l \in Listener : \A i \in DOMAIN list[l] :
    /\ cmem[list[l][i]] = "live" /\ cowner[list[l][i]] = l
    /\ cpc[list[l][i]] \notin {"none", "accepted", "unlock"}
    /\ listmem[l] = "live"

ListedOnce ==
  \A l \in Listener : \A i, j \in DOMAIN list[l] : list[l][i] = list[l][j] => i = j

(* The memory of a list follows its listener.  Only a cleanup that has     *)
(* been cut short ends without freeing it.                                 *)
ListFollowsListener ==
  \A l \in Listener :
    /\ lpc[l] \in {"none", "start"} => listmem[l] = "none"
    /\ lpc[l] \notin {"none", "start", "dead"} => listmem[l] = "live"
    /\ initialized[l] => listmem[l] # "none"
    /\ lpc[l] \in {"clean", "join_read", "join"} \/ listmem[l] = "freed"
         => lpopped[l] \/ lcancel[l]
    /\ lpc[l] = "dead" /\ listmem[l] = "live" => lpopped[l] /\ lcancel[l]

(* What a listener has in hand. *)
HandlesItsOwn ==
  \A l \in Listener :
    /\ lpc[l] \in {"print", "calloc", "create", "append", "join_read", "join"}
         => lconn[l] \in Conn /\ cowner[lconn[l]] = l
    /\ lpc[l] \in {"print", "calloc", "create"} =>
         /\ cpc[lconn[l]] = "accepted"
         /\ cmem[lconn[l]] = IF lpc[l] = "create" THEN "live" ELSE "none"
    /\ lpc[l] = "append" =>
         /\ list_lock[l] = TheListener
         /\ cmem[lconn[l]] = "live" /\ lconn[l] \notin Listed(l)
         /\ cpc[lconn[l]] \notin {"none", "accepted", "remove", "unlock"}
    /\ lpc[l] \in {"join_read", "join"} =>
         /\ cpc[lconn[l]] \notin {"none", "accepted"}
         /\ cpc[lconn[l]] = "joined" => Zombie(lconn[l])

(* A connection is on its list, or will be at once, while it runs; and if  *)
(* it ended by itself without being there, it has freed its struct.        *)
RunningIsListed ==
  \A c \in Conn :
    /\ cpc[c] = "none" => cmem[c] = "none"
    /\ cpc[c] \in Running => c \in Listed(cowner[c]) \/ Pending(c)
    /\ cpc[c] \in {"detach", "gone"} =>
         cmem[c] = "freed" \/ c \in Listed(cowner[c]) \/ Pending(c)
    /\ cpc[c] \in {"remove", "unlock"} => list_lock[cowner[c]] = c

(* Main starts the listeners upwards, and cancels and joins them downwards. *)
StartedInOrder ==
  /\ mpc = "listen" => \A l \in Listener : l >= mi => lpc[l] = "none"
  /\ mpc \in {"listen", "loop", "stats_read", "stats_check", "stats_walk"} =>
       state = "listen" /\ \A l \in Listener : ~lcancel[l]
  /\ mpc \in {"cancel", "join"} => \A l \in Listener : l > mi => lpc[l] = "dead"
  /\ mpc \in {"close", "fb_free", "net_free", "exit", "done"} =>
       \A l \in Listener : lpc[l] = "dead"
  /\ state = "exit" <=> mpc \in {"fb_free", "net_free", "exit", "done"}
  /\ nodefb = "freed" \/ threads = "freed" => state = "exit"

Inv == /\ TypeOK /\ EntriesLive /\ ListedOnce /\ ListFollowsListener
       /\ HandlesItsOwn /\ RunningIsListed /\ StartedInOrder
       /\ CrashesHaveACause

-----------------------------------------------------------------------------
(* Sequences *)

(* A sequence without its i-th element. *)
LEMMA RemoveAtFacts ==
  ASSUME NEW S, NEW s \in Seq(S), NEW i \in DOMAIN s
  PROVE  /\ RemoveAt(s, i) \in Seq(S) /\ Len(RemoveAt(s, i)) = Len(s) - 1
         /\ \A j \in 1 .. Len(s) - 1 :
              RemoveAt(s, i)[j] = IF j < i THEN s[j] ELSE s[j + 1]
  <1> DEFINE a == SubSeq(s, 1, i - 1)
             b == SubSeq(s, i + 1, Len(s))
  <1>1. i \in 1 .. Len(s) /\ Len(s) \in Nat
    OBVIOUS
  <1>2. /\ a \in Seq(S) /\ Len(a) = i - 1
        /\ \A j \in 1 .. i - 1 : a[j] = s[j]
    BY <1>1
  <1>3. /\ b \in Seq(S) /\ Len(b) = Len(s) - i
        /\ \A j \in 1 .. Len(s) - i : b[j] = s[j + i]
    BY <1>1
  <1>4. RemoveAt(s, i) = a \o b
    BY DEF RemoveAt
  <1> HIDE DEF a, b
  <1>5. a \o b \in Seq(S) /\ Len(a \o b) = Len(s) - 1
    BY <1>1, <1>2, <1>3
  <1>6. ASSUME NEW j \in 1 .. Len(s) - 1
        PROVE  (a \o b)[j] = IF j < i THEN s[j] ELSE s[j + 1]
    <2>1. (a \o b)[j] = IF j <= Len(a) THEN a[j] ELSE b[j - Len(a)]
      BY <1>1, <1>2, <1>3, SMTT(30)
    <2>2. CASE j < i
      BY <2>1, <2>2, <1>1, <1>2
    <2>3. CASE ~(j < i)
      BY <2>1, <2>3, <1>1, <1>2, <1>3, SMTT(30)
    <2> QED
      BY <2>2, <2>3
  <1> QED
    BY <1>4, <1>5, <1>6

-----------------------------------------------------------------------------
(* Types *)

(* Main goes through the listeners one by one, starts them, cancels them   *)
(* and locks their lists.                                                  *)
LEMMA MainType == Inv /\ Main => TypeOK'
  <1> SUFFICES ASSUME TypeOK, Main PROVE TypeOK'
    BY DEF Inv
  <1>1. /\ UNCHANGED <<lconn, lpopped, initialized, list, listmem, list_lock, connVars,
                       fb_lock>>
        /\ \/ mi' = mi
           \/ mi' = NumListeners
           \/ mi < NumListeners /\ mi' = mi + 1
           \/ mi > 1 /\ mi' = mi - 1
    BY DEF Main, StartListener, EnterStatistics, StatsReadList, StatsSkip, StatsBadList,
           StatsLock, StatsWalk, NextOfStats, NetShutdown, CancelListener, JoinListener,
           NetClose, FbFreeAll, NetFree, ProcessExit, MGo, LGo, notMain, mainVars,
           listenerVars, listVars, connVars, fbVars
  <1>2. /\ mpc' = mpc \/ mpc' \in {"loop", "stats_read", "stats_check", "stats_walk",
                                   "cancel", "join", "close", "fb_free", "net_free",
                                   "exit", "done"}
        /\ mlist' = mlist \/ mlist' = (listmem[mi] # "none")
        /\ state' \in {state, "shutdown", "exit"}
        /\ threads' \in {threads, "freed"} /\ nodefb' \in {nodefb, "freed"}
        /\ crash' \in {crash, "freed_list", "null_list"}
    BY DEF Main, StartListener, EnterStatistics, StatsReadList, StatsSkip, StatsBadList,
           StatsLock, StatsWalk, NextOfStats, NetShutdown, CancelListener, JoinListener,
           NetClose, FbFreeAll, NetFree, ProcessExit, MGo, LGo, notMain, mainVars,
           listenerVars, listVars, connVars, fbVars
  <1>3. /\ lpc' = lpc \/ lpc' = [lpc EXCEPT ![mi] = "start"]
        /\ lcancel' = lcancel \/ lcancel' = [lcancel EXCEPT ![mi] = TRUE]
        /\ \/ llock' = llock
           \/ \E who \in {NoOne, TheMain} : llock' = [llock EXCEPT ![mi] = who]
    BY DEF Main, StartListener, EnterStatistics, StatsReadList, StatsSkip, StatsBadList,
           StatsLock, StatsWalk, NextOfStats, NetShutdown, CancelListener, JoinListener,
           NetClose, FbFreeAll, NetFree, ProcessExit, MGo, LGo, notMain, mainVars,
           listenerVars, listVars, connVars, fbVars
  <1>4. mi' \in Listener
    BY <1>1, ListenersAssumption DEF TypeOK, Listener
  <1>5. mlist' \in BOOLEAN
    BY <1>2, Zenon DEF TypeOK
  <1>6. /\ lpc' \in [Listener -> ListenerPc] /\ lcancel' \in [Listener -> BOOLEAN]
        /\ llock' \in [Listener -> {NoOne, TheMain}]
    <2>1. /\ lpc \in [Listener -> ListenerPc] /\ lcancel \in [Listener -> BOOLEAN]
          /\ llock \in [Listener -> {NoOne, TheMain}] /\ "start" \in ListenerPc
      BY DEF TypeOK, ListenerPc
    <2>2. lpc' \in [Listener -> ListenerPc]
      BY <1>3, <2>1
    <2>3. lcancel' \in [Listener -> BOOLEAN]
      BY <1>3, <2>1
    <2>4. llock' \in [Listener -> {NoOne, TheMain}]
      BY <1>3, <2>1
    <2> QED
      BY <2>2, <2>3, <2>4
  <1>7. /\ mpc' \in {"listen", "loop", "stats_read", "stats_check", "stats_walk",
                     "cancel", "join", "close", "fb_free", "net_free", "exit", "done"}
        /\ state' \in {"listen", "shutdown", "exit"} /\ threads' \in {"live", "freed"}
    BY <1>2 DEF TypeOK
  <1>8. /\ nodefb' \in {"none", "listed", "freed"}
        /\ crash' \in {"no", "null_list", "freed_list", "stale_cancel", "stale_join",
                       "freed_fb", "freed_net"}
    BY <1>2 DEF TypeOK
  <1> QED
    BY <1>1, <1>4, <1>5, <1>6, <1>7, <1>8, Zenon DEF TypeOK, ListenerPc, connVars

-----------------------------------------------------------------------------
(* A connection *)

(* Before it goes to its list, a thread that moves on disturbs nothing.    *)
LEMMA ConnectionMoves ==
  ASSUME Inv, crash = "no", NEW c \in Conn, NEW pc,
         \/ /\ cpc[c] \in Running \ {"remove"}
            /\ pc \in (Running \ {"remove"}) \cup {"detach", "dead"}
         \/ cpc[c] = "detach" /\ pc = "gone",
         CGo(c, pc),
         ccut' \in [Conn -> BOOLEAN], fb_lock' \in Conn \cup {NoOne},
         nodefb' \in {nodefb, "listed"},
         UNCHANGED <<mainVars, listenerVars, listVars, cowner, ccancel, cmem,
                     crash>>
  PROVE  Inv'
  <1> USE DEF CGo, Inv, mainVars, listenerVars, listVars, Running
  <1>1. TypeOK'
    <2>1. nodefb' \in {"none", "listed", "freed"}
      BY DEF TypeOK
    <2>2. pc \in (Running \ {"remove"}) \cup {"detach", "dead", "gone"}
      OBVIOUS
    <2>3. cpc' \in [Conn -> ConnectionPc]
      BY <2>2 DEF TypeOK, Ended, ConnectionPc
    <2> QED
      BY <2>1, <2>3 DEF TypeOK, ConnectionPc
  <1>2. /\ cpc[c] \notin {"none", "accepted", "remove", "unlock", "joined"}
        /\ pc \notin {"none", "accepted", "remove", "unlock", "joined"}
        /\ pc \in Running => cpc[c] \in Running
        /\ pc \in {"detach", "gone"} => cpc[c] \in Running \cup {"detach", "gone"}
        /\ cpc[c] \in Ended => pc \in Ended
    BY DEF Ended
  <1>3. /\ \A d \in Conn \ {c} : cpc'[d] = cpc[d]
        /\ cpc'[c] = pc
    BY DEF TypeOK
  <1>4. EntriesLive' /\ ListedOnce'
    BY <1>2, <1>3 DEF EntriesLive, ListedOnce, TypeOK
  <1>5. ListFollowsListener'
    BY DEF ListFollowsListener
  <1>6. HandlesItsOwn'
    BY <1>2, <1>3 DEF HandlesItsOwn, Listed, Zombie, Ended
  <1>7. RunningIsListed'
    BY <1>2, <1>3 DEF RunningIsListed, Listed, Pending
  <1>8. StartedInOrder'
    BY DEF StartedInOrder, TypeOK
  <1>9. CrashesHaveACause'
    BY DEF CrashesHaveACause
  <1> QED
    BY <1>1, <1>4, <1>5, <1>6, <1>7, <1>8, <1>9

(* Only the crash changes, and it has its cause. *)
LEMMA CrashFrame ==
  ASSUME Inv, UNCHANGED <<mainVars, listenerVars, listVars, connVars, fbVars>>,
         CrashesHaveACause',
         crash' \in {"null_list", "freed_list", "stale_join", "freed_fb", "freed_net"}
  PROVE  Inv'
  <1> USE DEF Inv, mainVars, listenerVars, listVars, connVars, fbVars
  <1>1. TypeOK'
    BY DEF TypeOK
  <1>2. EntriesLive' /\ ListedOnce' /\ ListFollowsListener' /\ StartedInOrder'
    BY DEF EntriesLive, ListedOnce, ListFollowsListener, StartedInOrder
  <1>3. HandlesItsOwn' /\ RunningIsListed'
    BY DEF HandlesItsOwn, RunningIsListed, Listed, Zombie, Pending
  <1> QED
    BY <1>1, <1>2, <1>3

LEMMA SelfLockKeepsInv == ASSUME Inv, crash = "no", NEW c \in Conn, SelfLock(c)
                          PROVE  Inv'
  <1> USE OwnersAssumption DEF SelfLock, CGo, Inv, connData, mainVars,
          listenerVars, fbVars
  <1>1. TypeOK'
    BY DEF TypeOK, Ended
  <1>2. /\ \A d \in Conn \ {c} : cpc'[d] = cpc[d]
        /\ cpc[c] = "self" /\ cpc'[c] = "remove"
        /\ cowner[c] \in Listener /\ list_lock[cowner[c]] = NoOne
        /\ list_lock'[cowner[c]] = c
        /\ \A l \in Listener \ {cowner[c]} : list_lock'[l] = list_lock[l]
    BY DEF TypeOK
  <1>3. EntriesLive' /\ ListedOnce'
    BY <1>2 DEF EntriesLive, ListedOnce, TypeOK
  <1>4. ListFollowsListener'
    BY DEF ListFollowsListener
  <1>5. HandlesItsOwn'
    BY <1>2 DEF HandlesItsOwn, Listed, Zombie, Ended
  <1>6. RunningIsListed'
    BY <1>2 DEF RunningIsListed, Listed, Pending, Running, TypeOK
  <1>7. StartedInOrder' /\ CrashesHaveACause'
    BY DEF StartedInOrder, CrashesHaveACause
  <1> QED
    BY <1>1, <1>3, <1>4, <1>5, <1>6, <1>7

LEMMA SelfRemoveKeepsInv == ASSUME Inv, crash = "no", NEW c \in Conn, SelfRemove(c)
                            PROVE  Inv'
  <1> USE OwnersAssumption DEF CGo, Inv, connData, mainVars, listenerVars, fbVars
  <1>1. /\ cpc[c] = "remove" /\ cpc' = [cpc EXCEPT ![c] = "unlock"]
        /\ UNCHANGED <<connData, mainVars, listenerVars, listmem, llock,
                       list_lock, fbVars, crash>>
    BY DEF SelfRemove
  <1>own. PICK l \in Listener : l = cowner[c]
    BY DEF TypeOK
  <1>2. list_lock[l] = c /\ lpc[l] # "append" /\ c \in Listed(l)
    BY <1>1, <1>own DEF RunningIsListed, Running, Pending, HandlesItsOwn, TypeOK
  <1>3. PICK i \in DOMAIN list[l] :
          list[l][i] = c /\ list' = [list EXCEPT ![l] = RemoveAt(@, i)]
    BY <1>2, <1>own DEF SelfRemove
  <1>4. /\ list[l] \in Seq(Conn) /\ list \in [Listener -> Seq(Conn)]
        /\ list'[l] \in Seq(Conn) /\ Len(list'[l]) = Len(list[l]) - 1
        /\ \A j \in 1 .. Len(list[l]) - 1 :
             list'[l][j] = IF j < i THEN list[l][j] ELSE list[l][j + 1]
        /\ \A k \in Listener \ {l} : list'[k] = list[k]
    <2>1. list[l] \in Seq(Conn) /\ list \in [Listener -> Seq(Conn)]
      BY <1>2 DEF TypeOK
    <2>2. list'[l] = RemoveAt(list[l], i)
      BY <1>2, <1>3, <2>1
    <2> QED
      BY <1>2, <1>3, <2>1, <2>2, RemoveAtFacts
  <1>5. /\ list' \in [Listener -> Seq(Conn)] /\ DOMAIN list'[l] = 1 .. Len(list[l]) - 1
        /\ DOMAIN list[l] = 1 .. Len(list[l]) /\ Len(list[l]) \in Nat
    BY <1>2, <1>3, <1>4
  <1>6. /\ \A j \in DOMAIN list'[l] :
             \E k \in DOMAIN list[l] : list'[l][j] = list[l][k] /\ k # i
        /\ \A k \in DOMAIN list[l] : k # i => \E j \in DOMAIN list'[l] : list'[l][j] = list[l][k]
    <2>1. ASSUME NEW j \in DOMAIN list'[l]
          PROVE  \E k \in DOMAIN list[l] : list'[l][j] = list[l][k] /\ k # i
      <3>1. CASE j < i
        <4>1. j \in DOMAIN list[l] /\ list'[l][j] = list[l][j] /\ j # i
          BY <2>1, <3>1, <1>3, <1>4, <1>5
        <4> QED
          BY <4>1
      <3>2. CASE ~(j < i)
        <4>1. j + 1 \in DOMAIN list[l] /\ j + 1 # i
          BY <2>1, <3>2, <1>3, <1>5
        <4> QED
          BY <2>1, <3>2, <4>1, <1>4, <1>5
      <3> QED
        BY <3>1, <3>2
    <2>2. ASSUME NEW k \in DOMAIN list[l], k # i
          PROVE  \E j \in DOMAIN list'[l] : list'[l][j] = list[l][k]
      <3>1. CASE k < i
        BY <2>2, <3>1, <1>3, <1>4, <1>5
      <3>2. CASE ~(k < i)
        <4>1. k - 1 \in 1 .. Len(list[l]) - 1 /\ ~(k - 1 < i) /\ k - 1 + 1 = k
          BY <2>2, <3>2, <1>3, <1>5
        <4> QED
          BY <4>1, <1>4, <1>5
      <3> QED
        BY <3>1, <3>2
    <2> QED
      BY <2>1, <2>2
  <1>7. Listed(l)' = Listed(l) \ {c} /\ \A k \in Listener \ {l} : Listed(k)' = Listed(k)
    <2>1. \A k \in DOMAIN list[l] : list[l][k] = c => k = i
      BY <1>2, <1>3 DEF ListedOnce
    <2>2. Listed(l)' = Listed(l) \ {c}
      BY <2>1, <1>1, <1>3, <1>6 DEF Listed
    <2>3. ASSUME NEW k \in Listener \ {l} PROVE Listed(k)' = Listed(k)
      <3>1. list'[k] = list[k]
        BY <1>4
      <3> QED
        BY <3>1 DEF Listed
    <2> QED
      BY <2>2, <2>3
  <1>8. /\ \A d \in Conn \ {c} : cpc'[d] = cpc[d]
        /\ cpc'[c] = "unlock"
    BY <1>1 DEF TypeOK
  <1>9. TypeOK'
    <2>1. cpc' \in [Conn -> ConnectionPc]
      BY <1>1 DEF TypeOK, Ended, ConnectionPc
    <2> QED
      BY <1>1, <1>5, <2>1, SMTT(30) DEF TypeOK, ConnectionPc
  <1>10. EntriesLive'
    <2>1. ASSUME NEW k \in Listener, NEW j \in DOMAIN list'[k]
          PROVE  /\ cmem[list'[k][j]] = "live" /\ cowner[list'[k][j]] = k
                 /\ cpc'[list'[k][j]] \notin {"none", "accepted", "unlock"}
                 /\ listmem[k] = "live"
      <3>1. CASE k = l
        <4>1. PICK m \in DOMAIN list[l] : list'[l][j] = list[l][m] /\ m # i
          BY <2>1, <3>1, <1>6
        <4>2. list[l][m] # c /\ list[l][m] \in Conn
          BY <4>1, <1>2, <1>3, <1>4 DEF ListedOnce
        <4> QED
          BY <3>1, <4>1, <4>2, <1>2, <1>8, <1>own DEF EntriesLive
      <3>2. CASE k # l
        <4>1. list'[k][j] # c /\ list'[k][j] \in Conn /\ list'[k] = list[k]
          BY <2>1, <3>2, <1>1, <1>4, <1>own DEF EntriesLive, TypeOK
        <4> QED
          BY <2>1, <4>1, <1>8 DEF EntriesLive
      <3> QED
        BY <3>1, <3>2
    <2> QED
      BY <2>1, <1>1 DEF EntriesLive
  <1>11. ListedOnce'
    <2>1. ASSUME NEW j \in DOMAIN list'[l], NEW k \in DOMAIN list'[l],
                 list'[l][j] = list'[l][k]
          PROVE  j = k
      <3> DEFINE up(n) == IF n < i THEN n ELSE n + 1
      <3>1. /\ up(j) \in DOMAIN list[l] /\ up(k) \in DOMAIN list[l]
            /\ list[l][up(j)] = list[l][up(k)]
        BY <2>1, <1>3, <1>4, <1>5
      <3>2. up(j) = up(k)
        BY <3>1, <1>2 DEF ListedOnce
      <3> QED
        BY <3>2, <1>3, <1>5
    <2> QED
      BY <2>1, <1>4 DEF ListedOnce
  <1>12. ListFollowsListener'
    BY <1>1 DEF ListFollowsListener
  <1>13. HandlesItsOwn'
    <2>1. ASSUME NEW k \in Listener,
                 lpc[k] \in {"print", "calloc", "create", "append", "join_read", "join"}
          PROVE  lconn[k] \in Conn /\ cowner[lconn[k]] = k
      BY <2>1 DEF HandlesItsOwn
    <2>2. ASSUME NEW k \in Listener, lpc[k] \in {"print", "calloc", "create"}
          PROVE  cpc'[lconn[k]] = "accepted"
      BY <2>1, <2>2, <1>1, <1>8 DEF HandlesItsOwn
    <2>3. ASSUME NEW k \in Listener, lpc[k] = "append"
          PROVE  /\ lconn[k] \notin Listed(k)'
                 /\ cpc'[lconn[k]] \notin {"none", "accepted", "remove", "unlock"}
      <3>1. k # l
        BY <2>3, <1>2
      <3>2. lconn[k] # c /\ Listed(k)' = Listed(k)
        BY <3>1, <2>1, <2>3, <1>own, <1>7
      <3> QED
        BY <2>1, <2>3, <3>2, <1>8 DEF HandlesItsOwn
    <2>4. ASSUME NEW k \in Listener, lpc[k] \in {"join_read", "join"}
          PROVE  /\ cpc'[lconn[k]] \notin {"none", "accepted"}
                 /\ cpc'[lconn[k]] = "joined" => lconn[k] \in Listed(k)'
      <3>1. cpc'[lconn[k]] = "joined" => lconn[k] # c /\ lconn[k] \in Listed(k)
        BY <2>1, <2>4, <1>8 DEF HandlesItsOwn, Zombie
      <3> QED
        BY <2>1, <2>4, <3>1, <1>7, <1>8 DEF HandlesItsOwn
    <2> QED
      BY <1>1, <2>1, <2>2, <2>3, <2>4 DEF HandlesItsOwn, Zombie, Ended, Listed
  <1>14. RunningIsListed'
    BY <1>1, <1>2, <1>7, <1>8, <1>own DEF RunningIsListed, Pending, Running, TypeOK
  <1>15. StartedInOrder' /\ CrashesHaveACause'
    BY <1>1 DEF StartedInOrder, CrashesHaveACause
  <1> QED
    BY <1>9, <1>10, <1>11, <1>12, <1>13, <1>14, <1>15

LEMMA SelfFreeKeepsInv == ASSUME Inv, crash = "no", NEW c \in Conn, SelfFree(c)
                          PROVE  Inv'
  <1> USE OwnersAssumption DEF CGo, Inv, mainVars, listenerVars, fbVars
  <1>1. PICK pc \in {"dead", "detach"} : cpc' = [cpc EXCEPT ![c] = pc]
    BY DEF SelfFree
  <1>2. /\ cpc[c] = "unlock" /\ cmem' = [cmem EXCEPT ![c] = "freed"]
        /\ list_lock' = [list_lock EXCEPT ![cowner[c]] = NoOne]
        /\ UNCHANGED <<mainVars, listenerVars, list, listmem, llock, cowner,
                       ccut, ccancel, fbVars, crash>>
    BY DEF SelfFree
  <1>3. /\ \A d \in Conn \ {c} : cpc'[d] = cpc[d] /\ cmem'[d] = cmem[d]
        /\ cpc'[c] = pc /\ cmem'[c] = "freed"
        /\ cowner[c] \in Listener /\ list_lock[cowner[c]] = c
        /\ \A l \in Listener \ {cowner[c]} : list_lock'[l] = list_lock[l]
        /\ \A l \in Listener : c \notin Listed(l)
    BY <1>1, <1>2 DEF TypeOK, RunningIsListed, EntriesLive, Listed
  <1>4. TypeOK'
    BY <1>1, <1>2 DEF TypeOK, Ended
  <1>5. EntriesLive'
    BY <1>2, <1>3 DEF EntriesLive, Listed, TypeOK
  <1>6. ListedOnce' /\ ListFollowsListener'
    BY <1>2 DEF ListedOnce, ListFollowsListener
  <1>7. HandlesItsOwn'
    BY <1>2, <1>3 DEF HandlesItsOwn, Listed, Zombie, Ended
  <1>8. RunningIsListed'
    BY <1>2, <1>3 DEF RunningIsListed, Listed, Pending, Running, TypeOK
  <1>9. StartedInOrder' /\ CrashesHaveACause'
    BY <1>2 DEF StartedInOrder, CrashesHaveACause
  <1> QED
    BY <1>4, <1>5, <1>6, <1>7, <1>8, <1>9

LEMMA ConnectionKeepsInv ==
  ASSUME Inv, crash = "no", NEW c \in Conn, ConnectionStep(c) \/ Read(c)
  PROVE  Inv'
  <1> USE DEF CGo, notConn, connData, listVars, fbVars, Running, TypeOK
  <1>1. CASE LockFb(c)
    BY <1>1, ConnectionMoves DEF LockFb, Inv
  <1>2. CASE GetFbOnNode(c)
    <2>1. PICK pc \in {"setup", "print_new"} : CGo(c, pc)
      BY <1>2 DEF GetFbOnNode
    <2> QED
      BY <1>2, <2>1, ConnectionMoves DEF GetFbOnNode, Inv
  <1>3. CASE CancelledHoldingFbLock(c)
    BY <1>3, ConnectionMoves DEF CancelledHoldingFbLock, Inv
  <1>4. CASE FbAlloc(c)
    <2>1. PICK pc \in {"print_done", "detach"} : CGo(c, pc)
      BY <1>4 DEF FbAlloc
    <2> QED
      BY <1>4, <2>1, ConnectionMoves DEF FbAlloc, Inv
  <1>5. CASE AppendFb(c)
    BY <1>5, ConnectionMoves DEF AppendFb, Inv
  <1>6. CASE Setup(c)
    <2>1. PICK pc \in {"check", "close"} : CGo(c, pc)
      BY <1>6 DEF Setup
    <2> QED
      BY <1>6, <2>1, ConnectionMoves DEF Setup, Inv
  <1>7. CASE ConnectionCheck(c)
    <2>1. PICK pc \in {"read", "close"} : CGo(c, pc)
      BY <1>7 DEF ConnectionCheck
    <2> QED
      BY <1>7, <2>1, ConnectionMoves DEF ConnectionCheck, Inv
  <1>8. CASE Read(c)
    <2>1. PICK pc \in {"parse", "close"} : CGo(c, pc)
      BY <1>8 DEF Read
    <2> QED
      BY <1>8, <2>1, ConnectionMoves DEF Read, Inv
  <1>9. CASE ReadCancelled(c)
    BY <1>9, ConnectionMoves DEF ReadCancelled, Inv
  <1>10. CASE Parse(c)
    <2>1. PICK pc \in {"check", "close"} : CGo(c, pc)
      BY <1>10 DEF Parse
    <2> QED
      BY <1>10, <2>1, ConnectionMoves DEF Parse, Inv
  <1>11. CASE CleanupSocket(c)
    <2>1. ccut' \in [Conn -> BOOLEAN]
      BY <1>11 DEF CleanupSocket, Inv
    <2> QED
      BY <1>11, <2>1, ConnectionMoves DEF CleanupSocket, Inv
  <1>12. CASE Detach(c)
    BY <1>12, ConnectionMoves DEF Detach, Inv
  <1>13. CASE UseFreed(c)
    <2>1. CrashesHaveACause'
      <3> USE <1>13 DEF UseFreed, BeforeSetup, Inv, mainVars, listenerVars, connVars
      <3>1. nodefb = "freed" \/ threads = "freed"
        OBVIOUS
      <3>2. \A l \in Listener : lpc[l] = "dead"
        BY <3>1 DEF StartedInOrder
      <3>3. cpc[c] # "unlock" => CleanupCut(cowner[c])
        <4>1. cowner[c] \in Listener /\ lpc[cowner[c]] = "dead"
          BY <3>2
        <4>2. cpc[c] # "unlock" => cpc[c] \in Running
          OBVIOUS
        <4>3. cpc[c] # "unlock" => c \in Listed(cowner[c])
          BY <4>1, <4>2 DEF RunningIsListed, Pending
        <4>4. cpc[c] # "unlock" => listmem[cowner[c]] = "live"
          BY <4>1, <4>3 DEF Listed, EntriesLive
        <4> QED
          BY <4>1, <4>4 DEF ListFollowsListener, CleanupCut
      <3>4. CleanupCut(cowner[c])' <=> CleanupCut(cowner[c])
        BY DEF CleanupCut
      <3> QED
        BY <3>3, <3>4 DEF CrashesHaveACause
    <2> QED
      BY <1>13, <2>1, CrashFrame DEF UseFreed
  <1> QED
    BY <1>1, <1>2, <1>3, <1>4, <1>5, <1>6, <1>7, <1>8, <1>9, <1>10, <1>11,
       <1>12, <1>13, SelfLockKeepsInv, SelfRemoveKeepsInv, SelfFreeKeepsInv
       DEF ConnectionStep

-----------------------------------------------------------------------------
(* A listener *)

(* A listener that runs was started, and is not joined yet. *)
LEMMA OrderFrame ==
  ASSUME Inv, NEW l \in Listener, NEW pc, lpc[l] \notin {"none", "dead"}, LGo(l, pc),
         UNCHANGED <<mainVars, lcancel, nodefb>>
  PROVE  StartedInOrder'
  BY DEF Inv, TypeOK, StartedInOrder, LGo, mainVars

LEMMA CrashStaysNo == ASSUME crash' = "no" PROVE CrashesHaveACause'
  BY DEF CrashesHaveACause

(* A listener that has nothing in hand moves on. *)
LEMMA ListenerMoves ==
  ASSUME Inv, crash = "no", NEW l \in Listener, NEW pc, LGo(l, pc),
         lpc[l] \in {"publish", "check", "accept", "join_read", "join"},
         pc \in {"check", "accept", "clean", "join", "dead"},
         pc = "join" => lpc[l] = "join_read",
         pc = "clean" => lpc[l] = "join_read" \/ lcancel[l] \/ lpopped'[l],
         pc = "dead" => lpopped[l] /\ lcancel[l],
         lpopped' \in {lpopped, [lpopped EXCEPT ![l] = TRUE]},
         initialized' \in {initialized, [initialized EXCEPT ![l] = TRUE]},
         UNCHANGED <<lconn, lcancel, notListener>>
  PROVE  Inv'
  <1> USE DEF Inv, LGo, notListener, mainVars, listVars, connVars, fbVars
  <1>1. /\ \A k \in Listener \ {l} : /\ lpc'[k] = lpc[k] /\ lpopped'[k] = lpopped[k]
                                     /\ initialized'[k] = initialized[k]
        /\ lpc'[l] = pc /\ lpopped[l] => lpopped'[l]
        /\ lpopped' \in [Listener -> BOOLEAN] /\ initialized' \in [Listener -> BOOLEAN]
    BY DEF TypeOK
  <1>2. TypeOK'
    <2>1. lpc' \in [Listener -> ListenerPc]
      BY DEF TypeOK, ListenerPc
    <2> QED
      BY <1>1, <2>1 DEF TypeOK
  <1>3. EntriesLive' /\ ListedOnce'
    BY DEF EntriesLive, ListedOnce
  <1>4. ListFollowsListener'
    BY <1>1 DEF ListFollowsListener, TypeOK
  <1>5. HandlesItsOwn'
    BY <1>1 DEF HandlesItsOwn, Listed, Zombie
  <1>6. RunningIsListed'
    BY <1>1 DEF RunningIsListed, Listed, Pending, TypeOK
  <1>7. StartedInOrder'
    BY OrderFrame
  <1> QED
    BY <1>2, <1>3, <1>4, <1>5, <1>6, <1>7, CrashStaysNo

LEMMA ListenInitKeepsInv == ASSUME Inv, crash = "no", NEW l \in Listener, ListenInit(l)
                            PROVE  Inv'
  <1> USE DEF Inv, LGo, ListenInit, mainVars, connVars, fbVars
  <1>1. PICK pc \in {"publish", "dead"}, m \in {"live", "none"} :
          /\ LGo(l, pc) /\ listmem' = [listmem EXCEPT ![l] = m]
          /\ pc = "publish" <=> m = "live"
    <2>1. lpc[l] = "start" /\ listmem[l] = "none"
      BY DEF ListFollowsListener
    <2>2. listmem = [listmem EXCEPT ![l] = "none"]
      BY <2>1 DEF TypeOK
    <2> QED
      BY <2>1, <2>2
  <1>2. /\ lpc[l] = "start" /\ listmem[l] = "none" /\ ~initialized[l]
        /\ \A k \in Listener \ {l} : lpc'[k] = lpc[k] /\ listmem'[k] = listmem[k]
        /\ lpc'[l] = pc /\ listmem'[l] = m
    BY <1>1 DEF TypeOK, ListFollowsListener
  <1>3. UNCHANGED <<mainVars, lconn, lcancel, lpopped, initialized, list, llock,
                    list_lock, connVars, fbVars, crash>>
    BY DEF ListenInit
  <1>4. TypeOK'
    BY <1>1, <1>3 DEF TypeOK
  <1>5. EntriesLive' /\ ListedOnce'
    BY <1>2, <1>3 DEF EntriesLive, ListedOnce
  <1>6. ListFollowsListener'
    BY <1>1, <1>2, <1>3 DEF ListFollowsListener
  <1>7. HandlesItsOwn'
    BY <1>2, <1>3 DEF HandlesItsOwn, Listed, Zombie
  <1>8. RunningIsListed'
    BY <1>2, <1>3 DEF RunningIsListed, Listed, Pending, TypeOK
  <1>9. StartedInOrder'
    BY <1>1, <1>2, <1>3, OrderFrame
  <1> QED
    BY <1>3, <1>4, <1>5, <1>6, <1>7, <1>8, <1>9, CrashStaysNo

LEMMA AcceptKeepsInv ==
  ASSUME Inv, crash = "no", NEW l \in Listener, NEW c \in Conn, Accept(l, c)
  PROVE  Inv'
  <1> USE DEF Inv, LGo, CGo, Accept, mainVars, listVars, fbVars
  <1>1. /\ \A k \in Listener \ {l} : lpc'[k] = lpc[k] /\ lconn'[k] = lconn[k]
        /\ \A d \in Conn \ {c} : cpc'[d] = cpc[d] /\ cowner'[d] = cowner[d]
        /\ lpc[l] = "accept" /\ lpc'[l] = "print" /\ lconn'[l] = c
        /\ cpc[c] = "none" /\ cpc'[c] = "accepted" /\ cowner'[c] = l
        /\ cmem[c] = "none"
    BY DEF TypeOK, RunningIsListed
  <1>2. TypeOK'
    BY DEF TypeOK
  <1>3. EntriesLive' /\ ListedOnce'
    BY <1>1 DEF EntriesLive, ListedOnce, TypeOK
  <1>4. ListFollowsListener'
    BY <1>1 DEF ListFollowsListener
  <1>5. HandlesItsOwn'
    BY <1>1 DEF HandlesItsOwn, Listed, Zombie
  <1>6. RunningIsListed'
    BY <1>1 DEF RunningIsListed, Listed, Pending, Running, TypeOK
  <1>7. StartedInOrder'
    BY <1>1, OrderFrame
  <1> QED
    BY <1>2, <1>3, <1>4, <1>5, <1>6, <1>7, CrashStaysNo

(* The listener l goes on without its connection lconn[l], which is left   *)
(* with what it has: a socket that is closed, or lost.                     *)
LEMMA DropKeepsInv ==
  ASSUME Inv, crash = "no", NEW l \in Listener, NEW pc, NEW cp, NEW lk,
         lpc[l] \in {"print", "calloc", "create"}, LGo(l, pc),
         CGo(lconn[l], cp),
         pc = "check" \/ (pc = "clean" /\ lcancel[l]),
         cp = "dead" \/ (cp = "none" /\ cmem'[lconn[l]] = "none"),
         cmem' \in {cmem, [cmem EXCEPT ![lconn[l]] = "none"]},
         list_lock' \in {list_lock, [list_lock EXCEPT ![l] = TheListener]},
         list_lock' # list_lock => list_lock[l] = NoOne,
         UNCHANGED <<mainVars, lconn, lcancel, lpopped, initialized, list,
                     listmem, llock, cowner, ccut, ccancel, fbVars, crash>>
  PROVE  Inv'
  <1> USE OwnersAssumption DEF Inv, LGo, CGo, mainVars, listVars, fbVars
  <1>1. PICK c \in Conn : c = lconn[l]
    BY DEF HandlesItsOwn
  <1>2. /\ \A k \in Listener \ {l} : lpc'[k] = lpc[k] /\ list_lock'[k] = list_lock[k]
        /\ \A d \in Conn \ {c} : cpc'[d] = cpc[d] /\ cmem'[d] = cmem[d]
        /\ lpc'[l] = pc /\ cpc[c] = "accepted" /\ cpc'[c] = cp /\ cowner[c] = l
        /\ cmem' \in [Conn -> {"none", "live", "freed"}]
        /\ list_lock' \in [Listener -> Conn \cup {NoOne, TheListener}]
        /\ list_lock'[l] # list_lock[l] => list_lock[l] = NoOne
        /\ \A k \in Listener : c \notin Listed(k)
    <2>1. /\ cpc[c] = "accepted" /\ cowner[c] = l
          /\ \A k \in Listener : c \notin Listed(k)
      BY <1>1 DEF HandlesItsOwn, EntriesLive, Listed
    <2>2. \A k \in Listener \ {l} : lpc'[k] = lpc[k] /\ list_lock'[k] = list_lock[k]
      BY DEF TypeOK
    <2>3. \A d \in Conn \ {c} : cpc'[d] = cpc[d] /\ cmem'[d] = cmem[d]
      BY <1>1 DEF TypeOK
    <2>4. cmem' \in [Conn -> {"none", "live", "freed"}]
      <3>1. [cmem EXCEPT ![lconn[l]] = "none"] \in [Conn -> {"none", "live", "freed"}]
        BY DEF TypeOK
      <3> QED
        BY <3>1 DEF TypeOK
    <2>5. list_lock' \in [Listener -> Conn \cup {NoOne, TheListener}]
      <3>1. [list_lock EXCEPT ![l] = TheListener] \in [Listener -> Conn \cup {NoOne, TheListener}]
        BY DEF TypeOK
      <3> QED
        BY <3>1 DEF TypeOK
    <2> QED
      BY <1>1, <2>1, <2>2, <2>3, <2>4, <2>5 DEF TypeOK
  <1>3. TypeOK'
    <2>1. lpc' \in [Listener -> ListenerPc]
      BY DEF TypeOK, ListenerPc
    <2>2. cpc' \in [Conn -> ConnectionPc]
      BY DEF TypeOK, Ended, ConnectionPc
    <2> QED
      BY <1>2, <2>1, <2>2 DEF TypeOK, ListenerPc, ConnectionPc
  <1>4. EntriesLive' /\ ListedOnce'
    BY <1>2 DEF EntriesLive, ListedOnce, Listed, TypeOK
  <1>5. ListFollowsListener'
    BY <1>2 DEF ListFollowsListener
  <1>6. HandlesItsOwn'
    BY <1>1, <1>2 DEF HandlesItsOwn, Listed, Zombie
  <1>7. RunningIsListed'
    BY <1>1, <1>2 DEF RunningIsListed, Listed, Pending, Running, TypeOK
  <1>8. StartedInOrder'
    BY OrderFrame
  <1> QED
    BY <1>3, <1>4, <1>5, <1>6, <1>7, <1>8, CrashStaysNo

(* The listener goes on with its connection: allocates it, creates its     *)
(* thread.                                                                 *)
LEMMA TakeUpKeepsInv ==
  ASSUME Inv, crash = "no", NEW l \in Listener, NEW pc, NEW cp, LGo(l, pc),
         CGo(lconn[l], cp),
         \/ /\ lpc[l] = "print" /\ pc = "calloc" /\ cp = "accepted"
            /\ UNCHANGED cmem /\ UNCHANGED list_lock
         \/ /\ lpc[l] = "calloc" /\ pc = "create" /\ cp = "accepted"
            /\ cmem' = [cmem EXCEPT ![lconn[l]] = "live"] /\ UNCHANGED list_lock
         \/ /\ lpc[l] = "create" /\ pc = "append" /\ cp = "lock_fb"
            /\ list_lock[l] = NoOne /\ UNCHANGED cmem
            /\ list_lock' = [list_lock EXCEPT ![l] = TheListener],
         UNCHANGED <<mainVars, lconn, lcancel, lpopped, initialized, list,
                     listmem, llock, cowner, ccut, ccancel, fbVars, crash>>
  PROVE  Inv'
  <1> USE OwnersAssumption DEF Inv, LGo, CGo, mainVars, listVars, fbVars
  <1>1. PICK c \in Conn : c = lconn[l]
    BY DEF HandlesItsOwn
  <1>2. /\ \A k \in Listener \ {l} : lpc'[k] = lpc[k] /\ list_lock'[k] = list_lock[k]
        /\ \A d \in Conn \ {c} : cpc'[d] = cpc[d] /\ cmem'[d] = cmem[d]
        /\ lpc'[l] = pc /\ cpc[c] = "accepted" /\ cpc'[c] = cp /\ cowner[c] = l
        /\ cmem'[c] = IF pc = "calloc" THEN "none" ELSE "live"
        /\ pc = "append" => list_lock[l] = NoOne /\ list_lock'[l] = TheListener
        /\ pc # "append" => UNCHANGED list_lock
        /\ cmem' \in [Conn -> {"none", "live", "freed"}]
        /\ list_lock' \in [Listener -> Conn \cup {NoOne, TheListener}]
        /\ \A k \in Listener : c \notin Listed(k)
        /\ \/ pc \in {"calloc", "create"} /\ cp = "accepted"
           \/ pc = "append" /\ cp = "lock_fb"
        /\ lpc[l] \in {"print", "calloc", "create"}
    <2>1. /\ cpc[c] = "accepted" /\ cowner[c] = l
          /\ cmem[c] = IF lpc[l] = "create" THEN "live" ELSE "none"
          /\ \A k \in Listener : c \notin Listed(k)
      BY <1>1 DEF HandlesItsOwn, EntriesLive, Listed
    <2>2. \A k \in Listener \ {l} : lpc'[k] = lpc[k] /\ list_lock'[k] = list_lock[k]
      BY DEF TypeOK
    <2>3. \A d \in Conn \ {c} : cpc'[d] = cpc[d] /\ cmem'[d] = cmem[d]
      BY <1>1 DEF TypeOK
    <2>4. /\ cmem' \in [Conn -> {"none", "live", "freed"}]
          /\ list_lock' \in [Listener -> Conn \cup {NoOne, TheListener}]
      BY DEF TypeOK
    <2>7. /\ pc = "append" => list_lock[l] = NoOne
          /\ pc # "append" => UNCHANGED list_lock
          /\ \/ pc \in {"calloc", "create"} /\ cp = "accepted"
             \/ pc = "append" /\ cp = "lock_fb"
          /\ lpc[l] \in {"print", "calloc", "create"}
      <3>1. CASE lpc[l] = "print"
        BY <3>1
      <3>2. CASE lpc[l] = "calloc"
        BY <3>2
      <3>3. CASE lpc[l] = "create"
        BY <3>3
      <3> QED
        BY <3>1, <3>2, <3>3
    <2>5. cmem'[c] = IF pc = "calloc" THEN "none" ELSE "live"
      BY <1>1, <2>1 DEF TypeOK
    <2>6. lpc'[l] = pc /\ cpc'[c] = cp /\ (pc = "append" => list_lock'[l] = TheListener)
      BY <1>1 DEF TypeOK
    <2> QED
      BY <2>1, <2>2, <2>3, <2>4, <2>5, <2>6, <2>7
  <1>3. TypeOK'
    <2>1. lpc' \in [Listener -> ListenerPc]
      BY <1>2 DEF TypeOK, ListenerPc
    <2>2. cpc' \in [Conn -> ConnectionPc]
      BY <1>2 DEF TypeOK, Ended, ConnectionPc
    <2> QED
      BY <1>2, <2>1, <2>2 DEF TypeOK
  <1>4. EntriesLive' /\ ListedOnce'
    BY <1>2 DEF EntriesLive, ListedOnce, Listed, TypeOK
  <1>5. ListFollowsListener'
    BY <1>2 DEF ListFollowsListener
  <1>6. HandlesItsOwn'
    BY <1>1, <1>2 DEF HandlesItsOwn, Listed, Zombie
  <1>7. RunningIsListed'
    <2>1. ASSUME NEW d \in Conn \ {c}, Pending(d) PROVE Pending(d)'
      BY <1>2, <2>1 DEF Pending, TypeOK
    <2>2. \A d \in Conn : (d \in Listed(cowner[d]))' <=> d \in Listed(cowner[d])
      BY DEF Listed
    <2>3. cpc'[c] \in Running => Pending(c)'
      BY <1>1, <1>2 DEF Pending, Running
    <2>4. \A d \in Conn : cpc'[d] \in {"remove", "unlock"} =>
            d # c /\ list_lock'[cowner[d]] = list_lock[cowner[d]]
      <3>1. ASSUME NEW d \in Conn, cpc'[d] \in {"remove", "unlock"}
            PROVE  d # c /\ list_lock'[cowner[d]] = list_lock[cowner[d]]
        <4>1. d # c /\ cpc[d] \in {"remove", "unlock"}
          BY <3>1, <1>2
        <4>2. list_lock[cowner[d]] # NoOne /\ cowner[d] \in Listener
          BY <4>1 DEF RunningIsListed, TypeOK
        <4> QED
          BY <4>1, <4>2, <1>2
      <3> QED
        BY <3>1
    <2> QED
      BY <1>2, <2>1, <2>2, <2>3, <2>4 DEF RunningIsListed
  <1>8. StartedInOrder'
    BY <1>2, OrderFrame
  <1> QED
    BY <1>3, <1>4, <1>5, <1>6, <1>7, <1>8, CrashStaysNo

LEMMA AppendKeepsInv ==
  ASSUME Inv, crash = "no", NEW l \in Listener, AppendConnection(l)
  PROVE  Inv'
  <1> USE OwnersAssumption DEF Inv, LGo, AppendConnection, mainVars, connVars, fbVars
  <1>1. PICK c \in Conn : c = lconn[l]
    BY DEF HandlesItsOwn
  <1>2. /\ lpc[l] = "append" /\ cowner[c] = l /\ cmem[c] = "live"
        /\ cpc[c] \notin {"none", "accepted", "remove", "unlock"}
        /\ c \notin Listed(l) /\ list_lock[l] = TheListener /\ listmem[l] = "live"
        /\ list \in [Listener -> Seq(Conn)] /\ list[l] \in Seq(Conn)
    <2>1. list \in [Listener -> Seq(Conn)] /\ list[l] \in Seq(Conn)
      BY DEF TypeOK
    <2> QED
      BY <1>1, <2>1 DEF HandlesItsOwn, ListFollowsListener
  <1>3. /\ list' \in [Listener -> Seq(Conn)] /\ list'[l] = Append(list[l], c)
        /\ \A k \in Listener \ {l} : list'[k] = list[k]
    BY <1>1, <1>2
  <1>4. /\ DOMAIN list[l] = 1 .. Len(list[l]) /\ Len(list[l]) \in Nat
        /\ DOMAIN list'[l] = 1 .. Len(list[l]) + 1
        /\ \A j \in DOMAIN list[l] : list'[l][j] = list[l][j]
        /\ list'[l][Len(list[l]) + 1] = c
    BY <1>2, <1>3, AppendProperties
  <1>5. /\ Listed(l)' = Listed(l) \cup {c}
        /\ \A k \in Listener \ {l} : Listed(k)' = Listed(k)
    <2>1. Listed(l)' = Listed(l) \cup {c}
      BY <1>4 DEF Listed
    <2>2. ASSUME NEW k \in Listener \ {l} PROVE Listed(k)' = Listed(k)
      <3>1. list'[k] = list[k]
        BY <1>3
      <3> QED
        BY <3>1 DEF Listed
    <2> QED
      BY <2>1, <2>2
  <1>6. /\ \A k \in Listener \ {l} : lpc'[k] = lpc[k] /\ list_lock'[k] = list_lock[k]
        /\ lpc'[l] = "check" /\ list_lock'[l] = NoOne
    BY DEF TypeOK
  <1>7. TypeOK'
    BY <1>3 DEF TypeOK
  <1>8. EntriesLive'
    <2>1. ASSUME NEW k \in Listener, NEW j \in DOMAIN list'[k]
          PROVE  /\ cmem[list'[k][j]] = "live" /\ cowner[list'[k][j]] = k
                 /\ cpc[list'[k][j]] \notin {"none", "accepted", "unlock"}
                 /\ listmem[k] = "live"
      BY <1>2, <1>3, <1>4 DEF EntriesLive
    <2> QED
      BY <2>1 DEF EntriesLive
  <1>9. ListedOnce'
    <2>1. \A j \in DOMAIN list[l] : list[l][j] # c
      BY <1>2 DEF Listed
    <2> QED
      BY <1>3, <1>4, <2>1 DEF ListedOnce
  <1>10. ListFollowsListener'
    BY <1>2, <1>6 DEF ListFollowsListener
  <1>11. HandlesItsOwn'
    BY <1>2, <1>5, <1>6 DEF HandlesItsOwn, Zombie
  <1>12. RunningIsListed'
    BY <1>1, <1>2, <1>5, <1>6 DEF RunningIsListed, Pending, TypeOK
  <1>13. StartedInOrder'
    BY <1>2, OrderFrame
  <1> QED
    BY <1>7, <1>8, <1>9, <1>10, <1>11, <1>12, <1>13, CrashStaysNo

LEMMA CleanCancelKeepsInv ==
  ASSUME Inv, crash = "no", NEW l \in Listener, CleanCancel(l)
  PROVE  Inv'
  <1> USE DEF Inv, LGo, CleanCancel, StaleId, mainVars, listVars, fbVars
  <1>1. PICK c \in Conn : /\ c = Head(list[l]) /\ c = list[l][1]
                          /\ 1 \in DOMAIN list[l]
    <2>1. list[l] \in Seq(Conn) /\ list[l] # << >>
      BY DEF TypeOK
    <2> QED
      BY <2>1
  <1>2. /\ c \in Listed(l) /\ cowner[c] = l /\ lpc[l] = "clean"
        /\ cpc[c] \notin {"none", "accepted"}
        /\ cpc[c] \in {"joined", "gone"} => Zombie(c)
    BY <1>1 DEF Listed, EntriesLive, Zombie, Ended
  <1>3. /\ \A k \in Listener \ {l} : lpc'[k] = lpc[k] /\ lconn'[k] = lconn[k]
        /\ lpc'[l] = "join_read" /\ lconn'[l] = c
    BY <1>1 DEF TypeOK
  <1>4. crash' = "no" \/ (crash' = "stale_cancel" /\ Zombie(c))
    BY <1>1, <1>2
  <1>5. TypeOK'
    BY <1>1, <1>4 DEF TypeOK
  <1>6. EntriesLive' /\ ListedOnce'
    BY DEF EntriesLive, ListedOnce
  <1>7. ListFollowsListener'
    BY <1>2, <1>3 DEF ListFollowsListener
  <1>8. HandlesItsOwn'
    <2>1. ASSUME NEW d \in Conn, Zombie(d) PROVE Zombie(d)'
      BY <2>1 DEF Zombie, Listed
    <2>2. \A k \in Listener : Listed(k)' = Listed(k)
      BY DEF Listed
    <2> QED
      BY <1>2, <1>3, <2>1, <2>2 DEF HandlesItsOwn
  <1>9. RunningIsListed'
    BY <1>2, <1>3 DEF RunningIsListed, Listed, Pending, TypeOK
  <1>10. StartedInOrder'
    BY <1>2, OrderFrame
  <1>11. CrashesHaveACause'
    BY <1>4 DEF CrashesHaveACause, Zombie, Listed
  <1> QED
    BY <1>5, <1>6, <1>7, <1>8, <1>9, <1>10, <1>11

LEMMA CleanJoinKeepsInv ==
  ASSUME Inv, crash = "no", NEW l \in Listener, CleanJoin(l)
  PROVE  Inv'
  <1> USE DEF Inv, LGo, CGo, CleanJoin, StaleId, connData, mainVars, listVars, fbVars
  <1>1. PICK c \in Conn, cp \in Ended : c = lconn[l] /\ CGo(c, cp)
    BY DEF HandlesItsOwn, Ended
  <1>2. /\ cowner[c] = l /\ lpc[l] = "join" /\ cpc[c] \in Ended
        /\ cpc[c] = "joined" => Zombie(c)
        /\ cpc[c] = "gone" => Zombie(c) \/ cmem[c] = "freed"
        /\ cp = IF cpc[c] = "dead" THEN "joined" ELSE cpc[c]
    BY <1>1 DEF HandlesItsOwn, RunningIsListed, Pending, Zombie, TypeOK
  <1>3. /\ \A k \in Listener \ {l} : lpc'[k] = lpc[k]
        /\ \A d \in Conn \ {c} : cpc'[d] = cpc[d]
        /\ lpc'[l] = "clean" /\ cpc'[c] = cp
    BY <1>1 DEF TypeOK
  <1>4. crash' = "no" \/ (crash' = "stale_join" /\ cpc[c] \in {"joined", "gone"})
    BY <1>1
  <1>5. TypeOK'
    BY <1>1, <1>4 DEF TypeOK
  <1>6. EntriesLive' /\ ListedOnce'
    BY <1>2, <1>3 DEF EntriesLive, ListedOnce, TypeOK, Ended
  <1>7. ListFollowsListener'
    BY <1>2, <1>3 DEF ListFollowsListener
  <1>8. HandlesItsOwn'
    BY <1>2, <1>3 DEF HandlesItsOwn, Listed, Zombie, Ended
  <1>9. RunningIsListed'
    BY <1>2, <1>3 DEF RunningIsListed, Listed, Pending, Running, Ended, TypeOK
  <1>10. StartedInOrder'
    BY <1>2, OrderFrame
  <1>11. CrashesHaveACause'
    <2>1. crash' = "stale_join" => /\ lpc'[l] = "clean" /\ lconn'[l] = c
                                   /\ Zombie(c)' \/ (cmem'[c] = "freed" /\ cpc'[c] # "joined")
      BY <1>1, <1>2, <1>3, <1>4 DEF Zombie, Listed
    <2> QED
      BY <2>1, <1>4 DEF CrashesHaveACause
  <1> QED
    BY <1>5, <1>6, <1>7, <1>8, <1>9, <1>10, <1>11

LEMMA CleanDoneKeepsInv ==
  ASSUME Inv, crash = "no", NEW l \in Listener, CleanDone(l)
  PROVE  Inv'
  <1> USE DEF Inv, LGo, CleanDone, mainVars, connVars, fbVars
  <1>1. /\ \A k \in Listener \ {l} : lpc'[k] = lpc[k] /\ listmem'[k] = listmem[k]
        /\ lpc[l] = "clean" /\ lpc'[l] = "dead" /\ listmem'[l] = "freed"
        /\ list[l] = << >>
    BY DEF TypeOK
  <1>2. TypeOK'
    BY DEF TypeOK
  <1>3. EntriesLive' /\ ListedOnce'
    BY <1>1 DEF EntriesLive, ListedOnce
  <1>4. ListFollowsListener'
    BY <1>1 DEF ListFollowsListener
  <1>5. HandlesItsOwn'
    BY <1>1 DEF HandlesItsOwn, Listed, Zombie
  <1>6. RunningIsListed'
    BY <1>1 DEF RunningIsListed, Listed, Pending, TypeOK
  <1>7. StartedInOrder'
    BY <1>1, OrderFrame
  <1> QED
    BY <1>2, <1>3, <1>4, <1>5, <1>6, <1>7, CrashStaysNo

LEMMA ListenerKeepsInv ==
  ASSUME Inv, crash = "no", NEW l \in Listener,
         ListenerStep(l) \/ AcceptFails(l) \/ \E c \in Conn : Accept(l, c)
  PROVE  Inv'
  <1> USE DEF LGo, CGo, notListener, connData, connVars
  <1>1. CASE ListenPublish(l)
    BY <1>1, ListenerMoves DEF ListenPublish
  <1>2. CASE ListenCheck(l)
    <2>1. CASE state # "shutdown"
      BY <1>2, <2>1, ListenerMoves DEF ListenCheck
    <2>2. CASE state = "shutdown"
      <3>1. lpopped'[l]
        BY <1>2, <2>2 DEF ListenCheck, Inv, TypeOK
      <3> QED
        BY <1>2, <2>2, <3>1, ListenerMoves DEF ListenCheck
    <2> QED
      BY <2>1, <2>2
  <1>3. CASE AcceptFails(l)
    BY <1>3, ListenerMoves DEF AcceptFails, Inv, TypeOK
  <1>4. CASE AcceptCancelled(l)
    BY <1>4, ListenerMoves DEF AcceptCancelled
  <1>5. CASE ListenPrint(l)
    <2>1. CASE LGo(l, "calloc") /\ UNCHANGED cpc
      <3>1. CGo(lconn[l], "accepted")
        BY <1>5, <2>1 DEF ListenPrint, Inv, HandlesItsOwn, TypeOK
      <3> QED
        BY <1>5, <2>1, <3>1, TakeUpKeepsInv DEF ListenPrint, listVars
    <2>2. CASE lcancel[l] /\ LGo(l, "clean") /\ CGo(lconn[l], "dead")
      BY <1>5, <2>2, DropKeepsInv DEF ListenPrint, listVars
    <2> QED
      BY <1>5, <2>1, <2>2 DEF ListenPrint
  <1>6. CASE CallocConnection(l)
    <2>1. CASE LGo(l, "create") /\ UNCHANGED cpc /\ cmem' = [cmem EXCEPT ![lconn[l]] = "live"]
      <3>1. CGo(lconn[l], "accepted")
        BY <1>6, <2>1 DEF CallocConnection, Inv, HandlesItsOwn, TypeOK
      <3> QED
        BY <1>6, <2>1, <3>1, TakeUpKeepsInv DEF CallocConnection, listVars
    <2>2. CASE DropConnection(l) /\ UNCHANGED cmem
      <3>1. PICK pc \in {"check", "clean"} : LGo(l, pc) /\ (pc = "clean" => lcancel[l])
        BY <2>2 DEF DropConnection
      <3>2. cmem'[lconn[l]] = "none" /\ CGo(lconn[l], "none")
        BY <1>6, <2>2 DEF CallocConnection, DropConnection, Inv, HandlesItsOwn
      <3> QED
        BY <1>6, <2>2, <3>1, <3>2, DropKeepsInv DEF CallocConnection, listVars
    <2> QED
      BY <1>6, <2>1, <2>2 DEF CallocConnection
  <1>7. CASE CreateConnection(l)
    <2>1. CASE /\ CGo(lconn[l], "lock_fb") /\ LGo(l, "append") /\ UNCHANGED cmem
               /\ list_lock' = [list_lock EXCEPT ![l] = TheListener]
      BY <1>7, <2>1, TakeUpKeepsInv DEF CreateConnection
    <2>2. CASE /\ DropConnection(l) /\ UNCHANGED list_lock
               /\ cmem' = [cmem EXCEPT ![lconn[l]] = "none"]
      <3>1. PICK pc \in {"check", "clean"} : LGo(l, pc) /\ (pc = "clean" => lcancel[l])
        BY <2>2 DEF DropConnection
      <3>2. cmem'[lconn[l]] = "none" /\ CGo(lconn[l], "none")
        BY <1>7, <2>2 DEF CreateConnection, DropConnection, Inv, HandlesItsOwn, TypeOK
      <3> QED
        BY <1>7, <2>2, <3>1, <3>2, DropKeepsInv DEF CreateConnection
    <2>3. CASE /\ lcancel[l] /\ CGo(lconn[l], "dead") /\ LGo(l, "clean") /\ UNCHANGED cmem
               /\ list_lock' = [list_lock EXCEPT ![l] = TheListener]
      BY <1>7, <2>3, DropKeepsInv DEF CreateConnection
    <2> QED
      BY <1>7, <2>1, <2>2, <2>3 DEF CreateConnection
  <1>8. CASE CleanReadThread(l)
    <2>1. CASE lpc' # lpc /\ UNCHANGED crash
      <3>1. PICK pc \in {"join", "clean"} : LGo(l, pc)
        BY <1>8, <2>1 DEF CleanReadThread
      <3> QED
        BY <1>8, <2>1, <3>1, ListenerMoves DEF CleanReadThread
    <2>2. CASE cmem[lconn[l]] = "freed" /\ crash' = "stale_join" /\ UNCHANGED lpc
      <3>1. lconn[l] \in Conn /\ lpc[l] = "join_read" /\ cpc[lconn[l]] # "joined"
        BY <1>8, <2>2 DEF CleanReadThread, Inv, HandlesItsOwn, Zombie, EntriesLive, Listed
      <3>2. CrashesHaveACause'
        BY <1>8, <2>2, <3>1 DEF CleanReadThread, CrashesHaveACause
      <3> QED
        BY <1>8, <2>2, <3>2, CrashFrame DEF CleanReadThread, listenerVars
    <2> QED
      BY <1>8, <2>1, <2>2 DEF CleanReadThread, Inv, TypeOK
  <1>9. CASE CleanCancelled(l)
    BY <1>9, ListenerMoves DEF CleanCancelled
  <1> QED
    BY <1>1, <1>2, <1>3, <1>4, <1>5, <1>6, <1>7, <1>8, <1>9, ListenInitKeepsInv,
       AcceptKeepsInv, AppendKeepsInv, CleanCancelKeepsInv, CleanJoinKeepsInv,
       CleanDoneKeepsInv
       DEF ListenerStep

-----------------------------------------------------------------------------
(* Main *)

(* What main does by itself concerns neither lists nor connections. *)
LEMMA MainFrame ==
  ASSUME Inv, UNCHANGED <<lpc, lconn, lpopped, initialized, list, listmem,
                          list_lock, cpc, cowner, cmem>>,
         \A l \in Listener : lcancel[l] => lcancel'[l]
  PROVE  /\ EntriesLive' /\ ListedOnce' /\ ListFollowsListener'
         /\ HandlesItsOwn' /\ RunningIsListed'
  BY DEF Inv, EntriesLive, ListedOnce, ListFollowsListener, HandlesItsOwn,
         RunningIsListed, Listed, Zombie, Pending

LEMMA StartKeepsInv == Inv /\ crash = "no" /\ StartListener => Inv'
  <1> SUFFICES ASSUME Inv, crash = "no", StartListener PROVE Inv'
    OBVIOUS
  <1> USE ListenersAssumption DEF StartListener, LGo, MGo, Inv, listVars, connVars, fbVars
  <1>1. mi \in Listener /\ lpc[mi] = "none" /\ lpc' = [lpc EXCEPT ![mi] = "start"]
    BY DEF TypeOK, StartedInOrder, Listener
  <1>2. TypeOK'
    BY DEF TypeOK, Listener
  <1>3. EntriesLive' /\ ListedOnce'
    BY DEF EntriesLive, ListedOnce
  <1>4. ListFollowsListener'
    BY <1>1 DEF ListFollowsListener, TypeOK
  <1>5. HandlesItsOwn'
    BY <1>1 DEF HandlesItsOwn, TypeOK, Listed, Zombie
  <1>6. RunningIsListed'
    BY <1>1 DEF RunningIsListed, TypeOK, Listed, Pending
  <1>7. StartedInOrder'
    BY <1>1 DEF StartedInOrder, TypeOK, Listener
  <1> QED
    BY <1>2, <1>3, <1>4, <1>5, <1>6, <1>7, CrashStaysNo

LEMMA MainKeepsInv == Inv /\ crash = "no" /\ Main => Inv'
  <1> SUFFICES ASSUME Inv, crash = "no", Main PROVE Inv'
    OBVIOUS
  <1> USE ListenersAssumption DEF LGo, MGo, notMain, mainVars, listenerVars,
                                  listVars, connVars, fbVars
  <1>0. TypeOK'
    BY MainType
  <1>1. CASE EnterStatistics
    <2>1. StartedInOrder'
      BY <1>1 DEF EnterStatistics, Inv, TypeOK, StartedInOrder
    <2> QED
      BY <1>0, <1>1, <2>1, MainFrame, CrashStaysNo DEF EnterStatistics, Inv
  <1>2. CASE StatsReadList
    <2>1. StartedInOrder'
      BY <1>2 DEF StatsReadList, Inv, TypeOK, StartedInOrder
    <2> QED
      BY <1>0, <1>2, <2>1, MainFrame, CrashStaysNo DEF StatsReadList, Inv
  <1>3. CASE StatsSkip
    <2>1. StartedInOrder'
      BY <1>3 DEF StatsSkip, NextOfStats, Inv, TypeOK, StartedInOrder
    <2> QED
      BY <1>0, <1>3, <2>1, MainFrame, CrashStaysNo DEF StatsSkip, Inv
  <1>4. CASE StatsWalk
    <2>1. StartedInOrder'
      BY <1>4 DEF StatsWalk, NextOfStats, Inv, TypeOK, StartedInOrder
    <2> QED
      BY <1>0, <1>4, <2>1, MainFrame, CrashStaysNo DEF StatsWalk, Inv
  <1>5. CASE StatsBadList
    <2>1. mi \in Listener /\ state = "listen" /\ ~lcancel[mi]
      BY <1>5 DEF StatsBadList, Inv, TypeOK, StartedInOrder
    <2>2. /\ listmem[mi] # "none"
          /\ listmem[mi] = "freed" => lpopped[mi] /\ lpc[mi] = "dead"
      BY <1>5, <2>1 DEF StatsBadList, Inv, TypeOK, ListFollowsListener
    <2>3. CrashesHaveACause'
      BY <1>5, <2>1, <2>2 DEF StatsBadList, CrashesHaveACause
    <2> QED
      BY <1>5, <2>3, CrashFrame DEF StatsBadList
  <1>6. CASE StatsLock
    <2>1. StartedInOrder'
      BY <1>6 DEF StatsLock, Inv, TypeOK, StartedInOrder
    <2> QED
      BY <1>0, <1>6, <2>1, MainFrame, CrashStaysNo DEF StatsLock, Inv
  <1>7. CASE NetShutdown
    <2>1. StartedInOrder'
      BY <1>7 DEF NetShutdown, Inv, TypeOK, StartedInOrder, Listener
    <2> QED
      BY <1>0, <1>7, <2>1, MainFrame, CrashStaysNo DEF NetShutdown, Inv
  <1>8. CASE CancelListener
    <2>1. StartedInOrder'
      BY <1>8 DEF CancelListener, Inv, TypeOK, StartedInOrder
    <2>2. \A l \in Listener : lcancel[l] => lcancel'[l]
      BY <1>8 DEF CancelListener, Inv, TypeOK
    <2> QED
      BY <1>0, <1>8, <2>1, <2>2, MainFrame, CrashStaysNo DEF CancelListener, Inv
  <1>9. CASE JoinListener
    <2>1. StartedInOrder'
      BY <1>9 DEF JoinListener, Inv, TypeOK, StartedInOrder, Listener
    <2> QED
      BY <1>0, <1>9, <2>1, MainFrame, CrashStaysNo DEF JoinListener, Inv
  <1>10. CASE NetClose
    <2>1. StartedInOrder'
      BY <1>10 DEF NetClose, Inv, TypeOK, StartedInOrder
    <2> QED
      BY <1>0, <1>10, <2>1, MainFrame, CrashStaysNo DEF NetClose, Inv
  <1>11. CASE FbFreeAll
    <2>1. state = "exit"
      BY <1>11 DEF FbFreeAll, Inv, StartedInOrder
    <2>2. StartedInOrder'
      BY <1>11, <2>1 DEF FbFreeAll, Inv, TypeOK, StartedInOrder
    <2> QED
      BY <1>0, <1>11, <2>2, MainFrame, CrashStaysNo DEF FbFreeAll, Inv
  <1>12. CASE NetFree
    <2>1. StartedInOrder'
      BY <1>12 DEF NetFree, Inv, TypeOK, StartedInOrder
    <2> QED
      BY <1>0, <1>12, <2>1, MainFrame, CrashStaysNo DEF NetFree, Inv
  <1>13. CASE ProcessExit
    <2>1. StartedInOrder'
      BY <1>13 DEF ProcessExit, Inv, TypeOK, StartedInOrder
    <2> QED
      BY <1>0, <1>13, <2>1, MainFrame, CrashStaysNo DEF ProcessExit, Inv
  <1> QED
    BY <1>1, <1>2, <1>3, <1>4, <1>5, <1>6, <1>7, <1>8, <1>9, <1>10, <1>11,
       <1>12, <1>13, StartKeepsInv DEF Main

-----------------------------------------------------------------------------
(* The theorems *)

LEMMA InvHolds == Spec => []Inv
  <1>1. Init => Inv
    <2> SUFFICES ASSUME Init PROVE Inv
      OBVIOUS
    <2> USE ListenersAssumption DEF Init
    <2>1. TypeOK
      <3>1. 1 \in Listener
        BY DEF Listener
      <3>2. lconn \in [Listener -> Conn \cup {NoOne}]
        OBVIOUS
      <3>3. cpc \in [Conn -> ConnectionPc]
        BY DEF ConnectionPc
      <3>4. << >> \in Seq(Conn)
        OBVIOUS
      <3>5. list \in [Listener -> Seq(Conn)]
        BY <3>4
      <3> QED
        BY <3>1, <3>2, <3>3, <3>5 DEF TypeOK
    <2>2. EntriesLive /\ ListedOnce /\ ListFollowsListener
      BY DEF EntriesLive, ListedOnce, ListFollowsListener
    <2>3. HandlesItsOwn /\ RunningIsListed
      BY DEF HandlesItsOwn, RunningIsListed, Running
    <2>4. StartedInOrder /\ CrashesHaveACause
      BY DEF StartedInOrder, CrashesHaveACause
    <2> QED
      BY <2>1, <2>2, <2>3, <2>4 DEF Inv
  <1>2. Inv /\ [Next]_vars => Inv'
    <2>1. ASSUME Inv, UNCHANGED vars PROVE Inv'
      <3> USE <2>1 DEF Inv, vars, mainVars, listenerVars, listVars, connVars, fbVars
      <3>1. TypeOK' /\ EntriesLive' /\ ListedOnce' /\ ListFollowsListener'
        BY DEF TypeOK, EntriesLive, ListedOnce, ListFollowsListener
      <3>2. HandlesItsOwn' /\ RunningIsListed' /\ StartedInOrder'
        BY DEF HandlesItsOwn, RunningIsListed, StartedInOrder, Listed, Zombie, Pending
      <3>3. CrashesHaveACause'
        BY DEF CrashesHaveACause, CleanupCut, Zombie, Listed
      <3> QED
        BY <3>1, <3>2, <3>3
    <2>2. ASSUME Inv, ~Over, Main PROVE Inv'
      BY <2>2, MainKeepsInv DEF Over
    <2>3. ASSUME Inv, ~Over, NEW l \in Listener, ListenerStep(l) \/ AcceptFails(l) PROVE Inv'
      BY <2>3, ListenerKeepsInv DEF Over
    <2>4. ASSUME Inv, ~Over, NEW l \in Listener, NEW c \in Conn, Accept(l, c) PROVE Inv'
      BY <2>4, ListenerKeepsInv DEF Over
    <2>5. ASSUME Inv, ~Over, NEW c \in Conn, ConnectionStep(c) \/ Read(c) PROVE Inv'
      BY <2>5, ConnectionKeepsInv DEF Over
    <2> QED
      BY <2>1, <2>2, <2>3, <2>4, <2>5 DEF Next
  <1> QED
    BY <1>1, <1>2, PTL DEF Spec

(* The state of main, of every listener and of every connection stays in   *)
(* the sets that network.c's control flow draws.                           *)
THEOREM NetworkTypeOK == Spec => []TypeOK
  BY InvHolds, PTL DEF Inv

(* What is found on a thread list has not been freed and belongs to the    *)
(* listener of that list, for any number of threads and whichever calls    *)
(* fail (network.c:468-470, statistics.c:42-47).                           *)
THEOREM NetworkListedIsLive == Spec => []ListedIsLive
  <1>1. Inv => ListedIsLive
    BY DEF Inv, EntriesLive, ListedIsLive, Listed
  <1> QED
    BY <1>1, InvHolds, PTL

(* llist_remove of a connection (network.c:99-103) unlinks one entry of a  *)
(* list that still exists.                                                 *)
THEOREM NetworkRemovesWhatIsListed == Spec => []RemovesWhatIsListed
  <1>1. Inv => RemovesWhatIsListed
    <2> SUFFICES ASSUME Inv, NEW c \in Conn, cpc[c] = "remove"
                 PROVE  /\ listmem[cowner[c]] = "live"
                        /\ Cardinality({i \in DOMAIN list[cowner[c]] :
                                          list[cowner[c]][i] = c}) = 1
      BY DEF RemovesWhatIsListed
    <2> USE DEF Inv
    <2>1. PICK l \in Listener : l = cowner[c]
      BY DEF TypeOK
    <2>2. c \in Listed(l)
      BY <2>1, OwnersAssumption DEF RunningIsListed, Running, Pending, HandlesItsOwn
    <2>3. PICK i \in DOMAIN list[l] : list[l][i] = c
      BY <2>2 DEF Listed
    <2>4. listmem[l] = "live"
      BY <2>3 DEF EntriesLive
    <2>5. {j \in DOMAIN list[l] : list[l][j] = c} = {i}
      BY <2>3 DEF ListedOnce
    <2>6. Cardinality({i}) = 1
      BY FS_Singleton
    <2> QED
      BY <2>1, <2>4, <2>5, <2>6
  <1> QED
    BY <1>1, InvHolds, PTL

(* When main frees the framebuffers and net (main.c:439-445), every        *)
(* connection thread is past its removal from the list, or was left there  *)
(* by a cleanup that was cancelled while it joined.                        *)
THEOREM NetworkQuiescentAfterShutdown == Spec => []QuiescentAfterShutdown
  <1>1. Inv => QuiescentAfterShutdown
    <2> SUFFICES ASSUME Inv, state = "exit", NEW c \in Conn, cpc[c] \in Running
                 PROVE  CleanupCut(cowner[c])
      BY DEF QuiescentAfterShutdown, Running, Ended, Inv, TypeOK
    <2> USE DEF Inv
    <2>1. cowner[c] \in Listener /\ lpc[cowner[c]] = "dead"
      BY DEF StartedInOrder, TypeOK
    <2>2. c \in Listed(cowner[c])
      BY <2>1 DEF RunningIsListed, Pending
    <2>3. listmem[cowner[c]] = "live"
      BY <2>1, <2>2 DEF EntriesLive, Listed
    <2> QED
      BY <2>1, <2>3 DEF ListFollowsListener, CleanupCut
  <1> QED
    BY <1>1, InvHolds, PTL

(* A use of freed or stale memory in the threads of network.c has one of   *)
(* the causes that CrashesHaveACause lists, and no other.                  *)
THEOREM NetworkCrashesHaveACause == Spec => []CrashesHaveACause
  BY InvHolds, PTL DEF Inv
=============================================================================
