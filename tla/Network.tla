------------------------------ MODULE Network ------------------------------
(***************************************************************************)
(* The threads of network.c: the main thread that starts, watches and      *)
(* stops the network, NumListeners listening threads, and one connection   *)
(* thread for every accepted connection.                                   *)
(*                                                                         *)
(* What the threads share is modelled with its lifetime: the thread list   *)
(* of a listener, the struct net_connection_thread of a connection and the *)
(* array net->threads are allocated, used and freed by different threads.  *)
(* A step is a stretch of code without a blocking call, a cancellation     *)
(* point or an access that another thread can race with.  A critical       *)
(* section that does not block inside is one step, enabled when the lock   *)
(* is free.  Cancellation is deferred: pthread_cancel sets a flag, the     *)
(* thread acts on it at its next cancellation point.                       *)
(*                                                                         *)
(* What a connection does with the bytes it reads is not modelled here.    *)
(***************************************************************************)
EXTENDS Integers, SequencesExt

CONSTANTS NumListeners,   \* num_threads of net_listen, option -l
          Conn,           \* the connections that can ever be accepted
          Faults,         \* the failures of the environment, see below
          NoOne,          \* the owner of a free lock
          TheMain,        \* lock owners besides connections: the main thread
          TheListener     \*   and the listener whose lock it is

Listener == 1 .. NumListeners

(* calloc, pthread_create (of a connection), ring_alloc, fb_alloc, accept   *)
(* and llist_alloc may fail; printf may be a cancellation point (POSIX      *)
(* leaves that open, it is one in glibc when it writes to the terminal).    *)
AllFaults == {"calloc", "create", "ring_alloc", "fb_alloc", "accept",
              "llist_alloc", "printf_cancels"}

ASSUME ListenersAssumption == NumListeners \in Nat /\ NumListeners > 0
ASSUME FaultsAssumption    == Faults \subseteq AllFaults
ASSUME OwnersAssumption    == /\ NoOne \notin Conn /\ TheMain \notin Conn
                              /\ TheListener \notin Conn
                              /\ NoOne # TheMain /\ NoOne # TheListener
                              /\ TheMain # TheListener

VARIABLES
  mpc,          \* where the main thread is
  mi,           \* its loop counter over the listeners
  mlist,        \* statistics_update: was thread->threadlist set when read?
  state,        \* net->state
  threads,      \* net->threads: "none", "live" or "freed"
  lpc,          \* where each listener is
  lconn,        \* the connection it handles or cancels
  lcancel,      \* pthread_cancel has been called on it
  lpopped,      \* its cleanup runs from pthread_cleanup_pop, not from a cancel
  initialized,  \* thread->initialized
  list,         \* thread->threadlist: the connections on it, in order
  listmem,      \* its memory: "none", "live" or "freed"
  llock,        \* threadlist->lock
  list_lock,    \* thread->list_lock
  cpc,          \* where each connection thread is
  cowner,       \* its listener
  ccancel,      \* pthread_cancel has been called on it
  ccut,         \* it is ending by a cancel, not by returning
  cmem,         \* its struct net_connection_thread
  fb_lock,      \* net->fb_lock
  nodefb,       \* the fb of the NUMA node: "none", "listed" or "freed"
  crash         \* the undefined behaviour that ended the process, or "no"

mainVars == <<mpc, mi, mlist, state, threads>>
listenerVars == <<lpc, lconn, lcancel, lpopped, initialized>>
listVars == <<list, listmem, llock, list_lock>>
connVars == <<cpc, cowner, ccut, ccancel, cmem>>
fbVars == <<fb_lock, nodefb>>
connData == <<cowner, ccut, ccancel, cmem>>
vars == <<mainVars, listenerVars, listVars, connVars, fbVars, crash>>

(* What the steps of main, of a listener and of a connection leave alone.  *)
notMain     == <<listenerVars, listVars, connVars, fbVars, crash>>
notListener == <<mainVars, listVars, connVars, fbVars, crash>>
notConn     == <<mainVars, listenerVars, listVars, fbVars, crash>>

Init ==
  /\ mpc = "listen" /\ mi = 1 /\ mlist = FALSE
  /\ state = "listen" /\ threads = "live"
  /\ lpc = [l \in Listener |-> "none"]
  /\ lconn \in [Listener -> {NoOne}]
  /\ lcancel = [l \in Listener |-> FALSE]
  /\ lpopped = [l \in Listener |-> FALSE]
  /\ initialized = [l \in Listener |-> FALSE]
  /\ list = [l \in Listener |-> << >>]
  /\ listmem = [l \in Listener |-> "none"]
  /\ llock = [l \in Listener |-> NoOne]
  /\ list_lock = [l \in Listener |-> NoOne]
  /\ cpc = [c \in Conn |-> "none"]
  /\ cowner = [c \in Conn |-> 1]
  /\ ccancel = [c \in Conn |-> FALSE]
  /\ ccut = [c \in Conn |-> FALSE]
  /\ cmem = [c \in Conn |-> "none"]
  /\ fb_lock = NoOne /\ nodefb = "none"
  /\ crash = "no"

Listed(l) == {list[l][i] : i \in DOMAIN list[l]}

MGo(pc)    == mpc' = pc
LGo(l, pc) == lpc' = [lpc EXCEPT ![l] = pc]
CGo(c, pc) == cpc' = [cpc EXCEPT ![c] = pc]

-----------------------------------------------------------------------------
(* The main thread: net_listen, the main loop, net_shutdown, clean up *)

(* net_listen: start the next listening thread. *)
StartListener ==
  /\ mpc = "listen"
  /\ LGo(mi, "start")
  /\ IF mi < NumListeners THEN mi' = mi + 1 /\ UNCHANGED mpc
                          ELSE MGo("loop") /\ UNCHANGED mi
  /\ UNCHANGED <<mlist, state, threads, lconn, lcancel, lpopped, initialized,
                 listVars, connVars, fbVars, crash>>

(* Wrong variants of an operator, each named for its error, stand before   *)
(* it: what the properties must be able to tell apart.                     *)
EnterStatisticsAfterJoin ==
  /\ mpc \in {"loop", "close"}
  /\ MGo("stats_read") /\ mi' = NumListeners
  /\ UNCHANGED <<mlist, state, threads, notMain>>

(* The main loop calls statistics_update, which visits the listeners from  *)
(* the last to the first.                                                  *)
EnterStatistics ==
  /\ mpc = "loop"
  /\ MGo("stats_read") /\ mi' = NumListeners
  /\ UNCHANGED <<mlist, state, threads, notMain>>

(* thread->threadlist is read before thread->initialized is looked at. *)
StatsReadList ==
  /\ mpc = "stats_read"
  /\ mlist' = (listmem[mi] # "none")
  /\ MGo("stats_check")
  /\ UNCHANGED <<mi, state, threads, notMain>>

NextOfStatsPastTheFirst == IF mi > 0 THEN MGo("stats_read") /\ mi' = mi - 1
                                     ELSE MGo("loop") /\ UNCHANGED mi

NextOfStats == IF mi > 1 THEN MGo("stats_read") /\ mi' = mi - 1
                         ELSE MGo("loop") /\ UNCHANGED mi

StatsSkip ==
  /\ mpc = "stats_check" /\ ~initialized[mi]
  /\ NextOfStats
  /\ UNCHANGED <<mlist, state, threads, notMain>>

(* The list pointer was still NULL, or points to a list freed since. *)
StatsBadList ==
  /\ mpc = "stats_check" /\ initialized[mi]
  /\ ~mlist \/ listmem[mi] = "freed"
  /\ crash' = IF mlist THEN "freed_list" ELSE "null_list"
  /\ UNCHANGED <<mainVars, listenerVars, listVars, connVars, fbVars>>

StatsLock ==
  /\ mpc = "stats_check" /\ initialized[mi]
  /\ mlist /\ listmem[mi] = "live"
  /\ llock[mi] = NoOne
  /\ llock' = [llock EXCEPT ![mi] = TheMain]
  /\ MGo("stats_walk")
  /\ UNCHANGED <<mi, mlist, state, threads, listenerVars, list, listmem,
                 list_lock, connVars, fbVars, crash>>

(* Reads and clears byte_count of every connection on the list. *)
StatsWalk ==
  /\ mpc = "stats_walk"
  /\ llock' = [llock EXCEPT ![mi] = NoOne]
  /\ NextOfStats
  /\ UNCHANGED <<mlist, state, threads, listenerVars, list, listmem,
                 list_lock, connVars, fbVars, crash>>

(* net_kill_threads: the state, then cancel and join from the last to the  *)
(* first.                                                                  *)
NetShutdown ==
  /\ mpc = "loop"
  /\ state' = "shutdown"
  /\ MGo("cancel") /\ mi' = NumListeners
  /\ UNCHANGED <<mlist, threads, notMain>>

CancelListener ==
  /\ mpc = "cancel"
  /\ lcancel' = [lcancel EXCEPT ![mi] = TRUE]
  /\ MGo("join")
  /\ UNCHANGED <<mi, mlist, state, threads, lpc, lconn, lpopped, initialized,
                 listVars, connVars, fbVars, crash>>

JoinWithoutWaiting ==
  /\ mpc = "join"
  /\ IF mi > 1 THEN MGo("cancel") /\ mi' = mi - 1
               ELSE MGo("close") /\ UNCHANGED mi
  /\ UNCHANGED <<mlist, state, threads, notMain>>

JoinListener ==
  /\ mpc = "join" /\ lpc[mi] = "dead"
  /\ IF mi > 1 THEN MGo("cancel") /\ mi' = mi - 1
               ELSE MGo("close") /\ UNCHANGED mi
  /\ UNCHANGED <<mlist, state, threads, notMain>>

NetClose ==
  /\ mpc = "close"
  /\ state' = "exit"
  /\ MGo("fb_free")
  /\ UNCHANGED <<mi, mlist, threads, notMain>>

FbFreeAll ==
  /\ mpc = "fb_free"
  /\ nodefb' = IF nodefb = "listed" THEN "freed" ELSE nodefb
  /\ MGo("net_free")
  /\ UNCHANGED <<mi, mlist, state, threads, listenerVars, listVars, connVars,
                 fb_lock, crash>>

(* main calls net_free after net_shutdown; then the process ends. *)
NetFree ==
  /\ mpc = "net_free" /\ state \in {"exit", "idle"}
  /\ threads' = "freed"
  /\ MGo("exit")
  /\ UNCHANGED <<mi, mlist, state, notMain>>

ProcessExit ==
  /\ mpc = "exit"
  /\ MGo("done")
  /\ UNCHANGED <<mi, mlist, state, threads, notMain>>

Main == \/ StartListener \/ EnterStatistics \/ StatsReadList \/ StatsSkip
        \/ StatsBadList \/ StatsLock \/ StatsWalk
        \/ NetShutdown \/ CancelListener \/ JoinListener \/ NetClose
        \/ FbFreeAll \/ NetFree \/ ProcessExit

-----------------------------------------------------------------------------
(* A listening thread: net_listen_thread and its cleanup handler *)

(* llist_alloc and the store to thread->threadlist. *)
ListenInit(l) ==
  /\ lpc[l] = "start"
  /\ \/ listmem' = [listmem EXCEPT ![l] = "live"] /\ LGo(l, "publish")
     \/ "llist_alloc" \in Faults /\ LGo(l, "dead") /\ UNCHANGED listmem
  /\ UNCHANGED <<mainVars, lconn, lcancel, lpopped, initialized, list, llock,
                 list_lock, connVars, fbVars, crash>>

ListenPublish(l) ==
  /\ lpc[l] = "publish"
  /\ initialized' = [initialized EXCEPT ![l] = TRUE]
  /\ LGo(l, "check")
  /\ UNCHANGED <<lconn, lcancel, lpopped, notListener>>

(* The head of the accept loop.  Leaving the loop pops the cleanup handler *)
(* and runs it with cancellation still enabled.                            *)
ListenCheck(l) ==
  /\ lpc[l] = "check"
  /\ \/ state # "shutdown" /\ LGo(l, "accept") /\ UNCHANGED lpopped
     \/ /\ state = "shutdown"
        /\ LGo(l, "clean") /\ lpopped' = [lpopped EXCEPT ![l] = TRUE]
  /\ UNCHANGED <<lconn, lcancel, initialized, notListener>>

Accept(l, c) ==
  /\ lpc[l] = "accept" /\ ~lcancel[l]
  /\ cpc[c] = "none"
  /\ CGo(c, "accepted") /\ cowner' = [cowner EXCEPT ![c] = l]
  /\ LGo(l, "print") /\ lconn' = [lconn EXCEPT ![l] = c]
  /\ UNCHANGED <<mainVars, lcancel, lpopped, initialized, listVars, ccut,
                 ccancel, cmem, fbVars, crash>>

AcceptFails(l) ==
  /\ lpc[l] = "accept" /\ ~lcancel[l]
  /\ "accept" \in Faults
  /\ LGo(l, "clean") /\ lpopped' = [lpopped EXCEPT ![l] = TRUE]
  /\ UNCHANGED <<lconn, lcancel, initialized, notListener>>

(* accept is a cancellation point; the handler runs with cancellation off. *)
AcceptCancelled(l) ==
  /\ lpc[l] = "accept" /\ lcancel[l]
  /\ LGo(l, "clean")
  /\ UNCHANGED <<lconn, lcancel, lpopped, initialized, notListener>>

(* "Got a new connection": a cancel here loses the socket. *)
ListenPrint(l) ==
  /\ lpc[l] = "print"
  /\ \/ LGo(l, "calloc") /\ UNCHANGED cpc
     \/ /\ lcancel[l] /\ "printf_cancels" \in Faults
        /\ LGo(l, "clean") /\ CGo(lconn[l], "dead")
  /\ UNCHANGED <<connData, mainVars, lconn, lcancel, lpopped, initialized,
                 listVars, fbVars, crash>>

(* The socket is closed and the listener goes on, unless close(2) acts on  *)
(* a cancel.                                                               *)
DropConnection(l) ==
  /\ CGo(lconn[l], "none")
  /\ \/ LGo(l, "check")
     \/ lcancel[l] /\ LGo(l, "clean")

CallocConnection(l) ==
  /\ lpc[l] = "calloc"
  /\ \/ /\ cmem' = [cmem EXCEPT ![lconn[l]] = "live"]
        /\ LGo(l, "create") /\ UNCHANGED cpc
     \/ "calloc" \in Faults /\ DropConnection(l) /\ UNCHANGED cmem
  /\ UNCHANGED <<mainVars, lconn, lcancel, lpopped, initialized, listVars,
                 cowner, ccut, ccancel, fbVars, crash>>

CreateWithoutListLock(l) ==
  /\ lpc[l] = "create"
  /\ CGo(lconn[l], "lock_fb") /\ LGo(l, "append")
  /\ UNCHANGED <<connData, mainVars, lconn, lcancel, lpopped, initialized,
                 listVars, fbVars, crash>>

(* The new thread runs at once, but list_lock is held until it is listed.  *)
(* The message about a failure is printed with list_lock held: a cancel    *)
(* there leaves it locked for good.                                        *)
CreateConnection(l) ==
  /\ lpc[l] = "create" /\ list_lock[l] = NoOne
  /\ \/ /\ CGo(lconn[l], "lock_fb") /\ LGo(l, "append")
        /\ list_lock' = [list_lock EXCEPT ![l] = TheListener]
        /\ UNCHANGED cmem
     \/ /\ "create" \in Faults /\ DropConnection(l)
        /\ cmem' = [cmem EXCEPT ![lconn[l]] = "none"]
        /\ UNCHANGED list_lock
     \/ /\ "create" \in Faults /\ lcancel[l] /\ "printf_cancels" \in Faults
        /\ CGo(lconn[l], "dead") /\ LGo(l, "clean")
        /\ list_lock' = [list_lock EXCEPT ![l] = TheListener]
        /\ UNCHANGED cmem
  /\ UNCHANGED <<mainVars, lconn, lcancel, lpopped, initialized, list,
                 listmem, llock, cowner, ccut, ccancel, fbVars, crash>>

AppendConnection(l) ==
  /\ lpc[l] = "append" /\ llock[l] = NoOne
  /\ list' = [list EXCEPT ![l] = Append(@, lconn[l])]
  /\ list_lock' = [list_lock EXCEPT ![l] = NoOne]
  /\ LGo(l, "check")
  /\ UNCHANGED <<mainVars, lconn, lcancel, lpopped, initialized, listmem,
                 llock, connVars, fbVars, crash>>

(* An ended thread waits for its join ("dead") unless it has detached      *)
(* itself ("gone").  The id of a thread that was joined or is gone means   *)
(* nothing any more: what pthread_cancel and pthread_join do with it is    *)
(* undefined.                                                              *)
Ended == {"dead", "joined", "gone"}
StaleId(c) == cpc[c] \in {"joined", "gone"}

CleanWithoutCancel(l) ==
  /\ lpc[l] = "clean" /\ llock[l] = NoOne /\ list[l] # << >>
  /\ lconn' = [lconn EXCEPT ![l] = Head(list[l])]
  /\ LGo(l, "join_read")
  /\ UNCHANGED <<lcancel, lpopped, initialized, notListener>>

(* net_listen_thread_cleanup_threadlist: cancel the first thread listed... *)
CleanCancel(l) ==
  /\ lpc[l] = "clean" /\ llock[l] = NoOne /\ list[l] # << >>
  /\ \/ UNCHANGED crash
     \/ StaleId(Head(list[l])) /\ crash' = "stale_cancel"
  /\ lconn' = [lconn EXCEPT ![l] = Head(list[l])]
  /\ ccancel' = [ccancel EXCEPT ![Head(list[l])] = TRUE]
  /\ LGo(l, "join_read")
  /\ UNCHANGED <<mainVars, lcancel, lpopped, initialized, listVars, cpc,
                 cowner, ccut, cmem, fbVars>>

(* ... read its id from the struct, after the lock has been released: the  *)
(* struct may be gone.  The freed memory may still hold the id, or one     *)
(* that pthread_join refuses, or one that it crashes on.                   *)
CleanReadThread(l) ==
  /\ lpc[l] = "join_read"
  /\ \/ LGo(l, "join") /\ UNCHANGED crash
     \/ cmem[lconn[l]] = "freed" /\ LGo(l, "clean") /\ UNCHANGED crash
     \/ cmem[lconn[l]] = "freed" /\ crash' = "stale_join" /\ UNCHANGED lpc
  /\ UNCHANGED <<mainVars, lconn, lcancel, lpopped, initialized, listVars,
                 connVars, fbVars>>

CleanJoin(l) ==
  /\ lpc[l] = "join" /\ cpc[lconn[l]] \in Ended
  /\ \/ UNCHANGED crash
     \/ StaleId(lconn[l]) /\ crash' = "stale_join"
  /\ CGo(lconn[l], IF cpc[lconn[l]] = "dead" THEN "joined" ELSE cpc[lconn[l]])
  /\ LGo(l, "clean")
  /\ UNCHANGED <<connData, mainVars, lconn, lcancel, lpopped, initialized,
                 listVars, fbVars>>

(* pthread_join is a cancellation point: a listener that runs its handler  *)
(* from pthread_cleanup_pop ends here, with connections left.              *)
CleanCancelled(l) ==
  /\ lpc[l] = "join" /\ lcancel[l] /\ lpopped[l]
  /\ LGo(l, "dead")
  /\ UNCHANGED <<lconn, lcancel, lpopped, initialized, notListener>>

CleanDone(l) ==
  /\ lpc[l] = "clean" /\ llock[l] = NoOne /\ list[l] = << >>
  /\ listmem' = [listmem EXCEPT ![l] = "freed"]
  /\ LGo(l, "dead")
  /\ UNCHANGED <<mainVars, lconn, lcancel, lpopped, initialized, list, llock,
                 list_lock, connVars, fbVars, crash>>

(* What a listener does by itself, without waiting for a client. *)
ListenerStep(l) ==
  \/ ListenInit(l) \/ ListenPublish(l) \/ ListenCheck(l) \/ AcceptCancelled(l)
  \/ ListenPrint(l) \/ CallocConnection(l) \/ CreateConnection(l)
  \/ AppendConnection(l) \/ CleanCancel(l) \/ CleanReadThread(l)
  \/ CleanJoin(l) \/ CleanCancelled(l) \/ CleanDone(l)

-----------------------------------------------------------------------------
(* A connection thread: net_connection_thread and its cleanup handlers *)

(* Where a thread is until it has its ring buffer. *)
BeforeSetup == {"lock_fb", "get_fb", "print_new", "print_done", "setup"}

LockFb(c) ==
  /\ cpc[c] = "lock_fb" /\ fb_lock = NoOne
  /\ fb_lock' = c
  /\ CGo(c, "get_fb")
  /\ UNCHANGED <<connData, mainVars, listenerVars, listVars, nodefb, crash>>

GetFbOnNode(c) ==
  /\ cpc[c] = "get_fb"
  /\ \/ nodefb # "none" /\ CGo(c, "setup") /\ fb_lock' = NoOne
     \/ nodefb = "none" /\ CGo(c, "print_new") /\ UNCHANGED fb_lock
  /\ UNCHANGED <<connData, mainVars, listenerVars, listVars, nodefb, crash>>

(* A cancel in one of the two printf calls ends the thread before it has   *)
(* pushed a cleanup handler.                                               *)
CancelledHoldingFbLock(c) ==
  /\ cpc[c] \in {"print_new", "print_done"}
  /\ ccancel[c] /\ "printf_cancels" \in Faults
  /\ CGo(c, "dead")
  /\ UNCHANGED <<connData, notConn>>

(* When fb_alloc fails the thread leaves with fb_lock held and its entry   *)
(* on the list.                                                            *)
FbAlloc(c) ==
  /\ cpc[c] = "print_new"
  /\ \/ CGo(c, "print_done")
     \/ "fb_alloc" \in Faults /\ CGo(c, "detach")
  /\ UNCHANGED <<connData, notConn>>

AppendFbWithoutUnlock(c) ==
  /\ cpc[c] = "print_done"
  /\ nodefb' = "listed" /\ UNCHANGED fb_lock
  /\ CGo(c, "setup")
  /\ UNCHANGED <<connData, mainVars, listenerVars, listVars, crash>>

AppendFb(c) ==
  /\ cpc[c] = "print_done"
  /\ nodefb' = "listed" /\ fb_lock' = NoOne
  /\ CGo(c, "setup")
  /\ UNCHANGED <<connData, mainVars, listenerVars, listVars, crash>>

(* Push the handlers, ring_alloc. *)
Setup(c) ==
  /\ cpc[c] = "setup"
  /\ \/ CGo(c, "check")
     \/ "ring_alloc" \in Faults /\ CGo(c, "close")
  /\ UNCHANGED <<connData, notConn>>

(* After net_free the state read is whatever the memory holds. *)
ConnectionCheck(c) ==
  /\ cpc[c] = "check"
  /\ \/ CGo(c, IF state # "shutdown" THEN "read" ELSE "close")
     \/ threads = "freed" /\ CGo(c, "close")
  /\ UNCHANGED <<connData, notConn>>

(* read(2) returns bytes, the end of the stream or an error. *)
Read(c) ==
  /\ cpc[c] = "read" /\ ~ccancel[c]
  /\ \E next \in {"parse", "close"} : CGo(c, next)
  /\ UNCHANGED <<connData, notConn>>

ReadCancelled(c) ==
  /\ cpc[c] = "read" /\ ccancel[c]
  /\ CGo(c, "close") /\ ccut' = [ccut EXCEPT ![c] = TRUE]
  /\ UNCHANGED <<cowner, ccancel, cmem, notConn>>

(* The commands received draw into the framebuffers; a failed or cancelled *)
(* answer and a misbehaving client end the connection.                     *)
Parse(c) ==
  /\ cpc[c] = "parse"
  /\ \E next \in {"check", "close"} : CGo(c, next)
  /\ UNCHANGED <<connData, notConn>>

(* cleanup_ring and cleanup_socket; when the code runs them at its end,    *)
(* close(2) may still act on a cancel.                                     *)
CleanupSocket(c) ==
  /\ cpc[c] = "close"
  /\ CGo(c, "self")
  /\ ccut' \in {ccut, [ccut EXCEPT ![c] = ccancel[c]]}
  /\ UNCHANGED <<cowner, ccancel, cmem, notConn>>

(* cleanup_self: list_lock, llist_remove, unlock and free. *)
SelfLock(c) ==
  /\ cpc[c] = "self" /\ list_lock[cowner[c]] = NoOne
  /\ list_lock' = [list_lock EXCEPT ![cowner[c]] = c]
  /\ CGo(c, "remove")
  /\ UNCHANGED <<connData, mainVars, listenerVars, list, listmem, llock,
                 fbVars, crash>>

SelfRemoveForgotten(c) ==
  /\ cpc[c] = "remove"
  /\ CGo(c, "unlock")
  /\ UNCHANGED <<connData, notConn>>

(* llist_remove unlinks the entry, wherever on the list it is. *)
SelfRemove(c) ==
  /\ cpc[c] = "remove" /\ llock[cowner[c]] = NoOne
  /\ \/ \E i \in DOMAIN list[cowner[c]] :
          /\ list[cowner[c]][i] = c
          /\ list' = [list EXCEPT ![cowner[c]] = RemoveAt(@, i)]
     \/ c \notin Listed(cowner[c]) /\ UNCHANGED list
  /\ CGo(c, "unlock")
  /\ UNCHANGED <<connData, mainVars, listenerVars, listmem, llock, list_lock,
                 fbVars, crash>>

SelfFree(c) ==
  /\ cpc[c] = "unlock"
  /\ list_lock' = [list_lock EXCEPT ![cowner[c]] = NoOne]
  /\ cmem' = [cmem EXCEPT ![c] = "freed"]
  /\ CGo(c, IF ccut[c] THEN "dead" ELSE "detach")
  /\ UNCHANGED <<mainVars, listenerVars, list, listmem, llock, cowner, ccut,
                 ccancel, fbVars, crash>>

(* A thread that returns detaches itself, listed or not. *)
Detach(c) ==
  /\ cpc[c] = "detach"
  /\ CGo(c, "gone")
  /\ UNCHANGED <<connData, notConn>>

(* A thread that outlives the clean up of main crashes, or not, at its     *)
(* next use of net (fb_lock, fb_list, fb_size, ring_size, state and fb),   *)
(* of net->threads (list_lock) or of the framebuffer of its node.          *)
UseFreed(c) ==
  /\ \/ /\ nodefb = "freed" /\ cpc[c] \in {"get_fb", "parse"}
        /\ crash' = "freed_fb"
     \/ /\ threads = "freed"
        /\ cpc[c] \in BeforeSetup \cup {"check", "parse", "self", "unlock"}
        /\ crash' = "freed_net"
  /\ UNCHANGED <<mainVars, listenerVars, listVars, connVars, fbVars>>

(* What a connection does by itself, without waiting for its client. *)
ConnectionStep(c) ==
  \/ LockFb(c) \/ GetFbOnNode(c) \/ CancelledHoldingFbLock(c) \/ FbAlloc(c)
  \/ AppendFb(c) \/ Setup(c) \/ ConnectionCheck(c) \/ ReadCancelled(c)
  \/ Parse(c) \/ CleanupSocket(c) \/ SelfLock(c) \/ SelfRemove(c) \/ SelfFree(c)
  \/ Detach(c) \/ UseFreed(c)

-----------------------------------------------------------------------------
(* The process has ended, normally or not. *)
Over == mpc = "done" \/ crash # "no"

Next ==
  \/ /\ ~Over
     /\ \/ Main
        \/ \E l \in Listener : ListenerStep(l) \/ AcceptFails(l)
        \/ \E l \in Listener, c \in Conn : Accept(l, c)
        \/ \E c \in Conn : ConnectionStep(c) \/ Read(c)
  \/ Over /\ UNCHANGED vars

(* Every thread that can run gets to run: the scheduler of the operating   *)
(* system.  Clients need not connect, send or hang up, and nobody has to   *)
(* ask the process to stop.                                                *)
Fairness ==
  /\ WF_vars(~Over /\ Main)
  /\ \A l \in Listener : WF_vars(~Over /\ ListenerStep(l))
  /\ \A c \in Conn : WF_vars(~Over /\ ConnectionStep(c))

Spec == Init /\ [][Next]_vars
FairSpec == Spec /\ Fairness

-----------------------------------------------------------------------------
(* Properties *)

TypeOK ==
  /\ mpc \in {"listen", "loop", "stats_read", "stats_check", "stats_walk",
              "cancel", "join", "close", "fb_free", "net_free", "exit", "done"}
  /\ mi \in Listener /\ mlist \in BOOLEAN
  /\ state \in {"listen", "shutdown", "exit"} /\ threads \in {"live", "freed"}
  /\ lpc \in [Listener -> {"none", "start", "publish", "check", "accept",
                           "print", "calloc", "create", "append", "clean",
                           "join_read", "join", "dead"}]
  /\ lconn \in [Listener -> Conn \cup {NoOne}]
  /\ lcancel \in [Listener -> BOOLEAN] /\ lpopped \in [Listener -> BOOLEAN]
  /\ initialized \in [Listener -> BOOLEAN]
  /\ list \in [Listener -> Seq(Conn)]
  /\ listmem \in [Listener -> {"none", "live", "freed"}]
  /\ llock \in [Listener -> {NoOne, TheMain}]
  /\ list_lock \in [Listener -> Conn \cup {NoOne, TheListener}]
  /\ cpc \in [Conn -> {"none", "accepted", "lock_fb", "get_fb", "print_new",
                       "print_done", "setup", "check", "read", "parse",
                       "close", "self", "remove", "unlock", "detach"} \cup Ended]
  /\ cowner \in [Conn -> Listener] /\ ccancel \in [Conn -> BOOLEAN]
  /\ ccut \in [Conn -> BOOLEAN]
  /\ cmem \in [Conn -> {"none", "live", "freed"}]
  /\ fb_lock \in Conn \cup {NoOne} /\ nodefb \in {"none", "listed", "freed"}
  /\ crash \in {"no", "null_list", "freed_list", "stale_cancel", "stale_join",
               "freed_fb", "freed_net"}

(* What the statistics walk (statistics.c:42-47) and the cleanup of a      *)
(* listener (network.c:468-470) find on a thread list is memory that has   *)
(* not been freed, however the connection behind it ended.                 *)
ListedIsLive ==
  \A l \in Listener : \A c \in Listed(l) : cmem[c] = "live" /\ cowner[c] = l

(* A connection that removes itself is on its listener's list, once, and   *)
(* the list still exists: the new thread can be through with its client    *)
(* before the listener that created it goes on (network.c:518-526).        *)
RemovesWhatIsListed ==
  \A c \in Conn : cpc[c] = "remove" =>
    /\ listmem[cowner[c]] = "live"
    /\ Cardinality({i \in DOMAIN list[cowner[c]] : list[cowner[c]][i] = c}) = 1

(* The cleanup of listener l has itself been cancelled. *)
CleanupCut(l) ==
  lpc[l] = "dead" /\ listmem[l] = "live" /\ lpopped[l] /\ lcancel[l]

(* Once net_shutdown has returned, main frees the framebuffers and net     *)
(* (main.c:439-445).  By then every connection thread is past its removal  *)
(* from the list, unless its listener was cancelled inside pthread_join of *)
(* a cleanup that pthread_cleanup_pop had started (network.c:472, 537).    *)
QuiescentAfterShutdown ==
  state = "exit" =>
    \A c \in Conn : cpc[c] \in {"none", "accepted", "unlock", "detach"} \cup Ended
                      \/ CleanupCut(cowner[c])

(* A thread that ended with its entry still on the list. *)
Zombie(c) == cpc[c] \in Ended /\ c \in Listed(cowner[c])

(* list_lock was held by a listener that left its accept loop. *)
ListLockLeaked(l) ==
  list_lock[l] = TheListener /\ lpc[l] \in {"clean", "join_read", "join", "dead"}

(* net_shutdown returns and the process ends, however many connections     *)
(* there are and wherever their threads are.  Only a thread that was ended *)
(* by a printf before it could push or pop its cleanup handlers, or by a   *)
(* failed fb_alloc, can prevent that.                                      *)
ShutdownCompletes ==
  mpc = "cancel" ~> \/ Over
                    \/ \E c \in Conn : Zombie(c)
                    \/ \E l \in Listener : ListLockLeaked(l)

(* fb_lock was held by a thread that ended. *)
FbLockLeaked == fb_lock # NoOne /\ cpc[fb_lock] \in Ended

(* Every connection thread gets past fb_lock to its ring buffer, or the    *)
(* lock has been lost.                                                     *)
ServedUnlessLockLeaked ==
  \A c \in Conn :
    cpc[c] = "lock_fb" ~> cpc[c] \notin BeforeSetup \/ Over \/ FbLockLeaked

(* network.c:48-49: "The newly created thread then sets up a ring buffer   *)
(* [...] and starts reading data to it."                                   *)
EveryConnectionIsServed ==
  \A c \in Conn : cpc[c] = "lock_fb" ~> cpc[c] \notin BeforeSetup \/ Over

(* What can go wrong with the memory and the ids that the threads share,   *)
(* and what must have happened before:                                     *)
(*   - the walk of the statistics has read no list (statistics.c:37-40)    *)
(*     but there is one by now, and finds a freed one only when the        *)
(*     listener ended after a failed accept, never for the shutdown;       *)
(*   - a cleanup cancels an ended thread (network.c:470) only if that left *)
(*     its entry on the list, and joins by a stale id (network.c:472) only *)
(*     then, or if the connection freed its struct meanwhile: nobody else  *)
(*     is joined twice;                                                    *)
(*   - a freed framebuffer is used (main.c:440) only after a cleanup was   *)
(*     cut, and freed net->threads (main.c:445) then, or by a connection   *)
(*     between its removal from the list and its last unlock.              *)
CrashesHaveACause ==
  /\ crash = "null_list"  => state = "listen" /\ listmem[mi] # "none"
  /\ crash = "freed_list" => state = "listen" /\ lpopped[mi] /\ lpc[mi] = "dead"
  /\ crash = "stale_cancel" => \E c \in Conn : Zombie(c)
  /\ crash = "stale_join" =>
       \E l \in Listener, c \in Conn :
         /\ lpc[l] \in {"join_read", "join", "clean"} /\ lconn[l] = c
         /\ Zombie(c) \/ (cmem[c] = "freed" /\ cpc[c] # "joined")
  /\ crash = "freed_fb"  => \E l \in Listener : CleanupCut(l)
  /\ crash = "freed_net" => \/ \E l \in Listener : CleanupCut(l)
                            \/ \E c \in Conn : cpc[c] = "unlock"
=============================================================================
