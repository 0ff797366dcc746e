----------------------------- MODULE WorkQueue -----------------------------
(***************************************************************************)
(* One work queue of workqueue.c: the worker thread (work_thread) and its  *)
(* client, the main thread, which enqueues work (workqueue_enqueue, from   *)
(* resize_cb) and finally stops the queue (stop_workqueue).  Every queue   *)
(* has a lock, a condition variable, a list and a thread of its own.       *)
(*                                                                         *)
(* The client's append is one step, enabled when the lock is free; the     *)
(* worker holds the lock over many steps, all its callbacks included.      *)
(* do_exit is written without the lock.  A wait on the condition variable  *)
(* ends by a broadcast or spuriously.                                      *)
(***************************************************************************)
EXTENDS Integers, Sequences, FiniteSets

CONSTANTS Item,       \* the work: one struct workqueue_entry each
          NoOne, TheWorker    \* owners of the lock

ASSUME OwnerAssumption == NoOne # TheWorker

VARIABLES entries,    \* wqueue->entries
          lock,       \* wqueue->lock
          do_exit,    \* wqueue->do_exit
          wpc,        \* where the worker is
          cpc,        \* where the client is
          current,    \* the entry the worker has taken: << >> or << item >>
          cleaned,    \* the items whose cleanup callback was called
          enqueued,   \* history: all items in the order they were enqueued
          handled     \* history: all items in the order their entry was freed

queueVars ==
  <<entries, lock, do_exit, wpc, cpc, current, cleaned, enqueued, handled>>

QueueInit == /\ entries = << >> /\ lock = NoOne /\ do_exit = FALSE
             /\ wpc = "start" /\ cpc = "idle"
             /\ current = << >> /\ cleaned = {}
             /\ enqueued = << >> /\ handled = << >>

-----------------------------------------------------------------------------
(* The worker *)

WorkerLock ==
  /\ wpc = "start" /\ lock = NoOne
  /\ lock' = TheWorker /\ wpc' = "check"
  /\ UNCHANGED <<entries, do_exit, cpc, current, cleaned, enqueued, handled>>

(* Wrong variants of an operator, each named for its error, stand before   *)
(* it: what the properties must be able to tell apart.                     *)
CheckIgnoresExit ==
  /\ wpc = "check"
  /\ wpc' = "enter"
  /\ UNCHANGED <<entries, lock, do_exit, cpc, current, cleaned, enqueued, handled>>

(* while(!do_exit): on the way out the lock is not released. *)
CheckExit ==
  /\ wpc = "check"
  /\ wpc' = IF do_exit THEN "dead" ELSE "enter"
  /\ UNCHANGED <<entries, lock, do_exit, cpc, current, cleaned, enqueued, handled>>

(* pthread_cond_wait: release the lock and wait, whatever the list holds. *)
EnterWait ==
  /\ wpc = "enter"
  /\ lock' = NoOne /\ wpc' = "wait"
  /\ UNCHANGED <<entries, do_exit, cpc, current, cleaned, enqueued, handled>>

SpuriousWakeup ==
  /\ wpc = "wait"
  /\ wpc' = "woken"
  /\ UNCHANGED <<entries, lock, do_exit, cpc, current, cleaned, enqueued, handled>>

Reacquire ==
  /\ wpc = "woken" /\ lock = NoOne
  /\ lock' = TheWorker /\ wpc' = "drain"
  /\ UNCHANGED <<entries, do_exit, cpc, current, cleaned, enqueued, handled>>

TakeWithoutRemove ==
  /\ wpc = "drain" /\ entries # << >> /\ ~do_exit
  /\ current' = << Head(entries) >> /\ wpc' = "run"
  /\ UNCHANGED <<entries, lock, do_exit, cpc, cleaned, enqueued, handled>>

TakeAll ==
  /\ wpc = "drain" /\ entries # << >> /\ ~do_exit
  /\ current' = entries /\ entries' = << >>
  /\ wpc' = "run"
  /\ UNCHANGED <<lock, do_exit, cpc, cleaned, enqueued, handled>>

TakeFirst ==
  /\ wpc = "drain" /\ entries # << >> /\ ~do_exit
  /\ current' = << Head(entries) >> /\ entries' = Tail(entries)
  /\ wpc' = "run"
  /\ UNCHANGED <<lock, do_exit, cpc, cleaned, enqueued, handled>>

LeaveDrain ==
  /\ wpc = "drain" /\ (entries = << >> \/ do_exit)
  /\ wpc' = "check"
  /\ UNCHANGED <<entries, lock, do_exit, cpc, current, cleaned, enqueued, handled>>

FreeCurrent == handled' = handled \o current /\ current' = << >>

(* The callback succeeds, or its error handler tolerates the error: no     *)
(* cleanup.                                                                *)
RunOk ==
  /\ wpc = "run"
  /\ FreeCurrent /\ wpc' = "drain"
  /\ UNCHANGED <<entries, lock, do_exit, cpc, cleaned, enqueued>>

(* The callback fails and there is no error handler. *)
RunFailed ==
  /\ wpc = "run"
  /\ FreeCurrent /\ wpc' = "drain"
  /\ cleaned' = cleaned \cup {current[1]}
  /\ UNCHANGED <<entries, lock, do_exit, cpc, enqueued>>

(* The error handler does not tolerate the error: the worker ends. *)
RunFatal ==
  /\ wpc = "run"
  /\ FreeCurrent /\ wpc' = "dead" /\ lock' = NoOne
  /\ cleaned' = cleaned \cup {current[1]}
  /\ UNCHANGED <<entries, do_exit, cpc, enqueued>>

Worker == \/ WorkerLock \/ CheckExit \/ EnterWait \/ Reacquire \/ TakeFirst
          \/ LeaveDrain \/ RunOk \/ RunFailed \/ RunFatal

-----------------------------------------------------------------------------
(* The client *)

Enqueue(i) ==
  /\ cpc = "idle" /\ lock = NoOne
  /\ i \notin {enqueued[k] : k \in DOMAIN enqueued}
  /\ entries' = Append(entries, i) /\ enqueued' = Append(enqueued, i)
  /\ cpc' = "broadcast"
  /\ UNCHANGED <<lock, do_exit, wpc, current, cleaned, handled>>

WakeNobody == UNCHANGED wpc

WakeWorker == wpc' = IF wpc = "wait" THEN "woken" ELSE wpc

(* After the lock has been released. *)
Broadcast ==
  /\ cpc = "broadcast"
  /\ WakeWorker /\ cpc' = "idle"
  /\ UNCHANGED <<entries, lock, do_exit, current, cleaned, enqueued, handled>>

StopSetExit ==
  /\ cpc = "idle"
  /\ do_exit' = TRUE /\ cpc' = "stop"
  /\ UNCHANGED <<entries, lock, wpc, current, cleaned, enqueued, handled>>

StopBroadcast ==
  /\ cpc = "stop"
  /\ WakeWorker /\ cpc' = "join"
  /\ UNCHANGED <<entries, lock, do_exit, current, cleaned, enqueued, handled>>

StopJoin ==
  /\ cpc = "join" /\ wpc = "dead"
  /\ cpc' = "cleanup"
  /\ UNCHANGED <<entries, lock, do_exit, wpc, current, cleaned, enqueued, handled>>

StopCleanup ==
  /\ cpc = "cleanup" /\ entries # << >>
  /\ entries' = Tail(entries)
  /\ handled' = Append(handled, Head(entries))
  /\ cleaned' = cleaned \cup {Head(entries)}
  /\ UNCHANGED <<lock, do_exit, wpc, cpc, current, enqueued>>

StopDoneAtOnce ==
  /\ cpc = "cleanup"
  /\ cpc' = "done"
  /\ UNCHANGED <<entries, lock, do_exit, wpc, current, cleaned, enqueued, handled>>

StopDone ==
  /\ cpc = "cleanup" /\ entries = << >>
  /\ cpc' = "done"
  /\ UNCHANGED <<entries, lock, do_exit, wpc, current, cleaned, enqueued, handled>>

(* What the client has begun; whether it begins is up to its user. *)
ClientStep == Broadcast \/ StopBroadcast \/ StopJoin \/ StopCleanup \/ StopDone

-----------------------------------------------------------------------------
QueueNext == \/ Worker \/ SpuriousWakeup
             \/ ClientStep \/ StopSetExit
             \/ \E i \in Item : Enqueue(i)
             \/ cpc = "done" /\ UNCHANGED queueVars

(* Both threads are scheduled, callbacks return; nothing is promised about *)
(* spurious wakeups.                                                       *)
QueueSpec == QueueInit /\ [][QueueNext]_queueVars
FairSpec == QueueSpec /\ WF_queueVars(Worker) /\ WF_queueVars(ClientStep)

-----------------------------------------------------------------------------
(* Properties *)

QueueTypeOK ==
  /\ entries \in Seq(Item) /\ enqueued \in Seq(Item) /\ handled \in Seq(Item)
  /\ current \in {<< >>} \cup {<< i >> : i \in Item}
  /\ cleaned \subseteq Item /\ do_exit \in BOOLEAN
  /\ lock \in {NoOne, TheWorker}
  /\ wpc \in {"start", "check", "enter", "wait", "woken", "drain", "run", "dead"}
  /\ cpc \in {"idle", "broadcast", "stop", "join", "cleanup", "done"}

(* No entry is lost, doubled or overtaken: what was handled, what is being *)
(* run and what still waits is, in this order, what was enqueued           *)
(* (workqueue.c:25-27, 59-61, 137).                                        *)
NothingLostOrReordered == enqueued = handled \o current \o entries

(* When stop_workqueue returns every entry has been run or cleaned up, so  *)
(* freeing the queue (workqueue.c:114) leaves nothing behind.              *)
StopLeavesNothing == cpc = "done" => handled = enqueued

(* A broadcast is never lost on a worker that has entered its wait before: *)
(* the entry just enqueued is handled (workqueue.c:136-140).  A worker     *)
(* still on the way to its first wait misses both the broadcast and the    *)
(* entry (workqueue.c:21-23).  Excepted are a stop and a worker that an    *)
(* intolerable error has ended.                                            *)
EnqueuedIsHandled ==
  \A i \in Item :
    (/\ cpc = "broadcast" /\ enqueued[Len(enqueued)] = i
     /\ wpc \notin {"start", "check", "enter"})
      ~> (do_exit \/ wpc = "dead" \/ \E k \in DOMAIN handled : handled[k] = i)

(* stop_workqueue returns, unless do_exit is set while the worker stands   *)
(* between its test of do_exit and its wait (workqueue.c:22-23, 55-57).    *)
StopReturns == cpc = "stop" /\ wpc # "enter" ~> cpc = "done"
=============================================================================
