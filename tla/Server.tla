------------------------------- MODULE Server -------------------------------
(***************************************************************************)
(* The life cycle of the process: what main (main.c:180-472) acquires on   *)
(* its way up, what it gives back on its way down, from wherever it turns  *)
(* round, and which threads use it meanwhile.  The frontends take part     *)
(* with their own ways up and down (sdl.c, vnc.c, linuxfb.c, and the       *)
(* frontend of statistics.c), net_listen and workqueue_init with theirs.   *)
(*                                                                         *)
(* pc is the label or call that main is at.  Threads other than main       *)
(* appear by what they hold on to: the listeners with their connections    *)
(* (module Network), the workers (WorkQueue, Resize), the thread of the    *)
(* statistics frontend (Statistics), the event loop of libvncserver.  That *)
(* a join returns is what those modules are about; here it does.           *)
(***************************************************************************)
EXTENDS Integers, Sequences

CONSTANTS Requests,     \* command lines: the frontends asked for with -f
          NumListeners  \* num_threads of net_listen, option -l

Kind == {"sdl", "vnc", "statistics", "fbdev"}

ASSUME RequestsAssumption  == Requests \subseteq Seq(Kind \cup {"unknown"})
ASSUME ListenersAssumption == NumListeners \in Nat \ {0}

(* What main and the calls it makes allocate or open, besides what belongs *)
(* to a frontend.  node_fb stands for the framebuffers on fb_list.         *)
Object == {"txtrndr", "workqueues", "fb", "net", "addr_list", "socket",
           "threads", "node_fb"}

VARIABLES pc,         \* where main is
          err,        \* is err set?
          up,         \* history: has main reached its loop?
          bound,      \* doshutdown handles SIGINT
          do_exit,    \* the flag that ends the loop
          request,    \* the frontends asked for
          named,      \* frontend_names: the copies that have not been freed
          cnt,        \* frontend_cnt
          fronts,     \* the list of frontends, by their place in request
          own,        \* what each frontend has acquired
          at,         \* the cursor of the loop over the frontends
          resized,    \* fb has no longer the size it was started with
          mem,        \* each object: "none", "live" or "freed"
          queues,     \* num_workqueues
          listeners,  \* how many listening threads run
          pending,    \* a resize of a node's framebuffer is queued or runs
          crash       \* what main or a worker crashed on, or "no"

mainVars  == <<up, bound, do_exit, at, resized>>
frontVars == <<request, named, cnt, fronts, own>>
netVars   == <<queues, listeners, pending>>
vars == <<pc, err, mainVars, frontVars, mem, netVars, crash>>

Init ==
  /\ pc = "options" /\ err = FALSE /\ up = FALSE /\ bound = FALSE
  /\ do_exit = FALSE /\ at = 1 /\ resized = FALSE
  /\ request \in Requests /\ named = {} /\ cnt = 0
  /\ fronts = << >> /\ own = [i \in DOMAIN request |-> {}]
  /\ mem = [o \in Object |-> "none"]
  /\ queues = 0 /\ listeners = 0 /\ pending = FALSE
  /\ crash = "no"

Places == DOMAIN request
KindOf(i) == request[i]
OnFronts == {fronts[k] : k \in DOMAIN fronts}

At(label)   == pc = label /\ crash = "no"
Fail(label) == pc' = label /\ err' = TRUE
Go(label)   == pc' = label /\ UNCHANGED err

-----------------------------------------------------------------------------
(* What a frontend acquires, in this order *)

SdlAlloc        == << "struct", "SDL", "window", "renderer", "texture" >>
VncAlloc        == << "struct", "overlay", "screen" >>
StatisticsStart == << "addr_list", "socket", "thread" >>
FbdevStart      == << "fd", "fbmem" >>

AllocSteps(kind) ==
  CASE kind = "sdl" -> SdlAlloc [] kind = "vnc" -> VncAlloc [] OTHER -> << "struct" >>

StartSteps(kind) ==
  CASE kind = "statistics" -> StatisticsStart [] kind = "fbdev" -> FbdevStart
    [] kind = "vnc" -> << "thread" >> [] OTHER -> << >>

FirstOf(steps, n) == {steps[k] : k \in 1 .. n}
AllOf(steps) == FirstOf(steps, Len(steps))

(* When a call fails, the labels give back what the n calls before it got. *)
Undone(steps, n)    == FirstOf(steps, n)
Withdrawn(steps, n) == FirstOf(steps, n) \ Undone(steps, n)

(* What the free function of a frontend gives back: vnc_free forgets the   *)
(* framebuffer of the overlays, linuxfb_free the copy of the picture.      *)
Freed(kind) == (AllOf(AllocSteps(kind)) \cup AllOf(StartSteps(kind)))
                 \ {"overlay", "fbmem"}

-----------------------------------------------------------------------------
(* Start *)

(* Names are copied and the text renderer allocated as the options come;   *)
(* a bad one ends the start.                                               *)
ParseOptions ==
  /\ At("options")
  /\ \E n \in 0 .. Len(request) :
       /\ named' = 1 .. n /\ cnt' = n
       /\ (n = Len(request) /\ Go("workqueue_init")) \/ Fail("fail")
  /\ mem' \in {mem, [mem EXCEPT !["txtrndr"] = "live"]}
  /\ UNCHANGED <<mainVars, request, fronts, own, netVars, crash>>

(* numa_available says 0 for yes: with NUMA there is one queue, without,   *)
(* as many as the highest node has for a number, which is 0.               *)
WorkqueueInit ==
  /\ At("workqueue_init")
  /\ \/ queues' \in {0, 1} /\ mem' = [mem EXCEPT !["workqueues"] = "live"]
        /\ Go("fb_alloc")
     \/ queues' \in {0, 1} /\ Fail("fail") /\ UNCHANGED mem
     \/ queues' = 1 /\ Fail("fail") /\ mem' = [mem EXCEPT !["workqueues"] = "freed"]
  /\ UNCHANGED <<mainVars, frontVars, listeners, pending, crash>>

Acquire(label, o, next, failure) ==
  /\ At(label)
  /\ \/ mem' = [mem EXCEPT ![o] = "live"] /\ Go(next)
     \/ Fail(failure) /\ UNCHANGED mem
  /\ UNCHANGED <<mainVars, frontVars, netVars, crash>>

(* Wrong variants of an operator, each named for its error, stand before   *)
(* it: what the properties must be able to tell apart.                     *)
GetAddrInfoFreesIt == Acquire("getaddrinfo", "addr_list", "net_listen", "fail_addrinfo")

FbAlloc     == Acquire("fb_alloc", "fb", "front", "fail")
NetAlloc    == Acquire("net_alloc", "net", "signal", "fail_fronts")
GetAddrInfo == Acquire("getaddrinfo", "addr_list", "net_listen", "fail_net")

TakeFront(last) ==
  /\ At("front")
  /\ IF cnt <= last THEN Go("net_alloc") /\ UNCHANGED cnt
     ELSE /\ cnt' = cnt - 1
          /\ Go(IF KindOf(cnt) \in Kind THEN "front_alloc" ELSE "free_name")
  /\ UNCHANGED <<mainVars, request, named, fronts, own, mem, netVars, crash>>

NextFrontButTheFirst == TakeFront(1)

(* The frontends are taken from the last to the first.  One that is not    *)
(* known ends the start, with err still 0.                                 *)
NextFront == TakeFront(0)

This == cnt + 1   \* the frontend taken last

FrontAlloc ==
  LET steps == AllocSteps(KindOf(This))
  IN  /\ At("front_alloc")
      /\ \/ /\ own' = [own EXCEPT ![This] = AllOf(steps)]
            /\ fronts' = Append(fronts, This)
            /\ Go("configure")
         \/ \E n \in 0 .. Len(steps) - 1 :
              /\ own' = [own EXCEPT ![This] = Withdrawn(steps, n)]
              /\ Fail("free_name") /\ UNCHANGED fronts
      /\ UNCHANGED <<mainVars, request, named, cnt, mem, netVars, crash>>

FrontConfigure ==
  /\ At("configure")
  /\ Go("start") \/ (KindOf(This) # "sdl" /\ Fail("free_name"))
  /\ UNCHANGED <<mainVars, frontVars, mem, netVars, crash>>

(* linuxfb_start takes a screen of a depth it does not support for started, *)
(* since err is still 0 then.                                               *)
FrontStart ==
  LET steps == StartSteps(KindOf(This))
      held  == own[This]
  IN  /\ At("start")
      /\ \/ /\ own' = [own EXCEPT ![This] = held \cup AllOf(steps)]
            /\ Go("front") /\ named' = named \ {This}
         \/ /\ KindOf(This) = "fbdev"
            /\ own' = [own EXCEPT ![This] = held \cup Withdrawn(steps, 1)]
            /\ Go("front") /\ named' = named \ {This}
         \/ \E n \in 0 .. Len(steps) - 1 :
              /\ KindOf(This) # "vnc"
              /\ own' = [own EXCEPT ![This] = held \cup Withdrawn(steps, n)]
              /\ Fail("free_name") /\ UNCHANGED named
      /\ UNCHANGED <<mainVars, request, cnt, fronts, mem, netVars, crash>>

FreeNameNotCounted ==
  /\ At("free_name") /\ Go("fail_fronts")
  /\ UNCHANGED <<mainVars, frontVars, mem, netVars, crash>>

(* fail_fronts_free_name: the name of the frontend that failed counts again. *)
FreeName ==
  /\ At("free_name")
  /\ cnt' = cnt + 1
  /\ Go("fail_fronts")
  /\ UNCHANGED <<mainVars, request, named, fronts, own, mem, netVars, crash>>

(* signal returns the old handler: one other than the default is taken for *)
(* a failure.  Nothing is bound if a frontend claims to handle signals, as *)
(* all but SDL's do.                                                       *)
BindSignals ==
  /\ At("signal")
  /\ IF \A i \in OnFronts : KindOf(i) = "sdl"
     THEN \/ bound' = TRUE /\ Go("getaddrinfo")
          \/ bound' \in BOOLEAN /\ Fail("fail_net")
     ELSE Go("getaddrinfo") /\ UNCHANGED bound
  /\ UNCHANGED <<up, do_exit, at, resized, frontVars, mem, netVars, crash>>

(* net_listen up to the array of threads: without socket, or closing it.   *)
NetListen ==
  /\ At("net_listen")
  /\ \/ mem' = [mem EXCEPT !["socket"] = "live", !["threads"] = "live"]
        /\ Go("create")
     \/ mem' \in {mem, [mem EXCEPT !["socket"] = "freed"]}
        /\ Fail("fail_addrinfo")
  /\ UNCHANGED <<mainVars, frontVars, netVars, crash>>

CreateUpTo(n) ==
  /\ At("create")
  /\ \/ /\ listeners' = listeners + 1
        /\ Go(IF listeners' = n THEN "loop" ELSE "create")
        /\ up' = (listeners' = n)
     \/ Fail("fail_pthread_create") /\ UNCHANGED <<listeners, up>>
  /\ UNCHANGED <<bound, do_exit, at, resized, frontVars, mem, queues, pending,
                 crash>>

CreateListenerTooOften == CreateUpTo(NumListeners + 1)

CreateListener == CreateUpTo(NumListeners)

(* net_kill_threads; then the array is freed, but net->threads stays set.  *)
FailPthreadCreate ==
  /\ At("fail_pthread_create")
  /\ listeners' = 0
  /\ mem' = [mem EXCEPT !["threads"] = "freed", !["socket"] = "freed"]
  /\ Go("fail_addrinfo")
  /\ UNCHANGED <<mainVars, frontVars, queues, pending, crash>>

-----------------------------------------------------------------------------
(* The loop, and who else runs *)

(* A connection finds no framebuffer for its node.                         *)
NewNodeFb ==
  /\ crash = "no" /\ listeners > 0 /\ mem["node_fb"] = "none"
  /\ mem' = [mem EXCEPT !["node_fb"] = "live"]
  /\ UNCHANGED <<pc, err, mainVars, frontVars, netVars, crash>>

Interrupt ==
  /\ crash = "no" /\ bound /\ pc # "returned"
  /\ do_exit' = TRUE
  /\ UNCHANGED <<pc, err, up, bound, at, resized, frontVars, mem, netVars, crash>>

(* A worker runs the resizes of its queue.  They are not taken from it     *)
(* when the framebuffers are freed.                                        *)
WorkerResizes ==
  /\ crash = "no" /\ pending /\ pending' = FALSE
  /\ IF mem["node_fb"] = "live"
     THEN do_exit' \in {do_exit, TRUE} /\ UNCHANGED crash
     ELSE crash' \in {"no", "node_fb"} /\ UNCHANGED do_exit
  /\ UNCHANGED <<pc, err, up, bound, at, resized, frontVars, mem, queues,
                 listeners>>

Loop ==
  /\ At("loop")
  /\ IF do_exit THEN Go("net_shutdown") /\ UNCHANGED at
     ELSE Go("update") /\ at' = 1
  /\ UNCHANGED <<up, bound, do_exit, resized, frontVars, mem, netVars, crash>>

EndUpdate ==
  /\ At("update") /\ at > Len(fronts)
  /\ Go("loop")
  /\ UNCHANGED <<mainVars, frontVars, mem, netVars, crash>>

Updating(kind) == At("update") /\ at <= Len(fronts) /\ KindOf(fronts[at]) = kind

(* An update that fails ends the loop.                                     *)
Updated == Go("update") /\ at' = at + 1 /\ UNCHANGED do_exit
Failed  == Fail("loop") /\ do_exit' = TRUE /\ UNCHANGED at

UpdateOf(kind) ==
  /\ Updating(kind)
  /\ Updated \/ (kind # "statistics" /\ Failed)
  /\ UNCHANGED <<up, bound, resized, frontVars, mem, netVars, crash>>

(* A window that has been closed, a server that has been stopped, a device *)
(* that cannot be written; the statistics are copied, which cannot fail.   *)
SdlUpdate        == UpdateOf("sdl")
VncUpdate        == ~resized /\ UpdateOf("vnc")
FbdevUpdate      == /\ at <= Len(fronts) /\ "fbmem" \in own[fronts[at]]
                    /\ UpdateOf("fbdev")
StatisticsUpdate == UpdateOf("statistics")

(* libvncserver keeps the framebuffer it was given, at its first size.     *)
CopyOtherSize ==
  /\ Updating("vnc") /\ resized
  /\ crash' = "fb_copy"
  /\ UNCHANGED <<pc, err, mainVars, frontVars, mem, netVars>>

(* Neither a buffer nor a device: the first pixel is written to no memory, *)
(* or the depth is refused again.                                          *)
UpdateWithoutFbmem ==
  /\ Updating("fbdev") /\ "fbmem" \notin own[fronts[at]]
  /\ \/ crash' = "fbmem" /\ UNCHANGED <<pc, err, at, do_exit>>
     \/ Failed /\ UNCHANGED crash
  /\ UNCHANGED <<up, bound, resized, frontVars, mem, netVars>>

(* resize_cb queues a resize for every node, if there is a queue and the   *)
(* memory; then texture and fb follow, or stay as they are.                *)
SdlResize ==
  /\ Updating("sdl")
  /\ \/ /\ mem["node_fb"] = "live" => queues > 0
        /\ pending' = (pending \/ mem["node_fb"] = "live")
        /\ resized' \in BOOLEAN
        /\ UNCHANGED <<pc, err, at, do_exit>>
     \/ /\ mem["node_fb"] = "live"
        /\ pending' \in {pending, queues > 0}
        /\ Failed /\ UNCHANGED resized
  /\ UNCHANGED <<up, bound, frontVars, mem, queues, listeners, crash>>

-----------------------------------------------------------------------------
(* The way down: each label falls through to the next *)

(* What is undefined to free: twice, or a pointer main has not set.        *)
Unsound(o) == \/ mem[o] = "freed"
              \/ mem[o] = "none" /\ o \in {"fb", "net", "addr_list"}

Free(objects) ==
  /\ mem' = [o \in Object |-> IF o \in objects /\ mem[o] = "live" THEN "freed"
                             ELSE mem[o]]
  /\ crash' \in {"no"} \cup {o \in objects : Unsound(o)}

Release(label, objects, next) ==
  /\ At(label) /\ Go(next) /\ Free(objects)
  /\ UNCHANGED <<mainVars, frontVars, netVars>>

NetShutdownForgotten == Release("net_shutdown", {"socket"}, "fb_free_all")

NetShutdown ==
  /\ At("net_shutdown") /\ Go("fb_free_all")
  /\ listeners' = 0 /\ Free({"socket"})
  /\ UNCHANGED <<mainVars, frontVars, queues, pending>>

FbFreeAll    == Release("fb_free_all", {"node_fb"}, "fail_addrinfo")
FreeAddrInfo == Release("fail_addrinfo", {"addr_list"}, "fail_net")
NetFree      == Release("fail_net", {"threads", "net"}, "fail_fronts")

FreeFront ==
  /\ At("fail_fronts") /\ fronts # << >>
  /\ LET i == Head(fronts)
     IN  own' = [own EXCEPT ![i] = @ \ Freed(KindOf(i))]
  /\ fronts' = Tail(fronts)
  /\ UNCHANGED <<pc, err, mainVars, request, named, cnt, mem, netVars, crash>>

FbFree == fronts = << >> /\ Release("fail_fronts", {"fb"}, "fail")

FreeNames ==
  /\ At("fail") /\ Go("deinit")
  /\ named' = named \ 1 .. cnt /\ cnt' = 0
  /\ Free({"txtrndr"})
  /\ UNCHANGED <<mainVars, request, fronts, own, netVars>>

(* stop_workqueue on each queue there should be, then the array is freed.  *)
WorkqueueDeinit ==
  /\ At("deinit")
  /\ Go("returned")
  /\ queues' = 0 /\ pending' = FALSE
  /\ IF queues > 0 /\ mem["workqueues"] = "none"
     THEN crash' = "workqueues" /\ UNCHANGED mem
     ELSE Free({"workqueues"})
  /\ UNCHANGED <<mainVars, frontVars, listeners>>

Ended == (pc = "returned" \/ crash # "no") /\ UNCHANGED vars

Next ==
  \/ ParseOptions \/ WorkqueueInit \/ FbAlloc \/ NetAlloc \/ GetAddrInfo
  \/ NextFront \/ FrontAlloc \/ FrontConfigure \/ FrontStart \/ FreeName
  \/ BindSignals \/ NetListen \/ CreateListener \/ FailPthreadCreate
  \/ NewNodeFb \/ Interrupt \/ WorkerResizes \/ Loop \/ EndUpdate
  \/ SdlUpdate \/ VncUpdate \/ FbdevUpdate \/ StatisticsUpdate
  \/ CopyOtherSize \/ UpdateWithoutFbmem \/ SdlResize
  \/ NetShutdown \/ FbFreeAll \/ FreeAddrInfo \/ NetFree
  \/ FreeFront \/ FbFree \/ FreeNames \/ WorkqueueDeinit \/ Ended

Spec == Init /\ [][Next]_vars

-----------------------------------------------------------------------------
(* Properties *)

Label ==
  {"options", "workqueue_init", "fb_alloc", "front", "front_alloc", "configure",
   "start", "free_name", "net_alloc", "signal", "getaddrinfo", "net_listen",
   "create", "fail_pthread_create", "loop", "update", "net_shutdown",
   "fb_free_all", "fail_addrinfo", "fail_net", "fail_fronts", "fail", "deinit",
   "returned"}

(* Every variable has its type; at most as many listeners run as asked for. *)
TypeOK ==
  /\ pc \in Label /\ crash \in {"no", "fb_copy", "fbmem"} \cup Object
  /\ {err, up, bound, do_exit, resized, pending} \subseteq BOOLEAN
  /\ request \in Requests /\ named \subseteq Places
  /\ cnt \in 0 .. Len(request) /\ OnFronts \subseteq Places
  /\ at \in 1 .. Len(request) + 1
  /\ \A i \in Places : own[i] \subseteq
        {"struct", "SDL", "window", "renderer", "texture", "overlay", "screen",
         "addr_list", "socket", "thread", "fd", "fbmem"}
  /\ mem \in [Object -> {"none", "live", "freed"}]
  /\ queues \in {0, 1} /\ listeners \in 0 .. NumListeners

(* From wherever main turns round, nothing is freed twice or without having *)
(* been set, and nothing that is missing is used, but for five cases:      *)
(* the array of threads when a listener could not be created               *)
(* (network.c:614), the queues when workqueue_init failed                  *)
(* (workqueue.c:103), a resize that outlives its framebuffer (main.c:441), *)
(* a VNC server beside a window that is resized (framebuffer.c:128), and a *)
(* device whose depth was not refused (linuxfb.c:67).                      *)
CrashesHaveACause ==
  LET kinds == {KindOf(i) : i \in Places}
  IN  CASE crash = "no"         -> TRUE
        [] crash = "threads"    -> ~up /\ listeners = 0
        [] crash = "workqueues" -> ~up /\ mem["fb"] = "none"
        [] crash = "node_fb"    -> up /\ do_exit /\ "sdl" \in kinds
        [] crash = "fb_copy"    -> up /\ {"sdl", "vnc"} \subseteq kinds
        [] crash = "fbmem"      -> up /\ "fbdev" \in kinds
        [] OTHER                -> FALSE

(* What threads work on outlives them: the network for the listeners and   *)
(* their connections, fb and the text renderer for the event loop of       *)
(* libvncserver (draw_overlays), fb for every frontend on the list, and    *)
(* the framebuffers of the nodes for a resize that is queued: until        *)
(* fb_free_all, which does not wait for the workers (main.c:441, 466).     *)
UsersGoFirst ==
  /\ listeners > 0 => \A o \in {"net", "threads", "socket", "fb"} : mem[o] = "live"
  /\ \A i \in Places : "thread" \in own[i] =>
       /\ "struct" \in own[i] /\ mem["fb"] = "live" /\ mem["txtrndr"] # "freed"
       /\ KindOf(i) = "vnc" => {"overlay", "screen"} \subseteq own[i]
  /\ fronts # << >> => mem["fb"] = "live"
  /\ pending /\ mem["node_fb"] # "live" =>
       pc \in {"fail_addrinfo", "fail_net", "fail_fronts", "fail", "deinit"}

(* When main returns nothing is left: no thread, no memory, no name, and   *)
(* no frontend holds anything.  Exceptions: vnc_free forgets the overlay   *)
(* (vnc.c:105-110), linuxfb_free the buffer (linuxfb.c:201-210), and a     *)
(* start that fails behind its first connections the framebuffers of nodes. *)
NothingLeft ==
  pc = "returned" /\ crash = "no" =>
    /\ listeners = 0 /\ ~pending /\ named = {}
    /\ \A o \in Object : mem[o] = "live" => o = "node_fb" /\ ~up
    /\ \A i \in Places : own[i] \subseteq {"overlay", "fbmem"}

(* The loop updates the frontends asked for, each of them once a round and *)
(* with everything that its start acquires.  The exception is a device of  *)
(* a depth that linuxfb_start does not support and does not refuse either  *)
(* (linuxfb.c:66-70): it is updated without buffer and file.               *)
UpdatedIsStarted ==
  pc = "update" =>
    /\ OnFronts = Places /\ Len(fronts) = Len(request)
    /\ \A i \in Places :
         \/ own[i] = AllOf(AllocSteps(KindOf(i))) \cup AllOf(StartSteps(KindOf(i)))
         \/ KindOf(i) = "fbdev" /\ own[i] = {"struct"}
=============================================================================
