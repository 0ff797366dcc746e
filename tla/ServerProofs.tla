---------------------------- MODULE ServerProofs ----------------------------
(***************************************************************************)
(* For every command line and any number of listeners: wherever main turns *)
(* round, what is in use outlives its users, nothing is left when it       *)
(* returns, and every crash has the cause that Server names for it.        *)
(***************************************************************************)
EXTENDS Server, SequenceTheorems, TLAPS

-----------------------------------------------------------------------------
(* The inductive invariant *)

(* The labels of main by what it has got when it is there. *)
BeforeFb     == {"options", "workqueue_init", "fb_alloc"}
AtFronts     == {"front", "front_alloc", "configure", "start", "free_name"}
BeforeListen == {"net_alloc", "signal", "getaddrinfo", "net_listen"}
Listening    == {"create", "fail_pthread_create", "loop", "update", "net_shutdown"}
WayDown      == {"fb_free_all", "fail_addrinfo", "fail_net", "fail_fronts"}
WithoutFb    == {"fail", "deinit", "returned"}

Thing == {"struct", "SDL", "window", "renderer", "texture", "overlay", "screen",
          "addr_list", "socket", "thread", "fd", "fbmem"}

Types ==
  /\ pc \in Label /\ crash \in {"no", "fb_copy", "fbmem"} \cup Object
  /\ {err, up, bound, do_exit, resized, pending} \subseteq BOOLEAN
  /\ request \in Requests /\ cnt \in 0 .. Len(request)
  /\ named \subseteq Places /\ fronts \in Seq(Places)
  /\ own \in [Places -> SUBSET Thing]
  /\ at \in 1 .. Len(request) + 1
  /\ mem \in [Object -> {"none", "live", "freed"}]
  /\ queues \in {0, 1} /\ listeners \in 0 .. NumListeners

(* Each object is live from the step that gets it to the one that gives it *)
(* back, and is given back once.                                           *)
Memory ==
  /\ pc \in BeforeFb => mem["fb"] = "none"
  /\ mem["fb"] = "live" <=> pc \notin BeforeFb \cup WithoutFb
  /\ mem["net"] = "live" <=>
       pc \in {"signal", "getaddrinfo", "net_listen", "fb_free_all",
               "fail_addrinfo", "fail_net"} \cup Listening
  /\ mem["addr_list"] = "live" <=>
       pc \in {"net_listen", "fb_free_all", "fail_addrinfo"} \cup Listening
  /\ mem["socket"] = "live" <=> pc \in Listening
  /\ pc \in Listening => mem["threads"] = "live"
  /\ pc \in {"fail_fronts"} \cup WithoutFb => mem["threads"] # "live"
  /\ pc \in BeforeFb \cup AtFronts \cup BeforeListen => mem["threads"] = "none"
  /\ pc \notin {"deinit", "returned"} => mem["txtrndr"] # "freed"
  /\ pc \in {"deinit", "returned"} => mem["txtrndr"] # "live"

(* Without its work queues the start ends before there is a framebuffer. *)
QueuesMemory ==
  /\ pc \in {"options", "workqueue_init"} => mem["workqueues"] = "none" /\ queues = 0
  /\ pc \notin {"options", "workqueue_init", "fail", "deinit", "returned"}
       => mem["workqueues"] = "live"
  /\ pc \in {"fail", "deinit"} /\ mem["workqueues"] # "live"
       => ~up /\ mem["fb"] = "none"
  /\ pc = "returned" => mem["workqueues"] # "live" /\ queues = 0

(* What main has been through. *)
Progress ==
  /\ pc \in {"loop", "update", "net_shutdown", "fb_free_all"} => up
  /\ up => \/ pc \in {"loop", "update"}
           \/ do_exit /\ pc \in {"net_shutdown"} \cup WayDown \cup WithoutFb
  /\ up /\ pc \in {"fb_free_all", "fail_addrinfo", "fail_net"} => mem["threads"] = "live"
  /\ listeners > 0 => pc \in Listening
  /\ pc = "create" => listeners < NumListeners
  /\ resized => "sdl" \in {KindOf(i) : i \in Places}

(* The framebuffers of the nodes, and who resizes them. *)
NodeFbs ==
  /\ pc \in BeforeFb \cup AtFronts \cup BeforeListen => mem["node_fb"] = "none"
  /\ mem["node_fb"] = "freed" => pc \in (WayDown \ {"fb_free_all"}) \cup WithoutFb
  /\ up /\ pc \in (WayDown \ {"fb_free_all"}) \cup WithoutFb => mem["node_fb"] # "live"
  /\ pending => /\ up /\ pc # "returned"
                /\ "sdl" \in {KindOf(i) : i \in Places}
                /\ mem["node_fb"] = "live"
                     \/ pc \in (WayDown \ {"fb_free_all"}) \cup {"fail", "deinit"}

(* The frontends on the list are the places above n, the last one first. *)
Taken(n) ==
  /\ Len(fronts) = Len(request) - n
  /\ \A k \in DOMAIN fronts : fronts[k] = Len(request) + 1 - k

Full(i) == AllOf(AllocSteps(KindOf(i))) \cup AllOf(StartSteps(KindOf(i)))

Started(i) == own[i] = Full(i) \/ (KindOf(i) = "fbdev" /\ own[i] = {"struct"})

FrontList ==
  /\ pc \in BeforeFb \cup WithoutFb => fronts = << >>
  /\ pc \in {"workqueue_init", "fb_alloc"} => cnt = Len(request)
  /\ pc \in {"front", "configure", "start"} => Taken(cnt)
  /\ pc = "front_alloc" => Taken(cnt + 1)
  /\ pc \in BeforeListen \cup Listening => cnt = 0 /\ Taken(0)
  /\ pc \in {"front_alloc", "configure", "start", "free_name"} => cnt < Len(request)
  /\ \A j, k \in DOMAIN fronts : fronts[j] = fronts[k] => j = k

(* A frontend on the list holds what allocating it or what starting it     *)
(* acquires, and one that is not there what its free function forgets.     *)
Holdings ==
  /\ \A i \in Places : IF i \in OnFronts
                       THEN own[i] \in {AllOf(AllocSteps(KindOf(i))), Full(i)}
                       ELSE own[i] \subseteq {"overlay", "fbmem"}
  /\ pc \in {"front"} \cup BeforeListen \cup Listening =>
       \A i \in Places : i > cnt => Started(i)
  /\ pc \in {"front_alloc", "configure", "start"} =>
       \A i \in Places : i > cnt + 1 => Started(i)
  /\ pc \in {"configure", "start"} => own[This] = AllOf(AllocSteps(KindOf(This)))

(* The copies of the names that are left are those that are counted. *)
Names ==
  /\ pc \in {"front_alloc", "configure", "start", "free_name"} => named \subseteq 1 .. cnt + 1
  /\ pc \notin {"front_alloc", "configure", "start", "free_name"} => named \subseteq 1 .. cnt
  /\ pc \in {"deinit", "returned"} => named = {}

Inv == /\ Types /\ Memory /\ QueuesMemory /\ Progress /\ NodeFbs
       /\ FrontList /\ Holdings /\ Names /\ CrashesHaveACause

-----------------------------------------------------------------------------
(* Memory, and who uses it *)

LEMMA ControlKept ==
  ASSUME Inv, Next
  PROVE  Memory' /\ QueuesMemory' /\ Progress' /\ NodeFbs'
  <1> USE ListenersAssumption
      DEF Inv, Types, Memory, QueuesMemory, Progress, NodeFbs, Places, KindOf,
          BeforeFb, AtFronts, BeforeListen, Listening, WayDown, WithoutFb, Label,
          At, Go, Fail, Free, Object, mainVars, frontVars, netVars, vars
  <1>1. CASE ParseOptions
    BY <1>1 DEF ParseOptions
  <1>2. CASE WorkqueueInit
    BY <1>2 DEF WorkqueueInit
  <1>3. CASE FbAlloc
    BY <1>3 DEF FbAlloc, Acquire
  <1>4. CASE NetAlloc
    BY <1>4 DEF NetAlloc, Acquire
  <1>5. CASE GetAddrInfo
    BY <1>5 DEF GetAddrInfo, Acquire
  <1>6. CASE NextFront \/ FrontAlloc
    BY <1>6 DEF NextFront, TakeFront, FrontAlloc
  <1>7. CASE FrontConfigure \/ FrontStart \/ FreeName
    <2>1. /\ pc \in AtFronts /\ pc' \in {"front", "start", "free_name", "fail_fronts"}
          /\ UNCHANGED <<mainVars, request, mem, netVars, crash>>
          /\ pc' = "fail_fronts" => pc = "free_name"
      BY <1>7 DEF FrontConfigure, FrontStart, FreeName
    <2> QED
      BY <2>1
  <1>8. CASE BindSignals
    BY <1>8 DEF BindSignals
  <1>9. CASE NetListen
    <2>1. CASE /\ mem' = [mem EXCEPT !["socket"] = "live", !["threads"] = "live"]
               /\ Go("create")
      BY <1>9, <2>1 DEF NetListen
    <2>2. CASE /\ mem' \in {mem, [mem EXCEPT !["socket"] = "freed"]}
               /\ Fail("fail_addrinfo")
      BY <1>9, <2>2 DEF NetListen
    <2> QED
      BY <1>9, <2>1, <2>2 DEF NetListen
  <1>10. CASE CreateListener
    <2>1. CASE listeners' = listeners + 1
      <3>1. IF listeners' = NumListeners THEN up' /\ pc' = "loop" ELSE ~up' /\ pc' = "create"
        <4>1. listeners' # listeners
          BY <2>1
        <4>2. /\ pc' = IF listeners' = NumListeners THEN "loop" ELSE "create"
              /\ up' = (listeners' = NumListeners)
          BY <1>10, <4>1 DEF CreateListener, CreateUpTo
        <4> QED
          BY <4>2
      <3>2. listeners < NumListeners /\ pc = "create"
        BY <1>10 DEF CreateListener, CreateUpTo
      <3> QED
        BY <1>10, <2>1, <3>1, <3>2 DEF CreateListener, CreateUpTo
    <2>3. CASE Fail("fail_pthread_create") /\ UNCHANGED <<listeners, up>>
      BY <1>10, <2>3 DEF CreateListener, CreateUpTo
    <2> QED
      BY <1>10, <2>1, <2>3 DEF CreateListener, CreateUpTo
  <1>11. CASE FailPthreadCreate
    BY <1>11 DEF FailPthreadCreate
  <1>12. CASE NewNodeFb \/ Interrupt
    BY <1>12 DEF NewNodeFb, Interrupt
  <1>26. CASE WorkerResizes
    BY <1>26, ZenonT(60) DEF WorkerResizes
  <1>13. CASE Loop \/ EndUpdate
    BY <1>13 DEF Loop, EndUpdate
  <1>14. CASE SdlUpdate \/ VncUpdate \/ FbdevUpdate \/ StatisticsUpdate
    <2>1. /\ pc = "update" /\ pc' \in {"update", "loop"}
          /\ UNCHANGED <<up, bound, resized, frontVars, mem, netVars, crash>>
      BY <1>14 DEF SdlUpdate, VncUpdate, FbdevUpdate, StatisticsUpdate, UpdateOf,
                   Updating, Updated, Failed
    <2> QED
      BY <2>1
  <1>15. CASE CopyOtherSize \/ UpdateWithoutFbmem
    <2>1. /\ pc = "update" /\ pc' \in {"update", "loop"}
          /\ UNCHANGED <<up, bound, resized, frontVars, mem, netVars>>
      BY <1>15 DEF CopyOtherSize, UpdateWithoutFbmem, Updating, Failed
    <2> QED
      BY <2>1
  <1>16. CASE SdlResize
    BY <1>16 DEF SdlResize, Updating, Failed
  <1>17. CASE NetShutdown
    BY <1>17 DEF NetShutdown
  <1>18. CASE FbFreeAll
    <2>1. /\ \A o \in Object \ {"node_fb"} : mem'[o] = mem[o]
          /\ mem["node_fb"] # "freed"
          /\ mem'["node_fb"] = IF mem["node_fb"] = "live" THEN "freed" ELSE "none"
      BY <1>18 DEF FbFreeAll, Release
    <2>2. pc = "fb_free_all" /\ pc' = "fail_addrinfo" /\ UNCHANGED <<mainVars, frontVars, netVars>>
      BY <1>18 DEF FbFreeAll, Release
    <2> QED
      <3>1. Memory' /\ QueuesMemory'
        BY <2>1, <2>2
      <3>2. Progress' /\ NodeFbs'
        BY <2>1, <2>2
      <3> QED
        BY <3>1, <3>2
  <1>19. CASE FreeAddrInfo
    BY <1>19 DEF FreeAddrInfo, Release
  <1>20. CASE NetFree
    BY <1>20 DEF NetFree, Release
  <1>21. CASE FreeFront
    BY <1>21 DEF FreeFront
  <1>22. CASE FbFree
    BY <1>22 DEF FbFree, Release
  <1>23. CASE FreeNames
    BY <1>23 DEF FreeNames
  <1>24. CASE WorkqueueDeinit
    BY <1>24 DEF WorkqueueDeinit
  <1>25. CASE Ended
    BY <1>25 DEF Ended
  <1> QED
    BY <1>1, <1>2, <1>3, <1>4, <1>5, <1>6, <1>7, <1>8, <1>9, <1>10, <1>11,
       <1>12, <1>13, <1>14, <1>15, <1>16, <1>17, <1>18, <1>19, <1>20, <1>21,
       <1>22, <1>23, <1>24, <1>25, <1>26 DEF Next

-----------------------------------------------------------------------------
(* Crashes *)

LEMMA CrashesKept == ASSUME Inv, Next PROVE CrashesHaveACause'
  <1> USE DEF Inv, Types, CrashesHaveACause, Places, KindOf, At, Object,
              mainVars, frontVars, netVars, vars
  <1>1. CASE crash' = "no"
    BY <1>1
  <1>2. CASE crash' # "no" /\ crash # "no"
    <2>1. Ended
      BY <1>2 DEF Next, ParseOptions, WorkqueueInit, FbAlloc, NetAlloc, GetAddrInfo,
        Acquire, NextFront, TakeFront, FrontAlloc, FrontConfigure, FrontStart, FreeName,
        BindSignals, NetListen, CreateListener, CreateUpTo, FailPthreadCreate, NewNodeFb,
        Interrupt, WorkerResizes, Loop, EndUpdate, SdlUpdate, VncUpdate, FbdevUpdate,
        StatisticsUpdate, UpdateOf, Updating, CopyOtherSize, UpdateWithoutFbmem,
        SdlResize, NetShutdown, FbFreeAll, FreeAddrInfo, NetFree, Release, FreeFront,
        FbFree, FreeNames, WorkqueueDeinit
    <2> QED
      BY <2>1 DEF Ended
  <1>3. CASE crash' # "no" /\ crash = "no"
    <2> USE <1>3
    <2>1. CASE WorkerResizes
      BY <2>1 DEF WorkerResizes, NodeFbs, Progress, WayDown, WithoutFb
    <2>2. CASE CopyOtherSize
      <3>1. pc = "update" /\ fronts[at] \in Places /\ request[fronts[at]] = "vnc"
        BY <2>2 DEF CopyOtherSize, Updating
      <3> QED
        BY <2>2, <3>1 DEF CopyOtherSize, Progress
    <2>3. CASE UpdateWithoutFbmem
      <3>1. pc = "update" /\ fronts[at] \in Places /\ request[fronts[at]] = "fbdev"
        BY <2>3 DEF UpdateWithoutFbmem, Updating
      <3> QED
        BY <2>3, <3>1 DEF UpdateWithoutFbmem, Progress
    <2>4. CASE NetShutdown
      BY <2>4 DEF NetShutdown, Free, Unsound, Memory, Listening
    <2>5. CASE FbFreeAll
      BY <2>5 DEF FbFreeAll, Release, Free, Unsound, NodeFbs, WithoutFb, WayDown
    <2>6. CASE FreeAddrInfo
      BY <2>6 DEF FreeAddrInfo, Release, Free, Unsound, Memory
    <2>7. CASE NetFree
      BY <2>7 DEF NetFree, Release, Free, Unsound, Memory, Progress, Listening
    <2>8. CASE FbFree
      BY <2>8 DEF FbFree, Release, Free, Unsound, Memory, WithoutFb, BeforeFb
    <2>9. CASE FreeNames
      BY <2>9 DEF FreeNames, Free, Unsound, Memory
    <2>10. CASE WorkqueueDeinit
      BY <2>10 DEF WorkqueueDeinit, Free, Unsound, QueuesMemory
    <2>11. CASE Ended
      BY <2>11 DEF Ended
    <2> QED
      BY <2>1, <2>2, <2>3, <2>4, <2>5, <2>6, <2>7, <2>8, <2>9, <2>10, <2>11
         DEF Next, ParseOptions, WorkqueueInit, FbAlloc, NetAlloc, GetAddrInfo,
        Acquire, NextFront, TakeFront, FrontAlloc, FrontConfigure, FrontStart, FreeName,
        BindSignals, NetListen, CreateListener, CreateUpTo, FailPthreadCreate, NewNodeFb,
        Interrupt, Loop, EndUpdate, SdlUpdate, VncUpdate, FbdevUpdate,
        StatisticsUpdate, UpdateOf, SdlResize, FreeFront
  <1> QED
    BY <1>1, <1>2, <1>3

-----------------------------------------------------------------------------
(* What frontends acquire *)

LEMMA StepFacts ==
  ASSUME NEW kind
  PROVE  /\ AllOf(AllocSteps(kind)) \subseteq Thing
         /\ AllOf(StartSteps(kind)) \subseteq Thing
         /\ "struct" \in AllOf(AllocSteps(kind)) /\ "thread" \notin AllOf(AllocSteps(kind))
         /\ kind = "vnc" => {"overlay", "screen"} \subseteq AllOf(AllocSteps(kind))
         /\ kind = "fbdev" => AllOf(AllocSteps(kind)) = {"struct"}
  <1> USE DEF AllOf, FirstOf, Thing
  <1>1. /\ AllOf(<< >>) = {} /\ AllOf(<< "struct" >>) = {"struct"}
        /\ AllOf(<< "thread" >>) = {"thread"} /\ AllOf(FbdevStart) = {"fd", "fbmem"}
    BY DEF FbdevStart
  <1>2. AllOf(VncAlloc) = {"struct", "overlay", "screen"}
    BY DEF VncAlloc
  <1>3. AllOf(StatisticsStart) = {"addr_list", "socket", "thread"}
    BY DEF StatisticsStart
  <1>4. AllOf(SdlAlloc) = {"struct", "SDL", "window", "renderer", "texture"}
    BY DEF SdlAlloc
  <1> HIDE DEF AllOf
  <1>5. AllocSteps(kind) \in {SdlAlloc, VncAlloc, << "struct" >>}
    BY DEF AllocSteps
  <1>6. kind = "vnc" => AllocSteps(kind) = VncAlloc
    BY DEF AllocSteps
  <1>7. kind = "fbdev" => AllocSteps(kind) = << "struct" >>
    BY DEF AllocSteps
  <1>8. StartSteps(kind) \in {StatisticsStart, FbdevStart, << "thread" >>, << >>}
    BY DEF StartSteps
  <1> QED
    BY <1>1, <1>2, <1>3, <1>4, <1>5, <1>6, <1>7, <1>8

-----------------------------------------------------------------------------
(* The list of frontends *)

LEMMA RequestIsSeq == ASSUME Inv PROVE request \in Seq(Kind \cup {"unknown"})
                                       /\ Places = 1 .. Len(request) /\ Len(request) \in Nat
  BY RequestsAssumption DEF Inv, Types, Places

(* The steps that have nothing to do with frontends. *)
LEMMA FrontFrame ==
  ASSUME Inv, Next
  PROVE  \/ /\ UNCHANGED frontVars
            /\ \/ pc' = pc
               \/ pc \in BeforeListen \cup Listening /\ pc' \in BeforeListen \cup Listening
               \/ pc \in BeforeListen \cup Listening \cup WayDown /\ pc' \in WayDown
               \/ pc = "deinit" /\ pc' = "returned"
         \/ ParseOptions \/ WorkqueueInit \/ FbAlloc \/ NextFront \/ FrontAlloc
         \/ FrontConfigure \/ FrontStart \/ FreeName \/ FreeFront \/ FbFree \/ FreeNames
  <1> USE DEF At, Go, Fail, frontVars, netVars, vars, BeforeListen, Listening, WayDown
  <1>1. CASE NetAlloc \/ GetAddrInfo \/ BindSignals \/ NetListen
    BY <1>1 DEF NetAlloc, GetAddrInfo, Acquire, BindSignals, NetListen
  <1>2. CASE CreateListener \/ FailPthreadCreate
    BY <1>2 DEF CreateListener, CreateUpTo, FailPthreadCreate
  <1>3. CASE NewNodeFb \/ Interrupt \/ WorkerResizes \/ Loop \/ EndUpdate
    BY <1>3 DEF NewNodeFb, Interrupt, WorkerResizes, Loop, EndUpdate
  <1>4. CASE SdlUpdate \/ VncUpdate \/ FbdevUpdate \/ StatisticsUpdate
    BY <1>4 DEF SdlUpdate, VncUpdate, FbdevUpdate, StatisticsUpdate, UpdateOf,
                Updating, Updated, Failed
  <1>5. CASE CopyOtherSize \/ UpdateWithoutFbmem \/ SdlResize
    BY <1>5 DEF CopyOtherSize, UpdateWithoutFbmem, SdlResize, Updating, Failed
  <1>6. CASE NetShutdown \/ FbFreeAll \/ FreeAddrInfo \/ NetFree \/ WorkqueueDeinit \/ Ended
    BY <1>6 DEF NetShutdown, FbFreeAll, FreeAddrInfo, NetFree, Release,
                WorkqueueDeinit, Ended
  <1> QED
    BY <1>1, <1>2, <1>3, <1>4, <1>5, <1>6 DEF Next

LEMMA FrontListKept == ASSUME Inv, Next PROVE FrontList'
  <1> USE RequestIsSeq DEF At, Go, Fail, mainVars, frontVars, netVars, vars, BeforeFb, BeforeListen,
                           Listening, WithoutFb
  <1>0. FrontList /\ fronts \in Seq(Places) /\ cnt \in 0 .. Len(request)
    BY DEF Inv, Types
  <1>1. CASE NextFront
    BY <1>0, <1>1, SMTT(30) DEF NextFront, TakeFront, FrontList, Taken
  <1>2. CASE FrontAlloc
    <2>1. CASE fronts' = Append(fronts, This) /\ Go("configure")
      <3>1. /\ pc = "front_alloc" /\ Taken(cnt + 1) /\ cnt < Len(request)
            /\ UNCHANGED <<request, cnt>> /\ This \in Places
        BY <1>0, <1>2 DEF FrontAlloc, FrontList, This
      <3>2. /\ Len(fronts') = Len(fronts) + 1 /\ fronts'[Len(fronts) + 1] = cnt + 1
            /\ \A k \in 1 .. Len(fronts) : fronts'[k] = fronts[k]
            /\ DOMAIN fronts' = 1 .. Len(fronts) + 1 /\ DOMAIN fronts = 1 .. Len(fronts)
        BY <1>0, <2>1, <3>1, AppendProperties DEF This
      <3>3. Taken(cnt)'
        <4>1. Len(fronts) = Len(request) - (cnt + 1)
          BY <3>1 DEF Taken
        <4>2. \A k \in DOMAIN fronts' : fronts'[k] = Len(request) + 1 - k
          <5>1. ASSUME NEW k \in DOMAIN fronts' PROVE fronts'[k] = Len(request) + 1 - k
            <6>1. CASE k \in DOMAIN fronts
              BY <3>1, <3>2, <6>1 DEF Taken
            <6>2. CASE k = Len(fronts) + 1
              BY <1>0, <3>1, <3>2, <4>1, <6>2
            <6> QED
              BY <1>0, <3>2, <5>1, <6>1, <6>2
          <5> QED
            BY <5>1
        <4> QED
          BY <1>0, <3>1, <3>2, <4>1, <4>2 DEF Taken
      <3>4. \A j, k \in DOMAIN fronts' : fronts'[j] = fronts'[k] => j = k
        BY <1>0, <3>3 DEF Taken
      <3> QED
        BY <2>1, <3>1, <3>3, <3>4 DEF FrontList
    <2>2. CASE UNCHANGED fronts /\ Fail("free_name")
      BY <1>0, <1>2, <2>2 DEF FrontAlloc, FrontList
    <2> QED
      BY <1>2, <2>1, <2>2 DEF FrontAlloc
  <1>3. CASE FrontConfigure \/ FrontStart \/ FreeName
    BY <1>0, <1>3 DEF FrontConfigure, FrontStart, FreeName, FrontList, Taken
  <1>4. CASE FreeFront
    <2>1. /\ Len(fronts') = Len(fronts) - 1 /\ fronts' \in Seq(Places)
          /\ \A k \in 1 .. Len(fronts) - 1 : fronts'[k] = fronts[k + 1]
      BY <1>0, <1>4 DEF FreeFront
    <2>2. ASSUME NEW j \in DOMAIN fronts', NEW k \in DOMAIN fronts', fronts'[j] = fronts'[k]
          PROVE  j = k
      <3>1. Len(fronts) \in Nat /\ DOMAIN fronts = 1 .. Len(fronts)
        BY <1>0
      <3>2. /\ j \in 1 .. Len(fronts) - 1 /\ k \in 1 .. Len(fronts) - 1
            /\ j + 1 \in DOMAIN fronts /\ k + 1 \in DOMAIN fronts
        BY <2>1, <2>2, <3>1, SMTT(30)
      <3> QED
        <4>1. fronts[j + 1] = fronts[k + 1]
          BY <2>1, <2>2, <3>2, SMTT(30)
        <4>2. j + 1 = k + 1
          BY <1>0, <3>2, <4>1 DEF FrontList
        <4> QED
          BY <3>2, <4>2
    <2>3. pc' = "fail_fronts"
      BY <1>4 DEF FreeFront
    <2> QED
      BY <2>2, <2>3 DEF FrontList
  <1>5. CASE FbFree
    BY <1>0, <1>5 DEF FbFree, Release, FrontList
  <1>6. CASE ParseOptions
    BY <1>0, <1>6 DEF ParseOptions, FrontList
  <1>7. CASE FreeNames
    BY <1>0, <1>7 DEF FreeNames, FrontList
  <1>8. CASE WorkqueueInit \/ FbAlloc
    BY <1>0, <1>8 DEF WorkqueueInit, FbAlloc, Acquire, FrontList, Taken
  <1>9. CASE /\ UNCHANGED frontVars
             /\ \/ pc' = pc
                \/ pc \in BeforeListen \cup Listening /\ pc' \in BeforeListen \cup Listening
                \/ pc' \in WayDown
                \/ pc = "deinit" /\ pc' = "returned"
    BY <1>0, <1>9 DEF FrontList, Taken, WayDown
  <1> QED
    BY <1>1, <1>2, <1>3, <1>4, <1>5, <1>6, <1>7, <1>8, <1>9, FrontFrame

LEMMA HoldingsKept == ASSUME Inv, Next PROVE Holdings'
  <1> USE RequestIsSeq DEF At, Go, Fail, frontVars, BeforeListen, Listening, WayDown
  <1>0. /\ Holdings /\ FrontList /\ fronts \in Seq(Places) /\ cnt \in 0 .. Len(request)
        /\ own \in [Places -> SUBSET Thing]
    BY DEF Inv, Types
  <1>1. CASE /\ UNCHANGED <<request, fronts, own>>
             /\ \/ pc' \notin {"front", "front_alloc", "configure", "start"}
                               \cup BeforeListen \cup Listening
                \/ pc' = "front" /\ cnt' = Len(request)
                \/ cnt' = cnt /\ pc' = pc
                \/ /\ cnt' = cnt /\ pc \in {"front"} \cup BeforeListen \cup Listening
                   /\ pc' \in BeforeListen \cup Listening
                \/ cnt' = cnt - 1 /\ pc = "front" /\ pc' = "front_alloc"
                \/ cnt' = cnt /\ pc = "configure" /\ pc' = "start"
    <2>1. OnFronts' = OnFronts /\ Places' = Places
      BY <1>1 DEF OnFronts, Places
    <2>2. \A i \in Places : Started(i) => Started(i)'
      BY <1>1 DEF Started, Full, KindOf
    <2>3. \A i \in Places : Full(i)' = Full(i) /\ KindOf(i)' = KindOf(i)
      BY <1>1 DEF Full, KindOf
    <2>4. (\A i \in Places : IF i \in OnFronts
                              THEN own[i] \in {AllOf(AllocSteps(KindOf(i))), Full(i)}
                              ELSE own[i] \subseteq {"overlay", "fbmem"})'
      BY <1>0, <1>1, <2>1, <2>3 DEF Holdings
    <2>5. (pc \in {"front"} \cup BeforeListen \cup Listening =>
             \A i \in Places : i > cnt => Started(i))'
      BY <1>0, <1>1, <2>1, <2>2 DEF Holdings
    <2>6. (pc \in {"front_alloc", "configure", "start"} =>
             \A i \in Places : i > cnt + 1 => Started(i))'
      BY <1>0, <1>1, <2>1, <2>2 DEF Holdings
    <2>7. (pc \in {"configure", "start"} => own[This] = AllOf(AllocSteps(KindOf(This))))'
      BY <1>0, <1>1 DEF Holdings, This, KindOf
    <2> QED
      BY <2>4, <2>5, <2>6, <2>7 DEF Holdings
  <1>2. CASE NextFront
    BY <1>0, <1>1, <1>2 DEF NextFront, TakeFront
  <1>3. CASE FrontConfigure
    BY <1>1, <1>3 DEF FrontConfigure
  <1>4. CASE ParseOptions \/ WorkqueueInit \/ FbAlloc \/ FreeName \/ FbFree \/ FreeNames
    BY <1>0, <1>1, <1>4 DEF ParseOptions, WorkqueueInit, FbAlloc, Acquire, FreeName,
                            FbFree, FreeNames, Release, FrontList
  <1>5. CASE FrontAlloc
    <2>1. PICK i \in Places : i = cnt + 1
      BY <1>0, <1>5 DEF FrontAlloc, FrontList
    <2>2. /\ pc = "front_alloc" /\ UNCHANGED <<request, cnt>>
          /\ \A j \in Places : j > i => Started(j)
      BY <1>0, <1>5, <2>1 DEF FrontAlloc, Holdings
    <2>3. i \notin OnFronts
      BY <1>0, <2>1, <2>2 DEF FrontList, Taken, OnFronts
    <2>4. CASE /\ own' = [own EXCEPT ![i] = AllOf(AllocSteps(KindOf(i)))]
               /\ fronts' = Append(fronts, i) /\ pc' = "configure"
      <3>1. OnFronts' = OnFronts \cup {i}
        <4>1. /\ DOMAIN fronts' = 1 .. Len(fronts) + 1 /\ DOMAIN fronts = 1 .. Len(fronts)
              /\ Len(fronts) \in Nat /\ fronts'[Len(fronts) + 1] = i
              /\ \A k \in 1 .. Len(fronts) : fronts'[k] = fronts[k]
          BY <1>0, <2>4, AppendProperties
        <4> QED
          BY <4>1 DEF OnFronts
      <3>2. /\ own'[i] = AllOf(AllocSteps(KindOf(i)))
            /\ \A j \in Places \ {i} : own'[j] = own[j]
        BY <1>0, <2>4
      <3> QED
        BY <1>0, <2>1, <2>2, <2>4, <3>1, <3>2 DEF Holdings, Started, Full, KindOf, This, Places
    <2>5. CASE own' = [own EXCEPT ![i] = {}] /\ UNCHANGED fronts /\ pc' = "free_name"
      <3>1. OnFronts' = OnFronts
        BY <2>5 DEF OnFronts
      <3>2. own'[i] = {} /\ \A j \in Places \ {i} : own'[j] = own[j]
        BY <1>0, <2>5
      <3> QED
        BY <1>0, <2>2, <2>3, <2>5, <3>1, <3>2 DEF Holdings, Full, KindOf, Places
    <2> QED
      BY <1>5, <2>1, <2>4, <2>5 DEF FrontAlloc, This, Withdrawn, Undone
  <1>6. CASE FrontStart
    <2>1. PICK i \in Places : i = cnt + 1
      BY <1>0, <1>6 DEF FrontStart, FrontList
    <2>2. /\ own[i] = AllOf(AllocSteps(KindOf(i)))
          /\ UNCHANGED <<request, cnt, fronts>>
          /\ \A j \in Places : j > i => Started(j)
      BY <1>0, <1>6, <2>1 DEF FrontStart, Holdings, This
    <2>3. i \in OnFronts
      BY <1>0, <2>2, StepFacts DEF Holdings
    <2>4. PICK held \in {AllOf(AllocSteps(KindOf(i))), Full(i)} :
            /\ own' = [own EXCEPT ![i] = held]
            /\ pc' = "front" => held = Full(i) \/ KindOf(i) = "fbdev"
            /\ pc' \in {"front", "free_name"}
      BY <1>6, <2>1, <2>2 DEF FrontStart, This, Withdrawn, Undone, Full
    <2>5. held = Full(i) \/ KindOf(i) = "fbdev" => Started(i)'
      BY <1>0, <2>2, <2>4, StepFacts DEF Started, Full, KindOf
    <2>6. OnFronts' = OnFronts /\ \A j \in Places \ {i} : own'[j] = own[j] /\ own'[i] = held
      BY <1>0, <2>2, <2>4 DEF OnFronts
    <2> QED
      <3>1. Places' = Places
        BY <2>2 DEF Places
      <3>2. \A j \in Places : Full(j)' = Full(j) /\ KindOf(j)' = KindOf(j)
        BY <2>2 DEF Full, KindOf
      <3>3. (\A j \in Places : IF j \in OnFronts
                                THEN own[j] \in {AllOf(AllocSteps(KindOf(j))), Full(j)}
                                ELSE own[j] \subseteq {"overlay", "fbmem"})'
        BY <1>0, <2>3, <2>4, <2>6, <3>1, <3>2 DEF Holdings
      <3>4. \A j \in Places : j > i => Started(j)'
        BY <2>2, <2>6, <3>2 DEF Started
      <3>5. pc' = "front" => \A j \in Places : j > cnt => Started(j)'
        BY <1>0, <2>1, <2>4, <2>5, <3>4
      <3> QED
        BY <2>2, <2>4, <3>1, <3>3, <3>5 DEF Holdings
  <1>7. CASE FreeFront
    <2>1. fronts # << >> /\ fronts \in Seq(Places)
      BY <1>0, <1>7 DEF FreeFront
    <2>2. PICK i \in Places : i = Head(fronts) /\ i = fronts[1]
      BY <2>1
    <2>3. /\ own' = [own EXCEPT ![i] = @ \ Freed(KindOf(i))]
          /\ fronts' = Tail(fronts) /\ pc' = "fail_fronts" /\ UNCHANGED <<request, cnt>>
      BY <1>7, <2>2 DEF FreeFront
    <2>4. OnFronts' = OnFronts \ {i}
      <3>1. /\ DOMAIN fronts = 1 .. Len(fronts) /\ Len(fronts) \in Nat /\ Len(fronts) > 0
            /\ DOMAIN fronts' = 1 .. Len(fronts) - 1
            /\ \A k \in 1 .. Len(fronts) - 1 : fronts'[k] = fronts[k + 1]
        BY <2>1, <2>3
      <3>2. \A k \in DOMAIN fronts : fronts[k] = i => k = 1
        <4>1. 1 \in DOMAIN fronts
          BY <3>1
        <4> QED
          BY <1>0, <2>2, <4>1 DEF FrontList
      <3>3. ASSUME NEW j \in OnFronts, j # i PROVE j \in OnFronts'
        <4>1. PICK k \in DOMAIN fronts : fronts[k] = j
          BY <3>3 DEF OnFronts
        <4>2. k - 1 \in DOMAIN fronts' /\ fronts'[k - 1] = j
          BY <2>2, <3>1, <3>3, <4>1
        <4> QED
          BY <4>2 DEF OnFronts
      <3>4. ASSUME NEW j \in OnFronts' PROVE j \in OnFronts /\ j # i
        <4>1. PICK k \in DOMAIN fronts' : fronts'[k] = j
          BY <3>4 DEF OnFronts
        <4>2. k + 1 \in DOMAIN fronts /\ fronts[k + 1] = j /\ k + 1 # 1
          BY <3>1, <4>1
        <4> QED
          BY <3>2, <4>2 DEF OnFronts
      <3> QED
        BY <3>3, <3>4
    <2>5. own'[i] \subseteq {"overlay", "fbmem"} /\ \A j \in Places \ {i} : own'[j] = own[j]
      <3>1. own[i] \subseteq AllOf(AllocSteps(KindOf(i))) \cup AllOf(StartSteps(KindOf(i)))
        BY <1>0, <2>1, <2>2 DEF Holdings, OnFronts, Full
      <3> QED
        BY <1>0, <2>3, <3>1 DEF Freed
    <2> QED
      BY <1>0, <2>3, <2>4, <2>5 DEF Holdings, Full, KindOf, Places
  <1> QED
    BY <1>0, <1>1, <1>2, <1>3, <1>4, <1>5, <1>6, <1>7, FrontFrame

LEMMA NamesKept == ASSUME Inv, Next PROVE Names'
  <1> USE RequestIsSeq DEF At, Go, Fail, frontVars, BeforeListen, Listening, WayDown
  <1>0. Names /\ cnt \in 0 .. Len(request) /\ named \subseteq Places
    BY DEF Inv, Types
  <1>1. CASE ParseOptions
    BY <1>0, <1>1 DEF ParseOptions, Names
  <1>2. CASE NextFront
    BY <1>0, <1>2 DEF NextFront, TakeFront, Names
  <1>3. CASE FrontStart
    BY <1>0, <1>3 DEF FrontStart, Names, This
  <1>4. CASE WorkqueueInit \/ FbAlloc \/ FrontAlloc \/ FrontConfigure \/ FreeName
             \/ FreeFront \/ FbFree \/ FreeNames
    BY <1>0, <1>4 DEF WorkqueueInit, FbAlloc, Acquire, FrontAlloc, FrontConfigure, FreeName,
                      FreeFront, FbFree, FreeNames, Release, Names
  <1>5. CASE /\ UNCHANGED frontVars
             /\ \/ pc' = pc
                \/ pc' \in BeforeListen \cup Listening \cup WayDown
                   /\ pc \in BeforeListen \cup Listening \cup WayDown
                \/ pc = "deinit" /\ pc' = "returned"
    BY <1>0, <1>5 DEF Names, WayDown
  <1> QED
    BY <1>0, <1>1, <1>2, <1>3, <1>4, <1>5, FrontFrame DEF Names

-----------------------------------------------------------------------------
(* Types *)

LEMMA OwnTyped ==
  ASSUME Inv, Next
  PROVE  own' \in [Places -> SUBSET Thing] /\ fronts' \in Seq(Places) /\ UNCHANGED request
  <1> USE RequestIsSeq DEF frontVars
  <1>0. /\ own \in [Places -> SUBSET Thing] /\ fronts \in Seq(Places)
        /\ cnt \in 0 .. Len(request) /\ FrontList
    BY DEF Inv, Types
  <1>1. CASE UNCHANGED <<request, fronts, own>>
    BY <1>0, <1>1
  <1>2. CASE FrontAlloc
    <2>1. This \in Places
      BY <1>0, <1>2 DEF FrontAlloc, FrontList, This, At
    <2>2. fronts' \in Seq(Places)
      <3>1. Append(fronts, This) \in Seq(Places)
        BY <1>0, <2>1
      <3> QED
        BY <1>0, <1>2, <3>1 DEF FrontAlloc
    <2>3. PICK held \in SUBSET Thing : own' = [own EXCEPT ![This] = held]
      BY <1>2, StepFacts DEF FrontAlloc, Withdrawn, Undone
    <2> QED
      BY <1>0, <1>2, <2>2, <2>3 DEF FrontAlloc
  <1>3. CASE FrontStart
    <2>1. This \in Places
      BY <1>0, <1>3 DEF FrontStart, FrontList, This, At
    <2>2. own[This] \in SUBSET Thing
      BY <1>0, <2>1
    <2>3. PICK held \in SUBSET Thing : own' = [own EXCEPT ![This] = held]
      BY <1>3, <2>2, StepFacts DEF FrontStart, Withdrawn, Undone
    <2> QED
      BY <1>0, <1>3, <2>3 DEF FrontStart
  <1>4. CASE FreeFront
    <2>1. fronts' \in Seq(Places) /\ Head(fronts) \in Places
      BY <1>0, <1>4 DEF FreeFront
    <2> QED
      BY <1>0, <1>4, <2>1 DEF FreeFront
  <1> QED
    BY <1>1, <1>2, <1>3, <1>4, FrontFrame DEF ParseOptions, WorkqueueInit, FbAlloc,
       Acquire, NextFront, TakeFront, FrontConfigure, FreeName, FbFree, FreeNames, Release

LEMMA CountsTyped ==
  ASSUME Inv, Next
  PROVE  cnt' \in 0 .. Len(request) /\ named' \subseteq Places
  <1> USE RequestIsSeq DEF frontVars
  <1>0. /\ cnt \in 0 .. Len(request) /\ FrontList /\ named \subseteq Places
    BY DEF Inv, Types
  <1> QED
    BY <1>0, FrontFrame DEF ParseOptions, WorkqueueInit, FbAlloc, Acquire, NextFront,
       TakeFront, FrontAlloc, FrontConfigure, FrontStart, FreeName, FreeFront, FbFree,
       FreeNames, Release, FrontList, At

LEMMA LabelTyped == ASSUME Inv, Next PROVE pc' \in Label
  <1>1. pc \in Label
    BY DEF Inv, Types
  <1> QED
    BY <1>1, FrontFrame DEF ParseOptions, WorkqueueInit, FbAlloc, Acquire, NextFront,
       TakeFront, FrontAlloc, FrontConfigure, FrontStart, FreeName, FreeFront, FbFree,
       FreeNames, Release, Go, Fail, Label, BeforeFb, AtFronts, BeforeListen, Listening,
       WayDown, WithoutFb

LEMMA AtTyped == ASSUME Inv, Next PROVE at' \in 1 .. Len(request) + 1
  <1> USE RequestIsSeq DEF mainVars, vars
  <1>0. at \in 1 .. Len(request) + 1 /\ (pc = "update" => Len(fronts) = Len(request))
    BY DEF Inv, Types, FrontList, Taken, Listening
  <1>1. CASE at' \in {1, at}
    BY <1>0, <1>1
  <1>2. CASE at' = at + 1 /\ pc = "update" /\ at <= Len(fronts)
    BY <1>0, <1>2
  <1>3. CASE SdlUpdate \/ VncUpdate \/ FbdevUpdate \/ StatisticsUpdate
    BY <1>1, <1>2, <1>3 DEF SdlUpdate, VncUpdate, FbdevUpdate, StatisticsUpdate,
       UpdateOf, Updating, Updated, Failed, At
  <1>4. CASE SdlResize \/ UpdateWithoutFbmem \/ CopyOtherSize
    BY <1>1, <1>4 DEF SdlResize, UpdateWithoutFbmem, CopyOtherSize, Failed
  <1> QED
    BY <1>1, <1>3, <1>4 DEF Next, ParseOptions, WorkqueueInit, FbAlloc, NetAlloc,
       GetAddrInfo, Acquire, NextFront, TakeFront, FrontAlloc, FrontConfigure,
       FrontStart, FreeName, BindSignals, NetListen, CreateListener, CreateUpTo,
       FailPthreadCreate, NewNodeFb, Interrupt, WorkerResizes, Loop, EndUpdate,
       NetShutdown, FbFreeAll, FreeAddrInfo, NetFree, Release, FreeFront, FbFree,
       FreeNames, WorkqueueDeinit, Ended

LEMMA MemTyped == ASSUME Inv, Next PROVE mem' \in [Object -> {"none", "live", "freed"}]
  <1>0. mem \in [Object -> {"none", "live", "freed"}]
    BY DEF Inv, Types
  <1>1. \A o, v : /\ v \in {"none", "live", "freed"}
                  => [mem EXCEPT ![o] = v] \in [Object -> {"none", "live", "freed"}]
    BY <1>0
  <1>2. \A objects : Free(objects) => mem' \in [Object -> {"none", "live", "freed"}]
    BY <1>0 DEF Free
  <1>3. CASE UNCHANGED mem
    BY <1>0, <1>3
  <1>4. CASE ParseOptions \/ WorkqueueInit \/ FbAlloc \/ NetAlloc \/ GetAddrInfo
    BY <1>0, <1>1, <1>4 DEF ParseOptions, WorkqueueInit, FbAlloc, NetAlloc, GetAddrInfo, Acquire
  <1>5. CASE NetListen
    <2>1. [mem EXCEPT !["socket"] = "live", !["threads"] = "live"]
            \in [Object -> {"none", "live", "freed"}]
      BY <1>0
    <2> QED
      BY <1>0, <1>1, <1>5, <2>1 DEF NetListen
  <1>6. CASE FailPthreadCreate \/ NewNodeFb
    BY <1>0, <1>6 DEF FailPthreadCreate, NewNodeFb
  <1>7. CASE NetShutdown \/ FbFreeAll \/ FreeAddrInfo \/ NetFree \/ FbFree \/ FreeNames
    BY <1>2, <1>7 DEF NetShutdown, FbFreeAll, FreeAddrInfo, NetFree, FbFree, FreeNames, Release
  <1>8. CASE WorkqueueDeinit
    BY <1>0, <1>2, <1>8 DEF WorkqueueDeinit
  <1> QED
    BY <1>3, <1>4, <1>5, <1>6, <1>7, <1>8 DEF Next, NextFront, TakeFront, FrontAlloc,
       FrontConfigure, FrontStart, FreeName, BindSignals, CreateListener, CreateUpTo,
       Interrupt, WorkerResizes, Loop, EndUpdate, SdlUpdate, VncUpdate, FbdevUpdate,
       StatisticsUpdate, UpdateOf, CopyOtherSize, UpdateWithoutFbmem, SdlResize,
       FreeFront, Ended, vars

LEMMA CrashTyped == ASSUME Inv, Next PROVE crash' \in {"no", "fb_copy", "fbmem"} \cup Object
  <1>1. CrashesHaveACause'
    BY CrashesKept
  <1> QED
    BY <1>1 DEF CrashesHaveACause, Object

LEMMA FlagsTyped ==
  ASSUME Inv, Next
  PROVE  /\ {err, up, bound, do_exit, resized, pending}' \subseteq BOOLEAN
         /\ queues' \in {0, 1} /\ listeners' \in 0 .. NumListeners
  <1> USE ListenersAssumption DEF mainVars, frontVars, netVars, vars, Go, Fail
  <1>0. /\ {err, up, bound, do_exit, resized, pending} \subseteq BOOLEAN
        /\ queues \in {0, 1} /\ listeners \in 0 .. NumListeners
        /\ pc = "create" => listeners < NumListeners
    BY DEF Inv, Types, Progress
  <1>1. CASE ParseOptions \/ WorkqueueInit \/ FbAlloc \/ NetAlloc \/ GetAddrInfo \/ NextFront
    BY <1>0, <1>1 DEF ParseOptions, WorkqueueInit, FbAlloc, NetAlloc, GetAddrInfo,
                      Acquire, NextFront, TakeFront
  <1>2. CASE FrontAlloc \/ FrontConfigure \/ FrontStart \/ FreeName \/ BindSignals \/ NetListen
    BY <1>0, <1>2 DEF FrontAlloc, FrontConfigure, FrontStart, FreeName, BindSignals, NetListen
  <1>3. CASE FailPthreadCreate \/ NewNodeFb
    BY <1>0, <1>3 DEF FailPthreadCreate, NewNodeFb
  <1>12. CASE Interrupt
    BY <1>0, <1>12 DEF Interrupt
  <1>11. CASE WorkerResizes
    <2>1. do_exit' \in BOOLEAN /\ pending' = FALSE
      BY <1>0, <1>11 DEF WorkerResizes
    <2> QED
      BY <1>0, <1>11, <2>1 DEF WorkerResizes
  <1>8. CASE CreateListener
    <2>1. listeners' \in 0 .. NumListeners
      BY <1>0, <1>8 DEF CreateListener, CreateUpTo, At
    <2>2. up' \in BOOLEAN
      BY <1>0, <1>8 DEF CreateListener, CreateUpTo
    <2> QED
      BY <1>0, <1>8, <2>1, <2>2 DEF CreateListener, CreateUpTo
  <1>4. CASE Loop \/ EndUpdate \/ SdlUpdate \/ VncUpdate \/ FbdevUpdate \/ StatisticsUpdate
    BY <1>0, <1>4 DEF Loop, EndUpdate, SdlUpdate, VncUpdate, FbdevUpdate, StatisticsUpdate,
                      UpdateOf, Updated, Failed
  <1>5. CASE CopyOtherSize \/ UpdateWithoutFbmem
    BY <1>0, <1>5 DEF CopyOtherSize, UpdateWithoutFbmem, Failed
  <1>6. CASE SdlResize
    <2>1. pending' \in BOOLEAN
      <3>1. CASE pending' = (pending \/ mem["node_fb"] = "live")
        BY Zenon, <3>1
      <3>2. CASE pending' = pending
        BY <1>0, <3>2
      <3>3. CASE pending' = (queues > 0)
        <4>1. pending' = TRUE \/ pending' = FALSE
          BY <3>3
        <4> QED
          BY <4>1
      <3> QED
        BY <1>6, <3>1, <3>2, <3>3 DEF SdlResize
    <2>2. resized' \in BOOLEAN
      BY <1>0, <1>6 DEF SdlResize
    <2>3. do_exit' \in BOOLEAN /\ err' \in BOOLEAN
      BY <1>0, <1>6 DEF SdlResize, Failed
    <2>4. UNCHANGED <<up, bound, queues, listeners>>
      BY <1>6 DEF SdlResize
    <2> QED
      BY <1>0, <2>1, <2>2, <2>3, <2>4
  <1>7. CASE NetShutdown \/ FbFreeAll \/ FreeAddrInfo \/ NetFree \/ FbFree
    BY <1>0, <1>7 DEF NetShutdown, FbFreeAll, FreeAddrInfo, NetFree, FbFree, Release
  <1>9. CASE FreeFront \/ FreeNames \/ Ended
    BY <1>0, <1>9 DEF FreeFront, FreeNames, Ended
  <1>10. CASE WorkqueueDeinit
    BY <1>0, <1>10 DEF WorkqueueDeinit
  <1> QED
    BY <1>1, <1>2, <1>3, <1>4, <1>5, <1>6, <1>7, <1>8, <1>9, <1>10, <1>11, <1>12 DEF Next

-----------------------------------------------------------------------------
(* The theorems *)

LEMMA InvHolds == Spec => []Inv
  <1>1. Init => Inv
    <2> SUFFICES ASSUME Init PROVE Inv
      OBVIOUS
    <2> USE DEF Init
    <2>1. request \in Seq(Kind \cup {"unknown"}) /\ Len(request) \in Nat
      BY RequestsAssumption
    <2>2. Types
      <3>1. own \in [Places -> SUBSET Thing]
        BY DEF Places
      <3>2. fronts \in Seq(Places)
        OBVIOUS
      <3> QED
        <4>1. pc \in Label /\ crash \in {"no", "fb_copy", "fbmem"} \cup Object
          BY DEF Label, BeforeFb
        <4>2. cnt \in 0 .. Len(request) /\ at \in 1 .. Len(request) + 1
          BY <2>1
        <4>3. listeners \in 0 .. NumListeners
          BY ListenersAssumption
        <4>4. mem \in [Object -> {"none", "live", "freed"}]
          OBVIOUS
        <4> QED
          BY <3>1, <3>2, <4>1, <4>2, <4>3, <4>4 DEF Types, Places
    <2>3. Memory /\ QueuesMemory
      BY DEF Memory, QueuesMemory, Object, BeforeFb, AtFronts, BeforeListen, Listening, WithoutFb
    <2>4. Progress /\ NodeFbs
      BY DEF Progress, NodeFbs, Object, BeforeListen, Listening, WayDown, WithoutFb
    <2>5. FrontList /\ Names
      BY DEF FrontList, Names, BeforeListen, Listening
    <2>6. Holdings
      BY DEF Holdings, OnFronts, Places, BeforeListen, Listening
    <2>7. CrashesHaveACause
      BY DEF CrashesHaveACause
    <2> QED
      BY <2>2, <2>3, <2>4, <2>5, <2>6, <2>7 DEF Inv
  <1>2. Inv /\ [Next]_vars => Inv'
    <2>1. ASSUME Inv, Next PROVE Inv'
      <3>1. Types'
        <4>1. UNCHANGED request /\ Places' = Places
          BY <2>1, OwnTyped DEF Places
        <4>2. request \in Requests
          BY <2>1 DEF Inv, Types
        <4> QED
          BY <2>1, <4>1, <4>2, OwnTyped, CountsTyped, LabelTyped, AtTyped, MemTyped,
             CrashTyped, FlagsTyped DEF Types
      <3> QED
        BY <2>1, <3>1, ControlKept, CrashesKept, FrontListKept, HoldingsKept, NamesKept DEF Inv
    <2>2. ASSUME Inv, UNCHANGED vars PROVE Inv'
      <3> USE <2>2 DEF Inv, vars, mainVars, frontVars, netVars
      <3>1. Types' /\ Memory' /\ QueuesMemory'
        BY DEF Types, Memory, QueuesMemory, Places
      <3>2. Progress' /\ NodeFbs' /\ Names'
        BY DEF Progress, NodeFbs, Names, Places, KindOf
      <3>3. FrontList' /\ Holdings'
        BY DEF FrontList, Taken, Holdings, Started, Full, This, OnFronts, Places, KindOf
      <3>4. CrashesHaveACause'
        BY DEF CrashesHaveACause, Places, KindOf
      <3> QED
        BY <3>1, <3>2, <3>3, <3>4
    <2> QED
      BY <2>1, <2>2
  <1> QED
    BY <1>1, <1>2, PTL DEF Spec

(* Every variable keeps its type on every way up and down; no more         *)
(* listeners run than option -l asks for (network.c:592-608).              *)
THEOREM ServerTypeOK == Spec => []TypeOK
  <1>1. Inv => TypeOK
    <2> SUFFICES ASSUME Inv PROVE TypeOK
      OBVIOUS
    <2> USE RequestIsSeq DEF Inv, Types
    <2>2. OnFronts \subseteq Places
      BY DEF OnFronts
    <2>3. \A i \in Places : own[i] \subseteq Thing
      OBVIOUS
    <2> QED
      BY <2>2, <2>3 DEF TypeOK, Thing
  <1> QED
    BY <1>1, InvHolds, PTL

(* Nothing is freed twice or used without having been set, except in the   *)
(* five cases that CrashesHaveACause names (main.c:438-466).               *)
THEOREM ServerCrashesHaveACause == Spec => []CrashesHaveACause
  BY InvHolds, PTL DEF Inv

(* What the listeners, the frontends' threads and a queued resize work on  *)
(* is freed after them, at whichever label main turns round.               *)
THEOREM ServerUsersGoFirst == Spec => []UsersGoFirst
  <1>1. Inv => UsersGoFirst
    <2> SUFFICES ASSUME Inv PROVE UsersGoFirst
      OBVIOUS
    <2> USE RequestIsSeq DEF Inv, Types
    <2>1. listeners > 0 => \A o \in {"net", "threads", "socket", "fb"} : mem[o] = "live"
      BY DEF Progress, Memory, Listening, BeforeFb, WithoutFb
    <2>2. fronts # << >> => mem["fb"] = "live" /\ mem["txtrndr"] # "freed"
      BY DEF FrontList, Memory, BeforeFb, WithoutFb
    <2>3. ASSUME NEW i \in Places, "thread" \in own[i]
          PROVE  /\ "struct" \in own[i] /\ mem["fb"] = "live" /\ mem["txtrndr"] # "freed"
                 /\ KindOf(i) = "vnc" => {"overlay", "screen"} \subseteq own[i]
      <3>1. i \in OnFronts /\ own[i] = Full(i)
        BY <2>3, StepFacts DEF Holdings
      <3>2. fronts # << >>
        BY <3>1 DEF OnFronts
      <3> QED
        BY <2>2, <3>1, <3>2, StepFacts DEF Full
    <2>4. pending /\ mem["node_fb"] # "live" =>
            pc \in {"fail_addrinfo", "fail_net", "fail_fronts", "fail", "deinit"}
      BY DEF NodeFbs, WayDown
    <2> QED
      BY <2>1, <2>2, <2>3, <2>4 DEF UsersGoFirst
  <1> QED
    BY <1>1, InvHolds, PTL

(* When main returns, all it got is given back, but for what vnc_free and  *)
(* linuxfb_free forget and the framebuffers of a start that failed late.   *)
THEOREM ServerNothingLeft == Spec => []NothingLeft
  <1>1. Inv => NothingLeft
    <2> SUFFICES ASSUME Inv, pc = "returned" PROVE
          /\ listeners = 0 /\ ~pending /\ named = {}
          /\ \A o \in Object : mem[o] = "live" => o = "node_fb" /\ ~up
          /\ \A i \in Places : own[i] \subseteq {"overlay", "fbmem"}
      BY DEF NothingLeft
    <2> USE ListenersAssumption DEF Inv, Types
    <2>1. listeners = 0 /\ ~pending /\ named = {}
      BY DEF Progress, NodeFbs, Names, Listening
    <2>2. \A o \in Object : mem[o] = "live" => o = "node_fb" /\ ~up
      BY DEF Object, Memory, QueuesMemory, NodeFbs, WithoutFb, BeforeFb, Listening
    <2>3. OnFronts = {}
      BY DEF FrontList, WithoutFb, OnFronts
    <2> QED
      BY <2>1, <2>2, <2>3 DEF Holdings
  <1> QED
    BY <1>1, InvHolds, PTL

(* The loop (main.c:396-409) updates every frontend that was asked for,    *)
(* once a round, and each has all that its start acquires, but for a       *)
(* device whose depth was not refused (linuxfb.c:66-70).                   *)
THEOREM ServerUpdatedIsStarted == Spec => []UpdatedIsStarted
  <1>1. Inv => UpdatedIsStarted
    <2> SUFFICES ASSUME Inv, pc = "update" PROVE
          /\ OnFronts = Places /\ Len(fronts) = Len(request)
          /\ \A i \in Places : Started(i)
      BY DEF UpdatedIsStarted, Started, Full
    <2> USE RequestIsSeq DEF Inv, Types
    <2>1. cnt = 0 /\ Taken(0)
      BY DEF FrontList, Listening
    <2>2. ASSUME NEW i \in Places PROVE i \in OnFronts
      <3>1. PICK k \in DOMAIN fronts : k = Len(request) + 1 - i
        BY <2>1 DEF Taken
      <3>2. fronts[k] = i
        <4>1. fronts[k] = Len(request) + 1 - k
          BY <2>1 DEF Taken
        <4>2. i \in Int /\ Len(request) \in Int
          BY <2>2
        <4> QED
          BY <3>1, <4>1, <4>2
      <3> QED
        BY <3>2 DEF OnFronts
    <2>3. OnFronts \subseteq Places
      BY DEF OnFronts
    <2>4. \A i \in Places : Started(i)
      BY <2>1 DEF Holdings, Listening
    <2> QED
      BY <2>1, <2>2, <2>3, <2>4 DEF Taken
  <1> QED
    BY <1>1, InvHolds, PTL
=============================================================================
