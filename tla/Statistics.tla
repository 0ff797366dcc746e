----------------------------- MODULE Statistics -----------------------------
(***************************************************************************)
(* statistics.c: connections count the bytes they receive, main collects   *)
(* the counts once a frame (statistics_update) and copies them for the     *)
(* thread of the statistics frontend (api_thread), which writes them to    *)
(* whoever connects.  Main takes the frontend down                         *)
(* (statistics_frontend_free).                                             *)
(*                                                                         *)
(* byte_count is shared without a lock or an atomic: each load and each    *)
(* store of it is a step.  The averages over the last frames and the       *)
(* pixels, which by default are estimated from the bytes, are left out.    *)
(***************************************************************************)
EXTENDS Integers, FiniteSets, FiniteSetsExt, Functions

CONSTANTS Conn,       \* connections
          MaxReads,   \* bound: how often read(2) returns a byte
          MaxFrames,  \* bound: how often main goes round
          Parts,      \* how many writes an answer takes
          Base,       \* what one unit has of the one below: 1000 or 1024
          LastUnit,   \* ARRAY_LEN(UNITS) - 1
          MaxSize     \* bound: how many bytes a read may stand for

ASSUME ConnAssumption  == IsFiniteSet(Conn)
ASSUME PartsAssumption == Parts \in Nat \ {0}
ASSUME BaseAssumption  == Base \in Nat \ {0, 1} /\ LastUnit \in Nat

VARIABLES byte_count, \* of each connection, as it is in memory
          sum,        \* what a connection is about to store there, or -1
          received,   \* history: how often connections have read
          missed,     \* history: those of connections that ended uncollected
          conns,      \* the list of connections
          main,       \* where main is
          todo, at,   \* connections to walk over; the one added, but not cleared
          stats,      \* main's statistics
          sfront,     \* sfront->stats, the copy
          lock,       \* who holds stats_lock: "main", "api" or "none"
          exit,       \* sfront->exit is set and the thread cancelled
          api,        \* where api_thread is
          answer,     \* strbuf
          left,       \* how many writes of it are left
          client,     \* who accept will return: "away", "waiting"; then
                      \* "open", or "gone" once it has hung up
          room,       \* the client has read what it was sent
          raced,      \* history: a count was changed while main cleared it
          last,       \* history: what main copied last, as a whole
          fits,       \* history: that is what the answer became
          killed      \* SIGPIPE has ended the process

connVars == <<byte_count, sum, received, missed, conns>>
mainVars == <<main, todo, at, stats, exit>>
apiVars  == <<api, answer, left>>
peerVars == <<client, room, fits>>
shared   == <<sfront, lock, last>>
apiSide  == <<apiVars, peerVars, killed>>
vars == <<connVars, mainVars, raced, shared, apiSide>>

Zero == [num_bytes |-> 0, num_frames |-> 0]

Init ==
  /\ byte_count = [c \in Conn |-> 0] /\ sum = [c \in Conn |-> -1]
  /\ received = 0 /\ missed = 0 /\ conns = {}
  /\ main = "loop" /\ todo = {} /\ at = {} /\ stats = Zero /\ exit = FALSE
  /\ sfront = Zero /\ lock = "none"
  /\ api = "test" /\ answer = Zero /\ left = 0
  /\ client = "away" /\ room = FALSE /\ fits = TRUE
  /\ raced = FALSE /\ last = Zero /\ killed = FALSE

-----------------------------------------------------------------------------
(* A connection: byte_count += read_len, a load and a store *)

Connect(c) ==
  /\ ~killed /\ c \notin conns /\ main # "walk" /\ ~exit
  /\ conns' = conns \cup {c}
  /\ UNCHANGED <<byte_count, sum, received, missed, mainVars, shared, apiSide, raced>>

LoadCount(c) ==
  /\ ~killed /\ c \in conns /\ sum[c] = -1 /\ received < MaxReads
  /\ received' = received + 1
  /\ sum' = [sum EXCEPT ![c] = byte_count[c] + 1]
  /\ raced' = (raced \/ c \in at)
  /\ UNCHANGED <<byte_count, missed, conns, mainVars, shared, apiSide>>

StoreCount(c) ==
  /\ ~killed /\ sum[c] # -1
  /\ byte_count' = [byte_count EXCEPT ![c] = sum[c]]
  /\ sum' = [sum EXCEPT ![c] = -1]
  /\ raced' = (raced \/ c \in at)
  /\ UNCHANGED <<received, missed, conns, mainVars, shared, apiSide>>

(* It takes itself off the list, for which it needs list_lock.  What main  *)
(* has not collected is never counted.                                     *)
Disconnect(c) ==
  /\ ~killed /\ c \in conns /\ sum[c] = -1 /\ main # "walk"
  /\ conns' = conns \ {c}
  /\ missed' = missed + byte_count[c]
  /\ byte_count' = [byte_count EXCEPT ![c] = 0]
  /\ UNCHANGED <<sum, received, mainVars, shared, apiSide, raced>>

-----------------------------------------------------------------------------
(* Main *)

At(place) == main = place /\ ~killed

BeginWalk ==
  /\ At("loop") /\ stats.num_frames < MaxFrames
  /\ main' = "walk" /\ todo' = conns
  /\ UNCHANGED <<connVars, at, stats, exit, shared, apiSide, raced>>

AddCount ==
  /\ At("walk") /\ at = {}
  /\ \E c \in todo :
       /\ at' = {c} /\ todo' = todo \ {c}
       /\ stats' = [stats EXCEPT !.num_bytes = @ + byte_count[c]]
       /\ raced' = (raced \/ sum[c] # -1)
  /\ UNCHANGED <<connVars, main, exit, shared, apiSide>>

(* Wrong variants of an operator, each named for its error, stand before   *)
(* it: what the properties must be able to tell apart.                     *)
ClearForgotten ==
  /\ At("walk") /\ at # {}
  /\ at' = {}
  /\ UNCHANGED <<connVars, main, todo, stats, exit, shared, apiSide, raced>>

ClearCount ==
  /\ At("walk") /\ at # {}
  /\ at' = {}
  /\ byte_count' = [c \in Conn |-> IF c \in at THEN 0 ELSE byte_count[c]]
  /\ raced' = (raced \/ \E c \in at : sum[c] # -1)
  /\ UNCHANGED <<sum, received, missed, conns, main, todo, stats, exit, shared,
                 apiSide>>

EndWalk ==
  /\ At("walk") /\ at = {} /\ todo = {}
  /\ main' = "lock"
  /\ UNCHANGED <<connVars, todo, at, stats, exit, shared, apiSide, raced>>

(* statistics_frontend_update_statistics: the structure is copied in parts. *)
LockStats ==
  /\ At("lock") /\ lock = "none"
  /\ main' = "copy" /\ lock' = "main"
  /\ UNCHANGED <<connVars, todo, at, stats, exit, sfront, apiSide, raced,
                 last>>

CopyFirst ==
  /\ At("copy")
  /\ main' = "copy_rest"
  /\ sfront' = [sfront EXCEPT !.num_bytes = stats.num_bytes]
  /\ UNCHANGED <<connVars, todo, at, stats, exit, lock, apiSide, raced, last>>

CopyRest ==
  /\ At("copy_rest")
  /\ main' = "loop" /\ sfront' = stats /\ lock' = "none"
  /\ last' = stats
  /\ stats' = [stats EXCEPT !.num_frames = @ + 1]
  /\ UNCHANGED <<connVars, todo, at, exit, apiSide, raced>>

(* statistics_frontend_free, once net_shutdown has ended the connections.  *)
BeginFree ==
  /\ At("loop") /\ conns = {}
  /\ main' = "join" /\ exit' = TRUE
  /\ UNCHANGED <<connVars, todo, at, stats, shared, apiSide, raced>>

Join ==
  /\ At("join") /\ api = "ended"
  /\ main' = "freed"
  /\ UNCHANGED <<connVars, todo, at, stats, exit, shared, apiSide, raced>>

-----------------------------------------------------------------------------
(* api_thread *)

(* What no longer matters is forgotten.                                    *)
Forget == answer' = Zero /\ left' = 0 /\ room' = FALSE /\ fits' = TRUE

ApiAt(place) == api = place /\ ~killed

TestExit ==
  /\ ApiAt("test")
  /\ api' = IF exit THEN "ended" ELSE "accept"
  /\ UNCHANGED <<connVars, mainVars, shared, answer, left, peerVars, raced,
                 killed>>

Accept ==
  /\ ApiAt("accept") /\ ~exit /\ client = "waiting"
  /\ api' = "lock" /\ client' = "open" /\ room' = TRUE
  /\ UNCHANGED <<connVars, mainVars, shared, answer, left, fits, raced,
                 killed>>

AcceptFails ==
  /\ ApiAt("accept")
  /\ api' = "ended"
  /\ UNCHANGED <<connVars, mainVars, shared, answer, left, peerVars, raced,
                 killed>>

CancelledIn(places) ==
  /\ \E place \in places : ApiAt(place)
  /\ exit /\ api' = "ended" /\ Forget
  /\ UNCHANGED <<connVars, mainVars, shared, client, raced, killed>>

CancelledInAccept == CancelledIn({"accept"})

(* accept and write act on a cancel, before or while they wait.            *)
Cancelled == CancelledIn({"accept", "write"})

FormatFirst(locked) ==
  /\ ApiAt("lock") /\ (locked => lock = "none")
  /\ api' = "format" /\ lock' = IF locked THEN "api" ELSE lock
  /\ answer' = [answer EXCEPT !.num_bytes = sfront.num_bytes]
  /\ UNCHANGED <<connVars, mainVars, sfront, left, peerVars, raced, last,
                 killed>>

FormatUnlocked == FormatFirst(FALSE)

Format == FormatFirst(TRUE)

FormatThen(lockAfter) ==
  /\ ApiAt("format")
  /\ api' = "write" /\ left' = Parts /\ lock' = lockAfter
  /\ answer' = [sfront EXCEPT !.num_bytes = answer.num_bytes]
  /\ fits' = (answer' = last)
  /\ UNCHANGED <<connVars, mainVars, sfront, client, room, raced, last,
                 killed>>

UnlockForgotten == FormatThen(lock)

FormatRest == FormatThen(IF lock = "api" THEN "none" ELSE lock)

(* A write sends some of what is left, once there is room.  To a client    *)
(* that has hung up it works, fails, or raises SIGPIPE, which only main    *)
(* would ignore: it does not when this frontend is there, since that       *)
(* claims to handle signals (statistics.c:335, main.c:358-364).            *)
Write ==
  /\ ApiAt("write") /\ ~exit /\ left > 0
  /\ \/ client = "open" /\ room /\ room' = FALSE /\ left' = left - 1
        /\ UNCHANGED killed
     \/ client = "gone" /\ left' \in {left - 1, 0} /\ UNCHANGED <<room, killed>>
     \/ client = "gone" /\ killed' = TRUE /\ UNCHANGED <<room, left>>
  /\ UNCHANGED <<connVars, mainVars, shared, api, answer, client, fits, raced>>

CloseClient ==
  /\ ApiAt("write") /\ left = 0
  /\ api' = "test" /\ client' = "away" /\ Forget
  /\ UNCHANGED <<connVars, mainVars, shared, raced, killed>>

(* A client connects, reads what it is sent, if it likes to, and hangs up. *)
Peer ==
  /\ ~killed
  /\ \/ client = "away" /\ client' = "waiting" /\ UNCHANGED room
     \/ client = "open" /\ ~room /\ room' = TRUE /\ UNCHANGED client
     \/ client = "open" /\ client' = "gone" /\ UNCHANGED room
  /\ UNCHANGED <<connVars, mainVars, shared, apiVars, fits, raced, killed>>

-----------------------------------------------------------------------------
MainStep == BeginWalk \/ AddCount \/ ClearCount \/ EndWalk \/ LockStats
              \/ CopyFirst \/ CopyRest \/ Join
ApiStep == TestExit \/ Accept \/ Cancelled \/ Format \/ FormatRest \/ Write
             \/ CloseClient

Next == \/ MainStep \/ BeginFree \/ ApiStep \/ AcceptFails \/ Peer
        \/ \E c \in Conn :
             Connect(c) \/ LoadCount(c) \/ StoreCount(c) \/ Disconnect(c)

(* Both threads are run, and main gets the lock sooner or later if the     *)
(* other thread, which holds it for a moment between accept and write,     *)
(* takes it again and again.  Nobody has to connect, to read, to hang up   *)
(* or to stop main.                                                        *)
Spec == /\ Init /\ [][Next]_vars
        /\ WF_vars(MainStep) /\ WF_vars(ApiStep) /\ SF_vars(LockStats)

-----------------------------------------------------------------------------
(* Units.  Both functions go on while the value exceeds Base: one divides  *)
(* integers, the other reals.                                              *)

(* How much the i-th unit is. *)
Power[i \in 0 .. LastUnit + 1] == IF i = 0 THEN 1 ELSE Base * Power[i - 1]

(* value_get_unit_##base: the index into UNITS                             *)
Unit(value) ==
  Min({i \in 0 .. LastUnit : i = LastUnit \/ value \div Power[i] <= Base})

DivisionsPastTheLast(value) ==
  Min({i \in 0 .. LastUnit + 1 : i = LastUnit + 1 \/ value <= Power[i + 1]})

(* value_get_scaled_##base: how often the value is divided                 *)
Divisions(value) ==
  Min({i \in 0 .. LastUnit : i = LastUnit \/ value <= Power[i + 1]})

-----------------------------------------------------------------------------
(* Properties *)

Counts == [num_bytes : Nat, num_frames : Nat]

(* Every variable has its type, and stats_lock belongs to who is inside.   *)
TypeOK ==
  /\ byte_count \in [Conn -> Nat] /\ sum \in [Conn -> Nat \cup {-1}]
  /\ received \in Nat /\ missed \in Nat /\ conns \subseteq Conn
  /\ main \in {"loop", "walk", "lock", "copy", "copy_rest", "join", "freed"}
  /\ todo \subseteq conns /\ at \subseteq conns
  /\ stats \in Counts /\ sfront \in Counts /\ answer \in Counts
  /\ last \in Counts
  /\ api \in {"test", "accept", "lock", "format", "write", "ended"}
  /\ left \in 0 .. Parts /\ client \in {"away", "waiting", "open", "gone"}
  /\ {exit, room, fits, raced, killed} \subseteq BOOLEAN
  /\ (lock = "main") <=> main \in {"copy", "copy_rest"}
  /\ (lock = "api") <=> api = "format"
  /\ lock \in {"main", "api", "none"}

(* What a client is told is what main had copied last, after one frame,    *)
(* when the answer was made: never a mixture of two frames.                *)
AnswersAreSnapshots == api = "write" => fits

(* Unless a connection happened to count while main was between adding and *)
(* clearing its count, or main came between its load and its store         *)
(* (statistics.c:44-45, network.c:327), every byte is counted once, or     *)
(* still to be counted, or was not collected before its connection ended.  *)
CountedOnce ==
  ~raced => stats.num_bytes + FoldFunctionOnSet(+, 0, byte_count, Conn \ at)
              + missed + Cardinality({c \in Conn : sum[c] # -1}) = received

(* In the line that main draws after every update, the traffic has the unit *)
(* it was scaled to, whatever one read stands for; but not a number that   *)
(* exceeds Base units by less than one unit, as 1000500 with 1000: it is   *)
(* divided once more than its unit says (statistics.c:89, 101).            *)
UnitFitsValue ==
  main = "lock" =>
    \A size \in 1 .. MaxSize :
      LET v == size * stats.num_bytes
      IN  \/ Divisions(v) = Unit(v)
          \/ \E i \in 1 .. LastUnit - 1 :
               /\ v \div Power[i] = Base /\ v # Power[i + 1]
               /\ Divisions(v) = i + 1 /\ Unit(v) = i

(* Main never waits for a client: it gets stats_lock and, taking the       *)
(* frontend down, its thread, even if a client does not read what it is    *)
(* sent; unless a SIGPIPE ends the process.                                *)
MainGoesOn ==
  /\ (main = "lock") ~> (main # "lock" \/ killed)
  /\ (main = "join") ~> (main = "freed" \/ killed)
=============================================================================
