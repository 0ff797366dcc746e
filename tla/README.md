# A formal model of Shoreline

Shoreline is a multithreaded Pixelflut server: clients connect over TCP and
send commands (`PX`, `SIZE`, `OFFSET`) that draw on a canvas, which frontends
(SDL, VNC, the Linux framebuffer) show.  This directory holds TLA+ models of
its concurrent core and of its data structures, TLC configurations that check
them on small instances, and TLAPS proofs of theorems about them for all
instances.  Line numbers refer to the files of `src/`.

Contents: [the system](#the-system), [the modules](#the-modules),
[the runs](#the-runs), [the proofs](#the-proofs),
[what the models show about the code](#what-the-models-show-about-the-code),
[what is not modelled](#what-is-not-modelled), [the plan](#the-plan).


## The system

| Component | State | Operations | Who uses it |
|---|---|---|---|
| ring buffer (`ring.c`, `ring.h`) | a buffer, a read and a write pointer | peek, read, write, advance, compare | one connection thread each |
| command parser (`network.c` 112-460) | the ring, the read pointer of the command begun, the offset | receive, parse one command, rewind, skip | one connection thread each |
| network threads (`network.c`) | `net->state`, `net->threads`, a list of connections per listener, `list_lock`, `fb_lock` | listen, accept, create, clean up, cancel, join, shut down | main, listening and connection threads |
| statistics (`statistics.c`) | `byte_count` per connection, counters, averages; a copy of them under `stats_lock` | count, collect, copy, answer clients | connections, main, `api_thread` |
| work queues (`workqueue.c`) | per NUMA node: a list, a lock, a condition variable, `do_exit` | enqueue, run, stop | main enqueues, one worker per node runs |
| framebuffers (`framebuffer.c`, `framebuffer.h`) | per NUMA node, and the one shown: size, pixels; `fb_list` | allocate, set and get a pixel, coalesce, resize | connections, main, workers |
| linked list (`llist.c`) | head, tail, the pointers of the entries, a lock | append, remove, walk | all of the above |
| main (`main.c`) | `do_exit`, names and list of the frontends, what it has acquired | start, loop (coalesce, statistics, update), shut down, by labels that fall through | |
| frontends (`sdl.c`, `vnc.c`, `linuxfb.c`, `statistics.c`, `frontend.c`) | windows, servers, devices, threads | allocate, configure, start, update, free; SDL also resizes | main |
| text rendering (`textrender.c`) | font, glyphs | draw a string | main |

**How they interact.** `main` starts the listening threads (`net_listen`).  A
listener accepts a client, allocates a `struct net_connection_thread`, creates
its thread with `list_lock` held, and appends it to its list.  The new thread
finds or allocates the framebuffer of its NUMA node under `fb_lock`, and then
reads into its ring, parses, and draws without a lock.  When its client has
gone it takes itself off the list, which the listener may be walking over in
its cleanup and `main` in `statistics_update`.  `main` meanwhile collects the
framebuffers of the nodes into the one that the frontends show.  When the
window is resized, `main` queues a resize for each node's framebuffer at the
work queue of that node, and resizes the one shown itself.  On shutdown `main`
cancels and joins the listeners, whose cleanup handlers cancel and join their
connections; then it frees the framebuffers, `net`, the frontends, and at last
stops the work queues.  A start that fails enters this sequence at the label
that fits what had been acquired.

**What is hard.**  Threads that free what others look at; deferred cancellation
that cuts handlers short; locks held by threads that end; a condition variable
waited on without a predicate; pixels stored while they are copied; sizes read
by parts while they change; a stream that read(2) cuts anywhere; a wrap-around
in every operation of the ring.  `PROJECT.json` lists each such place with its
line, and the properties that watch it.

**What makes each component correct.**

* Ring: it is a bounded FIFO of bytes, and offers room to read(2) unless full.
* Parser: what is executed is what the client sent, once, in order, whatever
  the cuts; nothing complete is left behind; a good client is never dropped.
* Network: listed connections are live; a connection removes itself from a
  list it is on; nothing runs on after `net_shutdown`; shutdown ends;
  connections are served.
* Work queue: entries are handled once, in order, or cleaned up; a broadcast
  reaches the worker; a stop returns.
* Framebuffers: every opaque pixel is shown once, never an old one over a new
  one; a resize loses no memory; in the end all sizes are equal.
* List: both directions agree; a walk misses nothing that was there.
* Statistics: a client is told what one frame had; bytes are counted once; main
  never waits for a client; a number has the unit it is shown with.
* Main and the frontends: from wherever main turns round, what has been
  acquired is given back, once, and after its last user; what is updated has
  been started.

## The modules

Each variable, operator and action is mapped to its lines in `PROJECT.json`.
Operators whose names say what is wrong with them (`...Forgotten`,
`...PastTheEnd`) are wrong variants of the operator that follows them; no
specification uses them.  They show that the properties can fail.

| Module | Models | Correspondence |
|---|---|---|
| `ByteQueue` | what a ring promises | abstract: unread bytes, last byte taken, what a reader can go back to, last result |
| `Ring` | `ring.c`, `ring.h` | one action per function; `data`, `ptr_read`, `ptr_write` are the fields of `struct ring`; `Remember` and `Rewind` are the parser's `last_cmd` and `read_before`; refines `ByteQueue` |
| `Parser` | the loop of `net_connection_thread` | one iteration of the command loop, or one `read`, is one step; the ring is the queue of unread bytes that `Ring` refines; `Meanings` is what the loop makes of a text that is all there |
| `Network` | threads of `network.c`, `main`'s part in them, the walk of `statistics_update` | a program counter per thread; a step is a stretch without a blocking call, a cancellation point or a racing access; allocated structs carry their lifetime |
| `WorkQueue` | one queue of `workqueue.c` | a program counter for the worker and one for the client; waiting, broadcast and spurious wakeups are separate steps |
| `Canvas` | drawing and `fb_coalesce` | test, copy and reset of a pixel are separate steps of main; a store is one step of a connection |
| `Resize` | `fb_resize`, `resize_cb`, `sdl_update`, `fb_alloc` | each store of a resize is one step; so are both loads of the size; memory is a set of blocks with a length |
| `LList` | `llist.c` | an append is a step per pointer that a walk follows; a removal, which no walk sees, is one step; a walk may free the entries it visits (`fb_free_all`), and what is read of a freed entry may be anything |
| `Statistics` | `byte_count`, `statistics_update`, the statistics frontend and its clients | loads, stores and copies of shared fields are separate steps of connections, main and `api_thread`; `stats_lock`, cancellation and SIGPIPE are explicit |
| `Server` | `main`, and what the frontends, `net_listen`, `workqueue_init` acquire and give back | `pc` is the label or call main is at; each object is "none", "live" or "freed"; each frontend has the set of what it holds; other threads appear by what they use |

They compose by abstraction: `Parser` sees the ring as the queue that `Ring`
is shown to implement; `Resize` sees a work queue as the sequence that
`WorkQueue` is proved to conserve; `Network` and `WorkQueue` see a list as the
sequence that `LList` is proved to be.  `Network` leaves out what a connection
does with its bytes; `Canvas` and `Resize` leave out how connections come and
go.  `Server` puts the parts next to each other: a listener, a resize or the
thread of a frontend is there as long as it uses what main owns, and that its
join returns is the business of `Network`, `WorkQueue` and `Statistics`.

*Crashes.*  Where the code can touch freed or missing memory, `Network` and
`Server` have an action for it that sets `crash`, besides the ones in which nothing bad shows:
undefined behaviour is a choice.  After a crash nothing happens.

*Cancellation.*  `pthread_cancel` sets a flag.  Blocking calls (`accept`,
`read`, `pthread_join`) act on it.  `printf` may act on it or not; POSIX leaves
it open, so it is a fault that a configuration can switch on
(`printf_cancels`).  Handlers that run because of a cancel are not cancelled
again; handlers run by `pthread_cleanup_pop` can be (network.c:537).

*Faults.*  `Faults` of `Network` names which calls may fail: `calloc`,
`pthread_create`, `ring_alloc`, `fb_alloc`, `accept`, `llist_alloc`.  In
`Server` every call of the start may fail, and inside a frontend's start each
of its steps.

## The runs

| Run | Question | Bounds and why they are enough | Distinct states |
|---|---|---|---|
| `ring` | does every operation do what a FIFO does? | buffer of 4 bytes, 2 byte values, strings of up to 4 bytes (one too many): both pointers reach every place, so each operation is seen before, at and over the end of the buffer, and so is each place to go back to | 8912 |
| `parser` | is what is executed what was meant, and what is no command skipped? | up to 3 lines of six kinds, or up to 2 with bad lines among them; every cut by read; ring of 10 bytes, token limit 3, so that both limits are hit; bad is also a line that begins with a blank | 22175 |
| `network` | does nobody touch freed list entries, is all quiet after shutdown, and what leads to each crash? | 2 listeners and 2 connections: two on one list, or one on each; every local fault | 2.9 million |
| `network_live` | does shutdown end, is everybody served? | 1 listener, 2 connections, every fault | 53000 |
| `network_fb_alloc` | is everybody served when an allocation fails? | as above, one fault | violated |
| `workqueue` | is work handled once and in order, do broadcasts arrive, does a stop return? | 3 entries: one being run, one waiting, one being enqueued | 3565 |
| `canvas` | is every pixel shown, and once? | 2 nodes with a connection each, 2 pixels, 2 draws each: a second draw falls into every moment of the collection of the first | 88224 |
| `resize` | do sizes and memory come right? | 2 nodes, 2 resizes between three shapes (growing, shrinking, turning): the second is queued before, during or after the first | 2.9 million |
| `resize_assert` | do the assertions on coordinates hold? | 1 resize | violated |
| `llist` | do the pointers agree with the contents, and does a walk come right while entries are appended, or while it frees them? | 4 entries: a head, a tail, and two between | 4539 |
| `statistics` | are answers whole, bytes counted once, and does main go on? | 2 connections that read 3 times between them, so that both reads of one can race with a walk while the other counts; 2 frames, so that an answer could mix them; answers of 2 writes; units of 2 instead of 1000 with 3 above the first | 254683 |
| `server` | is everything given back once, and after its last use, from wherever main turns round? | every list of up to 2 frontends, of the same kind or not, known or not: each is the first and the last of the list; 2 listeners, so that creation fails after none or one | 18865 |

In `Parser` the integers are small (`Word` = 256 for 2^32, `Channel` = 16 for
2^8) and a color is one hexadecimal digit, or two with alpha; verbs are two
characters.  Nothing in the parser depends on these numbers but the overflow
itself, which stays modelled.

Bounds that are not in the program: `Conn` (connections that ever come),
`Item` (entries ever enqueued), `MaxDraws` in `Canvas`, `MaxResizes` in
`Resize`, `Streams` in `Parser`, `MaxReads`, `MaxFrames` and `MaxSize` in
`Statistics`, `Requests` in `Server`.

Deadlock is checked in `ring`, `network`, `workqueue`, `parser`, `canvas`,
`llist` and `server`; `Network`, `WorkQueue`, `Parser` and `Server` stutter
explicitly only when the process, the queue or the connection has ended.  It is
not checked in `network_live` and `network_fb_alloc`, where threads may well
wait for ever (that is what the liveness properties are about), nor in `resize`
and `statistics`, which rest when the user resizes no more, and when the
process has ended or the bounds are reached.

**Fairness.**  `Network` assumes that the operating system runs every thread
that can run (weak fairness per thread), that locks are handed over, and
nothing else: clients need not connect, send or hang up, accepts need not fail,
and nobody has to ask for a shutdown.  `WorkQueue` assumes the same of the
worker and of a stop that has begun, and that callbacks return; a spurious
wakeup is never promised.  `Canvas` assumes that the main loop goes on.
`Statistics` assumes that main and `api_thread` are run, and, as its only strong
fairness, that main gets `stats_lock` sooner or later when `api_thread` takes it
again and again: between two turns that thread waits in `accept` and `write`
for a client.  Clients need not connect, read or hang up.

## The proofs

`tlapm` checks these for every value of the constants that meets the named
assumptions of the modules, which only say that sizes, lengths of answers and
the like are positive (`SizeAssumption`, `PartsAssumption`), that markers differ
from what they mark (`EntryAssumption`, `OwnersAssumption`), and that nodes,
listeners, framebuffers and connections are what their names say; for `CountedOnce`
also that there are finitely many connections (`ConnAssumption`), for the parser
that no verb contains white space, is longer than the limit of a token or begins
like another one (`VerbAssumption`).  Each module `...Proofs` states the inductive
invariant, has a lemma per action or group of actions that it is kept, and ends,
for each component, with the theorems.

* `RingProofs`.  `RingStaysInBuffer`: the type invariant of `Ring` is
  inductive.  It says that both pointers stay below the size and that no store
  falls outside the buffer.  `RingOffersSpaceUnlessFull`: what is offered to
  read(2) is 0 exactly when the ring is full; it follows from the counts
  (`Counts`, `PointerMoves`).  `RingIsByteQueue`: the ring implements
  `ByteQueue`.  The mapping takes the unread bytes from the read pointer on,
  around the end; the lemmas say that moving the read pointer drops bytes at
  the front (`MovingReadDrops`) and that storing, in one piece or in two,
  appends at the back (`StoringAppends`).  What `Rewind` restores is the
  same mapping from the mark on, which only a store can spoil
  (`SavedStays`).  `NextRefines` has a step per
  function.
* `MainLoopProofs` is about the two components that the main loop drives.  For
  `Canvas`: `CollectedOnce` speaks of the step that copies a pixel.  It needs to
  be known what was true when the pixel was tested: the invariant `Inv` says that
  a place holds its newest store (`Newest`), that an opaque pixel has not been
  shown unless main is about to reset it (`OpaqueIsNew`), and that what is to be
  copied has not been shown (`CopiedIsNew`), although clients store in between.
  For `WorkQueue`: `NothingLostOrReordered` is not inductive on its own: a step
  that takes an entry must know that the worker holds none, and
  `StopLeavesNothing` needs that the worker is dead once it has been joined.  The
  invariant `QueueInv` adds `CurrentIsRun` and `Stopped`.  Theorems:
  `CanvasTypeOK`, `CanvasCollectsOnce`, `WorkQueueTypeOK`, `WorkQueueConserves`,
  `WorkQueueStopsEmpty`.
* `ParserProofs`.  What a text means is defined by `Meanings` of `Parser`: what
  the command loop makes of each end of the text, when it is all there.  The
  theorems say that the parser does the same with a ring that holds a part of
  it, however `read` cuts.  The first half is about cuts: what each scan, for white
  space, a token, a number, two arguments, a verb, finds in the part `s` of `t` it
  finds in `t` (`SkipCut`, `TokenCut`, `NumberCut`, `XYCut`, `BeginsCut`), so that a
  command that is complete in `s` is the same one, with the same end, in `t`
  (`FirstCut`), and one that is complete in `t` and of which `s` has enough is
  complete in `s` (`CompleteBack`).  Numbers and meanings are recursive
  functions; that they exist and have one value is shown for the least place
  where they might not (`ReadsExists`, `MeaningsIs`).  The second half is about
  steps: `OnTrack` says that the ring holds the front of what is not parsed yet,
  and that what has been executed, followed by what that means, is what the text
  means.  Receiving and executing keep it (`OnTrackReceiving`,
  `OnTrackExecuting`); white space behind a command that has not been received
  yet may wait (`WhiteSpaceMayWait`).  The invariant `IInv` adds that a parser
  that waits has no complete command (`WaitsForMore`), and that what is left of a
  good client's text is good, from which it follows that its ring is never full
  without one (`FullIsBad`) and it sends no word that is too long
  (`GarbageIsBad`).  The streams are any that meet `StreamsAssumption`, which
  only says how `meaning` and `good` relate to the text, and which TLC evaluates
  for meanings that `MCParser` composes line by line.  Theorems: `ParserTypeOK`,
  `ParserInOrder`, `ParserNothingLeftBehind`, `ParserKeepsGoodClients`,
  `ParserSkipsWhatIsNoVerb`.
* `NetworkProofs`.  None of the invariants of `Network` is inductive, since each
  says of some threads what others must not do to them.  `Inv` states the
  protocol that the code keeps without writing it down: an entry stands on the
  list of its owner, is allocated, and belongs to a thread that has been created
  and has not removed it (`EntriesLive`), once (`ListedOnce`); a listener's list
  lives from its start to the end of its cleanup (`ListFollowsListener`); the
  connection that a listener has in hand is at the place that the listener's own
  program counter implies (`HandlesItsOwn`); and a connection that runs is on
  the list, or its listener is about to append it with `list_lock` held
  (`RunningIsListed`), which is why the thread cannot remove its entry before it
  is there.  `StartedInOrder` says that main goes upwards through the listeners
  and downwards again, from which it follows what has been cancelled and joined
  when `net_shutdown` returns.  Theorems: `NetworkTypeOK`,
  `NetworkListedIsLive`, `NetworkRemovesWhatIsListed`,
  `NetworkQuiescentAfterShutdown`, `NetworkCrashesHaveACause`.
* `ServerProofs`.  The shutdown sequence is right if at every label exactly what
  the labels below give back has been acquired.  `Inv` says so: which object is
  live at which label (`Memory`, `QueuesMemory`), whether main is on its way up
  or down (`Progress`), when there are framebuffers and resizes of the nodes
  (`NodeFbs`), where in the list of frontends main is (`FrontList`), what each
  frontend holds (`Holdings`), and which names are left (`Names`).  Theorems:
  `ServerTypeOK`, `ServerUsersGoFirst`, `ServerNothingLeft`,
  `ServerUpdatedIsStarted`, `ServerCrashesHaveACause`.
* `ResizeProofs`.  `MemoryFits` is about a framebuffer at rest; in between, the
  invariant says for each place in `fb_resize` which of the two blocks the
  framebuffer points to and which parts of its size it has (`Memory`).
  `OneAllocates` is what `fb_lock` is for, `WhoResizes` says that a node with
  work queued has a framebuffer.  For `SettledSizes` the invariant looks ahead:
  `FinalSize` is the size a framebuffer will have once what is queued for it is
  done, and it is the size of the window wherever the walk of `resize_cb` has
  passed (`FinalSizes`).  Theorems: `ResizeTypeOK`, `ResizeMemoryFits`,
  `ResizeSettledSizes`.
* `LListProofs`.  The pointers lead forward through the contents at any moment of
  an append (`Forward`), backward as far as the append has come (`Backward`), and
  entries outside the list point nowhere (`Outside`); with what the append, the
  walk and the walk that frees know (`Appending`, `Walking`, `Releasing`) this is
  inductive.  The lemmas say what is left of a list, and where its pointers lead,
  once an entry has been removed (`RemoveAtFacts`, `UnlinkFacts`).
  Theorems: `LListTypeOK`, `LListPointersAgree`, `LListWalkSeesTheList`,
  `LListFreesEachOnce`.
* `StatisticsProofs`.  For `AnswersAreSnapshots` the invariant says that
  what is copied is whole unless main is between the two parts of the copy, which
  it is with `stats_lock` held only (`CopyIsWhole`).  For `CountedOnce` it adds
  that, as long as nothing has raced, a connection between its load and its store
  is about to add one to what is there, and not at the place main is at
  (`StoresAddOne`).  The sum over all connections is a fold: that it does not
  depend on the order, and that one term can be taken out of it, is proved once
  (`TotalExists`, `FoldIsTotal`, `FoldRemove`, `FoldSame`) for a least set for
  which it might fail, by the well-foundedness of the natural numbers.
  `UnitFitsValue` needs no more of the state than that the traffic is a number:
  the lemmas say what the powers of the base are (`PowerIs`), where the two
  loops stop (`UnitIs`, `DivisionsIs`), and that they stop at the same place or
  one apart (`UnitOrOneMore`).
  Theorems: `StatisticsTypeOK`, `StatisticsAnswersAreSnapshots`,
  `StatisticsCountedOnce`, `StatisticsUnitFitsValue`.

Every invariant, action property and refinement that a passing run checks is
proved.  Only model-checked are the liveness properties (`EnqueuedIsHandled`,
`StopReturns`, `DrawnIsShown`, `ShutdownCompletes`, `ServedUnlessLockLeaked`,
`MainGoesOn`): fairness is out of the prover's reach.

## What the models show about the code

* A failed `fb_alloc` leaves `fb_lock` locked (network.c:290-297): no later
  connection is ever served (`network_fb_alloc`).  Apart from that, and from a
  cancel that `printf` acts on while the lock is held, every connection gets
  past the lock (`ServedUnlessLockLeaked`).
* A failed `accept`, which running out of file descriptors causes, ends a
  listening thread and all its connections for good (network.c:501-504, 537);
  after that the next walk of the statistics locks a freed list.  It is one of
  the crashes that `CrashesHaveACause` of `Network` names with what leads to
  each: a walk that falls into the start of a listener, a join by an id that is
  read from a struct just freed (network.c:472), a connection that unlocks
  `list_lock` after `net_free`.
* A word that begins with `PX` but is no command is never skipped: its client
  is stuck until the ring is full.  `SkipsWhatIsNoVerb` names it as the one
  exception.
* Whether `PX x y` asks for the pixel is decided by the last white space that
  has been received behind y (network.c:360).  `PX 0 1`, a newline and ` ff0000`
  on the next line is a request for the pixel if `read` cuts behind the newline, and
  sets it if the blank has arrived as well.  `InOrder` excepts texts in which a
  line begins with a blank (`IsLines`); that the exception is needed came out of
  the proof, and that no other is, is what `ParserInOrder` says.
* A client that reads a pixel while the canvas is resized can make an assertion
  fail, since the coordinates are compared with the size of one framebuffer
  and used on another (`resize_assert`).
* `net_shutdown` leaves no connection at work, with one exception that the
  property names: a listener that sees the shutdown by itself runs its cleanup
  with cancellation enabled, and the cancel of `net_kill_threads` can end it
  inside `pthread_join` (`QuiescentAfterShutdown`).
* A broadcast or a stop that falls between the worker's start, or its test of
  `do_exit`, and its wait is lost (workqueue.c:21-23); the properties
  `EnqueuedIsHandled` and `StopReturns` say exactly when.
* A pixel stored between the copy and the reset of its place is not shown
  (framebuffer.c:159-162); all others are (`DrawnIsShown`).
* `CrashesHaveACause` of `Server` names five: `net->threads` is freed again when
  a listener could not be created (network.c:614), the queues when
  `workqueue_init` failed (workqueue.c:103); a resize still queued works on a
  framebuffer that `fb_free_all` freed (main.c:441, 466); `fb_copy` asserts equal
  sizes for a VNC server beside a window that is resized (framebuffer.c:128); a
  device whose depth `linuxfb_start` does not support counts as started, since
  `err` is still 0 (linuxfb.c:67).  Nothing else is freed twice, or used while it
  is missing.
* When main returns, of the objects that `Server` knows only the overlay of a VNC frontend, the buffer of a Linux
  framebuffer, and node framebuffers of a failed start are left (`NothingLeft`).
* Bytes are counted wrongly only when a connection's load and store falls around
  main's add and clear (`CountedOnce`); a client of the statistics never sees two
  frames mixed (`AnswersAreSnapshots`) and never holds up main, but can end the
  process by hanging up, since nobody ignores SIGPIPE when that frontend claims
  the signals (`MainGoesOn`).
* A number between 1000 and 1001 of a unit is divided once more than its unit
  says (statistics.c:89, 101; `UnitFitsValue`).
* A framebuffer allocated while the canvas is resized may keep an old or mixed
  size until the next resize, and `fb_coalesce` then stops at it
  (`SettledSizes` names it as the exception).

## What is not modelled

* What a store does that races with `fb_resize` or with `free`: undefined.
  `Resize` says nothing of stores, `Canvas` has no resize.
* The averages over the last frames, the number of connections and the estimate
  of pixels in `statistics.c`: sums without control.
* Alpha blending and pixel counting: off in the default build (Makefile:7).
* Options other than `-f`; the values of `-f` options (`front_configure` just
  succeeds or fails); the font of the VNC frontend; overlays, pointer and
  keyboard, which libvncserver calls; the conversion of pixels in `linuxfb.c`.
* One block per resize of each framebuffer: nobody frees the `resize_wq_priv` of a
  resize that succeeded (main.c:121, workqueue.c:29-46).  `WorkQueue` has no
  cleanup after a success, but `NothingLeft` does not count these blocks.
* The unwinding labels inside the start functions of the frontends: `Server`
  states what a failure at each step leaves held.
* The second call of `get_numa_node` in `fb_alloc` (framebuffer.c:37): a connection
  keeps the node it asked for first (network.c:256), and the modules know only
  that one.
* Text rendering: calls into freetype, by threads that `Server` knows as users
  of the renderer.
* Time: `usleep`, frame rates, TCP timeouts.

## The plan

Done in this order, the most important behaviour first: `Ring` with its proof,
`Network`, `WorkQueue` with its proof, `Parser`, `Canvas` with its proof,
`Resize`, `LList`, `Server`, `Statistics`.

Then the proofs of `Network`, `Server`, `Resize`, `LList` and `Statistics`.  So
that they could be reasoned about, `LList` states a chain of pointers without
recursion (`IsChain`) and `Network` and `LList` remove one entry from a
sequence by its place.

Last, the proof of `Parser`, for which its scanning operators were given the bytes
they scan as a parameter and the meaning of a text was defined (`Meanings`), and
of the units in `Statistics`, for which the powers of the base became a function.

What could be added: a run that checks `InOrder` of other verbs, if the protocol
grows (network.c:403-429 shows how one is added), and `Resize` together with
`Canvas` once stores during a resize have a defined outcome.
