# usrv: a verification development

usrv is a small C++20 server framework: an asio `io_context` on the main thread,
a manager that drives *units* (logger, timer, server, Lua), and, when asked for,
a pool of io threads that each run one `Server`. This directory holds TLA+
models of its parts, TLC configurations that check them on small instances, and
TLAPS proofs. Line numbers refer to the files under `src/`.

## 1. The system and its parts

| component | state it keeps | operations | what makes it correct |
|---|---|---|---|
| `SpscQueue` (`util/spsc_queue.hpp`) | ring of raw slots, two atomic indexes | `Push`, `Pop`, `Empty`, `Full`, destructor | FIFO, no data race, constructors and destructors match, under stale reads |
| `ObjectMap` (`util/object_map.hpp`) | vector of objects by id, ring of free ids, list of live ids | `Insert`, `Erase`, `Clear`, `Find`, `Size`, iteration | no id handed out twice or lost; iteration in order of insertion |
| `ObjectPool` (`util/object_pool.hpp`) | stack of spare objects | `Get`, `Put` | a spare object serves nobody; shrinking destroys only spare ones |
| `Heap` (`util/heap.hpp`) | binary heap, map from key to position | `Emplace`, `Pop`, `PopByKey`, `FindByKey` | the top is the least; a key names its node |
| `TimerUnit` (`units/timer_unit.*`) | heap of timers, pool of timers | `CreateTimer`, `CallTimer`, `RemoveTimer`, `Update` | a timer fires once, when due, unless removed |
| `Loop` (`components/loop.hpp`) | interval, timer | coroutine `_Update` | polls for ever, slower when idle |
| `Server`, `Peer` (`units/server_unit.*`) | peer table, peer pool; per peer: socket, pid, counters of suspended coroutines | accept, connect, read, send, disconnect, release | a Peer or pid is never reused under a suspended coroutine; every connection is reported once opened, once closed |
| `Server`'s two queues | two `SpscQueue`s, stalled coroutines, shared timer | `_QueueRecv`/`_UpdateRecv`, `_QueueSend`/`_UpdateSend` | each message arrives once, and in order while there is room |
| `ServerUnit` | servers, io threads, callbacks | `Init`, `Stop`, dispatch | events reach the right callback; threads end |
| `UnitManager` (`unit_manager.*`) | units by name, io_context | `Register`, `Run`, `SetExit` | units are initialised, started, stopped and released in step |
| `LoggerUnit` (`units/logger_unit.*`) | one `SpscQueue` per logging thread, log thread | `Log`, `Stop`, `Flush`, `OnAbort` | nothing logged is lost; logging threads do not hang |
| `LuaUnit`, interfaces, signals, time | references to Lua functions | forwarding | - |

How they interact. The application runs on the main `io_context`: it registers
units, and `UnitManager::Run` initialises and starts them and runs the
`io_context`, whose fixed-interval `Loop` calls every unit's `Update`. With
`thread_num = 0` the one `Server` runs on the main `io_context` too, and events
are plain calls of the application's callbacks from inside the coroutines that
read sockets. With threads each `Server` has an `io_context` and a thread of its
own; events (CONN, RECV, DISC) travel to the main thread, and sends travel back,
through an `SpscQueue` each, polled by a `Loop` at the other end. A message that
finds its queue full waits in a coroutine on a timer. `Connect` and `Disconnect`
are posted to the Server's `io_context`, and the connect callback is posted back.
Every thread logs, through an `SpscQueue` of its own, to the log thread.

What is hard. (1) The queue is lock-free and relies on acquire/release. (2) Up to
one reading and any number of writing coroutines are suspended inside one
`Peer`, whose object and pid are recycled; close, errors and the application's
requests arrive in any order between their suspensions. (3) Retried messages are
reordered, and the connect callback uses another way than the events. (4) Ids of
peers and timers are reused. (5) Callbacks reenter the component that calls them.
(6) Shutdown joins threads that may be logging. `PROJECT.json` lists these at
their lines, each with the properties that watch it.

There are no unit tests and no manual in the repository; `demo/` shows intended use.

## 2. The modules

| module | models | state and actions in the code |
|---|---|---|
| `BoundedFifo` | what `SpscQueue` promises | `fifo`, `out`; a failed `Push`/`Pop` is a stuttering step |
| `SpscQueue` | `util/spsc_queue.hpp` | one action per access to shared memory |
| `SpscQueueProofs` | - | the theorems about it |
| `SequenceLemmas` | - | what the proofs share: sequences as queues, sets of places, induction up to a number |
| `IdTable` | what `ObjectMap` promises | `table`, `free` (FIFO), `size` |
| `ObjectMap` | `util/object_map.hpp` | the vectors, the ring, the linked list; one action per public operation |
| `ObjectMapProofs` | - | the theorems about it |
| `ObjectPool` | `util/object_pool.hpp` | `Get`, `Put` with growth and shrinking; included by others |
| `PeerLife` | `Server` and `Peer` on one `io_context` | one action per handler: from one suspension of a coroutine to the next |
| `PeerLifeProofs` | - | the theorems about it, the table and the pool included |
| `Connections` | what a `Server` promises of its connections | table of ids, what has been reported of each connection |
| `Wire` | `Peer::Send`, `Peer::_Recv` over one socket | writes in progress, units on the wire, bodies received |
| `Mailbox` | what the queues of a `Server` promise | messages in flight, messages delivered |
| `RetryPipe` | `_QueueRecv`/`_UpdateRecv` (and `_QueueSend`/`_UpdateSend`) | queue, coroutines waiting and ready, one action per resumption |
| `PipeThreads` | `RetryPipe` on its two threads | which of them another busy `Loop` holds |
| `RetryPipeProofs` | - | the theorems about `RetryPipe` |
| `TimerSet` | what `TimerUnit` promises | ids in use with their timers and times, the nest of running callbacks |
| `Timers` | `TimerUnit` over `Heap` and its pool | the heap's nodes, the key table, the pool; one action per call, up to and from a callback |
| `TimersProofs` | - | the theorems about it, its keys and its pool included |
| `ServerFlow` | a `Server` with a thread, and the application | `Connections` and `RetryPipe` composed, what each event says, sends on their way back |
| `ServerFlowProofs` | - | the theorems about it, on top of those about the pipe |
| `Loop` | `components/loop.hpp` | the interval and the last result of the update function |
| `Logger` | `LoggerUnit` | the map of queues, each thread's place in `Log`, each call of `_LogUpdate`, the log thread |
| `UnitManager` | `UnitManager::Run` with a logger, a `ServerUnit` and a `LuaUnit` | the main thread's place in Run, the io thread, SetExit, a thread in OnAbort; `Logger` composed with it |
| `UnitManagerProofs` | - | the theorems about it and the logger in it |

The detailed modules are composed over the abstract ones of their parts:
`PeerLife` over `IdTable` (which `ObjectMap` is proved to implement) and
`ObjectPool`; `Timers` over the same two, for its keys and its timers; `RetryPipe` over `BoundedFifo` (which `SpscQueue` is proved to
implement), and `PipeThreads` over `RetryPipe`; `ServerFlow` over `Connections` (which `PeerLife` is proved to implement) and
`RetryPipe`; `UnitManager` over `Logger`, and that over `Loop`.

### SpscQueue
The C++ memory model lets an acquire load return any store of the variable's
modification order that is not older than what the thread has read before. The
model keeps both modification orders whole and each thread's last position in
the other's; a load picks a position. Happens-before is kept by the numbers of
the last push and pop that touched each slot, so that a data race is a state. The
slot accesses (`new`, move, destructor) are actions of their own. `Empty` and
`Full` have no caller in the repository; they are modelled with the one caller
they make sense for.

### ObjectMap
The vectors are functions with the ids as domain, the free ring `indexs[head ..
tail)`. `Clear` is included; after it `Insert` reads outside an empty vector
(undefined behaviour), so its guard asks for a non-empty one. Nothing in `src/`
calls `Clear`.

### PeerLife
A connection is an identity of the model only; the code has a pid and a `Peer`.
`frame[c]` is the `Peer` a connection's coroutines are suspended in (their
`this`), `rx[c]` the reading coroutine with the state of its pending read, `tx[c]`
counts the writing coroutines by the state of their writes. asio (1.30.2,
vendored) is external and is modelled by what the code relies on: operations
never complete inside the initiating call, `close()` makes pending ones fail,
completed ones may still be queued when the socket closes, `co_spawn` and
`dispatch` run at once on the `io_context`'s own thread and are posted otherwise,
an exception in a handler ends only its coroutine. `told[c]` records the events
issued for the connection. With `SingleThread`, `_on_recv` runs in the middle of
`Peer::_Recv`; while it runs only the application acts. `holder` says who has the
`io_context` between two actions: nobody, a running `_on_recv`, or, with threads, the
Server's `_send_loop`, which runs on the same `io_context` (`server_unit.cpp:181-184`) and
does not suspend as long as it finds messages (`loop.hpp:56-60`, `76`), be they for pids
that are gone. While it holds the `io_context` only the network and main act. Undefined behaviour in
`Server::Disconnect` (a reference to a dead parameter) is an arbitrary pid.

`Connections` is what is left when the coroutines are forgotten: a connection is
opened once, reported, closed once, and its id goes to the end of the free ones.

### Wire
A frame is cut into a unit for the head and units for the body. asio keeps the writes
of a socket in a queue; each takes what the socket has room for, and a composed
`async_write` with more to write starts again behind the others. Where the receiver
reads a unit of a body as a head, the size it finds is arbitrary.

### RetryPipe
Messages are numbered in the order of issue. `waiting` are the coroutines asleep
on the shared timer, `ready` those whose wait has ended (expired or cancelled by
another's `expires_after`). Both directions are the same code with the threads
exchanged, so one model serves for both.

Both threads run other loops: the issuing one polls the pipe of the opposite direction,
and main polls one pipe per Server. A busy `Loop` does not suspend, so stalled coroutines
and other loops wait for it. `PipeThreads` adds which threads are held in this way
(`held`); issuing goes on all the same, as an `_on_recv` called by such a loop may send.

### Timers
The heap is a function on `0 .. _size - 1`. A shift is given by its way, the places it
passes (`WayUp`, `WayDown`: recursive functions with the guards of the loops); each node
on the way takes the place before (`Shifted`), and `_key2pos` is told of every move
(`Placed`). The time stands in the node and
not in the `Timer` object: `TimersApart` shows that no object is in two nodes.
`running` is the nest of callbacks; while `Update` is between two of them nobody
else acts.

### ServerFlow
The io thread opens and closes connections as `Connections` allows, and each event
enters the pipe (`Recv`); the main thread hears what the pipe delivers
(`ServerUnit::Recv`, which calls the callback named by the event). The application
answers events, and its sends arrive in any order, as `Mailbox` allows. A connection
opened by `Connect` issues the same events as an accepted one; the callback that goes
another way is not here.

### Logger
`queues` is the map: its domain are the threads that have a queue, its values count the
messages, as `SpscQueue` is proved to be a FIFO queue. `Log` is three actions: the
lookup, the insertion (a thread stays in it between two actions) and the push. When a
thread uses the map while another inserts (undefined behaviour) the lookup may miss and
replace a queue, the iteration may skip one, or the process dies; `harmed` remembers
whether messages were lost by it.
`reading` holds the calls of `_LogUpdate` in progress, whoever makes them. The log
thread repeats its pass while it finds something and looks at `stopped` only when it
sleeps. Messages below the level are left out.

### UnitManager
`order` is the order in which the `unordered_map` iterates. The main thread goes through
the units, one action per call of Init, Start and Stop (two where it waits for a
thread), and between them it logs (`todo` counts the messages). LuaUnit's Init may fail
before or after `_stop` is set; Start of ServerUnit fails when a callback is missing,
and that of the script when it says so. `Stop` of a LuaUnit without `_stop` is a crash;
so is an error of the application's in either thread while Run runs. In phase `polling`
the main `io_context` is inside the server's `_recv_loop`: `io_context::run` does not
notice `stop()` before that loop has found nothing and suspends (`server_unit.cpp:177-180`). A crash enters
`OnAbort` in that thread: stop, join, flush, die. With `thread_num = 0` there is no io
thread and less can happen.

## 3. The runs

| run | instance | question |
|---|---|---|
| `spsc_queue` | 4 slots, 2 values, 9 stores, fair | data races, slots, order, hints, the inductive invariant; whatever is pushed is popped |
| `object_map` | grows by 2, up to 4 ids, 2 objects | the ring and the list; implements `IdTable` |
| `peer_life` | 2 accepted connections, 2 sends in flight each, 1 disconnect, fair | reuse, counts, leaks, order of events; implements `Connections`; every end is reported |
| `peer_inline` | 3 connections, one by `Connect`, 1 send in flight each, `thread_num = 0` | reentrant callbacks; pids and objects kept apart while they are reused |
| `peer_disconnect` | 2 connections | finding: `Disconnect` by reference |
| `peer_connect` | 1 connection, fair | finding: a failed connect |
| `retry_pipe` | 3 slots, 6 messages, other loops on both threads, fair | exactly once, in the end; only stalled messages are overtaken |
| `server_flow` | 3 connections, a queue of one slot, 4 events, 1 send | what the application hears under a pid; where a late send goes |
| `units` | 3 units, 2 logging threads, queues of 2, fair | the log is complete and has one reader; nobody logs into a released logger; Run ends, or hangs where the property says |
| `wire` | 2 messages of 3 units | finding: sends mix on the wire |
| `timers` | 5 timers and all operations, or 7 timers only created and removed; all allocation one at a time | ids, objects, order of the heap, the abstract timer set; no timer is put off |
| `timers_late` | 7 timers | finding: a due timer is missed |

Bounds. `MaxStores` lets the indexes of a four-slot ring wrap twice, so each
thread can be a whole ring behind and meet a slot a second time. Two ids at a time
and four in all make the ring of `ObjectMap` wrap before and after it grows.
Three connections over ids and objects allocated one by one force reuse of a pid
and of a `Peer` while another is alive, and make the pool shrink (`peer_inline`); two concurrent
sends (`peer_life`) are the least that tell a count from a flag. Six messages through a queue
of two leave up to four coroutines stalled. `MaxObjects`, `MaxSends`, `MaxDisc`,
`Outgoing` bound what the environment does, never what the code does to end it.
Five timers make a heap of three
levels, six are the least for which a `Pop` from the middle breaks its order, and with seven
timers are added to a broken heap; `MCTimers` therefore runs two kinds of application, one
that does everything with five timers and one that creates and removes seven, whose times
take three values (`MaxTime`). Seven are also the least for which a removal by id leaves
`Update` with a due timer it misses (`timers_late`, where two values tell due from not due).
In `server_flow` four events are CONN and DISC of one connection and CONN and an event of
the one that gets its pid, with a third, reset before its CONN, in between; one slot makes
any two of them meet a full queue. In `units` the queues hold two messages, which is fewer than
main logs after the logger has been stopped, so that main too can be caught in `Log`;
with the demo's 1023 only a thread without such a limit can. A second crash, and a crash
while the units stop, are left out.
Connections of `PeerLife` that are accepted are symmetric. Deadlock is not checked: every system here may come to
rest (all sent, all closed, destroyed).

Fairness. `SpscQueue`: the consumer's `Loop` polls for ever, a thread inside a
call finishes it, and a store becomes visible in finite time ([atomics.order]).
`PeerLife`: the handlers of an `io_context` are run in the order in which they got ready, so
each of a connection's is run in the end, and a connect attempt ends, unless `_send_loop`
holds the `io_context` for ever (`HeldForEver`); callbacks return. The network settles no
operation by fairness, only failures must lead to DISC. `PipeThreads`: a ready coroutine is
resumed and the timer expires unless another loop holds the issuing thread for ever; the
other end polls unless one holds the polling thread for ever. `UnitManager`: each of the three
threads is scheduled, the manager goes on with its next step when it is not inside
`_recv_loop`, and the log thread's timer expires. That a busy loop ever finds nothing is
assumed nowhere: the properties except the executions in which it does not, and say for which
messages or connections. The same holds for an application that sends for ever to a closed
connection, and for a thread that logs for ever. Nothing is assumed of the application or
of the peer. Liveness is not run for `SingleThread`: the handlers then compete with the
application for the one thread. Nor is it for `Timers`: timers that are created for ever
keep others below them in the heap, so the property is one of steps: none
puts off the time by which `Update` gets to a timer (`CalledNoLater`).

Each property has a *mutant*, an operator next to the one it replaces, that fails it.

## 4. What is proved

Each theorem holds for every value of the constants. The inductive invariants were
checked by TLC on the instances of the runs before they were proved. Each proof module
names its invariant `IndInv` (`FlowInv` in `ServerFlowProofs`), has one lemma per action
and per part that the action disturbs, and ends with the theorems.

| module | assumptions | invariants | step properties and refinements |
|---|---|---|---|
| `SpscQueueProofs` | two slots or more; the mark of a raw slot is no value | `TypeOK`, `SlotsExact`, `NoDataRace` | `HintsHold`; implements `BoundedFifo` |
| `ObjectMapProofs` | `AllocNum > 0`, and at most the bound on ids | `TypeOK`, `FreeExact`, `ListExact` | `OrderKept`; implements `IdTable` |
| `PeerLifeProofs` | allocation sizes positive, and that of the pool within the bound on objects | `TypeOK`, `NotReused`, `CountsExact`, `NoneForgotten`, `DiscIsLast`, `PoolApart`, `PidsApart` | implements `Connections` |
| `RetryPipeProofs` | two slots or more, messages numbered from 1 | `TypeOK`, `NoneLostNoneTwice`, `OvertakenOnlyIfStalled` | implements `Mailbox` |
| `ServerFlowProofs` | those of the pipe, `PsAllocNum > 0` | `HeardInOrder` | `NotToTheNext` |
| `TimersProofs` | allocation sizes positive, and that of the pool within the bound on objects | `TypeOK`, `KeysExact`, `TimersApart` | `OrderKept`; implements `TimerSet` |
| `UnitManagerProofs` | two slots or more, a positive interval, two threads | `TypeOK`, `OneConsumer`, `LogIsKept`, `NoneLogsIntoNothing` | - |

**SpscQueue.** Neither `SlotsExact` nor `NoDataRace` is inductive: that the producer does not
overtake the consumer is known to it only through a stale index. `IndInv` says how
stale: the consumer's last position in the producer's order is never behind the
number of pops (`Positions`), the producer's is at most `Size - 1` pushes old; the
distance around the ring between any two positions less than a ring apart is
their difference (`Ring`); and the epochs of a slot name stores of that slot's own
index (`Epochs`). With these, a full or empty test on a stale index errs on the
safe side, and an epoch on the current slot is one the thread has acquired. For the
refinement each action is a `Push` (the release store), a `Pop` (the move) or a
stuttering step of `BoundedFifo`, by lemmas on `Contents`.

**ObjectMap.** `FreeExact` is inductive once it says that the ring holds every free id
once; the proof is arithmetic on the ring (`RingSeq`): an item taken, an item put, and a
ring laid out anew when the last free id is handed out and the vectors grow. `ListExact` needs the list itself: `Linked(s)` says that the live ids are linked in
the order of `s` in both directions, `Unlinked` that a free id has no links left, which
`Insert` relies on. What a loop visits (`Visited`) is defined by following `next`; that a
linked list determines it is `VisitedIs`, by induction along the list. `Insert` and `Erase`
then turn a linked `s` into a linked longer or shorter one, which is `OrderKept`.

**PeerLife.** `NotReused` says something of suspended coroutines only. To be inductive it
needs who owns what: `Lives` says of each connection that is in the table that its frame is
its own `Peer`, that `_recving` and `_sending` count its coroutines, that `_wait` is set
exactly when the socket is closed, and that somebody is left to release it; a connection
that is not in the table has no coroutine at all. `Rows` leads back from the table to the
connections, so that two rows cannot share one; `Others` says that no object outside the
table serves anybody, so that the one `Get` hands out may be filled in; `Store` and
`PoolApart` keep the pool, the free ids and the table from meeting.

**RetryPipe.** The places of a message (delivered, queued, ready, waiting) have none in
common and have all of them together (`Apart`); on its way a message overtakes another
only if that one has stalled (`InOrder`), and whoever waits has (`Suspended`).

**ServerFlow.** `HeardInOrder` compares what the application has heard, through a pipe that
reorders, with connections that may be gone and whose pids are used again. `Story` says of
the events, in the order in which they were *issued*, that those of one pid tell one connection after the
other. `Present` ties the end of each story to the state of the connection: the last event
of a pid is not its DISC exactly while the connection it is about is open under it. `AllNamed` says where a
pid may have gone after its connection ended: so far back in the queue of free ids, or to so late
a connection, that the next one to be opened does not get it, which is `NotToTheNext`.
`Rows` says what of the table that takes: ids are free in some order, and one always is.
`HeardInOrder` follows from these and from the invariant of the pipe: events of a pid none of
which has stalled were delivered in the order of issue.

**UnitManager.** `OneConsumer` rests on who waits for whom (`Consumers`): whoever flushes has
waited for the log thread, and it is the thread that aborts or Main when all units have
been released, by when nobody aborts any more (`Phases`). `LogIsKept` needs that the
threads that are to be flushed no longer log (`Silent`), and that a queue a Flush has passed
stays empty from then on (`Flushed`), whatever order the map iterates in.

**Timers.** The shifts come first. A recursive function exists because the place it looks at
comes nearer to an end with each step (`FollowsExists`), and what it returns is a way: a path of
distinct places from the first to the one where the loop stops (`FollowedIsWay`). Along a
way the heap is permuted (`ShiftPermutes`), so no node is lost or doubled, and the keys follow
(`PlacedFacts`). `UpOrder` and `DownOrder` then say which pairs of parent and child are new and
why they are in order; a Pop from the middle is the case in which the gap's new node need not
be after its parent, which is the finding below. To `KeysExact` the inductive invariant adds
that the table's ids are each free once or in use (`FreeOK`), that no timer gets a key greater
than its own number (`Numbered`), and what the pool keeps (`PoolOK`, `Apart`), all stated in
`TimersProofs`. For the refinement a Pop takes one entry of the abstract table and leaves the
others (`PopTakes`), wherever the shift has carried their nodes.

Only model-checked: liveness (`EndsAreReported`, `AllDelivered`,
`HangsOnlyInLog`) and what depends on fairness (`ImplementsFairFifo`), which are
out of the prover's reach; `CalledNoLater`, whose times are gathered along a path of any
length; and the findings, whose runs are counterexamples.

## 5. Findings

1. `Server::Disconnect` (`server_unit.cpp:207`) captures its parameter by reference in
   a lambda that another thread runs later, though the header says it may be called
   by the main thread (`server_unit.h:100`). Run `peer_disconnect`.
2. A failed connect never calls the callback (`server_unit.cpp:351-354`); the demo
   expects it to (`demo/client.cpp:97-101`). Run `peer_connect`.
3. `Heap::Pop(pos)` (`heap.hpp:51-60`) only shifts down. After `RemoveTimer` or `CallTimer`
   of a timer in the middle the top may not be the earliest, and `Update`, which stops
   at the first top that is not due (`timer_unit.cpp:39-42`), may leave due timers for
   later. Run `timers_late`. How much later is what `CalledNoLater` says: only the timer that
   fills the gap is put off, and only until those that are now over it are due.

4. `Peer::Send` (`server_unit.cpp:447`) starts an `async_write` while another of the same
   socket may be in progress, which asio forbids (`3rdparty/asio-1.30.2/asio/write.hpp:921-924`):
   when a write is cut short the next frame is written into the middle of the first. Run `wire`.

What the passing runs say has its exceptions, which are part of the properties:
`HangsOnlyInLog` allows Run to hang where a thread spins in `Log` on a full queue after
the log thread has ended (`logger_unit.h:96`; it happens when the map stops the logger
before the server), and where the log thread, always busy, does not notice that it is to
stop (`loop.hpp:60`), or main, always busy in `_recv_loop`, does not notice that it was told
to (`loop.hpp:76`); TLC finds each when its exception is taken out. `LogIsKept` excepts
executions in which a lookup or a Flush missed a queue during an insertion by another thread
(`logger_unit.h:91-93`); such a use of the map by the log thread's own passes loses nothing.
`EndsAreReported` excepts an application that never stops sending, be it to the connection
in question or, by keeping `_send_loop` busy, to any other. `AllDelivered` excepts a polling
thread that another loop holds for ever, and, for messages whose coroutine is
suspended, an issuing thread so held. A failed Init ends in a
crash when LuaUnit's `_stop` is null (`lua_unit.cpp:76`).
`ObjectMap::Size()` (`object_map.hpp:176-179`) counts free ids and not objects; its only caller is
commented out (`server_unit.cpp:154-163`) and it is not modelled.

## 6. Not modelled

Third-party code (asio, spdlog, fmt, LuaBridge, Lua, jemalloc), payloads, the length check
of `Send` and the conversion of addresses, wording and level of log messages, the
binding of functions to Lua and the forwarding interfaces (no state of their own),
several Servers in one ServerUnit and the round robin of `Connect`, a callback that throws,
a clock that steps back, a polling interval of 0, a signal that interrupts a thread inside
asio, the demo programs.

## 7. Plan

Order: what everything else rests on first (queue, table, pool), then the life of
connections, then transport, then timers and life cycle, then compositions.

1. Done: the modules above.
2. Done: the proofs of section 4.
3. Later: several Servers and the connect callback in `ServerFlow`; the benchmark client
   of the demo as its application; a run of `ObjectPool` by itself.
