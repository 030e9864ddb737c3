------------------------------- MODULE Logger -------------------------------
(***************************************************************************)
(* The logger (src/units/logger_unit.h, logger_unit.cpp).  Each thread     *)
(* that logs has an SPSC queue of its own, made at its first call and kept *)
(* in _log_queues; the log thread writes what it finds in the queues, and  *)
(* so does any thread that calls Flush().  The map is not protected: while *)
(* a thread inserts into it, others look up and iterate.  A queue is the   *)
(* one of BoundedFifo, and counts what it holds.  Calls below the level    *)
(* return at once and are left out.                                        *)
(***************************************************************************)
EXTENDS Naturals, SequencesExt

CONSTANTS Threads,      \* the threads that log
          LogThread,    \* _log_thread
          Size,         \* spsc_size
          MaxInterval   \* UnitManager::Interval()

ASSUME LoggerAssumption ==
  Size \in Nat /\ Size >= 2 /\ MaxInterval \in Nat \ {0} /\ LogThread \notin Threads

VARIABLES
  queues,    \* _log_queues: the number of messages in each thread's queue
  call,      \* where a thread's call of Log stands
  reading,   \* the calls of _LogUpdate: queues left to visit, and busy
  interval, busy,   \* _loop
  stopped,   \* _io_context.stop() has been called
  ended,     \* the log thread has returned
  harmed,    \* messages have been lost by a use of the map during an insertion
  alive      \* the process runs
logVars == <<queues, call, reading, interval, busy, stopped, ended, harmed, alive>>

LogLoop == INSTANCE Loop WITH Fixed <- FALSE

InitLogger ==   \* the constructor and _Init()
  /\ queues = <<>> /\ reading = <<>>
  /\ call = [t \in Threads |-> "none"]
  /\ LogLoop!Init
  /\ stopped = FALSE /\ ended = FALSE /\ harmed = FALSE /\ alive = TRUE

\* The map or function f with v at the key k.
With(f, k, v) == [x \in DOMAIN f \cup {k} |-> IF x = k THEN v ELSE f[x]]

Idle(t) == call[t] = "none"
At(t, line) == alive /\ call[t] = line
SetCall(t, line) == call' = [call EXCEPT ![t] = line]

\* A thread other than t is in the middle of an insertion.
Inserting(t) == \E u \in Threads \ {t} : call[u] = "insert"

------------------------------------------------------------------------------
(***************************************************************************)
(* Log() in thread t, one action per use of the map.  A lookup during      *)
(* another thread's insertion may miss; the call then makes a second queue.*)
(***************************************************************************)
LogCall(t) ==
  /\ At(t, "none") /\ SetCall(t, "find")
  /\ UNCHANGED <<queues, reading, interval, busy, stopped, ended, harmed, alive>>

LogFind(t) ==
  /\ At(t, "find")
  /\ \/ t \in DOMAIN queues /\ SetCall(t, "push")
     \/ (t \notin DOMAIN queues \/ Inserting(t)) /\ SetCall(t, "insert")
  /\ UNCHANGED <<queues, reading, interval, busy, stopped, ended, harmed, alive>>

LogInsert(t) ==
  /\ At(t, "insert") /\ SetCall(t, "push")
  /\ queues' = With(queues, t, 0)
  /\ harmed' = (harmed \/ (t \in DOMAIN queues /\ queues[t] > 0))
  /\ UNCHANGED <<reading, interval, busy, stopped, ended, alive>>

\* Mutant: a full queue overwrites.
LogPushForced(t) ==
  /\ At(t, "push") /\ SetCall(t, "none")
  /\ queues' = [queues EXCEPT ![t] = @ + 1]
  /\ UNCHANGED <<reading, interval, busy, stopped, ended, harmed, alive>>

\* The thread spins while its queue is full.
LogPush(t) ==
  /\ At(t, "push") /\ queues[t] < Size - 1
  /\ SetCall(t, "none")
  /\ queues' = [queues EXCEPT ![t] = @ + 1]
  /\ UNCHANGED <<reading, interval, busy, stopped, ended, harmed, alive>>

\* What else such a use of the map can do.
MapCrash ==
  /\ alive
  /\ \E t \in Threads :
       At(t, "insert") /\ (DOMAIN reading # {} \/ \E u \in Threads \ {t} : ~Idle(u))
  /\ alive' = FALSE /\ harmed' = TRUE
  /\ UNCHANGED <<queues, call, reading, interval, busy, stopped, ended>>

------------------------------------------------------------------------------
(***************************************************************************)
(* _LogUpdate() in thread c; the map is iterated in any order.             *)
(***************************************************************************)
LogUpdate(c) ==
  /\ alive
  /\ \E order \in SetToSeqs(DOMAIN queues) :
       reading' = With(reading, c, [left |-> order, busy |-> FALSE])

InUpdate(c) == alive /\ c \in DOMAIN reading
Visited(c) == InUpdate(c) /\ reading[c].left = <<>>
Return(c) == reading' = Restrict(reading, DOMAIN reading \ {c})

PopLog(c) ==
  /\ InUpdate(c) /\ ~Visited(c)
  /\ LET q == Head(reading[c].left)
     IN /\ queues[q] > 0
        /\ queues' = [queues EXCEPT ![q] = @ - 1]
  /\ reading' = [reading EXCEPT ![c].busy = TRUE]
  /\ UNCHANGED <<call, interval, busy, stopped, ended, harmed, alive>>

\* The queue is empty; an insertion may make the iteration skip one, which the log
\* thread will find again, but Flush() will not.
NextQueue(c) ==
  /\ InUpdate(c) /\ ~Visited(c)
  /\ queues[Head(reading[c].left)] = 0 \/ Inserting(c)
  /\ reading' = [reading EXCEPT ![c].left = Tail(@)]
  /\ harmed' = (harmed \/ (c # LogThread /\ queues[Head(reading[c].left)] > 0))
  /\ UNCHANGED <<queues, call, interval, busy, stopped, ended, alive>>

Write(c) == PopLog(c) \/ NextQueue(c)

------------------------------------------------------------------------------
(***************************************************************************)
(* The log thread runs _loop.  It looks at `stopped' only when it sleeps.  *)
(***************************************************************************)
Wake ==
  /\ ~stopped /\ ~ended /\ LogThread \notin DOMAIN reading
  /\ LogUpdate(LogThread)
  /\ UNCHANGED <<queues, call, interval, busy, stopped, ended, harmed, alive>>

EndPass ==
  /\ Visited(LogThread)
  /\ LogLoop!Pass(reading[LogThread].busy)
  /\ IF LogLoop!Sleeps' THEN Return(LogThread) ELSE LogUpdate(LogThread)
  /\ UNCHANGED <<queues, call, stopped, ended, harmed, alive>>

LogThreadEnds ==
  /\ alive /\ stopped /\ ~ended /\ LogThread \notin DOMAIN reading
  /\ ended' = TRUE
  /\ UNCHANGED <<queues, call, reading, interval, busy, stopped, harmed, alive>>

LogThreadStep == Wake \/ Write(LogThread) \/ EndPass \/ LogThreadEnds
LogStep(t) == LogFind(t) \/ LogInsert(t) \/ LogPush(t)

\* Stop() up to the join; Flush() and OnAbort() are put together by the callers.
StopLog == stopped' = TRUE
==============================================================================
