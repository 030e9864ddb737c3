----------------------------- MODULE UnitManager -----------------------------
(***************************************************************************)
(* The life of a process (src/unit_manager.cpp): UnitManager::Run() takes  *)
(* a logger, a ServerUnit with one thread of its own and a LuaUnit, which  *)
(* stands for the application, through Init, Start, Stop and Release, in   *)
(* whatever order the unordered_map keeps them.  Every step is logged by   *)
(* the main thread while the io thread logs what happens to connections,   *)
(* and either thread may crash, in which case it flushes the logger.       *)
(***************************************************************************)
EXTENDS Logger, FiniteSets

CONSTANTS Main, Io   \* the threads that log

NoThread == "none"
ASSUME ThreadsAssumption == Threads = {Main, Io} /\ Main # Io /\ NoThread \notin Threads

Units == {"LOGGER", "SERVER", "LUA"}

VARIABLES
  order,      \* the order in which _units is iterated
  phase, at,  \* what Run() is doing, and to which unit
  todo,       \* messages main still has to log before it goes on
  server,     \* ServerUnit: its io thread, and whether it listens
  hasStop,    \* LuaUnit::_stop is not null
  exit,       \* UnitManager::_io_context.stop() has been called
  aborting    \* the thread that is in OnAbort()
runVars == <<order, phase, at, todo, server, hasStop, exit, aborting>>
vars == <<logVars, runVars>>

Init ==
  /\ InitLogger
  /\ order \in SetToSeqs(Units)
  /\ phase = "init" /\ at = 1 /\ todo = 0
  /\ server = "none" /\ hasStop = FALSE /\ exit = FALSE /\ aborting = NoThread

\* Main goes on when its last message is in the queue.
Ready(p, unit) == /\ alive /\ phase = p /\ order[at] = unit
                  /\ todo = 0 /\ Idle(Main) /\ aborting # Main

\* A unit is done, having logged `errors' messages; its success is logged, and
\* after the last one that of all units.
Proceed(next, errors) ==
  IF at = Len(order)
  THEN phase' = next /\ at' = 1 /\ todo' = errors + 2
  ELSE phase' = phase /\ at' = at + 1 /\ todo' = errors + 1

\* Init or Start returned false: Run() calls _Stop() for all units.
Fail(errors) == phase' = "stop" /\ at' = 1 /\ todo' = errors

------------------------------------------------------------------------------
(***************************************************************************)
(* _Init() and _Start()                                                    *)
(***************************************************************************)
LoggerInit ==
  /\ Ready("init", "LOGGER") /\ Proceed("start", 0)
  /\ UNCHANGED <<logVars, order, server, hasStop, exit, aborting>>

ServerInit ==
  /\ Ready("init", "SERVER") /\ Proceed("start", 0)
  /\ server' = "idle"
  /\ UNCHANGED <<logVars, order, hasStop, exit, aborting>>

\* The file may not run; a function may be missing, before or after Stop.
LuaInit ==
  /\ Ready("init", "LUA")
  /\ \/ Proceed("start", 0) /\ hasStop' = TRUE
     \/ Fail(2) /\ hasStop' = FALSE
     \/ Fail(3) /\ hasStop' \in BOOLEAN
  /\ UNCHANGED <<logVars, order, server, exit, aborting>>

LoggerStart ==
  /\ Ready("start", "LOGGER") /\ Proceed("run", 0)
  /\ UNCHANGED <<logVars, order, server, hasStop, exit, aborting>>

\* A callback may be missing.
ServerStart ==
  /\ Ready("start", "SERVER") /\ (Proceed("run", 0) \/ Fail(2))
  /\ UNCHANGED <<logVars, order, server, hasStop, exit, aborting>>

\* The application's Start may listen, fail or throw (which counts as success).
LuaStart ==
  /\ Ready("start", "LUA") /\ (Proceed("run", 0) \/ Proceed("run", 1) \/ Fail(1))
  /\ server' \in {server, "listening"}
  /\ UNCHANGED <<logVars, order, hasStop, exit, aborting>>

------------------------------------------------------------------------------
(***************************************************************************)
(* The threads run until SetExit(true), by a callback or by SIGUSR1.       *)
(***************************************************************************)
CallbackLogs ==
  /\ (Ready("run", order[at]) /\ ~exit) \/ Ready("polling", order[at])
  /\ todo' = 1
  /\ UNCHANGED <<logVars, order, phase, at, server, hasStop, exit, aborting>>

\* The main thread runs the _recv_loop of the server.  It finds something, and does
\* not suspend before it finds nothing; until then run() does not notice SetExit.
RecvLoopFinds ==
  /\ Ready("run", order[at]) /\ ~exit /\ server = "listening"
  /\ phase' = "polling"
  /\ UNCHANGED <<logVars, order, at, todo, server, hasStop, exit, aborting>>

RecvLoopSleeps ==
  /\ Ready("polling", order[at])
  /\ phase' = "run"
  /\ UNCHANGED <<logVars, order, at, todo, server, hasStop, exit, aborting>>

SetExit ==
  /\ alive /\ ~exit /\ exit' = TRUE
  /\ UNCHANGED <<logVars, order, phase, at, todo, server, hasStop, aborting>>

RunReturns ==
  /\ Ready("run", order[at]) /\ exit
  /\ phase' = "stop"
  /\ UNCHANGED <<logVars, order, at, todo, server, hasStop, exit, aborting>>

MainLogs ==
  /\ aborting # Main /\ todo > 0
  /\ LogCall(Main)
  /\ todo' = todo - 1
  /\ UNCHANGED <<order, phase, at, server, hasStop, exit, aborting>>

IoLogs ==
  /\ server = "listening" /\ aborting # Io
  /\ LogCall(Io)
  /\ UNCHANGED runVars

IoEnds ==
  /\ alive /\ server = "stopping" /\ Idle(Io) /\ aborting # Io
  /\ server' = "ended"
  /\ UNCHANGED <<logVars, order, phase, at, todo, hasStop, exit, aborting>>

------------------------------------------------------------------------------
(***************************************************************************)
(* _Stop() and _Release()                                                  *)
(***************************************************************************)
\* Mutant: the io_context of the logger is not stopped.
LoggerStopAlone ==
  /\ Ready("stop", "LOGGER") /\ ended /\ aborting = NoThread
  /\ Proceed("release", 0)
  /\ UNCHANGED <<logVars, order, server, hasStop, exit, aborting>>

\* Stop() waits for the log thread.  (Two threads never wait for it at a time:
\* bound, no orderly stop of the logger while a thread aborts.)
LoggerStop ==
  /\ Ready("stop", "LOGGER") /\ aborting = NoThread
  /\ \/ /\ ~stopped /\ StopLog
        /\ UNCHANGED <<queues, call, reading, interval, busy, ended, harmed, alive, phase, at, todo>>
     \/ /\ stopped /\ ended
        /\ Proceed("release", 0)
        /\ UNCHANGED logVars
  /\ UNCHANGED <<order, server, hasStop, exit, aborting>>

\* Mutant: the io thread is not joined.
ServerStopNoJoin ==
  /\ Ready("stop", "SERVER") /\ Proceed("release", 0)
  /\ server' = IF server = "none" THEN "none" ELSE "stopping"
  /\ UNCHANGED <<logVars, order, hasStop, exit, aborting>>

ServerStop ==
  /\ Ready("stop", "SERVER")
  /\ \/ /\ server \in {"idle", "listening"}
        /\ server' = "stopping"
        /\ UNCHANGED <<phase, at, todo>>
     \/ /\ server \in {"none", "ended"}
        /\ Proceed("release", 0)
        /\ UNCHANGED server
  /\ UNCHANGED <<logVars, order, hasStop, exit, aborting>>

\* OnAbort() up to the join, from the handler of a fatal signal.
StartAbort(t) ==
  /\ aborting = NoThread /\ aborting' = t
  /\ StopLog
  /\ UNCHANGED <<queues, call, reading, interval, busy, ended, harmed, alive>>

\* The script's Stop may throw; without Init there is none, and *_stop crashes.
LuaStop ==
  /\ Ready("stop", "LUA")
  /\ \/ /\ hasStop /\ (Proceed("release", 0) \/ Proceed("release", 1))
        /\ UNCHANGED <<logVars, aborting>>
     \/ /\ ~hasStop /\ StartAbort(Main)
        /\ UNCHANGED <<phase, at, todo>>
  /\ UNCHANGED <<order, server, hasStop, exit>>

\* Mutant: the destructor does not flush.
ReleaseUnflushed ==
  /\ Ready("release", order[at])
  /\ phase' = "returned"
  /\ UNCHANGED <<logVars, order, at, todo, server, hasStop, exit, aborting>>

\* _Release(): with _units.clear() the logger's destructor flushes.
Release ==
  /\ Ready("release", order[at])
  /\ phase' = "clear" /\ LogUpdate(Main)
  /\ UNCHANGED <<queues, call, interval, busy, stopped, ended, harmed, alive>>
  /\ UNCHANGED <<order, at, todo, server, hasStop, exit, aborting>>

Returned ==
  /\ phase = "clear" /\ Visited(Main)
  /\ phase' = "returned" /\ Return(Main)
  /\ UNCHANGED <<queues, call, interval, busy, stopped, ended, harmed, alive>>
  /\ UNCHANGED <<order, at, todo, server, hasStop, exit, aborting>>

------------------------------------------------------------------------------
(***************************************************************************)
(* A thread crashes (bound: in the application's code, while Run() runs).  *)
(***************************************************************************)
Crash(t) ==
  /\ alive /\ phase \in {"run", "polling"} /\ Idle(t)
  /\ t = Main => todo = 0
  /\ t = Io => server = "listening"
  /\ StartAbort(t)
  /\ UNCHANGED <<order, phase, at, todo, server, hasStop, exit>>

\* Mutant: OnAbort does not wait for the log thread.
AbortFlushesAtOnce(t) ==
  /\ aborting = t /\ t \notin DOMAIN reading
  /\ LogUpdate(t)
  /\ UNCHANGED <<queues, call, interval, busy, stopped, ended, harmed, alive, runVars>>

AbortFlushes(t) ==
  /\ aborting = t /\ t \notin DOMAIN reading /\ ended
  /\ LogUpdate(t)
  /\ UNCHANGED <<queues, call, interval, busy, stopped, ended, harmed, alive, runVars>>

AbortEnds(t) ==
  /\ aborting = t /\ Visited(t)
  /\ alive' = FALSE
  /\ UNCHANGED <<queues, call, reading, interval, busy, stopped, ended, harmed, runVars>>

------------------------------------------------------------------------------
Manager ==
  \/ LoggerInit \/ ServerInit \/ LuaInit
  \/ LoggerStart \/ ServerStart \/ LuaStart
  \/ MainLogs \/ RunReturns
  \/ LoggerStop \/ ServerStop \/ LuaStop \/ Release \/ Returned

\* What a thread does in the logger.
Logs(t) == (LogStep(t) \/ Write(t)) /\ UNCHANGED runVars
Aborts(t) == AbortFlushes(t) \/ AbortEnds(t)
LogThreadRuns == LogThreadStep /\ UNCHANGED runVars

Next ==
  \/ Manager
  \/ SetExit \/ CallbackLogs \/ RecvLoopFinds \/ RecvLoopSleeps
  \/ IoLogs \/ IoEnds
  \/ \E t \in Threads : Logs(t) \/ Aborts(t) \/ Crash(t)
  \/ LogThreadRuns
  \/ MapCrash /\ UNCHANGED runVars

Spec == Init /\ [][Next]_vars

\* Every thread is scheduled; the logger's timer expires.  Nothing makes _recv_loop
\* find its queue empty.
FairSpec ==
  /\ Spec
  /\ WF_vars(Manager \/ Logs(Main) \/ Aborts(Main))
  /\ WF_vars(Logs(Io) \/ Aborts(Io) \/ IoEnds)
  /\ WF_vars(LogThreadRuns)

------------------------------------------------------------------------------
TypeOK ==
  /\ DOMAIN queues \subseteq Threads /\ \A t \in DOMAIN queues : queues[t] \in 0 .. Size - 1
  /\ call \in [Threads -> {"none", "find", "insert", "push"}]
  /\ DOMAIN reading \subseteq Threads \cup {LogThread}
  /\ interval \in 0 .. MaxInterval /\ busy \in BOOLEAN
  /\ stopped \in BOOLEAN /\ ended \in BOOLEAN /\ harmed \in BOOLEAN /\ alive \in BOOLEAN
  /\ phase \in {"init", "start", "run", "polling", "stop", "release", "clear", "returned"}
  /\ at \in 1 .. 3 /\ todo \in 0 .. 3
  /\ server \in {"none", "idle", "listening", "stopping", "ended"}
  /\ hasStop \in BOOLEAN /\ exit \in BOOLEAN
  /\ aborting \in Threads \cup {NoThread}

\* The queues have one consumer at a time, as SpscQueue requires: whoever flushes
\* has waited for the log thread.
OneConsumer == Cardinality(DOMAIN reading) <= 1

\* Nothing that was logged is missing from the file when Run() returns, and
\* nothing the crashing thread had logged when the process dies; unless a lookup
\* or a Flush() has missed a queue because another thread inserted into the map.
LogIsKept ==
  ~harmed =>
    /\ phase = "returned" => \A t \in DOMAIN queues : queues[t] = 0
    /\ ~alive /\ aborting \in DOMAIN queues => queues[aborting] = 0

\* No thread logs, or can still log, once the logger is being destroyed.
NoneLogsIntoNothing ==
  phase \in {"clear", "returned"} =>
    server \in {"none", "ended"} /\ ended /\ \A t \in Threads : Idle(t)

\* When the program is to stop Run() returns, or a crash ends the process, or a
\* thread spins in Log() on a full queue that nobody reads any more.  There are two
\* exceptions: a thread that never stops logging keeps the log thread, and whoever
\* waits for it, and a _recv_loop that never finds its queue empty keeps Run().
SpinsForEver ==
  \E t \in Threads : call[t] = "push" /\ queues[t] = Size - 1 /\ ended
HangsOnlyInLog ==
  \/ \E t \in Threads : []<>(call[t] = "find")
  \/ <>[](phase = "polling" /\ aborting = NoThread)
  \/ (exit \/ phase = "stop") ~> (phase = "returned" \/ ~alive \/ SpinsForEver)
==============================================================================
