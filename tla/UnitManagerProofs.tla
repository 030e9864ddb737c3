-------------------------- MODULE UnitManagerProofs --------------------------
(***************************************************************************)
(* Theorems about UnitManager for every Size and MaxInterval.              *)
(***************************************************************************)
EXTENDS UnitManager, SequenceLemmas

(***************************************************************************)
(* The inductive invariant.                                                *)
(***************************************************************************)
\* The parts of the state TypeOK leaves open.
Shape ==
  /\ order \in [1 .. 3 -> Units] /\ \A u \in Units : \E i \in 1 .. 3 : order[i] = u
  /\ queues \in [DOMAIN queues -> 0 .. Size - 1]
  /\ reading \in [DOMAIN reading -> [left : Seq(DOMAIN queues), busy : BOOLEAN]]

\* A unit whose Stop has returned.
HasStopped(u) == \/ phase \in {"release", "clear", "returned"}
                 \/ phase = "stop" /\ \E i \in 1 .. 3 : i < at /\ order[i] = u

\* Once the logger has stopped the log thread is gone and no thread aborts, but
\* Main, which then goes no further; a stopped server has no io thread.
Phases ==
  /\ phase = "init" => server \in {"none", "idle"}
  /\ phase \in {"run", "polling"} => at = 1
  /\ HasStopped("LOGGER") => ended /\ aborting # Io
  /\ HasStopped("SERVER") => server \in {"none", "ended"}
  /\ phase \in {"release", "clear", "returned"} => aborting = NoThread

\* Whoever flushes has waited for the log thread.
Consumers ==
  /\ ended => LogThread \notin DOMAIN reading
  /\ \A c \in DOMAIN reading \cap Threads :
       ended /\ (aborting = c \/ (c = Main /\ phase = "clear"))
  /\ phase = "clear" => Main \in DOMAIN reading

\* The threads that no longer log.
Silent ==
  /\ server \in {"none", "idle", "ended"} => Idle(Io)
  /\ aborting \in Threads => Idle(aborting)
  /\ phase \in {"clear", "returned"} => Idle(Main) /\ todo = 0

\* What a flush has passed stays empty.
Passed(c, t) == c \in DOMAIN reading /\ t \notin Range(reading[c].left)
Flushed ==
  ~harmed =>
    /\ phase = "clear" => \A t \in DOMAIN queues : Passed(Main, t) => queues[t] = 0
    /\ phase = "returned" => \A t \in DOMAIN queues : queues[t] = 0
    /\ aborting \in DOMAIN queues /\ (~alive \/ Passed(aborting, aborting)) =>
         queues[aborting] = 0

IndInv == TypeOK /\ Shape /\ Phases /\ Consumers /\ Silent /\ Flushed

\* The two halves of TypeOK, which steps disturb separately.
LogTypeOK ==
  /\ DOMAIN queues \subseteq Threads /\ \A t \in DOMAIN queues : queues[t] \in 0 .. Size - 1
  /\ call \in [Threads -> {"none", "find", "insert", "push"}]
  /\ DOMAIN reading \subseteq Threads \cup {LogThread}
  /\ interval \in 0 .. MaxInterval /\ busy \in BOOLEAN
  /\ stopped \in BOOLEAN /\ ended \in BOOLEAN /\ harmed \in BOOLEAN /\ alive \in BOOLEAN
RunTypeOK ==
  /\ phase \in {"init", "start", "run", "polling", "stop", "release", "clear", "returned"}
  /\ at \in 1 .. 3 /\ todo \in 0 .. 3
  /\ server \in {"none", "idle", "listening", "stopping", "ended"}
  /\ hasStop \in BOOLEAN /\ exit \in BOOLEAN
  /\ aborting \in Threads \cup {NoThread}

LEMMA TypeParts == TypeOK <=> LogTypeOK /\ RunTypeOK
BY Zenon DEF TypeOK, LogTypeOK, RunTypeOK

------------------------------------------------------------------------------
LEMMA InitIndInv == Init => IndInv
<1> SUFFICES ASSUME Init PROVE IndInv
  OBVIOUS
<1> USE ThreadsAssumption, LoggerAssumption
<1>1. /\ queues = <<>> /\ reading = <<>> /\ call = [t \in Threads |-> "none"]
      /\ interval = 1 /\ busy = FALSE
      /\ stopped = FALSE /\ ended = FALSE /\ harmed = FALSE /\ alive = TRUE
      /\ order \in SetToSeqs(Units) /\ phase = "init" /\ at = 1 /\ todo = 0
      /\ server = "none" /\ hasStop = FALSE /\ exit = FALSE /\ aborting = NoThread
  BY DEF Init, InitLogger, LogLoop!Init, LogLoop!NSINTERVAL
<1>2. DOMAIN queues = {} /\ DOMAIN reading = {}
  BY <1>1
<1>3. LogTypeOK
  <2>1. busy \in BOOLEAN /\ stopped \in BOOLEAN /\ ended \in BOOLEAN /\ harmed \in BOOLEAN /\ alive \in BOOLEAN
    BY <1>1, Zenon
  <2>2. interval \in 0 .. MaxInterval /\ call \in [Threads -> {"none", "find", "insert", "push"}]
    BY <1>1
  <2>3. QED
    BY <1>2, <2>1, <2>2 DEF LogTypeOK
<1>4. RunTypeOK
  <2>1. hasStop \in BOOLEAN /\ exit \in BOOLEAN
    BY <1>1, Zenon
  <2>2. QED
    BY <1>1, <2>1 DEF RunTypeOK
<1>5. Shape
  <2>1. IsFiniteSet({"LOGGER"}) /\ IsFiniteSet({"LOGGER", "SERVER"}) /\ IsFiniteSet(Units)
        /\ Cardinality({"LOGGER"}) = 1 /\ Cardinality({"LOGGER", "SERVER"}) = 2 /\ Cardinality(Units) = 3
    <3>1. IsFiniteSet({"LOGGER"}) /\ Cardinality({"LOGGER"}) = 1
      BY FS_Singleton
    <3>2. {"LOGGER", "SERVER"} = {"LOGGER"} \cup {"SERVER"} /\ Units = {"LOGGER", "SERVER"} \cup {"LUA"}
      BY DEF Units
    <3>3. IsFiniteSet({"LOGGER", "SERVER"}) /\ Cardinality({"LOGGER", "SERVER"}) = 2
      <4>1. "SERVER" \notin {"LOGGER"}
        OBVIOUS
      <4>2. QED
        BY <3>1, <3>2, <4>1, FS_AddElement
    <3>4. IsFiniteSet(Units) /\ Cardinality(Units) = 3
      <4>1. "LUA" \notin {"LOGGER", "SERVER"}
        OBVIOUS
      <4>2. QED
        BY <3>2, <3>3, <4>1, FS_AddElement
    <3>5. QED
      BY <3>1, <3>3, <3>4
  <2>2. order \in [1 .. 3 -> Units] /\ Range(order) = Units
    BY <1>1, <2>1, OrderFacts
  <2>3. \A u \in Units : \E i \in 1 .. 3 : order[i] = u
    BY <2>2 DEF Range
  <2>4. queues \in [DOMAIN queues -> 0 .. Size - 1]
        /\ reading \in [DOMAIN reading -> [left : Seq(DOMAIN queues), busy : BOOLEAN]]
    BY <1>1, <1>2
  <2>5. QED
    BY <2>2, <2>3, <2>4 DEF Shape
<1>6. Phases
  BY <1>1 DEF Phases, HasStopped
<1>7. Consumers
  BY <1>1, <1>2 DEF Consumers
<1>8. Silent
  BY <1>1 DEF Silent, Idle
<1>9. Flushed
  BY <1>1, <1>2 DEF Flushed
<1>10. QED
  BY <1>3, <1>4, <1>5, <1>6, <1>7, <1>8, <1>9, TypeParts DEF IndInv

------------------------------------------------------------------------------
(***************************************************************************)
(* The main thread.                                                        *)
(***************************************************************************)
\* What a step that leaves the logger alone has to keep.
LEMMA LoggerAlone ==
  ASSUME IndInv, UNCHANGED <<logVars, order, aborting>>,
         RunTypeOK', Phases',
         phase \notin {"clear", "returned"}, phase' \notin {"clear", "returned"},
         server' \in {"none", "idle", "ended"} => Idle(Io)
  PROVE  IndInv'
<1>1. UNCHANGED <<queues, call, reading, interval, busy, stopped, ended, harmed, alive, order, aborting>>
  BY DEF logVars
<1>2. TypeOK'
  <2>1. LogTypeOK'
    BY <1>1, TypeParts, Zenon DEF IndInv, LogTypeOK
  <2>2. QED
    BY <2>1, TypeParts, PTL
<1>3. Shape'
  BY <1>1, Zenon DEF IndInv, Shape
<1>4. Consumers'
  BY <1>1 DEF IndInv, Consumers
<1>5. Silent'
  BY <1>1 DEF IndInv, Silent, Idle
<1>6. Flushed'
  BY <1>1 DEF IndInv, Flushed, Passed
<1>7. QED
  BY <1>2, <1>3, <1>4, <1>5, <1>6 DEF IndInv

\* The next unit, or the next phase.
LEMMA ProceedFacts ==
  ASSUME IndInv, NEW p, NEW next, NEW errors \in 0 .. 1, Proceed(next, errors),
         Ready(p, order[at]),
         <<p, next>> \in {<<"init", "start">>, <<"start", "run">>, <<"stop", "release">>}
  PROVE  /\ phase' \in {p, next} /\ at' \in 1 .. 3 /\ todo' \in 0 .. 3
         /\ phase' = "run" => at' = 1
         /\ p = "stop" /\ phase' = "stop" => at' = at + 1
         /\ p = "stop" /\ phase' = "release" => at = 3
<1>1. Len(order) = 3
  BY DEF IndInv, Shape
<1>2. at \in 1 .. 3 /\ phase = p
  BY DEF IndInv, TypeOK, Ready
<1>3. QED
  BY <1>1, <1>2 DEF Proceed

\* While the units are initialised or started.
LEMMA StartingSteps ==
  ASSUME IndInv, \/ LoggerInit \/ ServerInit \/ LuaInit
                 \/ LoggerStart \/ ServerStart \/ LuaStart
  PROVE  IndInv'
<1>1. PICK p \in {"init", "start"} : Ready(p, order[at])
  BY DEF LoggerInit, ServerInit, LuaInit, LoggerStart, ServerStart, LuaStart, Ready
<1>2. UNCHANGED <<logVars, order, exit, aborting>>
  BY DEF LoggerInit, ServerInit, LuaInit, LoggerStart, ServerStart, LuaStart
<1>3. phase = p /\ Ready(p, order[at]) /\ RunTypeOK
  BY <1>1, TypeParts DEF Ready, IndInv
<1>4. \/ p = "init" /\ Proceed("start", 0)
      \/ p = "start" /\ (Proceed("run", 0) \/ Proceed("run", 1))
      \/ Fail(1) \/ Fail(2) \/ Fail(3)
  BY <1>1, Zenon DEF LoggerInit, ServerInit, LuaInit, LoggerStart, ServerStart, LuaStart, Ready
<1>5. /\ phase' \in {"init", "start", "run", "stop"} /\ at' \in 1 .. 3 /\ todo' \in 0 .. 3
      /\ phase' \in {"run", "stop"} => at' = 1
      /\ phase' = "init" => phase = "init"
  <2>1. ASSUME NEW next, NEW errors \in 0 .. 1, Proceed(next, errors),
               <<p, next>> \in {<<"init", "start">>, <<"start", "run">>}
        PROVE  /\ phase' \in {p, next} /\ at' \in 1 .. 3 /\ todo' \in 0 .. 3
               /\ phase' = "run" => at' = 1
    BY <1>1, <2>1, ProceedFacts
  <2>2. CASE p = "init" /\ Proceed("start", 0)
    BY <1>3, <2>1, <2>2
  <2>3. CASE p = "start" /\ (Proceed("run", 0) \/ Proceed("run", 1))
    BY <1>3, <2>1, <2>3
  <2>4. CASE Fail(1) \/ Fail(2) \/ Fail(3)
    BY <2>4 DEF Fail
  <2>5. QED
    BY <1>4, <2>2, <2>3, <2>4
<1>6. /\ server' = server \/ (server' = "idle" /\ phase = "init") \/ (server' = "listening" /\ phase = "start")
      /\ hasStop' \in BOOLEAN
  BY <1>3, Zenon DEF LoggerInit, ServerInit, LuaInit, LoggerStart, ServerStart, LuaStart, RunTypeOK, Ready
<1>7. RunTypeOK'
  <2>1. exit' \in BOOLEAN /\ aborting' \in Threads \cup {NoThread}
    BY <1>2, <1>3 DEF RunTypeOK
  <2>2. server' \in {"none", "idle", "listening", "stopping", "ended"}
    BY <1>3, <1>6 DEF RunTypeOK
  <2>3. QED
    BY <1>5, <1>6, <2>1, <2>2 DEF RunTypeOK
<1>8. Phases'
  BY <1>1, <1>3, <1>5, <1>6 DEF IndInv, Phases, HasStopped
<1>9. server' \in {"none", "idle", "ended"} => Idle(Io)
  BY <1>3, <1>6 DEF IndInv, Phases, Silent
<1>10. QED
  BY <1>1, <1>2, <1>3, <1>5, <1>7, <1>8, <1>9, LoggerAlone

LEMMA SetExitStep == ASSUME IndInv, SetExit PROVE IndInv'
<1>1. exit' \in BOOLEAN /\ UNCHANGED <<logVars, order, phase, at, todo, server, hasStop, aborting>>
  BY Zenon DEF SetExit
<1>2. TypeOK'
  BY <1>1, Zenon DEF IndInv, TypeOK, logVars
<1>3. QED
  BY <1>1, <1>2 DEF IndInv, logVars, Shape, Phases, HasStopped, Consumers, Silent, Idle, Flushed, Passed

LEMMA RunningSteps ==
  ASSUME IndInv, CallbackLogs \/ RecvLoopFinds \/ RecvLoopSleeps \/ RunReturns
  PROVE  IndInv'
<1>1. /\ phase \in {"run", "polling"} /\ at = 1 /\ RunTypeOK
      /\ UNCHANGED <<logVars, order, at, server, hasStop, exit, aborting>>
      /\ phase' \in {"run", "polling", "stop"} /\ todo' \in {todo, 1}
  BY TypeParts DEF IndInv, Phases, CallbackLogs, RecvLoopFinds, RecvLoopSleeps, RunReturns, Ready
<1>2. RunTypeOK'
  <2>1. hasStop' \in BOOLEAN /\ exit' \in BOOLEAN /\ aborting' \in Threads \cup {NoThread}
    BY <1>1, Zenon DEF RunTypeOK
  <2>2. QED
    BY <1>1, <2>1 DEF RunTypeOK
<1>3. Phases'
  BY <1>1 DEF IndInv, Phases, HasStopped, RunTypeOK
<1>4. server' \in {"none", "idle", "ended"} => Idle(Io)
  BY <1>1 DEF IndInv, Silent
<1>5. QED
  BY <1>1, <1>2, <1>3, <1>4, LoggerAlone

LEMMA IoEndsStep == ASSUME IndInv, IoEnds PROVE IndInv'
<1>1. /\ server = "stopping" /\ server' = "ended" /\ Idle(Io) /\ RunTypeOK
      /\ UNCHANGED <<logVars, order, phase, at, todo, hasStop, exit, aborting>>
  BY TypeParts DEF IndInv, IoEnds
<1>2. phase \notin {"init", "clear", "returned"}
  BY <1>1 DEF IndInv, Phases, HasStopped
<1>3. RunTypeOK'
  BY <1>1, Zenon DEF RunTypeOK
<1>4. Phases'
  BY <1>1, <1>2 DEF IndInv, Phases, HasStopped, logVars
<1>5. QED
  BY <1>1, <1>2, <1>3, <1>4, LoggerAlone

\* When a unit has stopped the next one is to stop, or all have.
LEMMA StopProceeds ==
  ASSUME IndInv, NEW errors \in 0 .. 1, Ready("stop", order[at]), Proceed("release", errors),
         order' = order
  PROVE  /\ phase' \in {"stop", "release"} /\ at' \in 1 .. 3 /\ todo' \in 0 .. 3
         /\ \A u \in Units : HasStopped(u)' => HasStopped(u) \/ order[at] = u
         /\ phase' = "release" => \A u \in Units : HasStopped(u) \/ order[at] = u
<1>1. /\ phase = "stop" /\ at \in 1 .. 3
      /\ order \in [1 .. 3 -> Units] /\ \A u \in Units : \E i \in 1 .. 3 : order[i] = u
  BY DEF IndInv, TypeOK, Shape, Ready
<1>2. /\ phase' \in {"stop", "release"} /\ at' \in 1 .. 3 /\ todo' \in 0 .. 3
      /\ phase' = "stop" => at' = at + 1
      /\ phase' = "release" => at = 3
  BY ProceedFacts
<1>3. phase' = "release" => \A u \in Units : HasStopped(u) \/ order[at] = u
  <2> SUFFICES ASSUME phase' = "release", NEW u \in Units PROVE HasStopped(u) \/ order[at] = u
    OBVIOUS
  <2>1. PICK i \in 1 .. 3 : order[i] = u
    BY <1>1
  <2>2. i < at \/ i = at
    BY <1>2
  <2>3. QED
    BY <1>1, <2>1, <2>2 DEF HasStopped
<1>4. ASSUME NEW u \in Units, phase' = "stop", HasStopped(u)' PROVE HasStopped(u) \/ order[at] = u
  <2>1. PICK i \in 1 .. 3 : i < at' /\ order[i] = u
    BY <1>4 DEF HasStopped
  <2>2. i < at \/ i = at
    BY <1>1, <1>2, <1>4, <2>1
  <2>3. QED
    BY <1>1, <2>1, <2>2 DEF HasStopped
<1>5. QED
  BY <1>2, <1>3, <1>4

\* What a stopped unit leaves behind, when the logger's variables do not change.
LEMMA StoppedUnit ==
  ASSUME IndInv, NEW errors \in 0 .. 1, Ready("stop", order[at]), Proceed("release", errors),
         UNCHANGED <<logVars, order, aborting, server, hasStop, exit>>,
         order[at] = "LOGGER" => ended /\ aborting # Io,
         order[at] = "SERVER" => server \in {"none", "ended"}
  PROVE  IndInv'
<1>1. /\ phase' \in {"stop", "release"} /\ at' \in 1 .. 3 /\ todo' \in 0 .. 3
      /\ \A u \in Units : HasStopped(u)' => HasStopped(u) \/ order[at] = u
      /\ phase' = "release" => \A u \in Units : HasStopped(u) \/ order[at] = u
  BY StopProceeds
<1>2. RunTypeOK /\ phase = "stop" /\ aborting # Main
  BY TypeParts DEF IndInv, Ready
<1>3. ended' = ended /\ aborting' = aborting /\ server' = server
  BY DEF logVars
<1>4. RunTypeOK'
  <2>1. hasStop' \in BOOLEAN /\ exit' \in BOOLEAN /\ aborting' \in Threads \cup {NoThread}
    BY <1>2, Zenon DEF RunTypeOK
  <2>2. QED
    BY <1>1, <1>2, <1>3, <2>1 DEF RunTypeOK
<1>5. /\ HasStopped("LOGGER")' => ended /\ aborting # Io
      /\ HasStopped("SERVER")' => server \in {"none", "ended"}
      /\ phase' = "release" => ended /\ aborting # Io
  BY <1>1 DEF IndInv, Phases, Units
<1>6. aborting \in {Main, Io, NoThread}
  BY <1>2, ThreadsAssumption DEF RunTypeOK
<1>7. Phases'
  BY <1>1, <1>2, <1>3, <1>5, <1>6 DEF Phases
<1>8. server' \in {"none", "idle", "ended"} => Idle(Io)
  BY <1>3 DEF IndInv, Silent
<1>9. QED
  BY <1>1, <1>2, <1>4, <1>7, <1>8, LoggerAlone

LEMMA ServerStopStep == ASSUME IndInv, ServerStop PROVE IndInv'
<1>1. Ready("stop", order[at]) /\ order[at] = "SERVER" /\ phase = "stop" /\ RunTypeOK
      /\ UNCHANGED <<logVars, order, hasStop, exit, aborting>>
  BY TypeParts DEF IndInv, ServerStop, Ready
<1>2. CASE server \in {"none", "ended"} /\ Proceed("release", 0) /\ UNCHANGED server
  BY <1>1, <1>2, StoppedUnit
<1>3. CASE server \in {"idle", "listening"} /\ server' = "stopping" /\ UNCHANGED <<phase, at, todo>>
  <2>1. RunTypeOK'
    BY <1>1, <1>3, Zenon DEF RunTypeOK
  <2>2. Phases'
    BY <1>1, <1>3 DEF IndInv, Phases, HasStopped, logVars
  <2>3. QED
    BY <1>1, <1>3, <2>1, <2>2, LoggerAlone
<1>4. QED
  BY <1>2, <1>3 DEF ServerStop

LEMMA LoggerStopStep == ASSUME IndInv, LoggerStop PROVE IndInv'
<1>1. /\ Ready("stop", order[at]) /\ order[at] = "LOGGER" /\ phase = "stop" /\ aborting = NoThread
      /\ UNCHANGED <<order, server, hasStop, exit, aborting>> /\ LogTypeOK /\ RunTypeOK
  BY TypeParts DEF IndInv, LoggerStop, Ready
<1>2. CASE stopped /\ ended /\ Proceed("release", 0) /\ UNCHANGED logVars
  BY <1>1, <1>2, ThreadsAssumption, StoppedUnit
<1>3. CASE /\ StopLog
           /\ UNCHANGED <<queues, call, reading, interval, busy, ended, harmed, alive, phase, at, todo>>
  <2>1. stopped' \in BOOLEAN
    BY <1>3 DEF StopLog
  <2>2. LogTypeOK' /\ RunTypeOK'
    BY <1>1, <1>3, <2>1, Zenon DEF LogTypeOK, RunTypeOK
  <2>3. Shape' /\ Phases' /\ Consumers' /\ Silent' /\ Flushed'
    BY <1>1, <1>3 DEF IndInv, Shape, Phases, HasStopped, Consumers, Silent, Idle, Flushed, Passed
  <2>4. QED
    BY <2>2, <2>3, TypeParts, PTL DEF IndInv
<1>4. QED
  BY <1>2, <1>3 DEF LoggerStop

\* A thread that does not log starts to abort while no one does.
LEMMA StartAbortStep ==
  ASSUME IndInv, NEW t \in Threads, StartAbort(t), Idle(t), alive,
         t = Io => phase \in {"run", "polling"}, phase \in {"run", "polling", "stop"},
         UNCHANGED <<order, phase, at, todo, server, hasStop, exit>>
  PROVE  IndInv'
<1>1. /\ aborting = NoThread /\ aborting' = t /\ stopped' \in BOOLEAN
      /\ UNCHANGED <<queues, call, reading, interval, busy, ended, harmed, alive>>
      /\ LogTypeOK /\ RunTypeOK
  BY TypeParts DEF IndInv, StartAbort, StopLog
<1>2. LogTypeOK' /\ RunTypeOK'
  BY <1>1, Zenon DEF LogTypeOK, RunTypeOK
<1>3. Shape' /\ Silent'
  BY <1>1 DEF IndInv, Shape, Silent, Idle
<1>4. Phases'
  <2>1. HasStopped("LOGGER")' => t # Io
    BY <1>1, ThreadsAssumption DEF IndInv, Phases, HasStopped
  <2>2. QED
    BY <1>1, <2>1 DEF IndInv, Phases, HasStopped
<1>5. t \notin DOMAIN reading /\ Consumers'
  BY <1>1, ThreadsAssumption DEF IndInv, Consumers
<1>6. Flushed'
  BY <1>1, <1>5 DEF IndInv, Flushed, Passed
<1>7. QED
  BY <1>2, <1>3, <1>4, <1>5, <1>6, TypeParts, PTL DEF IndInv

LEMMA LuaStopStep == ASSUME IndInv, LuaStop PROVE IndInv'
<1>1. /\ Ready("stop", order[at]) /\ order[at] = "LUA" /\ phase = "stop" /\ alive /\ Idle(Main)
      /\ UNCHANGED <<order, server, hasStop, exit>>
  BY DEF LuaStop, Ready
<1>2. CASE (Proceed("release", 0) \/ Proceed("release", 1)) /\ UNCHANGED <<logVars, aborting>>
  BY <1>1, <1>2, StoppedUnit
<1>3. CASE StartAbort(Main) /\ UNCHANGED <<phase, at, todo>>
  BY <1>1, <1>3, ThreadsAssumption, StartAbortStep
<1>4. QED
  BY <1>2, <1>3 DEF LuaStop

LEMMA CrashStep == ASSUME IndInv, NEW t \in Threads, Crash(t) PROVE IndInv'
BY StartAbortStep DEF Crash

\* A call of _LogUpdate begins with all queues.
LEMMA UpdateFacts ==
  ASSUME LogTypeOK, Shape, NEW c \in Threads \cup {LogThread}, LogUpdate(c), queues' = queues
  PROVE  /\ DOMAIN reading' = DOMAIN reading \cup {c}
         /\ reading' \in [DOMAIN reading' -> [left : Seq(DOMAIN queues), busy : BOOLEAN]]
         /\ Range(reading'[c].left) = DOMAIN queues
         /\ \A d \in DOMAIN reading \ {c} : reading'[d] = reading[d]
<1>1. PICK s \in SetToSeqs(DOMAIN queues) : reading' = With(reading, c, [left |-> s, busy |-> FALSE])
  BY DEF LogUpdate
<1>2. IsFiniteSet(DOMAIN queues)
  <2>1. IsFiniteSet({Main}) /\ IsFiniteSet({Main} \cup {Io})
    BY FS_Singleton, FS_AddElement
  <2>2. DOMAIN queues \subseteq {Main} \cup {Io}
    BY ThreadsAssumption DEF LogTypeOK
  <2>3. QED
    BY <2>1, <2>2, FS_Subset
<1>3. s \in Seq(DOMAIN queues) /\ Range(s) = DOMAIN queues
  BY <1>2, OrderFacts
<1>4. DOMAIN reading' = DOMAIN reading \cup {c}
      /\ \A d \in DOMAIN reading \cup {c} :
           reading'[d] = IF d = c THEN [left |-> s, busy |-> FALSE] ELSE reading[d]
  BY <1>1 DEF With
<1>5. \A d \in DOMAIN reading : reading[d] \in [left : Seq(DOMAIN queues), busy : BOOLEAN]
  BY DEF Shape
<1>6. reading' = [d \in DOMAIN reading' |-> reading'[d]]
  BY <1>1 DEF With
<1>7. [left |-> s, busy |-> FALSE] \in [left : Seq(DOMAIN queues), busy : BOOLEAN]
  BY <1>3
<1>8. \A d \in DOMAIN reading' : reading'[d] \in [left : Seq(DOMAIN queues), busy : BOOLEAN]
  BY <1>4, <1>5, <1>7, Zenon
<1>9. reading' \in [DOMAIN reading' -> [left : Seq(DOMAIN queues), busy : BOOLEAN]]
  BY <1>6, <1>8, Zenon
<1>10. reading'[c].left = s
  BY <1>4
<1>11. QED
  BY <1>3, <1>4, <1>9, <1>10

\* What a thread that begins to read the queues changes of the invariant.
LEMMA NewReader ==
  ASSUME IndInv, NEW c \in Threads \cup {LogThread}, LogUpdate(c), queues' = queues
  PROVE  /\ reading' \in [DOMAIN reading' -> [left : Seq(DOMAIN queues), busy : BOOLEAN]]
         /\ DOMAIN reading' = DOMAIN reading \cup {c}
         /\ DOMAIN reading' \subseteq Threads \cup {LogThread}
         /\ \A d, t : t \in DOMAIN queues /\ Passed(d, t)' => Passed(d, t)
<1>1. LogTypeOK /\ Shape
  BY TypeParts DEF IndInv
<1>2. /\ DOMAIN reading' = DOMAIN reading \cup {c}
      /\ reading' \in [DOMAIN reading' -> [left : Seq(DOMAIN queues), busy : BOOLEAN]]
      /\ Range(reading'[c].left) = DOMAIN queues
      /\ \A d \in DOMAIN reading \ {c} : reading'[d] = reading[d]
  BY <1>1, UpdateFacts
<1>3. ASSUME NEW d, NEW t \in DOMAIN queues, Passed(d, t)' PROVE Passed(d, t)
  BY <1>2, <1>3 DEF Passed
<1>4. DOMAIN reading' \subseteq Threads \cup {LogThread}
  BY <1>1, <1>2 DEF LogTypeOK
<1>5. QED
  BY <1>2, <1>3, <1>4

\* A reader leaves.
LEMMA ReturnFacts ==
  ASSUME IndInv, NEW c, Return(c), queues' = queues
  PROVE  /\ DOMAIN reading' = DOMAIN reading \ {c}
         /\ reading' \in [DOMAIN reading' -> [left : Seq(DOMAIN queues), busy : BOOLEAN]]
         /\ \A d, t : Passed(d, t)' => Passed(d, t)
<1>1. reading \in [DOMAIN reading -> [left : Seq(DOMAIN queues), busy : BOOLEAN]]
  BY DEF IndInv, Shape
<1>2. /\ DOMAIN reading' = DOMAIN reading \ {c}
      /\ reading' \in [DOMAIN reading \ {c} -> [left : Seq(DOMAIN queues), busy : BOOLEAN]]
      /\ \A d \in DOMAIN reading \ {c} : reading'[d] = reading[d]
  BY <1>1 DEF Return, Restrict
<1>3. QED
  BY <1>2 DEF Passed

LEMMA ReleaseStep == ASSUME IndInv, Release PROVE IndInv'
<1>1. /\ phase = "release" /\ phase' = "clear" /\ todo = 0 /\ Idle(Main) /\ LogUpdate(Main)
      /\ UNCHANGED <<queues, call, interval, busy, stopped, ended, harmed, alive>>
      /\ UNCHANGED <<order, at, todo, server, hasStop, exit, aborting>>
      /\ LogTypeOK /\ RunTypeOK /\ Main \in Threads
  BY TypeParts, ThreadsAssumption DEF IndInv, Release, Ready
<1>2. /\ reading' \in [DOMAIN reading' -> [left : Seq(DOMAIN queues), busy : BOOLEAN]]
      /\ DOMAIN reading' = DOMAIN reading \cup {Main}
      /\ DOMAIN reading' \subseteq Threads \cup {LogThread}
      /\ \A d, t : t \in DOMAIN queues /\ Passed(d, t)' => Passed(d, t)
  BY <1>1, NewReader
<1>3. LogTypeOK' /\ RunTypeOK'
  BY <1>1, <1>2, Zenon DEF LogTypeOK, RunTypeOK
<1>4. Shape'
  BY <1>1, <1>2 DEF IndInv, Shape
<1>5. aborting = NoThread /\ ended
  BY <1>1 DEF IndInv, Phases, HasStopped
<1>6. Phases'
  BY <1>1, <1>5 DEF IndInv, Phases, HasStopped
<1>7. Main # LogThread /\ Main \notin DOMAIN reading
  BY <1>1, <1>5, LoggerAssumption, ThreadsAssumption DEF IndInv, Consumers
<1>8. Consumers'
  BY <1>1, <1>2, <1>5, <1>7 DEF IndInv, Consumers
<1>9. Silent'
  BY <1>1 DEF IndInv, Silent, Idle
<1>10. Flushed'
  <2>1. \A t \in DOMAIN queues : ~Passed(Main, t)'
    BY <1>2, <1>7 DEF Passed
  <2>2. aborting \notin DOMAIN queues
    BY <1>1, <1>5, ThreadsAssumption DEF LogTypeOK
  <2>3. QED
    BY <1>1, <2>1, <2>2 DEF Flushed
<1>11. QED
  BY <1>3, <1>4, <1>6, <1>8, <1>9, <1>10, TypeParts, PTL DEF IndInv

LEMMA ReturnedStep == ASSUME IndInv, Returned PROVE IndInv'
<1>1. /\ phase = "clear" /\ phase' = "returned" /\ Visited(Main) /\ Return(Main)
      /\ UNCHANGED <<queues, call, interval, busy, stopped, ended, harmed, alive>>
      /\ UNCHANGED <<order, at, todo, server, hasStop, exit, aborting>>
      /\ LogTypeOK /\ RunTypeOK
  BY TypeParts DEF IndInv, Returned
<1>2. /\ DOMAIN reading' = DOMAIN reading \ {Main}
      /\ reading' \in [DOMAIN reading' -> [left : Seq(DOMAIN queues), busy : BOOLEAN]]
      /\ \A d, t : Passed(d, t)' => Passed(d, t)
  BY <1>1, ReturnFacts
<1>3. LogTypeOK' /\ RunTypeOK'
  <2>1. DOMAIN reading' \subseteq Threads \cup {LogThread}
    BY <1>1, <1>2 DEF LogTypeOK
  <2>2. QED
    BY <1>1, <2>1, Zenon DEF LogTypeOK, RunTypeOK
<1>4. Shape'
  BY <1>1, <1>2 DEF IndInv, Shape
<1>5. aborting = NoThread
  BY <1>1 DEF IndInv, Phases
<1>6. Phases'
  BY <1>1 DEF IndInv, Phases, HasStopped
<1>7. Consumers'
  BY <1>1, <1>2, <1>5 DEF IndInv, Consumers
<1>8. Silent'
  BY <1>1 DEF IndInv, Silent, Idle
<1>9. Flushed'
  <2>1. \A t \in DOMAIN queues : Passed(Main, t)
    BY <1>1 DEF Visited, InUpdate, Passed, Range
  <2>2. aborting \notin DOMAIN queues
    BY <1>1, <1>5, ThreadsAssumption DEF LogTypeOK
  <2>3. QED
    BY <1>1, <2>1, <2>2 DEF IndInv, Flushed
<1>10. QED
  BY <1>3, <1>4, <1>6, <1>7, <1>8, <1>9, TypeParts, PTL DEF IndInv

------------------------------------------------------------------------------
(***************************************************************************)
(* A thread that aborts.                                                   *)
(***************************************************************************)
LEMMA AbortFlushesStep == ASSUME IndInv, NEW c \in Threads, AbortFlushes(c) PROVE IndInv'
<1>1. /\ aborting = c /\ c \notin DOMAIN reading /\ ended /\ LogUpdate(c) /\ alive
      /\ UNCHANGED <<queues, call, interval, busy, stopped, ended, harmed, alive, order>>
      /\ UNCHANGED <<phase, at, todo, server, hasStop, exit, aborting>>
      /\ LogTypeOK /\ RunTypeOK
  BY TypeParts DEF IndInv, AbortFlushes, LogUpdate, runVars
<1>2. /\ reading' \in [DOMAIN reading' -> [left : Seq(DOMAIN queues), busy : BOOLEAN]]
      /\ DOMAIN reading' = DOMAIN reading \cup {c}
      /\ DOMAIN reading' \subseteq Threads \cup {LogThread}
      /\ \A d, t : t \in DOMAIN queues /\ Passed(d, t)' => Passed(d, t)
  BY <1>1, NewReader
<1>3. LogTypeOK' /\ RunTypeOK'
  BY <1>1, <1>2, Zenon DEF LogTypeOK, RunTypeOK
<1>4. Shape'
  BY <1>1, <1>2 DEF IndInv, Shape
<1>5. Phases' /\ Silent'
  BY <1>1 DEF IndInv, Phases, HasStopped, Silent, Idle
<1>6. Consumers'
  BY <1>1, <1>2, LoggerAssumption DEF IndInv, Consumers
<1>7. Flushed'
  BY <1>1, <1>2 DEF IndInv, Flushed
<1>8. QED
  BY <1>3, <1>4, <1>5, <1>6, <1>7, TypeParts, PTL DEF IndInv

LEMMA AbortEndsStep == ASSUME IndInv, NEW c \in Threads, AbortEnds(c) PROVE IndInv'
<1>1. /\ aborting = c /\ Visited(c) /\ alive' = FALSE /\ alive
      /\ UNCHANGED <<queues, call, reading, interval, busy, stopped, ended, harmed, order>>
      /\ UNCHANGED <<phase, at, todo, server, hasStop, exit, aborting>>
      /\ LogTypeOK /\ RunTypeOK
  BY TypeParts DEF IndInv, AbortEnds, Visited, InUpdate, runVars
<1>2. alive' \in BOOLEAN
  BY <1>1, Zenon
<1>3. LogTypeOK' /\ RunTypeOK'
  BY <1>1, <1>2, Zenon DEF LogTypeOK, RunTypeOK
<1>4. Shape' /\ Phases' /\ Silent' /\ Consumers'
  BY <1>1 DEF IndInv, Shape, Phases, HasStopped, Silent, Idle, Consumers
<1>5. Passed(c, c)
  BY <1>1 DEF Visited, InUpdate, Passed, Range
<1>6. Flushed'
  BY <1>1, <1>5 DEF IndInv, Flushed, Passed
<1>7. QED
  BY <1>3, <1>4, <1>6, TypeParts, PTL DEF IndInv

------------------------------------------------------------------------------
(***************************************************************************)
(* The threads in Log().                                                   *)
(***************************************************************************)
\* A thread may log as long as the invariant does not want it silent.
MayLog(t) == /\ aborting # t
             /\ t = Io => server \notin {"none", "idle", "ended"}
             /\ t = Main => phase \notin {"clear", "returned"}

LEMMA BusyMayLog == ASSUME IndInv, NEW t \in Threads, ~Idle(t) PROVE MayLog(t)
BY DEF IndInv, Silent, MayLog

\* Nothing is logged while, or after, the logger is destroyed.
LEMMA MayLogPhase ==
  ASSUME IndInv, NEW t \in Threads, MayLog(t) PROVE phase \notin {"clear", "returned"}
BY ThreadsAssumption DEF IndInv, Phases, HasStopped, MayLog

\* A step of t in Log() that may change its queue.
LEMMA CallStep ==
  ASSUME IndInv, NEW t \in Threads, MayLog(t),
         NEW line \in {"none", "find", "insert", "push"}, SetCall(t, line),
         UNCHANGED <<reading, interval, busy, stopped, ended, alive>>,
         UNCHANGED <<order, phase, at, server, hasStop, exit, aborting>>,
         todo' \in 0 .. todo,
         harmed' \in BOOLEAN, harmed => harmed',
         queues' \in [DOMAIN queues' -> 0 .. Size - 1],
         DOMAIN queues' \subseteq DOMAIN queues \cup {t}, DOMAIN queues \subseteq DOMAIN queues',
         \A u \in DOMAIN queues \ {t} : queues'[u] = queues[u]
  PROVE  IndInv'
<1>1. LogTypeOK /\ RunTypeOK /\ phase \notin {"clear", "returned"}
  BY TypeParts, MayLogPhase DEF IndInv
<1>2. /\ call' \in [Threads -> {"none", "find", "insert", "push"}]
      /\ \A u \in Threads \ {t} : call'[u] = call[u]
  BY <1>1 DEF SetCall, LogTypeOK
<1>3. LogTypeOK'
  <2>1. DOMAIN queues' \subseteq Threads /\ \A u \in DOMAIN queues' : queues'[u] \in 0 .. Size - 1
    BY <1>1 DEF LogTypeOK
  <2>2. QED
    BY <1>1, <1>2, <2>1, Zenon DEF LogTypeOK
<1>4. RunTypeOK'
  <2>1. todo' \in 0 .. 3
    BY <1>1 DEF RunTypeOK
  <2>2. QED
    BY <1>1, <2>1, Zenon DEF RunTypeOK
<1>5. Shape'
  <2>1. ASSUME NEW c \in DOMAIN reading
        PROVE  reading[c] \in [left : Seq(DOMAIN queues'), busy : BOOLEAN]
    <3>1. reading[c] \in [left : Seq(DOMAIN queues), busy : BOOLEAN]
      BY DEF IndInv, Shape
    <3>2. reading[c].left \in Seq(DOMAIN queues')
      BY <3>1, SeqMonotonic
    <3>3. QED
      BY <3>1, <3>2
  <2>2. reading = [c \in DOMAIN reading |-> reading[c]]
    BY DEF IndInv, Shape
  <2>3. reading \in [DOMAIN reading -> [left : Seq(DOMAIN queues'), busy : BOOLEAN]]
    BY <2>1, <2>2, Zenon
  <2>4. QED
    BY <2>3 DEF IndInv, Shape
<1>6. Phases' /\ Consumers'
  BY DEF IndInv, Phases, HasStopped, Consumers
<1>7. Silent'
  BY <1>1, <1>2, ThreadsAssumption DEF IndInv, Silent, MayLog, Idle
<1>8. Flushed'
  BY <1>1 DEF IndInv, Flushed, Passed, MayLog
<1>9. QED
  BY <1>3, <1>4, <1>5, <1>6, <1>7, <1>8, TypeParts, PTL DEF IndInv

LEMMA LogCallSteps == ASSUME IndInv, MainLogs \/ IoLogs PROVE IndInv'
<1>1. PICK t \in Threads : /\ LogCall(t) /\ MayLog(t) /\ todo' \in 0 .. todo
                           /\ UNCHANGED <<order, phase, at, server, hasStop, exit, aborting>>
  <2>1. todo \in 0 .. 3
    BY DEF IndInv, TypeOK
  <2>2. CASE MainLogs
    BY <2>1, <2>2, ThreadsAssumption DEF MainLogs, MayLog, IndInv, Silent
  <2>3. CASE IoLogs
    BY <2>1, <2>3, ThreadsAssumption DEF IoLogs, MayLog, runVars
  <2>4. QED
    BY <2>2, <2>3
<1>2. /\ SetCall(t, "find")
      /\ UNCHANGED <<queues, reading, interval, busy, stopped, ended, harmed, alive>>
  BY <1>1 DEF LogCall
<1>3. harmed' \in BOOLEAN /\ queues' \in [DOMAIN queues' -> 0 .. Size - 1]
  BY <1>2, Zenon DEF IndInv, TypeOK, Shape
<1>4. QED
  BY <1>1, <1>2, <1>3, CallStep

LEMMA LogSteps ==
  ASSUME IndInv, NEW t \in Threads, LogStep(t), UNCHANGED runVars
  PROVE  IndInv'
<1> USE LoggerAssumption
<1>1. /\ MayLog(t) /\ LogTypeOK
      /\ UNCHANGED <<reading, interval, busy, stopped, ended, alive>>
      /\ UNCHANGED <<order, phase, at, server, hasStop, exit, aborting>>
  BY TypeParts, BusyMayLog DEF IndInv, LogStep, LogFind, LogInsert, LogPush, At, Idle, runVars
<1>2. todo' \in 0 .. todo
  BY DEF IndInv, TypeOK, runVars
<1>3. queues \in [DOMAIN queues -> 0 .. Size - 1] /\ harmed \in BOOLEAN
  BY <1>1, Zenon DEF IndInv, Shape, LogTypeOK
<1>4. CASE LogFind(t)
  <2>1. PICK line \in {"push", "insert"} : SetCall(t, line)
    BY <1>4 DEF LogFind
  <2>2. UNCHANGED <<queues, harmed>>
    BY <1>4 DEF LogFind
  <2>3. QED
    BY <1>1, <1>2, <1>3, <2>1, <2>2, CallStep
<1>5. CASE LogInsert(t)
  <2>1. SetCall(t, "push") /\ queues' = With(queues, t, 0)
    BY <1>5 DEF LogInsert
  <2>2. /\ DOMAIN queues' = DOMAIN queues \cup {t}
        /\ queues' \in [DOMAIN queues' -> 0 .. Size - 1]
        /\ \A u \in DOMAIN queues \ {t} : queues'[u] = queues[u]
    BY <1>3, <2>1 DEF With
  <2>3. harmed' \in BOOLEAN /\ (harmed => harmed')
    BY <1>3, <1>5, Zenon DEF LogInsert
  <2>4. QED
    BY <1>1, <1>2, <2>1, <2>2, <2>3, CallStep
<1>6. CASE LogPush(t)
  <2>1. /\ SetCall(t, "none") /\ queues[t] < Size - 1
        /\ queues' = [queues EXCEPT ![t] = queues[t] + 1] /\ UNCHANGED harmed
    BY <1>6 DEF LogPush
  <2>2. /\ DOMAIN queues' = DOMAIN queues
        /\ queues' \in [DOMAIN queues' -> 0 .. Size - 1]
        /\ \A u \in DOMAIN queues \ {t} : queues'[u] = queues[u]
    <3>1. ASSUME NEW u \in DOMAIN queues
          PROVE  queues'[u] = (IF u = t THEN queues[u] + 1 ELSE queues[u]) /\ queues'[u] \in 0 .. Size - 1
      BY <1>3, <2>1
    <3>2. DOMAIN queues' = DOMAIN queues /\ queues' = [u \in DOMAIN queues |-> queues'[u]]
      BY <1>3, <2>1
    <3>3. QED
      BY <3>1, <3>2, Zenon
  <2>3. QED
    BY <1>1, <1>2, <1>3, <2>1, <2>2, CallStep
<1>7. QED
  BY <1>4, <1>5, <1>6 DEF LogStep

LEMMA MapCrashStep == ASSUME IndInv, MapCrash, UNCHANGED runVars PROVE IndInv'
<1>1. /\ alive' = FALSE /\ harmed' = TRUE
      /\ UNCHANGED <<queues, call, reading, interval, busy, stopped, ended>>
      /\ UNCHANGED <<order, phase, at, todo, server, hasStop, exit, aborting>>
      /\ LogTypeOK /\ RunTypeOK
  BY TypeParts DEF IndInv, MapCrash, runVars
<1>2. alive' \in BOOLEAN /\ harmed' \in BOOLEAN
  BY <1>1, Zenon
<1>3. LogTypeOK' /\ RunTypeOK'
  BY <1>1, <1>2, Zenon DEF LogTypeOK, RunTypeOK
<1>4. Shape' /\ Phases' /\ Silent' /\ Consumers' /\ Flushed'
  BY <1>1 DEF IndInv, Shape, Phases, HasStopped, Silent, Idle, Consumers, Flushed
<1>5. QED
  BY <1>3, <1>4, TypeParts, PTL DEF IndInv

------------------------------------------------------------------------------
(***************************************************************************)
(* The readers of the queues and the log thread.                           *)
(***************************************************************************)
\* What a reader that is not done has before it.
LEMMA ReaderFacts ==
  ASSUME IndInv, NEW c, InUpdate(c), ~Visited(c)
  PROVE  LET left == reading[c].left
         IN  /\ Head(left) \in DOMAIN queues /\ queues[Head(left)] \in 0 .. Size - 1
             /\ Tail(left) \in Seq(DOMAIN queues)
             /\ Range(left) = {Head(left)} \cup Range(Tail(left))
             /\ c \in DOMAIN reading /\ reading[c] \in [left : Seq(DOMAIN queues), busy : BOOLEAN]
             /\ \A d \in DOMAIN reading : reading[d] \in [left : Seq(DOMAIN queues), busy : BOOLEAN]
<1>1. /\ reading \in [DOMAIN reading -> [left : Seq(DOMAIN queues), busy : BOOLEAN]]
      /\ queues \in [DOMAIN queues -> 0 .. Size - 1]
      /\ c \in DOMAIN reading /\ reading[c].left # <<>>
  BY DEF IndInv, Shape, InUpdate, Visited
<1>2. reading[c].left \in Seq(DOMAIN queues)
  BY <1>1
<1>3. QED
  BY <1>1, <1>2, HeadTailFacts

LEMMA PopLogStep ==
  ASSUME IndInv, NEW c, PopLog(c), UNCHANGED runVars
  PROVE  IndInv'
<1> DEFINE q == Head(reading[c].left)
           R == [left : Seq(DOMAIN queues), busy : BOOLEAN]
<1>1. /\ queues[q] > 0 /\ queues' = [queues EXCEPT ![q] = queues[q] - 1]
      /\ reading' = [reading EXCEPT ![c].busy = TRUE]
      /\ UNCHANGED <<call, interval, busy, stopped, ended, harmed, alive>>
      /\ UNCHANGED <<order, phase, at, todo, server, hasStop, exit, aborting>>
      /\ LogTypeOK /\ RunTypeOK
  BY TypeParts DEF IndInv, PopLog, runVars
<1>2. /\ q \in DOMAIN queues /\ queues[q] \in 0 .. Size - 1
      /\ c \in DOMAIN reading /\ reading[c] \in R
      /\ \A d \in DOMAIN reading : reading[d] \in R
  BY ReaderFacts DEF PopLog
<1>3. /\ DOMAIN queues' = DOMAIN queues
      /\ \A t \in DOMAIN queues : queues'[t] = IF t = q THEN queues[t] - 1 ELSE queues[t]
      /\ queues' = [t \in DOMAIN queues |-> queues'[t]]
  BY <1>1, <1>2 DEF IndInv, Shape
<1>4. \A t \in DOMAIN queues : queues'[t] \in 0 .. Size - 1 /\ (queues[t] = 0 => queues'[t] = 0)
  BY <1>1, <1>2, <1>3, LoggerAssumption DEF LogTypeOK
<1>5. /\ DOMAIN reading' = DOMAIN reading
      /\ \A d \in DOMAIN reading : reading'[d].left = reading[d].left /\ reading'[d] \in R
      /\ reading' = [d \in DOMAIN reading |-> reading'[d]]
  BY <1>1, <1>2 DEF IndInv, Shape
<1>6. LogTypeOK' /\ RunTypeOK'
  <2>1. DOMAIN queues' \subseteq Threads /\ \A t \in DOMAIN queues' : queues'[t] \in 0 .. Size - 1
    BY <1>1, <1>3, <1>4 DEF LogTypeOK
  <2>2. LogTypeOK'
    BY <1>1, <1>5, <2>1 DEF LogTypeOK
  <2>3. RunTypeOK'
    BY <1>1 DEF RunTypeOK
  <2>4. QED
    BY <2>2, <2>3
<1>7. Shape'
  <2>1. queues' \in [DOMAIN queues -> 0 .. Size - 1] /\ reading' \in [DOMAIN reading -> R]
    BY <1>3, <1>4, <1>5, Zenon
  <2>2. QED
    BY <1>1, <1>3, <1>5, <2>1 DEF IndInv, Shape
<1>8. Phases' /\ Silent' /\ Consumers'
  BY <1>1, <1>5 DEF IndInv, Phases, HasStopped, Silent, Idle, Consumers
<1>9. \A d, t : Passed(d, t)' => Passed(d, t)
  BY <1>5 DEF Passed
<1>10. Flushed'
  BY <1>1, <1>3, <1>4, <1>9 DEF IndInv, Flushed
<1>11. QED
  BY <1>6, <1>7, <1>8, <1>10, TypeParts, PTL DEF IndInv

LEMMA NextQueueStep ==
  ASSUME IndInv, NEW c, NextQueue(c), UNCHANGED runVars
  PROVE  IndInv'
<1> DEFINE left == reading[c].left
           R == [left : Seq(DOMAIN queues), busy : BOOLEAN]
<1>1. /\ reading' = [reading EXCEPT ![c].left = Tail(left)]
      /\ UNCHANGED <<queues, call, interval, busy, stopped, ended, alive>>
      /\ UNCHANGED <<order, phase, at, todo, server, hasStop, exit, aborting>>
      /\ LogTypeOK /\ RunTypeOK
  BY TypeParts DEF IndInv, NextQueue, runVars
<1>2. harmed' \in BOOLEAN /\ (~harmed' => ~harmed /\ (c = LogThread \/ ~(queues[Head(left)] > 0)))
  BY Zenon DEF NextQueue, IndInv, TypeOK
<1>3. /\ Head(left) \in DOMAIN queues /\ queues[Head(left)] \in 0 .. Size - 1
      /\ Tail(left) \in Seq(DOMAIN queues) /\ Range(left) = {Head(left)} \cup Range(Tail(left))
      /\ c \in DOMAIN reading /\ reading[c] \in R
      /\ \A d \in DOMAIN reading : reading[d] \in R
  BY ReaderFacts DEF NextQueue
<1>4. /\ DOMAIN reading' = DOMAIN reading
      /\ \A d \in DOMAIN reading \ {c} : reading'[d] = reading[d]
      /\ reading'[c] \in R /\ reading'[c].left = Tail(left)
      /\ reading' = [d \in DOMAIN reading |-> reading'[d]]
  BY <1>1, <1>3 DEF IndInv, Shape
<1>5. LogTypeOK' /\ RunTypeOK'
  BY <1>1, <1>2, <1>4, Zenon DEF LogTypeOK, RunTypeOK
<1>6. Shape'
  <2>1. \A d \in DOMAIN reading : reading'[d] \in R
    BY <1>3, <1>4
  <2>2. reading' \in [DOMAIN reading -> R]
    BY <1>4, <2>1, Zenon
  <2>3. QED
    BY <1>1, <1>4, <2>2 DEF IndInv, Shape
<1>7. Phases' /\ Silent' /\ Consumers'
  BY <1>1, <1>4 DEF IndInv, Phases, HasStopped, Silent, Idle, Consumers
<1>8. ASSUME NEW d \in Threads, NEW t \in DOMAIN queues, Passed(d, t)', ~harmed'
      PROVE  Passed(d, t) \/ queues[t] = 0
  <2>1. CASE d # c
    BY <1>4, <1>8, <2>1 DEF Passed
  <2>2. CASE d = c /\ t = Head(left)
    BY <1>2, <1>3, <1>8, <2>2, LoggerAssumption
  <2>3. CASE d = c /\ t # Head(left)
    BY <1>3, <1>4, <1>8, <2>3 DEF Passed
  <2>4. QED
    BY <2>1, <2>2, <2>3
<1>9. Flushed'
  <2>1. Main \in Threads /\ DOMAIN queues \subseteq Threads
    BY <1>1, ThreadsAssumption DEF LogTypeOK
  <2>2. QED
    BY <1>1, <1>2, <1>8, <2>1 DEF IndInv, Flushed
<1>10. QED
  BY <1>5, <1>6, <1>7, <1>9, TypeParts, PTL DEF IndInv

\* The log thread begins or ends a pass.
LEMMA PassStep ==
  ASSUME IndInv, ~ended, LogUpdate(LogThread) \/ Return(LogThread),
         interval' \in 0 .. MaxInterval, busy' \in BOOLEAN,
         UNCHANGED <<queues, call, stopped, ended, harmed, alive, runVars>>
  PROVE  IndInv'
<1>1. /\ UNCHANGED <<order, phase, at, todo, server, hasStop, exit, aborting>>
      /\ LogTypeOK /\ RunTypeOK
  BY TypeParts DEF IndInv, runVars
<1>2. /\ reading' \in [DOMAIN reading' -> [left : Seq(DOMAIN queues), busy : BOOLEAN]]
      /\ DOMAIN reading' \subseteq DOMAIN reading \cup {LogThread}
      /\ DOMAIN reading \ {LogThread} \subseteq DOMAIN reading'
      /\ DOMAIN reading' \subseteq Threads \cup {LogThread}
      /\ \A d, t : t \in DOMAIN queues /\ Passed(d, t)' => Passed(d, t)
  <2>1. CASE LogUpdate(LogThread)
    BY <2>1, NewReader
  <2>2. CASE Return(LogThread)
    <3>1. DOMAIN reading \subseteq Threads \cup {LogThread}
      BY <1>1 DEF LogTypeOK
    <3>2. QED
      BY <2>2, <3>1, ReturnFacts
  <2>3. QED
    BY <2>1, <2>2
<1>3. LogTypeOK' /\ RunTypeOK'
  BY <1>1, <1>2, Zenon DEF LogTypeOK, RunTypeOK
<1>4. Shape'
  BY <1>1, <1>2 DEF IndInv, Shape
<1>5. Phases' /\ Silent'
  BY <1>1 DEF IndInv, Phases, HasStopped, Silent, Idle
<1>6. Consumers'
  BY <1>1, <1>2, LoggerAssumption, ThreadsAssumption DEF IndInv, Consumers
<1>7. Flushed'
  BY <1>1, <1>2, ThreadsAssumption DEF IndInv, Flushed
<1>8. QED
  BY <1>3, <1>4, <1>5, <1>6, <1>7, TypeParts, PTL DEF IndInv

\* The loop's interval stays below its maximum.
LEMMA LoopPass ==
  ASSUME LogTypeOK, NEW b \in BOOLEAN, LogLoop!Pass(b)
  PROVE  interval' \in 0 .. MaxInterval /\ busy' \in BOOLEAN
<1>1. busy' \in BOOLEAN
  BY Zenon DEF LogLoop!Pass
<1>2. interval' \in {0, 1, MaxInterval, 2 * interval} /\ (interval' = 2 * interval => interval' <= MaxInterval \/ interval' \in {0, 1})
  BY LoggerAssumption DEF LogLoop!Pass, LogLoop!NSINTERVAL, LogTypeOK
<1>3. QED
  BY <1>1, <1>2, LoggerAssumption DEF LogTypeOK

LEMMA LogThreadSteps == ASSUME IndInv, LogThreadRuns PROVE IndInv'
<1>1. LogTypeOK /\ RunTypeOK /\ UNCHANGED runVars
  BY TypeParts DEF IndInv, LogThreadRuns
<1>2. CASE Wake
  <2>1. interval' \in 0 .. MaxInterval /\ busy' \in BOOLEAN
    BY <1>1, <1>2, Zenon DEF Wake, LogTypeOK
  <2>2. QED
    BY <1>1, <1>2, <2>1, PassStep DEF Wake
<1>3. CASE Write(LogThread)
  BY <1>1, <1>3, PopLogStep, NextQueueStep DEF Write
<1>4. CASE EndPass
  <2>1. LogThread \in DOMAIN reading /\ LogLoop!Pass(reading[LogThread].busy)
    BY <1>4 DEF EndPass, Visited, InUpdate
  <2>2. ~ended
    BY <2>1 DEF IndInv, Consumers
  <2>3. reading[LogThread].busy \in BOOLEAN
    BY <2>1 DEF IndInv, Shape
  <2>4. interval' \in 0 .. MaxInterval /\ busy' \in BOOLEAN
    BY <1>1, <2>1, <2>3, LoopPass
  <2>5. LogUpdate(LogThread) \/ Return(LogThread)
    BY <1>4, Zenon DEF EndPass
  <2>6. QED
    BY <1>1, <1>4, <2>2, <2>4, <2>5, PassStep DEF EndPass
<1>5. CASE LogThreadEnds
  <2>1. /\ ended' = TRUE /\ LogThread \notin DOMAIN reading /\ ~ended
        /\ UNCHANGED <<queues, call, reading, interval, busy, stopped, harmed, alive>>
        /\ UNCHANGED <<order, phase, at, todo, server, hasStop, exit, aborting>>
    BY <1>1, <1>5 DEF LogThreadEnds, runVars
  <2>2. ended' \in BOOLEAN
    BY <2>1, Zenon
  <2>3. LogTypeOK' /\ RunTypeOK'
    BY <1>1, <2>1, <2>2, Zenon DEF LogTypeOK, RunTypeOK
  <2>4. Shape' /\ Phases' /\ Silent' /\ Consumers' /\ Flushed'
    BY <2>1 DEF IndInv, Shape, Phases, HasStopped, Silent, Idle, Consumers, Flushed, Passed
  <2>5. QED
    BY <2>3, <2>4, TypeParts, PTL DEF IndInv
<1>6. QED
  BY <1>2, <1>3, <1>4, <1>5 DEF LogThreadRuns, LogThreadStep

------------------------------------------------------------------------------
LEMMA NextIndInv == IndInv /\ [Next]_vars => IndInv'
<1> SUFFICES ASSUME IndInv, [Next]_vars PROVE IndInv'
  OBVIOUS
<1>1. CASE Manager
  <2>1. CASE LoggerInit \/ ServerInit \/ LuaInit \/ LoggerStart \/ ServerStart \/ LuaStart
    BY <2>1, StartingSteps
  <2>2. CASE MainLogs
    BY <2>2, LogCallSteps
  <2>3. CASE RunReturns
    BY <2>3, RunningSteps
  <2>4. CASE LoggerStop
    BY <2>4, LoggerStopStep
  <2>5. CASE ServerStop
    BY <2>5, ServerStopStep
  <2>6. CASE LuaStop
    BY <2>6, LuaStopStep
  <2>7. CASE Release
    BY <2>7, ReleaseStep
  <2>8. CASE Returned
    BY <2>8, ReturnedStep
  <2>9. QED
    BY <1>1, <2>1, <2>2, <2>3, <2>4, <2>5, <2>6, <2>7, <2>8 DEF Manager
<1>2. CASE SetExit
  BY <1>2, SetExitStep
<1>3. CASE IoLogs
  BY <1>3, LogCallSteps
<1>4. CASE IoEnds
  BY <1>4, IoEndsStep
<1>5. ASSUME NEW t \in Threads, Logs(t) \/ Aborts(t) \/ Crash(t) PROVE IndInv'
  <2>1. CASE LogStep(t) /\ UNCHANGED runVars
    BY <2>1, LogSteps
  <2>2. CASE Write(t) /\ UNCHANGED runVars
    BY <2>2, PopLogStep, NextQueueStep DEF Write
  <2>3. CASE AbortFlushes(t)
    BY <2>3, AbortFlushesStep
  <2>4. CASE AbortEnds(t)
    BY <2>4, AbortEndsStep
  <2>5. CASE Crash(t)
    BY <2>5, CrashStep
  <2>6. QED
    BY <1>5, <2>1, <2>2, <2>3, <2>4, <2>5 DEF Logs, Aborts
<1>6. CASE LogThreadRuns
  BY <1>6, LogThreadSteps
<1>7. CASE MapCrash /\ UNCHANGED runVars
  BY <1>7, MapCrashStep
<1>8. CASE CallbackLogs \/ RecvLoopFinds \/ RecvLoopSleeps
  BY <1>8, RunningSteps
<1>9. CASE UNCHANGED vars
  <2>1. /\ UNCHANGED <<queues, call, reading, interval, busy, stopped, ended, harmed, alive>>
        /\ UNCHANGED <<order, phase, at, todo, server, hasStop, exit, aborting>>
    BY <1>9 DEF vars, logVars, runVars
  <2>2. LogTypeOK' /\ RunTypeOK'
    <3>1. LogTypeOK /\ RunTypeOK
      BY TypeParts DEF IndInv
    <3>2. LogTypeOK'
      BY <2>1, <3>1, Zenon DEF LogTypeOK
    <3>3. RunTypeOK'
      BY <2>1, <3>1, Zenon DEF RunTypeOK
    <3>4. QED
      BY <3>2, <3>3
  <2>3. QED
    <3>1. Shape' /\ Phases' /\ Silent' /\ Consumers' /\ Flushed'
      BY <2>1 DEF IndInv, Shape, Phases, HasStopped, Silent, Idle, Consumers, Flushed, Passed
    <3>2. QED
      BY <2>2, <3>1, TypeParts, PTL DEF IndInv
<1>10. QED
  BY <1>1, <1>2, <1>3, <1>4, <1>5, <1>6, <1>7, <1>8, <1>9 DEF Next

\* The inductive invariant holds in every behaviour of the process.
THEOREM IndInvHolds == Spec => []IndInv
BY InitIndInv, NextIndInv, PTL DEF Spec

\* Every variable of the process has its type: a queue never holds more than
\* spsc_size - 1 messages, and _interval does not exceed its maximum.
THEOREM TypeCorrect == Spec => []TypeOK
<1>1. IndInv => TypeOK
  BY DEF IndInv
<1>2. QED
  BY <1>1, IndInvHolds, PTL

\* Each queue has one consumer at a time: LogUpdate in the log thread, in
\* OnAbort and in the destructor never run together.
THEOREM QueuesHaveOneConsumer == Spec => []OneConsumer
<1>1. IndInv => OneConsumer
  <2> SUFFICES ASSUME IndInv PROVE Cardinality(DOMAIN reading) <= 1
    BY DEF OneConsumer
  <2>1. DOMAIN reading \subseteq Threads \cup {LogThread}
    BY DEF IndInv, TypeOK
  <2>2. \A c, d \in DOMAIN reading : c = d
    <3>1. ASSUME NEW c \in DOMAIN reading, c \in Threads
          PROVE  /\ LogThread \notin DOMAIN reading
                 /\ aborting = c \/ (c = Main /\ aborting = NoThread)
      BY <3>1 DEF IndInv, Consumers, Phases
    <3>2. \A t \in Threads : t # NoThread
      BY ThreadsAssumption
    <3>3. QED
      BY <2>1, <3>1, <3>2, Zenon
  <2>3. CASE DOMAIN reading = {}
    BY <2>3, FS_EmptySet
  <2>4. CASE \E c : DOMAIN reading = {c}
    BY <2>4, FS_Singleton
  <2>5. QED
    BY <2>2, <2>3, <2>4
<1>2. QED
  BY <1>1, IndInvHolds, PTL

\* What was logged is in the file when Run() returns, and what a crashing thread
\* had logged when the process dies, unless an insertion into the map of queues
\* got in the way.
THEOREM LogsAreKept == Spec => []LogIsKept
<1>1. IndInv => LogIsKept
  BY DEF IndInv, Flushed, LogIsKept
<1>2. QED
  BY <1>1, IndInvHolds, PTL

\* When the logger is destroyed the io thread has been joined, the log thread
\* has returned, and no thread is in Log().
THEOREM NoLateCalls == Spec => []NoneLogsIntoNothing
<1>1. IndInv => NoneLogsIntoNothing
  BY ThreadsAssumption DEF IndInv, Phases, HasStopped, Silent, NoneLogsIntoNothing
<1>2. QED
  BY <1>1, IndInvHolds, PTL
==============================================================================
