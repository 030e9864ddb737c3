------------------------------- MODULE Timers -------------------------------
(***************************************************************************)
(* TimerUnit (src/units/timer_unit.cpp) over its heap (src/util/heap.hpp)  *)
(* and its pool of Timer objects.  All of it runs on the main thread, but  *)
(* a callback runs in the middle of Update() or CallTimer(), and may call  *)
(* CreateTimer(), CallTimer() and RemoveTimer() from there.                *)
(*                                                                         *)
(* The heap's key table, an ObjectMap, is the one of IdTable, which        *)
(* ObjectMap is proved to implement.                                      *)
(***************************************************************************)
EXTENDS Integers, Sequences, FiniteSets, Functions

CONSTANTS TpAllocNum,   \* _timer_pool(tp_alloc_num)
          TsAllocNum,   \* _timers(..., ts_alloc_num)
          NotUpdating,  \* Update() is not on the stack
          MaxObjects,   \* bound: Timer objects ever made
          MaxTimers,    \* bound: CreateTimer calls
          MaxTime       \* bound: the clock stops there

ASSUME AllocAssumption == TpAllocNum \in Nat \ {0} /\ TsAllocNum \in Nat \ {0}
ASSUME NotUpdatingAssumption == NotUpdating \notin Nat
ASSUME BoundAssumption == {MaxObjects, MaxTimers, MaxTime} \subseteq Nat /\ TpAllocNum <= MaxObjects

VARIABLES
  heap,                 \* _heap[0 .. _size - 1]: key, Timer object and its _time
  pos, free, size,      \* _key2pos
  objects, used, made,  \* _timer_pool
  now,                  \* the system clock
  update,               \* `now' of Update(), while it is on the stack
  running,              \* the timers being called, innermost first
  created               \* how many timers have been created

heapVars == <<heap, pos, free, size>>
timerPoolVars == <<objects, used, made>>
vars == <<heapVars, timerPoolVars, now, update, running, created>>

\* The table of keys; what it holds, a position, matters to the heap only.
Keys == INSTANCE IdTable
          WITH table <- [k \in DOMAIN pos |-> TRUE], AllocNum <- TsAllocNum, Objects <- {TRUE}
Pool == INSTANCE ObjectPool WITH AllocNum <- TpAllocNum

Init ==
  /\ heap = <<>> /\ pos = <<>> /\ free = Keys!NewIds(0) /\ size = TsAllocNum
  /\ Pool!PoolInit
  /\ now = 0 /\ update = NotUpdating /\ running = <<>>
  /\ created = 0

------------------------------------------------------------------------------
(***************************************************************************)
(* The heap.  A shift carries the node at place i of h along a way of      *)
(* places, next[j] being the one after j; each node it passes takes the    *)
(* place before, and the table of keys is told of every move.              *)
(***************************************************************************)
HeapSize == Cardinality(DOMAIN heap)
Top == heap[0]

Parent(i) == (i - 1) \div 2
Child(i) == 2 * i + 1

\* _cmp
Before(n, m) == n.time < m.time

Shifted(h, i, next) ==
  [j \in DOMAIN h |-> IF j \notin DOMAIN next THEN h[j]
                      ELSE IF next[j] \in DOMAIN next THEN h[next[j]]
                      ELSE h[i]]

\* The keys of the nodes of h lead to them, on the way at least.
Placed(h, way) ==
  [key \in DOMAIN pos \cup {h[j].key : j \in way} |->
     IF \E j \in way : h[j].key = key THEN CHOOSE j \in way : h[j].key = key ELSE pos[key]]

\* _ShiftUp(i) goes on while the node is before its parent.
WayUp(h, i) ==
  LET up[j \in 0 .. i] ==
        {j} \cup IF j > 0 /\ Before(h[i], h[Parent(j)]) THEN up[Parent(j)] ELSE {}
  IN up[i]

\* Mutant: the sibling is not looked at.
FirstChild(h, j) == Child(j)

LesserChild(h, j) ==
  LET c == Child(j)
  IN IF c + 1 \in DOMAIN h /\ Before(h[c + 1], h[c]) THEN c + 1 ELSE c

\* _ShiftDown(i) goes on while the node is not before the lesser child.
WayDown(h, i) ==
  LET down[j \in DOMAIN h] ==
        LET c == LesserChild(h, j)
        IN {j} \cup IF c \in DOMAIN h /\ ~Before(h[i], h[c]) THEN down[c] ELSE {}
  IN down[i]

\* _heap[pos] = ...
WithLast(n) == [j \in 0 .. HeapSize |-> IF j = HeapSize THEN n ELSE heap[j]]
NewNode(timer, time) == [key |-> Head(free), timer |-> timer, time |-> time]

\* Mutant: the new node stays where it is put.
EmplaceLast(timer, time) ==
  /\ heap' = WithLast(NewNode(timer, time))
  /\ pos' = Placed(heap', {HeapSize})
  /\ Keys!Insert(TRUE)

\* Emplace(timer)
Emplace(timer, time) ==
  LET h == WithLast(NewNode(timer, time))
      way == WayUp(h, HeapSize)
  IN /\ heap' = Shifted(h, HeapSize, [j \in way |-> Parent(j)])
     /\ pos' = Placed(heap', way)
     /\ Keys!Insert(TRUE)

\* The last node has filled the gap at i.
Filled(i) == [j \in 0 .. HeapSize - 2 |-> IF j = i THEN heap[HeapSize - 1] ELSE heap[j]]

\* Mutants: the node that fills the gap keeps its old position in the table;
\* the last node is not taken away.
PopUnplaced(i) ==
  /\ heap' = Filled(i)
  /\ pos' = Restrict(pos, DOMAIN pos \ {heap[i].key})
  /\ Keys!Erase(heap[i].key)
PopOverwrites(i) ==
  LET h == [heap EXCEPT ![i] = heap[HeapSize - 1]]
      way == WayDown(h, i)
      placed == Placed(h, way)
  IN /\ heap' = Shifted(h, i, [j \in way |-> LesserChild(h, j)])
     /\ pos' = Restrict(placed, DOMAIN placed \ {heap[i].key})
     /\ Keys!Erase(heap[i].key)

\* Pop(i): the last node fills the gap and is shifted down from there.
Pop(i) ==
  LET h == Filled(i)
      way == IF i = HeapSize - 1 THEN {} ELSE WayDown(h, i)
  IN /\ heap' = Shifted(h, i, [j \in way |-> LesserChild(h, j)])
     /\ pos' = Restrict(Placed(heap', way), DOMAIN pos \ {heap[i].key})
     /\ Keys!Erase(heap[i].key)

------------------------------------------------------------------------------
(***************************************************************************)
(* The application's calls: from handlers of its own, and from callbacks.  *)
(***************************************************************************)
ApplicationActs == running # <<>> \/ update = NotUpdating

CreateTimer(delay) ==
  LET o == Pool!Spare
  IN /\ ApplicationActs
     /\ created < MaxTimers /\ created' = created + 1
     /\ o \in 1 .. MaxObjects /\ now + delay <= MaxTime
     /\ Pool!Get
     /\ made' <= MaxObjects
     /\ Emplace(o, now + delay)
     /\ UNCHANGED <<now, update, running>>

\* CallTimer(id), up to the callback.  An id that is not found is refused.
CallTimer(id) ==
  /\ ApplicationActs
  /\ id \in DOMAIN pos
  /\ running' = <<heap[pos[id]].timer>> \o running
  /\ Pop(pos[id])
  /\ UNCHANGED <<timerPoolVars, now, update, created>>

RemoveTimer(id) ==
  /\ ApplicationActs
  /\ id \in DOMAIN pos
  /\ Pool!Put(heap[pos[id]].timer)
  /\ Pop(pos[id])
  /\ UNCHANGED <<now, update, running, created>>

------------------------------------------------------------------------------
(***************************************************************************)
(* Update(), and the end of a callback.                                    *)
(***************************************************************************)
UpdateBegins ==
  /\ update = NotUpdating /\ running = <<>>
  /\ update' = now
  /\ UNCHANGED <<heapVars, timerPoolVars, now, running, created>>

InLoop == update # NotUpdating /\ running = <<>>
Due == HeapSize > 0 /\ Top.time <= update

\* The loop takes the first timer and calls it.
UpdateCalls ==
  /\ InLoop /\ Due
  /\ running' = <<Top.timer>>
  /\ Pop(0)
  /\ UNCHANGED <<timerPoolVars, now, update, created>>

UpdateEnds ==
  /\ InLoop /\ ~Due
  /\ update' = NotUpdating
  /\ UNCHANGED <<heapVars, timerPoolVars, now, running, created>>

\* Mutant: the timer goes back to the pool before its callback has ended.
CallbackReturnsTwice ==
  /\ running # <<>>
  /\ Pool!Put(Head(running))
  /\ UNCHANGED <<heapVars, now, update, running, created>>

\* The callback returns: Stop(), and the timer goes back to the pool.
CallbackReturns ==
  /\ running # <<>>
  /\ running' = Tail(running)
  /\ Pool!Put(Head(running))
  /\ UNCHANGED <<heapVars, now, update, created>>

Tick == /\ now < MaxTime
        /\ now' = now + 1
        /\ UNCHANGED <<heapVars, timerPoolVars, update, running, created>>

Next ==
  \/ \E delay \in 0 .. MaxTime : CreateTimer(delay)
  \/ \E id \in DOMAIN pos : CallTimer(id) \/ RemoveTimer(id)
  \/ UpdateBegins \/ UpdateCalls \/ UpdateEnds \/ CallbackReturns
  \/ Tick

Spec == Init /\ [][Next]_vars

------------------------------------------------------------------------------
InHeap == {heap[i].timer : i \in DOMAIN heap}
Busy == InHeap \cup Range(running)

TypeOK ==
  /\ heap \in [0 .. HeapSize - 1 -> [key : 0 .. size - 1, timer : 1 .. made, time : 0 .. MaxTime]]
  /\ DOMAIN pos \subseteq 0 .. size - 1 /\ Range(pos) \subseteq DOMAIN heap
  /\ used \in 0 .. Len(objects) - 1 /\ made \in 0 .. MaxObjects
  /\ now \in 0 .. MaxTime /\ update \in 0 .. MaxTime \cup {NotUpdating}
  /\ running \in Seq(1 .. made) /\ created \in 0 .. MaxTimers

\* An id that is in use leads to its own timer: the positions follow the nodes
\* through every shift, so that CallTimer and RemoveTimer take the right one.
KeysExact ==
  /\ DOMAIN pos = {heap[i].key : i \in DOMAIN heap}
  /\ \A i \in DOMAIN heap : pos[heap[i].key] = i

\* A Timer object waits in the heap, or is being called, or is spare: none is in
\* two of these places, whatever a callback does.
TimersApart ==
  /\ Cardinality(Busy) = HeapSize + Len(running)
  /\ Busy \cap Range(objects) = {}
  /\ used = Cardinality(Busy)

HeapOrdered == \A i \in DOMAIN heap : i > 0 => ~Before(heap[i], heap[Parent(i)])

\* Nothing but a Pop from the middle, by id, can break the order of the heap, by
\* which its first timer is the earliest.
TakenFromTheMiddle ==
  \E id \in DOMAIN pos \ DOMAIN pos' : pos[id] \notin {0, HeapSize - 1}
OrderKept == [][HeapOrdered /\ ~TakenFromTheMiddle => HeapOrdered']_heapVars

\* The times of a timer and of those over it in the heap.
Over(id) ==
  LET up[i \in 0 .. pos[id]] == {heap[i].time} \cup IF i > 0 THEN up[Parent(i)] ELSE {}
  IN up[pos[id]]

\* Update() gets to a timer at the latest when those over it are due as well, since
\* it stops at a first timer that is not due.  No step puts that off, but for the
\* timer that fills the gap of a Pop: it may get below those that were over the gap.
\* So a timer that is due too deep in the heap waits for these, and for no others.
CalledNoLater ==
  [][\A id \in DOMAIN pos \cap DOMAIN pos' :
       LET gap == IF pos[id] = HeapSize - 1
                  THEN UNION {Over(k) : k \in DOMAIN pos \ DOMAIN pos'} ELSE {}
       IN \A t \in Over(id)' : \E s \in Over(id) \cup gap : t <= s]_heapVars

\* Update() ends only when it has called every timer that was due as it began.
DueAreCalled ==
  [][update # NotUpdating /\ update' = NotUpdating =>
       \A i \in DOMAIN heap : heap[i].time > update]_vars

\* Whatever the order of the heap, a timer is called once, when due if by
\* Update(), and only while it has been neither called nor removed.
Abstract == INSTANCE TimerSet
              WITH pending <- [k \in DOMAIN pos |->
                                 [timer |-> heap[pos[k]].timer, time |-> heap[pos[k]].time]],
                   Ids <- 0 .. MaxTimers, Timers <- 1 .. MaxObjects, Times <- 0 .. MaxTime
ImplementsTimerSet == Abstract!Spec

==============================================================================
