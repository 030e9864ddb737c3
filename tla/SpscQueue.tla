------------------------------ MODULE SpscQueue ------------------------------
(***************************************************************************)
(* The lock-free ring buffer of src/util/spsc_queue.hpp, one step per      *)
(* access to memory that the producer and the consumer share.              *)
(*                                                                         *)
(* The two indexes are std::atomic.  The C++ memory model lets an acquire  *)
(* load return any store of the variable's modification order that is not  *)
(* older than the last one the thread has read, so the model keeps the     *)
(* whole modification order (write_order, read_order) and, per thread, the *)
(* position it has read last (seen_read, seen_write).  Reading a position  *)
(* with acquire synchronizes with the release store at that position: the  *)
(* slot accesses made before that store happen before what follows.  For   *)
(* every slot the model records the last push and the last pop that have   *)
(* touched it, so that an access not ordered by happens-before (a data     *)
(* race, undefined behaviour) shows as a state.                            *)
(***************************************************************************)
EXTENDS Naturals, SequencesExt

CONSTANTS Size,       \* the constructor's argument, the number of slots
          Values,     \* the elements
          Raw,        \* a slot that holds no constructed object
          MaxStores   \* bound: stores to _write_idx, and so pushes, in a behaviour

ASSUME SizeAssumption == Size \in Nat /\ Size >= 2       \* assert(_size >= 2)
ASSUME BoundAssumption == MaxStores \in Nat
ASSUME RawAssumption == Raw \notin Values

VARIABLES
  slots,        \* _slots
  write_order,  \* modification order of _write_idx, its current value last
  read_order,   \* modification order of _read_idx
  seen_read,    \* position in read_order the producer has read last
  seen_write,   \* position in write_order the consumer has read last
  built,        \* per slot: the last push that constructed in it
  cleared,      \* per slot: the last pop that moved from or destroyed it
  prod,         \* where the producer is in Push
  arg,          \* the element the producer is pushing
  cons,         \* where the consumer is in Pop
  out,          \* the object the consumer passed to Pop
  room,         \* Full() told the producer there is room, and no Push since
  some,         \* Empty() told the consumer there is an element, no Pop since
  alive         \* FALSE once ~SpscQueue has run

sharedVars == <<slots, write_order, read_order, built, cleared, alive>>
prodVars == <<prod, arg, seen_read, room>>
consVars == <<cons, out, seen_write, some>>
vars == <<sharedVars, prodVars, consVars>>

Idx == 0 .. Size - 1

\* Mutant: the index does not wrap.
NextIdxUnwrapped(i) == i + 1

NextIdx(i) == IF i + 1 = Size THEN 0 ELSE i + 1

WriteIdx == Last(write_order)
ReadIdx == Last(read_order)

\* The positions an acquire load may return to a thread that read `seen' last.
Loadable(seen, order) == seen .. Len(order)

\* Mutants: push without looking; pop without looking; keep the last element.
FullNever(write, read) == FALSE
EmptyNever(write, read) == FALSE
EmptyByOne(write, read) == write = read \/ write = NextIdx(read)

Full(write, read) == NextIdx(write) = read
Empty(write, read) == write = read

Init ==
  /\ slots = [i \in Idx |-> Raw]
  /\ write_order = <<0>> /\ read_order = <<0>>
  /\ seen_read = 1 /\ seen_write = 1
  /\ built = [i \in Idx |-> 0]
  /\ cleared = [i \in Idx |-> 0]
  /\ prod = "idle" /\ cons = "idle"
  /\ arg = Raw /\ out = Raw
  /\ room = FALSE /\ some = FALSE
  /\ alive = TRUE

(***************************************************************************)
(* The producer's thread.                                                  *)
(***************************************************************************)

\* Push(v): the relaxed load of _write_idx (the producer's own, so its last
\* store) and the acquire load of _read_idx.  A full queue returns false and
\* leaves the argument unmoved.
PushCheck(v, p) ==
  /\ alive /\ prod = "idle"
  /\ Len(write_order) <= MaxStores
  /\ p \in Loadable(seen_read, read_order)
  /\ seen_read' = p
  /\ room' = FALSE
  /\ \/ /\ Full(WriteIdx, read_order[p])
        /\ UNCHANGED <<prod, arg>>
     \/ /\ ~Full(WriteIdx, read_order[p])
        /\ prod' = "construct"
        /\ arg' = v
  /\ UNCHANGED <<sharedVars, consVars>>

\* new (&_slots[write_idx]) T(...)
PushConstruct ==
  /\ prod = "construct"
  /\ slots' = [slots EXCEPT ![WriteIdx] = arg]
  /\ built' = [built EXCEPT ![WriteIdx] = Len(write_order)]
  /\ prod' = "publish"
  /\ UNCHANGED <<write_order, read_order, cleared, alive, arg, seen_read, room, consVars>>

\* _write_idx.store(next_idx, release)
PushPublish ==
  /\ prod = "publish"
  /\ write_order' = Append(write_order, NextIdx(WriteIdx))
  /\ prod' = "idle"
  /\ arg' = Raw
  /\ UNCHANGED <<slots, read_order, built, cleared, alive, seen_read, room, consVars>>

\* Mutant: the hint compares the write index and not the one after it.
ProducerFullByOne(p) ==
  /\ alive /\ prod = "idle"
  /\ p \in Loadable(seen_read, read_order)
  /\ seen_read' = p
  /\ room' = (WriteIdx # read_order[p])
  /\ UNCHANGED <<sharedVars, prod, arg, consVars>>

\* Full(), called by the producer.
ProducerFull(p) ==
  /\ alive /\ prod = "idle"
  /\ p \in Loadable(seen_read, read_order)
  /\ seen_read' = p
  /\ room' = ~Full(WriteIdx, read_order[p])
  /\ UNCHANGED <<sharedVars, prod, arg, consVars>>

(***************************************************************************)
(* The consumer's thread.                                                  *)
(***************************************************************************)

\* Pop(t): the relaxed load of _read_idx and the acquire load of _write_idx;
\* an empty queue returns false.
PopCheck(p) ==
  /\ alive /\ cons = "idle"
  /\ p \in Loadable(seen_write, write_order)
  /\ seen_write' = p
  /\ some' = FALSE
  /\ \/ /\ Empty(write_order[p], ReadIdx)
        /\ UNCHANGED cons
     \/ /\ ~Empty(write_order[p], ReadIdx)
        /\ cons' = "move"
  /\ UNCHANGED <<sharedVars, prodVars, out>>

\* t = std::move(_slots[read_idx])
PopMove ==
  /\ cons = "move"
  /\ out' = slots[ReadIdx]
  /\ cleared' = [cleared EXCEPT ![ReadIdx] = Len(read_order)]
  /\ cons' = "destroy"
  /\ UNCHANGED <<slots, write_order, read_order, built, alive, seen_write, some, prodVars>>

\* Mutant: the moved-from object is not destroyed.
PopDestroyNothing ==
  /\ cons = "destroy"
  /\ cons' = "publish"
  /\ UNCHANGED <<slots, write_order, read_order, built, cleared, alive, out, seen_write, some, prodVars>>

\* _slots[read_idx].~T()
PopDestroy ==
  /\ cons = "destroy"
  /\ slots' = [slots EXCEPT ![ReadIdx] = Raw]
  /\ cleared' = [cleared EXCEPT ![ReadIdx] = Len(read_order)]
  /\ cons' = "publish"
  /\ UNCHANGED <<write_order, read_order, built, alive, out, seen_write, some, prodVars>>

\* _read_idx.store(next_idx, release)
PopPublish ==
  /\ cons = "publish"
  /\ read_order' = Append(read_order, NextIdx(ReadIdx))
  /\ cons' = "idle"
  /\ UNCHANGED <<slots, write_order, built, cleared, alive, out, seen_write, some, prodVars>>

\* Empty(), called by the consumer.
ConsumerEmpty(p) ==
  /\ alive /\ cons = "idle"
  /\ p \in Loadable(seen_write, write_order)
  /\ seen_write' = p
  /\ some' = ~Empty(write_order[p], ReadIdx)
  /\ UNCHANGED <<sharedVars, prodVars, cons, out>>

(***************************************************************************)
(* The destructor, run when neither thread is in a call: it destroys the   *)
(* elements from _read_idx up to _write_idx.                               *)
(***************************************************************************)

\* How many steps of NextIdx lead from index r to index w.
Dist(r, w) == IF w >= r THEN w - r ELSE w - r + Size

\* The index n steps of NextIdx after r (n < Size).
At(r, n) == IF r + n < Size THEN r + n ELSE r + n - Size

Destroy ==
  /\ alive /\ prod = "idle" /\ cons = "idle"
  /\ slots' = [i \in Idx |-> IF Dist(ReadIdx, i) < Dist(ReadIdx, WriteIdx)
                             THEN Raw ELSE slots[i]]
  /\ alive' = FALSE
  /\ UNCHANGED <<write_order, read_order, built, cleared, prodVars, consVars>>

------------------------------------------------------------------------------
Producer == \/ \E v \in Values, p \in 1 .. Len(read_order) : PushCheck(v, p)
            \/ PushConstruct
            \/ PushPublish
            \/ \E p \in 1 .. Len(read_order) : ProducerFull(p)

Consumer == \/ \E p \in 1 .. Len(write_order) : PopCheck(p)
            \/ PopMove
            \/ PopDestroy
            \/ PopPublish
            \/ \E p \in 1 .. Len(write_order) : ConsumerEmpty(p)

Next == Producer \/ Consumer \/ Destroy

Spec == Init /\ [][Next]_vars

\* The consumer's loop (Loop::_Update) polls for ever, a store becomes visible
\* to an acquire load in finite time, and a thread inside a call finishes it.
Fairness == /\ WF_vars(PushConstruct \/ PushPublish)
            /\ WF_vars(PopCheck(Len(write_order)))
            /\ WF_vars(PopMove \/ PopDestroy \/ PopPublish)

FairSpec == Spec /\ Fairness

------------------------------------------------------------------------------
TypeOK ==
  /\ slots \in [Idx -> Values \cup {Raw}]
  /\ write_order \in Seq(Idx) /\ write_order # <<>>
  /\ read_order \in Seq(Idx) /\ read_order # <<>>
  /\ seen_read \in 1 .. Len(read_order)
  /\ seen_write \in 1 .. Len(write_order)
  /\ built \in [Idx -> Nat]
  /\ cleared \in [Idx -> Nat]
  /\ prod \in {"idle", "construct", "publish"}
  /\ arg \in Values \cup {Raw}
  /\ cons \in {"idle", "move", "destroy", "publish"}
  /\ out \in Values \cup {Raw}
  /\ room \in BOOLEAN /\ some \in BOOLEAN /\ alive \in BOOLEAN

\* No data race on a slot (spsc_queue.hpp:64,83-84): when the producer is about
\* to construct in a slot, the pop that last touched it was released by a store
\* the producer has acquired, and the other way round for the consumer.
NoDataRace ==
  /\ prod = "construct" => cleared[WriteIdx] < seen_read
  /\ cons \in {"move", "destroy"} => built[ReadIdx] < seen_write

\* A slot holds a constructed object exactly while its element is in the queue
\* or in the hands of a call: nothing is constructed over a live object, nothing
\* is destroyed twice, and nothing is left alive by the destructor.
InFlight(i) ==
  \/ alive /\ Dist(ReadIdx, i) < Dist(ReadIdx, WriteIdx)
           /\ ~(cons = "publish" /\ i = ReadIdx)
  \/ prod = "publish" /\ i = WriteIdx

SlotsExact == \A i \in Idx : (slots[i] # Raw) <=> InFlight(i)

\* What Full() and Empty() told a thread stays true until that thread's own next
\* call: told there is room, a Push does not fail; told there is an element,
\* a Pop does not.
HintsHold ==
  [][/\ room /\ ~room' => prod' = "construct"
     /\ some /\ ~some' => cons' = "move"]_<<room, some>>

(***************************************************************************)
(* The inductive invariant: where the two threads may be in each other's   *)
(* modification order, that the positions and the indexes tell the same    *)
(* distance, and that a slot's epochs name stores of that slot's index.    *)
(***************************************************************************)
Written == Len(write_order)
Freed == Len(read_order)

Positions ==
  /\ Freed <= seen_write
  /\ cons # "idle" => Freed < seen_write
  /\ Written <= seen_read + Size - 1
  /\ prod # "idle" => Written <= seen_read + Size - 2

Ring == \A j \in 1 .. Freed, k \in 1 .. Written :
          j <= k /\ k < j + Size => Dist(read_order[j], write_order[k]) = k - j

Epochs == \A i \in Idx :
  /\ cleared[i] <= Freed
  /\ cleared[i] = Freed => cons # "idle"
  /\ cleared[i] > 0 => read_order[cleared[i]] = i
  /\ built[i] <= Written
  /\ built[i] = Written => prod = "publish"
  /\ built[i] > 0 => write_order[built[i]] = i

Held == /\ prod # "idle" => alive /\ arg \in Values
        /\ prod = "publish" => slots[WriteIdx] = arg
        /\ cons # "idle" => alive

\* Neither thread is ever more than a ring ahead of what the other has told it,
\* however stale the index it read.
IndInv == TypeOK /\ Positions /\ Ring /\ Epochs /\ SlotsExact /\ Held

(***************************************************************************)
(* The queue as its callers see it: a push takes effect at its release     *)
(* store, a pop when it moves the element out of the slot.                 *)
(***************************************************************************)
Taken == cons \in {"destroy", "publish"}
FirstIdx == IF Taken THEN NextIdx(ReadIdx) ELSE ReadIdx
Contents == IF alive
            THEN [k \in 1 .. Dist(FirstIdx, WriteIdx) |-> slots[At(FirstIdx, k - 1)]]
            ELSE <<>>

Fifo == INSTANCE BoundedFifo
          WITH fifo <- Contents, Capacity <- Size - 1, NoValue <- Raw

\* The ring buffer behaves as a FIFO queue of Size - 1 elements: every pop
\* returns the oldest element pushed and not yet popped, once, whatever stale
\* index either thread reads.
ImplementsFifo == Fifo!Spec

\* What was pushed is popped: the queue as FIFO with a consumer that never stops.
ImplementsFairFifo == Fifo!FairSpec
==============================================================================
