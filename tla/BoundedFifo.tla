----------------------------- MODULE BoundedFifo -----------------------------
(***************************************************************************)
(* What src/util/spsc_queue.hpp promises its two callers: a first-in       *)
(* first-out queue of bounded capacity.  Push and Pop are single steps; a  *)
(* Push or Pop that returns false is a stuttering step.  `out' is the      *)
(* object the consumer passed to Pop by reference.                         *)
(***************************************************************************)
EXTENDS Naturals, Sequences

CONSTANTS Values,     \* the elements (ServerMsg or LogMsg objects)
          Capacity,   \* how many elements the queue holds at most
          NoValue     \* what `out' holds before the first Pop

VARIABLES fifo, out
vars == <<fifo, out>>

Init == /\ fifo = <<>>
        /\ out = NoValue

Push(v) == /\ Len(fifo) < Capacity
           /\ fifo' = Append(fifo, v)
           /\ UNCHANGED out

Pop == /\ fifo # <<>>
       /\ out' = Head(fifo)
       /\ fifo' = Tail(fifo)

\* The destructor destroys whatever was never popped.
Destroy == /\ fifo' = <<>>
           /\ UNCHANGED out

Next == \/ \E v \in Values : Push(v)
        \/ Pop
        \/ Destroy

Spec == Init /\ [][Next]_vars

\* Nothing that was pushed waits for ever while the consumer keeps polling.
FairSpec == Spec /\ WF_vars(Pop)
==============================================================================
