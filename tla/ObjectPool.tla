----------------------------- MODULE ObjectPool -----------------------------
(***************************************************************************)
(* src/util/object_pool.hpp: a stack of spare objects in a vector.  The    *)
(* places below _size are null, their objects having been handed out; the  *)
(* rest hold spare objects.  Objects are numbered as they are made; 0 is   *)
(* the null pointer.  The vector's capacity is its size: reserve() and     *)
(* shrink_to_fit() are the only calls that change it.                      *)
(***************************************************************************)
EXTENDS Naturals, Sequences

CONSTANT AllocNum    \* _alloc_num

VARIABLES objects,   \* _objects
          used,      \* _size
          made       \* how many objects have been made
poolVars == <<objects, used, made>>

\* _Allocate()
NewObjects(n) == [k \in 1 .. AllocNum |-> n + k]

PoolInit == /\ objects = NewObjects(0)
            /\ used = 0
            /\ made = AllocNum

\* What Get() returns.
Spare == objects[used + 1]

Get ==
  LET left == [objects EXCEPT ![used + 1] = 0]
  IN /\ used' = used + 1
     /\ IF used + 1 = Len(objects)
        THEN objects' = left \o NewObjects(made) /\ made' = made + AllocNum
        ELSE objects' = left /\ UNCHANGED made

\* Mutant: _size is decremented after the object has been stored.
PutLate(o) ==
  /\ used > 0
  /\ used' = used - 1
  /\ objects' = [objects EXCEPT ![used + 1] = o]
  /\ UNCHANGED made

\* Put(o), after as many Get as Put; the last objects are destroyed when there
\* are more than 2 * _alloc_num spare ones.
Put(o) ==
  LET back == [objects EXCEPT ![used] = o]
  IN /\ used > 0
     /\ used' = used - 1
     /\ objects' = IF Len(objects) - (used - 1) > 2 * AllocNum
                   THEN SubSeq(back, 1, Len(back) - AllocNum) ELSE back
     /\ UNCHANGED made
==============================================================================
