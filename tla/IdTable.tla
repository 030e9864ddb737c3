------------------------------- MODULE IdTable -------------------------------
(***************************************************************************)
(* What the peer table promises (src/util/object_map.hpp, without its ring *)
(* and its list): objects under ids, the freed ids handed out again in the *)
(* order they were freed, and always an id to hand out.                    *)
(***************************************************************************)
EXTENDS Naturals, Sequences, Functions

CONSTANTS AllocNum,   \* the constructor's argument: ids added at a time
          Objects     \* what the table may hold

VARIABLES table,      \* the live ids, each with its object
          free,       \* the other ids, the next one to hand out first
          size        \* how many ids there are
vars == <<table, free, size>>

NewIds(n) == [k \in 1 .. AllocNum |-> n + k - 1]

Init == /\ table = <<>>
        /\ free = NewIds(0)
        /\ size = AllocNum

Insert(o) == /\ free # <<>>
             /\ table' = [id \in DOMAIN table \cup {Head(free)} |->
                            IF id = Head(free) THEN o ELSE table[id]]
             /\ IF Len(free) = 1
                THEN free' = NewIds(size) /\ size' = size + AllocNum
                ELSE free' = Tail(free) /\ UNCHANGED size

\* Mutant: a freed id is the next one handed out.
EraseFirst(id) == /\ id \in DOMAIN table
                  /\ table' = Restrict(table, DOMAIN table \ {id})
                  /\ free' = <<id>> \o free
                  /\ UNCHANGED size

Erase(id) == /\ id \in DOMAIN table
             /\ table' = Restrict(table, DOMAIN table \ {id})
             /\ free' = Append(free, id)
             /\ UNCHANGED size

\* Clear() drops the free ids too: nothing can be inserted any more.
Clear == table' = <<>> /\ free' = <<>> /\ size' = 0

Next == \/ \E o \in Objects : Insert(o)
        \/ \E id \in DOMAIN table : Erase(id)
        \/ Clear

Spec == Init /\ [][Next]_vars
==============================================================================
