------------------------------ MODULE MCTimers ------------------------------
(* Two kinds of application.  One with few timers does all it can: five at   *)
(* once give a heap of three levels, over a pool and a key table that grow   *)
(* and shrink one at a time.  A quiet one only creates and removes timers,   *)
(* none of which gets due: six are the least for which a Pop breaks the      *)
(* order of the heap, and with seven timers are added to a broken one.       *)
EXTENDS Timers

CONSTANTS FewTimers, FewTime   \* bounds: those of the application that is not quiet

VARIABLE quiet

MCInit == Init /\ quiet \in BOOLEAN

Few == /\ created <= FewTimers /\ now <= FewTime
       /\ \A i \in DOMAIN heap : heap[i].time <= FewTime
Everything == ~quiet /\ Next /\ Few' /\ UNCHANGED quiet

Creates == quiet /\ (\E delay \in 0 .. MaxTime : CreateTimer(delay)) /\ UNCHANGED quiet
Removes == quiet /\ (\E id \in DOMAIN pos : RemoveTimer(id)) /\ UNCHANGED quiet

MCNext == Everything \/ Creates \/ Removes

MCSpec == MCInit /\ [][MCNext]_<<vars, quiet>>
==============================================================================
