------------------------------ MODULE TimerSet ------------------------------
(***************************************************************************)
(* What src/units/timer_unit.cpp promises, without its heap and its pool:  *)
(* a timer that has been created is called once, or removed before.        *)
(* Update() calls due timers, in no promised order; the application may    *)
(* call any timer by its id.  A callback may create, call and remove       *)
(* timers itself, so that calls nest.                                      *)
(***************************************************************************)
EXTENDS Naturals, Sequences, Functions

CONSTANTS Ids, Timers, Times,
          NotUpdating

VARIABLES pending,    \* the ids in use, each with its timer and time
          running,    \* timers whose callbacks are running, innermost first
          update      \* the time Update() took when it began, or NotUpdating
vars == <<pending, running, update>>

Init == pending = <<>> /\ running = <<>> /\ update = NotUpdating

\* The application acts in its own handlers and in callbacks.
ApplicationActs == running # <<>> \/ update = NotUpdating

Create(id, t, time) ==
  /\ ApplicationActs
  /\ id \notin DOMAIN pending
  /\ \A i \in DOMAIN pending : pending[i].timer # t
  /\ \A k \in DOMAIN running : running[k] # t
  /\ pending' = [i \in DOMAIN pending \cup {id} |->
                    IF i = id THEN [timer |-> t, time |-> time] ELSE pending[i]]
  /\ UNCHANGED <<running, update>>

Take(id) == pending' = Restrict(pending, DOMAIN pending \ {id})

Remove(id) == /\ ApplicationActs /\ id \in DOMAIN pending
              /\ Take(id)
              /\ UNCHANGED <<running, update>>

Call(id) == /\ ApplicationActs /\ id \in DOMAIN pending
            /\ running' = <<pending[id].timer>> \o running
            /\ Take(id)
            /\ UNCHANGED update

\* Update() has its turn.
Begin(now) == /\ update = NotUpdating /\ running = <<>>
              /\ update' = now
              /\ UNCHANGED <<pending, running>>

Fire(id) == /\ update # NotUpdating /\ running = <<>>
            /\ id \in DOMAIN pending /\ pending[id].time <= update
            /\ running' = <<pending[id].timer>>
            /\ Take(id)
            /\ UNCHANGED update

End == /\ update # NotUpdating /\ running = <<>>
       /\ update' = NotUpdating
       /\ UNCHANGED <<pending, running>>

Return == /\ running # <<>>
          /\ running' = Tail(running)
          /\ UNCHANGED <<pending, update>>

Next == \/ \E now \in Times : Begin(now)
        \/ End \/ Return
        \/ \E id \in DOMAIN pending : Remove(id) \/ Call(id) \/ Fire(id)
        \/ \E id \in Ids, t \in Timers, time \in Times : Create(id, t, time)

Spec == Init /\ [][Next]_vars
==============================================================================
