------------------------------- MODULE Mailbox -------------------------------
(***************************************************************************)
(* What carries messages between an io thread and the main thread promises *)
(* (src/units/server_unit.cpp, _QueueRecv and _QueueSend): each message    *)
(* arrives once, but not always in the order of issue.                     *)
(***************************************************************************)
EXTENDS Naturals, Sequences

CONSTANT Messages

VARIABLES pending,    \* issued and not delivered yet
          delivered   \* in the order of delivery
vars == <<pending, delivered>>

Init == pending = {} /\ delivered = <<>>

Fresh(m) == /\ m \notin pending
            /\ \A k \in DOMAIN delivered : delivered[k] # m

Issue(m) == /\ Fresh(m)
            /\ pending' = pending \cup {m}
            /\ UNCHANGED delivered

Deliver(m) == /\ m \in pending
              /\ pending' = pending \ {m}
              /\ delivered' = Append(delivered, m)

Next == \E m \in Messages : Issue(m) \/ Deliver(m)

Spec == Init /\ [][Next]_vars
==============================================================================
