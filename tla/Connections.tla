----------------------------- MODULE Connections -----------------------------
(***************************************************************************)
(* What a Server promises of its connections (src/units/server_unit.cpp):  *)
(* each is opened once, under the id that has been free for longest, and   *)
(* reported then; while it is open its messages are reported; it is closed *)
(* once, which gives back the id and is the last thing reported of it.     *)
(***************************************************************************)
EXTENDS Naturals, Sequences, Functions, TLC

CONSTANTS Conns,     \* the connections
          AllocNum   \* ps_alloc_num: ids added at a time

VARIABLES table,     \* _peers: the ids in use, each with its connection
          free,      \* the other ids, the next one to hand out first
          size,      \* how many ids there are
          told       \* what has been reported of each connection
vars == <<table, free, size, told>>

Ids == INSTANCE IdTable WITH Objects <- Conns

Init == /\ Ids!Init
        /\ told = [c \in Conns |-> "nothing"]

\* CONN, or nothing for a connection that is reset before it has a name.
Open(c, reset) == /\ told[c] = "nothing"
                  /\ Ids!Insert(c)
                  /\ told' = [told EXCEPT ![c] = IF reset THEN "orphan" ELSE "conn"]

\* DISC
Close(pid) == /\ pid \in DOMAIN table
              /\ Ids!Erase(pid)
              /\ told' = [told EXCEPT ![table[pid]] = "disc"]

Next == \/ \E c \in Conns, reset \in BOOLEAN : Open(c, reset)
        \/ \E pid \in DOMAIN table : Close(pid)

Spec == Init /\ [][Next]_vars
==============================================================================
