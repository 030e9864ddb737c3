----------------------------- MODULE ServerFlow -----------------------------
(***************************************************************************)
(* A Server with a thread of its own and the application on the main       *)
(* thread (src/units/server_unit.cpp): connections as Connections promises *)
(* them (PeerLife implements it), their events on the way to the           *)
(* application through RetryPipe, and the application's sends on the way    *)
(* back, in any order, as Mailbox allows.                                  *)
(***************************************************************************)
EXTENDS RetryPipe, FiniteSets

CONSTANTS MaxConns,     \* bound: connections opened, numbered in that order
          PsAllocNum,   \* _peers(ps_alloc_num)
          MaxSends      \* bound: sends on their way at a time

ASSUME FlowAssumption == {MaxConns, MaxSends} \subseteq Nat /\ PsAllocNum \in Nat \ {0}

VARIABLES table, free, size, told,   \* the connections
          event,      \* what each message of the pipe says
          sends,      \* the application's sends that have not arrived yet
          openedBy    \* how many connections had been opened when one was closed
connVars == <<table, free, size, told>>
flowVars == <<vars, connVars, event, sends, openedBy>>

Conns == 1 .. MaxConns
Connection == INSTANCE Connections WITH AllocNum <- PsAllocNum

FlowInit ==
  /\ Init /\ Connection!Init
  /\ event = <<>> /\ sends = {}
  /\ openedBy = [c \in Conns |-> 0]

Opened == {c \in Conns : told[c] # "nothing"}

------------------------------------------------------------------------------
(***************************************************************************)
(* The io thread.  Server::Recv issues an event.                           *)
(***************************************************************************)
Recv(kind, pid, c) ==
  /\ Issue
  /\ event' = Append(event, [kind |-> kind, pid |-> pid, conn |-> c])

\* _AddPeer; no CONN is issued for a connection that was reset.
AddPeer(reset) ==
  LET c == Cardinality(Opened) + 1
  IN /\ c \in Conns
     /\ Connection!Open(c, reset)
     /\ IF reset THEN UNCHANGED <<vars, event>> ELSE Recv("CONN", Head(free), c)
     /\ UNCHANGED <<sends, openedBy>>

\* Peer::_Recv has read a message.
MessageRead(pid) ==
  /\ pid \in DOMAIN table
  /\ Recv("RECV", pid, table[pid])
  /\ UNCHANGED <<connVars, sends, openedBy>>

\* Mutant: DISC is issued when the peer is stopped, its coroutines still there.
DelPeerEarly(pid) ==
  /\ pid \in DOMAIN table
  /\ Recv("DISC", pid, table[pid])
  /\ UNCHANGED <<connVars, sends, openedBy>>

\* _DelPeer
DelPeer(pid) ==
  /\ Connection!Close(pid)
  /\ Recv("DISC", pid, table[pid])
  /\ openedBy' = [openedBy EXCEPT ![table[pid]] = Cardinality(Opened)]
  /\ UNCHANGED sends

\* _Send: a pid that is not in the table is ignored, another one is written to.
SendArrives(s) ==
  /\ s \in sends
  /\ sends' = sends \ {s}
  /\ UNCHANGED <<vars, connVars, event, openedBy>>

------------------------------------------------------------------------------
(***************************************************************************)
(* The main thread.                                                        *)
(***************************************************************************)
Heard == [i \in DOMAIN delivered |-> event[delivered[i]]]
Before(i) == {j \in 1 .. i - 1 : Heard[j].pid = Heard[i].pid}

\* The application answers a message it has been told of.
SendAnswer(e) ==
  /\ e.kind # "DISC"
  /\ Cardinality(sends) < MaxSends
  /\ sends' = sends \cup {[pid |-> e.pid, for |-> e.conn]}
  /\ UNCHANGED <<vars, connVars, event, openedBy>>

FlowNext ==
  \/ \E reset \in BOOLEAN : AddPeer(reset)
  \/ \E pid \in DOMAIN table : MessageRead(pid) \/ DelPeer(pid)
  \/ (Resume \/ Expire \/ Deliver) /\ UNCHANGED <<connVars, event, sends, openedBy>>
  \/ \E e \in Range(Heard) : SendAnswer(e)
  \/ \E s \in sends : SendArrives(s)

FlowSpec == FlowInit /\ [][FlowNext]_flowVars

------------------------------------------------------------------------------
\* What the application hears under a pid none of whose events has found the
\* queue full is the story of one connection after the other: CONN, messages,
\* DISC, and no pid again before its DISC.  A connection that was reset before
\* its CONN begins without one.
Follows(i) ==
  LET e == Heard[i]
      last == Heard[CHOOSE j \in Before(i) : \A k \in Before(i) : k <= j]
      fresh == Before(i) = {} \/ last.kind = "DISC"
  IN \/ e.kind = "CONN" /\ fresh
     \/ e.kind # "CONN" /\ ~fresh /\ last.conn = e.conn
     \/ e.kind # "CONN" /\ fresh
        /\ \A k \in DOMAIN event : event[k].conn = e.conn => event[k].kind # "CONN"
HeardInOrder ==
  \A i \in DOMAIN delivered :
    (\A k \in stalled : event[k].pid # Heard[i].pid) => Follows(i)

\* A send may reach another connection than the one it was meant for, which has
\* ended on the way, but not the next one that is opened: a pid is never given
\* out again at once.
NotToTheNext ==
  [][\A s \in sends \ sends' :
       s.pid \in DOMAIN table /\ table[s.pid] # s.for => table[s.pid] > openedBy[s.for] + 1]_flowVars
==============================================================================
