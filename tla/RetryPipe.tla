------------------------------ MODULE RetryPipe ------------------------------
(***************************************************************************)
(* The way of messages between a Server's io thread and the main thread    *)
(* (src/units/server_unit.cpp).  Events go through _QueueRecv, the receive *)
(* queue and _UpdateRecv; sends go the other way through _QueueSend, the   *)
(* send queue and _UpdateSend, which are the same code with the threads    *)
(* exchanged.  Every message has a coroutine of its own, which tries to    *)
(* push and, when the queue is full, waits on a timer that all of them     *)
(* share.  What a coroutine does between two suspensions is one action of  *)
(* the issuing thread; the queue is the one of BoundedFifo.                *)
(***************************************************************************)
EXTENDS Naturals, SequencesExt

CONSTANTS Size,      \* spsc_size, the slots of the queue
          Messages,  \* bound: the messages issued, numbered in that order
          NoMessage

ASSUME SizeAssumption == Size \in Nat /\ Size >= 2
ASSUME MessagesAssumption == Messages \subseteq Nat \ {0} /\ NoMessage \notin Messages

VARIABLES
  issued,     \* how many messages have been issued
  queue,      \* _recv_queue or _send_queue
  msg,        \* the consumer's local ServerMsg
  waiting,    \* coroutines suspended on the timer, in the order they came
  ready,      \* coroutines the issuing io_context will resume, next one first
  delivered,  \* what _Recv (or _Send) has been called with
  stalled     \* messages whose coroutine has found the queue full
vars == <<issued, queue, msg, waiting, ready, delivered, stalled>>

Queue == INSTANCE BoundedFifo
           WITH fifo <- queue, out <- msg, Values <- Messages,
                Capacity <- Size - 1, NoValue <- NoMessage

Init == /\ Queue!Init
        /\ issued = 0
        /\ waiting = <<>> /\ ready = <<>>
        /\ delivered = <<>> /\ stalled = {}

\* Mutants: a full queue drops the message; the push does not look; a new wait
\* loses the waits on the timer.
Dropped(m, r) ==
  /\ \/ Queue!Push(m) /\ UNCHANGED stalled
     \/ Len(queue) = Size - 1 /\ stalled' = stalled \cup {m} /\ UNCHANGED <<queue, msg>>
  /\ ready' = r
  /\ UNCHANGED waiting
Forced(m, r) ==
  /\ queue' = Append(queue, m)
  /\ ready' = r
  /\ UNCHANGED <<msg, waiting, stalled>>
CancelForgets(m, r) ==
  \/ Queue!Push(m) /\ ready' = r /\ UNCHANGED <<waiting, stalled>>
  \/ /\ Len(queue) = Size - 1
     /\ ready' = r /\ waiting' = <<m>> /\ stalled' = stalled \cup {m}
     /\ UNCHANGED <<queue, msg>>

\* The loop of _QueueRecv from one suspension to the next, r being the coroutines
\* already resumed.  A failed push leaves the message as it was.  expires_after()
\* cancels the waits on the timer: those coroutines are resumed too.
Attempt(m, r) ==
  \/ /\ Queue!Push(m)
     /\ ready' = r
     /\ UNCHANGED <<waiting, stalled>>
  \/ /\ Len(queue) = Size - 1
     /\ ready' = r \o waiting
     /\ waiting' = <<m>>
     /\ stalled' = stalled \cup {m}
     /\ UNCHANGED <<queue, msg>>

\* Mutant: the coroutine is posted, not run.
IssuePosted == /\ issued + 1 \in Messages
               /\ issued' = issued + 1
               /\ ready' = Append(ready, issued + 1)
               /\ UNCHANGED <<queue, msg, waiting, delivered, stalled>>

\* Server::Recv (Server::Send): a coroutine is spawned and runs at once.
Issue == /\ issued + 1 \in Messages
         /\ issued' = issued + 1
         /\ Attempt(issued + 1, ready)
         /\ UNCHANGED delivered

\* A coroutine goes on after its wait.
Resume == /\ ready # <<>>
          /\ Attempt(Head(ready), Tail(ready))
          /\ UNCHANGED <<issued, delivered>>

\* The timer expires.
Expire == /\ waiting # <<>>
          /\ ready' = ready \o waiting
          /\ waiting' = <<>>
          /\ UNCHANGED <<issued, queue, msg, delivered, stalled>>

\* Mutant: the message stays in the queue.
DeliverAgain == /\ queue # <<>>
                /\ msg' = Head(queue)
                /\ delivered' = Append(delivered, msg')
                /\ Len(delivered) < 10
                /\ UNCHANGED <<queue, issued, waiting, ready, stalled>>

\* _UpdateRecv (_UpdateSend) in the other thread takes a message and passes it on.
Deliver == /\ Queue!Pop
           /\ delivered' = Append(delivered, msg')
           /\ UNCHANGED <<issued, waiting, ready, stalled>>

Next == Issue \/ Resume \/ Expire \/ Deliver

Spec == Init /\ [][Next]_vars

------------------------------------------------------------------------------
TypeOK ==
  /\ issued \in Nat
  /\ queue \in Seq(Messages) /\ Len(queue) <= Size - 1
  /\ msg \in Messages \cup {NoMessage}
  /\ waiting \in Seq(Messages) /\ ready \in Seq(Messages) /\ delivered \in Seq(Messages)
  /\ stalled \subseteq Messages

\* Where a message can be: every issued one is in one place, once.
Everything == delivered \o queue \o ready \o waiting
NoneLostNoneTwice ==
  /\ IsInjective(Everything)
  /\ Range(Everything) = 1 .. issued

\* A message is overtaken only if it found the queue full.  As long as the queue
\* has room the application sees events, and the peer sends, in order.
OvertakenOnlyIfStalled ==
  LET arriving == delivered \o queue
  IN /\ \A i, j \in DOMAIN arriving :
          i < j /\ arriving[i] > arriving[j] => arriving[j] \in stalled
     /\ Range(ready \o waiting) \subseteq stalled

\* The pipe delivers each message once, in some order.
Abstract == INSTANCE Mailbox
              WITH pending <- 1 .. issued \ Range(delivered)
ImplementsMailbox == Abstract!Spec
==============================================================================
