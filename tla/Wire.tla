-------------------------------- MODULE Wire --------------------------------
(***************************************************************************)
(* The messages of one connection on the wire (src/units/server_unit.cpp): *)
(* every Send is a coroutine of its own that writes a frame, the head with *)
(* the size and then the body, and Peer::_Recv at the other end reads head *)
(* and body in turn.  A frame is cut into units, of which one is the head. *)
(***************************************************************************)
EXTENDS Naturals, SequencesExt

CONSTANTS Messages,   \* bound: the messages sent, numbered in that order
          BodySize    \* bound: the units of each message's body

VARIABLES
  sent,       \* how many messages have been passed to Peer::Send
  writing,    \* what each write in progress has left, the next to go on first
  wire,       \* units written and not read
  received    \* the bodies _on_recv has been called with
vars == <<sent, writing, wire, received>>

Body(m) == [k \in 1 .. BodySize |-> <<m, k>>]
Frame(m) == <<<<m, 0>>>> \o Body(m)
IsHead(unit) == unit[2] = 0

Init == sent = 0 /\ writing = <<>> /\ wire = <<>> /\ received = <<>>

\* Peer::Send up to async_write
Send ==
  /\ sent + 1 \in Messages
  /\ sent' = sent + 1
  /\ writing' = Append(writing, Frame(sent'))
  /\ UNCHANGED <<wire, received>>

\* The socket takes as much as it has room for; a write with more to do is started
\* again, behind the others.
WriteSome ==
  /\ writing # <<>>
  /\ LET frame == Head(writing)
     IN \E n \in 1 .. Len(frame) :
          /\ wire' = wire \o SubSeq(frame, 1, n)
          /\ writing' = IF n = Len(frame) THEN Tail(writing)
                        ELSE Append(Tail(writing), SubSeq(frame, n + 1, Len(frame)))
  /\ UNCHANGED <<sent, received>>

\* The size that is read from a head; bytes of a body may say anything.
SizeIn(unit) == IF IsHead(unit) THEN {BodySize} ELSE 0 .. BodySize

\* Peer::_Recv reads a head and a body, and calls Server::Recv.
Recv ==
  /\ wire # <<>>
  /\ \E n \in SizeIn(Head(wire)) :
       /\ Len(wire) >= n + 1
       /\ received' = Append(received, SubSeq(wire, 2, n + 1))
       /\ wire' = SubSeq(wire, n + 2, Len(wire))
  /\ UNCHANGED <<sent, writing>>

Next == Send \/ WriteSome \/ Recv
Spec == Init /\ [][Next]_vars

\* What arrives is what has been sent: sends of one connection do not disturb each
\* other, as async_write requires.
ArrivesWhole == Range(received) \subseteq {Body(m) : m \in 1 .. sent}
==============================================================================
