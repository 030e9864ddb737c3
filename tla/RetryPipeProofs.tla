--------------------------- MODULE RetryPipeProofs ---------------------------
(***************************************************************************)
(* Theorems about RetryPipe for every Size and every number of messages.   *)
(***************************************************************************)
EXTENDS RetryPipe, SequenceLemmas

(***************************************************************************)
(* The inductive invariant: every message is in one place.                 *)
(***************************************************************************)
IndInv == TypeOK /\ NoneLostNoneTwice /\ OvertakenOnlyIfStalled

\* No two places have a message in common, none has one twice, and together they
\* have them all.
Apart ==
  /\ IsInjective(delivered) /\ IsInjective(queue) /\ IsInjective(ready) /\ IsInjective(waiting)
  /\ Range(delivered) \cap Range(queue) = {} /\ Range(delivered) \cap Range(ready) = {}
  /\ Range(delivered) \cap Range(waiting) = {} /\ Range(queue) \cap Range(ready) = {}
  /\ Range(queue) \cap Range(waiting) = {} /\ Range(ready) \cap Range(waiting) = {}
  /\ Range(delivered) \cup Range(queue) \cup Range(ready) \cup Range(waiting) = 1 .. issued

LEMMA PlacesApart == ASSUME TypeOK PROVE NoneLostNoneTwice <=> Apart
<1>1. /\ delivered \in Seq(Messages) /\ queue \in Seq(Messages)
      /\ ready \in Seq(Messages) /\ waiting \in Seq(Messages)
  BY DEF TypeOK
<1>2. /\ ready \o waiting \in Seq(Messages)
      /\ Range(ready \o waiting) = Range(ready) \cup Range(waiting)
      /\ IsInjective(ready \o waiting) <=>
           IsInjective(ready) /\ IsInjective(waiting) /\ Range(ready) \cap Range(waiting) = {}
  BY <1>1, ConcatFacts
<1>3. /\ delivered \o queue \in Seq(Messages)
      /\ Range(delivered \o queue) = Range(delivered) \cup Range(queue)
      /\ IsInjective(delivered \o queue) <=>
           IsInjective(delivered) /\ IsInjective(queue) /\ Range(delivered) \cap Range(queue) = {}
  BY <1>1, ConcatFacts
<1>4. Everything = (delivered \o queue) \o (ready \o waiting)
  <2>1. ((delivered \o queue) \o ready) \o waiting = (delivered \o queue) \o (ready \o waiting)
    BY <1>1, <1>3, ConcatAssociative
  <2>2. QED
    BY <2>1 DEF Everything
<1>5. /\ Range(Everything) = Range(delivered \o queue) \cup Range(ready \o waiting)
      /\ IsInjective(Everything) <=>
           /\ IsInjective(delivered \o queue) /\ IsInjective(ready \o waiting)
           /\ Range(delivered \o queue) \cap Range(ready \o waiting) = {}
  BY <1>2, <1>3, <1>4, ConcatFacts
<1>6. QED
  BY <1>2, <1>3, <1>5, Zenon DEF NoneLostNoneTwice, Apart

\* What has reached the queue, in the order in which it did.
Arriving == delivered \o queue
InOrder == \A i, j \in DOMAIN Arriving :
             i < j /\ Arriving[i] > Arriving[j] => Arriving[j] \in stalled

Suspended == Range(ready) \subseteq stalled /\ Range(waiting) \subseteq stalled

LEMMA IndInvParts == IndInv <=> TypeOK /\ Apart /\ InOrder /\ Suspended
<1>1. TypeOK => (NoneLostNoneTwice <=> Apart)
  BY PlacesApart
<1>2. TypeOK => Range(ready \o waiting) = Range(ready) \cup Range(waiting)
  BY ConcatFacts DEF TypeOK
<1>3. TypeOK => (OvertakenOnlyIfStalled <=> InOrder /\ Suspended)
  BY <1>2 DEF OvertakenOnlyIfStalled, InOrder, Arriving, Suspended
<1>4. QED
  BY <1>1, <1>3, Zenon DEF IndInv

\* A message may be pushed that has stalled, or that is newer than all others.
LEMMA PushInOrder ==
  ASSUME TypeOK, InOrder, NEW m \in Messages, queue' = Append(queue, m), UNCHANGED delivered,
         stalled \subseteq stalled',
         m \in stalled' \/ \A k \in Range(delivered) \cup Range(queue) : k < m
  PROVE  InOrder'
<1> DEFINE n == Len(Arriving)
<1>1. /\ delivered \in Seq(Messages) /\ queue \in Seq(Messages) /\ stalled \subseteq stalled'
      /\ Messages \subseteq Nat
  BY MessagesAssumption DEF TypeOK
<1>2. Arriving \in Seq(Messages) /\ Range(Arriving) = Range(delivered) \cup Range(queue)
  BY <1>1, ConcatFacts DEF Arriving
<1>3. Arriving' = Append(Arriving, m)
  <2>1. Append(queue, m) = queue \o <<m>> /\ Append(Arriving, m) = Arriving \o <<m>> /\ <<m>> \in Seq(Messages)
    BY <1>1, <1>2, AppendFacts, SingleFacts
  <2>2. Arriving \o <<m>> = delivered \o (queue \o <<m>>)
    BY <1>1, <2>1, ConcatAssociative DEF Arriving
  <2>3. QED
    BY <2>1, <2>2 DEF Arriving
<1>4. /\ n \in Nat /\ DOMAIN Arriving = 1 .. n /\ DOMAIN Arriving' = 1 .. n + 1
      /\ \A i \in 1 .. n : Arriving'[i] = Arriving[i] /\ Arriving[i] \in Messages
      /\ Arriving'[n + 1] = m
  BY <1>2, <1>3, AppendProperties, LenProperties, ElementOfSeq
<1>5. ASSUME NEW i \in 1 .. n + 1, NEW j \in 1 .. n + 1, i < j, Arriving'[i] > Arriving'[j]
      PROVE  Arriving'[j] \in stalled'
  <2>1. i \in 1 .. n
    BY <1>4, <1>5
  <2>2. CASE j = n + 1
    <3>1. Arriving[i] \in Range(Arriving) /\ Arriving[i] > m
      BY <1>4, <1>5, <2>1, <2>2 DEF Range
    <3>2. Arriving[i] \in Nat /\ m \in Nat
      BY <1>1, <1>4, <2>1
    <3>3. QED
      BY <1>2, <1>4, <2>2, <3>1, <3>2
  <2>3. CASE j \in 1 .. n
    BY <1>1, <1>4, <1>5, <2>1, <2>3 DEF InOrder
  <2>4. QED
    BY <1>4, <2>2, <2>3
<1>6. QED
  BY <1>4, <1>5 DEF InOrder

------------------------------------------------------------------------------
(***************************************************************************)
(* The steps.                                                              *)
(***************************************************************************)
LEMMA InitIndInv == Init => IndInv
<1> SUFFICES ASSUME Init PROVE IndInv
  OBVIOUS
<1>1. /\ queue = <<>> /\ msg = NoMessage /\ issued = 0
      /\ waiting = <<>> /\ ready = <<>> /\ delivered = <<>> /\ stalled = {}
  BY DEF Init, Queue!Init
<1>2. TypeOK
  BY <1>1, SizeAssumption DEF TypeOK
<1>3. Apart
  BY <1>1, EmptyFacts DEF Apart
<1>4. InOrder /\ Suspended
  BY <1>1, EmptyFacts, ConcatEmptySeq DEF InOrder, Arriving, Suspended
<1>5. QED
  BY <1>2, <1>3, <1>4, IndInvParts

LEMMA QueueAppended ==
  ASSUME TypeOK, NEW m \in Messages, queue' = Append(queue, m)
  PROVE  /\ queue' = queue \o <<m>>
         /\ queue' \in Seq(Messages) /\ Len(queue') = Len(queue) + 1
         /\ Range(queue') = Range(queue) \cup {m}
         /\ IsInjective(queue') <=> IsInjective(queue) /\ m \notin Range(queue)
BY AppendFacts DEF TypeOK

\* The coroutine of m runs while the coroutines in r are ready to.
LEMMA AttemptStep ==
  ASSUME IndInv, NEW m \in Messages, NEW r \in Seq(Messages), Attempt(m, r),
         issued' \in Nat, UNCHANGED delivered,
         IsInjective(r), m \notin Range(r), Range(r) \subseteq Range(ready),
         m \notin Range(delivered) \cup Range(queue) \cup Range(waiting),
         Range(delivered) \cup Range(queue) \cup Range(r) \cup Range(waiting) \cup {m} = 1 .. issued',
         m \in stalled \/ \A k \in Range(delivered) \cup Range(queue) : k < m
  PROVE  IndInv'
<1>1. TypeOK /\ Apart /\ InOrder /\ Suspended
  BY IndInvParts
<1>2. /\ queue \in Seq(Messages) /\ waiting \in Seq(Messages) /\ ready \in Seq(Messages)
      /\ delivered \in Seq(Messages) /\ Len(queue) \in Nat
  BY <1>1, LenProperties DEF TypeOK
<1>3. CASE /\ Queue!Push(m)
           /\ ready' = r
           /\ UNCHANGED <<waiting, stalled>>
  <2>1. Len(queue) < Size - 1 /\ queue' = Append(queue, m) /\ msg' = msg
    BY <1>3 DEF Queue!Push
  <2>2. /\ queue' \in Seq(Messages) /\ Len(queue') = Len(queue) + 1
        /\ Range(queue') = Range(queue) \cup {m}
        /\ IsInjective(queue') <=> IsInjective(queue) /\ m \notin Range(queue)
    BY <1>1, <2>1, QueueAppended
  <2>3. TypeOK'
    BY <1>1, <1>2, <1>3, <2>1, <2>2, SizeAssumption DEF TypeOK
  <2>4. Apart'
    BY <1>1, <1>3, <2>2 DEF Apart
  <2>5. InOrder'
    BY <1>1, <1>3, <2>1, PushInOrder
  <2>6. Suspended'
    BY <1>1, <1>3 DEF Suspended
  <2>7. QED
    BY <2>3, <2>4, <2>5, <2>6, IndInvParts, PTL
<1>4. CASE /\ ready' = r \o waiting
           /\ waiting' = <<m>>
           /\ stalled' = stalled \cup {m}
           /\ UNCHANGED <<queue, msg>>
  <2>1. /\ ready' \in Seq(Messages) /\ Range(ready') = Range(r) \cup Range(waiting)
        /\ IsInjective(ready') <=>
             IsInjective(r) /\ IsInjective(waiting) /\ Range(r) \cap Range(waiting) = {}
    BY <1>2, <1>4, ConcatFacts
  <2>2. waiting' \in Seq(Messages) /\ Range(waiting') = {m} /\ IsInjective(waiting')
    BY <1>4, SingleFacts
  <2>3. TypeOK'
    BY <1>1, <1>4, <2>1, <2>2 DEF TypeOK
  <2>4. Apart'
    BY <1>1, <1>4, <2>1, <2>2 DEF Apart
  <2>5. InOrder'
    BY <1>1, <1>4 DEF InOrder, Arriving
  <2>6. Suspended'
    BY <1>1, <1>4, <2>1, <2>2 DEF Suspended
  <2>7. QED
    BY <2>3, <2>4, <2>5, <2>6, IndInvParts, PTL
<1>5. QED
  BY <1>3, <1>4 DEF Attempt

LEMMA IssueStep == ASSUME IndInv, Issue PROVE IndInv'
<1>1. TypeOK /\ Apart
  BY IndInvParts
<1>2. /\ issued + 1 \in Messages /\ issued' = issued + 1 /\ issued \in Nat
      /\ Attempt(issued + 1, ready) /\ UNCHANGED delivered
  BY <1>1 DEF Issue, TypeOK
<1>3. /\ issued + 1 \notin 1 .. issued /\ (1 .. issued) \cup {issued + 1} = 1 .. issued'
      /\ \A k \in 1 .. issued : k < issued + 1
  BY <1>2
<1>4. QED
  <2>1. ready \in Seq(Messages) /\ issued' \in Nat
    BY <1>1, <1>2 DEF TypeOK
  <2>2. /\ IsInjective(ready)
        /\ Range(delivered) \cup Range(queue) \cup Range(ready) \cup Range(waiting) = 1 .. issued
    BY <1>1 DEF Apart
  <2>3. QED
    BY <1>2, <1>3, <2>1, <2>2, AttemptStep

LEMMA ResumeStep == ASSUME IndInv, Resume PROVE IndInv'
<1>1. TypeOK /\ Apart /\ Suspended
  BY IndInvParts
<1>2. /\ ready # <<>> /\ ready \in Seq(Messages) /\ issued \in Nat
      /\ Attempt(Head(ready), Tail(ready)) /\ UNCHANGED <<issued, delivered>>
  BY <1>1 DEF Resume, TypeOK
<1>3. /\ Head(ready) \in Messages /\ Tail(ready) \in Seq(Messages)
      /\ Range(ready) = {Head(ready)} \cup Range(Tail(ready))
      /\ IsInjective(ready) <=> IsInjective(Tail(ready)) /\ Head(ready) \notin Range(Tail(ready))
  BY <1>2, HeadTailFacts
<1>4. /\ IsInjective(Tail(ready)) /\ Head(ready) \notin Range(Tail(ready))
      /\ Head(ready) \notin Range(delivered) \cup Range(queue) \cup Range(waiting)
      /\ Range(delivered) \cup Range(queue) \cup Range(Tail(ready)) \cup Range(waiting) \cup {Head(ready)}
           = 1 .. issued'
  BY <1>1, <1>2, <1>3 DEF Apart
<1>5. Head(ready) \in stalled /\ Range(Tail(ready)) \subseteq Range(ready) /\ issued' \in Nat
  BY <1>1, <1>2, <1>3 DEF Suspended
<1>6. QED
  BY <1>2, <1>3, <1>4, <1>5, AttemptStep

LEMMA ExpireStep == ASSUME IndInv, Expire PROVE IndInv'
<1>1. TypeOK /\ Apart /\ InOrder /\ Suspended
  BY IndInvParts
<1>2. /\ ready' = ready \o waiting /\ waiting' = <<>>
      /\ UNCHANGED <<issued, queue, msg, delivered, stalled>>
  BY DEF Expire
<1>3. /\ ready' \in Seq(Messages) /\ Range(ready') = Range(ready) \cup Range(waiting)
      /\ IsInjective(ready') <=>
           IsInjective(ready) /\ IsInjective(waiting) /\ Range(ready) \cap Range(waiting) = {}
  BY <1>1, <1>2, ConcatFacts DEF TypeOK
<1>4. waiting' \in Seq(Messages) /\ Range(waiting') = {} /\ IsInjective(waiting')
  BY <1>2, EmptyFacts
<1>5. TypeOK'
  BY <1>1, <1>2, <1>3, <1>4 DEF TypeOK
<1>6. Apart'
  BY <1>1, <1>2, <1>3, <1>4 DEF Apart
<1>7. InOrder' /\ Suspended'
  BY <1>1, <1>2, <1>3, <1>4 DEF InOrder, Arriving, Suspended
<1>8. QED
  BY <1>5, <1>6, <1>7, IndInvParts, PTL

\* What a delivery moves from the queue to the application.
LEMMA DeliverFacts ==
  ASSUME TypeOK, Deliver
  PROVE  /\ queue # <<>> /\ Head(queue) \in Messages /\ msg' = Head(queue)
         /\ queue' = Tail(queue) /\ queue' \in Seq(Messages) /\ Len(queue') <= Size - 1
         /\ delivered' = Append(delivered, Head(queue)) /\ delivered' \in Seq(Messages)
         /\ Range(queue) = {Head(queue)} \cup Range(queue')
         /\ Range(delivered') = Range(delivered) \cup {Head(queue)}
         /\ IsInjective(queue) <=> IsInjective(queue') /\ Head(queue) \notin Range(queue')
         /\ IsInjective(delivered') <=> IsInjective(delivered) /\ Head(queue) \notin Range(delivered)
         /\ Arriving' = Arriving
<1>1. /\ queue # <<>> /\ msg' = Head(queue) /\ queue' = Tail(queue)
      /\ delivered' = Append(delivered, Head(queue))
      /\ queue \in Seq(Messages) /\ delivered \in Seq(Messages) /\ Len(queue) <= Size - 1
  BY DEF Deliver, Queue!Pop, TypeOK
<1>2. /\ Head(queue) \in Messages /\ Tail(queue) \in Seq(Messages) /\ Len(Tail(queue)) = Len(queue) - 1
      /\ queue = <<Head(queue)>> \o Tail(queue)
      /\ Range(queue) = {Head(queue)} \cup Range(Tail(queue))
      /\ IsInjective(queue) <=> IsInjective(Tail(queue)) /\ Head(queue) \notin Range(Tail(queue))
  BY <1>1, HeadTailFacts
<1>3. /\ Append(delivered, Head(queue)) = delivered \o <<Head(queue)>>
      /\ delivered' \in Seq(Messages)
      /\ Range(delivered') = Range(delivered) \cup {Head(queue)}
      /\ IsInjective(delivered') <=> IsInjective(delivered) /\ Head(queue) \notin Range(delivered)
  BY <1>1, <1>2, AppendFacts
<1>4. Len(queue') <= Size - 1
  BY <1>1, <1>2, LenProperties, SizeAssumption
<1>5. Arriving' = Arriving
  <2>1. <<Head(queue)>> \in Seq(Messages)
    BY <1>2, SingleFacts
  <2>2. (delivered \o <<Head(queue)>>) \o Tail(queue) = delivered \o (<<Head(queue)>> \o Tail(queue))
    BY <1>1, <1>2, <2>1, ConcatAssociative
  <2>3. QED
    BY <1>1, <1>2, <1>3, <2>2 DEF Arriving
<1>6. QED
  BY <1>1, <1>2, <1>3, <1>4, <1>5

LEMMA DeliverStep == ASSUME IndInv, Deliver PROVE IndInv'
<1>1. TypeOK /\ Apart /\ InOrder /\ Suspended
  BY IndInvParts
<1>2. UNCHANGED <<issued, waiting, ready, stalled>>
  BY DEF Deliver
<1>3. TypeOK'
  BY <1>1, <1>2, DeliverFacts DEF TypeOK
<1>4. Apart'
  BY <1>1, <1>2, DeliverFacts DEF Apart
<1>5. InOrder' /\ Suspended'
  BY <1>1, <1>2, DeliverFacts DEF InOrder, Suspended
<1>6. QED
  BY <1>3, <1>4, <1>5, IndInvParts, PTL

LEMMA NextIndInv == IndInv /\ [Next]_vars => IndInv'
<1> SUFFICES ASSUME IndInv, [Next]_vars PROVE IndInv'
  OBVIOUS
<1>1. CASE UNCHANGED vars
  BY <1>1 DEF vars, IndInv, TypeOK, NoneLostNoneTwice, Everything, OvertakenOnlyIfStalled
<1>2. QED
  BY <1>1, IssueStep, ResumeStep, ExpireStep, DeliverStep DEF Next

------------------------------------------------------------------------------
\* The inductive invariant holds in every behaviour of the pipe.
THEOREM IndInvHolds == Spec => []IndInv
BY InitIndInv, NextIndInv, PTL DEF Spec

\* Every variable of the pipe has its type, and the queue is never longer than
\* its capacity.
THEOREM TypeCorrect == Spec => []TypeOK
<1>1. IndInv => TypeOK
  BY DEF IndInv
<1>2. QED
  BY <1>1, IndInvHolds, PTL

\* However often a queue was full, and however the waits on the shared timer
\* were cancelled, no message is lost and none is in two places.
THEOREM MessagesAreKept == Spec => []NoneLostNoneTwice
<1>1. IndInv => NoneLostNoneTwice
  BY DEF IndInv
<1>2. QED
  BY <1>1, IndInvHolds, PTL

\* Only a message whose coroutine found the queue full arrives after a younger one.
THEOREM OvertakingNeedsAStall == Spec => []OvertakenOnlyIfStalled
<1>1. IndInv => OvertakenOnlyIfStalled
  BY DEF IndInv
<1>2. QED
  BY <1>1, IndInvHolds, PTL

------------------------------------------------------------------------------
(***************************************************************************)
(* The pipe is a Mailbox.                                                  *)
(***************************************************************************)
LEMMA NextImplements == IndInv /\ [Next]_vars => [Abstract!Next]_(Abstract!vars)
<1> SUFFICES ASSUME IndInv, [Next]_vars
             PROVE  Abstract!Next \/ UNCHANGED Abstract!vars
  OBVIOUS
<1> DEFINE pending == 1 .. issued \ Range(delivered)
<1>1. TypeOK /\ Apart
  BY IndInvParts
<1>2. CASE Issue
  <2>1. /\ issued + 1 \in Messages /\ issued \in Nat /\ issued' = issued + 1 /\ delivered' = delivered
        /\ Range(delivered) \subseteq 1 .. issued
    BY <1>1, <1>2 DEF Issue, TypeOK, Apart
  <2>2. issued + 1 \notin Range(delivered) /\ issued + 1 \notin pending
        /\ pending' = pending \cup {issued + 1}
    BY <2>1
  <2>3. \A k \in DOMAIN delivered : delivered[k] # issued + 1
    BY <2>2 DEF Range
  <2>4. Abstract!Issue(issued + 1)
    BY <2>1, <2>2, <2>3 DEF Abstract!Issue, Abstract!Fresh
  <2>5. QED
    BY <2>1, <2>4 DEF Abstract!Next
<1>3. CASE Deliver
  <2>1. /\ Head(queue) \in Messages /\ delivered' = Append(delivered, Head(queue))
        /\ Range(delivered') = Range(delivered) \cup {Head(queue)}
        /\ Head(queue) \in Range(queue) /\ issued' = issued
    BY <1>1, <1>3, DeliverFacts DEF Deliver
  <2>2. Head(queue) \in pending /\ pending' = pending \ {Head(queue)}
    BY <1>1, <2>1 DEF Apart
  <2>3. Abstract!Deliver(Head(queue))
    BY <2>1, <2>2 DEF Abstract!Deliver
  <2>4. QED
    BY <2>1, <2>3 DEF Abstract!Next
<1>4. CASE Resume \/ Expire \/ UNCHANGED vars
  BY <1>4 DEF Resume, Expire, vars, Abstract!vars
<1>5. QED
  BY <1>2, <1>3, <1>4 DEF Next

\* Every message issued is delivered at most once and only after its issue: each
\* step of the pipe is a step of the Mailbox or leaves it unchanged.
THEOREM PipeIsAMailbox == Spec => ImplementsMailbox
<1>1. Init => Abstract!Init
  BY EmptyFacts DEF Init, Queue!Init, Abstract!Init
<1>2. QED
  BY <1>1, IndInvHolds, NextImplements, PTL DEF Spec, Abstract!Spec, ImplementsMailbox
==============================================================================
