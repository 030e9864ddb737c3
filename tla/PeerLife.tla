------------------------------ MODULE PeerLife ------------------------------
(***************************************************************************)
(* The life of connections inside one Server (src/units/server_unit.cpp):  *)
(* its peer table, its pool of Peer objects, and the coroutines that       *)
(* suspend inside a Peer.  Everything here runs on the server's io_context *)
(* (one thread), so what happens between two suspensions is one action.    *)
(*                                                                         *)
(* A connection is one socket from accept or connect to close; it is an    *)
(* identity of the model, the code only has the pid and the Peer object,   *)
(* both of which are used again for later connections.  Reads and writes   *)
(* of the socket are asynchronous: an operation is pending until the       *)
(* network or a close() settles it, and the coroutine resumes later.       *)
(***************************************************************************)
EXTENDS Naturals, Sequences, FiniteSets, Functions, TLC

CONSTANTS Conns,         \* the connections
          NoConn,        \* a null _socket, and no connection
          INVALID_PEER_ID,
          PsAllocNum,    \* _peers(ps_alloc_num)
          PpAllocNum,    \* _peer_pool(pp_alloc_num)
          SingleThread,  \* thread_num = 0: the application runs on this io_context
          SendLoop,      \* _send_loop, which there is otherwise
          MaxObjects,    \* bound: Peer objects ever made
          MaxSends,      \* bound: sends suspended on a connection
          MaxDisc,       \* bound: Disconnect calls
          Outgoing       \* bound: the connections made by Connect calls

ASSUME ConnAssumption == NoConn \notin Conns /\ SendLoop \notin Conns \cup {NoConn} /\ Outgoing \subseteq Conns
ASSUME PidAssumption == INVALID_PEER_ID \notin Nat
ASSUME AllocAssumption == PsAllocNum \in Nat \ {0} /\ PpAllocNum \in Nat \ {0}
ASSUME ModeAssumption == SingleThread \in BOOLEAN
ASSUME BoundAssumption == {MaxObjects, MaxSends, MaxDisc} \subseteq Nat /\ PpAllocNum <= MaxObjects

VARIABLES
  table, free, size,     \* _peers
  objects, used, made,   \* _peer_pool
  peer,                  \* the fields of every Peer object
  open,                  \* connections whose socket is open on this side
  frame,                 \* the Peer object (`this') of a connection's coroutines
  rx,                    \* the receiving coroutine: where it is, and its read
  tx,                    \* the sending coroutines, counted by their writes
  origin,                \* how the connection came about
  told,                  \* what the application has been told of it
  listening,             \* the accept loop
  holder,                \* who holds the io_context between two actions: nobody, the
                         \* connection whose _on_recv is running, or the SendLoop
  calls,                 \* Disconnect calls still to make
  posted                 \* pids of the Disconnect handlers posted by the main thread

tableVars == <<table, free, size>>
poolVars == <<objects, used, made>>
peerVars == <<tableVars, poolVars, peer, open, frame, rx, tx, told>>
discVars == <<calls, posted>>
vars == <<peerVars, origin, listening, holder, discVars>>

Peers == INSTANCE IdTable WITH AllocNum <- PsAllocNum, Objects <- 1 .. MaxObjects
Pool == INSTANCE ObjectPool WITH AllocNum <- PpAllocNum

\* A Peer between two connections.  `conn' stands for _socket and for _server,
\* which Start sets and Release clears together.
FreshPeer == [pid |-> INVALID_PEER_ID, conn |-> NoConn,
              wait |-> FALSE, sending |-> 0, recving |-> FALSE]

NoRead == [at |-> "none", op |-> "none"]
NoWrites == [pending |-> 0, ok |-> 0, err |-> 0]

Init ==
  /\ Peers!Init /\ Pool!PoolInit
  /\ peer = [o \in 1 .. MaxObjects |-> FreshPeer]
  /\ open = {}
  /\ frame = [c \in Conns |-> 0]
  /\ rx = [c \in Conns |-> NoRead]
  /\ tx = [c \in Conns |-> NoWrites]
  /\ origin = [c \in Conns |-> "new"]
  /\ told = [c \in Conns |-> "nothing"]
  /\ listening = "no"
  /\ holder = NoConn
  /\ calls = MaxDisc /\ posted = <<>>

\* The io_context runs one handler at a time: none while a callback runs on it, nor
\* while _send_loop does, which does not suspend before it finds its queue empty.
Free == holder = NoConn

------------------------------------------------------------------------------
(***************************************************************************)
(* Stopping and releasing a peer.                                          *)
(***************************************************************************)

\* The open connection that _Disconnect(pid) finds and Peer::Stop closes.
Stoppable(pid) == {c \in open : pid \in DOMAIN table /\ peer[table[pid]].conn = c}

\* Mutant: Stop() does not set _wait_to_release.
PeersStoppedOnlyClosed(pid) == peer

\* Stop() closes the socket and sets _wait_to_release ...
PeersStopped(pid) ==
  IF Stoppable(pid) # {} THEN [peer EXCEPT ![table[pid]].wait = TRUE] ELSE peer

\* ... and the close aborts what is pending on the socket.
ReadsAborted(S, r) ==
  [c \in Conns |-> IF c \in S /\ r[c].op = "pending" THEN [r[c] EXCEPT !.op = "err"] ELSE r[c]]
WritesAborted(S, t) ==
  [c \in Conns |-> IF c \in S THEN [t[c] EXCEPT !.pending = 0, !.err = @ + t[c].pending]
                   ELSE t[c]]

\* Mutant: _DelPeer does not issue DISC.
DelPeerSilently(pid, p) ==
  /\ pid \in DOMAIN table
  /\ peer' = [p EXCEPT ![table[pid]].pid = INVALID_PEER_ID, ![table[pid]].conn = NoConn]
  /\ Pool!Put(table[pid])
  /\ Peers!Erase(pid)
  /\ UNCHANGED told

\* _DelPeer(pid), the fields of the peers being p
DelPeer(pid, p) ==
  LET o == table[pid]
  IN /\ pid \in DOMAIN table
     /\ told' = [told EXCEPT ![p[o].conn] = "disc"]
     /\ peer' = [p EXCEPT ![o].pid = INVALID_PEER_ID, ![o].conn = NoConn]
     /\ Pool!Put(o)
     /\ Peers!Erase(pid)

\* Mutants: a peer is released under its reading, or its writing, coroutine.
ReleaseUnderRead(o, p) ==
  IF ~p[o].wait \/ p[o].sending > 0
  THEN peer' = p /\ UNCHANGED <<told, poolVars, tableVars>>
  ELSE DelPeer(p[o].pid, p)
ReleaseUnderWrite(o, p) ==
  IF ~p[o].wait \/ p[o].recving
  THEN peer' = p /\ UNCHANGED <<told, poolVars, tableVars>>
  ELSE DelPeer(p[o].pid, p)

\* _CheckRelease(), called on the Peer object o
CheckRelease(o, p) ==
  IF ~p[o].wait \/ p[o].sending > 0 \/ p[o].recving
  THEN peer' = p /\ UNCHANGED <<told, poolVars, tableVars>>
  ELSE DelPeer(p[o].pid, p)

------------------------------------------------------------------------------
(***************************************************************************)
(* New connections.                                                        *)
(***************************************************************************)

\* Listen(): the socket is opened, bound and listening, or that failed.
Listen ==
  /\ Free /\ listening = "no"
  /\ listening' \in {"yes", "dead"}
  /\ UNCHANGED <<peerVars, origin, holder, discVars>>

\* _AddPeer(): the table and the pool, Peer::Start with the receiving coroutine
\* up to its first read, then the CONN event.  For a connection already reset
\* remote_endpoint() throws, and the event is not issued.
AddPeer(c, reset) ==
  LET o == Pool!Spare
      pid == Head(free)
  IN /\ o \in 1 .. MaxObjects
     /\ Peers!Insert(o)
     /\ Pool!Get
     /\ made' <= MaxObjects
     /\ peer' = [peer EXCEPT ![o] = [pid |-> pid, conn |-> c, wait |-> FALSE,
                                     sending |-> 0, recving |-> TRUE]]
     /\ open' = open \cup {c}
     /\ frame' = [frame EXCEPT ![c] = o]
     /\ rx' = [rx EXCEPT ![c] = [at |-> "head", op |-> "pending"]]
     /\ told' = [told EXCEPT ![c] = IF reset THEN "orphan" ELSE "conn"]
     /\ UNCHANGED tx

\* The accept loop of _Listen.  The exception of a reset connection ends it.
Accept(c, reset) ==
  /\ Free /\ listening = "yes" /\ c \notin Outgoing /\ origin[c] = "new"
  /\ AddPeer(c, reset)
  /\ origin' = [origin EXCEPT ![c] = "accepted"]
  /\ listening' = IF reset THEN "dead" ELSE listening
  /\ UNCHANGED <<holder, discVars>>

\* Connect(): _Connect runs up to async_connect.
Connect(c) ==
  /\ c \in Outgoing /\ origin[c] = "new"
  /\ origin' = [origin EXCEPT ![c] = "connecting"]
  /\ UNCHANGED <<peerVars, listening, holder, discVars>>

\* _Connect after async_connect.  The callback is dispatched to the main thread,
\* which runs it at once or, with threads, when it gets to it.
Connected(c, reset) ==
  /\ Free /\ origin[c] = "connecting"
  /\ AddPeer(c, reset)
  /\ origin' = [origin EXCEPT ![c] = IF reset THEN "failed" ELSE "answered"]
  /\ UNCHANGED <<listening, holder, discVars>>

\* resolve() or async_connect throws: logged, and no more.
ConnectFailed(c) ==
  /\ Free /\ origin[c] = "connecting"
  /\ origin' = [origin EXCEPT ![c] = "failed"]
  /\ UNCHANGED <<peerVars, listening, holder, discVars>>

------------------------------------------------------------------------------
(***************************************************************************)
(* The network settles pending reads and writes.                           *)
(***************************************************************************)
ReadSettles(c) ==
  /\ rx[c].op = "pending"
  /\ \E r \in {"ok", "err"} : rx' = [rx EXCEPT ![c].op = r]
  /\ UNCHANGED <<tableVars, poolVars, peer, open, frame, tx, told, origin, listening,
                 holder, discVars>>

WriteSettles(c) ==
  /\ tx[c].pending > 0
  /\ \/ tx' = [tx EXCEPT ![c].pending = @ - 1, ![c].ok = @ + 1]
     \/ tx' = [tx EXCEPT ![c].pending = @ - 1, ![c].err = @ + 1]
  /\ UNCHANGED <<tableVars, poolVars, peer, open, frame, rx, told, origin, listening,
                 holder, discVars>>

------------------------------------------------------------------------------
(***************************************************************************)
(* Peer::_Recv, from one suspension to the next.                           *)
(***************************************************************************)

\* Mutants: the coroutine counts itself as a send; it stays counted as reading.
RecvEndsAsSend(c, p) ==
  CheckRelease(frame[c], [p EXCEPT ![frame[c]].recving = FALSE, ![frame[c]].sending = @ - 1])
RecvEndsUncounted(c, p) == CheckRelease(frame[c], p)

\* The coroutine ends, having stopped the peers in p: _recving = false and
\* _CheckRelease().
RecvEnds(c, p) ==
  CheckRelease(frame[c], [p EXCEPT ![frame[c]].recving = FALSE])

\* Mutant: the coroutine returns from a closed socket without _CheckRelease().
HeadReadReturns(c) ==
  /\ Free /\ rx[c] = [at |-> "head", op |-> "ok"]
  /\ IF peer[frame[c]].conn \in open
     THEN \E r \in {"pending", "ok"} : rx' = [rx EXCEPT ![c] = [at |-> "body", op |-> r]]
     ELSE rx' = [rx EXCEPT ![c] = NoRead]
  /\ UNCHANGED <<tableVars, poolVars, peer, told, open, frame, tx, origin, listening,
                 holder, discVars>>

\* The head has been read.  An empty body needs no read and settles at once.
HeadRead(c) ==
  /\ Free /\ rx[c] = [at |-> "head", op |-> "ok"]
  /\ IF peer[frame[c]].conn \in open
     THEN /\ \E r \in {"pending", "ok"} : rx' = [rx EXCEPT ![c] = [at |-> "body", op |-> r]]
          /\ UNCHANGED <<peer, told, poolVars, tableVars>>
     ELSE /\ rx' = [rx EXCEPT ![c] = NoRead]
          /\ RecvEnds(c, peer)
  /\ UNCHANGED <<open, frame, tx, origin, listening, holder, discVars>>

\* The read of the next head; on a closed socket it fails.
NextHead(c) == [at |-> "head", op |-> IF peer[frame[c]].conn \in open THEN "pending" ELSE "err"]

\* The body has been read: RECV is issued.  With a single thread that is a call
\* of the application's _on_recv, which may itself call Send and Disconnect.
BodyRead(c) ==
  /\ Free /\ rx[c] = [at |-> "body", op |-> "ok"]
  /\ IF SingleThread
     THEN holder' = c /\ rx' = [rx EXCEPT ![c] = [at |-> "callback", op |-> "none"]]
     ELSE rx' = [rx EXCEPT ![c] = NextHead(c)] /\ UNCHANGED holder
  /\ UNCHANGED <<tableVars, poolVars, peer, open, frame, tx, told, origin, listening, discVars>>

CallbackReturns ==
  /\ holder \in Conns
  /\ rx' = [rx EXCEPT ![holder] = NextHead(holder)]
  /\ holder' = NoConn
  /\ UNCHANGED <<tableVars, poolVars, peer, open, frame, tx, told, origin, listening, discVars>>

\* Mutant: the exception's handler does not disconnect.
ReadFailedIgnored(c) ==
  /\ Free /\ rx[c].op = "err"
  /\ rx' = [rx EXCEPT ![c] = NoRead]
  /\ RecvEnds(c, peer)
  /\ UNCHANGED <<open, frame, tx, origin, listening, holder, discVars>>

\* A read failed: the exception's handler calls _Disconnect(_pid).
ReadFailed(c) ==
  LET pid == peer[frame[c]].pid
      S == Stoppable(pid)
  IN /\ Free /\ rx[c].op = "err"
     /\ open' = open \ S
     /\ rx' = ReadsAborted(S, [rx EXCEPT ![c] = NoRead])
     /\ tx' = WritesAborted(S, tx)
     /\ RecvEnds(c, PeersStopped(pid))
     /\ UNCHANGED <<frame, origin, listening, holder, discVars>>

------------------------------------------------------------------------------
(***************************************************************************)
(* Sending: Server::_Send and Peer::Send.                                  *)
(***************************************************************************)

\* _Send(pid) up to the write.  With threads it is _UpdateSend, called by _send_loop,
\* that takes the message from the queue and runs it.
Send(pid) ==
  LET o == table[pid]
      c == peer[o].conn
  IN /\ pid \in DOMAIN table
     /\ peer[o].sending < MaxSends
     /\ peer' = [peer EXCEPT ![o].sending = @ + 1]
     /\ tx' = IF c \in open THEN [tx EXCEPT ![c].pending = @ + 1]
                            ELSE [tx EXCEPT ![c].err = @ + 1]
     /\ holder' = IF SingleThread THEN holder ELSE SendLoop
     /\ UNCHANGED <<tableVars, poolVars, open, frame, rx, told, origin, listening, discVars>>

\* The same for a pid that is not in the table: all it does is keep _send_loop busy.
SendIgnored ==
  /\ ~SingleThread
  /\ holder' = SendLoop
  /\ UNCHANGED <<peerVars, origin, listening, discVars>>

\* _UpdateSend has found nothing, and _send_loop waits for its timer.
SendLoopSleeps ==
  /\ holder = SendLoop /\ holder' = NoConn
  /\ UNCHANGED <<peerVars, origin, listening, discVars>>

\* Peer::Send goes on after its write, having stopped the peers in p.
SendEnds(c, p) ==
  CheckRelease(frame[c], [p EXCEPT ![frame[c]].sending = @ - 1])

WriteDone(c) ==
  /\ Free /\ tx[c].ok > 0
  /\ tx' = [tx EXCEPT ![c].ok = @ - 1]
  /\ SendEnds(c, peer)
  /\ UNCHANGED <<open, frame, rx, origin, listening, holder, discVars>>

WriteFailed(c) ==
  LET pid == peer[frame[c]].pid
      S == Stoppable(pid)
  IN /\ Free /\ tx[c].err > 0
     /\ open' = open \ S
     /\ rx' = ReadsAborted(S, rx)
     /\ tx' = WritesAborted(S, [tx EXCEPT ![c].err = @ - 1])
     /\ SendEnds(c, PeersStopped(pid))
     /\ UNCHANGED <<frame, origin, listening, holder, discVars>>

------------------------------------------------------------------------------
(***************************************************************************)
(* Disconnect by the application.                                          *)
(***************************************************************************)

\* Disconnect(pid) in the main thread posts a handler.
Disconnect(pid) ==
  /\ ~SingleThread /\ calls > 0
  /\ calls' = calls - 1
  /\ posted' = Append(posted, pid)
  /\ UNCHANGED <<peerVars, origin, listening, holder>>

\* _Disconnect(pid) at the application's request
Disconnected(pid) ==
  LET S == Stoppable(pid)
  IN /\ peer' = PeersStopped(pid)
     /\ open' = open \ S
     /\ rx' = ReadsAborted(S, rx)
     /\ tx' = WritesAborted(S, tx)
     /\ UNCHANGED <<tableVars, poolVars, frame, told, origin, listening, holder>>

\* The posted handler reads its pid through a reference to the parameter of a
\* Disconnect() that has returned: it may find any value there.
RunDisconnect(pid) ==
  /\ Free /\ posted # <<>>
  /\ posted' = Tail(posted)
  /\ Disconnected(pid)
  /\ UNCHANGED calls

\* With a single thread dispatch() calls the handler before Disconnect returns.
DisconnectInline(pid) ==
  /\ SingleThread /\ calls > 0
  /\ calls' = calls - 1
  /\ Disconnected(pid)
  /\ UNCHANGED posted

------------------------------------------------------------------------------
Pids == 0 .. size

Handlers(c) ==
  \/ HeadRead(c) \/ BodyRead(c) \/ ReadFailed(c)
  \/ WriteDone(c) \/ WriteFailed(c)

Next ==
  \/ Listen
  \/ CallbackReturns
  \/ SendIgnored \/ SendLoopSleeps
  \/ \E c \in Conns :
       \/ \E reset \in BOOLEAN : Accept(c, reset) \/ Connected(c, reset)
       \/ Connect(c) \/ ConnectFailed(c)
       \/ ReadSettles(c) \/ WriteSettles(c)
       \/ Handlers(c)
  \/ \E pid \in Pids : Send(pid) \/ Disconnect(pid) \/ RunDisconnect(pid) \/ DisconnectInline(pid)

Spec == Init /\ [][Next]_vars

\* _send_loop has the io_context for ever: it finds a message whenever it looks.
HeldForEver == <>[](holder = SendLoop)

\* Callbacks return.  The queue of the io_context is FIFO, so that a handler that
\* is ready is run (a connection attempt ends, too), unless _send_loop never lets it.
RunsReady(c) ==
  /\ []<>(rx[c].op \notin {"ok", "err"}) \/ []<><<HeadRead(c) \/ BodyRead(c) \/ ReadFailed(c)>>_vars
  /\ []<>(tx[c].ok = 0) \/ []<><<WriteDone(c)>>_vars
  /\ []<>(tx[c].err = 0) \/ []<><<WriteFailed(c)>>_vars
  /\ []<>(origin[c] # "connecting")
Fairness == /\ WF_vars(CallbackReturns)
            /\ HeldForEver \/ \A c \in Conns : RunsReady(c)

FairSpec == Spec /\ Fairness

------------------------------------------------------------------------------
Writes(c) == tx[c].pending + tx[c].ok + tx[c].err
Suspended(c) == rx[c].at # "none" \/ Writes(c) > 0

TypeOK ==
  /\ DOMAIN table \subseteq 0 .. size - 1 /\ Range(table) \subseteq 1 .. made
  /\ made <= MaxObjects /\ used <= Len(objects) /\ Range(objects) \subseteq 0 .. made
  /\ peer \in [1 .. MaxObjects ->
                 [pid : Pids \cup {INVALID_PEER_ID}, conn : Conns \cup {NoConn}, wait : BOOLEAN,
                  sending : 0 .. MaxSends, recving : BOOLEAN]]
  /\ open \subseteq Conns
  /\ frame \in [Conns -> 0 .. MaxObjects]
  /\ rx \in [Conns -> [at : {"none", "head", "body", "callback"},
                       op : {"none", "pending", "ok", "err"}]]
  /\ tx \in [Conns -> [pending : 0 .. MaxSends, ok : 0 .. MaxSends, err : 0 .. MaxSends]]
  /\ origin \in [Conns -> {"new", "accepted", "connecting", "answered", "failed"}]
  /\ told \in [Conns -> {"nothing", "orphan", "conn", "disc"}]
  /\ listening \in {"no", "yes", "dead"} /\ holder \in Conns \cup {NoConn, SendLoop}
  /\ calls \in 0 .. MaxDisc /\ posted \in Seq(Pids)

\* A coroutine that is suspended inside a Peer finds, when it goes on, that the
\* object still serves its connection and still stands in the table under its
\* pid: objects and pids are never reused under a suspended coroutine (and
\* _server is not null when it calls through it).
NotReused ==
  \A c \in Conns : Suspended(c) =>
    LET p == peer[frame[c]]
    IN p.conn = c /\ p.pid \in DOMAIN table /\ table[p.pid] = frame[c]

\* _recving and _sending tell how many coroutines are suspended in the Peer.
CountsExact ==
  \A c \in Conns : frame[c] # 0 /\ peer[frame[c]].conn = c =>
    /\ peer[frame[c]].recving = (rx[c].at # "none")
    /\ peer[frame[c]].sending = Writes(c)

\* A stopped peer stays in the table only while a coroutine will come back to
\* release it: nothing is leaked for want of a last _CheckRelease().
NoneForgotten ==
  \A pid \in DOMAIN table :
    LET c == peer[table[pid]].conn
    IN c \in Conns /\ (c \in open => rx[c].at # "none") /\ (c \notin open => Suspended(c))

\* Spare objects, and objects the pool has destroyed, serve nobody.
PoolApart ==
  /\ \A i, j \in DOMAIN objects : objects[i] = objects[j] /\ i # j => objects[i] = 0
  /\ \A i \in DOMAIN objects : (objects[i] = 0) <=> (i <= used)
  /\ Range(objects) \cap Range(table) = {}
  /\ Cardinality(Range(table)) = Cardinality(DOMAIN table)
  /\ used = Cardinality(DOMAIN table)

\* DISC is the last that the application hears of a connection, and the socket
\* is closed by then.  Before it every event has a CONN in front, but for a
\* connection that was reset before _AddPeer could name it ("orphan").
DiscIsLast ==
  \A c \in Conns :
    /\ told[c] = "disc" => ~Suspended(c) /\ c \notin open
    /\ Suspended(c) => told[c] \in {"conn", "orphan"}

\* A pid the application holds means one connection, from its CONN to its DISC.
PidsApart ==
  \A c, d \in Conns :
    {told[c], told[d]} \subseteq {"conn", "orphan"} /\ c # d =>
      peer[frame[c]].pid # peer[frame[d]].pid

\* The server opens and closes connections as Connections says: whatever is in
\* flight, each is opened and closed once, pids are given out in the order they
\* became free, and the table changes together with what is reported.
Promised == INSTANCE Connections
              WITH AllocNum <- PsAllocNum,
                   table <- [pid \in DOMAIN table |-> peer[table[pid]].conn]
ImplementsConnections == Promised!Spec

\* The application may keep a closed connection from being released by sending
\* on it again before the last send has failed, for ever.
SendsOn(c) == \E pid \in DOMAIN table : peer[table[pid]].conn = c /\ Send(pid)
SendsForEver(c) == []<><<SendsOn(c)>>_vars

\* A connection that is closed on this side, by whomever, or whose read or write
\* fails, is reported, whatever else is in flight, unless sends, to whomever, keep
\* _send_loop busy for ever.
Ended(c) == \/ told[c] \in {"conn", "orphan"} /\ c \notin open
            \/ rx[c].op = "err" \/ tx[c].err > 0
EndsAreReported ==
  HeldForEver \/ \A c \in Conns : SendsForEver(c) \/ (Ended(c) ~> (told[c] = "disc"))

\* demo/client.cpp:97-101: the callback of Connect runs for failures as well, if
\* handlers run at all.
ConnectIsAnswered ==
  HeldForEver \/ \A c \in Conns : (origin[c] = "connecting") ~> (origin[c] = "answered")

\* server_unit.h:100-103: Disconnect may be called by the main thread.
DisconnectsTheAsked ==
  [][Len(posted') < Len(posted) =>
       \A c \in open \ open' : peer[frame[c]].pid = Head(posted)]_vars
==============================================================================
