----------------------------- MODULE PipeThreads -----------------------------
(***************************************************************************)
(* RetryPipe on its two threads.  Each of them runs other loops as well    *)
(* (src/src/units/server_unit.cpp, Server::Server): the thread that issues *)
(* polls the pipe of the opposite direction, and the main thread polls one *)
(* pipe per Server.  A Loop does not suspend as long as it finds something *)
(* (src/src/components/loop.hpp), and while it does not its thread runs    *)
(* nothing else: neither the stalled coroutines nor another loop.          *)
(***************************************************************************)
EXTENDS RetryPipe

VARIABLE held  \* the threads that such another loop holds

threadVars == <<vars, held>>

Threads == {"issuer", "poller"}

ThreadInit == Init /\ held = {}

\* Another loop finds something; it has found nothing, and waits for its timer.
LoopFinds(t) == held' = held \cup {t} /\ UNCHANGED vars
LoopSleeps(t) == t \in held /\ held' = held \ {t} /\ UNCHANGED vars

\* Messages are issued by whatever runs, what the other loop calls included (an
\* _on_recv that sends).  The io_context goes on with its handlers and its timers,
\* and the poller with its loop, when nothing else runs.
Issues == Issue /\ UNCHANGED held
Resumes == "issuer" \notin held /\ Resume /\ UNCHANGED held
Expires == "issuer" \notin held /\ Expire /\ UNCHANGED held
Delivers == "poller" \notin held /\ Deliver /\ UNCHANGED held

ThreadNext ==
  \/ Issues \/ Resumes \/ Expires \/ Delivers
  \/ \E t \in Threads : LoopFinds(t) \/ LoopSleeps(t)

ThreadSpec == ThreadInit /\ [][ThreadNext]_threadVars

\* A loop has thread t for ever: it finds something whenever it looks.
HeldForEver(t) == <>[](t \in held)

\* Otherwise the thread gets to what it has to do: a coroutine that is ready is
\* resumed, a wait on the timer ends unless resumed coroutines start it anew, and
\* the pipe's own loop polls.
Fairness ==
  /\ \/ HeldForEver("issuer")
     \/ /\ []<>(ready = <<>>) \/ []<><<Resumes>>_threadVars
        /\ []<>(waiting = <<>>) \/ []<><<Expires \/ Resumes>>_threadVars
  /\ HeldForEver("poller") \/ []<>(queue = <<>>) \/ []<><<Delivers>>_threadVars

FairSpec == ThreadSpec /\ Fairness

------------------------------------------------------------------------------
\* Every message is delivered in the end, however often it found the queue full,
\* unless another loop has the polling thread for ever; or the issuing thread, and
\* then only those are left whose coroutine is suspended.
AllDelivered ==
  \/ HeldForEver("poller")
  \/ \A m \in Messages :
       /\ (m <= issued /\ m \notin Range(ready \o waiting)) ~> (m \in Range(delivered))
       /\ HeldForEver("issuer") \/ ((m <= issued) ~> (m \in Range(delivered)))
==============================================================================
