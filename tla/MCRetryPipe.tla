----------------------------- MODULE MCRetryPipe -----------------------------
(* A queue of two messages and six to send: up to four coroutines stall. *)
EXTENDS PipeThreads
==============================================================================
