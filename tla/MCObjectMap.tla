----------------------------- MODULE MCObjectMap -----------------------------
(* Two ids at a time, up to four: the ring wraps, and grows while it is wrapped. *)
EXTENDS ObjectMap
==============================================================================
