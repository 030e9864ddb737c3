---------------------------- MODULE MCTimersLate ----------------------------
(* Seven timers are the least for which Update() misses one that is due. *)
EXTENDS Timers
==============================================================================
