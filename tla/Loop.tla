-------------------------------- MODULE Loop --------------------------------
(***************************************************************************)
(* A polling loop (src/components/loop.hpp): a coroutine that calls an     *)
(* update function, sleeps and calls it again.  What an owner needs to     *)
(* know is how long it sleeps; one that does not sleep does not let its    *)
(* io_context run anything else, or notice that it has been stopped.       *)
(***************************************************************************)
EXTENDS Naturals

CONSTANTS MaxInterval,   \* max_interval, in units of NSINTERVAL
          Fixed          \* Init(..., fixed)

VARIABLES interval,  \* _interval
          busy       \* what the last call of the update function returned
vars == <<interval, busy>>

NSINTERVAL == 1

Init == interval = NSINTERVAL /\ busy = FALSE

\* The loop of _Update from one call to the next suspension, or the next call.
Pass(b) ==
  /\ busy' = b
  /\ interval' = CASE Fixed     -> MaxInterval
                   [] b         -> 0
                   [] ~b /\ busy -> NSINTERVAL
                   [] OTHER     -> IF 2 * interval > MaxInterval THEN MaxInterval ELSE 2 * interval

Sleeps == interval > 0
==============================================================================
