--------------------------- MODULE MCCommandQueue ---------------------------
(***************************************************************************)
(* Small instances of CommandQueue: an urgent lane with room for one       *)
(* command, and a background lane with boosting and storage.               *)
(***************************************************************************)
EXTENDS CommandQueue, TLC

CONSTANTS urgent, background

Urgent ==
    [priority |-> 0, max_concurrency |-> 1, max_retries |-> 1, pressure_threshold |-> 1,
     rate_limited |-> FALSE, boosted |-> FALSE, stored |-> FALSE]

\* Two slots: a retried command may run again before its last attempt is released.
Background ==
    [priority |-> 1, max_concurrency |-> 2, max_retries |-> 1, pressure_threshold |-> None,
     rate_limited |-> TRUE, boosted |-> TRUE, stored |-> TRUE]

TwoLanes == (urgent :> Urgent) @@ (background :> Background)

OneLane == background :> [Background EXCEPT !.rate_limited = FALSE]

=============================================================================
