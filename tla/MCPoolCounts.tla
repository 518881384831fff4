---------------------------- MODULE MCPoolCounts ----------------------------
(* The accounting of the pool at the sizes NewGRPCService gives it.        *)
EXTENDS PoolCounts

(* A constraint that leads the search through one burst of requests: all   *)
(* of them find what the channel holds before one looks at the count, all  *)
(* look at the count before one creates, and autoScale works when all of   *)
(* them have come back.                                                    *)
Burst ==
  /\ waiting = 0
  /\ creating > 0 => InFlight = MaxRequests
  /\ creating > 0 /\ currentSize > MinSize => empty = 0
  /\ spc # "asleep" => InFlight = 0
=============================================================================
