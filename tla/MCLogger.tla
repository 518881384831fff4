------------------------------ MODULE MCLogger ------------------------------
(* Two requests that may change places.                                    *)
EXTENDS Logger, TLC
CONSTANTS r1, r2
MCRequests == {r1, r2}
Symmetry == Permutations(MCRequests)

(* The counters and the writer have no variable in common.  With LOG_FILE  *)
(* the run follows the writer and its race with the log package only.      *)
Apart == logFile => ticks = 0 /\ \A r \in Requests : report[r] = NoReport
=============================================================================
