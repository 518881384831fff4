------------------------------ MODULE PoolSizes ------------------------------
(***************************************************************************)
(* The parameters that the connection pool and its accounting share.       *)
(***************************************************************************)
EXTENDS Integers

CONSTANTS
  MinSize,        \* ConnectionPool.minSize
  MaxSize,        \* ConnectionPool.maxSize, also cap(connections)
  CreateMayFail   \* whether grpc.NewClient may return an error

(* What newConnectionPool establishes about the sizes (lines 62-67).       *)
ASSUME SizesAssumption ==
  /\ MinSize \in Nat \ {0}
  /\ MaxSize \in Nat \ {0}
  /\ MinSize <= MaxSize
  /\ CreateMayFail \in BOOLEAN
=============================================================================
