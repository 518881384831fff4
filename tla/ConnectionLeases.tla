-------------------------- MODULE ConnectionLeases --------------------------
(***************************************************************************)
(* What a pool of gRPC connections promises to the requests that share it, *)
(* whatever queue, counter or scaling policy is behind it: an idle         *)
(* connection is handed to one request at a time, stays with that request  *)
(* until the request gives it up, and is only ever closed while idle or by *)
(* the request that holds it.  ConnectionPool implements this              *)
(* specification.                                                          *)
(***************************************************************************)

CONSTANTS
  Requests,   \* the goroutines that take connections
  Conns,      \* the identities of *grpc.ClientConn values
  NoConn      \* the nil connection

VARIABLES
  idle,       \* the connections nobody holds
  lease       \* for every request, the connection it holds or NoConn

leaseVars == <<idle, lease>>

LeasedConns == {lease[r] : r \in Requests} \ {NoConn}

LInit ==
  /\ idle \in SUBSET Conns
  /\ lease = [r \in Requests |-> NoConn]

\* A request takes an idle connection.
Acquire(r, c) ==
  /\ lease[r] = NoConn
  /\ c \in idle
  /\ idle' = idle \ {c}
  /\ lease' = [lease EXCEPT ![r] = c]

\* A request is given a connection created for it.
AcquireNew(r, c) ==
  /\ lease[r] = NoConn
  /\ c \in Conns \ (idle \cup LeasedConns)
  /\ lease' = [lease EXCEPT ![r] = c]
  /\ UNCHANGED idle

\* A request gives its connection back for others to use.
Release(r) ==
  /\ lease[r] # NoConn
  /\ idle' = idle \cup {lease[r]}
  /\ lease' = [lease EXCEPT ![r] = NoConn]

\* A request closes the connection it holds.
Discard(r) ==
  /\ lease[r] # NoConn
  /\ lease' = [lease EXCEPT ![r] = NoConn]
  /\ UNCHANGED idle

\* The pool adds a connection to the idle ones.
Grow(c) ==
  /\ c \in Conns \ (idle \cup LeasedConns)
  /\ idle' = idle \cup {c}
  /\ UNCHANGED lease

\* The pool closes an idle connection.
Shrink(c) ==
  /\ c \in idle
  /\ idle' = idle \ {c}
  /\ UNCHANGED lease

LNext ==
  \/ \E r \in Requests : Release(r) \/ Discard(r)
  \/ \E r \in Requests, c \in Conns : Acquire(r, c) \/ AcquireNew(r, c)
  \/ \E c \in Conns : Grow(c) \/ Shrink(c)

LSpec == LInit /\ [][LNext]_leaseVars
=============================================================================
