-------------------------- MODULE MCConnectionPool --------------------------
(* The pool on small sets of requests and connections.                     *)
EXTENDS ConnectionPool, TLC

(* Enough identities for createNewConnection never to run out of them: the *)
(* channel, one per request, and the one being created.                    *)
ASSUME EnoughConns == Cardinality(Conns) > MaxSize + Cardinality(Requests)

Symmetry == Permutations(Requests) \cup Permutations(Conns)
=============================================================================
