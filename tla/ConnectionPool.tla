--------------------------- MODULE ConnectionPool ---------------------------
(***************************************************************************)
(* The gRPC connection pool of internal/service/grpc.go: a buffered        *)
(* channel of connections, an atomic count of them, the requests that take *)
(* and return connections, and the autoScale goroutine.                    *)
(*                                                                         *)
(* A step is one access to the shared state: a channel operation or an     *)
(* atomic load or add, with the local computation around it.  p.mu is not  *)
(* modelled: the only other goroutine that takes it is closeAll, and       *)
(* nothing calls GRPCService.Close.  A ClientConn that nobody refers to    *)
(* any more is garbage, so its identity may be used again.                 *)
(***************************************************************************)
EXTENDS PoolSizes, Sequences, FiniteSets

CONSTANTS
  Requests,   \* the goroutines inside SendCompletion / SendCompletionStream
  Conns,      \* the identities of *grpc.ClientConn values
  NoConn      \* the nil connection

ASSUME RequestsAssumption == IsFiniteSet(Requests)

ASSUME ConnsAssumption == NoConn \notin Conns

VARIABLES
  queue,        \* the content of the channel p.connections
  currentSize,  \* p.currentSize
  open,         \* the connections created and not closed
  pc,           \* where each request stands
  conn,         \* the connection each request uses, or NoConn
  spc,          \* where the autoScale goroutine stands
  size,         \* its local currentSize
  todo          \* the iterations left to the loop of scale

requestVars == <<pc, conn>>
scalerVars == <<spc, size, todo>>
vars == <<queue, currentSize, open, pc, conn, spc, size, todo>>

RequestStates ==
  {"idle", "empty", "creating", "waiting", "leased", "streaming"}
ScalerStates ==
  {"asleep", "sampled", "expand", "shrink",
   "expanding", "shrinking", "countUp", "countDown"}

Pooled == {queue[i] : i \in 1 .. Len(queue)}
Leaseholders == {r \in Requests : pc[r] = "leased"}
Held == {conn[r] : r \in Leaseholders}
InUse == {conn[r] : r \in Requests} \cup Pooled \cup open

TypeOK ==
  /\ queue \in Seq(Conns)
  /\ Len(queue) <= MaxSize
  /\ currentSize \in Int
  /\ open \subseteq Conns
  /\ pc \in [Requests -> RequestStates]
  /\ conn \in [Requests -> Conns \cup {NoConn}]
  /\ spc \in ScalerStates
  /\ size \in Int
  /\ todo \in Nat

(***************************************************************************)
(* newConnectionPool: up to MinSize connections are created beforehand.    *)
(***************************************************************************)
Init ==
  /\ \E n \in 0 .. MinSize :
       /\ n = MinSize \/ CreateMayFail
       /\ queue \in {q \in [1 .. n -> Conns] :
                       \A i, j \in 1 .. n : q[i] = q[j] => i = j}
       /\ currentSize = n
  /\ open = Pooled
  /\ pc = [r \in Requests |-> "idle"]
  /\ conn = [r \in Requests |-> NoConn]
  /\ spc = "asleep"
  /\ size = 0
  /\ todo = 0

-----------------------------------------------------------------------------
(***************************************************************************)
(* getConnection.  The request moves from "idle" to "leased", or back to   *)
(* "idle" when the five seconds pass.                                      *)
(***************************************************************************)
Goto(r, s) == pc' = [pc EXCEPT ![r] = s]

Lease(r, c) ==
  /\ Goto(r, "leased")
  /\ conn' = [conn EXCEPT ![r] = c]

\* A faulty getPooled that reads the channel without taking the element out.
PeekPooled(r) ==
  /\ pc[r] = "idle"
  /\ queue # <<>>
  /\ Lease(r, Head(queue))
  /\ UNCHANGED <<queue, currentSize, open, scalerVars>>

\* The non-blocking receive finds a connection.  One found in the Shutdown
\* state is dropped and the request goes on to wait.
GetPooled(r) ==
  /\ pc[r] = "idle"
  /\ queue # <<>>
  /\ queue' = Tail(queue)
  /\ IF Head(queue) \in open
       THEN /\ Lease(r, Head(queue))
            /\ UNCHANGED currentSize
       ELSE /\ currentSize' = currentSize - 1
            /\ Goto(r, "waiting")
            /\ UNCHANGED conn
  /\ UNCHANGED <<open, scalerVars>>

\* The non-blocking receive finds the channel empty.
FindEmpty(r) ==
  /\ pc[r] = "idle"
  /\ queue = <<>>
  /\ Goto(r, "empty")
  /\ UNCHANGED <<queue, currentSize, open, conn, scalerVars>>

\* A faulty check that lets the pool grow beyond maxSize by one.
CheckSizeInclusive(r) ==
  /\ pc[r] = "empty"
  /\ Goto(r, IF currentSize <= MaxSize THEN "creating" ELSE "waiting")
  /\ UNCHANGED <<queue, currentSize, open, conn, scalerVars>>

\* The load of currentSize that decides whether to create a connection.
CheckSize(r) ==
  /\ pc[r] = "empty"
  /\ Goto(r, IF currentSize < MaxSize THEN "creating" ELSE "waiting")
  /\ UNCHANGED <<queue, currentSize, open, conn, scalerVars>>

\* A faulty create that leaves the new connection out of the count.
CreateUncounted(r) ==
  /\ pc[r] = "creating"
  /\ \E c \in Conns \ InUse :
       /\ open' = open \cup {c}
       /\ Lease(r, c)
  /\ UNCHANGED <<queue, currentSize, scalerVars>>

\* createNewConnection succeeds and the connection is counted.
Create(r) ==
  /\ pc[r] = "creating"
  /\ \E c \in Conns \ InUse :
       /\ open' = open \cup {c}
       /\ Lease(r, c)
  /\ currentSize' = currentSize + 1
  /\ UNCHANGED <<queue, scalerVars>>

\* createNewConnection returns an error: the request goes on to wait.
CreateFails(r) ==
  /\ pc[r] = "creating"
  /\ CreateMayFail
  /\ Goto(r, "waiting")
  /\ UNCHANGED <<queue, currentSize, open, conn, scalerVars>>

\* The blocking receive obtains a connection, whose state is not looked at.
WaitReceive(r) ==
  /\ pc[r] = "waiting"
  /\ queue # <<>>
  /\ queue' = Tail(queue)
  /\ Lease(r, Head(queue))
  /\ UNCHANGED <<currentSize, open, scalerVars>>

\* A faulty wait that gives up only when a connection is there to take.
WaitTimeoutLate(r) ==
  /\ pc[r] = "waiting"
  /\ queue # <<>>
  /\ Goto(r, "idle")
  /\ UNCHANGED <<queue, currentSize, open, conn, scalerVars>>

\* time.After(5 * time.Second) fires first.
WaitTimeout(r) ==
  /\ pc[r] = "waiting"
  /\ Goto(r, "idle")
  /\ UNCHANGED <<queue, currentSize, open, conn, scalerVars>>

-----------------------------------------------------------------------------
(***************************************************************************)
(* returnConnection.  A full channel means the connection is closed;       *)
(* currentSize stays as it is.                                             *)
(***************************************************************************)
\* A faulty return that drops the connection instead of closing it.
GiveBackOrDrop(c) ==
  /\ queue' = IF Len(queue) < MaxSize THEN Append(queue, c) ELSE queue
  /\ UNCHANGED <<currentSize, open>>

\* A faulty return that sends to the channel whatever it holds.
GiveBackAlways(c) ==
  /\ queue' = Append(queue, c)
  /\ UNCHANGED <<currentSize, open>>

\* A faulty return that counts what it sends to the channel, as scale does.
GiveBackCounting(c) ==
  /\ IF Len(queue) < MaxSize
       THEN /\ queue' = Append(queue, c)
            /\ currentSize' = currentSize + 1
            /\ UNCHANGED open
       ELSE /\ open' = open \ {c}
            /\ UNCHANGED <<queue, currentSize>>

GiveBack(c) ==
  /\ IF Len(queue) < MaxSize
       THEN /\ queue' = Append(queue, c)
            /\ UNCHANGED open
       ELSE /\ open' = open \ {c}
            /\ UNCHANGED queue
  /\ UNCHANGED currentSize

\* A unary call is over, or a stream could not be opened: the deferred
\* returnConnection runs and the request is done.
CallDone(r) ==
  /\ pc[r] = "leased"
  /\ GiveBack(conn[r])
  /\ Goto(r, "idle")
  /\ conn' = [conn EXCEPT ![r] = NoConn]
  /\ UNCHANGED scalerVars

\* PredictWithStream succeeds and SendCompletionStream returns, which runs
\* its deferred returnConnection: the goroutine it started goes on receiving
\* from the connection.
StreamOpened(r) ==
  /\ pc[r] = "leased"
  /\ GiveBack(conn[r])
  /\ Goto(r, "streaming")
  /\ UNCHANGED <<conn, scalerVars>>

\* The stream's goroutine is done with the connection.
StreamDone(r) ==
  /\ pc[r] = "streaming"
  /\ Goto(r, "idle")
  /\ conn' = [conn EXCEPT ![r] = NoConn]
  /\ UNCHANGED <<queue, currentSize, open, scalerVars>>

-----------------------------------------------------------------------------
(***************************************************************************)
(* autoScale and scale.  The rates 0.8, 0.3 and 0.25 are compared as       *)
(* fractions: (cap - len) / cap > 0.8, (cap - len) / cap < 0.3.            *)
(***************************************************************************)
HighUse == 5 * (MaxSize - Len(queue)) > 4 * MaxSize
LowUse == 10 * (MaxSize - Len(queue)) < 3 * MaxSize

\* A quarter of the connections, but at least one.
StepSize(n) == IF n \div 4 < 1 THEN 1 ELSE n \div 4

\* The tick: autoScale loads currentSize ...
Sample ==
  /\ spc = "asleep"
  /\ spc' = "sampled"
  /\ size' = currentSize
  /\ UNCHANGED <<queue, currentSize, open, requestVars, todo>>

\* ... looks at the length of the channel and decides.
Decide ==
  /\ spc = "sampled"
  /\ spc' = IF HighUse /\ size < MaxSize THEN "expand"
            ELSE IF LowUse /\ size > MinSize THEN "shrink"
            ELSE "asleep"
  /\ UNCHANGED <<queue, currentSize, open, requestVars, size, todo>>

\* scale(true) loads currentSize again; its loop tests this value, which it
\* never refreshes, so the loop runs to its end or not at all.
BeginExpand ==
  /\ spc = "expand"
  /\ spc' = "expanding"
  /\ size' = currentSize
  /\ todo' = IF currentSize < MaxSize THEN StepSize(currentSize) ELSE 0
  /\ UNCHANGED <<queue, currentSize, open, requestVars>>

\* One iteration: create a connection and offer it to the channel ...
Expand ==
  /\ spc = "expanding"
  /\ todo > 0
  /\ Len(queue) < MaxSize
  /\ \E c \in Conns \ InUse :
       /\ queue' = Append(queue, c)
       /\ open' = open \cup {c}
  /\ spc' = "countUp"
  /\ UNCHANGED <<currentSize, requestVars, size, todo>>

\* ... which may be full (the connection is closed), if it was created at all.
ExpandSkip ==
  /\ spc = "expanding"
  /\ todo > 0
  /\ Len(queue) >= MaxSize \/ CreateMayFail
  /\ todo' = todo - 1
  /\ UNCHANGED <<queue, currentSize, open, requestVars, spc, size>>

\* The count follows the channel operation.
CountUp ==
  /\ spc = "countUp"
  /\ currentSize' = currentSize + 1
  /\ spc' = "expanding"
  /\ todo' = todo - 1
  /\ UNCHANGED <<queue, open, requestVars, size>>

BeginShrink ==
  /\ spc = "shrink"
  /\ spc' = "shrinking"
  /\ size' = currentSize
  /\ todo' = IF currentSize > MinSize THEN StepSize(currentSize) ELSE 0
  /\ UNCHANGED <<queue, currentSize, open, requestVars>>

\* A faulty shrink that closes the connection at the head of the channel
\* and leaves it there.
CloseInPlace ==
  /\ spc = "shrinking"
  /\ todo > 0
  /\ queue # <<>>
  /\ open' = open \ {Head(queue)}
  /\ spc' = "countDown"
  /\ UNCHANGED <<queue, currentSize, requestVars, size, todo>>

\* One iteration of scale(false): take a connection out and close it ...
Shrink ==
  /\ spc = "shrinking"
  /\ todo > 0
  /\ queue # <<>>
  /\ queue' = Tail(queue)
  /\ open' = open \ {Head(queue)}
  /\ spc' = "countDown"
  /\ UNCHANGED <<currentSize, requestVars, size, todo>>

CountDown ==
  /\ spc = "countDown"
  /\ currentSize' = currentSize - 1
  /\ spc' = "shrinking"
  /\ todo' = todo - 1
  /\ UNCHANGED <<queue, open, requestVars, size>>

\* The loop ends, or scale(false) finds the channel empty and returns.
EndScale ==
  /\ \/ spc \in {"expanding", "shrinking"} /\ todo = 0
     \/ spc = "shrinking" /\ queue = <<>>
  /\ spc' = "asleep"
  /\ todo' = 0
  /\ UNCHANGED <<queue, currentSize, open, requestVars, size>>

-----------------------------------------------------------------------------
Arrive(r) == GetPooled(r) \/ FindEmpty(r)

Obtain(r) ==
  \/ CheckSize(r) \/ Create(r) \/ CreateFails(r)
  \/ WaitReceive(r) \/ WaitTimeout(r)

Finish(r) == CallDone(r) \/ StreamOpened(r) \/ StreamDone(r)

AutoScale ==
  \/ Sample \/ Decide
  \/ BeginExpand \/ Expand \/ ExpandSkip \/ CountUp
  \/ BeginShrink \/ Shrink \/ CountDown
  \/ EndScale

Next ==
  \/ \E r \in Requests : Arrive(r) \/ Obtain(r) \/ Finish(r)
  \/ AutoScale

Spec == Init /\ [][Next]_vars

(***************************************************************************)
(* The Go scheduler runs every goroutine that can run and the timer of the *)
(* blocking receive fires.  Nothing makes a new request arrive, and no     *)
(* call is sure to end: a stream goes on as long as its peers do.          *)
(***************************************************************************)
Fairness ==
  /\ \A r \in Requests : WF_vars(Obtain(r))
  /\ WF_vars(AutoScale)

FairSpec == Spec /\ Fairness

-----------------------------------------------------------------------------
(* No connection is with two requests, or with one and in the channel, or  *)
(* in the channel twice: getConnection and returnConnection never hand one *)
(* ClientConn to two calls that both believe they must return it.          *)
ExclusiveLease ==
  /\ \A i, j \in 1 .. Len(queue) : queue[i] = queue[j] => i = j
  /\ \A r, s \in Leaseholders : conn[r] = conn[s] => r = s
  /\ Held \cap Pooled = {}

(* A connection in the channel or held by a request is open: every Close   *)
(* is of a connection that was first taken out, so the Shutdown test of    *)
(* getConnection never succeeds and the wait needs no such test.           *)
PooledConnsOpen == Pooled \cup Held \subseteq open

(* Every open connection is in the channel or held by a request: no path   *)
(* of getConnection, returnConnection or scale forgets one without Close.  *)
NoOrphans == open \subseteq Pooled \cup Held

(* How far currentSize is above the number of open connections, when the   *)
(* counting step that autoScale still owes is taken into account.          *)
Drift ==
  currentSize + (IF spc = "countUp" THEN 1 ELSE 0)
              - (IF spc = "countDown" THEN 1 ELSE 0) - Cardinality(open)

(* The surplus of currentSize never shrinks: a connection that             *)
(* returnConnection closes because the channel is full keeps its place in  *)
(* the count for ever, and nothing recomputes the count.                   *)
DriftNeverHeals == [][Drift' >= Drift]_vars

(* A request that asks for a connection is answered, with a connection or  *)
(* with the timeout error, even when every connection is out for good.     *)
GetterAnswered ==
  \A r \in Requests :
    pc[r] \in {"empty", "creating", "waiting"} ~>
      pc[r] \in {"idle", "leased"}

(* The pool implements the abstract lease book.                            *)
Leases == INSTANCE ConnectionLeases WITH
  idle <- Pooled,
  lease <- [r \in Requests |-> IF pc[r] = "leased" THEN conn[r] ELSE NoConn]

ImplementsLeases == Leases!LSpec

(* The pool implements its own accounting, which forgets who holds which   *)
(* connection and keeps how many requests stand where: what PoolCounts     *)
(* says of a pool of any size it says of this code.                        *)
At(s) == Cardinality({r \in Requests : pc[r] = s})

Counts == INSTANCE PoolCounts WITH
  MaxRequests <- Cardinality(Requests),
  queued <- Len(queue),
  empty <- At("empty"),
  creating <- At("creating"),
  waiting <- At("waiting"),
  leased <- At("leased")

ImplementsCounts == Counts!Spec

(* The count never falls below the connections that exist, whatever the    *)
(* interleaving of returns, creations and scaling, although the channel    *)
(* operation and the counting are two steps in every one of them.          *)
CountCoversLive == Counts!CountCoversLive

(* The check of currentSize against maxSize (line 117) and the loop test   *)
(* of scale(true) (line 923) both work on a value read earlier.  The count *)
(* still exceeds maxSize by no more than the requests that may be past the *)
(* check together and the iterations of one scale(true).                   *)
CountBound == Counts!CountBound

(* A request that is receiving a stream has an open connection under it.   *)
(* returnConnection says that it closes only the surplus ones.             *)
StreamKeepsConnection ==
  \A r \in Requests : pc[r] = "streaming" => conn[r] \in open
=============================================================================
