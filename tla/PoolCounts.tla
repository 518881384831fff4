----------------------------- MODULE PoolCounts -----------------------------
(***************************************************************************)
(* The accounting of the connection pool of internal/service/grpc.go: how  *)
(* many connections wait in the channel, how many requests stand at each   *)
(* point of getConnection, and what currentSize says, without the          *)
(* identities of either.  ConnectionPool implements this specification;    *)
(* the numbers alone decide who creates, who waits and what autoScale      *)
(* does, so the questions about sizes are asked here, at the sizes and the *)
(* numbers of requests of a running server.                                *)
(***************************************************************************)
EXTENDS PoolSizes

CONSTANT
  MaxRequests   \* bound: how many requests may be between taking and
                \* returning; the code has no such limit

VARIABLES
  queued,       \* len(p.connections)
  currentSize,  \* p.currentSize
  empty,        \* the requests that found the channel empty
  creating,     \* those that found currentSize below maxSize
  waiting,      \* those in the blocking receive
  leased,       \* those that hold a connection they must return
  spc,          \* where the autoScale goroutine stands
  size,         \* its local currentSize
  todo          \* the iterations left to the loop of scale

requestVars == <<empty, creating, waiting, leased>>
scalerVars == <<spc, size, todo>>
vars == <<queued, currentSize, empty, creating, waiting, leased,
          spc, size, todo>>

TypeOK ==
  /\ queued \in 0 .. MaxSize
  /\ currentSize \in Nat
  /\ empty \in Nat
  /\ creating \in Nat
  /\ waiting \in Nat
  /\ leased \in Nat
  /\ spc \in {"asleep", "sampled", "expand", "shrink",
              "expanding", "shrinking", "countUp", "countDown"}
  /\ size \in Nat
  /\ todo \in Nat

InFlight == empty + creating + waiting + leased

Init ==
  /\ queued \in 0 .. MinSize
  /\ queued = MinSize \/ CreateMayFail
  /\ currentSize = queued
  /\ empty = 0
  /\ creating = 0
  /\ waiting = 0
  /\ leased = 0
  /\ spc = "asleep"
  /\ size = 0
  /\ todo = 0

-----------------------------------------------------------------------------
(* getConnection.  That a pooled connection is never shut down, so that    *)
(* the branch of line 114 is not taken, is ConnectionPool's                *)
(* PooledConnsOpen.                                                        *)
GetPooled ==
  /\ InFlight < MaxRequests
  /\ queued > 0
  /\ queued' = queued - 1
  /\ leased' = leased + 1
  /\ UNCHANGED <<currentSize, empty, creating, waiting, scalerVars>>

FindEmpty ==
  /\ InFlight < MaxRequests
  /\ queued = 0
  /\ empty' = empty + 1
  /\ UNCHANGED <<queued, currentSize, creating, waiting, leased, scalerVars>>

CheckSize ==
  /\ empty > 0
  /\ empty' = empty - 1
  /\ IF currentSize < MaxSize
       THEN creating' = creating + 1 /\ UNCHANGED waiting
       ELSE waiting' = waiting + 1 /\ UNCHANGED creating
  /\ UNCHANGED <<queued, currentSize, leased, scalerVars>>

Create ==
  /\ creating > 0
  /\ creating' = creating - 1
  /\ leased' = leased + 1
  /\ currentSize' = currentSize + 1
  /\ UNCHANGED <<queued, empty, waiting, scalerVars>>

CreateFails ==
  /\ CreateMayFail
  /\ creating > 0
  /\ creating' = creating - 1
  /\ waiting' = waiting + 1
  /\ UNCHANGED <<queued, currentSize, empty, leased, scalerVars>>

WaitReceive ==
  /\ waiting > 0
  /\ queued > 0
  /\ waiting' = waiting - 1
  /\ leased' = leased + 1
  /\ queued' = queued - 1
  /\ UNCHANGED <<currentSize, empty, creating, scalerVars>>

WaitTimeout ==
  /\ waiting > 0
  /\ waiting' = waiting - 1
  /\ UNCHANGED <<queued, currentSize, empty, creating, leased, scalerVars>>

\* returnConnection: a full channel means the connection is closed, and
\* currentSize stays as it is.
Return ==
  /\ leased > 0
  /\ leased' = leased - 1
  /\ queued' = IF queued < MaxSize THEN queued + 1 ELSE queued
  /\ UNCHANGED <<currentSize, empty, creating, waiting, scalerVars>>

-----------------------------------------------------------------------------
(* autoScale and scale.                                                    *)
HighUse == 5 * (MaxSize - queued) > 4 * MaxSize
LowUse == 10 * (MaxSize - queued) < 3 * MaxSize

StepSize(n) == IF n \div 4 < 1 THEN 1 ELSE n \div 4

Sample ==
  /\ spc = "asleep"
  /\ spc' = "sampled"
  /\ size' = currentSize
  /\ UNCHANGED <<queued, currentSize, requestVars, todo>>

Decide ==
  /\ spc = "sampled"
  /\ spc' = IF HighUse /\ size < MaxSize THEN "expand"
            ELSE IF LowUse /\ size > MinSize THEN "shrink"
            ELSE "asleep"
  /\ UNCHANGED <<queued, currentSize, requestVars, size, todo>>

BeginExpand ==
  /\ spc = "expand"
  /\ spc' = "expanding"
  /\ size' = currentSize
  /\ todo' = IF currentSize < MaxSize THEN StepSize(currentSize) ELSE 0
  /\ UNCHANGED <<queued, currentSize, requestVars>>

Expand ==
  /\ spc = "expanding"
  /\ todo > 0
  /\ queued < MaxSize
  /\ queued' = queued + 1
  /\ spc' = "countUp"
  /\ UNCHANGED <<currentSize, requestVars, size, todo>>

ExpandSkip ==
  /\ spc = "expanding"
  /\ todo > 0
  /\ queued >= MaxSize \/ CreateMayFail
  /\ todo' = todo - 1
  /\ UNCHANGED <<queued, currentSize, requestVars, spc, size>>

CountUp ==
  /\ spc = "countUp"
  /\ currentSize' = currentSize + 1
  /\ spc' = "expanding"
  /\ todo' = todo - 1
  /\ UNCHANGED <<queued, requestVars, size>>

BeginShrink ==
  /\ spc = "shrink"
  /\ spc' = "shrinking"
  /\ size' = currentSize
  /\ todo' = IF currentSize > MinSize THEN StepSize(currentSize) ELSE 0
  /\ UNCHANGED <<queued, currentSize, requestVars>>

Shrink ==
  /\ spc = "shrinking"
  /\ todo > 0
  /\ queued > 0
  /\ queued' = queued - 1
  /\ spc' = "countDown"
  /\ UNCHANGED <<currentSize, requestVars, size, todo>>

CountDown ==
  /\ spc = "countDown"
  /\ currentSize' = currentSize - 1
  /\ spc' = "shrinking"
  /\ todo' = todo - 1
  /\ UNCHANGED <<queued, requestVars, size>>

EndScale ==
  /\ \/ spc \in {"expanding", "shrinking"} /\ todo = 0
     \/ spc = "shrinking" /\ queued = 0
  /\ spc' = "asleep"
  /\ todo' = 0
  /\ UNCHANGED <<queued, currentSize, requestVars, size>>

-----------------------------------------------------------------------------
Request ==
  \/ GetPooled \/ FindEmpty
  \/ CheckSize \/ Create \/ CreateFails
  \/ WaitReceive \/ WaitTimeout
  \/ Return

AutoScale ==
  \/ Sample \/ Decide
  \/ BeginExpand \/ Expand \/ ExpandSkip \/ CountUp
  \/ BeginShrink \/ Shrink \/ CountDown
  \/ EndScale

Next == Request \/ AutoScale

Spec == Init /\ [][Next]_vars

-----------------------------------------------------------------------------
(* The connections that exist: in the channel or held by a request.        *)
Live == queued + leased

(* currentSize, with the step autoScale has taken and not yet counted.     *)
Counted ==
  currentSize + (IF spc = "countUp" THEN 1 ELSE 0)
              - (IF spc = "countDown" THEN 1 ELSE 0)

(* The count never falls below the connections that exist, whatever the    *)
(* interleaving of returns, creations and scaling.                         *)
CountCoversLive == Live <= Counted

(* The check of currentSize against maxSize (line 117) and the loop test   *)
(* of scale(true) (line 923) both work on a value read earlier.  The count *)
(* still exceeds maxSize by no more than the requests that may be past the *)
(* check together and the iterations of one scale(true).                   *)
CountBound == currentSize < MaxSize + MaxRequests + StepSize(MaxSize - 1)

(* The pool is beyond recovery: no connection exists or is being made, and *)
(* the count says that it is full, so that neither getConnection nor       *)
(* autoScale will create one.                                              *)
Dead ==
  /\ Live = 0
  /\ creating = 0
  /\ currentSize >= MaxSize
  /\ spc = "expanding" => todo = 0
  /\ spc \notin {"countUp", "countDown"}

(* A pool that is dead stays dead, whatever the requests and autoScale do: *)
(* every later request gets the timeout error.                             *)
DeadForGood == [][Dead => Dead']_vars

(* "Shrink: utilization below 30% and above the minimum" (line 902) and    *)
(* "the pool is empty but the maximum has not been reached: create a new   *)
(* connection" (line 116): the pool never shrinks away altogether with     *)
(* nobody allowed to create a connection again.                            *)
NeverDead == ~Dead
=============================================================================
