-------------------------- MODULE PoolCountsProofs --------------------------
(***************************************************************************)
(* Proofs about the accounting of the pool, for every size of the pool and *)
(* every number of requests.                                               *)
(***************************************************************************)
EXTENDS PoolCounts, TLAPS

(* The number of iterations of scale is a quarter of the count it is given *)
(* rounded down, or one, and does not decrease as the count grows.         *)
LEMMA StepSizeBounds ==
  ASSUME NEW n \in Nat
  PROVE  /\ StepSize(n) \in Nat
         /\ StepSize(n) >= 1
         /\ StepSize(n) = 1 \/ 4 * StepSize(n) <= n
         /\ \A m \in Nat : m <= n => StepSize(m) <= StepSize(n)
  BY DEF StepSize

(* A count below maxSize gives scale(true) no more iterations than the     *)
(* count maxSize - 1 does.                                                 *)
LEMMA StepBelowMax ==
  /\ StepSize(MaxSize - 1) \in Nat
  /\ StepSize(MaxSize - 1) >= 1
  /\ \A n \in Nat : n < MaxSize => StepSize(n) <= StepSize(MaxSize - 1)
  BY StepSizeBounds, SizesAssumption

-----------------------------------------------------------------------------
(* The count with the increments still to come from requests past the      *)
(* check and from the loop of scale(true).                                 *)
Pending == IF spc \in {"expanding", "countUp"} THEN todo ELSE 0

CountLimit == MaxSize - 1 + MaxRequests + StepSize(MaxSize - 1)

(* The bound that every step preserves: while the loop of scale(true) runs *)
(* its remaining iterations are counted, otherwise they could start.       *)
GrowthInv ==
  /\ InFlight <= MaxRequests
  /\ Pending <= StepSize(MaxSize - 1)
  /\ currentSize + creating + Pending <= CountLimit
  /\ spc = "countUp" => todo >= 1
  /\ spc = "countDown" => todo >= 1

CountsInv == TypeOK /\ CountCoversLive /\ GrowthInv

USE DEF requestVars, scalerVars

(* The accounting starts with the count of what was created.               *)
LEMMA InitCounts ==
  ASSUME MaxRequests \in Nat
  PROVE  Init => CountsInv
  BY StepBelowMax, SizesAssumption
  DEF Init, CountsInv, TypeOK, CountCoversLive, Live, Counted, GrowthInv,
      InFlight, Pending, CountLimit

(* Every step of a request or of autoScale keeps the types, the count      *)
(* above the connections that exist, and the bound on its growth.          *)
LEMMA NextCounts ==
  ASSUME MaxRequests \in Nat
  PROVE  CountsInv /\ [Next]_vars => CountsInv'
<1> SUFFICES ASSUME CountsInv, [Next]_vars
             PROVE  CountsInv'
  OBVIOUS
<1> USE SizesAssumption, StepBelowMax
    DEF CountsInv, TypeOK, CountCoversLive, Live, Counted, GrowthInv,
        InFlight, Pending, CountLimit
<1>1. CASE GetPooled
  BY <1>1 DEF GetPooled
<1>2. CASE FindEmpty
  BY <1>2 DEF FindEmpty
<1>3. CASE CheckSize
  BY <1>3 DEF CheckSize
<1>4. CASE Create
  BY <1>4 DEF Create
<1>5. CASE CreateFails
  BY <1>5 DEF CreateFails
<1>6. CASE WaitReceive
  BY <1>6 DEF WaitReceive
<1>7. CASE WaitTimeout
  BY <1>7 DEF WaitTimeout
<1>8. CASE Return
  BY <1>8 DEF Return
<1>9. CASE Sample
  BY <1>9 DEF Sample
<1>10. CASE Decide
  BY <1>10 DEF Decide
<1>11. CASE BeginExpand
  BY <1>11, StepSizeBounds DEF BeginExpand
<1>12. CASE Expand
  BY <1>12 DEF Expand
<1>13. CASE ExpandSkip
  BY <1>13 DEF ExpandSkip
<1>14. CASE CountUp
  BY <1>14 DEF CountUp
<1>15. CASE BeginShrink
  BY <1>15, StepSizeBounds DEF BeginShrink
<1>16. CASE Shrink
  BY <1>16 DEF Shrink
<1>17. CASE CountDown
  BY <1>17 DEF CountDown
<1>18. CASE EndScale
  BY <1>18 DEF EndScale
<1>19. CASE UNCHANGED vars
  BY <1>19 DEF vars
<1> QED
  BY <1>1, <1>2, <1>3, <1>4, <1>5, <1>6, <1>7, <1>8, <1>9, <1>10, <1>11,
     <1>12, <1>13, <1>14, <1>15, <1>16, <1>17, <1>18, <1>19
  DEF Next, Request, AutoScale

(* The types of the accounting hold in every reachable state.              *)
THEOREM CountsTypeCorrect ==
  ASSUME MaxRequests \in Nat
  PROVE  Spec => []TypeOK
<1>1. CountsInv => TypeOK
  BY DEF CountsInv
<1> QED
  BY InitCounts, NextCounts, <1>1, PTL DEF Spec

(* currentSize never falls below the number of connections, for pools of   *)
(* every size and every number of requests.                                *)
THEOREM CountCovers ==
  ASSUME MaxRequests \in Nat
  PROVE  Spec => []CountCoversLive
<1>1. CountsInv => CountCoversLive
  BY DEF CountsInv
<1> QED
  BY InitCounts, NextCounts, <1>1, PTL DEF Spec

(* The overshoot of currentSize beyond maxSize is bounded by the requests  *)
(* and one round of scale(true), for pools of every size.                  *)
THEOREM CountBounded ==
  ASSUME MaxRequests \in Nat
  PROVE  Spec => []CountBound
<1>1. CountsInv => CountBound
  BY StepBelowMax, SizesAssumption
  DEF CountsInv, TypeOK, GrowthInv, Pending, CountLimit, CountBound
<1> QED
  BY InitCounts, NextCounts, <1>1, PTL DEF Spec

-----------------------------------------------------------------------------
(* The pool that has died is never revived: with no connection and the     *)
(* count at maxSize no step of a request or of autoScale creates one or    *)
(* lowers the count.                                                       *)
LEMMA DeadStep ==
  ASSUME TypeOK, Dead, [Next]_vars
  PROVE  Dead'
<1> USE SizesAssumption DEF TypeOK, Dead, Live
<1>1. queued = 0 /\ leased = 0 /\ creating = 0
  OBVIOUS
<1>2. CASE GetPooled \/ Create \/ CreateFails \/ WaitReceive \/ Return
  BY <1>1, <1>2 DEF GetPooled, Create, CreateFails, WaitReceive, Return
<1>3. CASE FindEmpty \/ CheckSize \/ WaitTimeout
  BY <1>1, <1>3 DEF FindEmpty, CheckSize, WaitTimeout
<1>4. CASE Sample \/ Decide
  BY <1>4 DEF Sample, Decide
<1>5. CASE BeginExpand \/ BeginShrink
  BY <1>5 DEF BeginExpand, BeginShrink
<1>6. CASE Expand \/ ExpandSkip \/ CountUp
  BY <1>6 DEF Expand, ExpandSkip, CountUp
<1>7. CASE Shrink \/ CountDown \/ EndScale
  BY <1>1, <1>7 DEF Shrink, CountDown, EndScale
<1>8. CASE UNCHANGED vars
  BY <1>8 DEF vars
<1> QED
  BY <1>2, <1>3, <1>4, <1>5, <1>6, <1>7, <1>8 DEF Next, Request, AutoScale

(* There is no way back from a dead pool, for every size of the pool and   *)
(* every number of requests.                                               *)
THEOREM DeathIsFinal ==
  ASSUME MaxRequests \in Nat
  PROVE  Spec => DeadForGood
<1>1. CountsInv => TypeOK
  BY DEF CountsInv
<1>2. TypeOK /\ [Next]_vars => [Dead => Dead']_vars
  BY DeadStep
<1> QED
  BY InitCounts, NextCounts, <1>1, <1>2, PTL DEF Spec, DeadForGood
=============================================================================
