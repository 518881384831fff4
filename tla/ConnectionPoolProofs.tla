------------------------ MODULE ConnectionPoolProofs ------------------------
(***************************************************************************)
(* Proofs about the connection pool, for every set of requests and of      *)
(* connections and for every size of the pool.                             *)
(***************************************************************************)
EXTENDS ConnectionPool, FiniteSetTheorems, TLAPS

(* The elements of a sequence and that they are all different: Pooled and  *)
(* the first part of ExclusiveLease as operators on sequences.             *)
Elems(q) == {q[i] : i \in 1 .. Len(q)}

Distinct(q) == \A i, j \in 1 .. Len(q) : q[i] = q[j] => i = j

(* Receiving from the channel removes its first element and no other.      *)
LEMMA TailFacts ==
  ASSUME NEW S, NEW q \in Seq(S), q # <<>>
  PROVE  /\ Tail(q) \in Seq(S)
         /\ Len(Tail(q)) = Len(q) - 1
         /\ Head(q) \in S
         /\ Head(q) \in Elems(q)
         /\ Distinct(q) => /\ Distinct(Tail(q))
                           /\ Elems(Tail(q)) = Elems(q) \ {Head(q)}
<1>1. /\ Tail(q) \in Seq(S)
      /\ Len(Tail(q)) = Len(q) - 1
      /\ Len(q) \in Nat /\ Len(q) >= 1
      /\ Head(q) = q[1]
      /\ \A i \in 1 .. Len(q) - 1 : Tail(q)[i] = q[i + 1]
  OBVIOUS
<1>2. Head(q) \in Elems(q) /\ Head(q) \in S
  BY <1>1 DEF Elems
<1>3. ASSUME Distinct(q)
      PROVE  Distinct(Tail(q)) /\ Elems(Tail(q)) = Elems(q) \ {Head(q)}
  <2>1. Distinct(Tail(q))
    BY <1>1, <1>3 DEF Distinct
  <2>2. ASSUME NEW x \in Elems(Tail(q))
        PROVE  x \in Elems(q) \ {Head(q)}
    <3>1. PICK i \in 1 .. Len(q) - 1 : x = q[i + 1]
      BY <1>1, <2>2 DEF Elems
    <3>2. i + 1 \in 1 .. Len(q) /\ 1 \in 1 .. Len(q) /\ i + 1 # 1
      BY <1>1, <3>1
    <3> QED
      BY <1>1, <1>3, <3>1, <3>2 DEF Elems, Distinct
  <2>3. ASSUME NEW x \in Elems(q), x # Head(q)
        PROVE  x \in Elems(Tail(q))
    <3>1. PICK i \in 1 .. Len(q) : x = q[i]
      BY <2>3 DEF Elems
    <3>2. i - 1 \in 1 .. Len(q) - 1 /\ (i - 1) + 1 = i
      BY <1>1, <2>3, <3>1
    <3>3. x = Tail(q)[i - 1]
      BY <1>1, <3>1, <3>2
    <3> QED
      BY <1>1, <3>2, <3>3 DEF Elems
  <2> QED
    BY <2>1, <2>2, <2>3
<1> QED
  BY <1>1, <1>2, <1>3

(* Sending to the channel adds one element.                                *)
LEMMA AppendFacts ==
  ASSUME NEW S, NEW q \in Seq(S), NEW c \in S
  PROVE  /\ Append(q, c) \in Seq(S)
         /\ Len(Append(q, c)) = Len(q) + 1
         /\ Elems(Append(q, c)) = Elems(q) \cup {c}
         /\ Distinct(q) /\ c \notin Elems(q) => Distinct(Append(q, c))
<1>1. /\ Append(q, c) \in Seq(S)
      /\ Len(q) \in Nat
      /\ Len(Append(q, c)) = Len(q) + 1
      /\ \A i \in 1 .. Len(q) : Append(q, c)[i] = q[i]
      /\ Append(q, c)[Len(q) + 1] = c
  OBVIOUS
<1>2. \A i \in 1 .. Len(q) + 1 : i \in 1 .. Len(q) \/ i = Len(q) + 1
  BY <1>1
<1>3. Elems(Append(q, c)) = Elems(q) \cup {c}
  BY <1>1, <1>2 DEF Elems
<1>4. ASSUME Distinct(q), c \notin Elems(q)
      PROVE  Distinct(Append(q, c))
  BY <1>1, <1>2, <1>4 DEF Elems, Distinct
<1> QED
  BY <1>1, <1>3, <1>4

-----------------------------------------------------------------------------
(* A request that takes a connection becomes one more leaseholder.         *)
LEMMA LeaseFacts ==
  ASSUME TypeOK, NEW r \in Requests, NEW c \in Conns,
         pc[r] # "leased", Lease(r, c)
  PROVE  /\ Leaseholders' = Leaseholders \cup {r}
         /\ Held' = Held \cup {c}
         /\ conn'[r] = c
         /\ \A s \in Leaseholders : conn'[s] = conn[s] /\ s # r
         /\ pc' \in [Requests -> RequestStates]
         /\ conn' \in [Requests -> Conns \cup {NoConn}]
<1> USE DEF TypeOK, Lease, Goto, RequestStates
<1>1. Leaseholders' = Leaseholders \cup {r}
  BY DEF Leaseholders
<1>2. /\ conn'[r] = c
      /\ \A s \in Leaseholders : conn'[s] = conn[s] /\ s # r
  BY DEF Leaseholders
<1>3. Held' = Held \cup {c}
  BY <1>1, <1>2 DEF Held
<1> QED
  BY <1>1, <1>2, <1>3

(* A request that gives its connection back is a leaseholder no more.      *)
LEMMA ReleaseFacts ==
  ASSUME TypeOK, ExclusiveLease, NEW r \in Leaseholders, NEW s,
         s \in RequestStates \ {"leased"}, Goto(r, s),
         conn' = conn \/ conn' = [conn EXCEPT ![r] = NoConn]
  PROVE  /\ Leaseholders' = Leaseholders \ {r}
         /\ Held' = Held \ {conn[r]}
         /\ \A t \in Leaseholders' : conn'[t] = conn[t]
         /\ pc' \in [Requests -> RequestStates]
         /\ conn' \in [Requests -> Conns \cup {NoConn}]
<1> USE DEF TypeOK, Goto, RequestStates
<1>1. Leaseholders' = Leaseholders \ {r}
  BY DEF Leaseholders
<1>2. \A t \in Leaseholders' : conn'[t] = conn[t]
  BY DEF Leaseholders
<1>3. Held' = Held \ {conn[r]}
  BY <1>1, <1>2 DEF Held, ExclusiveLease, Leaseholders
<1>4. conn' \in [Requests -> Conns \cup {NoConn}]
  BY DEF Leaseholders
<1> QED
  BY <1>1, <1>2, <1>3, <1>4 DEF Leaseholders

(* Every other step of a request leaves the leases alone.                  *)
LEMMA BystanderFacts ==
  ASSUME TypeOK, NEW r \in Requests, pc[r] # "leased", NEW s,
         s \in RequestStates \ {"leased"}, Goto(r, s),
         conn' = conn \/ conn' = [conn EXCEPT ![r] = NoConn]
  PROVE  /\ Leaseholders' = Leaseholders
         /\ Held' = Held
         /\ \A t \in Leaseholders : conn'[t] = conn[t]
         /\ pc' \in [Requests -> RequestStates]
         /\ conn' \in [Requests -> Conns \cup {NoConn}]
<1> USE DEF TypeOK, Goto, RequestStates
<1>1. Leaseholders' = Leaseholders
  BY DEF Leaseholders
<1>2. \A t \in Leaseholders : conn'[t] = conn[t]
  BY DEF Leaseholders
<1>3. Held' = Held
  BY <1>1, <1>2 DEF Held
<1> QED
  BY <1>1, <1>2, <1>3

-----------------------------------------------------------------------------
(* The inductive invariant: no connection is in two places, and the open   *)
(* connections are those in the channel or with a request.  None of its    *)
(* parts is inductive alone: that a connection returned is not already     *)
(* queued needs ExclusiveLease, that a new one is not needs both of the    *)
(* others.  LoopBusy keeps the loop counter of scale from going below 0.   *)
LoopBusy == spc \in {"countUp", "countDown"} => todo > 0

PoolInv ==
  TypeOK /\ LoopBusy /\ ExclusiveLease /\ PooledConnsOpen /\ NoOrphans

OneHolder == \A r, s \in Leaseholders : conn[r] = conn[s] => r = s

Placed ==
  /\ Distinct(queue)
  /\ OneHolder
  /\ Held \cap Elems(queue) = {}
  /\ open = Elems(queue) \cup Held

(* What Placed says, spelled out for the provers.                          *)
LEMMA PlacedForm ==
  /\ PoolInv <=> TypeOK /\ LoopBusy /\ Placed
  /\ PoolInv' <=> TypeOK' /\ LoopBusy' /\ Placed'
  BY DEF PoolInv, Placed, OneHolder, ExclusiveLease, PooledConnsOpen,
         NoOrphans, Pooled, Elems, Distinct

(* The pool starts as createConnections leaves it.                         *)
LEMMA InitPool == Init => PoolInv
<1> SUFFICES ASSUME Init PROVE TypeOK /\ LoopBusy /\ Placed
  BY PlacedForm
<1>1. PICK n \in 0 .. MinSize :
        /\ queue \in {q \in [1 .. n -> Conns] :
                        \A i, j \in 1 .. n : q[i] = q[j] => i = j}
        /\ currentSize = n
  BY DEF Init
<1>2. queue \in Seq(Conns) /\ Len(queue) = n /\ Distinct(queue)
  BY <1>1 DEF Distinct
<1>3. Leaseholders = {} /\ Held = {}
  BY DEF Init, Leaseholders, Held
<1>4. open = Elems(queue) /\ open \subseteq Conns
  BY <1>2 DEF Init, Pooled, Elems
<1>5. TypeOK
  BY <1>1, <1>2, <1>4, SizesAssumption
  DEF Init, TypeOK, RequestStates, ScalerStates
<1> QED
  BY <1>2, <1>3, <1>4, <1>5 DEF Init, Placed, OneHolder, LoopBusy

-----------------------------------------------------------------------------
USE DEF requestVars, scalerVars

(* A request takes the head of the channel.                                *)
LEMMA TakeHead ==
  ASSUME PoolInv, NEW r \in Requests, pc[r] # "leased", queue # <<>>,
         queue' = Tail(queue), Lease(r, Head(queue)),
         UNCHANGED <<currentSize, open, scalerVars>>
  PROVE  PoolInv'
<1>1. TypeOK /\ LoopBusy /\ Placed
  BY PlacedForm
<1>2. /\ Tail(queue) \in Seq(Conns)
      /\ Len(Tail(queue)) = Len(queue) - 1
      /\ Len(queue) \in Nat
      /\ Head(queue) \in Conns
      /\ Head(queue) \in Elems(queue)
      /\ Distinct(Tail(queue))
      /\ Elems(Tail(queue)) = Elems(queue) \ {Head(queue)}
  BY <1>1, TailFacts DEF TypeOK, Placed
<1>3. /\ Leaseholders' = Leaseholders \cup {r}
      /\ Held' = Held \cup {Head(queue)}
      /\ conn'[r] = Head(queue)
      /\ \A s \in Leaseholders : conn'[s] = conn[s] /\ s # r
      /\ pc' \in [Requests -> RequestStates]
      /\ conn' \in [Requests -> Conns \cup {NoConn}]
  BY <1>1, <1>2, LeaseFacts
<1>4. TypeOK'
  BY <1>1, <1>2, <1>3, SizesAssumption DEF TypeOK
<1>5. OneHolder'
  BY <1>1, <1>2, <1>3 DEF OneHolder, Placed, Held
<1>6. Placed'
  BY <1>1, <1>2, <1>3, <1>5 DEF Placed
<1> QED
  BY <1>1, <1>4, <1>6, PlacedForm DEF LoopBusy

(* A request takes a connection that was just created.                     *)
LEMMA TakeNew ==
  ASSUME PoolInv, NEW r \in Requests, Create(r)
  PROVE  PoolInv'
<1>1. TypeOK /\ LoopBusy /\ Placed
  BY PlacedForm
<1>2. PICK c \in Conns \ InUse : open' = open \cup {c} /\ Lease(r, c)
  BY DEF Create
<1>3. c \notin Elems(queue) /\ c \notin Held /\ c \in Conns
  BY <1>1, <1>2 DEF InUse, Placed
<1>4. /\ Leaseholders' = Leaseholders \cup {r}
      /\ Held' = Held \cup {c}
      /\ conn'[r] = c
      /\ \A s \in Leaseholders : conn'[s] = conn[s] /\ s # r
      /\ pc' \in [Requests -> RequestStates]
      /\ conn' \in [Requests -> Conns \cup {NoConn}]
  BY <1>1, <1>2, LeaseFacts DEF Create
<1>5. TypeOK'
  BY <1>1, <1>2, <1>4 DEF TypeOK, Create
<1>6. OneHolder'
  BY <1>1, <1>3, <1>4 DEF OneHolder, Placed, Held
<1>7. Placed'
  BY <1>1, <1>2, <1>3, <1>4, <1>6 DEF Placed, Create
<1> QED
  BY <1>1, <1>5, <1>7, PlacedForm DEF LoopBusy, Create

(* A request gives its connection back, to the channel or to Close.        *)
LEMMA HandBack ==
  ASSUME PoolInv, NEW r \in Requests, pc[r] = "leased", GiveBack(conn[r]),
         NEW s, s \in RequestStates \ {"leased"}, Goto(r, s),
         conn' = conn \/ conn' = [conn EXCEPT ![r] = NoConn],
         UNCHANGED scalerVars
  PROVE  PoolInv'
<1>1. TypeOK /\ LoopBusy /\ Placed /\ ExclusiveLease
  BY PlacedForm DEF PoolInv
<1>2. r \in Leaseholders /\ conn[r] \in Held /\ conn[r] \in Conns
  BY <1>1 DEF Leaseholders, Held, Placed, TypeOK
<1>3. /\ Leaseholders' = Leaseholders \ {r}
      /\ Held' = Held \ {conn[r]}
      /\ \A t \in Leaseholders' : conn'[t] = conn[t]
      /\ pc' \in [Requests -> RequestStates]
      /\ conn' \in [Requests -> Conns \cup {NoConn}]
  BY <1>1, <1>2, ReleaseFacts
<1>4. conn[r] \notin Elems(queue)
  BY <1>1, <1>2 DEF Placed
<1>5. /\ Append(queue, conn[r]) \in Seq(Conns)
      /\ Len(Append(queue, conn[r])) = Len(queue) + 1
      /\ Len(queue) \in Nat
      /\ Elems(Append(queue, conn[r])) = Elems(queue) \cup {conn[r]}
      /\ Distinct(Append(queue, conn[r]))
  BY <1>1, <1>2, <1>4, AppendFacts DEF TypeOK, Placed
<1>6. TypeOK'
  BY <1>1, <1>2, <1>3, <1>5, SizesAssumption DEF TypeOK, GiveBack
<1>7. OneHolder'
  BY <1>1, <1>3 DEF OneHolder, Placed
<1>8. Placed'
  BY <1>1, <1>2, <1>3, <1>4, <1>5, <1>7 DEF Placed, GiveBack
<1> QED
  BY <1>1, <1>6, <1>8, PlacedForm DEF LoopBusy

(* A request moves on without touching a connection that counts.           *)
LEMMA Bystander ==
  ASSUME PoolInv, NEW r \in Requests, pc[r] # "leased",
         NEW s, s \in RequestStates \ {"leased"}, Goto(r, s),
         conn' = conn \/ conn' = [conn EXCEPT ![r] = NoConn],
         UNCHANGED <<queue, currentSize, open, scalerVars>>
  PROVE  PoolInv'
<1>1. TypeOK /\ LoopBusy /\ Placed
  BY PlacedForm
<1>2. /\ Leaseholders' = Leaseholders
      /\ Held' = Held
      /\ \A t \in Leaseholders : conn'[t] = conn[t]
      /\ pc' \in [Requests -> RequestStates]
      /\ conn' \in [Requests -> Conns \cup {NoConn}]
  BY <1>1, BystanderFacts
<1>3. TypeOK'
  BY <1>1, <1>2 DEF TypeOK
<1>4. Placed'
  BY <1>1, <1>2 DEF Placed, OneHolder
<1> QED
  BY <1>1, <1>3, <1>4, PlacedForm DEF LoopBusy

-----------------------------------------------------------------------------
(* Each step of a request preserves the invariant.                         *)
LEMMA RequestStep ==
  ASSUME PoolInv, NEW r \in Requests, Arrive(r) \/ Obtain(r) \/ Finish(r)
  PROVE  PoolInv'
<1> USE DEF RequestStates
<1>1. CASE GetPooled(r)
  <2>1. Head(queue) \in open
    BY <1>1, TailFacts, PlacedForm DEF GetPooled, Placed, TypeOK
  <2> QED
    BY <1>1, <2>1, TakeHead DEF GetPooled
<1>2. CASE FindEmpty(r)
  BY <1>2, Bystander DEF FindEmpty
<1>3. CASE CheckSize(r)
  <2>1. CASE currentSize < MaxSize
    BY <1>3, <2>1, Bystander DEF CheckSize
  <2>2. CASE ~(currentSize < MaxSize)
    BY <1>3, <2>2, Bystander DEF CheckSize
  <2> QED
    BY <2>1, <2>2
<1>4. CASE Create(r)
  BY <1>4, TakeNew
<1>5. CASE CreateFails(r)
  BY <1>5, Bystander DEF CreateFails
<1>6. CASE WaitReceive(r)
  BY <1>6, TakeHead DEF WaitReceive
<1>7. CASE WaitTimeout(r)
  BY <1>7, Bystander DEF WaitTimeout
<1>8. CASE CallDone(r)
  BY <1>8, HandBack DEF CallDone
<1>9. CASE StreamOpened(r)
  BY <1>9, HandBack DEF StreamOpened
<1>10. CASE StreamDone(r)
  BY <1>10, Bystander DEF StreamDone
<1> QED
  BY <1>1, <1>2, <1>3, <1>4, <1>5, <1>6, <1>7, <1>8, <1>9, <1>10
  DEF Arrive, Obtain, Finish

(* The leases depend on what the requests hold, which autoScale leaves be. *)
LEMMA ScalerLeavesLeases ==
  ASSUME UNCHANGED requestVars
  PROVE  /\ Leaseholders' = Leaseholders
         /\ Held' = Held
         /\ OneHolder' <=> OneHolder
  BY DEF Leaseholders, Held, OneHolder

(* Steps of autoScale that touch neither the channel nor a connection.     *)
LEMMA ScalerCounts ==
  ASSUME PoolInv, UNCHANGED <<queue, open, requestVars>>,
         currentSize' \in Int, size' \in Int, todo' \in Nat,
         spc' \in ScalerStates, LoopBusy'
  PROVE  PoolInv'
<1>1. TypeOK /\ LoopBusy /\ Placed
  BY PlacedForm
<1>2. TypeOK'
  BY <1>1 DEF TypeOK
<1>3. Placed'
  BY <1>1, ScalerLeavesLeases DEF Placed
<1> QED
  BY <1>2, <1>3, PlacedForm

(* scale(true) puts a new connection into the channel.                     *)
LEMMA ScalerGrows == PoolInv /\ Expand => PoolInv'
<1> SUFFICES ASSUME PoolInv, Expand PROVE PoolInv'
  OBVIOUS
<1>1. TypeOK /\ LoopBusy /\ Placed
  BY PlacedForm
<1>2. PICK c \in Conns \ InUse :
        queue' = Append(queue, c) /\ open' = open \cup {c}
  BY DEF Expand
<1>3. c \notin Elems(queue) /\ c \notin Held /\ c \in Conns
  BY <1>1, <1>2 DEF InUse, Placed
<1>4. /\ Append(queue, c) \in Seq(Conns)
      /\ Len(Append(queue, c)) = Len(queue) + 1
      /\ Len(queue) \in Nat
      /\ Elems(Append(queue, c)) = Elems(queue) \cup {c}
      /\ Distinct(Append(queue, c))
  BY <1>1, <1>3, AppendFacts DEF TypeOK, Placed
<1>5. TypeOK'
  BY <1>1, <1>2, <1>3, <1>4, SizesAssumption
  DEF TypeOK, Expand, ScalerStates
<1>6. Placed'
  BY <1>1, <1>2, <1>3, <1>4, ScalerLeavesLeases DEF Placed, Expand
<1> QED
  BY <1>5, <1>6, PlacedForm DEF Expand, LoopBusy

(* scale(false) takes the head of the channel and closes it.               *)
LEMMA ScalerShrinks == PoolInv /\ Shrink => PoolInv'
<1> SUFFICES ASSUME PoolInv, Shrink PROVE PoolInv'
  OBVIOUS
<1>1. TypeOK /\ LoopBusy /\ Placed
  BY PlacedForm
<1>2. /\ Tail(queue) \in Seq(Conns)
      /\ Len(Tail(queue)) = Len(queue) - 1
      /\ Len(queue) \in Nat
      /\ Head(queue) \in Elems(queue)
      /\ Distinct(Tail(queue))
      /\ Elems(Tail(queue)) = Elems(queue) \ {Head(queue)}
  BY <1>1, TailFacts DEF TypeOK, Placed, Shrink
<1>3. TypeOK'
  BY <1>1, <1>2, SizesAssumption DEF TypeOK, Shrink, ScalerStates
<1>4. Placed'
  BY <1>1, <1>2, ScalerLeavesLeases DEF Placed, Shrink
<1> QED
  BY <1>3, <1>4, PlacedForm DEF Shrink, LoopBusy

(* Each step of the autoScale goroutine preserves the invariant.           *)
LEMMA ScalerStep == PoolInv /\ AutoScale => PoolInv'
<1> SUFFICES ASSUME PoolInv, AutoScale PROVE PoolInv'
  OBVIOUS
<1> USE DEF ScalerStates, LoopBusy
<1>0. /\ currentSize \in Int /\ size \in Int /\ todo \in Nat
      /\ spc \in ScalerStates
      /\ LoopBusy
  BY DEF PoolInv, TypeOK
<1>1. CASE Sample
  BY <1>0, <1>1, ScalerCounts DEF Sample
<1>2. CASE Decide
  BY <1>0, <1>2, ScalerCounts DEF Decide
<1>3. CASE BeginExpand
  BY <1>0, <1>3, ScalerCounts DEF BeginExpand, StepSize
<1>4. CASE Expand
  BY <1>4, ScalerGrows
<1>5. CASE ExpandSkip
  BY <1>0, <1>5, ScalerCounts DEF ExpandSkip
<1>6. CASE CountUp
  BY <1>0, <1>6, ScalerCounts DEF CountUp
<1>7. CASE BeginShrink
  BY <1>0, <1>7, ScalerCounts DEF BeginShrink, StepSize
<1>8. CASE Shrink
  BY <1>8, ScalerShrinks
<1>9. CASE CountDown
  BY <1>0, <1>9, ScalerCounts DEF CountDown
<1>10. CASE EndScale
  BY <1>0, <1>10, ScalerCounts DEF EndScale
<1> QED
  BY <1>1, <1>2, <1>3, <1>4, <1>5, <1>6, <1>7, <1>8, <1>9, <1>10
  DEF AutoScale

(* No step of a request or of the scaling routine breaks the invariant.    *)
LEMMA NextPool == PoolInv /\ [Next]_vars => PoolInv'
<1> SUFFICES ASSUME PoolInv, [Next]_vars PROVE PoolInv'
  OBVIOUS
<1>1. CASE UNCHANGED vars
  BY <1>1, ScalerCounts DEF vars, PoolInv, TypeOK, LoopBusy
<1> QED
  BY <1>1, RequestStep, ScalerStep DEF Next

(* The invariant holds from the start on.                                  *)
LEMMA PoolInvariant == Spec => []PoolInv
  BY InitPool, NextPool, PTL DEF Spec

-----------------------------------------------------------------------------
(* Every variable of the pool keeps its type, and the channel never holds  *)
(* more than its capacity.                                                 *)
THEOREM PoolTypeCorrect == Spec => []TypeOK
  BY PoolInvariant, PTL DEF PoolInv

(* No ClientConn is ever leased twice or queued while leased.              *)
THEOREM LeasesAreExclusive == Spec => []ExclusiveLease
  BY PoolInvariant, PTL DEF PoolInv

(* Whatever is in the channel or leased is open, so the Shutdown branch of *)
(* getConnection is dead code.                                             *)
THEOREM PooledAreOpen == Spec => []PooledConnsOpen
  BY PoolInvariant, PTL DEF PoolInv

(* No open connection is ever out of reach of the pool and the requests.   *)
THEOREM NothingOrphaned == Spec => []NoOrphans
  BY PoolInvariant, PTL DEF PoolInv

-----------------------------------------------------------------------------
(* The lease book of ConnectionLeases, as ConnectionPool maps it.          *)
LeaseBook ==
  [r \in Requests |-> IF pc[r] = "leased" THEN conn[r] ELSE NoConn]

(* A pool step that gives r the connection c enters it in the book.        *)
LEMMA BookLease ==
  ASSUME TypeOK, NEW r \in Requests, NEW c \in Conns,
         pc[r] # "leased", Lease(r, c)
  PROVE  /\ LeaseBook[r] = NoConn
         /\ LeaseBook' = [LeaseBook EXCEPT ![r] = c]
  BY DEF TypeOK, Lease, Goto, LeaseBook

(* A pool step that ends the lease of r clears its entry.                  *)
LEMMA BookRelease ==
  ASSUME TypeOK, NEW r \in Requests, NEW s, s # "leased", Goto(r, s),
         conn' = conn \/ conn' = [conn EXCEPT ![r] = NoConn]
  PROVE  LeaseBook' = [LeaseBook EXCEPT ![r] = NoConn]
  BY DEF TypeOK, Goto, LeaseBook

(* A connection of the book is one that some request holds.                *)
LEMMA BookedConns ==
  ASSUME TypeOK
  PROVE  {LeaseBook[r] : r \in Requests} \ {NoConn} \subseteq Held
  BY DEF TypeOK, LeaseBook, Held, Leaseholders

USE DEF Leases!leaseVars, Leases!LeasedConns

(* What a request does to the pool, the book of leases allows.             *)
LEMMA RequestRefines ==
  ASSUME PoolInv, NEW r \in Requests, Arrive(r) \/ Obtain(r) \/ Finish(r)
  PROVE  [Leases!LNext]_(Leases!leaseVars)
<1>1. TypeOK /\ Placed
  BY PlacedForm
<1>2. Pooled = Elems(queue) /\ Pooled' = Elems(queue')
  BY DEF Pooled, Elems
<1>3. ASSUME queue # <<>>, pc[r] # "leased", queue' = Tail(queue),
             Lease(r, Head(queue))
      PROVE  Leases!LNext
  <2>1. /\ Head(queue) \in Conns
        /\ Head(queue) \in Elems(queue)
        /\ Elems(Tail(queue)) = Elems(queue) \ {Head(queue)}
    BY <1>1, <1>3, TailFacts DEF TypeOK, Placed
  <2>2. PICK c \in Conns : c = Head(queue)
    BY <2>1
  <2>3. Leases!Acquire(r, c)
    BY <1>1, <1>2, <1>3, <2>1, <2>2, BookLease
    DEF Leases!Acquire, LeaseBook
  <2> QED
    BY <2>3 DEF Leases!LNext
<1>4. ASSUME pc[r] # "leased", NEW s, s # "leased", Goto(r, s),
             conn' = conn \/ conn' = [conn EXCEPT ![r] = NoConn],
             UNCHANGED queue
      PROVE  UNCHANGED Leases!leaseVars
  <2>1. LeaseBook' = LeaseBook
    BY <1>1, <1>4 DEF TypeOK, Goto, LeaseBook
  <2> QED
    BY <1>2, <1>4, <2>1 DEF LeaseBook
<1>5. ASSUME pc[r] = "leased", GiveBack(conn[r]), NEW s, s # "leased",
             Goto(r, s), conn' = conn \/ conn' = [conn EXCEPT ![r] = NoConn]
      PROVE  Leases!LNext
  <2>1. LeaseBook' = [LeaseBook EXCEPT ![r] = NoConn]
    BY <1>1, <1>5, BookRelease
  <2>2. LeaseBook[r] = conn[r] /\ conn[r] \in Held /\ conn[r] \in Conns
    BY <1>1, <1>5 DEF LeaseBook, Held, Leaseholders, Placed, TypeOK
  <2>3. conn[r] # NoConn
    BY <2>2, ConnsAssumption
  <2>4. CASE Len(queue) < MaxSize
    <3>1. queue' = Append(queue, conn[r])
      BY <1>5, <2>4 DEF GiveBack
    <3>2. Elems(queue') = Elems(queue) \cup {conn[r]}
      BY <1>1, <2>2, <3>1, AppendFacts DEF TypeOK
    <3>3. Leases!Release(r)
      BY <1>2, <2>1, <2>2, <2>3, <3>2 DEF Leases!Release, LeaseBook
    <3> QED
      BY <3>3 DEF Leases!LNext
  <2>5. CASE ~(Len(queue) < MaxSize)
    <3>1. Leases!Discard(r)
      BY <1>2, <1>5, <2>1, <2>2, <2>3, <2>5
      DEF GiveBack, Leases!Discard, LeaseBook
    <3> QED
      BY <3>1 DEF Leases!LNext
  <2> QED
    BY <2>4, <2>5
<1>6. CASE GetPooled(r)
  <2>1. Head(queue) \in open
    BY <1>1, <1>6, TailFacts DEF GetPooled, Placed, TypeOK
  <2> QED
    BY <1>3, <1>6, <2>1 DEF GetPooled
<1>7. CASE Create(r)
  <2>1. PICK c \in Conns \ InUse : Lease(r, c)
    BY <1>7 DEF Create
  <2>2. c \notin Pooled /\ c \notin Held
    BY <1>1, <1>2, <2>1 DEF InUse, Placed
  <2>3. c \notin {LeaseBook[t] : t \in Requests} \ {NoConn}
    BY <1>1, <2>2, BookedConns
  <2>4. Leases!AcquireNew(r, c)
    BY <1>1, <1>2, <1>7, <2>1, <2>2, <2>3, BookLease
    DEF Create, Leases!AcquireNew, LeaseBook
  <2> QED
    BY <2>4, <2>1 DEF Leases!LNext
<1>8. CASE FindEmpty(r) \/ CheckSize(r) \/ CreateFails(r) \/ WaitTimeout(r)
           \/ StreamDone(r)
  <2>1. UNCHANGED Leases!leaseVars
    BY <1>4, <1>8
    DEF FindEmpty, CheckSize, CreateFails, WaitTimeout, StreamDone
  <2> QED
    BY <2>1
<1>9. CASE WaitReceive(r)
  BY <1>3, <1>9 DEF WaitReceive
<1>10. CASE CallDone(r) \/ StreamOpened(r)
  BY <1>5, <1>10 DEF CallDone, StreamOpened
<1> QED
  BY <1>6, <1>7, <1>8, <1>9, <1>10 DEF Arrive, Obtain, Finish

(* So it does with what the scaling routine does.                          *)
LEMMA ScalerRefines ==
  ASSUME PoolInv, AutoScale
  PROVE  [Leases!LNext]_(Leases!leaseVars)
<1>1. TypeOK /\ Placed
  BY PlacedForm
<1>2. Pooled = Elems(queue) /\ Pooled' = Elems(queue')
  BY DEF Pooled, Elems
<1>3. LeaseBook' = LeaseBook
  BY DEF AutoScale, Sample, Decide, BeginExpand, Expand, ExpandSkip, CountUp,
         BeginShrink, Shrink, CountDown, EndScale, LeaseBook
<1>4. CASE Expand
  <2>1. PICK c \in Conns \ InUse : queue' = Append(queue, c)
    BY <1>4 DEF Expand
  <2>2. c \notin Pooled /\ c \notin Held
    BY <1>1, <1>2, <2>1 DEF InUse, Placed
  <2>3. c \notin {LeaseBook[t] : t \in Requests} \ {NoConn}
    BY <1>1, <2>2, BookedConns
  <2>4. Elems(queue') = Elems(queue) \cup {c}
    BY <1>1, <2>1, AppendFacts DEF TypeOK
  <2>5. Leases!Grow(c)
    BY <1>2, <1>3, <2>1, <2>2, <2>3, <2>4 DEF Leases!Grow, LeaseBook
  <2> QED
    BY <2>5, <2>1 DEF Leases!LNext
<1>5. CASE Shrink
  <2>1. /\ Head(queue) \in Conns
        /\ Head(queue) \in Elems(queue)
        /\ Elems(Tail(queue)) = Elems(queue) \ {Head(queue)}
    BY <1>1, <1>5, TailFacts DEF TypeOK, Placed, Shrink
  <2>2. Leases!Shrink(Head(queue))
    BY <1>2, <1>3, <1>5, <2>1 DEF Shrink, Leases!Shrink, LeaseBook
  <2> QED
    BY <2>1, <2>2 DEF Leases!LNext
<1>6. CASE ~Expand /\ ~Shrink
  <2>1. queue' = queue
    BY <1>6 DEF AutoScale, Sample, Decide, BeginExpand, ExpandSkip, CountUp,
                BeginShrink, CountDown, EndScale
  <2> QED
    BY <1>2, <1>3, <2>1 DEF LeaseBook
<1> QED
  BY <1>4, <1>5, <1>6

(* The pool implements the lease book: every step is one of its steps or   *)
(* leaves it alone.                                                        *)
THEOREM PoolImplementsLeases == Spec => ImplementsLeases
<1>1. Init => Leases!LInit
  <2> SUFFICES ASSUME Init PROVE Leases!LInit
    OBVIOUS
  <2>1. TypeOK /\ Pooled \subseteq Conns
    BY InitPool DEF PoolInv, Pooled, TypeOK
  <2> QED
    BY <2>1 DEF Init, Leases!LInit
<1>2. PoolInv /\ [Next]_vars => [Leases!LNext]_(Leases!leaseVars)
  <2> SUFFICES ASSUME PoolInv, [Next]_vars
               PROVE  [Leases!LNext]_(Leases!leaseVars)
    OBVIOUS
  <2>1. CASE UNCHANGED vars
    BY <2>1 DEF vars, Pooled
  <2> QED
    BY <2>1, RequestRefines, ScalerRefines DEF Next
<1> QED
  BY <1>1, <1>2, PoolInvariant, PTL DEF Spec, ImplementsLeases, Leases!LSpec

-----------------------------------------------------------------------------
(***************************************************************************)
(* The count of the pool.                                                  *)
(***************************************************************************)
(* What a function takes to a set has at most as many elements.            *)
LEMMA ImageFinite ==
  ASSUME NEW S, IsFiniteSet(S), NEW T, NEW f \in [S -> T],
         \A t \in T : \E x \in S : f[x] = t
  PROVE  IsFiniteSet(T)
<1>1. f \in Surjection(S, T)
  BY DEF Surjection
<1> QED
  BY <1>1, FS_Surjection

(* There are finitely many open connections: those in the channel, and at  *)
(* most one for each request.                                              *)
LEMMA OpenFinite ==
  ASSUME PoolInv
  PROVE  IsFiniteSet(open) /\ Cardinality(open) \in Nat
<1>1. TypeOK /\ open = Elems(queue) \cup Held
  BY PlacedForm DEF Placed
<1>2. IsFiniteSet(Elems(queue))
  <2>1. Len(queue) \in Nat /\ queue \in [1 .. Len(queue) -> Conns]
    BY <1>1 DEF TypeOK
  <2>2. queue \in [1 .. Len(queue) -> Elems(queue)]
    BY <2>1 DEF Elems
  <2>3. IsFiniteSet(1 .. Len(queue))
    BY <2>1, FS_Interval
  <2> QED
    BY <2>2, <2>3, ImageFinite DEF Elems
<1>3. IsFiniteSet(Held)
  <2> DEFINE f == [r \in Leaseholders |-> conn[r]]
  <2>1. IsFiniteSet(Leaseholders)
    BY RequestsAssumption, FS_Subset DEF Leaseholders
  <2>2. f \in [Leaseholders -> Held] /\ \A c \in Held : \E r \in Leaseholders : f[r] = c
    BY DEF Held
  <2> QED
    BY <2>1, <2>2, ImageFinite
<1> QED
  BY <1>1, <1>2, <1>3, FS_Union, FS_CardinalityType

(* A connection created or closed changes the number of the open ones by   *)
(* one.                                                                    *)
LEMMA OpenCounts ==
  ASSUME PoolInv
  PROVE  /\ \A c : c \notin open => Cardinality(open \cup {c}) = Cardinality(open) + 1
         /\ \A c : c \in open => Cardinality(open \ {c}) = Cardinality(open) - 1
         /\ \A c : Cardinality(open \ {c}) <= Cardinality(open)
         /\ \A c : Cardinality(open \ {c}) \in Nat
<1>1. IsFiniteSet(open) /\ Cardinality(open) \in Nat
  BY OpenFinite
<1>2. ASSUME NEW c
      PROVE  /\ Cardinality(open \cup {c}) =
                  IF c \in open THEN Cardinality(open) ELSE Cardinality(open) + 1
             /\ Cardinality(open \ {c}) =
                  IF c \in open THEN Cardinality(open) - 1 ELSE Cardinality(open)
             /\ Cardinality(open \ {c}) \in Nat
  BY <1>1, FS_AddElement, FS_RemoveElement, FS_CardinalityType
<1> QED
  BY <1>1, <1>2

(* No step of a request lowers the surplus of the count: it rises with     *)
(* each connection that a full channel turns away, and falls nowhere,      *)
(* because no connection in the channel is ever found shut down.           *)
LEMMA RequestDrift ==
  ASSUME PoolInv, NEW r \in Requests, Arrive(r) \/ Obtain(r) \/ Finish(r)
  PROVE  Drift' >= Drift
<1>0. TypeOK /\ Placed /\ Cardinality(open) \in Nat
  BY OpenFinite, PlacedForm
<1>1. spc' = spc
  BY DEF Arrive, Obtain, Finish, GetPooled, FindEmpty, CheckSize, Create,
         CreateFails, WaitReceive, WaitTimeout, CallDone, StreamOpened,
         StreamDone
<1>2. CASE UNCHANGED <<currentSize, open>>
  BY <1>0, <1>1, <1>2 DEF Drift, TypeOK
<1>3. CASE GetPooled(r)
  <2>1. Head(queue) \in open
    BY <1>0, <1>3, TailFacts DEF GetPooled, Placed, TypeOK
  <2> QED
    BY <1>2, <1>3, <2>1 DEF GetPooled
<1>4. CASE Create(r)
  <2>1. PICK c \in Conns \ InUse : open' = open \cup {c}
    BY <1>4 DEF Create
  <2>2. Cardinality(open') = Cardinality(open) + 1
    BY <2>1, OpenCounts DEF InUse
  <2> QED
    BY <1>0, <1>1, <1>4, <2>2 DEF Drift, Create, TypeOK
<1>5. CASE CallDone(r) \/ StreamOpened(r)
  <2>1. GiveBack(conn[r])
    BY <1>5 DEF CallDone, StreamOpened
  <2>2. CASE open' = open \ {conn[r]}
    <3>1. Cardinality(open') <= Cardinality(open) /\ Cardinality(open') \in Nat
      BY <2>2, OpenCounts
    <3> QED
      BY <1>0, <1>1, <2>1, <3>1 DEF Drift, GiveBack, TypeOK
  <2> QED
    BY <1>2, <2>1, <2>2 DEF GiveBack
<1> QED
  BY <1>2, <1>3, <1>4, <1>5
  DEF Arrive, Obtain, Finish, FindEmpty, CheckSize, CreateFails, WaitReceive,
      WaitTimeout, StreamDone

(* Nor does autoScale, once the step of counting it owes is counted in.    *)
LEMMA ScalerDrift ==
  ASSUME PoolInv, AutoScale
  PROVE  Drift' >= Drift
<1>0. TypeOK /\ Placed /\ Cardinality(open) \in Nat
  BY OpenFinite, PlacedForm
<1>1. CASE Expand
  <2>1. PICK c \in Conns \ InUse : open' = open \cup {c}
    BY <1>1 DEF Expand
  <2>2. Cardinality(open') = Cardinality(open) + 1
    BY <2>1, OpenCounts DEF InUse
  <2> QED
    BY <1>0, <1>1, <2>2 DEF Drift, Expand, TypeOK
<1>2. CASE Shrink
  <2>1. Head(queue) \in open
    BY <1>0, <1>2, TailFacts DEF Shrink, Placed, TypeOK
  <2>2. Cardinality(open') = Cardinality(open) - 1
    BY <1>2, <2>1, OpenCounts DEF Shrink
  <2> QED
    BY <1>0, <1>2, <2>2 DEF Drift, Shrink, TypeOK
<1>3. CASE CountUp
  BY <1>0, <1>3 DEF Drift, CountUp, TypeOK
<1>4. CASE CountDown
  BY <1>0, <1>4 DEF Drift, CountDown, TypeOK
<1>5. CASE Sample \/ Decide \/ BeginExpand \/ ExpandSkip \/ BeginShrink \/ EndScale
  <2>1. /\ UNCHANGED <<currentSize, open>>
        /\ spc # "countUp" /\ spc # "countDown"
        /\ spc' # "countUp" /\ spc' # "countDown"
    BY <1>5
    DEF Sample, Decide, BeginExpand, ExpandSkip, BeginShrink, EndScale
  <2> QED
    BY <1>0, <2>1 DEF Drift, TypeOK
<1> QED
  BY <1>1, <1>2, <1>3, <1>4, <1>5 DEF AutoScale

(* What currentSize counts beyond the open connections it counts for ever, *)
(* for pools of every size.                                                *)
THEOREM DriftIsForGood == Spec => DriftNeverHeals
<1>1. PoolInv /\ [Next]_vars => [Drift' >= Drift]_vars
  BY RequestDrift, ScalerDrift DEF Next
<1> QED
  BY <1>1, PoolInvariant, PTL DEF Spec, DriftNeverHeals

-----------------------------------------------------------------------------
(***************************************************************************)
(* The accounting of PoolCounts.                                           *)
(***************************************************************************)
(* The requests that stand at s.                                           *)
Standing(s) == {r \in Requests : pc[r] = s}

(* How many of them there are.                                             *)
LEMMA AtFacts ==
  ASSUME NEW s
  PROVE  /\ IsFiniteSet(Standing(s)) /\ At(s) = Cardinality(Standing(s))
         /\ At(s) \in Nat
<1>1. IsFiniteSet(Standing(s))
  BY RequestsAssumption, FS_Subset DEF Standing
<1> QED
  BY <1>1, FS_CardinalityType DEF At, Standing

(* A request that goes from s to t is counted there and no longer here.    *)
LEMMA MoveFacts ==
  ASSUME TypeOK, NEW r \in Requests, NEW s, NEW t, s # t,
         pc[r] = s, Goto(r, t)
  PROVE  /\ At(s) > 0
         /\ At(s)' = At(s) - 1
         /\ At(t)' = At(t) + 1
<1>1. \A q \in Requests : pc'[q] = IF q = r THEN t ELSE pc[q]
  BY DEF TypeOK, Goto
<1>2. /\ Standing(s)' = Standing(s) \ {r} /\ r \in Standing(s)
      /\ Standing(t)' = Standing(t) \cup {r} /\ r \notin Standing(t)
  BY <1>1 DEF Standing
<1>3. At(s)' = Cardinality(Standing(s)') /\ At(t)' = Cardinality(Standing(t)')
  BY DEF At, Standing
<1>4. /\ Cardinality(Standing(s) \ {r}) = Cardinality(Standing(s)) - 1
      /\ Cardinality(Standing(s) \ {r}) \in Nat
  <2>1. IsFiniteSet(Standing(s)) /\ IsFiniteSet(Standing(s) \ {r})
    BY AtFacts, FS_RemoveElement
  <2> QED
    BY <1>2, <2>1, FS_RemoveElement, FS_CardinalityType
<1>5. Cardinality(Standing(t) \cup {r}) = Cardinality(Standing(t)) + 1
  <2>1. IsFiniteSet(Standing(t))
    BY AtFacts
  <2> QED
    BY <1>2, <2>1, FS_AddElement
<1>6. At(s) = Cardinality(Standing(s)) /\ At(t) = Cardinality(Standing(t)) /\ At(s) \in Nat
  BY AtFacts
<1> QED
  BY <1>2, <1>3, <1>4, <1>5, <1>6

(* The requests elsewhere are as many as before.                           *)
LEMMA StayFacts ==
  ASSUME TypeOK, NEW r \in Requests, NEW s, NEW t, NEW u,
         pc[r] = s, Goto(r, t), u # s, u # t
  PROVE  At(u)' = At(u)
<1>1. \A q \in Requests : pc'[q] = IF q = r THEN t ELSE pc[q]
  BY DEF TypeOK, Goto
<1>2. Standing(u)' = Standing(u)
  BY <1>1 DEF Standing
<1> QED
  BY <1>2 DEF At, Standing

(* What is counted apart adds up.                                          *)
LEMMA DisjointUnion ==
  ASSUME NEW S, IsFiniteSet(S), NEW T, IsFiniteSet(T), S \cap T = {}
  PROVE  /\ IsFiniteSet(S \cup T)
         /\ Cardinality(S \cup T) = Cardinality(S) + Cardinality(T)
<1>1. Cardinality(S) \in Nat /\ Cardinality(T) \in Nat
  BY FS_CardinalityType
<1>2. Cardinality(S \cap T) = 0
  BY FS_EmptySet
<1>3. /\ IsFiniteSet(S \cup T)
      /\ Cardinality(S \cup T) =
           Cardinality(S) + Cardinality(T) - Cardinality(S \cap T)
  BY FS_Union
<1> QED
  BY <1>1, <1>2, <1>3

(* While a request is idle, fewer than all of them are at work.            *)
LEMMA RoomFacts ==
  ASSUME TypeOK, NEW r \in Requests, pc[r] = "idle"
  PROVE  At("empty") + At("creating") + At("waiting") + At("leased")
           < Cardinality(Requests)
<1> DEFINE a == Standing("empty")
           b == Standing("creating")
           c == Standing("waiting")
           d == Standing("leased")
<1>1. /\ IsFiniteSet(a) /\ IsFiniteSet(b) /\ IsFiniteSet(c) /\ IsFiniteSet(d)
      /\ At("empty") = Cardinality(a) /\ At("creating") = Cardinality(b)
      /\ At("waiting") = Cardinality(c) /\ At("leased") = Cardinality(d)
  BY AtFacts
<1>2. /\ a \cap b = {} /\ (a \cup b) \cap c = {} /\ (a \cup b \cup c) \cap d = {}
      /\ a \cup b \cup c \cup d \subseteq Requests
      /\ r \in Requests /\ r \notin a \cup b \cup c \cup d
  BY DEF Standing
<1> HIDE DEF a, b, c, d
<1>3. \A S : IsFiniteSet(S) => Cardinality(S) \in Nat
  BY FS_CardinalityType
<1>4. /\ IsFiniteSet(a \cup b)
      /\ Cardinality(a \cup b) = Cardinality(a) + Cardinality(b)
  BY <1>1, <1>2, DisjointUnion
<1>5. /\ IsFiniteSet(a \cup b \cup c)
      /\ Cardinality(a \cup b \cup c) = Cardinality(a \cup b) + Cardinality(c)
  BY <1>1, <1>2, <1>4, DisjointUnion
<1>6. /\ IsFiniteSet(a \cup b \cup c \cup d)
      /\ Cardinality(a \cup b \cup c \cup d) = Cardinality(a \cup b \cup c) + Cardinality(d)
  BY <1>1, <1>2, <1>5, DisjointUnion
<1>7. /\ Cardinality(a \cup b \cup c \cup d) <= Cardinality(Requests)
      /\ Cardinality(a \cup b \cup c \cup d) # Cardinality(Requests)
  BY <1>2, RequestsAssumption, FS_Subset
<1> QED
  BY <1>1, <1>3, <1>4, <1>5, <1>6, <1>7, RequestsAssumption

USE DEF Counts!requestVars, Counts!scalerVars

(* The numbers move as a request does.                                     *)
LEMMA RequestCounts ==
  ASSUME PoolInv, NEW r \in Requests, Arrive(r) \/ Obtain(r) \/ Finish(r)
  PROVE  [Counts!Next]_(Counts!vars)
<1>0. /\ TypeOK /\ Placed
      /\ Len(queue) \in Nat
      /\ queue # <<>> => Len(queue) > 0 /\ Len(Tail(queue)) = Len(queue) - 1
      /\ queue = <<>> => Len(queue) = 0
      /\ conn[r] \in Conns => Len(Append(queue, conn[r])) = Len(queue) + 1
  <2>1. TypeOK /\ Placed
    BY PlacedForm
  <2> QED
    BY <2>1 DEF TypeOK
<1>1. CASE GetPooled(r)
  <2>1. Head(queue) \in open
    BY <1>0, <1>1, TailFacts DEF GetPooled, Placed, TypeOK
  <2>2. Goto(r, "leased") /\ pc[r] = "idle"
    BY <1>1, <2>1 DEF GetPooled, Lease
  <2>3. /\ At("leased")' = At("leased") + 1
        /\ At("empty")' = At("empty") /\ At("creating")' = At("creating")
        /\ At("waiting")' = At("waiting")
    BY <1>0, <2>2, MoveFacts, StayFacts
  <2>4. Counts!GetPooled
    BY <1>0, <1>1, <2>1, <2>2, <2>3, RoomFacts
    DEF GetPooled, Counts!GetPooled, Counts!InFlight
  <2> QED
    BY <2>4 DEF Counts!Next, Counts!Request
<1>2. CASE FindEmpty(r)
  <2>1. Goto(r, "empty") /\ pc[r] = "idle"
    BY <1>2 DEF FindEmpty
  <2>2. /\ At("empty")' = At("empty") + 1
        /\ At("leased")' = At("leased") /\ At("creating")' = At("creating")
        /\ At("waiting")' = At("waiting")
    BY <1>0, <2>1, MoveFacts, StayFacts
  <2>3. Counts!FindEmpty
    BY <1>0, <1>2, <2>1, <2>2, RoomFacts
    DEF FindEmpty, Counts!FindEmpty, Counts!InFlight
  <2> QED
    BY <2>3 DEF Counts!Next, Counts!Request
<1>3. CASE CheckSize(r)
  <2>1. CASE currentSize < MaxSize
    <3>1. Goto(r, "creating") /\ pc[r] = "empty"
      BY <1>3, <2>1 DEF CheckSize
    <3>2. /\ At("empty") > 0 /\ At("empty")' = At("empty") - 1
          /\ At("creating")' = At("creating") + 1
          /\ At("leased")' = At("leased") /\ At("waiting")' = At("waiting")
      BY <1>0, <3>1, MoveFacts, StayFacts
    <3> QED
      BY <1>3, <2>1, <3>2
      DEF CheckSize, Counts!CheckSize, Counts!Next, Counts!Request
  <2>2. CASE ~(currentSize < MaxSize)
    <3>1. Goto(r, "waiting") /\ pc[r] = "empty"
      BY <1>3, <2>2 DEF CheckSize
    <3>2. /\ At("empty") > 0 /\ At("empty")' = At("empty") - 1
          /\ At("waiting")' = At("waiting") + 1
          /\ At("leased")' = At("leased") /\ At("creating")' = At("creating")
      BY <1>0, <3>1, MoveFacts, StayFacts
    <3> QED
      BY <1>3, <2>2, <3>2
      DEF CheckSize, Counts!CheckSize, Counts!Next, Counts!Request
  <2> QED
    BY <2>1, <2>2
<1>4. CASE Create(r)
  <2>1. Goto(r, "leased") /\ pc[r] = "creating"
    BY <1>4 DEF Create, Lease
  <2>2. /\ At("creating") > 0 /\ At("creating")' = At("creating") - 1
        /\ At("leased")' = At("leased") + 1
        /\ At("empty")' = At("empty") /\ At("waiting")' = At("waiting")
    BY <1>0, <2>1, MoveFacts, StayFacts
  <2> QED
    BY <1>4, <2>2 DEF Create, Counts!Create, Counts!Next, Counts!Request
<1>5. CASE CreateFails(r)
  <2>1. Goto(r, "waiting") /\ pc[r] = "creating"
    BY <1>5 DEF CreateFails
  <2>2. /\ At("creating") > 0 /\ At("creating")' = At("creating") - 1
        /\ At("waiting")' = At("waiting") + 1
        /\ At("empty")' = At("empty") /\ At("leased")' = At("leased")
    BY <1>0, <2>1, MoveFacts, StayFacts
  <2> QED
    BY <1>5, <2>2
    DEF CreateFails, Counts!CreateFails, Counts!Next, Counts!Request
<1>6. CASE WaitReceive(r)
  <2>1. Goto(r, "leased") /\ pc[r] = "waiting"
    BY <1>6 DEF WaitReceive, Lease
  <2>2. /\ At("waiting") > 0 /\ At("waiting")' = At("waiting") - 1
        /\ At("leased")' = At("leased") + 1
        /\ At("empty")' = At("empty") /\ At("creating")' = At("creating")
    BY <1>0, <2>1, MoveFacts, StayFacts
  <2> QED
    BY <1>0, <1>6, <2>2
    DEF WaitReceive, Counts!WaitReceive, Counts!Next, Counts!Request
<1>7. CASE WaitTimeout(r)
  <2>1. Goto(r, "idle") /\ pc[r] = "waiting"
    BY <1>7 DEF WaitTimeout
  <2>2. /\ At("waiting") > 0 /\ At("waiting")' = At("waiting") - 1
        /\ At("leased")' = At("leased") /\ At("empty")' = At("empty")
        /\ At("creating")' = At("creating")
    BY <1>0, <2>1, MoveFacts, StayFacts
  <2> QED
    BY <1>7, <2>2
    DEF WaitTimeout, Counts!WaitTimeout, Counts!Next, Counts!Request
<1>8. CASE CallDone(r) \/ StreamOpened(r)
  <2>1. /\ pc[r] = "leased"
        /\ Goto(r, "idle") \/ Goto(r, "streaming")
        /\ GiveBack(conn[r]) /\ UNCHANGED scalerVars
    BY <1>8 DEF CallDone, StreamOpened
  <2>2. /\ At("leased") > 0 /\ At("leased")' = At("leased") - 1
        /\ At("empty")' = At("empty") /\ At("creating")' = At("creating")
        /\ At("waiting")' = At("waiting")
    BY <1>0, <2>1, MoveFacts, StayFacts
  <2>3. conn[r] \in Conns
    BY <1>0, <2>1 DEF Placed, Held, Leaseholders, TypeOK
  <2>4. Counts!Return
    BY <1>0, <2>1, <2>2, <2>3 DEF GiveBack, Counts!Return
  <2> QED
    BY <2>4 DEF Counts!Next, Counts!Request
<1>9. CASE StreamDone(r)
  <2>1. Goto(r, "idle") /\ pc[r] = "streaming"
    BY <1>9 DEF StreamDone
  <2>2. /\ At("leased")' = At("leased") /\ At("empty")' = At("empty")
        /\ At("creating")' = At("creating") /\ At("waiting")' = At("waiting")
    BY <1>0, <2>1, StayFacts
  <2> QED
    BY <1>9, <2>2 DEF StreamDone, Counts!vars
<1> QED
  BY <1>1, <1>2, <1>3, <1>4, <1>5, <1>6, <1>7, <1>8, <1>9
  DEF Arrive, Obtain, Finish

(* autoScale moves no request.                                             *)
LEMMA ScalerRefinesCounts ==
  ASSUME PoolInv, AutoScale
  PROVE  Counts!Next
<1>0. /\ TypeOK /\ Len(queue) \in Nat
      /\ queue # <<>> => Len(queue) > 0 /\ Len(Tail(queue)) = Len(queue) - 1
      /\ queue = <<>> => Len(queue) = 0
      /\ \A c \in Conns : Len(Append(queue, c)) = Len(queue) + 1
  <2>1. TypeOK
    BY PlacedForm
  <2> QED
    BY <2>1 DEF TypeOK
<1>1. /\ At("empty")' = At("empty") /\ At("creating")' = At("creating")
      /\ At("waiting")' = At("waiting") /\ At("leased")' = At("leased")
  BY DEF AutoScale, Sample, Decide, BeginExpand, Expand, ExpandSkip, CountUp,
         BeginShrink, Shrink, CountDown, EndScale, At
<1>2. /\ HighUse <=> Counts!HighUse
      /\ LowUse <=> Counts!LowUse
      /\ Counts!StepSize(currentSize) = StepSize(currentSize)
  BY DEF HighUse, LowUse, StepSize, Counts!HighUse, Counts!LowUse, Counts!StepSize
<1>3. CASE Sample
  BY <1>1, <1>3 DEF Sample, Counts!Sample, Counts!Next, Counts!AutoScale
<1>4. CASE Decide
  BY <1>1, <1>2, <1>4 DEF Decide, Counts!Decide, Counts!Next, Counts!AutoScale
<1>5. CASE BeginExpand
  BY <1>1, <1>2, <1>5
  DEF BeginExpand, Counts!BeginExpand, Counts!Next, Counts!AutoScale
<1>6. CASE Expand
  BY <1>0, <1>1, <1>6 DEF Expand, Counts!Expand, Counts!Next, Counts!AutoScale
<1>7. CASE ExpandSkip
  BY <1>1, <1>7
  DEF ExpandSkip, Counts!ExpandSkip, Counts!Next, Counts!AutoScale
<1>8. CASE CountUp
  BY <1>1, <1>8 DEF CountUp, Counts!CountUp, Counts!Next, Counts!AutoScale
<1>9. CASE BeginShrink
  BY <1>1, <1>2, <1>9
  DEF BeginShrink, Counts!BeginShrink, Counts!Next, Counts!AutoScale
<1>10. CASE Shrink
  BY <1>0, <1>1, <1>10 DEF Shrink, Counts!Shrink, Counts!Next, Counts!AutoScale
<1>11. CASE CountDown
  BY <1>1, <1>11 DEF CountDown, Counts!CountDown, Counts!Next, Counts!AutoScale
<1>12. CASE EndScale
  BY <1>0, <1>1, <1>12
  DEF EndScale, Counts!EndScale, Counts!Next, Counts!AutoScale
<1> QED
  BY <1>3, <1>4, <1>5, <1>6, <1>7, <1>8, <1>9, <1>10, <1>11, <1>12
  DEF AutoScale

(* Without the identities the pool is its accounting: what PoolCounts      *)
(* promises of the numbers holds of the pool, for every size of both.      *)
THEOREM PoolImplementsCounts == Spec => ImplementsCounts
<1>1. Init => Counts!Init
  <2> SUFFICES ASSUME Init PROVE Counts!Init
    OBVIOUS
  <2>1. ASSUME NEW s, s # "idle" PROVE At(s) = 0
    <3>1. Standing(s) = {}
      BY <2>1 DEF Init, Standing
    <3> QED
      BY <3>1, AtFacts, FS_EmptySet
  <2>2. PICK k \in 0 .. MinSize :
          /\ k = MinSize \/ CreateMayFail
          /\ queue \in [1 .. k -> Conns]
          /\ currentSize = k
    BY DEF Init
  <2>3. Len(queue) = k
    BY <2>2, SizesAssumption
  <2> QED
    BY <2>1, <2>2, <2>3 DEF Init, Counts!Init
<1>2. PoolInv /\ [Next]_vars => [Counts!Next]_(Counts!vars)
  <2>1. UNCHANGED vars => UNCHANGED Counts!vars
    BY DEF vars, Counts!vars, At
  <2> QED
    BY <2>1, RequestCounts, ScalerRefinesCounts DEF Next
<1> QED
  BY <1>1, <1>2, PoolInvariant, PTL DEF Spec, ImplementsCounts, Counts!Spec

-----------------------------------------------------------------------------
(* What is proved of the accounting, brought back to the pool: the module  *)
(* of its proofs is taken with the same substitution as Counts.            *)
Accounting == INSTANCE PoolCountsProofs WITH
  MaxRequests <- Cardinality(Requests),
  queued <- Len(queue),
  empty <- At("empty"),
  creating <- At("creating"),
  waiting <- At("waiting"),
  leased <- At("leased")

LEMMA RequestsCountable == Cardinality(Requests) \in Nat
  BY RequestsAssumption, FS_CardinalityType

(* The accounting is the same, by whichever of the two names it goes.      *)
LEMMA SameStep == Counts!Next <=> Accounting!Next
  BY
  DEF Counts!Next, Accounting!Next, Counts!Request, Accounting!Request,
      Counts!AutoScale, Accounting!AutoScale, Counts!GetPooled,
      Accounting!GetPooled, Counts!FindEmpty, Accounting!FindEmpty,
      Counts!CheckSize, Accounting!CheckSize, Counts!Create,
      Accounting!Create, Counts!CreateFails, Accounting!CreateFails,
      Counts!WaitReceive, Accounting!WaitReceive, Counts!WaitTimeout,
      Accounting!WaitTimeout, Counts!Return, Accounting!Return,
      Counts!Sample, Accounting!Sample, Counts!Decide, Accounting!Decide,
      Counts!BeginExpand, Accounting!BeginExpand, Counts!Expand,
      Accounting!Expand, Counts!ExpandSkip, Accounting!ExpandSkip,
      Counts!CountUp, Accounting!CountUp, Counts!BeginShrink,
      Accounting!BeginShrink, Counts!Shrink, Accounting!Shrink,
      Counts!CountDown, Accounting!CountDown, Counts!EndScale,
      Accounting!EndScale, Counts!InFlight, Accounting!InFlight,
      Counts!HighUse, Accounting!HighUse, Counts!LowUse, Accounting!LowUse,
      Counts!StepSize, Accounting!StepSize, Counts!requestVars,
      Accounting!requestVars, Counts!scalerVars, Accounting!scalerVars

LEMMA SameSpec == Counts!Spec => Accounting!Spec
<1>1. Counts!Init => Accounting!Init
  BY DEF Counts!Init, Accounting!Init
<1>2. [Counts!Next]_(Counts!vars) => [Accounting!Next]_(Accounting!vars)
  BY SameStep DEF Counts!vars, Accounting!vars, Counts!scalerVars,
     Accounting!scalerVars
<1> QED
  BY <1>1, <1>2, PTL DEF Counts!Spec, Accounting!Spec

(* For any sets of requests and connections and any sizes, the count       *)
(* covers the connections that exist.                                      *)
THEOREM PoolCountCovers == Spec => []CountCoversLive
<1>1. Accounting!Spec => []Accounting!CountCoversLive
  BY Accounting!CountCovers, RequestsCountable, SizesAssumption
<1>2. Accounting!CountCoversLive => CountCoversLive
  BY DEF CountCoversLive, Accounting!CountCoversLive, Counts!CountCoversLive,
         Accounting!Live, Counts!Live, Accounting!Counted, Counts!Counted
<1> QED
  BY <1>1, <1>2, SameSpec, PoolImplementsCounts, PTL DEF ImplementsCounts

(* For any sets of requests and connections and any sizes, the count       *)
(* exceeds maxSize by no more than the requests and one round of scaling.  *)
THEOREM PoolCountBounded == Spec => []CountBound
<1>1. Accounting!Spec => []Accounting!CountBound
  BY Accounting!CountBounded, RequestsCountable, SizesAssumption
<1>2. Accounting!CountBound => CountBound
  BY DEF CountBound, Accounting!CountBound, Counts!CountBound,
         Accounting!StepSize, Counts!StepSize
<1> QED
  BY <1>1, <1>2, SameSpec, PoolImplementsCounts, PTL DEF ImplementsCounts

(* A pool without a connection whose count says that it is full never has  *)
(* one again.                                                              *)
THEOREM PoolDeathIsFinal == Spec => Counts!DeadForGood
<1>1. Accounting!Spec => Accounting!DeadForGood
  BY Accounting!DeathIsFinal, RequestsCountable, SizesAssumption
<1>2. Counts!Dead <=> Accounting!Dead
  BY DEF Accounting!Dead, Counts!Dead, Accounting!Live, Counts!Live
<1>3. (Counts!Dead <=> Accounting!Dead)'
  BY DEF Accounting!Dead, Counts!Dead, Accounting!Live, Counts!Live
<1>4. UNCHANGED Accounting!vars <=> UNCHANGED Counts!vars
  BY DEF Counts!vars, Accounting!vars, Counts!scalerVars, Accounting!scalerVars
<1> QED
  BY <1>1, <1>2, <1>3, <1>4, SameSpec, PoolImplementsCounts, PTL
  DEF ImplementsCounts, Counts!DeadForGood, Accounting!DeadForGood
=============================================================================
