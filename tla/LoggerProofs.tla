---------------------------- MODULE LoggerProofs ----------------------------
(***************************************************************************)
(* Proofs about the counters and the writer of the Logger middleware, for  *)
(* any number of requests, resets and lines of the log package.            *)
(***************************************************************************)
EXTENDS Logger, FiniteSetTheorems, SequenceTheorems, TLAPS

\* A request is inside the section of logMutex.
Inside == {"copy", "count", "flush", "forget", "unlock"}

(* logMutex keeps the requests apart, whatever the log package does.       *)
MutexInv == \A r \in Requests : pc[r] \in Inside <=> holder = r

(* The lines counted are of requests that have counted theirs and of the   *)
(* log package; what Flush has written is among them when it forgets it.   *)
Through == {r \in Requests : pc[r] \in {"flush", "forget", "unlock", "done"}}
StdThrough == IF std = "count" THEN stdLines - 1 ELSE stdLines

FillInv ==
  /\ std = "count" => stdLines >= 1
  /\ n <= Cardinality(Through) + StdThrough
  /\ \A r \in Requests : pc[r] = "forget" => wrote <= n

(* What api holds, with the API requests whose second addition is to come, *)
(* is covered by total and the requests that the last reset divided.       *)
CoverInv ==
  \A w \in Windows :
    LET still == IF ticker[w] = "idle" THEN api[w] ELSE 0
    IN  still + Cardinality(Between(w)) <= total[w] + Cardinality(straddled[w])

(* Without LOG_FILE and without an error, all that is missing in the       *)
(* output is the line of the request that has logMutex, until its Flush.   *)
OwnLine(r) ==
  /\ pc[r] \in {"copy", "count"} => n = 0 /\ order = Append(out, r)
  /\ pc[r] = "flush" => n = 1 /\ order = Append(out, r)
  /\ pc[r] \in {"count", "flush"} => buf[1] = r
  /\ pc[r] = "forget" => n = 1 /\ wrote = 1 /\ out = order
  /\ pc[r] = "unlock" => n = 0 /\ out = order

LinesInv ==
  ~logFile =>
    /\ std = "idle"
    /\ IsPrefix(out, order)
    /\ \A r \in Requests : pc[r] \in Inside \cup {"done"} => r \in ToSet(order)
    /\ ~failed => /\ holder = Free => n = 0 /\ out = order
                  /\ holder # Free => OwnLine(holder)

BaseInv == TypeOK /\ MutexInv /\ FillInv

\* The steps of IncrementCounter.
Addition(r) == AddTotalMinute(r) \/ AddTotalSecond(r) \/ AddAPIMinute(r) \/ AddAPISecond(r)

USE DEF counters, health, writer, others, Goto

-----------------------------------------------------------------------------
(***************************************************************************)
(* The types, and what bufio.Writer holds.                                 *)
(***************************************************************************)
(* A request that is not through makes room for its line.                  *)
LEMMA ThroughCounts ==
  /\ IsFiniteSet(Through) /\ Cardinality(Through) \in Nat
  /\ Cardinality(Requests) \in Nat
  /\ Cardinality(Through) <= Cardinality(Requests)
  /\ \A r \in Requests \ Through :
       /\ Cardinality(Through \cup {r}) = Cardinality(Through) + 1
       /\ Cardinality(Through) + 1 <= Cardinality(Requests)
<1>1. Through \subseteq Requests /\ IsFiniteSet(Requests)
  BY LoggerAssumption DEF Through
<1>2. IsFiniteSet(Through) /\ Cardinality(Through) <= Cardinality(Requests)
  BY <1>1, FS_Subset
<1>3. Cardinality(Through) \in Nat /\ Cardinality(Requests) \in Nat
  BY <1>1, <1>2, FS_CardinalityType
<1>4. ASSUME NEW r \in Requests \ Through
      PROVE  /\ Cardinality(Through \cup {r}) = Cardinality(Through) + 1
             /\ Cardinality(Through) + 1 <= Cardinality(Requests)
  <2>1. Cardinality(Through \cup {r}) = Cardinality(Through) + 1
    BY <1>2, FS_AddElement
  <2>2. Through \cup {r} \subseteq Requests
    BY <1>1
  <2>3. Cardinality(Through \cup {r}) <= Cardinality(Requests)
    BY <1>1, <2>2, FS_Subset
  <2> QED
    BY <2>1, <2>3
<1> QED
  BY <1>2, <1>3, <1>4

(* The sets of requests that are counted are finite.                       *)
LEMMA SetsAreFinite ==
  ASSUME TypeOK, NEW w \in Windows
  PROVE  /\ IsFiniteSet(Between(w)) /\ Cardinality(Between(w)) \in Nat
         /\ IsFiniteSet(straddled[w]) /\ Cardinality(straddled[w]) \in Nat
         /\ \A r : /\ Cardinality(Between(w) \cup {r}) \in Nat
                   /\ Cardinality(Between(w) \cup {r}) <= Cardinality(Between(w)) + 1
                   /\ r \in Between(w) =>
                        Cardinality(Between(w) \ {r}) = Cardinality(Between(w)) - 1
<1>1. Between(w) \subseteq Requests /\ straddled[w] \subseteq Requests /\ IsFiniteSet(Requests)
  BY LoggerAssumption DEF TypeOK, Between
<1>2. IsFiniteSet(Between(w)) /\ IsFiniteSet(straddled[w])
  BY <1>1, FS_Subset
<1>3. Cardinality(Between(w)) \in Nat /\ Cardinality(straddled[w]) \in Nat
  BY <1>2, FS_CardinalityType
<1>4. ASSUME NEW r
      PROVE  /\ Cardinality(Between(w) \cup {r}) \in Nat
             /\ Cardinality(Between(w) \cup {r}) <= Cardinality(Between(w)) + 1
             /\ r \in Between(w) => Cardinality(Between(w) \ {r}) = Cardinality(Between(w)) - 1
  <2>1. IsFiniteSet(Between(w) \cup {r})
    BY <1>2, FS_AddElement
  <2>2. Cardinality(Between(w) \cup {r}) \in Nat
    BY <2>1, FS_CardinalityType
  <2>3. Cardinality(Between(w) \cup {r}) =
          IF r \in Between(w) THEN Cardinality(Between(w)) ELSE Cardinality(Between(w)) + 1
    BY <1>2, FS_AddElement
  <2>4. r \in Between(w) => Cardinality(Between(w) \ {r}) = Cardinality(Between(w)) - 1
    BY <1>2, FS_RemoveElement
  <2> QED
    BY <1>3, <2>2, <2>3, <2>4
<1> QED
  BY <1>2, <1>3, <1>4

(* What HealthCheck has loaded, and how far it may be off, are numbers.    *)
LEMMA ReportTypes ==
  ASSUME TypeOK, NEW r \in Requests, NEW w \in Windows
  PROVE  /\ NoReport \in [total : [Windows -> Nat], api : [Windows -> Nat]]
         /\ Zero \in [Windows -> Nat]
         /\ MissedBy(r, w) => slack' \in [Requests -> [Windows -> Nat]]
         /\ LoadTotal(r, w) \/ LoadAPI(r, w) =>
              /\ report' \in [Requests -> [total : [Windows -> Nat], api : [Windows -> Nat]]]
              /\ slack' \in [Requests -> [Windows -> Nat]]
<1>1. /\ report \in [Requests -> [total : [Windows -> Nat], api : [Windows -> Nat]]]
      /\ slack \in [Requests -> [Windows -> Nat]]
      /\ total[w] \in Nat /\ api[w] \in Nat
      /\ Cardinality(straddled[w]) \in Nat
  BY SetsAreFinite DEF TypeOK
<1>2. Zero \in [Windows -> Nat]
  BY DEF Zero
<1>3. NoReport \in [total : [Windows -> Nat], api : [Windows -> Nat]]
  BY <1>2 DEF NoReport
<1>4. ASSUME MissedBy(r, w) PROVE slack' \in [Requests -> [Windows -> Nat]]
  BY <1>1, <1>4 DEF MissedBy
<1>5. ASSUME LoadTotal(r, w) PROVE slack' \in [Requests -> [Windows -> Nat]]
  <2>1. Cardinality(straddled[w]) + (IF ticker[w] = "api" THEN api[w] ELSE 0) \in Nat
    BY <1>1
  <2> QED
    BY <1>1, <1>5, <2>1 DEF LoadTotal
<1>6. ASSUME LoadTotal(r, w) \/ LoadAPI(r, w)
      PROVE  report' \in [Requests -> [total : [Windows -> Nat], api : [Windows -> Nat]]]
  <2>1. CASE LoadTotal(r, w)
    BY <1>1, <2>1 DEF LoadTotal
  <2>2. CASE LoadAPI(r, w)
    BY <1>1, <2>2 DEF LoadAPI
  <2> QED
    BY <1>6, <2>1, <2>2
<1>7. LoadAPI(r, w) => slack' = slack
  BY DEF LoadAPI
<1> QED
  BY <1>1, <1>2, <1>3, <1>4, <1>5, <1>6, <1>7

(* The middleware starts with empty counters and an empty writer.          *)
LEMMA InitBase == Init => BaseInv
<1> SUFFICES ASSUME Init PROVE BaseInv
  OBVIOUS
<1>1. Through = {} /\ StdThrough = 0
  BY DEF Init, Through, StdThrough
<1>2. Capacity \in Nat /\ Blank \in Lines
  BY ThroughCounts, LoggerAssumption DEF Capacity, Lines
<1>3. TypeOK
  <2>1. /\ total \in [Windows -> Nat] /\ api \in [Windows -> Nat]
        /\ ticker \in [Windows -> {"idle", "api"}]
        /\ straddled \in [Windows -> SUBSET API]
        /\ report \in [Requests -> [total : [Windows -> Nat], api : [Windows -> Nat]]]
        /\ slack \in [Requests -> [Windows -> Nat]]
    BY DEF Init, Zero, NoReport
  <2>2. /\ ticks \in 0 .. MaxTicks /\ stdLines \in 0 .. MaxStd
        /\ n \in 0 .. Capacity /\ wrote \in 0 .. Capacity
    BY <1>2, LoggerAssumption DEF Init
  <2>3. /\ buf \in [1 .. Capacity -> Lines]
        /\ out \in Seq(Lines) /\ order \in Seq(Requests)
    BY <1>2 DEF Init
  <2>4. /\ pc \in [Requests -> {"totalMinute"}]
        /\ \A r \in Requests : pc[r] = "totalMinute"
    BY DEF Init
  <2> QED
    BY <2>1, <2>2, <2>3, <2>4 DEF Init, TypeOK
<1>4. MutexInv
  BY LoggerAssumption DEF Init, MutexInv, Inside
<1>5. FillInv
  BY <1>1, FS_EmptySet DEF Init, FillInv
<1> QED
  BY <1>3, <1>4, <1>5 DEF BaseInv

(* The counting steps leave the writer alone.                              *)
LEMMA CountersBase ==
  ASSUME BaseInv,
         \/ \E r \in Requests : Addition(r) \/ HealthCheck(r)
         \/ \E w \in Windows : Reset(w)
         \/ UNCHANGED vars
  PROVE  BaseInv'
<1>1. CASE UNCHANGED vars
  BY <1>1 DEF vars, BaseInv, TypeOK, MutexInv, FillInv, Through, StdThrough
<1>2. ASSUME NEW w \in Windows, Reset(w) PROVE BaseInv'
  <2>1. UNCHANGED <<health, pc, writer, others>>
    BY <1>2 DEF Reset
  <2>2. /\ total' \in [Windows -> Nat] /\ api' \in [Windows -> Nat]
        /\ ticker' \in [Windows -> {"idle", "api"}]
        /\ ticks' \in 0 .. MaxTicks
    <3>1. /\ total \in [Windows -> Nat] /\ api \in [Windows -> Nat]
          /\ ticker \in [Windows -> {"idle", "api"}] /\ ticks \in 0 .. MaxTicks
          /\ MaxTicks \in Nat
      BY LoggerAssumption DEF BaseInv, TypeOK
    <3>2. /\ total' = total \/ total' = [total EXCEPT ![w] = 0]
          /\ api' = api \/ api' = [api EXCEPT ![w] = 0]
          /\ \/ ticker' = [ticker EXCEPT ![w] = "api"]
             \/ ticker' = [ticker EXCEPT ![w] = "idle"]
          /\ ticks' = ticks \/ (ticks < MaxTicks /\ ticks' = ticks + 1)
      BY <1>2 DEF Reset
    <3>3. ticks' \in 0 .. MaxTicks
      BY <3>1, <3>2
    <3> QED
      BY <3>1, <3>2, <3>3
  <2>3. straddled' \in [Windows -> SUBSET API]
    <3>1. Between(w) \in SUBSET API
      BY DEF Between
    <3> QED
      BY <1>2, <3>1 DEF Reset, BaseInv, TypeOK
  <2> QED
    BY <2>1, <2>2, <2>3 DEF BaseInv, TypeOK, MutexInv, FillInv, Through, StdThrough
<1>3. ASSUME NEW r \in Requests, Addition(r) \/ HealthCheck(r)
      PROVE  BaseInv'
  <2>1. UNCHANGED <<ticker, ticks, straddled, writer, others>>
    BY <1>3 DEF Addition, AddTotalMinute, AddTotalSecond, AddAPIMinute, AddAPISecond, HealthCheck
  <2>2. total' \in [Windows -> Nat] /\ api' \in [Windows -> Nat]
    <3>1. /\ total \in [Windows -> Nat] /\ api \in [Windows -> Nat]
          /\ "minute" \in Windows /\ "second" \in Windows
      BY DEF BaseInv, TypeOK, Windows
    <3>2. \/ UNCHANGED <<total, api>>
          \/ \E w \in Windows : total' = [total EXCEPT ![w] = @ + 1] /\ api' = api
          \/ \E w \in Windows : api' = [api EXCEPT ![w] = @ + 1] /\ total' = total
      BY <1>3, <3>1 DEF Addition, AddTotalMinute, AddTotalSecond, AddAPIMinute, AddAPISecond,
                        HealthCheck
    <3> QED
      BY <3>1, <3>2
  <2>3. /\ report' \in [Requests -> [total : [Windows -> Nat], api : [Windows -> Nat]]]
        /\ slack' \in [Requests -> [Windows -> Nat]]
    <3>1. \/ UNCHANGED health
          \/ \E w \in Windows : \/ MissedBy(r, w) /\ UNCHANGED report
                              \/ LoadTotal(r, w) \/ LoadAPI(r, w)
      BY <1>3 DEF Addition, AddTotalMinute, AddTotalSecond, AddAPIMinute, AddAPISecond,
                  HealthCheck, Windows
    <3> QED
      BY <3>1, ReportTypes DEF BaseInv, TypeOK
  <2>4. /\ pc[r] \in {"totalMinute", "totalSecond", "apiMinute", "apiSecond", "serve",
                      "loadTotalSecond", "loadAPIMinute", "loadAPISecond"}
        /\ \E l \in {"totalSecond", "apiMinute", "apiSecond", "serve",
                     "loadTotalSecond", "loadAPIMinute", "loadAPISecond", "answered"} :
             /\ pc' = [pc EXCEPT ![r] = l]
             /\ l \in {"apiMinute", "apiSecond"} => r \in API
    BY <1>3 DEF Addition, AddTotalMinute, AddTotalSecond, AddAPIMinute, AddAPISecond, HealthCheck,
                BaseInv, TypeOK
  <2>5. TypeOK'
    <3>1. /\ pc' \in [Requests -> {"totalMinute", "totalSecond", "apiMinute", "apiSecond", "serve",
                                   "loadTotalSecond", "loadAPIMinute", "loadAPISecond", "answered",
                                   "copy", "count", "flush", "forget", "unlock", "done"}]
          /\ \A q \in Requests : pc'[q] \in {"apiMinute", "apiSecond"} => q \in API
      BY <2>4 DEF BaseInv, TypeOK
    <3> QED
      BY <2>1, <2>2, <2>3, <3>1 DEF BaseInv, TypeOK
  <2>6. MutexInv'
    BY <2>1, <2>4 DEF BaseInv, TypeOK, MutexInv, Inside
  <2>7. Through' = Through
    BY <2>4 DEF BaseInv, TypeOK, Through
  <2>8. \A q \in Requests : pc'[q] = "forget" => pc[q] = "forget"
    BY <2>4 DEF BaseInv, TypeOK
  <2> QED
    BY <2>1, <2>5, <2>6, <2>7, <2>8 DEF BaseInv, FillInv, StdThrough
<1> QED
  BY <1>1, <1>2, <1>3

(* The steps of a request at the writer.                                   *)
LEMMA WriterBase ==
  ASSUME BaseInv, NEW r \in Requests,
         Lock(r) \/ Copy(r) \/ Count(r) \/ Flush(r) \/ Forget(r) \/ Unlock(r)
  PROVE  BaseInv'
<1> USE DEF BaseInv
<1>0. /\ r \in Lines /\ \A q \in Requests : q # Free
      /\ Capacity = Cardinality(Requests) + MaxStd /\ MaxStd \in Nat
      /\ StdThrough \in 0 .. MaxStd
  <2>1. stdLines \in 0 .. MaxStd /\ (std = "count" => stdLines >= 1)
    BY DEF TypeOK, FillInv
  <2> QED
    BY <2>1, LoggerAssumption DEF Lines, Capacity, StdThrough
<1>1. CASE Lock(r)
  <2>1. TypeOK'
    <3>1. /\ NoReport \in [total : [Windows -> Nat], api : [Windows -> Nat]]
          /\ Zero \in [Windows -> Nat]
      BY ReportTypes DEF Windows
    <3> QED
      BY <1>1, <3>1 DEF Lock, TypeOK
  <2>2. MutexInv'
    BY <1>0, <1>1 DEF Lock, TypeOK, MutexInv, Inside
  <2>3. Through' = Through
    BY <1>1 DEF Lock, TypeOK, Through
  <2>4. FillInv'
    BY <1>1, <2>3 DEF Lock, TypeOK, FillInv, StdThrough
  <2> QED
    BY <2>1, <2>2, <2>4
<1>2. CASE Copy(r)
  <2>1. buf' \in [1 .. Capacity -> Lines]
    BY <1>0, <1>2 DEF Copy, Copied, TypeOK
  <2>2. TypeOK'
    BY <1>2, <2>1 DEF Copy, TypeOK
  <2>3. MutexInv'
    BY <1>2 DEF Copy, TypeOK, MutexInv, Inside
  <2>4. Through' = Through
    BY <1>2 DEF Copy, TypeOK, Through
  <2>5. FillInv'
    BY <1>2, <2>4 DEF Copy, TypeOK, FillInv, StdThrough
  <2> QED
    BY <2>2, <2>3, <2>5
<1>3. CASE Count(r)
  <2>1. r \notin Through /\ Through' = Through \cup {r}
    BY <1>3 DEF Count, TypeOK, Through
  <2>2. n' \in {n, n + 1} /\ n \in Nat
    BY <1>3 DEF Count, Counted, TypeOK
  <2>3. n' <= Cardinality(Through') + StdThrough
    BY <1>0, <2>1, <2>2, ThroughCounts DEF FillInv
  <2>4. Cardinality(Through') <= Cardinality(Requests) /\ Cardinality(Through') \in Nat
    BY <2>1, ThroughCounts
  <2>5. n' \in 0 .. Capacity
    BY <1>0, <2>2, <2>3, <2>4, ThroughCounts
  <2>6. TypeOK'
    BY <1>3, <2>5 DEF Count, TypeOK
  <2>7. MutexInv'
    BY <1>3 DEF Count, TypeOK, MutexInv, Inside
  <2>8. \A q \in Requests : pc'[q] # "forget"
    BY <1>3 DEF Count, TypeOK, MutexInv, Inside
  <2>9. FillInv'
    BY <1>3, <2>3, <2>8 DEF Count, FillInv, StdThrough
  <2> QED
    BY <2>6, <2>7, <2>9
<1>4. CASE Flush(r)
  <2>1. out' \in Seq(Lines) /\ wrote' \in 0 .. Capacity /\ wrote' <= n /\ failed' \in BOOLEAN
    <3>1. SubSeq(buf, 1, n) \in Seq(Lines)
      <4>1. buf \in [1 .. Capacity -> Lines] /\ n \in 0 .. Capacity /\ Capacity \in Nat
        BY <1>0, ThroughCounts DEF TypeOK
      <4>2. buf \in Seq(Lines) /\ Len(buf) = Capacity
        BY <4>1
      <4>3. \A i \in 1 .. n : buf[i] \in Lines
        BY <4>1
      <4> QED
        BY <4>1, <4>2, <4>3
    <3> QED
      <4>1. 0 \in 0 .. Capacity /\ n \in 0 .. Capacity /\ 0 <= n /\ n <= n
        BY <1>0, ThroughCounts DEF TypeOK
      <4>2. CASE out' = out /\ wrote' = 0 /\ failed' = TRUE
        BY <4>1, <4>2 DEF TypeOK
      <4>3. CASE out' = out \o SubSeq(buf, 1, n) /\ wrote' = n /\ failed' = failed
        <5>1. out' \in Seq(Lines)
          BY <3>1, <4>3 DEF TypeOK
        <5> QED
          BY <4>1, <4>3, <5>1 DEF TypeOK
      <4> QED
        BY <1>4, <4>2, <4>3 DEF Flush
  <2>2. TypeOK'
    BY <1>4, <2>1 DEF Flush, TypeOK
  <2>3. MutexInv'
    BY <1>4 DEF Flush, TypeOK, MutexInv, Inside
  <2>4. Through' = Through
    BY <1>4 DEF Flush, TypeOK, Through
  <2>5. FillInv'
    BY <1>4, <2>1, <2>4 DEF Flush, FillInv, StdThrough
  <2> QED
    BY <2>2, <2>3, <2>5
<1>5. CASE Forget(r)
  <2>1. wrote <= n /\ wrote \in Nat /\ n \in 0 .. Capacity
    BY <1>5 DEF Forget, FillInv, TypeOK
  <2>2. n' \in 0 .. Capacity /\ n' <= n /\ failed' \in BOOLEAN
    BY <1>0, <1>5, <2>1, ThroughCounts DEF Forget, TypeOK
  <2>3. buf' \in [1 .. Capacity -> Lines]
    <3>1. buf' = [i \in 1 .. Capacity |->
                    IF failed' /\ i + wrote <= n THEN buf[i + wrote] ELSE buf[i]]
      BY <1>5 DEF Forget
    <3>2. \A i \in 1 .. Capacity : i + wrote <= n => i + wrote \in 1 .. Capacity
      BY <1>0, <2>1, ThroughCounts
    <3> QED
      BY <3>1, <3>2 DEF TypeOK
  <2>4. TypeOK'
    BY <1>5, <2>2, <2>3 DEF Forget, TypeOK
  <2>5. MutexInv'
    BY <1>5 DEF Forget, TypeOK, MutexInv, Inside
  <2>6. Through' = Through
    BY <1>5 DEF Forget, TypeOK, Through
  <2>7. n' <= Cardinality(Through') + StdThrough
    BY <1>0, <2>1, <2>2, <2>6, ThroughCounts DEF FillInv
  <2>8. \A q \in Requests : pc'[q] # "forget"
    BY <1>5 DEF Forget, TypeOK, MutexInv, Inside
  <2>9. FillInv'
    BY <1>5, <2>7, <2>8 DEF Forget, FillInv, StdThrough
  <2> QED
    BY <2>4, <2>5, <2>9
<1>6. CASE Unlock(r)
  <2>1. TypeOK'
    BY <1>6 DEF Unlock, TypeOK
  <2>2. MutexInv'
    BY <1>0, <1>6, LoggerAssumption DEF Unlock, TypeOK, MutexInv, Inside
  <2>3. Through' = Through
    BY <1>6 DEF Unlock, TypeOK, Through
  <2>4. FillInv'
    BY <1>6, <2>3 DEF Unlock, TypeOK, FillInv, StdThrough
  <2> QED
    BY <2>1, <2>2, <2>4
<1> QED
  BY <1>1, <1>2, <1>3, <1>4, <1>5, <1>6

(* The steps of the log package.                                           *)
LEMMA StdBase ==
  ASSUME BaseInv, StdCopy \/ StdCount
  PROVE  BaseInv'
<1> USE DEF BaseInv
<1>0. /\ Capacity = Cardinality(Requests) + MaxStd /\ MaxStd \in Nat
      /\ stdLines \in 0 .. MaxStd
      /\ n \in 0 .. Capacity
      /\ StdLine \in Lines
  BY LoggerAssumption DEF Capacity, TypeOK, Lines
<1>1. CASE StdCopy
  <2> DEFINE copy == [buf EXCEPT ![n + 1] = StdLine]
  <2>a. copy \in [1 .. Capacity -> Lines]
    BY <1>0 DEF TypeOK
  <2>b. buf' = buf \/ buf' = copy
    BY <1>1 DEF StdCopy, Copied
  <2> HIDE DEF copy
  <2>c. buf' \in [1 .. Capacity -> Lines] /\ stdLines' \in 0 .. MaxStd
    BY <1>0, <1>1, <2>a, <2>b DEF StdCopy, TypeOK
  <2>1. TypeOK'
    BY <1>1, <2>c DEF StdCopy, TypeOK
  <2>2. MutexInv'
    BY <1>1 DEF StdCopy, MutexInv
  <2>3. Through' = Through /\ StdThrough' = StdThrough
    BY <1>0, <1>1 DEF StdCopy, Through, StdThrough
  <2>4. FillInv'
    BY <1>0, <1>1, <2>3 DEF StdCopy, FillInv
  <2> QED
    BY <2>1, <2>2, <2>4
<1>2. CASE StdCount
  <2>1. /\ Through' = Through /\ StdThrough' = StdThrough + 1
        /\ StdThrough \in Nat /\ StdThrough + 1 <= MaxStd
    BY <1>0, <1>2 DEF StdCount, Through, StdThrough, FillInv
  <2>2. n' \in {n, n + 1}
    BY <1>2 DEF StdCount, Counted
  <2>3. n' <= Cardinality(Through) + StdThrough'
    BY <1>0, <2>1, <2>2, ThroughCounts DEF FillInv
  <2>4. n' \in 0 .. Capacity
    BY <1>0, <2>1, <2>2, <2>3, ThroughCounts
  <2>5. TypeOK'
    BY <1>2, <2>4 DEF StdCount, TypeOK
  <2>6. MutexInv'
    BY <1>2 DEF StdCount, MutexInv
  <2>7. FillInv'
    BY <1>0, <1>2, <2>1, <2>2, <2>3 DEF StdCount, FillInv, TypeOK
  <2> QED
    BY <2>5, <2>6, <2>7
<1> QED
  BY <1>1, <1>2

(* Every step keeps the types, the mutual exclusion and the filling.       *)
LEMMA BaseStep == BaseInv /\ [Next]_vars => BaseInv'
  BY CountersBase, WriterBase, StdBase DEF Next, Addition

(* The types of the counters and of the writer, among them that there is   *)
(* room for every line in its memory.                                      *)
THEOREM LoggerTypeCorrect == Spec => []TypeOK
<1>1. BaseInv => TypeOK
  BY DEF BaseInv
<1> QED
  BY <1>1, InitBase, BaseStep, PTL DEF Spec

-----------------------------------------------------------------------------
(***************************************************************************)
(* The counters.                                                           *)
(***************************************************************************)
(* Who is between its two additions after the first and the second.        *)
LEMMA BetweenMoves ==
  ASSUME TypeOK, NEW r \in Requests, NEW w \in Windows
  PROVE  /\ \/ AddTotalMinute(r) /\ w = "minute"
            \/ AddTotalSecond(r) /\ w = "second"
            => /\ Between(w)' = Between(w) \/ Between(w)' = Between(w) \cup {r}
               /\ r \notin API => Between(w)' = Between(w)
         /\ \/ AddAPIMinute(r) /\ w = "minute"
            \/ AddAPISecond(r) /\ w = "second"
            => r \in Between(w) /\ Between(w)' = Between(w) \ {r}
<1>0. pc = [q \in Requests |-> pc[q]] /\ (pc[r] \in {"apiMinute", "apiSecond"} => r \in API)
  BY DEF TypeOK
<1>1. CASE AddTotalMinute(r) /\ w = "minute"
  <2>1. UNCHANGED API /\ pc[r] = "totalMinute" /\ pc' = [pc EXCEPT ![r] = "totalSecond"]
    BY <1>1 DEF AddTotalMinute
  <2>2. Between(w)' = IF r \in API THEN Between(w) \cup {r} ELSE Between(w)
    BY <1>0, <1>1, <2>1 DEF Between
  <2> QED
    BY <1>1, <2>1, <2>2 DEF AddAPIMinute
<1>2. CASE AddTotalSecond(r) /\ w = "second"
  <2>1. /\ UNCHANGED API /\ pc[r] = "totalSecond"
        /\ pc' = [pc EXCEPT ![r] = IF r \in API THEN "apiMinute" ELSE "serve"]
    BY <1>2 DEF AddTotalSecond
  <2>2. Between(w)' = IF r \in API THEN Between(w) \cup {r} ELSE Between(w)
    BY <1>0, <1>2, <2>1 DEF Between
  <2> QED
    BY <1>2, <2>1, <2>2 DEF AddAPISecond
<1>3. CASE AddAPIMinute(r) /\ w = "minute"
  <2>1. UNCHANGED API /\ pc[r] = "apiMinute" /\ pc' = [pc EXCEPT ![r] = "apiSecond"]
    BY <1>3 DEF AddAPIMinute
  <2>2. r \in Between(w) /\ Between(w)' = Between(w) \ {r}
    BY <1>0, <1>3, <2>1 DEF Between
  <2> QED
    BY <1>3, <2>1, <2>2 DEF AddTotalMinute
<1>4. CASE AddAPISecond(r) /\ w = "second"
  <2>1. UNCHANGED API /\ pc[r] = "apiSecond" /\ pc' = [pc EXCEPT ![r] = "serve"]
    BY <1>4 DEF AddAPISecond
  <2>2. r \in Between(w) /\ Between(w)' = Between(w) \ {r}
    BY <1>0, <1>4, <2>1 DEF Between
  <2> QED
    BY <1>4, <2>1, <2>2 DEF AddTotalSecond
<1> QED
  BY <1>1, <1>2, <1>3, <1>4

(* An addition to total covers the request that is now between its two     *)
(* additions, and one to api takes it out of these.                        *)
LEMMA AdditionsCover ==
  ASSUME TypeOK, CoverInv, NEW r \in Requests,
         Addition(r)
  PROVE  CoverInv'
<1> SUFFICES ASSUME NEW w \in Windows
             PROVE  (IF ticker'[w] = "idle" THEN api'[w] ELSE 0) + Cardinality(Between(w)')
                      <= total'[w] + Cardinality(straddled'[w])
  BY DEF CoverInv
<1>1. /\ (IF ticker[w] = "idle" THEN api[w] ELSE 0) + Cardinality(Between(w))
           <= total[w] + Cardinality(straddled[w])
      /\ total[w] \in Nat /\ api[w] \in Nat
      /\ Cardinality(Between(w)) \in Nat /\ Cardinality(straddled[w]) \in Nat
  BY SetsAreFinite DEF CoverInv, TypeOK
<1>2. UNCHANGED <<ticker, straddled, API>> /\ w \in {"minute", "second"}
  BY DEF Addition, AddTotalMinute, AddTotalSecond, AddAPIMinute, AddAPISecond, Windows
<1>3. CASE \/ AddTotalMinute(r) /\ w = "minute"
           \/ AddTotalSecond(r) /\ w = "second"
  <2>1. total'[w] = total[w] + 1 /\ api' = api
    BY <1>3 DEF AddTotalMinute, AddTotalSecond, TypeOK
  <2>2. Between(w)' = Between(w) \/ Between(w)' = Between(w) \cup {r}
    BY <1>3, BetweenMoves
  <2>3. Cardinality(Between(w)') \in Nat /\ Cardinality(Between(w)') <= Cardinality(Between(w)) + 1
    <3>1. /\ Cardinality(Between(w) \cup {r}) \in Nat
          /\ Cardinality(Between(w) \cup {r}) <= Cardinality(Between(w)) + 1
      BY SetsAreFinite
    <3>2. CASE Between(w)' = Between(w)
      BY <1>1, <3>2
    <3>3. CASE Between(w)' = Between(w) \cup {r}
      BY <3>1, <3>3
    <3> QED
      BY <2>2, <3>2, <3>3
  <2> QED
    BY <1>1, <1>2, <2>1, <2>3
<1>4. CASE \/ AddAPIMinute(r) /\ w = "minute"
           \/ AddAPISecond(r) /\ w = "second"
  <2>1. api'[w] = api[w] + 1 /\ total' = total
    BY <1>4 DEF AddAPIMinute, AddAPISecond, TypeOK
  <2>2. r \in Between(w) /\ Between(w)' = Between(w) \ {r}
    BY <1>4, BetweenMoves
  <2>3. Cardinality(Between(w)') = Cardinality(Between(w)) - 1
    <3>1. Cardinality(Between(w) \ {r}) = Cardinality(Between(w)) - 1
      BY <2>2, SetsAreFinite
    <3> QED
      BY <2>2, <3>1
  <2> QED
    BY <1>1, <1>2, <2>1, <2>3
<1>5. CASE \/ AddTotalMinute(r) /\ w = "second"
           \/ AddTotalSecond(r) /\ w = "minute"
           \/ AddAPIMinute(r) /\ w = "second"
           \/ AddAPISecond(r) /\ w = "minute"
  <2>1. total'[w] = total[w] /\ api'[w] = api[w]
    BY <1>5 DEF AddTotalMinute, AddTotalSecond, AddAPIMinute, AddAPISecond, TypeOK
  <2>2. Between(w)' = Between(w)
    BY <1>5 DEF AddTotalMinute, AddTotalSecond, AddAPIMinute, AddAPISecond, TypeOK, Between
  <2> QED
    BY <1>1, <1>2, <2>1, <2>2
<1> QED
  BY <1>2, <1>3, <1>4, <1>5 DEF Addition

(* The first store of a reset remembers who is between, the second one     *)
(* empties what exceeds.                                                   *)
LEMMA ResetCovers ==
  ASSUME TypeOK, CoverInv, NEW v \in Windows, Reset(v)
  PROVE  CoverInv'
<1> SUFFICES ASSUME NEW w \in Windows
             PROVE  (IF ticker'[w] = "idle" THEN api'[w] ELSE 0) + Cardinality(Between(w)')
                      <= total'[w] + Cardinality(straddled'[w])
  BY DEF CoverInv
<1>1. /\ (IF ticker[w] = "idle" THEN api[w] ELSE 0) + Cardinality(Between(w))
           <= total[w] + Cardinality(straddled[w])
      /\ total[w] \in Nat /\ api[w] \in Nat
      /\ Cardinality(Between(w)) \in Nat /\ Cardinality(straddled[w]) \in Nat
  BY SetsAreFinite DEF CoverInv, TypeOK
<1>2. Between(w)' = Between(w)
  BY DEF Reset, Between
<1>3. CASE w # v
  <2>1. /\ total'[w] = total[w] /\ api'[w] = api[w]
        /\ straddled'[w] = straddled[w] /\ ticker'[w] = ticker[w]
    BY <1>3 DEF Reset, TypeOK
  <2> QED
    BY <1>1, <1>2, <2>1
<1>4. CASE w = v
  <2>1. \/ total'[w] = 0 /\ straddled'[w] = Between(w) /\ ticker'[w] = "api"
        \/ api'[w] = 0 /\ total' = total /\ straddled' = straddled
             /\ ticker[w] = "api" /\ ticker'[w] = "idle"
    BY <1>4 DEF Reset, TypeOK
  <2> QED
    BY <1>1, <1>2, <2>1
<1> QED
  BY <1>3, <1>4

(* Nothing else touches the counters or moves a request between additions. *)
LEMMA CoverStep == TypeOK /\ CoverInv /\ [Next]_vars => CoverInv'
<1> SUFFICES ASSUME TypeOK, CoverInv, [Next]_vars PROVE CoverInv'
  OBVIOUS
<1>1. CASE UNCHANGED vars \/ StdCopy \/ StdCount
  <2>1. UNCHANGED <<total, api, ticker, straddled, API, pc>>
    BY <1>1 DEF vars, StdCopy, StdCount
  <2> QED
    BY <2>1 DEF CoverInv, Between
<1>2. ASSUME NEW r \in Requests,
             \/ HealthCheck(r) \/ Lock(r)
             \/ Copy(r) \/ Count(r) \/ Flush(r) \/ Forget(r) \/ Unlock(r)
      PROVE  CoverInv'
  <2>1. UNCHANGED <<total, api, ticker, straddled, API>>
    BY <1>2 DEF HealthCheck, Lock, Copy, Count, Flush, Forget, Unlock
  <2>2. /\ pc[r] \notin {"totalSecond", "apiMinute", "apiSecond"}
        /\ \E l \in {"loadTotalSecond", "loadAPIMinute", "loadAPISecond", "answered",
                     "copy", "count", "flush", "forget", "unlock", "done"} :
             pc' = [pc EXCEPT ![r] = l]
    BY <1>2 DEF HealthCheck, Lock, Copy, Count, Flush, Forget, Unlock
  <2>3. \A w \in Windows : Between(w)' = Between(w)
    BY <2>1, <2>2 DEF Between, TypeOK
  <2> QED
    BY <2>1, <2>3 DEF CoverInv
<1> QED
  BY <1>1, <1>2, AdditionsCover, ResetCovers DEF Next, Addition

(* The requests that have loaded api too.                                  *)
Loaded(w) ==
  {r \in Requests : pc[r] \in (IF w = "minute" THEN {"loadAPISecond", "answered"}
                                               ELSE {"answered"})}

(* Between its two loads of a window, a HealthCheck is covered by what it  *)
(* has loaded from what it may still find in api; afterwards it has found  *)
(* no more than that.                                                      *)
ReportInv ==
  \A r \in Requests, w \in Windows :
    /\ r \in Loading(w) =>
         api[w] + Cardinality(Between(w)) <= report[r].total[w] + slack[r][w]
    /\ r \in Loaded(w) => report[r].api[w] <= report[r].total[w] + slack[r][w]

(* The numbers of which ReportInv speaks.                                  *)
LEMMA ReportNumbers ==
  ASSUME TypeOK, NEW r \in Requests, NEW w \in Windows
  PROVE  /\ total[w] \in Nat /\ api[w] \in Nat
         /\ report[r].total[w] \in Nat /\ report[r].api[w] \in Nat
         /\ slack[r][w] \in Nat
         /\ Cardinality(Between(w)) \in Nat
  BY SetsAreFinite DEF TypeOK

(* A request that adds to total is missed by those that are loading; one   *)
(* that adds to api was already counted as between its additions.          *)
LEMMA AdditionsReport ==
  ASSUME TypeOK, ReportInv, NEW r \in Requests, Addition(r)
  PROVE  ReportInv'
<1> SUFFICES ASSUME NEW q \in Requests, NEW w \in Windows
             PROVE  /\ q \in Loading(w)' =>
                         api'[w] + Cardinality(Between(w)') <= report'[q].total[w] + slack'[q][w]
                    /\ q \in Loaded(w)' =>
                         report'[q].api[w] <= report'[q].total[w] + slack'[q][w]
  BY DEF ReportInv
<1>1. UNCHANGED report /\ w \in {"minute", "second"}
  BY DEF Addition, AddTotalMinute, AddTotalSecond, AddAPIMinute, AddAPISecond, Windows
<1>2. /\ Loading(w)' = Loading(w) /\ r \notin Loading(w)
      /\ Loaded(w)' = Loaded(w) /\ r \notin Loaded(w)
  <2>1. /\ pc[r] \in {"totalMinute", "totalSecond", "apiMinute", "apiSecond"}
        /\ \E l \in {"totalSecond", "apiMinute", "apiSecond", "serve"} :
             pc' = [pc EXCEPT ![r] = l]
    BY DEF Addition, AddTotalMinute, AddTotalSecond, AddAPIMinute, AddAPISecond
  <2> QED
    BY <2>1 DEF Loading, Loaded, TypeOK
<1>3. ASSUME q \in Loading(w)
      PROVE  api[w] + Cardinality(Between(w)) <= report[q].total[w] + slack[q][w]
  BY <1>3 DEF ReportInv
<1>4. ASSUME q \in Loaded(w) PROVE report[q].api[w] <= report[q].total[w] + slack[q][w]
  BY <1>4 DEF ReportInv
<1>5. /\ api[w] \in Nat /\ report[q].total[w] \in Nat /\ report[q].api[w] \in Nat
      /\ slack[q][w] \in Nat /\ Cardinality(Between(w)) \in Nat
  BY ReportNumbers
<1>6. slack'[q][w] \in {slack[q][w], slack[q][w] + 1}
  BY DEF Addition, AddTotalMinute, AddTotalSecond, AddAPIMinute, AddAPISecond, MissedBy,
         TypeOK
<1>7. ASSUME q \in Loading(w)'
      PROVE  api'[w] + Cardinality(Between(w)') <= report[q].total[w] + slack'[q][w]
  <2>0. q \in Loading(w)
    BY <1>2, <1>7
  <2>1. CASE \/ AddTotalMinute(r) /\ w = "minute"
             \/ AddTotalSecond(r) /\ w = "second"
    <3>1. api' = api /\ MissedBy(r, w)
      BY <2>1 DEF AddTotalMinute, AddTotalSecond
    <3>2. CASE r \in API
      <4>1. slack'[q][w] = slack[q][w] + 1
        BY <2>0, <3>1, <3>2 DEF MissedBy, TypeOK
      <4>2. Between(w)' = Between(w) \/ Between(w)' = Between(w) \cup {r}
        BY <2>1, BetweenMoves
      <4>3. Cardinality(Between(w)') \in Nat
            /\ Cardinality(Between(w)') <= Cardinality(Between(w)) + 1
        <5>1. /\ Cardinality(Between(w) \cup {r}) \in Nat
              /\ Cardinality(Between(w) \cup {r}) <= Cardinality(Between(w)) + 1
          BY SetsAreFinite
        <5>2. CASE Between(w)' = Between(w)
          BY <1>5, <5>2
        <5>3. CASE Between(w)' = Between(w) \cup {r}
          BY <5>1, <5>3
        <5> QED
          BY <4>2, <5>2, <5>3
      <4> QED
        BY <1>3, <1>5, <2>0, <3>1, <4>1, <4>3
    <3>3. CASE r \notin API
      <4>1. Between(w)' = Between(w)
        BY <2>1, <3>3, BetweenMoves
      <4> QED
        BY <1>3, <1>5, <1>6, <2>0, <3>1, <4>1
    <3> QED
      BY <3>2, <3>3
  <2>2. CASE \/ AddAPIMinute(r) /\ w = "minute"
             \/ AddAPISecond(r) /\ w = "second"
    <3>1. api'[w] = api[w] + 1
      BY <2>2 DEF AddAPIMinute, AddAPISecond, TypeOK
    <3>2. r \in Between(w) /\ Between(w)' = Between(w) \ {r}
      BY <2>2, BetweenMoves
    <3>3. Cardinality(Between(w) \ {r}) = Cardinality(Between(w)) - 1
      BY <3>2, SetsAreFinite
    <3>4. Cardinality(Between(w)') = Cardinality(Between(w)) - 1
      BY <3>2, <3>3
    <3> QED
      BY <1>3, <1>5, <1>6, <2>0, <3>1, <3>4
  <2>3. CASE \/ AddTotalMinute(r) /\ w = "second"
             \/ AddTotalSecond(r) /\ w = "minute"
             \/ AddAPIMinute(r) /\ w = "second"
             \/ AddAPISecond(r) /\ w = "minute"
    <3>1. api'[w] = api[w]
      BY <2>3 DEF AddTotalMinute, AddTotalSecond, AddAPIMinute, AddAPISecond, TypeOK
    <3>2. Between(w)' = Between(w)
      BY <2>3 DEF AddTotalMinute, AddTotalSecond, AddAPIMinute, AddAPISecond, TypeOK, Between
    <3> QED
      BY <1>3, <1>5, <1>6, <2>0, <3>1, <3>2
  <2> QED
    BY <1>1, <2>1, <2>2, <2>3 DEF Addition
<1>8. ASSUME q \in Loaded(w)'
      PROVE  report[q].api[w] <= report[q].total[w] + slack'[q][w]
  BY <1>2, <1>4, <1>5, <1>6, <1>8
<1> QED
  BY <1>1, <1>7, <1>8

(* What HealthCheck loads from total, with the slack it has then, covers   *)
(* api; and when it loads api, that is what is reported.                   *)
LEMMA LoadsReport ==
  ASSUME TypeOK, CoverInv, ReportInv, NEW r \in Requests, HealthCheck(r)
  PROVE  ReportInv'
<1> SUFFICES ASSUME NEW q \in Requests, NEW w \in Windows
             PROVE  /\ q \in Loading(w)' =>
                         api'[w] + Cardinality(Between(w)') <= report'[q].total[w] + slack'[q][w]
                    /\ q \in Loaded(w)' =>
                         report'[q].api[w] <= report'[q].total[w] + slack'[q][w]
  BY DEF ReportInv
<1>1. UNCHANGED <<total, api, ticker, straddled, API>> /\ w \in {"minute", "second"}
  BY DEF HealthCheck, Windows
<1>2. Between(w)' = Between(w)
  BY <1>1 DEF HealthCheck, Between, TypeOK
<1>3. /\ total[w] \in Nat /\ api[w] \in Nat /\ Cardinality(Between(w)) \in Nat
      /\ Cardinality(straddled[w]) \in Nat
  BY ReportNumbers, SetsAreFinite
<1>4. (IF ticker[w] = "idle" THEN api[w] ELSE 0) + Cardinality(Between(w))
        <= total[w] + Cardinality(straddled[w])
  BY DEF CoverInv
<1>5. ASSUME q \in Loading(w)
      PROVE  api[w] + Cardinality(Between(w)) <= report[q].total[w] + slack[q][w]
  BY <1>5 DEF ReportInv
<1>6. ASSUME q \in Loaded(w) PROVE report[q].api[w] <= report[q].total[w] + slack[q][w]
  BY <1>6 DEF ReportInv
<1>7. ASSUME report'[q].total[w] = report[q].total[w], slack'[q][w] = slack[q][w],
             report'[q].api[w] = report[q].api[w],
             q \in Loading(w)' => q \in Loading(w), q \in Loaded(w)' => q \in Loaded(w)
      PROVE  /\ q \in Loading(w)' =>
                  api'[w] + Cardinality(Between(w)') <= report'[q].total[w] + slack'[q][w]
             /\ q \in Loaded(w)' =>
                  report'[q].api[w] <= report'[q].total[w] + slack'[q][w]
  BY <1>1, <1>2, <1>5, <1>6, <1>7
<1>8. CASE q # r
  <2>1. report'[q] = report[q] /\ slack'[q] = slack[q]
    BY <1>8 DEF HealthCheck, LoadTotal, LoadAPI, TypeOK
  <2>2. pc'[q] = pc[q]
    BY <1>8 DEF HealthCheck, TypeOK
  <2>3. (q \in Loading(w)' => q \in Loading(w)) /\ (q \in Loaded(w)' => q \in Loaded(w))
    BY <2>2 DEF Loading, Loaded
  <2> QED
    BY <1>7, <2>1, <2>3
<1>9. CASE q = r
  <2>1. ASSUME LoadTotal(r, w), r \notin Loaded(w)'
        PROVE  /\ q \in Loading(w)' =>
                    api'[w] + Cardinality(Between(w)') <= report'[q].total[w] + slack'[q][w]
               /\ q \in Loaded(w)' =>
                    report'[q].api[w] <= report'[q].total[w] + slack'[q][w]
    <3>1. report'[r].total[w] = total[w]
      BY <2>1 DEF LoadTotal, TypeOK
    <3>2. slack'[r][w] = Cardinality(straddled[w]) + (IF ticker[w] = "api" THEN api[w] ELSE 0)
      BY <2>1 DEF LoadTotal, TypeOK
    <3>3. ticker[w] \in {"idle", "api"}
      BY DEF TypeOK
    <3> QED
      BY <1>1, <1>2, <1>3, <1>4, <1>9, <2>1, <3>1, <3>2, <3>3
  <2>2. ASSUME LoadAPI(r, w), r \in Loading(w), r \notin Loading(w)'
        PROVE  /\ q \in Loading(w)' =>
                    api'[w] + Cardinality(Between(w)') <= report'[q].total[w] + slack'[q][w]
               /\ q \in Loaded(w)' =>
                    report'[q].api[w] <= report'[q].total[w] + slack'[q][w]
    <3>1. /\ report'[r].total[w] = report[r].total[w] /\ report'[r].api[w] = api[w]
          /\ slack' = slack
      BY <2>2 DEF LoadAPI, TypeOK
    <3>2. report[r].total[w] \in Nat /\ slack[r][w] \in Nat
      BY ReportNumbers
    <3> QED
      BY <1>3, <1>5, <1>9, <2>2, <3>1, <3>2
  <2>3. CASE pc[r] = "serve" /\ LoadTotal(r, "minute") /\ Goto(r, "loadTotalSecond")
    <3>1. r \notin Loaded(w)' /\ (w = "second" => r \notin Loading(w)')
      BY <2>3 DEF Loading, Loaded, TypeOK
    <3> QED
      BY <1>1, <1>9, <2>1, <2>3, <3>1
  <2>4. CASE pc[r] = "loadTotalSecond" /\ LoadTotal(r, "second") /\ Goto(r, "loadAPIMinute")
    <3>1. r \notin Loaded(w)' /\ (w = "minute" => r \in Loading(w))
      BY <2>4 DEF Loading, Loaded, TypeOK
    <3>2. w = "minute" => /\ report'[r].total[w] = report[r].total[w]
                          /\ report'[r].api[w] = report[r].api[w]
                          /\ slack'[r][w] = slack[r][w]
      BY <2>4 DEF LoadTotal, TypeOK
    <3> QED
      BY <1>1, <1>7, <1>9, <2>1, <2>4, <3>1, <3>2
  <2>5. CASE pc[r] = "loadAPIMinute" /\ LoadAPI(r, "minute") /\ Goto(r, "loadAPISecond")
    <3>1. /\ r \in Loading(w) /\ (w = "minute" => r \notin Loading(w)')
          /\ w = "second" => r \notin Loaded(w)'
      BY <1>1, <2>5 DEF Loading, Loaded, TypeOK
    <3>2. w = "second" => /\ report'[r].total[w] = report[r].total[w]
                          /\ report'[r].api[w] = report[r].api[w]
                          /\ slack'[r][w] = slack[r][w]
      BY <2>5 DEF LoadAPI, TypeOK
    <3> QED
      BY <1>1, <1>7, <1>9, <2>2, <2>5, <3>1, <3>2
  <2>6. CASE pc[r] = "loadAPISecond" /\ LoadAPI(r, "second") /\ Goto(r, "answered")
    <3>1. /\ r \notin Loading(w)'
          /\ w = "second" => r \in Loading(w)
          /\ w = "minute" => r \in Loaded(w)
      BY <2>6 DEF Loading, Loaded, TypeOK
    <3>2. w = "minute" => /\ report'[r].total[w] = report[r].total[w]
                          /\ report'[r].api[w] = report[r].api[w]
                          /\ slack'[r][w] = slack[r][w]
      BY <2>6 DEF LoadAPI, TypeOK
    <3> QED
      BY <1>1, <1>7, <1>9, <2>2, <2>6, <3>1, <3>2
  <2> QED
    BY <2>3, <2>4, <2>5, <2>6 DEF HealthCheck
<1> QED
  BY <1>8, <1>9

(* A reset only lowers api; the writer has nothing to do with the report,  *)
(* and a request that comes to it has done with its own.                   *)
LEMMA ReportStep == TypeOK /\ CoverInv /\ ReportInv /\ [Next]_vars => ReportInv'
<1> SUFFICES ASSUME TypeOK, CoverInv, ReportInv, [Next]_vars PROVE ReportInv'
  OBVIOUS
<1>1. CASE UNCHANGED vars \/ StdCopy \/ StdCount
  <2>1. UNCHANGED <<api, API, report, slack, pc>>
    BY <1>1 DEF vars, StdCopy, StdCount
  <2> QED
    BY <2>1 DEF ReportInv, Between, Loading, Loaded
<1>2. ASSUME NEW v \in Windows, Reset(v) PROVE ReportInv'
  <2> SUFFICES ASSUME NEW r \in Requests, NEW w \in Windows
               PROVE  /\ r \in Loading(w)' =>
                           api'[w] + Cardinality(Between(w)') <= report'[r].total[w] + slack'[r][w]
                      /\ r \in Loaded(w)' =>
                           report'[r].api[w] <= report'[r].total[w] + slack'[r][w]
    BY DEF ReportInv
  <2>1. UNCHANGED <<report, slack, pc, API>>
    BY <1>2 DEF Reset
  <2>2. Between(w)' = Between(w) /\ Loading(w)' = Loading(w) /\ Loaded(w)' = Loaded(w)
    BY <2>1 DEF Between, Loading, Loaded
  <2>3. api'[w] = api[w] \/ api'[w] = 0
    BY <1>2 DEF Reset, TypeOK
  <2> QED
    BY <2>1, <2>2, <2>3, ReportNumbers DEF ReportInv
<1>3. ASSUME NEW r \in Requests,
             Lock(r) \/ Copy(r) \/ Count(r) \/ Flush(r) \/ Forget(r) \/ Unlock(r)
      PROVE  ReportInv'
  <2> SUFFICES ASSUME NEW q \in Requests, NEW w \in Windows
               PROVE  /\ q \in Loading(w)' =>
                           api'[w] + Cardinality(Between(w)') <= report'[q].total[w] + slack'[q][w]
                      /\ q \in Loaded(w)' =>
                           report'[q].api[w] <= report'[q].total[w] + slack'[q][w]
    BY DEF ReportInv
  <2>1. UNCHANGED <<api, API>>
    BY <1>3 DEF Lock, Copy, Count, Flush, Forget, Unlock
  <2>2. /\ pc[r] \notin {"totalSecond", "apiMinute", "apiSecond"}
        /\ \E l \in {"copy", "count", "flush", "forget", "unlock", "done"} :
             pc' = [pc EXCEPT ![r] = l]
    BY <1>3 DEF Lock, Copy, Count, Flush, Forget, Unlock
  <2>3. Between(w)' = Between(w)
    BY <2>1, <2>2 DEF Between, TypeOK
  <2>4. q \in Loading(w)' \/ q \in Loaded(w)' => q # r /\ pc'[q] = pc[q]
    BY <2>2 DEF Loading, Loaded, TypeOK
  <2>5. q # r => report'[q] = report[q] /\ slack'[q] = slack[q]
    BY <1>3 DEF Lock, Copy, Count, Flush, Forget, Unlock, TypeOK
  <2>6. (q \in Loading(w)' => q \in Loading(w)) /\ (q \in Loaded(w)' => q \in Loaded(w))
    BY <2>4 DEF Loading, Loaded
  <2> QED
    BY <2>1, <2>3, <2>4, <2>5, <2>6 DEF ReportInv
<1> QED
  BY <1>1, <1>2, <1>3, AdditionsReport, LoadsReport DEF Next, Addition

(* What HealthCheck reports of the API is more than what it reports of all *)
(* requests by no more than the reset before it and the requests during it *)
(* make out.                                                               *)
THEOREM ReportIsBounded == Spec => []ReportBounded
<1>1. Init => CoverInv /\ ReportInv
  <2> SUFFICES ASSUME Init PROVE CoverInv /\ ReportInv
    OBVIOUS
  <2>1. \A w \in Windows : /\ Between(w) = {} /\ straddled[w] = {} /\ total[w] = 0 /\ api[w] = 0
                           /\ Loading(w) = {} /\ Loaded(w) = {}
    BY DEF Init, Between, Loading, Loaded, Zero
  <2> QED
    BY <2>1, FS_EmptySet DEF CoverInv, ReportInv
<1>2. ReportInv => ReportBounded
  BY DEF ReportInv, ReportBounded, Loaded
<1> QED
  BY <1>1, <1>2, CoverStep, ReportStep, LoggerTypeCorrect, PTL DEF Spec

-----------------------------------------------------------------------------
(***************************************************************************)
(* The lines.                                                              *)
(***************************************************************************)
(* What Append does to a prefix and to the set of the members.             *)
LEMMA PrefixFacts ==
  ASSUME NEW T, NEW s \in Seq(T), NEW t \in Seq(T), NEW e \in T
  PROVE  /\ IsPrefix(s, s)
         /\ IsPrefix(s, t) => IsPrefix(s, Append(t, e))
         /\ IsPrefix(s, Append(s, e))
         /\ ToSet(Append(s, e)) = ToSet(s) \cup {e}
         /\ s \o <<e>> = Append(s, e)
<1>1. IsPrefix(s, s)
  BY DEF IsPrefix
<1>2. ASSUME IsPrefix(s, t) PROVE IsPrefix(s, Append(t, e))
  BY <1>2 DEF IsPrefix
<1>3. IsPrefix(s, Append(s, e))
  BY <1>1, <1>2 DEF IsPrefix
<1>4. ToSet(Append(s, e)) = ToSet(s) \cup {e}
  <2>1. /\ DOMAIN Append(s, e) = 1 .. Len(s) + 1
        /\ DOMAIN s = 1 .. Len(s) /\ Len(s) \in Nat
        /\ Append(s, e)[Len(s) + 1] = e
        /\ \A i \in 1 .. Len(s) : Append(s, e)[i] = s[i]
    OBVIOUS
  <2>2. \A i : i \in 1 .. Len(s) + 1 <=> i \in 1 .. Len(s) \/ i = Len(s) + 1
    BY <2>1
  <2> DEFINE u == Append(s, e)
  <2> HIDE DEF u
  <2>3. {u[i] : i \in DOMAIN u} = {s[i] : i \in DOMAIN s} \cup {e}
    BY <2>1, <2>2 DEF u
  <2> QED
    BY <2>3 DEF ToSet, u
<1>5. s \o <<e>> = Append(s, e)
  OBVIOUS
<1> QED
  BY <1>1, <1>2, <1>3, <1>4, <1>5

(* The steps before the section and those of the log package.              *)
LEMMA LinesOutside ==
  ASSUME BaseInv, LinesInv,
         \/ \E r \in Requests : Addition(r) \/ HealthCheck(r)
         \/ \E w \in Windows : Reset(w)
         \/ StdCopy \/ StdCount
         \/ UNCHANGED vars
  PROVE  LinesInv'
<1> SUFFICES ASSUME ~logFile' PROVE LinesInv'
  BY DEF LinesInv
<1>1. ~StdCopy /\ (~logFile => ~StdCount)
  BY DEF LinesInv, StdCopy, StdCount
<1>2. CASE UNCHANGED vars \/ \E w \in Windows : Reset(w)
  <2>1. UNCHANGED <<pc, writer, others>>
    BY <1>2 DEF vars, Reset
  <2> QED
    BY <2>1 DEF LinesInv, OwnLine
<1>3. ASSUME NEW r \in Requests, Addition(r) \/ HealthCheck(r)
      PROVE  LinesInv'
  <2>1. UNCHANGED <<writer, others>>
    BY <1>3 DEF Addition, AddTotalMinute, AddTotalSecond, AddAPIMinute, AddAPISecond, HealthCheck
  <2>2. /\ pc[r] \in {"totalMinute", "totalSecond", "apiMinute", "apiSecond", "serve",
                      "loadTotalSecond", "loadAPIMinute", "loadAPISecond"}
        /\ \E l \in {"totalSecond", "apiMinute", "apiSecond", "serve",
                     "loadTotalSecond", "loadAPIMinute", "loadAPISecond", "answered"} :
             pc' = [pc EXCEPT ![r] = l]
    BY <1>3 DEF Addition, AddTotalMinute, AddTotalSecond, AddAPIMinute, AddAPISecond, HealthCheck
  <2>3. /\ pc[r] \notin Inside
        /\ pc'[r] \notin Inside \cup {"done"}
        /\ \A q \in Requests : q # r => pc'[q] = pc[q]
    BY <2>2 DEF BaseInv, TypeOK, Inside
  <2>4. holder # Free => holder \in Requests /\ holder # r /\ pc'[holder] = pc[holder]
    BY <2>3 DEF BaseInv, TypeOK, MutexInv
  <2>5. \A q \in Requests : pc'[q] \in Inside \cup {"done"} => q \in ToSet(order)
    BY <2>1, <2>3 DEF LinesInv
  <2> QED
    BY <2>1, <2>4, <2>5 DEF LinesInv, OwnLine
<1>4. CASE StdCopy \/ StdCount
  BY <1>1, <1>4 DEF StdCopy, StdCount
<1> QED
  BY <1>2, <1>3, <1>4

(* The steps of a request in the section.                                  *)
LEMMA LinesInside ==
  ASSUME BaseInv, LinesInv, NEW r \in Requests,
         Lock(r) \/ Copy(r) \/ Count(r) \/ Flush(r) \/ Forget(r) \/ Unlock(r)
  PROVE  LinesInv'
<1> SUFFICES ASSUME ~logFile PROVE LinesInv'
  BY DEF LinesInv, Lock, Copy, Count, Flush, Forget, Unlock
<1>0. /\ std = "idle" /\ UNCHANGED others
      /\ out \in Seq(Lines) /\ order \in Seq(Lines) /\ r \in Lines
      /\ IsPrefix(out, order)
      /\ \A q \in Requests : q # Free
  <2>1. order \in Seq(Requests) /\ Requests \subseteq Lines
    BY DEF BaseInv, TypeOK, Lines
  <2>2. order \in Seq(Lines)
    BY <2>1
  <2> QED
    BY <2>1, <2>2, LoggerAssumption
    DEF LinesInv, BaseInv, TypeOK, Lock, Copy, Count, Flush, Forget, Unlock
<1>1. CASE Lock(r)
  <2>1. order' = Append(order, r) /\ holder = Free /\ holder' = r /\ UNCHANGED <<n, failed, out>>
    BY <1>1 DEF Lock
  <2>2. pc'[r] = "copy" /\ \A q \in Requests : q # r => pc'[q] = pc[q]
    BY <1>1 DEF Lock, BaseInv, TypeOK
  <2>3. IsPrefix(out', order') /\ ToSet(order') = ToSet(order) \cup {r}
    BY <1>0, <2>1, PrefixFacts
  <2>4. \A q \in Requests : pc'[q] \in Inside \cup {"done"} => q \in ToSet(order')
    BY <2>2, <2>3 DEF LinesInv
  <2>5. ~failed' => holder' # Free /\ OwnLine(r)'
    BY <1>0, <2>1, <2>2 DEF LinesInv, OwnLine
  <2>6. holder' = r /\ OwnLine(holder)' = OwnLine(r)'
    BY <2>1 DEF OwnLine
  <2> QED
    BY <1>0, <2>3, <2>4, <2>5, <2>6 DEF LinesInv
<1>2. ASSUME Copy(r) \/ Count(r) \/ Flush(r) \/ Forget(r)
      PROVE  /\ holder = r /\ holder' = r /\ order' = order
             /\ \A q \in Requests : pc'[q] \in Inside \cup {"done"} => q \in ToSet(order')
             /\ ~failed => OwnLine(r)
  <2>1. pc[r] \in Inside /\ holder' = holder /\ order' = order
    BY <1>2 DEF Copy, Count, Flush, Forget, Inside
  <2>2. holder = r
    BY <2>1 DEF BaseInv, MutexInv
  <2>3. \A q \in Requests : q # r => pc'[q] = pc[q]
    BY <1>2 DEF Copy, Count, Flush, Forget, BaseInv, TypeOK
  <2>4. \A q \in Requests : pc'[q] \in Inside \cup {"done"} => q \in ToSet(order')
    BY <2>1, <2>3 DEF LinesInv
  <2>5. ~failed => OwnLine(r)
    BY <1>0, <2>2 DEF LinesInv
  <2> QED
    BY <2>1, <2>2, <2>4, <2>5
<1>3. ASSUME Copy(r) \/ Count(r) \/ Flush(r) \/ Forget(r),
             IsPrefix(out', order'), ~failed' => OwnLine(r)'
      PROVE  LinesInv'
  <2>1. holder' = r /\ holder' # Free
    BY <1>0, <1>2, <1>3
  <2>2. OwnLine(holder)' <=> OwnLine(r)'
    BY <2>1 DEF OwnLine
  <2> QED
    BY <1>0, <1>2, <1>3, <2>1, <2>2 DEF LinesInv
<1>4. CASE Copy(r)
  <2>1. UNCHANGED <<n, failed, out, order>> /\ pc'[r] = "count" /\ pc[r] = "copy"
    BY <1>4 DEF Copy, BaseInv, TypeOK
  <2>2. 1 \in 1 .. Capacity
    <3>1. r \in Requests \ Through
      BY <2>1 DEF Through
    <3>2. Cardinality(Through) + 1 <= Cardinality(Requests)
      BY <3>1, ThroughCounts
    <3>3. /\ Cardinality(Through) \in Nat /\ Cardinality(Requests) \in Nat
          /\ MaxStd \in Nat
      BY ThroughCounts, LoggerAssumption
    <3> QED
      BY <3>2, <3>3 DEF Capacity
  <2>3. ASSUME ~failed PROVE n = 0 /\ order = Append(out, r) /\ buf'[1] = r
    <3>1. n = 0 /\ order = Append(out, r)
      BY <1>2, <1>4, <2>1, <2>3 DEF OwnLine
    <3>2. buf' = [buf EXCEPT ![0 + 1] = r]
      BY <1>4, <2>3, <3>1 DEF Copy, Copied
    <3> QED
      BY <2>2, <3>1, <3>2 DEF BaseInv, TypeOK
  <2>4. ~failed' => OwnLine(r)'
    BY <2>1, <2>3 DEF OwnLine
  <2> QED
    BY <1>0, <1>3, <1>4, <2>1, <2>4
<1>5. CASE Count(r)
  <2>1. UNCHANGED <<buf, failed, out, order>> /\ pc'[r] = "flush" /\ pc[r] = "count"
    BY <1>5 DEF Count, BaseInv, TypeOK
  <2>2. ~failed' => OwnLine(r)'
    BY <1>2, <1>5, <2>1 DEF OwnLine, Count, Counted
  <2> QED
    BY <1>0, <1>3, <1>5, <2>1, <2>2
<1>6. CASE Flush(r)
  <2>1. UNCHANGED <<buf, n, order>> /\ pc'[r] = "forget" /\ pc[r] = "flush"
    BY <1>6 DEF Flush, BaseInv, TypeOK
  <2>2. CASE failed' = TRUE /\ out' = out
    BY <1>0, <1>3, <1>6, <2>1, <2>2
  <2>3. CASE ~failed /\ out' = out \o SubSeq(buf, 1, n) /\ wrote' = n /\ failed' = failed
    <3>1. n = 1 /\ order = Append(out, r) /\ buf[1] = r
      BY <1>2, <1>6, <2>1, <2>3 DEF OwnLine
    <3>2. SubSeq(buf, 1, 1) = <<r>>
      <4>1. n \in 0 .. Capacity /\ buf \in [1 .. Capacity -> Lines]
        BY DEF BaseInv, TypeOK
      <4>2. Capacity \in Nat /\ Capacity >= 1
        BY <3>1, <4>1, ThroughCounts, LoggerAssumption DEF Capacity
      <4>3. buf \in Seq(Lines) /\ Len(buf) = Capacity
        BY <4>1, <4>2
      <4>4. /\ SubSeq(buf, 1, 1) \in Seq(Lines) /\ Len(SubSeq(buf, 1, 1)) = 1
            /\ SubSeq(buf, 1, 1)[1] = buf[1]
        BY <4>2, <4>3, SubSeqProperties
      <4> DEFINE s == SubSeq(buf, 1, 1)
      <4> HIDE DEF s
      <4>5. s \in Seq(Lines) /\ <<r>> \in Seq(Lines)
        BY <1>0, <4>4 DEF s
      <4>6. Len(s) = 1 /\ Len(<<r>>) = 1 /\ s[1] = r /\ <<r>>[1] = r
        BY <3>1, <4>4 DEF s
      <4>7. \A i \in 1 .. Len(s) : s[i] = <<r>>[i]
        BY <4>6
      <4>8. s = <<r>>
        BY <4>5, <4>6, <4>7, SeqEqual
      <4> QED
        BY <4>8 DEF s
    <3>3. out' = order
      BY <1>0, <2>3, <3>1, <3>2, PrefixFacts
    <3>4. IsPrefix(out', order') /\ OwnLine(r)'
      BY <1>0, <2>1, <2>3, <3>1, <3>3, PrefixFacts DEF OwnLine
    <3> QED
      BY <1>3, <1>6, <3>4
  <2> QED
    BY <1>6, <2>2, <2>3 DEF Flush
<1>7. CASE Forget(r)
  <2>1. /\ UNCHANGED <<wrote, out, order>> /\ pc'[r] = "unlock" /\ pc[r] = "forget"
        /\ failed' = (failed \/ wrote < n) /\ n' = n - wrote
    BY <1>7 DEF Forget, BaseInv, TypeOK
  <2>2. ASSUME ~failed' PROVE OwnLine(r)'
    <3>1. ~failed
      BY <2>1, <2>2
    <3>2. n = 1 /\ wrote = 1 /\ out = order
      BY <1>2, <1>7, <2>1, <3>1 DEF OwnLine
    <3> QED
      BY <2>1, <3>2 DEF OwnLine
  <2> QED
    BY <1>0, <1>3, <1>7, <2>1, <2>2
<1>8. CASE Unlock(r)
  <2>1. /\ UNCHANGED <<n, failed, out, order>> /\ holder' = Free
        /\ pc[r] = "unlock"
        /\ \A q \in Requests : q # r => pc'[q] = pc[q]
    BY <1>8 DEF Unlock, BaseInv, TypeOK
  <2>2. holder = r /\ r \in ToSet(order)
    BY <2>1 DEF BaseInv, MutexInv, LinesInv, Inside
  <2>3. \A q \in Requests : pc'[q] \in Inside \cup {"done"} => q \in ToSet(order')
    BY <2>1, <2>2 DEF LinesInv
  <2>4. ~failed' => n' = 0 /\ out' = order'
    BY <1>0, <2>1, <2>2 DEF LinesInv, OwnLine
  <2> QED
    BY <1>0, <2>1, <2>3, <2>4 DEF LinesInv
<1> QED
  BY <1>1, <1>4, <1>5, <1>6, <1>7, <1>8

(* The output of a program without LOG_FILE: the lines of the requests, in *)
(* the order of the lock and each once, none missing unless a write failed.*)
THEOREM LinesAreWritten == Spec => []LineWritten
<1>1. Init => LinesInv
  <2> SUFFICES ASSUME Init PROVE LinesInv
    OBVIOUS
  <2>1. out = <<>> /\ order = <<>> /\ n = 0 /\ holder = Free /\ std = "idle"
        /\ \A r \in Requests : pc[r] = "totalMinute"
    BY DEF Init
  <2>2. IsPrefix(out, order)
    BY <2>1 DEF IsPrefix
  <2> QED
    BY <2>1, <2>2 DEF LinesInv, Inside
<1>2. BaseInv /\ LinesInv /\ [Next]_vars => LinesInv'
  BY LinesOutside, LinesInside DEF Next, Addition
<1>3. BaseInv /\ LinesInv => LineWritten
  <2> SUFFICES ASSUME BaseInv, LinesInv, ~logFile, ~failed,
                      NEW r \in Requests, pc[r] = "done"
               PROVE  r \in ToSet(out)
    BY DEF LinesInv, LineWritten
  <2>1. r \in ToSet(order)
    BY DEF LinesInv
  <2>2. out = order \/ (holder # r /\ holder \in Requests /\ order = Append(out, holder))
    BY LoggerAssumption DEF LinesInv, OwnLine, BaseInv, TypeOK, MutexInv, Inside
  <2>3. out \in Seq(Lines) /\ Requests \subseteq Lines
    BY DEF BaseInv, TypeOK, Lines
  <2>4. ASSUME NEW q \in Lines PROVE ToSet(Append(out, q)) = ToSet(out) \cup {q}
    BY <2>3, PrefixFacts
  <2> QED
    BY <2>1, <2>2, <2>3, <2>4
<1> QED
  BY <1>1, <1>2, <1>3, InitBase, BaseStep, PTL DEF Spec

=============================================================================
