------------------------- MODULE RateLimiterProofs -------------------------
(***************************************************************************)
(* Proofs about the rate limiter and its blacklist, for any number of      *)
(* handlers, addresses and rules, any limits and windows and every order   *)
(* in which the iteration over the map takes the rules.                    *)
(***************************************************************************)
EXTENDS RateLimiter, FiniteSetTheorems, FunctionTheorems, WellFoundedInduction, TLAPS

(* A set of numbers that holds 0 and the successor of each of its members  *)
(* holds every number.                                                     *)
LEMMA Induction ==
  ASSUME NEW S, 0 \in S, \A n \in Nat : n \in S => n + 1 \in S
  PROVE  Nat \subseteq S
<1> SUFFICES ASSUME Nat \ S # {} PROVE FALSE
  OBVIOUS
<1>1. PICK t \in Nat \ S : \A y \in Nat \ S : ~(<<y, t>> \in OpToRel(<, Nat))
  BY NatLessThanWellFounded, WFMin
<1>2. t # 0 /\ t - 1 \in Nat /\ t - 1 < t
  OBVIOUS
<1>3. t - 1 \in S
  BY <1>1, <1>2 DEF OpToRel
<1> QED
  BY <1>2, <1>3

-----------------------------------------------------------------------------
(***************************************************************************)
(* The loop over the rules.  FoldLeft is evaluated by removing the last    *)
(* rule; the lemmas below turn it into a chain of steps of CheckRule.      *)
(***************************************************************************)
\* The chain of the first m steps, by the set of indices taken so far.
IsChain(g, m, base, order) ==
  g = [s \in SUBSET (1 .. m) |->
         IF s = {} THEN base ELSE CheckRule(g[s \ {Max(s)}], order[Max(s)])]

(* The greatest member of a set of numbers that has one.                   *)
LEMMA MaxIs ==
  ASSUME NEW s, s \subseteq Int, NEW m \in s, \A x \in s : x <= m
  PROVE  Max(s) = m
<1>1. m \in s /\ \A y \in s : m >= y
  OBVIOUS
<1>2. Max(s) \in s /\ \A y \in s : Max(s) >= y
  BY <1>1 DEF Max
<1>3. Max(s) >= m /\ m >= Max(s) /\ Max(s) \in Int /\ m \in Int
  BY <1>1, <1>2
<1> QED
  BY <1>3

(* There is a chain of any length.                                         *)
LEMMA ChainExists ==
  ASSUME NEW base, NEW order, NEW n \in Nat
  PROVE  \E g : IsChain(g, n, base, order)
<1> DEFINE S == {m \in Nat : \E g : IsChain(g, m, base, order)}
<1>1. 0 \in S
  <2> DEFINE g == [s \in SUBSET (1 .. 0) |-> base]
  <2>1. IsChain(g, 0, base, order)
    <3>1. \A s \in SUBSET (1 .. 0) : s = {}
      OBVIOUS
    <3> QED
      BY <3>1 DEF IsChain
  <2> QED
    BY <2>1
<1>2. ASSUME NEW m \in Nat, m \in S PROVE m + 1 \in S
  <2>1. PICK g : IsChain(g, m, base, order)
    BY <1>2
  <2> DEFINE h == [s \in SUBSET (1 .. m + 1) |->
                     IF m + 1 \in s THEN CheckRule(g[s \ {m + 1}], order[m + 1])
                     ELSE g[s]]
             step(f, s) == IF s = {} THEN base ELSE CheckRule(f[s \ {Max(s)}], order[Max(s)])
  <2>2. ASSUME NEW s \in SUBSET (1 .. m + 1) PROVE h[s] = step(h, s)
    <3>1. CASE m + 1 \in s
      <4>1. Max(s) = m + 1
        <5>1. s \subseteq Int /\ \A x \in s : x <= m + 1
          OBVIOUS
        <5> QED
          BY <3>1, <5>1, MaxIs
      <4>2. s \ {m + 1} \in SUBSET (1 .. m + 1) /\ m + 1 \notin s \ {m + 1}
        OBVIOUS
      <4>3. h[s \ {m + 1}] = g[s \ {m + 1}]
        BY <4>2
      <4> QED
        BY <3>1, <4>1, <4>3
    <3>2. CASE m + 1 \notin s
      <4>1. s \in SUBSET (1 .. m) /\ s \ {Max(s)} \in SUBSET (1 .. m)
        <5>1. \A x \in s : x \in 1 .. m
          BY <3>2
        <5> QED
          BY <5>1
      <4>2. g[s] = step(g, s)
        BY <2>1, <4>1 DEF IsChain
      <4>3. h[s] = g[s] /\ h[s \ {Max(s)}] = g[s \ {Max(s)}]
        BY <3>2, <4>1
      <4> QED
        BY <4>2, <4>3
    <3> QED
      BY <3>1, <3>2
  <2>3. h = [s \in SUBSET (1 .. m + 1) |-> step(h, s)]
    <3> HIDE DEF step
    <3>1. h = [s \in SUBSET (1 .. m + 1) |-> h[s]]
      OBVIOUS
    <3> HIDE DEF h
    <3> QED
      BY <2>2, <3>1
  <2>4. IsChain(h, m + 1, base, order)
    <3> HIDE DEF h
    <3> QED
      BY <2>3 DEF IsChain
  <2> QED
    BY <2>4
<1> HIDE DEF S
<1>3. Nat \subseteq S
  BY <1>1, <1>2, Induction
<1> QED
  BY <1>3 DEF S

(* Judge applies CheckRule to one rule of the order after the other.       *)
LEMMA FoldSteps ==
  ASSUME NEW n \in Nat, NEW order \in [1 .. n -> Enabled], NEW u
  PROVE  \E f : /\ f[0] = [v |-> u, allowed |-> TRUE]
                /\ \A i \in 1 .. n : f[i] = CheckRule(f[i - 1], order[i])
                /\ Judge(u, order) = f[n]
<1> DEFINE base == [v |-> u, allowed |-> TRUE]
           g == CHOOSE g : IsChain(g, n, base, order)
<1>1. IsChain(g, n, base, order)
  BY ChainExists
<1>2. Judge(u, order) = g[1 .. n]
  BY DEF Judge, FoldLeft, MapThenFoldSet, IsChain
<1> HIDE DEF g
<1> DEFINE f == [i \in 0 .. n |-> g[1 .. i]]
<1>3. f[0] = base
  BY <1>1 DEF IsChain
<1>4. ASSUME NEW i \in 1 .. n PROVE f[i] = CheckRule(f[i - 1], order[i])
  <2>1. Max(1 .. i) = i
    <3>1. i \in 1 .. i /\ 1 .. i \subseteq Int /\ \A x \in 1 .. i : x <= i
      OBVIOUS
    <3> QED
      BY <3>1, MaxIs
  <2>2. (1 .. i) \ {i} = 1 .. (i - 1)
    OBVIOUS
  <2>3. 1 .. i # {} /\ 1 .. i \in SUBSET (1 .. n)
    <3>1. i \in 1 .. i /\ \A x \in 1 .. i : x \in 1 .. n
      OBVIOUS
    <3>2. 1 .. i \subseteq 1 .. n
      BY <3>1
    <3> QED
      BY <3>1, <3>2
  <2>4. g[1 .. i] = CheckRule(g[1 .. (i - 1)], order[i])
    BY <1>1, <2>1, <2>2, <2>3 DEF IsChain
  <2>5. f[i] = g[1 .. i] /\ f[i - 1] = g[1 .. (i - 1)]
    OBVIOUS
  <2> HIDE DEF f
  <2> QED
    BY <2>4, <2>5
<1>5. f[n] = g[1 .. n]
  OBVIOUS
<1> HIDE DEF f
<1> QED
  BY <1>2, <1>3, <1>4, <1>5

-----------------------------------------------------------------------------
\* A visitor within the limits.
WellFormed(v) ==
  /\ v \in [firstSeen : 0 .. now, counts : [Enabled -> Nat]]
  /\ \A r \in Enabled : v.counts[r] <= Limit[r]

Expired(v, r) == now - v.firstSeen > Window[r]

\* What the loop has made of the visitor u and its request when it has taken
\* the rules of the set done.  Either no window has expired and those rules
\* have counted the request; or one of all the windows has, and a new window
\* began at that rule; or a rule was exhausted.
Unreset(u, s, done) ==
  /\ s.v.firstSeen = u.firstSeen
  /\ \A r \in done : ~Expired(u, r)
  /\ \A r \in Enabled :
       s.v.counts[r] = IF r \in done THEN u.counts[r] + 1 ELSE u.counts[r]

Reset(u, s, done) ==
  /\ s.v.firstSeen = now
  /\ \E r \in Enabled : Expired(u, r)
  /\ \A r \in Enabled : s.v.counts[r] = 0 \/ (r \in done /\ s.v.counts[r] = 1)
  /\ \A r \in done : Expired(u, r) => s.v.counts[r] = 1

Exhausted(u, s) ==
  \E r \in Enabled :
    /\ s.v.counts[r] >= Limit[r]
    /\ ~Expired(s.v, r)
    /\ \/ /\ s.v.firstSeen = u.firstSeen
          /\ s.v.counts[r] = u.counts[r]
          /\ \A q \in Enabled : u.counts[q] <= s.v.counts[q]
       \/ /\ s.v.firstSeen = now
          /\ s.v.counts[r] = 0
          /\ \E q \in Enabled : Expired(u, q)

LoopInv(u, s, done) ==
  /\ s \in [v : [firstSeen : 0 .. now, counts : [Enabled -> Nat]], allowed : BOOLEAN]
  /\ WellFormed(s.v)
  /\ s.allowed => Unreset(u, s, done) \/ Reset(u, s, done)
  /\ ~s.allowed => Exhausted(u, s)

(* One iteration of the loop.                                              *)
LEMMA LoopStep ==
  ASSUME now \in Nat, NEW u, WellFormed(u), NEW s,
         NEW done \in SUBSET Enabled, LoopInv(u, s, done),
         NEW r \in Enabled, r \notin done
  PROVE  LoopInv(u, CheckRule(s, r), done \cup {r})
<1> DEFINE t == CheckRule(s, r)
           w == Refresh(s.v, r)
<1>1. /\ \A q \in Enabled : Limit[q] \in Nat /\ Window[q] \in Nat
      /\ u \in [firstSeen : 0 .. now, counts : [Enabled -> Nat]]
      /\ s \in [v : [firstSeen : 0 .. now, counts : [Enabled -> Nat]], allowed : BOOLEAN]
  BY RateLimiterAssumption DEF LoopInv, WellFormed
<1>2. CASE ~s.allowed
  <2>1. t = s
    BY <1>2 DEF CheckRule
  <2> QED
    BY <1>2, <2>1 DEF LoopInv
<1>3. CASE s.allowed
  <2>1. Unreset(u, s, done) \/ Reset(u, s, done)
    BY <1>3 DEF LoopInv
  <2>2. WellFormed(w) /\ ~Expired(w, r) /\ w.firstSeen \in {s.v.firstSeen, now}
    BY <1>1 DEF LoopInv, WellFormed, Expired, Refresh, Fresh
  <2>3. \/ /\ Unreset(u, [s EXCEPT !.v = w], done)
           /\ ~Expired(u, r)
        \/ Reset(u, [s EXCEPT !.v = w], done)
    <3>1. CASE Expired(s.v, r)
      <4>1. w = Fresh /\ s.v.firstSeen # now
        BY <1>1, <3>1 DEF Expired, Refresh
      <4>2. Unreset(u, s, done) /\ Expired(u, r)
        BY <2>1, <3>1, <4>1 DEF Unreset, Reset, Expired
      <4>3. /\ [s EXCEPT !.v = w].v = Fresh
            /\ Fresh.firstSeen = now
            /\ \A q \in Enabled : Fresh.counts[q] = 0
        BY <1>1, <4>1 DEF Fresh
      <4>4. \A q \in done : ~Expired(u, q)
        BY <4>2 DEF Unreset
      <4>5. Reset(u, [s EXCEPT !.v = w], done)
        <5> HIDE DEF w
        <5> QED
          BY <4>2, <4>3, <4>4 DEF Reset
      <4> QED
        BY <4>5
    <3>2. CASE ~Expired(s.v, r)
      <4>1. w = s.v /\ [s EXCEPT !.v = w] = s
        BY <1>1, <3>2 DEF Expired, Refresh
      <4>2. Unreset(u, s, done) => ~Expired(u, r)
        BY <3>2 DEF Unreset, Expired
      <4> QED
        BY <2>1, <4>1, <4>2
    <3> QED
      BY <3>1, <3>2
  <2> DEFINE x == [w EXCEPT !.counts[r] = @ + 1]
  <2>w. w \in [firstSeen : 0 .. now, counts : [Enabled -> Nat]]
    BY <2>2 DEF WellFormed
  <2>t. t = IF w.counts[r] >= Limit[r] THEN [v |-> w, allowed |-> FALSE]
            ELSE [v |-> x, allowed |-> TRUE]
    BY <1>3 DEF CheckRule
  <2> HIDE DEF t, w
  <2>4. CASE w.counts[r] >= Limit[r]
    <3>1. t = [v |-> w, allowed |-> FALSE]
      BY <2>4, <2>t
    <3>2. Exhausted(u, t)
      <4>1. CASE Unreset(u, [s EXCEPT !.v = w], done)
        BY <1>1, <2>2, <2>4, <2>w, <3>1, <4>1 DEF Unreset, Exhausted
      <4>2. CASE Reset(u, [s EXCEPT !.v = w], done)
        BY <1>1, <2>2, <2>4, <2>w, <3>1, <4>2 DEF Reset, Exhausted
      <4> QED
        BY <2>3, <4>1, <4>2
    <3>3. t.v = w /\ t.allowed = FALSE
          /\ t \in [v : [firstSeen : 0 .. now, counts : [Enabled -> Nat]], allowed : BOOLEAN]
      BY <2>w, <3>1
    <3> QED
      BY <2>2, <3>2, <3>3 DEF LoopInv, t
  <2>5. CASE ~(w.counts[r] >= Limit[r])
    <3>1. t = [v |-> x, allowed |-> TRUE]
      BY <2>5, <2>t
    <3>2. /\ x \in [firstSeen : 0 .. now, counts : [Enabled -> Nat]]
          /\ x.firstSeen = w.firstSeen
          /\ \A q \in Enabled : x.counts[q] = IF q = r THEN w.counts[q] + 1 ELSE w.counts[q]
      BY <2>w
    <3> HIDE DEF x
    <3>3. WellFormed(x)
      <4>1. w.counts[r] + 1 <= Limit[r]
        BY <1>1, <2>5, <2>w
      <4> QED
        BY <2>2, <3>2, <4>1 DEF WellFormed
    <3>4. Unreset(u, t, done \cup {r}) \/ Reset(u, t, done \cup {r})
      <4>1. CASE Unreset(u, [s EXCEPT !.v = w], done) /\ ~Expired(u, r)
        BY <1>1, <2>w, <3>1, <3>2, <4>1 DEF Unreset
      <4>2. CASE Reset(u, [s EXCEPT !.v = w], done)
        BY <1>1, <2>w, <3>1, <3>2, <4>2 DEF Reset
      <4> QED
        BY <2>3, <4>1, <4>2
    <3>5. t.v = x /\ t.allowed = TRUE
          /\ t \in [v : [firstSeen : 0 .. now, counts : [Enabled -> Nat]], allowed : BOOLEAN]
      BY <3>1, <3>2
    <3> QED
      BY <3>3, <3>4, <3>5 DEF LoopInv, t
  <2> QED
    BY <2>4, <2>5
<1> QED
  BY <1>2, <1>3

(* The whole loop: at its end every enabled rule has been taken.           *)
LEMMA JudgeResult ==
  ASSUME now \in Nat, NEW u, WellFormed(u), NEW order \in SetToSeqs(Enabled)
  PROVE  LoopInv(u, Judge(u, order), Enabled)
<1> DEFINE n == Cardinality(Enabled)
           base == [v |-> u, allowed |-> TRUE]
           taken(i) == {order[j] : j \in 1 .. i}
<1>1. n \in Nat /\ IsFiniteSet(Enabled)
  BY RateLimiterAssumption, FS_Subset, FS_CardinalityType
<1>2. /\ order \in [1 .. n -> Enabled]
      /\ \A i, j \in 1 .. n : i # j => order[i] # order[j]
  BY DEF SetToSeqs
<1> HIDE DEF n
<1>3. PICK f : /\ f[0] = base
               /\ \A i \in 1 .. n : f[i] = CheckRule(f[i - 1], order[i])
               /\ Judge(u, order) = f[n]
  BY <1>1, <1>2, FoldSteps
<1> DEFINE S == {i \in Nat : i <= n => LoopInv(u, f[i], taken(i))}
<1>4. 0 \in S
  <2>1. taken(0) = {}
    OBVIOUS
  <2>2. /\ base.v = u /\ base.allowed = TRUE
        /\ base \in [v : [firstSeen : 0 .. now, counts : [Enabled -> Nat]], allowed : BOOLEAN]
    BY DEF WellFormed
  <2> HIDE DEF base, taken
  <2>3. LoopInv(u, f[0], taken(0))
    BY <1>3, <2>1, <2>2 DEF LoopInv, Unreset
  <2> QED
    BY <2>3
<1>5. ASSUME NEW i \in Nat, i \in S PROVE i + 1 \in S
  <2> SUFFICES ASSUME i + 1 <= n PROVE LoopInv(u, f[i + 1], taken(i + 1))
    OBVIOUS
  <2>1. LoopInv(u, f[i], taken(i))
    BY <1>1, <1>5
  <2>2. /\ i + 1 \in 1 .. n /\ \A j \in 1 .. i : j \in 1 .. n /\ j # i + 1
        /\ (i + 1) - 1 = i
    BY <1>1
  <2>3. /\ order[i + 1] \in Enabled
        /\ order[i + 1] \notin taken(i)
        /\ taken(i) \in SUBSET Enabled
    BY <1>2, <2>2
  <2>4. taken(i + 1) = taken(i) \cup {order[i + 1]}
    <3>1. \A j \in Nat : j \in 1 .. i + 1 <=> j \in 1 .. i \/ j = i + 1
      OBVIOUS
    <3> QED
      BY <3>1
  <2>5. f[i + 1] = CheckRule(f[i], order[i + 1])
    BY <1>3, <2>2
  <2> HIDE DEF taken
  <2> QED
    BY <2>1, <2>3, <2>4, <2>5, LoopStep
<1>6. n \in S
  <2> HIDE DEF S
  <2> QED
    BY <1>1, <1>4, <1>5, Induction
<1>7. taken(n) = Enabled
  <2>1. order \in Injection(1 .. n, Enabled)
    BY <1>2, Fun_IsInj DEF Injection, IsInjective
  <2>2. IsFiniteSet(1 .. n) /\ Cardinality(1 .. n) = n
    BY <1>1, FS_Interval
  <2>3. order \in Surjection(1 .. n, Enabled)
    BY <1>1, <2>1, <2>2, FS_Injection DEF n
  <2> QED
    BY <1>2, <2>3 DEF Surjection
<1> QED
  BY <1>1, <1>3, <1>6, <1>7

-----------------------------------------------------------------------------
\* A handler that serves a request has its address.
Serving == \A h \in Handlers : pc[h] # "idle" => ip[h] \in IPs

(* What the lists consist of.  As saveToFile is reached only with mu held  *)
(* by the handler itself, the file stays as the operator wrote it; how     *)
(* much of it was read at the start is open.                               *)
Offenders(m) == {a \in IPs : mode = m /\ Offender(a)}

ListsFrom(read) ==
  /\ blacklist = Configured \cup IPsIn(read) \cup Offenders("single")
  /\ subnetList = SubnetsIn(read)
                    \cup ({SubnetOf[a] : a \in Offenders("subnet")} \ {NoSubnet})

ListsInv ==
  /\ \A h \in Handlers : pc[h] = "saving" => holder = h
  /\ file = [form |-> "lines", entries |-> HandWritten]
  /\ \E read \in SUBSET HandWritten : ListsFrom(read)

-----------------------------------------------------------------------------
(***************************************************************************)
(* The types.                                                              *)
(***************************************************************************)
(* What the assumption says of a rule.                                     *)
LEMMA RuleTypes ==
  /\ \A r \in Enabled : Limit[r] \in Nat /\ Window[r] \in Nat
  /\ IsFiniteSet(Enabled) /\ Enabled # {}
  BY RateLimiterAssumption, FS_Subset

(* The visitor that a request finds is within the limits.                  *)
LEMMA VisitorWellFormed ==
  ASSUME TypeOK, NEW a
  PROVE  now \in Nat /\ WellFormed(Visitor(a))
<1>1. now \in 0 .. MaxTime /\ MaxTime \in Nat
  BY RateLimiterAssumption DEF TypeOK, Times
<1>2. CASE a \in DOMAIN visitors
  BY <1>1, <1>2 DEF TypeOK, Visitor, WellFormed
<1>3. CASE a \notin DOMAIN visitors
  <2>1. Visitor(a) = [firstSeen |-> now, counts |-> [r \in Enabled |-> 0]]
    BY <1>3 DEF Visitor, Fresh
  <2> QED
    BY <1>1, <2>1, RuleTypes DEF WellFormed
<1> QED
  BY <1>1, <1>2, <1>3

(* What a handler does at its place in the code.                           *)
LEMMA GotoTypes ==
  ASSUME TypeOK, Serving, NEW h \in Handlers, NEW s, Goto(h, s), pc[h] # "idle",
         s \in {"idle", "check", "count", "record", "saving"}
  PROVE  /\ pc' \in [Handlers -> {"idle", "check", "count", "record", "saving"}]
         /\ ip' \in [Handlers -> IPs \cup {NoOne}]
         /\ Serving'
         /\ pc'[h] = s
         /\ \A g \in Handlers : g # h => pc'[g] = pc[g] /\ ip'[g] = ip[g]
  BY DEF TypeOK, Serving, Goto

(* What can be read from a file are names.                                 *)
LEMMA ReadTypes ==
  ASSUME NEW f, f.entries \subseteq Entries, NEW read \in Readable(f)
  PROVE  IPsIn(read) \subseteq Names /\ SubnetsIn(read) \subseteq Subnets
<1>1. read \subseteq Entries
  BY DEF Readable
<1> QED
  BY <1>1 DEF IPsIn, SubnetsIn, Entries

(* The state after NewRateLimiter, at the start or after a restart.        *)
LEMMA InitTypes == Init => TypeOK /\ Serving
<1> SUFFICES ASSUME Init PROVE TypeOK /\ Serving
  OBVIOUS
<1>0. /\ file.form \in {"lines", "array"} /\ file.entries \subseteq Entries
      /\ Configured \subseteq Names
  BY RateLimiterAssumption DEF Init, Names
<1>1. blacklist \subseteq Names /\ subnetList \subseteq Subnets
  BY <1>0, ReadTypes DEF Init
<1>2. DOMAIN visitors = {} /\ DOMAIN violations = {} /\ served \in [IPs -> Seq(Times)]
  BY DEF Init
<1>3. now \in Times /\ mode \in Modes /\ holder \in Handlers \cup {NoOne}
  BY RateLimiterAssumption DEF Init, Times
<1> QED
  BY <1>0, <1>1, <1>2, <1>3 DEF Init, TypeOK, Serving

(* A request is counted.                                                   *)
LEMMA CountTypes ==
  ASSUME TypeOK, Serving, NEW h \in Handlers, Count(h)
  PROVE  (TypeOK /\ Serving)'
<1> DEFINE a == ip[h]
<1>1. PICK order \in SetToSeqs(Enabled) :
        LET s == Judge(Visitor(a), order)
        IN  /\ visitors' = Put(visitors, a, s.v)
            /\ Goto(h, IF s.allowed THEN "idle" ELSE "record")
            /\ served' = IF s.allowed THEN [served EXCEPT ![a] = Append(@, now)] ELSE served
  BY DEF Count
<1> DEFINE s == Judge(Visitor(a), order)
<1>2. /\ now \in Nat /\ WellFormed(Visitor(a))
      /\ pc[h] # "idle" /\ a \in IPs
      /\ UNCHANGED <<now, listVars>>
  BY VisitorWellFormed DEF Serving, Count
<1>3. s.v \in [firstSeen : 0 .. now, counts : [Enabled -> Nat]] /\ WellFormed(s.v)
  BY <1>2, JudgeResult DEF LoopInv
<1> HIDE DEF s
<1>4. Goto(h, IF s.allowed THEN "idle" ELSE "record")
  BY <1>1 DEF s
<1>5. /\ pc' \in [Handlers -> {"idle", "check", "count", "record", "saving"}]
      /\ ip' \in [Handlers -> IPs \cup {NoOne}]
      /\ Serving'
  <2>1. CASE s.allowed
    BY <1>2, <1>4, <2>1, GotoTypes
  <2>2. CASE ~s.allowed
    BY <1>2, <1>4, <2>2, GotoTypes
  <2> QED
    BY <2>1, <2>2
<1>6. served' \in [IPs -> Seq(Times)]
  <2>1. served' = IF s.allowed THEN [served EXCEPT ![a] = Append(@, now)] ELSE served
    BY <1>1 DEF s
  <2>2. served[a] \in Seq(Times) /\ now \in Times
    BY <1>2 DEF TypeOK
  <2>3. Append(served[a], now) \in Seq(Times)
    BY <2>2
  <2> HIDE DEF a
  <2> QED
    BY <1>2, <2>1, <2>3 DEF TypeOK
<1>7. /\ DOMAIN visitors' \subseteq IPs
      /\ \A b \in DOMAIN visitors' :
           /\ visitors'[b] \in [firstSeen : 0 .. now', counts : [Enabled -> Nat]]
           /\ \A r \in Enabled : visitors'[b].counts[r] <= Limit[r]
  <2>1. visitors' = Put(visitors, a, s.v)
    BY <1>1 DEF s
  <2>2. /\ DOMAIN visitors' = DOMAIN visitors \cup {a}
        /\ visitors'[a] = s.v
        /\ \A b \in DOMAIN visitors : b # a => visitors'[b] = visitors[b]
    BY <2>1 DEF Put
  <2> HIDE DEF a
  <2> QED
    BY <1>2, <1>3, <2>2 DEF TypeOK, WellFormed
<1> QED
  BY <1>2, <1>5, <1>6, <1>7 DEF TypeOK, listVars

(* A rejection is recorded.                                                *)
LEMMA RecordTypes ==
  ASSUME TypeOK, Serving, NEW h \in Handlers, RecordViolation(h)
  PROVE  (TypeOK /\ Serving)'
<1> DEFINE a == ip[h]
<1>1. /\ pc[h] # "idle" /\ a \in IPs
      /\ UNCHANGED <<now, visitors, mode, file, served>>
      /\ violations' = Put(violations, a, Violations(a) + 1)
      /\ Goto(h, IF Reached(a) THEN "saving" ELSE "idle")
  BY DEF Serving, RecordViolation, Record
<1>2. holder' \in Handlers \cup {NoOne}
  BY DEF RecordViolation
<1>3. blacklist' \subseteq Names /\ subnetList' \subseteq Subnets
  <2>1. SubnetOf[a] \in Subnets \cup {NoSubnet} /\ a \in Names
    BY <1>1 DEF Subnets, Names
  <2> HIDE DEF a
  <2>2. /\ blacklist' \subseteq blacklist \cup {a}
        /\ subnetList' \subseteq subnetList \cup ({SubnetOf[a]} \ {NoSubnet})
    BY DEF RecordViolation, Record, a
  <2> QED
    BY <2>1, <2>2 DEF TypeOK
<1>4. /\ DOMAIN violations' \subseteq IPs
      /\ \A b \in DOMAIN violations' : violations'[b] \in Nat \ {0}
  <2>1. Violations(a) + 1 \in Nat \ {0}
    BY DEF TypeOK, Violations
  <2> HIDE DEF a
  <2> QED
    BY <1>1, <2>1 DEF TypeOK, Put
<1>5. /\ pc' \in [Handlers -> {"idle", "check", "count", "record", "saving"}]
      /\ ip' \in [Handlers -> IPs \cup {NoOne}]
      /\ Serving'
  <2>1. CASE Reached(a)
    BY <1>1, <2>1, GotoTypes
  <2>2. CASE ~Reached(a)
    BY <1>1, <2>2, GotoTypes
  <2> QED
    BY <2>1, <2>2
<1> QED
  BY <1>1, <1>2, <1>3, <1>4, <1>5 DEF TypeOK

(* Every other step.                                                       *)
LEMMA OtherTypes ==
  ASSUME TypeOK, Serving,
         \/ Tick \/ Cleanup \/ CleanupViolations \/ Restart
         \/ \E h \in Handlers : Arrive(h) \/ ReadSection(h) \/ RecordNothing(h)
  PROVE  (TypeOK /\ Serving)'
<1>1. CASE Tick
  <2>1. now' \in Times /\ now < now' /\ now \in Nat
    BY <1>1, RateLimiterAssumption DEF Tick, TypeOK, Times
  <2>2. \A f \in 0 .. now : f \in 0 .. now'
    BY <2>1, RateLimiterAssumption DEF Times
  <2>3. \A b \in DOMAIN visitors :
          visitors[b] \in [firstSeen : 0 .. now', counts : [Enabled -> Nat]]
    BY <2>2 DEF TypeOK
  <2> QED
    BY <1>1, <2>1, <2>3 DEF Tick, TypeOK, Serving, listVars
<1>2. CASE Cleanup
  <2>1. /\ DOMAIN visitors' \subseteq DOMAIN visitors
        /\ \A b \in DOMAIN visitors' : visitors'[b] = visitors[b]
    BY <1>2 DEF Cleanup, Restrict
  <2> QED
    BY <1>2, <2>1 DEF Cleanup, TypeOK, Serving, listVars
<1>3. CASE CleanupViolations
  <2>1. /\ DOMAIN violations' \subseteq DOMAIN violations
        /\ \A b \in DOMAIN violations' : violations'[b] = violations[b]
    BY <1>3 DEF CleanupViolations, Restrict
  <2> QED
    BY <1>3, <2>1 DEF CleanupViolations, TypeOK, Serving
<1>4. CASE Restart
  <2>0. file.entries \subseteq Entries /\ Configured \subseteq Names
    BY RateLimiterAssumption DEF TypeOK, Names
  <2>1. blacklist' \subseteq Names /\ subnetList' \subseteq Subnets
    BY <1>4, <2>0, ReadTypes DEF Restart
  <2>2. DOMAIN visitors' = {} /\ DOMAIN violations' = {} /\ served' \in [IPs -> Seq(Times)]
    BY <1>4 DEF Restart
  <2>3. now' \in Times
    BY <1>4, RateLimiterAssumption DEF Restart, Times
  <2> QED
    BY <1>4, <2>1, <2>2, <2>3 DEF Restart, TypeOK, Serving
<1>5. ASSUME NEW h \in Handlers, Arrive(h) PROVE (TypeOK /\ Serving)'
  BY <1>5 DEF Arrive, TypeOK, Serving, listVars
<1>6. ASSUME NEW h \in Handlers, ReadSection(h) PROVE (TypeOK /\ Serving)'
  <2>1. /\ pc[h] # "idle"
        /\ \E s \in {"count", "idle"} : Goto(h, s)
        /\ UNCHANGED <<now, visitors, mode, holder, violations, blacklist, subnetList, served>>
    BY <1>6 DEF ReadSection
  <2>2. /\ pc' \in [Handlers -> {"idle", "check", "count", "record", "saving"}]
        /\ ip' \in [Handlers -> IPs \cup {NoOne}]
        /\ Serving'
    BY <2>1, GotoTypes
  <2>3. file'.form \in {"lines", "array"} /\ file'.entries \subseteq Entries
    <3>1. Listed.form = "array" /\ Listed.entries \subseteq Entries
      BY DEF TypeOK, Listed, Entries, Names
    <3> QED
      BY <1>6, <3>1 DEF ReadSection, TypeOK
  <2> QED
    BY <2>1, <2>2, <2>3 DEF TypeOK
<1>7. ASSUME NEW h \in Handlers, RecordNothing(h) PROVE (TypeOK /\ Serving)'
  <2>1. pc[h] # "idle" /\ Goto(h, "idle") /\ UNCHANGED <<now, visitors, listVars, served>>
    BY <1>7 DEF RecordNothing
  <2>2. /\ pc' \in [Handlers -> {"idle", "check", "count", "record", "saving"}]
        /\ ip' \in [Handlers -> IPs \cup {NoOne}]
        /\ Serving'
    BY <2>1, GotoTypes
  <2> QED
    BY <2>1, <2>2 DEF TypeOK, listVars
<1> QED
  BY <1>1, <1>2, <1>3, <1>4, <1>5, <1>6, <1>7

(* Every step keeps the types.                                             *)
LEMMA TypesStep == TypeOK /\ Serving /\ [Next]_vars => (TypeOK /\ Serving)'
<1> SUFFICES ASSUME TypeOK, Serving, [Next]_vars PROVE (TypeOK /\ Serving)'
  OBVIOUS
<1>1. CASE UNCHANGED vars
  BY <1>1 DEF vars, listVars, TypeOK, Serving
<1>2. ASSUME NEW h \in Handlers, Count(h) PROVE (TypeOK /\ Serving)'
  BY <1>2, CountTypes
<1>3. ASSUME NEW h \in Handlers, RecordViolation(h) PROVE (TypeOK /\ Serving)'
  BY <1>3, RecordTypes
<1> QED
  BY <1>1, <1>2, <1>3, OtherTypes DEF Next, Serve

(* The types of the limiter and of the blacklist, among them that no rule  *)
(* counts more requests of a visitor than its limit.                       *)
THEOREM RateLimiterTypeCorrect == Spec => []TypeOK
  BY InitTypes, TypesStep, PTL DEF Spec

-----------------------------------------------------------------------------
(***************************************************************************)
(* The lists.                                                              *)
(***************************************************************************)
(* Which step changes what is held against an address, and how.            *)
LEMMA ListSteps ==
  ASSUME TypeOK, Serving, [Next]_vars
  PROVE  \/ Restart
         \/ \E h \in Handlers : RecordViolation(h)
         \/ /\ UNCHANGED <<mode, blacklist, subnetList>>
            /\ \A a \in IPs : Violations(a)' = Violations(a)
            /\ \/ UNCHANGED <<holder, file, pc>>
               \/ \E h \in Handlers :
                    /\ holder' = holder
                    /\ pc'[h] # "saving"
                    /\ \A g \in Handlers : g # h => pc'[g] = pc[g]
                    /\ file' = file \/ (pc[h] = "saving" /\ holder = NoOne)
<1> DEFINE Quiet ==
      /\ UNCHANGED <<mode, blacklist, subnetList>>
      /\ \A a \in IPs : Violations(a)' = Violations(a)
      /\ \/ UNCHANGED <<holder, file, pc>>
         \/ \E h \in Handlers :
              /\ holder' = holder
              /\ pc'[h] # "saving"
              /\ \A g \in Handlers : g # h => pc'[g] = pc[g]
              /\ file' = file \/ (pc[h] = "saving" /\ holder = NoOne)
<1>1. CASE UNCHANGED vars \/ Tick \/ Cleanup
  BY <1>1 DEF vars, listVars, Tick, Cleanup, Violations
<1>2. CASE CleanupViolations
  <2>1. \A a \in IPs : Violations(a)' = Violations(a)
    BY <1>2 DEF CleanupViolations, Restrict, Violations, TypeOK
  <2> QED
    BY <1>2, <2>1 DEF CleanupViolations
<1>3. ASSUME NEW h \in Handlers, Arrive(h) \/ ReadSection(h) \/ Count(h) \/ RecordNothing(h)
      PROVE  Quiet
  <2>1. UNCHANGED <<mode, blacklist, subnetList, violations, holder>>
    BY <1>3 DEF Arrive, ReadSection, Count, RecordNothing, listVars
  <2>2. \A a \in IPs : Violations(a)' = Violations(a)
    BY <2>1 DEF Violations
  <2>3. \E s \in {"idle", "check", "count", "record"} : pc' = [pc EXCEPT ![h] = s]
    BY <1>3 DEF Arrive, ReadSection, Count, RecordNothing, Goto
  <2>4. pc'[h] # "saving" /\ \A g \in Handlers : g # h => pc'[g] = pc[g]
    BY <2>3 DEF TypeOK
  <2>5. file' = file \/ (pc[h] = "saving" /\ holder = NoOne)
    BY <1>3 DEF Arrive, ReadSection, Count, RecordNothing, listVars
  <2> QED
    BY <2>1, <2>2, <2>4, <2>5
<1> QED
  BY <1>1, <1>2, <1>3 DEF Next, Serve

(* What one more violation changes.                                        *)
LEMMA RecordSteps ==
  ASSUME TypeOK, Serving, NEW h \in Handlers, RecordViolation(h)
  PROVE  /\ ip[h] \in IPs /\ UNCHANGED <<mode, file>> /\ holder = NoOne
         /\ \A b \in IPs :
              /\ Violations(b) \in Nat
              /\ Violations(b)' = IF b = ip[h] THEN Violations(b) + 1 ELSE Violations(b)
         /\ pc'[h] = "saving" => holder' = h
         /\ \A g \in Handlers : g # h => pc'[g] = pc[g]
<1>1. violations' = Put(violations, ip[h], Violations(ip[h]) + 1)
  BY DEF RecordViolation, Record
<1>2. ip[h] \in IPs /\ UNCHANGED <<mode, file>> /\ holder = NoOne
  BY DEF RecordViolation, Record, Serving
<1>3. \A b \in IPs :
        Violations(b)' = IF b = ip[h] THEN Violations(b) + 1 ELSE Violations(b)
  <2> DEFINE a == ip[h]
             n == Violations(ip[h]) + 1
  <2>1. violations' = [b \in DOMAIN violations \cup {a} |-> IF b = a THEN n ELSE violations[b]]
    BY <1>1 DEF Put
  <2> HIDE DEF a, n
  <2>2. \A b \in IPs : (IF b \in DOMAIN violations' THEN violations'[b] ELSE 0)
                         = IF b = a THEN n
                           ELSE IF b \in DOMAIN violations THEN violations[b] ELSE 0
    BY <2>1
  <2> QED
    BY <2>2 DEF Violations, a, n
<1>4. \A b \in IPs : Violations(b) \in Nat
  BY DEF Violations, TypeOK
<1>5. pc' = [pc EXCEPT ![h] = IF Reached(ip[h]) THEN "saving" ELSE "idle"]
  BY DEF RecordViolation, Record, Goto
<1>6. holder' = IF Reached(ip[h]) THEN h ELSE NoOne
  BY DEF RecordViolation
<1> QED
  BY <1>2, <1>3, <1>4, <1>5, <1>6 DEF TypeOK

(* The lists are made of what was written by hand and of the offenders.    *)
LEMMA ListsStep ==
  ASSUME TypeOK, Serving, ListsInv, [Next]_vars
  PROVE  ListsInv'
<1>0. NoOne \notin Handlers
  BY RateLimiterAssumption
<1>1. CASE Restart
  <2>1. Offenders("single")' = {} /\ Offenders("subnet")' = {}
    BY <1>1 DEF Restart, Offenders, Offender, Violations
  <2>2. PICK read \in Readable(file) :
          blacklist' = Configured \cup IPsIn(read) /\ subnetList' = SubnetsIn(read)
    BY <1>1 DEF Restart
  <2>3. read \in SUBSET HandWritten
    BY <2>2 DEF ListsInv, Readable
  <2>4. ListsFrom(read)'
    BY <2>1, <2>2 DEF ListsFrom
  <2> QED
    BY <1>1, <2>3, <2>4 DEF Restart, ListsInv
<1>2. ASSUME NEW h \in Handlers, RecordViolation(h) PROVE ListsInv'
  <2> DEFINE a == ip[h]
  <2>1. /\ a \in IPs /\ UNCHANGED <<mode, file>> /\ holder = NoOne
        /\ \A b \in IPs :
             /\ Violations(b) \in Nat
             /\ Violations(b)' = IF b = a THEN Violations(b) + 1 ELSE Violations(b)
        /\ pc'[h] = "saving" => holder' = h
        /\ \A g \in Handlers : g # h => pc'[g] = pc[g]
    BY <1>2, RecordSteps
  <2>2. /\ blacklist' = blacklist \cup (IF Reached(a) /\ mode = "single" THEN {a} ELSE {})
        /\ subnetList' = subnetList \cup
             (IF Reached(a) /\ mode = "subnet" THEN {SubnetOf[a]} \ {NoSubnet} ELSE {})
    BY <1>2 DEF RecordViolation, Record
  <2>3. Reached(a) <=> Violations(a) + 1 >= Threshold
    BY DEF Reached
  <2> HIDE DEF a
  <2>4. Offenders("single")' =
          Offenders("single") \cup (IF Reached(a) /\ mode = "single" THEN {a} ELSE {})
    BY <2>1, <2>3, RateLimiterAssumption DEF Offenders, Offender
  <2>5. Offenders("subnet")' =
          Offenders("subnet") \cup (IF Reached(a) /\ mode = "subnet" THEN {a} ELSE {})
    BY <2>1, <2>3, RateLimiterAssumption DEF Offenders, Offender
  <2>6. \A g \in Handlers : pc'[g] = "saving" => holder' = g
    BY <1>0, <2>1 DEF ListsInv
  <2>7. PICK read \in SUBSET HandWritten : ListsFrom(read)
    BY DEF ListsInv
  <2>8. blacklist' = (Configured \cup IPsIn(read) \cup Offenders("single"))'
    BY <2>2, <2>4, <2>7 DEF ListsFrom
  <2>9. subnetList' = SubnetsIn(read)
                        \cup ({SubnetOf[b] : b \in Offenders("subnet")'} \ {NoSubnet})
    BY <2>2, <2>5, <2>7 DEF ListsFrom
  <2>10. ListsFrom(read)'
    BY <2>8, <2>9 DEF ListsFrom
  <2> QED
    BY <2>1, <2>6, <2>7, <2>10 DEF ListsInv
<1>3. CASE /\ UNCHANGED <<mode, blacklist, subnetList>>
           /\ \A a \in IPs : Violations(a)' = Violations(a)
           /\ \/ UNCHANGED <<holder, file, pc>>
              \/ \E h \in Handlers :
                   /\ holder' = holder
                   /\ pc'[h] # "saving"
                   /\ \A g \in Handlers : g # h => pc'[g] = pc[g]
                   /\ file' = file \/ (pc[h] = "saving" /\ holder = NoOne)
  <2>1. file' = file /\ \A h \in Handlers : pc'[h] = "saving" => holder' = h
    BY <1>0, <1>3 DEF ListsInv
  <2>2. Offenders("single")' = Offenders("single") /\ Offenders("subnet")' = Offenders("subnet")
    BY <1>3 DEF Offenders, Offender
  <2>3. PICK read \in SUBSET HandWritten : ListsFrom(read)
    BY DEF ListsInv
  <2>4. ListsFrom(read)'
    BY <1>3, <2>2, <2>3 DEF ListsFrom
  <2> QED
    BY <2>1, <2>3, <2>4 DEF ListsInv
<1> QED
  BY <1>1, <1>2, <1>3, ListSteps

(* The lists of a new process.                                             *)
LEMMA InitLists == Init => ListsInv
<1> SUFFICES ASSUME Init PROVE ListsInv
  OBVIOUS
<1>1. Offenders("single") = {} /\ Offenders("subnet") = {}
  BY DEF Init, Offenders, Offender, Violations
<1>2. PICK read \in Readable(file) :
        blacklist = Configured \cup IPsIn(read) /\ subnetList = SubnetsIn(read)
  BY DEF Init
<1>3. read \in SUBSET HandWritten /\ ListsFrom(read)
  BY <1>1, <1>2 DEF Init, Readable, ListsFrom
<1> QED
  BY <1>3 DEF Init, ListsInv

(* The lists refuse an address for a cause, and the causes that do not     *)
(* depend on what was read are on them.                                    *)
LEMMA ListsHaveCauses ==
  ASSUME ListsInv
  PROVE  RefusedForCause
<1> SUFFICES ASSUME NEW a \in IPs
             PROVE  /\ Blocked(a) => a \in Configured \/ InFile(a) \/ Offends(a)
                    /\ a \in Configured \/ Offends(a) => Blocked(a)
  BY DEF RefusedForCause
<1>1. PICK read \in SUBSET HandWritten : ListsFrom(read)
  BY DEF ListsInv
<1>2. read \subseteq file.entries
  BY <1>1 DEF ListsInv
<1>3. a \in blacklist => \/ a \in Configured
                         \/ InFile(a)
                         \/ mode = "single" /\ Offender(a)
  BY <1>1, <1>2 DEF ListsFrom, IPsIn, Offenders, InFile
<1>4. SubnetOf[a] \in subnetList =>
        \/ InFile(a)
        \/ mode = "subnet" /\ SubnetOf[a] # NoSubnet
             /\ \E b \in IPs : SubnetOf[b] = SubnetOf[a] /\ Offender(b)
  <2>1. SubnetOf[a] \in SubnetsIn(read) => InFile(a)
    BY <1>2 DEF SubnetsIn, InFile
  <2> QED
    BY <1>1, <2>1 DEF ListsFrom, Offenders
<1>5. a \in Configured \/ (mode = "single" /\ Offender(a)) => a \in blacklist
  BY <1>1 DEF ListsFrom, Offenders
<1>6. (/\ mode = "subnet" /\ SubnetOf[a] # NoSubnet
       /\ \E b \in IPs : SubnetOf[b] = SubnetOf[a] /\ Offender(b))
        => SubnetOf[a] \in subnetList
  BY <1>1 DEF ListsFrom, Offenders
<1> QED
  BY <1>3, <1>4, <1>5, <1>6 DEF Blocked, Offends

(* Whatever restarts, read errors and cleanups there are, an address is    *)
(* refused only for a cause, and always for those known to the process.    *)
THEOREM RefusalsHaveCauses == Spec => []RefusedForCause
<1>1. Init => TypeOK /\ Serving /\ ListsInv
  BY InitTypes, InitLists
<1>2. TypeOK /\ Serving /\ ListsInv /\ [Next]_vars => ListsInv'
  BY ListsStep
<1>3. TypeOK /\ Serving /\ [Next]_vars => (TypeOK /\ Serving)'
  BY TypesStep
<1>4. ListsInv => RefusedForCause
  BY ListsHaveCauses
<1> QED
  BY <1>1, <1>2, <1>3, <1>4, PTL DEF Spec

-----------------------------------------------------------------------------
(***************************************************************************)
(* Counting what was served.                                               *)
(***************************************************************************)
\* How many of the times in s are from .. to.
Hits(s, from, to) == {i \in DOMAIN s : s[i] \in from .. to}
Num(s, from, to) == Cardinality(Hits(s, from, to))

(* The numbers of the properties.                                          *)
LEMMA TotalIsNum == \A a, from, to : Total(a, from, to) = Num(served[a], from, to)
  BY DEF Total, Num, Hits

(* A number of times is a number.                                          *)
LEMMA NumType ==
  ASSUME NEW s \in Seq(Nat), NEW from, NEW to
  PROVE  IsFiniteSet(Hits(s, from, to)) /\ Num(s, from, to) \in Nat
<1>1. DOMAIN s = 1 .. Len(s) /\ Len(s) \in Nat
  OBVIOUS
<1>2. IsFiniteSet(DOMAIN s)
  BY <1>1, FS_Interval
<1> QED
  BY <1>2, FS_Subset, FS_CardinalityType DEF Hits, Num

(* The times in one stretch are no more than those in another that holds   *)
(* all of them.                                                            *)
LEMMA NumMonotone ==
  ASSUME NEW s \in Seq(Nat), NEW from, NEW to, NEW from2, NEW to2,
         \A i \in DOMAIN s : s[i] \in from .. to => s[i] \in from2 .. to2
  PROVE  Num(s, from, to) <= Num(s, from2, to2)
<1>1. Hits(s, from, to) \subseteq Hits(s, from2, to2)
  BY DEF Hits
<1> QED
  BY <1>1, NumType, FS_Subset DEF Num

(* A stretch without any.                                                  *)
LEMMA NumNone ==
  ASSUME NEW s \in Seq(Nat), NEW from, NEW to,
         \A i \in DOMAIN s : s[i] \notin from .. to
  PROVE  Num(s, from, to) = 0
<1>1. Hits(s, from, to) = {}
  BY DEF Hits
<1> QED
  BY <1>1, FS_EmptySet DEF Num

(* The times in two stretches that cover a third.                          *)
LEMMA NumCovered ==
  ASSUME NEW s \in Seq(Nat), NEW from, NEW to, NEW f1, NEW t1, NEW f2, NEW t2,
         \A i \in DOMAIN s : s[i] \in from .. to => s[i] \in f1 .. t1 \/ s[i] \in f2 .. t2
  PROVE  Num(s, from, to) <= Num(s, f1, t1) + Num(s, f2, t2)
<1> DEFINE A == Hits(s, from, to)
           B == Hits(s, f1, t1)
           C == Hits(s, f2, t2)
<1>1. A \subseteq B \cup C
  BY DEF Hits
<1>2. IsFiniteSet(A) /\ IsFiniteSet(B) /\ IsFiniteSet(C)
  BY NumType
<1>3. IsFiniteSet(B \cup C) /\ IsFiniteSet(B \cap C)
  BY <1>2, FS_Union, FS_Intersection
<1>4. Cardinality(A) <= Cardinality(B \cup C)
  BY <1>1, <1>3, FS_Subset
<1>5. Cardinality(B \cup C) = Cardinality(B) + Cardinality(C) - Cardinality(B \cap C)
  BY <1>2, FS_Union
<1>6. /\ Cardinality(A) \in Nat /\ Cardinality(B) \in Nat /\ Cardinality(C) \in Nat
      /\ Cardinality(B \cap C) \in Nat /\ Cardinality(B \cup C) \in Nat
  BY <1>2, <1>3, FS_CardinalityType
<1> HIDE DEF A, B, C
<1>7. Cardinality(A) <= Cardinality(B) + Cardinality(C)
  BY <1>4, <1>5, <1>6
<1> QED
  BY <1>7 DEF Num, A, B, C

(* One time more.                                                          *)
LEMMA NumAppend ==
  ASSUME NEW s \in Seq(Nat), NEW t \in Nat, NEW from, NEW to
  PROVE  /\ Append(s, t) \in Seq(Nat)
         /\ Num(Append(s, t), from, to) =
              IF t \in from .. to THEN Num(s, from, to) + 1 ELSE Num(s, from, to)
         /\ \A i \in DOMAIN Append(s, t) : Append(s, t)[i] = t \/ (i \in DOMAIN s /\ Append(s, t)[i] = s[i])
<1> DEFINE u == Append(s, t)
           A == Hits(s, from, to)
<1>1. /\ u \in Seq(Nat) /\ Len(s) \in Nat
      /\ DOMAIN s = 1 .. Len(s) /\ DOMAIN u = 1 .. Len(s) + 1
      /\ u[Len(s) + 1] = t
      /\ \A i \in 1 .. Len(s) : u[i] = s[i]
  OBVIOUS
<1> HIDE DEF u
<1>2. \A i \in 1 .. Len(s) + 1 : i \in 1 .. Len(s) \/ i = Len(s) + 1
  BY <1>1
<1>3. Hits(u, from, to) = IF t \in from .. to THEN A \cup {Len(s) + 1} ELSE A
  <2>1. \A i : i \in Hits(u, from, to) <=>
                 \/ i \in A
                 \/ i = Len(s) + 1 /\ t \in from .. to
    BY <1>1, <1>2 DEF Hits
  <2> QED
    BY <2>1
<1>4. IsFiniteSet(A) /\ Len(s) + 1 \notin A
  <2>1. IsFiniteSet(A)
    BY NumType
  <2>2. A \subseteq 1 .. Len(s) /\ Len(s) + 1 \notin 1 .. Len(s)
    BY <1>1 DEF Hits
  <2> QED
    BY <2>1, <2>2
<1>5. Cardinality(A \cup {Len(s) + 1}) = Cardinality(A) + 1
  BY <1>4, FS_AddElement
<1>6. \A i \in DOMAIN u : u[i] = t \/ (i \in DOMAIN s /\ u[i] = s[i])
  BY <1>1, <1>2
<1>7. Num(u, from, to) = IF t \in from .. to THEN Num(s, from, to) + 1 ELSE Num(s, from, to)
  BY <1>3, <1>5 DEF Num
<1> QED
  BY <1>1, <1>6, <1>7 DEF u

-----------------------------------------------------------------------------
(***************************************************************************)
(* The bounds on what an address is served.  s is what it was served, n    *)
(* the time and v its visitor.                                             *)
(***************************************************************************)
Shortest(r) == r \in Enabled /\ \A q \in Enabled : Window[r] <= Window[q]

\* For a rule with the shortest window: what was served since the visitor's
\* window began has been counted, nothing was served after its end, and what
\* was served just before it is within the limit as well.
Fits(s, n, v, r) ==
  /\ Num(s, v.firstSeen, n) <= v.counts[r]
  /\ \A i \in DOMAIN s : s[i] <= v.firstSeen + Window[r]
  /\ Num(s, v.firstSeen - Window[r], v.firstSeen - 1) <= Limit[r]

\* The same of an address that no visitor stands for.
FitsWithout(s, n, r) ==
  /\ \A i \in DOMAIN s : s[i] < n
  /\ Num(s, n - Window[r], n - 1) <= Limit[r]

Bounded(s, r) == \A t \in Int : Num(s, t, t + Window[r]) <= 2 * Limit[r]

\* A visitor's counts are no higher than what was served in its window, unless
\* that has reached the limit of a rule.
Earned(s, n, v) ==
  \/ \E r \in Enabled : Num(s, v.firstSeen, n) >= Limit[r]
  \/ \A r \in Enabled : v.counts[r] <= Num(s, v.firstSeen, n)

AddressInv(s, n, a, seen) ==
  /\ \A i \in DOMAIN s : s[i] <= n
  /\ a \in DOMAIN seen => Earned(s, n, seen[a])
  /\ \A r \in Enabled : Shortest(r) =>
       /\ a \in DOMAIN seen => Fits(s, n, seen[a], r)
       /\ a \notin DOMAIN seen => FitsWithout(s, n, r)
       /\ Bounded(s, r)

WindowInv == \A a \in IPs : AddressInv(served[a], now, a, visitors)

(* Nothing is within any bounds.                                           *)
LEMMA NothingServed ==
  ASSUME NEW a, NEW n \in Nat, NEW seen, a \notin DOMAIN seen
  PROVE  AddressInv(<<>>, n, a, seen)
<1>1. DOMAIN <<>> = {} /\ <<>> \in Seq(Nat)
  OBVIOUS
<1>2. \A from, to : Num(<<>>, from, to) = 0
  BY <1>1, NumNone
<1>3. \A r \in Enabled : 0 <= Limit[r] /\ 0 <= 2 * Limit[r]
  BY RuleTypes
<1> QED
  BY <1>1, <1>2, <1>3 DEF AddressInv, FitsWithout, Bounded

(* The visitor that the request of an address finds or is given.           *)
LEMMA VisitorFits ==
  ASSUME TypeOK, WindowInv, NEW a \in IPs, served[a] \in Seq(Nat)
  PROVE  /\ Earned(served[a], now, Visitor(a))
         /\ \A r \in Enabled : Shortest(r) => Fits(served[a], now, Visitor(a), r)
<1>1. now \in Nat /\ AddressInv(served[a], now, a, visitors)
  BY VisitorWellFormed DEF WindowInv
<1>2. CASE a \in DOMAIN visitors
  BY <1>1, <1>2 DEF AddressInv, Visitor
<1>3. CASE a \notin DOMAIN visitors
  <2>1. Visitor(a).firstSeen = now /\ \A r \in Enabled : Visitor(a).counts[r] = 0
    BY <1>3 DEF Visitor, Fresh
  <2>2. Num(served[a], now, now) \in Nat
    BY NumType
  <2>3. Earned(served[a], now, Visitor(a))
    BY <2>1, <2>2 DEF Earned
  <2>4. ASSUME NEW r \in Enabled, Shortest(r) PROVE Fits(served[a], now, Visitor(a), r)
    <3>1. FitsWithout(served[a], now, r)
      BY <1>1, <1>3, <2>4 DEF AddressInv
    <3>2. \A i \in DOMAIN served[a] : served[a][i] \in Nat
      OBVIOUS
    <3>3. Num(served[a], now, now) = 0
      BY <1>1, <3>1, <3>2, NumNone DEF FitsWithout
    <3> QED
      BY <1>1, <2>1, <3>1, <3>2, <3>3, RuleTypes DEF Fits, FitsWithout
  <2> QED
    BY <2>3, <2>4
<1> QED
  BY <1>2, <1>3

(* A stretch that reaches into the current window holds at most twice the  *)
(* limit.                                                                  *)
LEMMA TwoWindows ==
  ASSUME NEW s \in Seq(Nat), NEW n \in Nat, NEW r \in Enabled, NEW v,
         v.firstSeen \in 0 .. n, v.counts[r] \in Nat, v.counts[r] <= Limit[r],
         Fits(s, n, v, r), \A i \in DOMAIN s : s[i] <= n,
         NEW t \in Int, t + Window[r] >= v.firstSeen
  PROVE  Num(s, t, t + Window[r]) <= 2 * Limit[r]
<1> DEFINE fs == v.firstSeen
           w == Window[r]
<1>1. w \in Nat /\ Limit[r] \in Nat /\ fs \in Nat /\ fs <= n
  BY RuleTypes
<1>2. \A i \in DOMAIN s : s[i] \in Nat
  OBVIOUS
<1>3. t + w >= fs /\ \A i \in DOMAIN s : s[i] <= n
  OBVIOUS
<1>4. Num(s, fs - w, fs - 1) <= Limit[r] /\ Num(s, fs, n) <= Limit[r]
  <2>1. Num(s, fs, n) \in Nat
    BY NumType
  <2> QED
    BY <1>1, <2>1 DEF Fits
<1> HIDE DEF fs, w
<1>5. \A i \in DOMAIN s : s[i] \in t .. t + w => s[i] \in fs - w .. fs - 1 \/ s[i] \in fs .. n
  BY <1>1, <1>2, <1>3
<1>6. Num(s, t, t + w) <= Num(s, fs - w, fs - 1) + Num(s, fs, n)
  BY <1>5, NumCovered
<1>7. Num(s, t, t + w) \in Nat /\ Num(s, fs - w, fs - 1) \in Nat /\ Num(s, fs, n) \in Nat
  BY NumType
<1> QED
  BY <1>1, <1>4, <1>6, <1>7 DEF w

\* What was served after the loop has come to the result c at the time n.
Served(s, n, c) == IF c.allowed THEN Append(s, n) ELSE s

(* A new window of a rule with the shortest window starts after the end of *)
(* the one before: nothing was served since, and what was served in it is  *)
(* what was served just before.                                            *)
LEMMA NewWindow ==
  ASSUME NEW s \in Seq(Nat), now \in Nat, NEW u, WellFormed(u),
         \A i \in DOMAIN s : s[i] <= now,
         NEW r \in Enabled, Shortest(r), Fits(s, now, u, r),
         \E q \in Enabled : Expired(u, q)
  PROVE  /\ Expired(u, r)
         /\ FitsWithout(s, now, r)
         /\ Num(s, now, now) = 0
<1> DEFINE fs == u.firstSeen
           w == Window[r]
<1>1. /\ w \in Nat /\ Limit[r] \in Nat /\ fs \in 0 .. now
      /\ u.counts[r] \in Nat /\ u.counts[r] <= Limit[r]
  BY RuleTypes DEF WellFormed
<1>2. now - fs > w
  <2>1. PICK q \in Enabled : now - fs > Window[q]
    BY DEF Expired
  <2>2. Window[q] >= w /\ Window[q] \in Nat
    BY RuleTypes DEF Shortest
  <2> QED
    BY <1>1, <2>1, <2>2
<1>3. \A i \in DOMAIN s : s[i] \in Nat /\ s[i] <= fs + w
  BY DEF Fits
<1>4. Num(s, fs, now) <= u.counts[r]
  BY DEF Fits
<1>5. Expired(u, r)
  BY <1>2 DEF Expired
<1> HIDE DEF fs, w
<1>6. \A i \in DOMAIN s : s[i] < now
  BY <1>1, <1>2, <1>3
<1>7. Num(s, now, now) = 0
  BY <1>3, <1>6, NumNone
<1>8. Num(s, now - w, now - 1) <= Num(s, fs, now)
  <2>1. \A i \in DOMAIN s : s[i] \in now - w .. now - 1 => s[i] \in fs .. now
    BY <1>1, <1>2, <1>3
  <2> QED
    BY <2>1, NumMonotone
<1>9. Num(s, now - w, now - 1) \in Nat /\ Num(s, fs, now) \in Nat
  BY NumType
<1>10. Num(s, now - w, now - 1) <= Limit[r]
  BY <1>1, <1>4, <1>8, <1>9
<1> QED
  BY <1>5, <1>6, <1>7, <1>10 DEF FitsWithout, w

(* After a request has been counted or rejected the address still fits.    *)
LEMMA CountFits ==
  ASSUME NEW s \in Seq(Nat), now \in Nat, NEW u, WellFormed(u),
         \A i \in DOMAIN s : s[i] <= now,
         NEW r \in Enabled, Shortest(r), Fits(s, now, u, r),
         NEW c, LoopInv(u, c, Enabled)
  PROVE  Fits(Served(s, now, c), now, c.v, r)
<1>1. /\ Window[r] \in Nat /\ Limit[r] \in Nat /\ u.firstSeen \in 0 .. now
      /\ u.counts[r] \in Nat /\ c.v.counts[r] \in Nat /\ c.v.counts[r] <= Limit[r]
  BY RuleTypes DEF WellFormed, LoopInv
<1>2. /\ \A i \in DOMAIN s : s[i] \in Nat
      /\ \A f, t : Num(s, f, t) \in Nat
  BY NumType
<1>3. CASE c.allowed /\ Unreset(u, c, Enabled)
  <2>1. Served(s, now, c) = Append(s, now)
    BY <1>3 DEF Served
  <2>2. /\ c.v.firstSeen = u.firstSeen /\ c.v.counts[r] = u.counts[r] + 1
        /\ now <= u.firstSeen + Window[r]
    BY <1>1, <1>3 DEF Unreset, Expired
  <2>3. /\ Num(Append(s, now), u.firstSeen, now) = Num(s, u.firstSeen, now) + 1
        /\ Num(Append(s, now), u.firstSeen - Window[r], u.firstSeen - 1)
             = Num(s, u.firstSeen - Window[r], u.firstSeen - 1)
    BY <1>1, NumAppend
  <2>4. \A i \in DOMAIN Append(s, now) : Append(s, now)[i] <= u.firstSeen + Window[r]
    BY <2>2, NumAppend DEF Fits
  <2>5. Num(s, u.firstSeen, now) + 1 <= u.counts[r] + 1
    BY <1>1, <1>2 DEF Fits
  <2>6. Num(s, u.firstSeen - Window[r], u.firstSeen - 1) <= Limit[r]
    BY DEF Fits
  <2> QED
    BY <2>1, <2>2, <2>3, <2>4, <2>5, <2>6 DEF Fits
<1>4. CASE c.allowed /\ Reset(u, c, Enabled)
  <2>1. Served(s, now, c) = Append(s, now) /\ c.v.firstSeen = now
    BY <1>4 DEF Served, Reset
  <2>2. Expired(u, r) /\ FitsWithout(s, now, r) /\ Num(s, now, now) = 0
    BY <1>4, NewWindow DEF Reset
  <2>3. c.v.counts[r] = 1
    BY <1>4, <2>2 DEF Reset
  <2>4. /\ Num(Append(s, now), now, now) = 1
        /\ Num(Append(s, now), now - Window[r], now - 1) = Num(s, now - Window[r], now - 1)
    BY <1>1, <2>2, NumAppend
  <2>5. \A i \in DOMAIN Append(s, now) : Append(s, now)[i] <= now + Window[r]
    BY <1>1, <1>2, NumAppend
  <2> QED
    BY <2>1, <2>2, <2>3, <2>4, <2>5 DEF Fits, FitsWithout
<1>5. CASE ~c.allowed
  <2>1. Served(s, now, c) = s /\ Exhausted(u, c)
    BY <1>5 DEF Served, LoopInv
  <2>2. CASE c.v.firstSeen = u.firstSeen /\ u.counts[r] <= c.v.counts[r]
    <3>1. Num(s, u.firstSeen, now) <= c.v.counts[r]
      BY <1>1, <1>2, <2>2 DEF Fits
    <3> QED
      BY <2>1, <2>2, <3>1 DEF Fits
  <2>3. CASE c.v.firstSeen = now /\ \E q \in Enabled : Expired(u, q)
    <3>1. FitsWithout(s, now, r) /\ Num(s, now, now) = 0
      BY <2>3, NewWindow
    <3>2. \A i \in DOMAIN s : s[i] <= now + Window[r]
      BY <1>1, <1>2
    <3> QED
      BY <1>1, <2>1, <2>3, <3>1, <3>2 DEF Fits, FitsWithout
  <2> QED
    BY <2>1, <2>2, <2>3 DEF Exhausted
<1> QED
  BY <1>3, <1>4, <1>5 DEF LoopInv

(* After a request has been counted, or rejected by a rule that was really *)
(* exhausted, the visitor's counts are still earned.                       *)
LEMMA CountEarned ==
  ASSUME NEW s \in Seq(Nat), now \in Nat, NEW u, WellFormed(u),
         Earned(s, now, u), NEW c, LoopInv(u, c, Enabled)
  PROVE  /\ Earned(Served(s, now, c), now, c.v)
         /\ ~c.allowed =>
              \E r, q \in Enabled : /\ Num(s, c.v.firstSeen, now) >= Limit[r]
                                    /\ ~Expired(c.v, q)
<1>1. /\ u.firstSeen \in 0 .. now
      /\ \A r \in Enabled : /\ Limit[r] \in Nat /\ Window[r] \in Nat
                            /\ u.counts[r] \in Nat /\ c.v.counts[r] \in Nat
  BY RuleTypes DEF WellFormed, LoopInv
<1>2. \A f, t : Num(s, f, t) \in Nat
  BY NumType
<1>3. CASE c.allowed /\ Unreset(u, c, Enabled)
  <2>1. /\ c.v.firstSeen = u.firstSeen
        /\ \A r \in Enabled : c.v.counts[r] = u.counts[r] + 1
    BY <1>3 DEF Unreset
  <2>2. Num(Served(s, now, c), u.firstSeen, now) = Num(s, u.firstSeen, now) + 1
    BY <1>1, <1>3, NumAppend DEF Served
  <2>3. CASE \E r \in Enabled : Num(s, u.firstSeen, now) >= Limit[r]
    BY <1>1, <1>2, <1>3, <2>1, <2>2, <2>3 DEF Earned
  <2>4. CASE \A r \in Enabled : u.counts[r] <= Num(s, u.firstSeen, now)
    BY <1>1, <1>2, <1>3, <2>1, <2>2, <2>4 DEF Earned
  <2> QED
    BY <2>3, <2>4 DEF Earned
<1>4. CASE c.allowed /\ Reset(u, c, Enabled)
  <2>1. c.v.firstSeen = now /\ \A r \in Enabled : c.v.counts[r] <= 1
    BY <1>4 DEF Reset
  <2>2. Num(Served(s, now, c), now, now) = Num(s, now, now) + 1
    BY <1>4, NumAppend DEF Served
  <2>3. \A r \in Enabled : c.v.counts[r] <= Num(s, now, now) + 1
    BY <1>1, <1>2, <2>1
  <2> QED
    BY <1>4, <2>1, <2>2, <2>3 DEF Earned
<1>5. CASE ~c.allowed
  <2>1. PICK r \in Enabled :
          /\ c.v.counts[r] >= Limit[r]
          /\ ~Expired(c.v, r)
          /\ \/ c.v.firstSeen = u.firstSeen /\ c.v.counts[r] = u.counts[r]
             \/ c.v.firstSeen = now /\ c.v.counts[r] = 0
    BY <1>5 DEF LoopInv, Exhausted
  <2>2. \E q \in Enabled : Num(s, c.v.firstSeen, now) >= Limit[q]
    <3>1. CASE c.v.firstSeen = u.firstSeen /\ c.v.counts[r] = u.counts[r]
      BY <1>1, <1>2, <2>1, <3>1 DEF Earned
    <3>2. CASE c.v.firstSeen = now /\ c.v.counts[r] = 0
      BY <1>1, <1>2, <2>1, <3>2
    <3> QED
      BY <2>1, <3>1, <3>2
  <2> QED
    BY <1>5, <2>1, <2>2 DEF Earned, Served
<1> QED
  BY <1>3, <1>4, <1>5 DEF LoopInv

(* A sequence of some numbers is one of numbers.                           *)
LEMMA NumbersAreNumbers ==
  ASSUME NEW T, T \subseteq Nat, NEW s \in Seq(T)
  PROVE  s \in Seq(Nat)
<1>1. s \in [1 .. Len(s) -> T] /\ Len(s) \in Nat
  OBVIOUS
<1>2. s \in [1 .. Len(s) -> Nat]
  BY <1>1
<1> QED
  BY <1>1, <1>2

(* The times are numbers.                                                  *)
LEMMA ServedTimes ==
  ASSUME TypeOK, NEW a \in IPs
  PROVE  served[a] \in Seq(Nat) /\ now \in Nat
<1>1. Times \subseteq Nat
  BY RateLimiterAssumption DEF Times
<1>2. served[a] \in Seq(Times)
  BY DEF TypeOK
<1>3. served[a] \in Seq(Nat)
  BY <1>1, <1>2, NumbersAreNumbers
<1> QED
  BY <1>1, <1>3 DEF TypeOK

(* A request is counted.                                                   *)
LEMMA CountWindow ==
  ASSUME TypeOK, Serving, WindowInv, NEW h \in Handlers, Count(h)
  PROVE  WindowInv' /\ \E c : /\ LoopInv(Visitor(ip[h]), c, Enabled)
                              /\ pc'[h] = "record" => ~c.allowed
<1> DEFINE a == ip[h]
           u == Visitor(a)
           s == served[a]
<1>1. PICK order \in SetToSeqs(Enabled) :
        LET c == Judge(u, order)
        IN  /\ visitors' = Put(visitors, a, c.v)
            /\ Goto(h, IF c.allowed THEN "idle" ELSE "record")
            /\ served' = IF c.allowed THEN [served EXCEPT ![a] = Append(@, now)] ELSE served
  BY DEF Count
<1> DEFINE c == Judge(u, order)
<1>2. /\ WellFormed(u) /\ a \in IPs /\ s \in Seq(Nat) /\ now \in Nat /\ now' = now
  BY VisitorWellFormed, ServedTimes DEF Serving, Count
<1>3. LoopInv(u, c, Enabled)
  BY <1>2, JudgeResult
<1>4. /\ \A i \in DOMAIN s : s[i] <= now
      /\ \A r \in Enabled : Shortest(r) => Bounded(s, r)
      /\ Earned(s, now, u)
      /\ \A r \in Enabled : Shortest(r) => Fits(s, now, u, r)
  BY <1>2, VisitorFits DEF WindowInv, AddressInv
<1>5. /\ visitors' = Put(visitors, a, c.v)
      /\ served' = IF c.allowed THEN [served EXCEPT ![a] = Append(@, now)] ELSE served
      /\ Goto(h, IF c.allowed THEN "idle" ELSE "record")
  BY <1>1
<1> HIDE DEF c
<1>6. /\ DOMAIN visitors' = DOMAIN visitors \cup {a}
      /\ visitors'[a] = c.v
      /\ \A b \in DOMAIN visitors : b # a => visitors'[b] = visitors[b]
  BY <1>5 DEF Put
<1>7. /\ served'[a] = Served(s, now, c)
      /\ \A b \in IPs : b # a => served'[b] = served[b]
  BY <1>2, <1>5 DEF TypeOK, Served
<1> HIDE DEF a, u, s
<1>8. AddressInv(served'[a], now', a, visitors')
  <2> DEFINE z == Served(s, now, c)
  <2>1. /\ z \in Seq(Nat)
        /\ \A i \in DOMAIN z : z[i] <= now
    BY <1>2, <1>4, NumAppend DEF Served
  <2>2. Earned(z, now, c.v)
    BY <1>2, <1>3, <1>4, CountEarned
  <2>3. ASSUME NEW r \in Enabled, Shortest(r)
        PROVE  Fits(z, now, c.v, r) /\ Bounded(z, r)
    <3>1. Fits(z, now, c.v, r)
      BY <1>2, <1>3, <1>4, <2>3, CountFits
    <3>2. ASSUME NEW t \in Int PROVE Num(z, t, t + Window[r]) <= 2 * Limit[r]
      <4>1. /\ c.v.firstSeen \in 0 .. now /\ c.v.counts[r] \in Nat /\ c.v.counts[r] <= Limit[r]
            /\ Window[r] \in Nat
        BY <1>3, RuleTypes DEF LoopInv, WellFormed
      <4>2. CASE t + Window[r] >= c.v.firstSeen
        <5> HIDE DEF z
        <5> QED
          BY <1>2, <2>1, <3>1, <4>1, <4>2, TwoWindows
      <4>3. CASE t + Window[r] < c.v.firstSeen
        <5>1. now \notin t .. t + Window[r]
          BY <1>2, <4>1, <4>3
        <5>2. Num(z, t, t + Window[r]) = Num(s, t, t + Window[r])
          BY <1>2, <5>1, NumAppend DEF Served
        <5> QED
          BY <1>4, <2>3, <5>2 DEF Bounded
      <4> QED
        BY <1>2, <4>1, <4>2, <4>3
    <3> QED
      BY <3>1, <3>2 DEF Bounded
  <2> HIDE DEF z
  <2>4. a \in DOMAIN visitors' /\ visitors'[a] = c.v
    BY <1>6
  <2>5. AddressInv(z, now, a, visitors')
    BY <2>1, <2>2, <2>3, <2>4 DEF AddressInv
  <2> QED
    BY <1>2, <1>7, <2>5 DEF z
<1>9. ASSUME NEW b \in IPs, b # a PROVE AddressInv(served'[b], now', b, visitors')
  <2>1. /\ served'[b] = served[b] /\ now' = now
        /\ b \in DOMAIN visitors' <=> b \in DOMAIN visitors
        /\ b \in DOMAIN visitors => visitors'[b] = visitors[b]
    BY <1>2, <1>6, <1>7, <1>9
  <2> QED
    BY <2>1 DEF WindowInv, AddressInv
<1>10. pc'[h] = "record" => ~c.allowed
  BY <1>5 DEF Goto, TypeOK
<1>11. WindowInv'
  BY <1>8, <1>9 DEF WindowInv
<1> QED
  BY <1>3, <1>10, <1>11 DEF u, a

(* Time passes: nothing has been served in the new moment.                 *)
LEMMA TickWindow ==
  ASSUME TypeOK, WindowInv, Tick
  PROVE  WindowInv'
<1> SUFFICES ASSUME NEW a \in IPs PROVE AddressInv(served[a], now + 1, a, visitors)
  BY DEF WindowInv, Tick
<1> DEFINE s == served[a]
<1>1. s \in Seq(Nat) /\ now \in Nat /\ AddressInv(s, now, a, visitors)
  BY ServedTimes DEF WindowInv
<1> HIDE DEF s
<1>2. \A i \in DOMAIN s : s[i] \in Nat /\ s[i] <= now
  BY <1>1 DEF AddressInv
<1>3. \A f : Num(s, f, now) \in Nat /\ Num(s, f, now + 1) \in Nat
  BY <1>1, NumType
<1>4. ASSUME NEW f \in Nat PROVE Num(s, f, now + 1) = Num(s, f, now)
  <2>1. Num(s, f, now + 1) <= Num(s, f, now)
    <3>1. \A i \in DOMAIN s : s[i] \in f .. now + 1 => s[i] \in f .. now
      BY <1>1, <1>2
    <3> QED
      BY <1>1, <3>1, NumMonotone
  <2>2. Num(s, f, now) <= Num(s, f, now + 1)
    <3>1. \A i \in DOMAIN s : s[i] \in f .. now => s[i] \in f .. now + 1
      BY <1>1, <1>2
    <3> QED
      BY <1>1, <3>1, NumMonotone
  <2> QED
    BY <1>3, <2>1, <2>2
<1>5. CASE a \in DOMAIN visitors
  <2>1. visitors[a].firstSeen \in Nat
    BY <1>1, <1>5 DEF TypeOK
  <2>2. Num(s, visitors[a].firstSeen, now + 1) = Num(s, visitors[a].firstSeen, now)
    BY <1>4, <2>1
  <2>3. Earned(s, now + 1, visitors[a])
    BY <1>1, <1>5, <2>2 DEF AddressInv, Earned
  <2>4. ASSUME NEW r \in Enabled, Shortest(r)
        PROVE  Fits(s, now + 1, visitors[a], r) /\ Bounded(s, r)
    BY <1>1, <1>5, <2>2, <2>4 DEF AddressInv, Fits
  <2>5. \A i \in DOMAIN s : s[i] <= now + 1
    BY <1>1, <1>2
  <2>6. AddressInv(s, now + 1, a, visitors)
    BY <1>5, <2>3, <2>4, <2>5 DEF AddressInv
  <2> QED
    BY <2>6 DEF s
<1>6. CASE a \notin DOMAIN visitors
  <2>1. ASSUME NEW r \in Enabled, Shortest(r)
        PROVE  FitsWithout(s, now + 1, r) /\ Bounded(s, r)
    <3>1. FitsWithout(s, now, r) /\ Bounded(s, r) /\ Window[r] \in Nat /\ Limit[r] \in Nat
      BY <1>1, <1>6, <2>1, RuleTypes DEF AddressInv
    <3> DEFINE m == now + 1
    <3>2. /\ m \in Nat
          /\ \A i \in DOMAIN s :
               /\ s[i] < m
               /\ s[i] \in m - Window[r] .. m - 1 => s[i] \in now - Window[r] .. now - 1
      BY <1>1, <1>2, <3>1 DEF FitsWithout
    <3> HIDE DEF m
    <3>3. Num(s, m - Window[r], m - 1) <= Num(s, now - Window[r], now - 1)
      BY <1>1, <3>2, NumMonotone
    <3>4. Num(s, now - Window[r], now - 1) <= Limit[r]
      BY <3>1 DEF FitsWithout
    <3>5. /\ Num(s, m - Window[r], m - 1) \in Nat
          /\ Num(s, now - Window[r], now - 1) \in Nat
      BY <1>1, NumType
    <3>6. FitsWithout(s, m, r)
      BY <3>1, <3>2, <3>3, <3>4, <3>5 DEF FitsWithout
    <3> QED
      BY <3>1, <3>6 DEF m
  <2>2. \A i \in DOMAIN s : s[i] <= now + 1
    BY <1>1, <1>2
  <2>3. AddressInv(s, now + 1, a, visitors)
    BY <1>6, <2>1, <2>2 DEF AddressInv
  <2> QED
    BY <2>3 DEF s
<1> QED
  BY <1>5, <1>6

(* LongestWindow is as long as any.                                        *)
LEMMA LongestWindowIs ==
  ASSUME NEW r \in Rules
  PROVE  LongestWindow \in Nat /\ LongestWindow >= Window[r]
<1>a. PICK n \in Nat : ExistsBijection(1 .. n, Rules)
  BY RateLimiterAssumption, FS_NatBijection
<1>b. PICK f : f \in Bijection(1 .. n, Rules)
  BY <1>a DEF ExistsBijection
<1>1. f \in [1 .. n -> Rules] /\ \A q \in Rules : \E i \in 1 .. n : f[i] = q
  BY <1>b DEF Bijection, Surjection
<1> DEFINE S == {k \in Nat : 1 <= k /\ k <= n =>
                   \E m \in 1 .. k : \A i \in 1 .. k : Window[f[i]] <= Window[f[m]]}
<1>0. \A i \in 1 .. n : Window[f[i]] \in Nat
  BY <1>1, RateLimiterAssumption
<1>2. 0 \in S
  OBVIOUS
<1>3. ASSUME NEW k \in Nat, k \in S PROVE k + 1 \in S
  <2> SUFFICES ASSUME k + 1 <= n
               PROVE  \E m \in 1 .. k + 1 : \A i \in 1 .. k + 1 : Window[f[i]] <= Window[f[m]]
    OBVIOUS
  <2>1. \A i \in 1 .. k + 1 : i \in 1 .. k \/ i = k + 1
    OBVIOUS
  <2>2. /\ k + 1 \in 1 .. n /\ k + 1 \in 1 .. k + 1
        /\ \A i \in 1 .. k : i \in 1 .. n /\ i \in 1 .. k + 1
    OBVIOUS
  <2>3. CASE k = 0
    <3>1. \A i \in 1 .. k + 1 : i = 1
      BY <2>3
    <3> QED
      BY <1>0, <2>2, <2>3, <3>1
  <2>4. CASE k # 0
    <3>1. PICK m \in 1 .. k : \A i \in 1 .. k : Window[f[i]] <= Window[f[m]]
      BY <1>3, <2>4
    <3>2. CASE Window[f[m]] <= Window[f[k + 1]]
      <4>1. \A i \in 1 .. k + 1 : Window[f[i]] <= Window[f[k + 1]]
        BY <1>0, <2>1, <2>2, <3>1, <3>2
      <4> QED
        BY <2>2, <4>1
    <3>3. CASE ~(Window[f[m]] <= Window[f[k + 1]])
      <4>1. \A i \in 1 .. k + 1 : Window[f[i]] <= Window[f[m]]
        BY <1>0, <2>1, <2>2, <3>1, <3>3
      <4> QED
        BY <2>2, <4>1
    <3> QED
      BY <3>2, <3>3
  <2> QED
    BY <2>3, <2>4
<1>4. n \in S
  <2> HIDE DEF S
  <2> QED
    BY <1>2, <1>3, Induction
<1>5. n >= 1
  BY <1>1
<1>6. PICK m \in 1 .. n : \A i \in 1 .. n : Window[f[i]] <= Window[f[m]]
  BY <1>4, <1>5
<1>7. f[m] \in Rules /\ \A q \in Rules : Window[q] <= Window[f[m]]
  BY <1>1, <1>6
<1>8. \E w \in {Window[q] : q \in Rules} : \A q \in Rules : Window[q] <= w
  BY <1>7
<1>9. LongestWindow \in {Window[q] : q \in Rules} /\ \A q \in Rules : Window[q] <= LongestWindow
  BY <1>8 DEF LongestWindow
<1> QED
  BY <1>9, RateLimiterAssumption

(* The hourly cleanup forgets an address only when the longest window has  *)
(* passed, so that the next window of the shortest rule is a new one.      *)
LEMMA CleanupWindow ==
  ASSUME TypeOK, WindowInv, Cleanup
  PROVE  WindowInv'
<1> SUFFICES ASSUME NEW a \in IPs PROVE AddressInv(served[a], now, a, visitors')
  BY DEF WindowInv, Cleanup
<1> DEFINE s == served[a]
<1>1. s \in Seq(Nat) /\ now \in Nat /\ AddressInv(s, now, a, visitors)
  BY ServedTimes DEF WindowInv
<1>2. /\ \A b : b \in DOMAIN visitors' <=>
                  b \in DOMAIN visitors /\ now - visitors[b].firstSeen <= LongestWindow
      /\ \A b \in DOMAIN visitors' : visitors'[b] = visitors[b]
  BY DEF Cleanup, Restrict
<1> HIDE DEF s
<1>3. CASE a \in DOMAIN visitors'
  BY <1>1, <1>2, <1>3 DEF AddressInv, s
<1>4. CASE a \notin DOMAIN visitors
  BY <1>1, <1>2, <1>4 DEF AddressInv, s
<1>5. CASE a \in DOMAIN visitors /\ a \notin DOMAIN visitors'
  <2>1. ASSUME NEW r \in Enabled, Shortest(r) PROVE FitsWithout(s, now, r) /\ Bounded(s, r)
    <3>1. WellFormed(visitors[a])
      BY <1>5 DEF TypeOK, WellFormed
    <3>2. Expired(visitors[a], r)
      <4>1. LongestWindow >= Window[r] /\ LongestWindow \in Nat /\ Window[r] \in Nat
        BY LongestWindowIs, RateLimiterAssumption
      <4>2. visitors[a].firstSeen \in Nat
        BY <3>1 DEF WellFormed
      <4> QED
        BY <1>1, <1>2, <1>5, <4>1, <4>2 DEF Expired
    <3>3. Fits(s, now, visitors[a], r) /\ Bounded(s, r) /\ \A i \in DOMAIN s : s[i] <= now
      BY <1>1, <1>5, <2>1 DEF AddressInv
    <3> QED
      BY <1>1, <2>1, <3>1, <3>2, <3>3, NewWindow
  <2> QED
    BY <1>1, <1>5, <2>1 DEF AddressInv, s
<1> QED
  BY <1>3, <1>4, <1>5

(* Every step keeps the bounds.                                            *)
LEMMA WindowStep == TypeOK /\ Serving /\ WindowInv /\ [Next]_vars => WindowInv'
<1> SUFFICES ASSUME TypeOK, Serving, WindowInv, [Next]_vars PROVE WindowInv'
  OBVIOUS
<1>1. CASE UNCHANGED <<now, visitors, served>>
  BY <1>1 DEF WindowInv, AddressInv
<1>2. CASE Restart
  <2>1. /\ now' = 0 /\ DOMAIN visitors' = {}
        /\ \A a \in IPs : served'[a] = <<>>
    BY <1>2 DEF Restart
  <2> QED
    BY <2>1, NothingServed DEF WindowInv
<1>3. ASSUME NEW h \in Handlers, Count(h) PROVE WindowInv'
  BY <1>3, CountWindow
<1>4. ASSUME NEW h \in Handlers,
             Arrive(h) \/ ReadSection(h) \/ RecordViolation(h) \/ RecordNothing(h)
      PROVE  UNCHANGED <<now, visitors, served>>
  BY <1>4 DEF Arrive, ReadSection, RecordViolation, Record, RecordNothing
<1>5. UNCHANGED vars \/ CleanupViolations => UNCHANGED <<now, visitors, served>>
  BY DEF vars, CleanupViolations
<1> QED
  BY <1>1, <1>2, <1>3, <1>4, <1>5, TickWindow, CleanupWindow DEF Next, Serve

(* Nothing has been served at the start.                                   *)
LEMMA InitWindow == Init => WindowInv
<1> SUFFICES ASSUME Init PROVE WindowInv
  OBVIOUS
<1>1. /\ now = 0 /\ DOMAIN visitors = {}
      /\ \A a \in IPs : served[a] = <<>>
  BY DEF Init
<1> QED
  BY <1>1, NothingServed DEF WindowInv

(* An address is served at most twice the limit of the rule with the       *)
(* shortest window in any stretch as long as that window.                  *)
THEOREM ShortWindowIsBounded == Spec => []ShortWindowBound
<1>1. ASSUME WindowInv PROVE ShortWindowBound
  <2> SUFFICES ASSUME NEW r \in Enabled, \A q \in Enabled : Window[r] <= Window[q],
                      NEW a \in IPs \ Whitelist, NEW t \in Times
               PROVE  Total(a, t, t + Window[r]) <= 2 * Limit[r]
    BY DEF ShortWindowBound
  <2>1. Bounded(served[a], r) /\ t \in Int
    BY <1>1 DEF WindowInv, AddressInv, Shortest, Times
  <2> QED
    BY <2>1, TotalIsNum DEF Bounded
<1>2. Init => TypeOK /\ Serving /\ WindowInv
  BY InitTypes, InitWindow
<1> QED
  BY <1>1, <1>2, TypesStep, WindowStep, PTL DEF Spec

(* A request is rejected only if its address was served as often as some   *)
(* limit allows, within the longest window.                                *)
THEOREM RejectionsAreEarned == Spec => RejectionEarned
<1>1. ASSUME TypeOK, Serving, WindowInv, [Next]_vars,
             NEW h \in Handlers, pc[h] = "count", pc'[h] = "record"
      PROVE  \E r, q \in Enabled : Total(ip[h], Max({0, now - Window[q]}), now) >= Limit[r]
  <2>1. Count(h)
    <3>1. \A g \in Handlers : Arrive(g) \/ ReadSection(g) \/ RecordViolation(g) \/ RecordNothing(g)
                                => pc'[h] # "record"
      BY <1>1 DEF Arrive, ReadSection, RecordViolation, Record, RecordNothing, Goto, TypeOK
    <3>2. UNCHANGED vars \/ Tick \/ Cleanup \/ CleanupViolations \/ Restart => pc'[h] # "record"
      BY <1>1 DEF vars, Tick, Cleanup, CleanupViolations, Restart
    <3>3. \A g \in Handlers : Count(g) /\ g # h => pc'[h] # "record"
      BY <1>1 DEF Count, Goto, TypeOK
    <3> QED
      BY <1>1, <3>1, <3>2, <3>3 DEF Next, Serve
  <2> DEFINE a == ip[h]
             u == Visitor(a)
             s == served[a]
  <2>2. PICK c : LoopInv(u, c, Enabled) /\ ~c.allowed
    BY <1>1, <2>1, CountWindow
  <2>3. a \in IPs /\ s \in Seq(Nat) /\ now \in Nat /\ WellFormed(u)
    BY <1>1, ServedTimes, VisitorWellFormed DEF Serving
  <2>4. Earned(s, now, u)
    BY <1>1, <2>3, VisitorFits
  <2> HIDE DEF a, u, s
  <2>5. PICK r \in Enabled, q \in Enabled :
          Num(s, c.v.firstSeen, now) >= Limit[r] /\ ~Expired(c.v, q)
    BY <2>2, <2>3, <2>4, CountEarned
  <2> DEFINE from == Max({0, now - Window[q]})
  <2>6. /\ c.v.firstSeen \in 0 .. now /\ Window[q] \in Nat /\ Limit[r] \in Nat
        /\ now - Window[q] <= c.v.firstSeen
    BY <2>2, <2>3, <2>5, RuleTypes DEF LoopInv, WellFormed, Expired
  <2>7. from \in Int /\ from <= c.v.firstSeen
    <3>1. from \in {0, now - Window[q]}
      <4> DEFINE X == {0, now - Window[q]}
      <4>0. X \subseteq Int /\ 0 \in X /\ now - Window[q] \in X
        BY <2>3, <2>6
      <4>1. CASE now - Window[q] <= 0
        <5>1. \A x \in X : x <= 0
          BY <4>1
        <5> HIDE DEF X
        <5>2. Max(X) = 0
          BY <4>0, <5>1, MaxIs
        <5> QED
          BY <5>2 DEF X
      <4>2. CASE now - Window[q] > 0
        <5>1. \A x \in X : x <= now - Window[q]
          BY <2>3, <2>6, <4>2
        <5> HIDE DEF X
        <5>2. Max(X) = now - Window[q]
          BY <4>0, <5>1, MaxIs
        <5> QED
          BY <5>2 DEF X
      <4> QED
        BY <2>3, <2>6, <4>1, <4>2
    <3> QED
      BY <2>3, <2>6, <3>1
  <2> HIDE DEF from
  <2>8. Num(s, from, now) >= Num(s, c.v.firstSeen, now)
    <3>1. \A i \in DOMAIN s : s[i] \in c.v.firstSeen .. now => s[i] \in from .. now
      BY <2>3, <2>6, <2>7
    <3> QED
      BY <2>3, <3>1, NumMonotone, NumType
  <2>9. Num(s, from, now) >= Limit[r]
    BY <2>3, <2>5, <2>6, <2>8, NumType
  <2> QED
    BY <2>9, TotalIsNum DEF from, s, a
<1>2. TypeOK /\ Serving /\ WindowInv /\ [Next]_vars
        => [\A h \in Handlers : pc[h] = "count" /\ pc'[h] = "record" =>
              \E r, q \in Enabled :
                Total(ip[h], Max({0, now - Window[q]}), now) >= Limit[r]]_vars
  BY <1>1
<1>3. Init => TypeOK /\ Serving /\ WindowInv
  BY InitTypes, InitWindow
<1> QED
  BY <1>2, <1>3, TypesStep, WindowStep, PTL DEF Spec, RejectionEarned

=============================================================================
