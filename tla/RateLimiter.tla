---------------------------- MODULE RateLimiter ----------------------------
(***************************************************************************)
(* The rate limiter of internal/middleware/ratelimit.go with the blacklist *)
(* of internal/middleware/blacklist.go that it reports violations to.      *)
(*                                                                         *)
(* The section under RateLimiter.mu is one step.  So is a section of the   *)
(* blacklist that holds mu for reading: it changes nothing and waits only  *)
(* for a writer, so holder names the writer and readers need no entry.     *)
(* The one section that takes mu a second time is split at that point.     *)
(***************************************************************************)
EXTENDS Integers, SequencesExt

CONSTANTS
  Handlers,    \* the goroutines that serve requests
  NoOne,       \* the writer of a free lock, the address of an idle handler
  IPs,         \* the addresses that GetRealIP returns
  Whitelist,   \* IP_WHITELIST
  Configured,  \* IP_BLACKLIST
  HandWritten, \* what the operator put into the blacklist file
  SubnetOf,    \* the subnet of each address, or NoSubnet if it does not parse
  NoSubnet,
  Modes,       \* the values of BLACKLIST_MODE to look at
  Threshold,   \* BLACKLIST_THRESHOLD
  Rules,       \* the names of the rules
  Enabled,     \* those with Enabled set
  Limit,       \* the limit of each rule
  Window,      \* the window of each rule
  MaxTime      \* bound: the clock stops here

Subnets == {SubnetOf[a] : a \in IPs} \ {NoSubnet}
Names == IPs \cup Subnets

\* BlacklistEntry: a name with its type, which may be missing.
Entries == [type : {"ip", "subnet", "none"}, ip : Names]

ASSUME RateLimiterAssumption ==
  /\ NoOne \notin Handlers \cup IPs /\ NoSubnet \notin IPs
  /\ Whitelist \subseteq IPs /\ Configured \subseteq IPs
  /\ HandWritten \subseteq Entries
  /\ Modes \subseteq {"off", "single", "subnet"}
  /\ Threshold \in Nat
  /\ IsFiniteSet(Rules) /\ Enabled \subseteq Rules /\ Enabled # {}
  /\ \A r \in Rules : Limit[r] \in Nat /\ Window[r] \in Nat
  /\ MaxTime \in Nat

VARIABLES
  now,         \* the clock
  visitors,    \* RateLimiter.visitors
  mode,        \* BlacklistManager.mode
  holder,      \* the handler that holds BlacklistManager.mu for writing
  violations,  \* BlacklistManager.violations
  blacklist,   \* BlacklistManager.blacklist
  subnetList,  \* BlacklistManager.subnetList
  file,        \* the content of the blacklist file
  pc,          \* where each handler stands
  ip,          \* the address of the request it serves
  served       \* history: when requests of an address passed the rules since
               \* the start

listVars == <<mode, holder, violations, blacklist, subnetList, file>>
vars == <<now, visitors, listVars, pc, ip, served>>

Times == 0 .. MaxTime
TypeOK ==
  /\ now \in Times
  /\ DOMAIN visitors \subseteq IPs
  /\ \A a \in DOMAIN visitors :
       /\ visitors[a] \in [firstSeen : 0 .. now, counts : [Enabled -> Nat]]
       /\ \A r \in Enabled : visitors[a].counts[r] <= Limit[r]
  /\ mode \in Modes
  /\ holder \in Handlers \cup {NoOne}
  /\ DOMAIN violations \subseteq IPs
  /\ \A a \in DOMAIN violations : violations[a] \in Nat \ {0}
  /\ blacklist \subseteq Names
  /\ subnetList \subseteq Subnets
  /\ file.form \in {"lines", "array"}
  /\ file.entries \subseteq Entries
  /\ pc \in [Handlers -> {"idle", "check", "count", "record", "saving"}]
  /\ ip \in [Handlers -> IPs \cup {NoOne}]
  /\ served \in [IPs -> Seq(Times)]

-----------------------------------------------------------------------------
(* loadFromFile.  Each line is unmarshalled as one entry, and a line that  *)
(* is not one is skipped: of the array that saveToFile writes on a single  *)
(* line nothing is loaded.  The file may fail to open, or the scanner to   *)
(* go on, and NewBlacklistManager does not look at the error: any part of  *)
(* the lines may be all that is read.                                      *)
Readable(f) == IF f.form = "lines" THEN SUBSET f.entries ELSE {{}}

IPsIn(entries) == {e.ip : e \in {l \in entries : l.type # "subnet"}}
SubnetsIn(entries) ==
  {e.ip : e \in {l \in entries : l.type = "subnet"}} \cap Subnets

Init ==
  /\ now = 0
  /\ visitors = <<>>
  /\ mode \in Modes
  /\ holder = NoOne
  /\ violations = <<>>
  /\ file = [form |-> "lines", entries |-> HandWritten]
  /\ \E read \in Readable(file) :
       /\ blacklist = Configured \cup IPsIn(read)
       /\ subnetList = SubnetsIn(read)
  /\ pc = [h \in Handlers |-> "idle"]
  /\ ip = [h \in Handlers |-> NoOne]
  /\ served = [a \in IPs |-> <<>>]

(* The process ends at any point and is started again: the file is all     *)
(* that is left.                                                           *)
Restart ==
  /\ now' = 0
  /\ visitors' = <<>>
  /\ holder' = NoOne
  /\ violations' = <<>>
  /\ \E read \in Readable(file) :
       /\ blacklist' = Configured \cup IPsIn(read)
       /\ subnetList' = SubnetsIn(read)
  /\ pc' = [h \in Handlers |-> "idle"]
  /\ ip' = [h \in Handlers |-> NoOne]
  /\ served' = [a \in IPs |-> <<>>]
  /\ UNCHANGED <<mode, file>>

-----------------------------------------------------------------------------
\* An idle handler serves no address.
Goto(h, s) ==
  /\ pc' = [pc EXCEPT ![h] = s]
  /\ ip' = IF s = "idle" THEN [ip EXCEPT ![h] = NoOne] ELSE ip

Tick ==
  /\ now < MaxTime
  /\ now' = now + 1
  /\ UNCHANGED <<visitors, listVars, pc, ip, served>>

Arrive(h) ==
  /\ pc[h] = "idle"
  /\ \E a \in IPs : ip' = [ip EXCEPT ![h] = a]
  /\ pc' = [pc EXCEPT ![h] = "check"]
  /\ UNCHANGED <<now, visitors, listVars, served>>

(* IsBlocked: the address itself, or its subnet, is listed.                *)
Blocked(a) == a \in blacklist \/ SubnetOf[a] \in subnetList

(* What saveToFile writes.                                                 *)
Listed ==
  [form |-> "array",
   entries |-> [type : {"ip"}, ip : blacklist \ Configured]
                 \cup [type : {"subnet"}, ip : subnetList]]

(* The sections that hold the blacklist's mu for reading.  IsBlocked comes *)
(* before the whitelist, whose addresses skip the rules: such a request,   *)
(* like one that is blocked, is over here.  saveToFile, called by          *)
(* RecordViolation, would end with the deferred unlocks of both.           *)
ReadSection(h) ==
  /\ pc[h] \in {"check", "saving"}
  /\ holder = NoOne
  /\ Goto(h, IF pc[h] = "check" /\ ~Blocked(ip[h]) /\ ip[h] \notin Whitelist
               THEN "count" ELSE "idle")
  /\ file' = IF pc[h] = "saving" THEN Listed ELSE file
  /\ UNCHANGED <<now, visitors, mode, holder, violations, blacklist,
                 subnetList, served>>

-----------------------------------------------------------------------------
\* The map f after f[a] = v.
Put(f, a, v) == [b \in DOMAIN f \cup {a} |-> IF b = a THEN v ELSE f[b]]

Fresh == [firstSeen |-> now, counts |-> [r \in Enabled |-> 0]]

Visitor(a) == IF a \in DOMAIN visitors THEN visitors[a] ELSE Fresh

\* A faulty reset that starts a new window and keeps the counts.
RefreshLazily(v, r) ==
  IF now - v.firstSeen > Window[r] THEN [v EXCEPT !.firstSeen = now] ELSE v

\* firstSeen is one for all rules, and so is the reset.
Refresh(v, r) == IF now - v.firstSeen > Window[r] THEN Fresh ELSE v

\* A faulty check that lets one request more than the limit through.
CheckRuleLate(s, r) ==
  LET v == Refresh(s.v, r)
  IN  IF ~s.allowed THEN s
      ELSE IF v.counts[r] > Limit[r] THEN [v |-> v, allowed |-> FALSE]
      ELSE [v |-> [v EXCEPT !.counts[r] = @ + 1], allowed |-> TRUE]

\* The loop stops at the first rule that is exhausted; the rules before it
\* have counted the request by then.
CheckRule(s, r) ==
  LET v == Refresh(s.v, r)
  IN  IF ~s.allowed THEN s
      ELSE IF v.counts[r] >= Limit[r] THEN [v |-> v, allowed |-> FALSE]
      ELSE [v |-> [v EXCEPT !.counts[r] = @ + 1], allowed |-> TRUE]

\* What becomes of the visitor and of the request, when the iteration over
\* the map of rules takes this order.
Judge(v, order) == FoldLeft(CheckRule, [v |-> v, allowed |-> TRUE], order)

(* The section under RateLimiter.mu.                                       *)
Count(h) ==
  LET a == ip[h]
  IN  /\ pc[h] = "count"
      /\ \E order \in SetToSeqs(Enabled) :
           LET s == Judge(Visitor(a), order)
           IN  /\ visitors' = Put(visitors, a, s.v)
               /\ Goto(h, IF s.allowed THEN "idle" ELSE "record")
               /\ served' = IF s.allowed THEN [served EXCEPT ![a] = Append(@, now)]
                                         ELSE served
      /\ UNCHANGED <<now, listVars>>

-----------------------------------------------------------------------------
Violations(a) == IF a \in DOMAIN violations THEN violations[a] ELSE 0

\* A faulty test that lists an address one violation too late.
ReachedLate(a) == Violations(a) + 1 > Threshold

(* RecordViolation, after RateLimiter.mu is released.  At the threshold    *)
(* the address or its subnet is listed and saveToFile is called.           *)
Reached(a) == Violations(a) + 1 >= Threshold

Record(h) ==
  LET a == ip[h]
  IN  /\ pc[h] = "record"
      /\ mode # "off"
      /\ holder = NoOne
      /\ violations' = Put(violations, a, Violations(a) + 1)
      /\ blacklist' = blacklist \cup
           (IF Reached(a) /\ mode = "single" THEN {a} ELSE {})
      /\ subnetList' = subnetList \cup
           (IF Reached(a) /\ mode = "subnet" THEN {SubnetOf[a]} \ {NoSubnet} ELSE {})
      /\ Goto(h, IF Reached(a) THEN "saving" ELSE "idle")
      /\ UNCHANGED <<now, visitors, mode, file, served>>

\* A faulty RecordViolation that unlocks only with the listing.
RecordAndHold(h) == Record(h) /\ holder' = h

\* saveToFile is called with mu still held.
RecordViolation(h) ==
  /\ Record(h)
  /\ holder' = IF Reached(ip[h]) THEN h ELSE NoOne

RecordNothing(h) ==
  /\ pc[h] = "record"
  /\ mode = "off"
  /\ Goto(h, "idle")
  /\ UNCHANGED <<now, visitors, listVars, served>>

(* The daily cleanup deletes the violations whose count is zero.           *)
CleanupViolations ==
  /\ holder = NoOne
  /\ violations' = Restrict(violations,
                           {a \in DOMAIN violations : violations[a] # 0})
  /\ UNCHANGED <<now, visitors, mode, holder, blacklist, subnetList, file,
                 pc, ip, served>>

LongestWindow == CHOOSE w \in {Window[r] : r \in Rules} : \A r \in Rules : Window[r] <= w

(* The hourly cleanup, which looks at the windows of all rules.            *)
Cleanup ==
  LET kept == {a \in DOMAIN visitors : now - visitors[a].firstSeen <= LongestWindow}
  IN  /\ kept # DOMAIN visitors
      /\ visitors' = Restrict(visitors, kept)
      /\ UNCHANGED <<now, listVars, pc, ip, served>>

-----------------------------------------------------------------------------
Serve(h) == ReadSection(h) \/ Count(h) \/ RecordViolation(h) \/ RecordNothing(h)

Next ==
  \/ Tick
  \/ Cleanup \/ CleanupViolations
  \/ Restart
  \/ \E h \in Handlers : Arrive(h) \/ Serve(h)

Spec == Init /\ [][Next]_vars

(* The scheduler runs every handler that can run, and Go's mutexes do not  *)
(* starve a goroutine that waits.                                          *)
Fairness == \A h \in Handlers : SF_vars(ReadSection(h)) /\ SF_vars(RecordViolation(h))
              /\ WF_vars(Count(h)) /\ WF_vars(RecordNothing(h))

FairSpec == Spec /\ Fairness

-----------------------------------------------------------------------------
Total(a, from, to) ==
  Cardinality({i \in DOMAIN served[a] : served[a][i] \in from .. to})

(* In any stretch of time as long as the shortest of the enabled windows   *)
(* an address is served at most twice the limit of that rule: once at the  *)
(* end of one window and once at the start of the next, whatever the order *)
(* of the rules, the resets by the others and the cleanup in between.      *)
ShortWindowBound ==
  \A r \in Enabled :
    (\A q \in Enabled : Window[r] <= Window[q]) =>
      \A a \in IPs \ Whitelist, t \in Times : Total(a, t, t + Window[r]) <= 2 * Limit[r]

(* A request is rejected only if its address was really served as often as *)
(* the lowest limit allows, no longer ago than the longest enabled window, *)
(* although rejected requests are counted by the rules before the one that *)
(* is exhausted and a reset may fall between two rules.                    *)
RejectionEarned ==
  [][\A h \in Handlers : pc[h] = "count" /\ pc'[h] = "record" =>
       \E r, q \in Enabled :
         Total(ip[h], Max({0, now - Window[q]}), now) >= Limit[r]]_vars

(* Nobody is refused without a cause, and the causes that do not depend on *)
(* reading the file always tell, whatever restarts, daily cleanups and     *)
(* read errors came before: an address is refused only if the              *)
(* configuration or the file lists it, or if it has been rejected          *)
(* Threshold times since the process started, or shares a subnet with such *)
(* a one; and for the first and the last of these it is, even if it is on  *)
(* the whitelist.                                                          *)
InFile(a) ==
  \E e \in file.entries :
    IF e.type = "subnet" THEN e.ip = SubnetOf[a] ELSE e.ip = a

Offender(a) == Violations(a) > 0 /\ Violations(a) >= Threshold

Offends(a) ==
  \/ mode = "single" /\ Offender(a)
  \/ mode = "subnet" /\ SubnetOf[a] # NoSubnet
       /\ \E b \in IPs : SubnetOf[b] = SubnetOf[a] /\ Offender(b)

RefusedForCause ==
  \A a \in IPs :
    /\ Blocked(a) => a \in Configured \/ InFile(a) \/ Offends(a)
    /\ a \in Configured \/ Offends(a) => Blocked(a)

(* Every request is answered as long as no handler is inside saveToFile:   *)
(* neither the two locks nor the order in which they are taken block one.  *)
AnsweredUnlessSaving ==
  \A h \in Handlers :
    pc[h] # "idle" ~> pc[h] = "idle" \/ \E g \in Handlers : pc[g] = "saving"

(* A request has to satisfy all enabled rules (readme.md:292): of no rule  *)
(* is an address served more than the limit, in two adjacent windows, of   *)
(* any stretch of time as long as its window.                              *)
EveryRuleBound ==
  \A r \in Enabled, a \in IPs \ Whitelist, t \in Times :
    Total(a, t, t + Window[r]) <= 2 * Limit[r]

(* What is put on the blacklist is saved to the file (readme.md:380), from *)
(* which a restart loads it again (readme.md:381): as long as it stays     *)
(* listed it gets there, in a form that loadFromFile can read.             *)
BlacklistSaved ==
  \A a \in IPs \ Configured :
    a \in blacklist ~>
      a \notin blacklist \/ \E read \in Readable(file) : a \in IPsIn(read)
=============================================================================
