------------------------------- MODULE Logger -------------------------------
(***************************************************************************)
(* What the Logger middleware does around a request                        *)
(* (internal/middleware/logger.go), and the counters it keeps for          *)
(* HealthCheck (internal/handler/health.go): IncrementCounter adds to four *)
(* counters one after the other, two tickers reset them in pairs, and      *)
(* HealthCheck loads them one after the other.                             *)
(* After the request its line goes through a bufio.Writer under logMutex.  *)
(* With LOG_FILE the log package writes to the same bufio.Writer under a   *)
(* lock of its own.                                                        *)
(***************************************************************************)
EXTENDS Integers, SequencesExt

CONSTANTS
  Requests,   \* the requests that come
  MaxTicks,   \* bound: how often the tickers fire
  MaxStd      \* bound: lines of the log package

Windows == {"minute", "second"}

Free == "free"
StdLine == "std"
Blank == "blank"
Capacity == Cardinality(Requests) + MaxStd   \* all the lines there may be
Lines == Requests \cup {StdLine, Blank}

ASSUME LoggerAssumption ==
  /\ IsFiniteSet(Requests) /\ Requests \cap {Free, StdLine, Blank} = {}
  /\ MaxTicks \in Nat
  /\ MaxStd \in Nat

VARIABLES
  API,        \* the requests whose path has API_PREFIX
  total,      \* totalRequests and totalPerSec
  api,        \* apiRequests and apiPerSec
  ticker,     \* where each ticker stands
  ticks,      \* how often they have fired
  straddled,  \* history: the API requests that a reset of total came between
  report,     \* what each request has loaded, if it runs HealthCheck
  slack,      \* history: how far api may get ahead of the total it has loaded
  pc,         \* where each request stands
  logFile,    \* whether there is a LOG_FILE
  holder,     \* who has logMutex
  buf,        \* the memory of bufWriter, in lines
  n,          \* bufWriter.n: how many of them count
  wrote,      \* how many of them the running Flush has written
  failed,     \* bufWriter.err, which stays
  out,        \* the lines written to the output
  order,      \* history: the requests in the order in which they had logMutex
  std,        \* where a goroutine in log.Printf stands
  stdLines    \* how many such lines there were

health == <<report, slack>>
counters == <<total, api, ticker, ticks, straddled, health>>
writer == <<holder, buf, n, wrote, failed, out, order>>
others == <<API, logFile, std, stdLines>>
vars == <<counters, pc, writer, others>>

Zero == [w \in Windows |-> 0]
NoReport == [total |-> Zero, api |-> Zero]

-----------------------------------------------------------------------------
Goto(r, l) == pc' = [pc EXCEPT ![r] = l]

Init ==
  /\ API \in SUBSET Requests
  /\ total = Zero
  /\ api = Zero
  /\ ticker = [w \in Windows |-> "idle"]
  /\ ticks = 0
  /\ straddled = [w \in Windows |-> {}]
  /\ report = [r \in Requests |-> NoReport]
  /\ slack = [r \in Requests |-> Zero]
  /\ pc = [r \in Requests |-> "totalMinute"]
  /\ logFile \in BOOLEAN
  /\ holder = Free
  /\ buf = [i \in 1 .. Capacity |-> Blank]
  /\ n = 0
  /\ wrote = 0
  /\ failed = FALSE
  /\ out = <<>>
  /\ order = <<>>
  /\ std = "idle"
  /\ stdLines = 0

\* The requests that have loaded total but not yet api.
Loading(w) ==
  {r \in Requests : pc[r] \in (IF w = "minute" THEN {"loadTotalSecond", "loadAPIMinute"}
                                               ELSE {"loadAPIMinute", "loadAPISecond"})}

\* What r adds to total[w] now is missing in what they have loaded.
MissedBy(r, w) ==
  slack' = [q \in Requests |-> IF r \in API /\ q \in Loading(w)
                                 THEN [slack[q] EXCEPT ![w] = @ + 1] ELSE slack[q]]

(* IncrementCounter: four atomic additions, two of them for the API.       *)
AddTotalMinute(r) ==
  /\ pc[r] = "totalMinute"
  /\ total' = [total EXCEPT !["minute"] = @ + 1]
  /\ MissedBy(r, "minute")
  /\ Goto(r, "totalSecond")
  /\ UNCHANGED <<api, ticker, ticks, straddled, report, writer, others>>

\* Faulty: every request counts as one of the API.
AddTotalSecondForAPI(r) ==
  /\ pc[r] = "totalSecond"
  /\ total' = [total EXCEPT !["second"] = @ + 1]
  /\ MissedBy(r, "second")
  /\ Goto(r, "apiMinute")
  /\ UNCHANGED <<api, ticker, ticks, straddled, report, writer, others>>

AddTotalSecond(r) ==
  /\ pc[r] = "totalSecond"
  /\ total' = [total EXCEPT !["second"] = @ + 1]
  /\ MissedBy(r, "second")
  /\ Goto(r, IF r \in API THEN "apiMinute" ELSE "serve")
  /\ UNCHANGED <<api, ticker, ticks, straddled, report, writer, others>>

AddAPIMinute(r) ==
  /\ pc[r] = "apiMinute"
  /\ api' = [api EXCEPT !["minute"] = @ + 1]
  /\ Goto(r, "apiSecond")
  /\ UNCHANGED <<total, ticker, ticks, straddled, health, writer, others>>

AddAPISecond(r) ==
  /\ pc[r] = "apiSecond"
  /\ api' = [api EXCEPT !["second"] = @ + 1]
  /\ Goto(r, "serve")
  /\ UNCHANGED <<total, ticker, ticks, straddled, health, writer, others>>

\* The API requests that have added to total but not yet to api.
Between(w) ==
  {r \in API : pc[r] \in (IF w = "minute" THEN {"totalSecond", "apiMinute"}
                                          ELSE {"apiMinute", "apiSecond"})}

\* Faulty: the stores the other way round.
ResetAPIFirst(w) ==
  \/ /\ ticker[w] = "idle"
     /\ ticks < MaxTicks
     /\ api' = [api EXCEPT ![w] = 0]
     /\ ticker' = [ticker EXCEPT ![w] = "api"]
     /\ ticks' = ticks + 1
     /\ UNCHANGED <<total, straddled, health, pc, writer, others>>
  \/ /\ ticker[w] = "api"
     /\ total' = [total EXCEPT ![w] = 0]
     /\ straddled' = [straddled EXCEPT ![w] = Between(w)]
     /\ ticker' = [ticker EXCEPT ![w] = "idle"]
     /\ UNCHANGED <<api, ticks, health, pc, writer, others>>

(* ResetMinuteCounters and ResetSecondCounters: two stores.                *)
Reset(w) ==
  \/ /\ ticker[w] = "idle"
     /\ ticks < MaxTicks
     /\ total' = [total EXCEPT ![w] = 0]
     /\ straddled' = [straddled EXCEPT ![w] = Between(w)]
     /\ ticker' = [ticker EXCEPT ![w] = "api"]
     /\ ticks' = ticks + 1
     /\ UNCHANGED <<api, health, pc, writer, others>>
  \/ /\ ticker[w] = "api"
     /\ api' = [api EXCEPT ![w] = 0]
     /\ ticker' = [ticker EXCEPT ![w] = "idle"]
     /\ UNCHANGED <<total, straddled, ticks, health, pc, writer, others>>

(* HealthCheck: four loads, and the answer made of them.                   *)
LoadTotal(r, w) ==
  /\ report' = [report EXCEPT ![r].total[w] = total[w]]
  /\ slack' = [slack EXCEPT ![r][w] =
                 Cardinality(straddled[w]) + (IF ticker[w] = "api" THEN api[w] ELSE 0)]

LoadAPI(r, w) ==
  /\ report' = [report EXCEPT ![r].api[w] = api[w]]
  /\ UNCHANGED slack

HealthCheck(r) ==
  /\ \/ pc[r] = "serve" /\ LoadTotal(r, "minute") /\ Goto(r, "loadTotalSecond")
     \/ pc[r] = "loadTotalSecond" /\ LoadTotal(r, "second") /\ Goto(r, "loadAPIMinute")
     \/ pc[r] = "loadAPIMinute" /\ LoadAPI(r, "minute") /\ Goto(r, "loadAPISecond")
     \/ pc[r] = "loadAPISecond" /\ LoadAPI(r, "second") /\ Goto(r, "answered")
  /\ UNCHANGED <<total, api, ticker, ticks, straddled, writer, others>>

-----------------------------------------------------------------------------
\* The rest of the chain, HealthCheck or another handler, has served the
\* request; what it has loaded is of no use any more.
Lock(r) ==
  /\ pc[r] \in {"serve", "answered"}
  /\ holder = Free
  /\ holder' = r
  /\ order' = Append(order, r)
  /\ Goto(r, "copy")
  /\ report' = [report EXCEPT ![r] = NoReport]
  /\ slack' = [slack EXCEPT ![r] = Zero]
  /\ UNCHANGED <<total, api, ticker, ticks, straddled, buf, n, wrote, failed, out, others>>

(* bufio.Writer.Write copies behind the first n lines and then counts the  *)
(* line; after an error it does nothing.  What is not counted stays in the *)
(* memory until it is copied over.                                         *)
Copied(line) == IF failed THEN buf ELSE [buf EXCEPT ![n + 1] = line]
Counted == IF failed THEN n ELSE n + 1

Copy(r) ==
  /\ pc[r] = "copy"
  /\ buf' = Copied(r)
  /\ Goto(r, "count")
  /\ UNCHANGED <<counters, holder, n, wrote, failed, out, order, others>>

\* Faulty: the lock is let go before Flush.
CountAndUnlock(r) ==
  /\ pc[r] = "count"
  /\ n' = Counted
  /\ holder' = Free
  /\ Goto(r, "flush")
  /\ UNCHANGED <<counters, buf, wrote, failed, out, order, others>>

Count(r) ==
  /\ pc[r] = "count"
  /\ n' = Counted
  /\ Goto(r, "flush")
  /\ UNCHANGED <<counters, holder, buf, wrote, failed, out, order, others>>

(* Flush writes the n lines or fails, and a failure stays.  If there are   *)
(* more lines after that than it has written, it takes this for a failure  *)
(* as well, and keeps the rest.                                            *)
Flush(r) ==
  /\ pc[r] = "flush"
  /\ \/ /\ ~failed
        /\ out' = out \o SubSeq(buf, 1, n)
        /\ wrote' = n
        /\ UNCHANGED failed
     \/ /\ failed' = TRUE
        /\ wrote' = 0
        /\ UNCHANGED out
  /\ Goto(r, "forget")
  /\ UNCHANGED <<counters, holder, buf, n, order, others>>

Forget(r) ==
  /\ pc[r] = "forget"
  /\ failed' = (failed \/ wrote < n)
  /\ n' = n - wrote
  /\ buf' = [i \in 1 .. Capacity |->
               IF failed' /\ i + wrote <= n THEN buf[i + wrote] ELSE buf[i]]
  /\ Goto(r, "unlock")
  /\ UNCHANGED <<counters, holder, wrote, out, order, others>>

Unlock(r) ==
  /\ pc[r] = "unlock"
  /\ holder' = Free
  /\ Goto(r, "done")
  /\ UNCHANGED <<counters, buf, n, wrote, failed, out, order, others>>

(* log.Printf, anywhere in the program, with log.SetOutput(bufWriter): it  *)
(* does not take logMutex, and its addition to n races with the others.    *)
StdCopy ==
  /\ logFile
  /\ std = "idle"
  /\ stdLines < MaxStd
  /\ buf' = Copied(StdLine)
  /\ std' = "count"
  /\ stdLines' = stdLines + 1
  /\ UNCHANGED <<counters, pc, holder, n, wrote, failed, out, order, API, logFile>>

StdCount ==
  /\ std = "count"
  /\ n' = Counted \/ (holder # Free /\ n' = n)
  /\ std' = "idle"
  /\ UNCHANGED <<counters, pc, holder, buf, wrote, failed, out, order, API, logFile, stdLines>>

Next ==
  \/ \E r \in Requests :
       \/ AddTotalMinute(r) \/ AddTotalSecond(r) \/ AddAPIMinute(r) \/ AddAPISecond(r)
       \/ HealthCheck(r)
       \/ Lock(r) \/ Copy(r) \/ Count(r) \/ Flush(r) \/ Forget(r) \/ Unlock(r)
  \/ \E w \in Windows : Reset(w)
  \/ StdCopy \/ StdCount

Spec == Init /\ [][Next]_vars

-----------------------------------------------------------------------------
TypeOK ==
  /\ API \subseteq Requests
  /\ total \in [Windows -> Nat]
  /\ api \in [Windows -> Nat]
  /\ ticker \in [Windows -> {"idle", "api"}]
  /\ ticks \in 0 .. MaxTicks
  /\ straddled \in [Windows -> SUBSET API]
  /\ report \in [Requests -> [total : [Windows -> Nat], api : [Windows -> Nat]]]
  /\ slack \in [Requests -> [Windows -> Nat]]
  /\ pc \in [Requests -> {"totalMinute", "totalSecond", "apiMinute", "apiSecond", "serve",
                          "loadTotalSecond", "loadAPIMinute", "loadAPISecond", "answered",
                          "copy", "count", "flush", "forget", "unlock", "done"}]
  /\ \A r \in Requests : pc[r] \in {"apiMinute", "apiSecond"} => r \in API
  /\ logFile \in BOOLEAN
  /\ holder \in Requests \cup {Free}
  /\ buf \in [1 .. Capacity -> Lines]
  /\ n \in 0 .. Capacity
  /\ wrote \in 0 .. Capacity
  /\ failed \in BOOLEAN
  /\ out \in Seq(Lines)
  /\ order \in Seq(Requests)
  /\ std \in {"idle", "count"}
  /\ stdLines \in 0 .. MaxStd

(* The api_rpm and api_rps that HealthCheck reports may be more than its   *)
(* total_rpm and total_rps, but not by more than the API requests that the *)
(* last reset before it found between their two additions, those that came *)
(* while it was loading, and, if it came between the two stores of a       *)
(* reset, what the second of them had still to clear.                      *)
ReportBounded ==
  \A r \in Requests, w \in Windows :
    pc[r] = "answered" => report[r].api[w] <= report[r].total[w] + slack[r][w]

(* Without LOG_FILE the output is the lines of the requests, each once, in *)
(* the order in which they had logMutex; of those that have let it go none *)
(* is missing, unless a write failed: the error stays in the bufio.Writer, *)
(* and there are no more lines from then on.                               *)
LineWritten ==
  ~logFile =>
    /\ IsPrefix(out, order)
    /\ ~failed => \A r \in Requests : pc[r] = "done" => r \in ToSet(out)
=============================================================================
