------------------------------ MODULE Timeout ------------------------------
(***************************************************************************)
(* TimeoutMiddleware of internal/middleware/timeout.go: the goroutine of   *)
(* net/http that waits for the deadline, the goroutine it starts for the   *)
(* rest of the chain, and the http.ResponseWriter both write to.  Between  *)
(* them and the connection stands the responseWriter of the logger, whose  *)
(* WriteHeader lets only the first call through.                           *)
(*                                                                         *)
(* A step is one access to what the two share: rw.written, wroteHeader, or *)
(* the connection.  None of it is synchronized, so the steps of the two    *)
(* may come in any order; a load of the one-byte written that sees an old  *)
(* value is a load that comes before the store.                            *)
(***************************************************************************)
EXTENDS Naturals, Sequences

CONSTANT
  MaxChunks   \* bound: how many chunks a stream has

VARIABLES
  limited,      \* whether the timeout that goes with the Accept header is set
  wantsStream,  \* whether req.Stream is set
  expired,      \* ctx.Err() is DeadlineExceeded
  gone,         \* the client went away before that: ctx.Err() is Canceled
  mw,           \* where the middleware stands
  hd,           \* where the goroutine of the handler stands
  says,         \* what the handler has to say: an answer or an error
  written,      \* rw.written
  wroteHeader,  \* responseWriter.wroteHeader of the logger
  wire,         \* what is sent to the client, and by whom
  late          \* whether the handler wrote when the response was finished

fixed == <<limited, wantsStream>>
ends == <<expired, gone>>
timeoutVars == <<fixed, ends, mw, hd, says, written, wroteHeader, wire, late>>

Piece(by, part) == [by |-> by, part |-> part]
Pieces == [by : {"handler", "timeout"},
           part : {"header", "answer", "error", "chunk"}]

TimeoutTypeOK ==
  /\ limited \in BOOLEAN /\ wantsStream \in BOOLEAN
  /\ expired \in BOOLEAN /\ gone \in BOOLEAN
  /\ written \in BOOLEAN /\ wroteHeader \in BOOLEAN /\ late \in BOOLEAN
  /\ expired => limited /\ ~gone
  /\ mw \in {"wait", "check", "test", "header", "body", "returned"}
  /\ hd \in {"work", "mark", "write", "test", "header", "body", "done"}
  /\ says \in {"nothing", "answer", "error"}
  /\ wire \in Seq(Pieces)

TimeoutInit ==
  /\ limited \in BOOLEAN
  /\ wantsStream \in BOOLEAN
  /\ expired = FALSE
  /\ gone = FALSE
  /\ mw = "wait"
  /\ hd = "work"
  /\ says = "nothing"
  /\ written = FALSE
  /\ wroteHeader = FALSE
  /\ wire = <<>>
  /\ late = FALSE

-----------------------------------------------------------------------------
(* The context.  cancel is deferred by the middleware, so nothing expires  *)
(* once it has returned.                                                   *)
Expire ==
  /\ limited /\ ~expired /\ ~gone
  /\ mw # "returned"
  /\ expired' = TRUE
  /\ UNCHANGED <<fixed, gone, mw, hd, says, written, wroteHeader, wire, late>>

Leave ==
  /\ ~expired /\ ~gone
  /\ mw # "returned"
  /\ gone' = TRUE
  /\ UNCHANGED <<fixed, expired, mw, hd, says, written, wroteHeader, wire, late>>

-----------------------------------------------------------------------------
(* Writing.  When the middleware has returned net/http finishes the        *)
(* response; what is written after that does not reach the client.         *)
Put(pieces) ==
  IF mw = "returned" THEN late' = TRUE /\ UNCHANGED wire
                     ELSE wire' = wire \o pieces /\ UNCHANGED late

\* A second header, or one that comes after a body, is ignored by net/http.
PutHeader(by) ==
  /\ wroteHeader' = TRUE
  /\ IF wire = <<>> \/ mw = "returned" THEN Put(<<Piece(by, "header")>>)
                                      ELSE UNCHANGED <<wire, late>>

\* net/http sends the header itself if the body comes without one.
PutBody(by, part) ==
  Put(IF wire = <<>> THEN <<Piece(by, "header"), Piece(by, part)>>
                     ELSE <<Piece(by, part)>>)

\* A faulty handler that leaves what it has to say empty.
RespondUnset ==
  /\ hd = "work"
  /\ wantsStream => limited
  /\ hd' = "mark"
  /\ UNCHANGED <<fixed, ends, mw, says, written, wroteHeader, wire, late>>

(* The handler is done with its work and has one thing to say.  A stream   *)
(* is refused under a limit: timeoutResponseWriter is no http.Flusher.     *)
(* Some answers, those of HealthCheck, Ping and ListModels, are written    *)
(* without a call of WriteHeader.                                          *)
Respond ==
  /\ hd = "work"
  /\ wantsStream => limited
  /\ says' \in IF wantsStream THEN {"error"} ELSE {"answer", "error"}
  /\ hd' \in IF says' = "answer" THEN {"mark", "write"} ELSE {"mark"}
  /\ UNCHANGED <<fixed, ends, mw, written, wroteHeader, wire, late>>

WriteChunk ==
  /\ hd = "work"
  /\ wantsStream /\ ~limited
  /\ Len(wire) <= MaxChunks
  /\ PutBody("handler", "chunk")
  /\ UNCHANGED <<fixed, ends, mw, hd, says, written, wroteHeader>>

StreamEnds ==
  /\ hd = "work"
  /\ wantsStream /\ ~limited
  /\ hd' = "done"
  /\ UNCHANGED <<fixed, ends, mw, says, written, wroteHeader, wire, late>>

\* WriteHeader and Write of timeoutResponseWriter set written first.
Mark ==
  /\ hd \in {"mark", "write"}
  /\ written' = limited
  /\ hd' = IF hd = "mark" THEN "test" ELSE "body"
  /\ UNCHANGED <<fixed, ends, mw, says, wroteHeader, wire, late>>

HandlerTest ==
  /\ hd = "test"
  /\ hd' = IF wroteHeader THEN "body" ELSE "header"
  /\ UNCHANGED <<fixed, ends, mw, says, written, wroteHeader, wire, late>>

HandlerHeader ==
  /\ hd = "header"
  /\ PutHeader("handler")
  /\ hd' = "body"
  /\ UNCHANGED <<fixed, ends, mw, says, written>>

HandlerBody ==
  /\ hd = "body"
  /\ PutBody("handler", says)
  /\ hd' = "done"
  /\ UNCHANGED <<fixed, ends, mw, says, written, wroteHeader>>

-----------------------------------------------------------------------------
(* The middleware.  Of the two cases of its select it takes any that is    *)
(* ready; without a limit it simply calls the rest of the chain.           *)
MwGoto(s) ==
  /\ mw' = s
  /\ UNCHANGED <<fixed, ends, hd, says, written, wroteHeader, wire, late>>

\* A faulty wait that is woken before the body has been written.
HandlerDoneEarly == mw = "wait" /\ hd \in {"body", "done"} /\ MwGoto("returned")

HandlerDone == mw = "wait" /\ hd = "done" /\ MwGoto("returned")

\* A faulty select that waits for the handler, whatever the context says.
IgnoreEnd == mw = "wait" /\ hd = "done" /\ expired /\ MwGoto("check")

SeeExpired == mw = "wait" /\ limited /\ expired /\ MwGoto("check")

SeeGone == mw = "wait" /\ limited /\ gone /\ MwGoto("returned")

\* A faulty test, the wrong way round.
CheckInverted == mw = "check" /\ MwGoto(IF written THEN "test" ELSE "returned")

CheckWritten == mw = "check" /\ MwGoto(IF written THEN "returned" ELSE "test")

MwTest == mw = "test" /\ MwGoto(IF wroteHeader THEN "body" ELSE "header")

MwHeader ==
  /\ mw = "header"
  /\ PutHeader("timeout")
  /\ mw' = "body"
  /\ UNCHANGED <<fixed, ends, hd, says, written>>

MwBody ==
  /\ mw = "body"
  /\ PutBody("timeout", "error")
  /\ mw' = "returned"
  /\ UNCHANGED <<fixed, ends, hd, says, written, wroteHeader>>

-----------------------------------------------------------------------------
Work == Respond \/ WriteChunk \/ StreamEnds
HandlerWrites == Mark \/ HandlerTest \/ HandlerHeader \/ HandlerBody
Middleware == HandlerDone \/ SeeExpired \/ SeeGone \/ CheckWritten
                \/ MwTest \/ MwHeader \/ MwBody

TimeoutNext == Expire \/ Leave \/ Work \/ HandlerWrites \/ Middleware

TimeoutSpec == TimeoutInit /\ [][TimeoutNext]_timeoutVars

(* The timer fires and the scheduler runs what can run.  The work is not   *)
(* sure to end: the rate limiter in this goroutine may wait for ever.      *)
TimeoutFairness ==
  /\ WF_timeoutVars(Expire)
  /\ WF_timeoutVars(HandlerWrites)
  /\ WF_timeoutVars(Middleware)

TimeoutFairSpec == TimeoutSpec /\ TimeoutFairness

-----------------------------------------------------------------------------
SaidBy(who) == {i \in DOMAIN wire : wire[i].by = who}

(* As long as the deadline has not passed and the client is there, the     *)
(* middleware waits for all of the handler's answer: nothing of it is      *)
(* written too late, and nothing is missing.                               *)
CompleteUnlessEnded ==
  mw = "returned" /\ ~expired /\ ~gone =>
    /\ hd = "done" /\ ~late
    /\ ~(wantsStream /\ ~limited) =>
         wire = <<Piece("handler", "header"), Piece("handler", says)>>

(* A client that waits is only dismissed without a word when the deadline  *)
(* fell between the handler's setting of written and its first write: by   *)
(* the time the middleware returned the handler stood there, and what it   *)
(* writes afterwards is lost.  In every other case the client has the      *)
(* beginning of an answer or the timeout error.                            *)
SilentOnlyMidAnswer ==
  limited /\ mw = "returned" /\ ~gone /\ wire = <<>> =>
    expired /\ written /\ (hd \in {"test", "header", "body"} \/ late)

(* A request under a limit ends, even if its handler never comes back.     *)
LimitedReturns == limited ~> mw = "returned"

(* The timeout error is only written if nothing of the response has been,  *)
(* as the comment at the test says: no response has two authors.           *)
OneAuthor == SaidBy("handler") = {} \/ SaidBy("timeout") = {}
=============================================================================
