---------------------------- MODULE ChatResponse ----------------------------
(***************************************************************************)
(* One request from the middleware to the wire: TimeoutMiddleware, and     *)
(* inside it handleStreamCompletion with the two goroutines behind it, if  *)
(* the request is for a stream and no timeout is set.  What the handler of *)
(* StreamPipeline writes is then what Timeout calls a chunk, its return is *)
(* the return of the rest of the chain, and the client that leaves is the  *)
(* same for both.  Every other request has one thing to say, and the       *)
(* pipeline does not start.                                                *)
(***************************************************************************)
EXTENDS StreamPipeline, Timeout

\* The bound of Timeout leaves room for all that the pipeline may write:
\* the content, the stop chunk and "[DONE]" or an error.
ASSUME ChatAssumption == MaxChunks \in Nat /\ MaxChunks >= MaxContent + 2

chatVars == <<vars, timeoutVars>>

Streams == wantsStream /\ ~limited

ChatInit == Init /\ TimeoutInit

-----------------------------------------------------------------------------
(* A request that is not streamed, or under a limit.                       *)
Limit == ~Streams /\ Expire /\ UNCHANGED vars
ClientLeaves == ~Streams /\ Leave /\ UNCHANGED vars
OneReply == ~Streams /\ Respond /\ UNCHANGED vars
ReplyIsWritten == ~Streams /\ HandlerWrites /\ UNCHANGED vars
Watch == Middleware /\ UNCHANGED vars

-----------------------------------------------------------------------------
(* A stream.                                                               *)
Behind(step) == Streams /\ step /\ UNCHANGED timeoutVars

\* handleStreamCompletion writes an event or does not.
StreamHandler ==
  /\ Streams
  /\ Handler
  /\ IF out' = out THEN UNCHANGED timeoutVars ELSE WriteChunk

StreamReturns == Streams /\ handler = "returned" /\ StreamEnds /\ UNCHANGED vars

ReaderLeaves == Streams /\ Disconnect /\ Leave

\* The context of the request ends when the whole chain has returned.
RequestEnds == Streams /\ mw = "returned" /\ FinishRequest /\ UNCHANGED timeoutVars

-----------------------------------------------------------------------------
ChatNext ==
  \/ Limit \/ ClientLeaves \/ OneReply \/ ReplyIsWritten \/ Watch
  \/ Behind(Pump) \/ Behind(PumpToRelay) \/ Behind(Relay) \/ Behind(RelayToHandler)
  \/ StreamHandler \/ StreamReturns \/ ReaderLeaves \/ RequestEnds

ChatSpec == ChatInit /\ [][ChatNext]_chatVars

\* The fairness of both parts, each for its own reasons.
ChatFairness ==
  /\ WF_chatVars(Limit) /\ WF_chatVars(ReplyIsWritten) /\ WF_chatVars(Watch)
  /\ WF_chatVars(Behind(PumpCheck)) /\ WF_chatVars(Behind(SendCancelled))
  /\ WF_chatVars(Behind(cancelled /\ RecvEnds))
  /\ WF_chatVars(Behind(PumpToRelay))
  /\ WF_chatVars(Behind(Relay))
  /\ WF_chatVars(Behind(RelayToHandler))
  /\ WF_chatVars(StreamHandler) /\ WF_chatVars(StreamReturns)
  /\ WF_chatVars(RequestEnds)

ChatFairSpec == ChatSpec /\ ChatFairness

-----------------------------------------------------------------------------
(* A request for a stream is over in the end if its gRPC stream is, the    *)
(* client there or not: the middleware has returned, the context is        *)
(* cancelled, and the relay is not left behind with a chunk in its hands.  *)
StreamIsOver ==
  Streams /\ pump = "closed" ~>
    mw = "returned" /\ cancelled /\ relay = "done"
=============================================================================
