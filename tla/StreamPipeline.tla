--------------------------- MODULE StreamPipeline ---------------------------
(***************************************************************************)
(* One streamed completion: the three goroutines between the gRPC stream   *)
(* and the client.                                                         *)
(*   pump     the goroutine of GRPCService.SendCompletionStream, which     *)
(*            receives from the gRPC stream and sends to responseChan      *)
(*   relay    the goroutine of ChatService.CreateCompletionStream, which   *)
(*            moves what it receives from responseChan to responses, and   *)
(*            reports an error on errors                                   *)
(*   handler  ChatHandler.handleStreamCompletion, which writes the events  *)
(* responseChan and responses are unbuffered, so sending and receiving is  *)
(* one step of both sides; errors has room for one error.  All three watch *)
(* the context of the request.                                             *)
(***************************************************************************)
EXTENDS Naturals, Sequences

CONSTANTS
  Backends,    \* the gRPC services that may serve the request
  MaxContent   \* bound: how many messages with content the stream delivers

ASSUME PipelineAssumption ==
  /\ Backends \subseteq {"gpt", "vertex"}
  /\ MaxContent \in Nat

VARIABLES
  backend,    \* the service behind this stream
  cancelled,  \* whether r.Context() is done
  received,   \* the number of messages with content received so far
  broken,     \* whether Recv failed with an error other than io.EOF
  pump,       \* where the pump stands; "closed" is close(responseChan)
  pumpItem,   \* what it is sending
  relay,      \* where the relay stands
  relayItem,  \* what it is forwarding
  errs,       \* the content of the channel errors
  handler,    \* where the handler stands
  item,       \* the event the handler took from responses
  out         \* the events written to the client

pumpVars == <<received, broken, pump, pumpItem>>
relayVars == <<relay, relayItem, errs>>
handlerVars == <<handler, item, out>>
vars == <<backend, cancelled, pumpVars, relayVars, handlerVars>>

(* Chunks carry the number of the message they come from and whether they  *)
(* announce the role of the assistant.                                     *)
Chunk(n, role) == [kind |-> "chunk", n |-> n, role |-> role]
Marker(kind) == [kind |-> kind, n |-> 0, role |-> FALSE]
Stop == Marker("stop")      \* the chunk with finish_reason "stop"
Done == Marker("done")      \* the event "[DONE]"
Error == Marker("error")    \* the event written by writeSSEError
None == Marker("none")

Chunks == {Chunk(n, role) : n \in 1 .. MaxContent, role \in BOOLEAN}

TypeOK ==
  /\ backend \in Backends
  /\ cancelled \in BOOLEAN
  /\ received \in 0 .. MaxContent
  /\ broken \in BOOLEAN
  /\ pump \in {"unborn", "check", "recv", "send", "sendLast", "sendStop", "closed"}
  /\ pumpItem \in Chunks \cup {None}
  /\ relay \in {"start", "receive", "forward", "closeErrors",
                "closeResponses", "done"}
  /\ relayItem \in Chunks \cup {Stop, None}
  /\ errs \in {"empty", "error", "closed", "errorClosed"}
  /\ handler \in {"select", "got", "gotEnd", "returned"}
  /\ item \in Chunks \cup {Stop, None}
  /\ out \in Seq(Chunks \cup {Stop, Done, Error})

Init ==
  /\ backend \in Backends
  /\ cancelled = FALSE
  /\ received = 0
  /\ broken = FALSE
  /\ pump = "unborn"
  /\ pumpItem = None
  /\ relay = "start"
  /\ relayItem = None
  /\ errs = "empty"
  /\ handler = "select"
  /\ item = None
  /\ out = <<>>

-----------------------------------------------------------------------------
(* The client goes away: net/http cancels the context of the request.      *)
Disconnect ==
  /\ ~cancelled
  /\ cancelled' = TRUE
  /\ UNCHANGED <<backend, pumpVars, relayVars, handlerVars>>

(* net/http cancels the context as well once the handler has returned.     *)
FinishRequest ==
  /\ handler = "returned"
  /\ ~cancelled
  /\ cancelled' = TRUE
  /\ UNCHANGED <<backend, pumpVars, relayVars, handlerVars>>

-----------------------------------------------------------------------------
(***************************************************************************)
(* The pump.  It looks at the context between messages only; Recv itself   *)
(* fails once the context of the stream is done.                           *)
(***************************************************************************)
PumpCheck ==
  /\ pump = "check"
  /\ pump' = IF cancelled THEN "closed" ELSE "recv"
  /\ UNCHANGED <<backend, cancelled, received, broken, pumpItem, relayVars, handlerVars>>

\* A faulty isFirstChunk that is not cleared after the first chunk.
AlwaysFirst == TRUE

\* isFirstChunk, and whether fullContent is still empty.
IsFirst == received = 0
NoContent == received = 0

\* A faulty receive that sends the number of the message before.
RecvStale ==
  /\ pump = "recv"
  /\ received < MaxContent
  /\ received' = received + 1
  /\ pumpItem' = Chunk(received, IsFirst)
  /\ pump' = "send"
  /\ UNCHANGED <<backend, cancelled, broken, relayVars, handlerVars>>

\* A message with content and a status other than 204.
RecvContent ==
  /\ pump = "recv"
  /\ received < MaxContent
  /\ received' = received + 1
  /\ pumpItem' = Chunk(received + 1, IsFirst)
  /\ pump' = "send"
  /\ UNCHANGED <<backend, cancelled, broken, relayVars, handlerVars>>

\* A message without one is logged and skipped.
RecvIncomplete ==
  /\ pump = "recv"
  /\ pump' = "check"
  /\ UNCHANGED <<backend, cancelled, received, broken, pumpItem, relayVars, handlerVars>>

\* Status 204 with content: the last chunk, then the stop chunk.  The code
\* for Vertex gives this chunk no role even when it is the first.
RecvLast ==
  /\ pump = "recv"
  /\ received < MaxContent
  /\ received' = received + 1
  /\ pumpItem' = Chunk(received + 1, IsFirst /\ backend = "gpt")
  /\ pump' = "sendLast"
  /\ UNCHANGED <<backend, cancelled, broken, relayVars, handlerVars>>

\* Status 204 without content.
RecvFinal ==
  /\ pump = "recv"
  /\ pump' = "sendStop"
  /\ UNCHANGED <<backend, cancelled, received, broken, pumpItem, relayVars, handlerVars>>

\* Recv returns io.EOF, or an error that is only logged.  The code for
\* Vertex still sends a stop chunk if there has been any content.
RecvEnds ==
  /\ pump = "recv"
  /\ pump' = IF backend = "vertex" /\ ~NoContent THEN "sendStop" ELSE "closed"
  /\ broken' \in BOOLEAN
  /\ UNCHANGED <<backend, cancelled, received, pumpItem, relayVars, handlerVars>>

Recv == RecvContent \/ RecvIncomplete \/ RecvLast \/ RecvFinal \/ RecvEnds

\* What follows the send the pump is at.
AfterSend ==
  CASE pump = "send" -> "check"
    [] pump = "sendLast" -> "sendStop"
    [] pump = "sendStop" -> "closed"

Sending == pump \in {"send", "sendLast", "sendStop"}

\* A faulty send with a default branch: the item is dropped when the relay
\* is not there to take it.
DropItem ==
  /\ Sending
  /\ relay # "receive"
  /\ pump' = AfterSend
  /\ pumpItem' = None
  /\ UNCHANGED <<backend, cancelled, received, broken, relayVars, handlerVars>>

\* A faulty send that does not watch the context.
SendBlocks == FALSE /\ UNCHANGED vars

\* select { case responseChan <- response: case <-ctx.Done(): return }
SendCancelled ==
  /\ Sending
  /\ cancelled
  /\ pump' = "closed"
  /\ pumpItem' = None
  /\ UNCHANGED <<backend, cancelled, received, broken, relayVars, handlerVars>>

\* The pump's send meets the relay's receive.
PumpToRelay ==
  /\ Sending
  /\ relay = "receive"
  /\ relayItem' = IF pump = "sendStop" THEN Stop ELSE pumpItem
  /\ relay' = "forward"
  /\ pump' = AfterSend
  /\ pumpItem' = None
  /\ UNCHANGED <<backend, cancelled, received, broken, errs, handlerVars>>

-----------------------------------------------------------------------------
(***************************************************************************)
(* The relay.  Its deferred calls close errors first, then responses.      *)
(***************************************************************************)
\* SendCompletionStream returns a channel and the pump is running ...
StreamStarts ==
  /\ relay = "start"
  /\ relay' = "receive"
  /\ pump' = "check"
  /\ UNCHANGED <<backend, cancelled, received, broken, pumpItem, relayItem, errs, handlerVars>>

\* ... or an error, which is reported.
StreamFails ==
  /\ relay = "start"
  /\ relay' = "closeErrors"
  /\ errs' = "error"
  /\ UNCHANGED <<backend, cancelled, pumpVars, relayItem, handlerVars>>

\* The relay's send meets the handler's receive.
RelayToHandler ==
  /\ relay = "forward"
  /\ handler = "select"
  /\ item' = relayItem
  /\ handler' = "got"
  /\ relay' = "receive"
  /\ relayItem' = None
  /\ UNCHANGED <<backend, cancelled, pumpVars, errs, out>>

\* A faulty send that does not watch the context.
ForwardBlocks == FALSE /\ UNCHANGED vars

RelayCancelled ==
  /\ relay = "forward"
  /\ cancelled
  /\ errs' = "error"
  /\ relay' = "closeErrors"
  /\ relayItem' = None
  /\ UNCHANGED <<backend, cancelled, pumpVars, handlerVars>>

\* responseChan is closed and the loop over it ends.
RelayEnds ==
  /\ relay = "receive"
  /\ pump = "closed"
  /\ relay' = "closeErrors"
  /\ UNCHANGED <<backend, cancelled, pumpVars, relayItem, errs, handlerVars>>

CloseErrors ==
  /\ relay = "closeErrors"
  /\ errs' = IF errs = "error" THEN "errorClosed" ELSE "closed"
  /\ relay' = "closeResponses"
  /\ UNCHANGED <<backend, cancelled, pumpVars, relayItem, handlerVars>>

\* A faulty relay that forgets close(responses).
LeaveOpen == FALSE /\ UNCHANGED vars

CloseResponses ==
  /\ relay = "closeResponses"
  /\ relay' = "done"
  /\ UNCHANGED <<backend, cancelled, pumpVars, relayItem, errs, handlerVars>>

-----------------------------------------------------------------------------
(***************************************************************************)
(* The handler.  Of the cases of its select that are ready it takes any.   *)
(* The nil that a closed and empty errors delivers changes nothing: the    *)
(* loop goes round.                                                        *)
(***************************************************************************)
Return(events) ==
  /\ handler' = "returned"
  /\ item' = None
  /\ out' = out \o events

HandlerCancelled ==
  /\ handler = "select"
  /\ cancelled
  /\ Return(<<>>)
  /\ UNCHANGED <<backend, cancelled, pumpVars, relayVars>>

\* The error is written, if the client's connection still takes it.
HandlerError ==
  /\ handler = "select"
  /\ errs \in {"error", "errorClosed"}
  /\ errs' = IF errs = "error" THEN "empty" ELSE "closed"
  /\ \E sent \in BOOLEAN : Return(IF sent THEN <<Error>> ELSE <<>>)
  /\ UNCHANGED <<backend, cancelled, pumpVars, relay, relayItem>>

\* The receive from the closed channel responses.
HandlerSeesEnd ==
  /\ handler = "select"
  /\ relay = "done"
  /\ handler' = "gotEnd"
  /\ UNCHANGED <<backend, cancelled, pumpVars, relayVars, item, out>>

\* A faulty end that writes "[DONE]" without another look at the context.
FinishBlindly ==
  /\ handler = "gotEnd"
  /\ Return(<<Done>>)
  /\ UNCHANGED <<backend, cancelled, pumpVars, relayVars>>

Finish ==
  /\ handler = "gotEnd"
  /\ Return(IF cancelled THEN <<>> ELSE <<Done>>)
  /\ UNCHANGED <<backend, cancelled, pumpVars, relayVars>>

\* The chunk is written, unless the context is done.
Write ==
  /\ handler = "got"
  /\ IF cancelled
       THEN Return(<<>>)
       ELSE /\ handler' = "select"
            /\ item' = None
            /\ out' = Append(out, item)
  /\ UNCHANGED <<backend, cancelled, pumpVars, relayVars>>

\* writeSSEChunk returns an error and the handler gives up.
WriteFails ==
  /\ handler \in {"got", "gotEnd"}
  /\ ~cancelled
  /\ Return(<<>>)
  /\ UNCHANGED <<backend, cancelled, pumpVars, relayVars>>

-----------------------------------------------------------------------------
Pump == PumpCheck \/ Recv \/ SendCancelled
Relay == StreamStarts \/ StreamFails \/ RelayCancelled \/ RelayEnds
           \/ CloseErrors \/ CloseResponses
Handler == HandlerCancelled \/ HandlerError \/ HandlerSeesEnd \/ Finish
             \/ Write \/ WriteFails

Next == Disconnect \/ FinishRequest
          \/ Pump \/ PumpToRelay \/ Relay \/ RelayToHandler \/ Handler

Spec == Init /\ [][Next]_vars

(***************************************************************************)
(* The scheduler runs every goroutine that can run; SendCompletionStream   *)
(* returns, by the time limit of the pool and the context of the call.     *)
(* Recv is sure to return only once the context is done, and then fails;   *)
(* a stream that is not cancelled may stay silent for ever.                *)
(***************************************************************************)
Fairness ==
  /\ WF_vars(FinishRequest)
  /\ WF_vars(PumpCheck) /\ WF_vars(SendCancelled)
  /\ WF_vars(cancelled /\ RecvEnds)
  /\ WF_vars(PumpToRelay)
  /\ WF_vars(Relay)
  /\ WF_vars(RelayToHandler)
  /\ WF_vars(Handler)

FairSpec == Spec /\ Fairness

-----------------------------------------------------------------------------
Written(kind) == {i \in DOMAIN out : out[i].kind = kind}

(* The client sees the content in the order it was received, with nothing  *)
(* missing in between: three goroutines hand every chunk on, and none      *)
(* overtakes or loses one while the handler still writes.                  *)
ContentInOrder ==
  \A i \in DOMAIN out : out[i].kind = "chunk" => out[i].n = i

(* "[DONE]" tells the client that it has everything: it is only written    *)
(* after all of the content that was received, although the pump and the   *)
(* relay drop what they hold when the context ends.                        *)
DoneAfterContent ==
  Written("done") # {} => Written("chunk") = 1 .. received

(* The three goroutines together deliver a stream: what they do to the     *)
(* content, the order, the role, the stop chunk and "[DONE]" is a step of  *)
(* StreamDelivery or nothing the client can see.                           *)
Over ==
  \/ pump \in {"sendLast", "sendStop", "closed"}
  \/ pump = "unborn" /\ relay # "start"

Delivery == INSTANCE StreamDelivery WITH
  over <- Over,
  finished <- handler = "returned"

ImplementsDelivery == Delivery!DeliverySpec

(* A request whose context ends leaves no goroutine behind, wherever the   *)
(* three of them stand at that moment.                                     *)
NoGoroutineLeft ==
  cancelled ~> /\ handler = "returned"
               /\ relay = "done"
               /\ pump \in {"unborn", "closed"}

(* When the gRPC stream is over the handler returns, with the client's     *)
(* connection still there or not.                                          *)
StreamEndReturns == pump = "closed" ~> handler = "returned"

(* "[DONE]" is written when the stream has ended normally, as the comment  *)
(* above the write says: never while an error is waiting in errors, and    *)
(* never after Recv has failed.                                            *)
DoneMeansNoError ==
  Written("done") # {} => errs \notin {"error", "errorClosed"} /\ ~broken
=============================================================================
